-------------------------- MODULE IdScannerProofs --------------------------
(***************************************************************************)
(* Machine-checked proofs about IdScanner, for any number of callers,      *)
(* sensors and cards.                                                      *)
(***************************************************************************)
EXTENDS IdScanner, TLAPS

(* The inductive invariant that holds however callers interfere.           *)

Waiting == {"wait?", "flag?", "status?", "connect", "online?", "getStatus", "scan?"}

\* The place of a caller tells which entry point it is in, as far as opening
\* and the loop of test() are concerned.
PlaceInv ==
  \A t \in Callers :
    /\ pc[t] \in Opening => op[t] \in {"init", "test", "uninit"}
    /\ pc[t] \in Opening \ {"close?", "uninit", "clear"} => op[t] # "uninit"
    /\ op[t] = "test" => pc[t] \in {"idle"} \cup Opening \cup Waiting \cup Taking \cup Giving

\* The questions of WaitForCard that lie behind were not answered in a way
\* that ends it.
QuestionInv ==
  \A t \in Callers : pc[t] \in Waiting \ {"wait?", "scan?"} =>
    /\ probe[t] # "cover" => ~FlagIs("cover", reads[t]["cover"])
    /\ probe[t] = "entry" => ~FlagIs("path", reads[t]["path"])

\* Other settings than OpenDevice's are there only while somebody opens, or
\* before anybody did, and then nobody scans.
InOpenDevice(u) == op[u] \in {"init", "test"} /\ pc[u] \in Opening
SettingsInv ==
  gScanConf # "default" =>
    \/ \E u \in Callers : InOpenDevice(u)
    \/ ~pstPfnTab /\ \A u \in Callers : pc[u] \notin Taking

\* What has succeeded with the card, at each place of test().
CardInv ==
  \A t \in Callers : op[t] = "test" =>
    /\ pc[t] # "idle" => image[t] /\ rf[t]
    /\ pc[t] = "rfStart" => succeeded[t] = {}
    /\ pc[t] = "move" => succeeded[t] = IF ret[t] THEN {"rfStart"} ELSE {}
    /\ pc[t] = "image" => succeeded[t] = {"rfStart", "move"}
    /\ pc[t] = "rfRead" /\ ret[t] => succeeded[t] = {"rfStart", "move", "image"}
    /\ pc[t] \in Giving => succeeded[t] = {"rfStart", "move", "image"}

\* What has succeeded when ScanAndReadIdCard makes an image, whoever calls it.
ImageInv ==
  \A t \in Callers :
    /\ pc[t] = "move" /\ ret[t] /\ rf[t] => "rfStart" \in succeeded[t]
    /\ pc[t] = "image" => /\ image[t] /\ "move" \in succeeded[t]
                          /\ rf[t] => "rfStart" \in succeeded[t]

IInv ==
  /\ PlaceInv
  /\ QuestionInv
  /\ ScansOnlyReadyCards
  /\ SettingsInv
  /\ CardInv
  /\ ImageInv

\* What holds besides with one caller at a time.
SerialInv(c) ==
  /\ pc[c] = "clear" => pstPfnTab /\ ~opened
  /\ pc[c] = "entry" => ~pstPfnTab /\ ~opened
  /\ pc[c] = "entry?" => ~opened
  /\ pc[c] \in {"init", "initFail"} => pstPfnTab /\ ~opened
  /\ pc[c] \notin {"clear", "entry", "entry?", "init", "initFail"} => (pstPfnTab <=> opened)
  /\ pc[c] \in Invocations \cup {"online?"} => pstPfnTab
  /\ pc[c] = "online?" => (s_bDevOnLine <=> online)
  /\ pc[c] \in {"info", "getStatus"} => online
  /\ pc[c] = "image" => position = "scan"

-----------------------------------------------------------------------------

USE IdScannerAssumption
USE DEF driverVars, tableVars, callVars, scanVars, vars, Opening, Waiting, Taking, Giving,
        Questions

\* A step of caller t.
Step(t) == Enter(t) \/ Continue(t)

\* The variables that belong to one caller each are functions of the callers.
Functions ==
  /\ pc \in [Callers -> Pc] /\ op \in [Callers -> Ops]
  /\ image \in [Callers -> BOOLEAN] /\ rf \in [Callers -> BOOLEAN]
  /\ ret \in [Callers -> BOOLEAN] /\ probe \in [Callers -> Questions]

\* What TypeOK says of the callers.
LEMMA Typed ==
  ASSUME TypeOK
  PROVE  Functions
BY DEF TypeOK, Functions

\* A step of t changes nothing that belongs to another caller.
Own(t) ==
  \A u \in Callers \ {t} :
    /\ pc'[u] = pc[u] /\ op'[u] = op[u] /\ image'[u] = image[u] /\ rf'[u] = rf[u]
    /\ ret'[u] = ret[u] /\ probe'[u] = probe[u] /\ reads'[u] = reads[u]
    /\ succeeded'[u] = succeeded[u]

\* Every step of the scanner library stays with its caller.
LEMMA OwnStep ==
  ASSUME TypeOK, NEW t \in Callers, Step(t)
  PROVE  Own(t)
<1>. USE DEF TypeOK, Goto, Check, Invoke, Own
<1>1. CASE Enter(t)
  BY <1>1 DEF Enter
<1>2. CASE NullCall(t)
  BY <1>2 DEF NullCall
<1>3. CASE SetUserData(t)
  BY <1>3 DEF SetUserData
<1>4. CASE Forward(t)
  BY <1>4 DEF Forward, OneCall, IDS_CS_Calibrate, IDS_CS_Reset, IDS_CS_Scan, IDS_CS_ReadRF,
     IDS_CS_Connect, IDS_CS_Move, IDS_CS_GetDevInfo, IDS_CS_GetStatus, ConnectedCall
<1>5. CASE SetScan(t)
  BY <1>5 DEF SetScan
<1>6. CASE CloseDevice(t)
  BY <1>6 DEF CloseDevice
<1>7. CASE OpenDevice(t)
  BY <1>7 DEF OpenDevice, DllEntry, InitDriver, ForgetTable, ResetScanConf
<1>8. CASE WaitForCard(t)
  BY <1>8 DEF WaitForCard, Answer
<1>9. CASE GetDevStatus(t)
  BY <1>9 DEF GetDevStatus, TestTable, ConnectFirst, TestOnLine, ReadStatus, Probed, Answer
<1>10. CASE ScanAndReadIdCard(t)
  BY <1>10 DEF ScanAndReadIdCard, StartScan, StartRF, MoveToScan, ScanImage, ReadRF, AfterMove,
     Finish, Tried
<1>11. CASE BackIdCard(t)
  BY <1>11 DEF BackIdCard, Checked
<1>. QED
  BY <1>1, <1>2, <1>3, <1>4, <1>5, <1>6, <1>7, <1>8, <1>9, <1>10, <1>11 DEF Step, Continue

\* Where a step of t leads from each place.
Leads(t) ==
  /\ pc[t] = "idle" => IF op'[t] \in {"init", "test"} THEN pc'[t] = "close?" ELSE pc'[t] = "user?"
  /\ pc[t] \in {"user?", "user"} => pc'[t] \in {"user", Body(t)}
  /\ pc[t] \in {"simple?", "simple"} => pc'[t] \in {"simple", "idle"}
  /\ pc[t] \in {"info?", "infoConnect", "info"} => pc'[t] \in {"infoConnect", "info", "idle"}
  /\ pc[t] = "setScan" => pc'[t] = "idle"
  /\ pc[t] = "close?" => pc'[t] \in {"uninit", AfterClose(t)}
  /\ pc[t] = "uninit" => pc'[t] \in {"uninit", "clear"}
  /\ pc[t] = "clear" => pc'[t] = AfterClose(t)
  /\ pc[t] = "entry" => pc'[t] = "entry?"
  /\ pc[t] = "entry?" => pc'[t] \in {"init", "zero"}
  /\ pc[t] = "init" => pc'[t] \in {"init", "initFail", "zero"}
  /\ pc[t] = "initFail" => pc'[t] = "zero"
  /\ pc[t] = "zero" => pc'[t] = "conf"
  /\ pc[t] = "conf" => pc'[t] = "rest"
  /\ pc[t] = "rest" => pc'[t] \in IF op[t] = "init" THEN {"user?"} ELSE {"wait?", "idle"}
  /\ pc[t] \in Waiting \ {"scan?"} => pc'[t] \in Waiting \cup {"idle"}
  /\ pc[t] \in Waiting /\ op[t] = "test" => pc'[t] # "idle"
  /\ pc[t] = "scan?" => pc'[t] \in {"rfStart", "move", "wait?", "idle"}
  /\ pc[t] \in Taking => pc'[t] \in Taking \cup {"back?", "wait?", "idle"}
  /\ pc[t] \in Giving => pc'[t] \in {"back", "wait?", "idle"}
  /\ pc[t] \in Taking \cup Giving /\ op[t] = "test" => pc'[t] # "idle"

Control(t) ==
  /\ pc' = [pc EXCEPT ![t] = pc'[t]]
  /\ pc[t] # "idle" => op' = op /\ image' = image /\ rf' = rf
  /\ op'[t] \in Ops
  /\ Leads(t)

\* Every step goes where its caller then stands.
LEMMA ControlStep ==
  ASSUME TypeOK, NEW t \in Callers, Step(t)
  PROVE  Control(t)
<1>0. pc \in [Callers -> Pc] /\ op \in [Callers -> Ops]
  BY DEF TypeOK
<1>. USE <1>0 DEF Goto, Check, Invoke, Control, Leads, Invocations
<1>1. CASE Enter(t)
  BY <1>1 DEF Enter
<1>2. CASE NullCall(t)
  BY <1>2 DEF NullCall
<1>3. CASE SetUserData(t)
  BY <1>3 DEF SetUserData
<1>4. CASE Forward(t)
  BY <1>4 DEF Forward, OneCall, IDS_CS_Calibrate, IDS_CS_Reset, IDS_CS_Scan, IDS_CS_ReadRF,
     IDS_CS_Connect, IDS_CS_Move, IDS_CS_GetDevInfo, IDS_CS_GetStatus, ConnectedCall
<1>5. CASE SetScan(t)
  BY <1>5 DEF SetScan
<1>6. CASE CloseDevice(t)
  BY <1>6 DEF CloseDevice
<1>7. CASE OpenDevice(t)
  BY <1>7 DEF OpenDevice, DllEntry, InitDriver, ForgetTable, ResetScanConf
<1>8. CASE WaitForCard(t)
  BY <1>8 DEF WaitForCard, Answer
<1>9. CASE GetDevStatus(t)
  BY <1>9 DEF GetDevStatus, TestTable, ConnectFirst, TestOnLine, ReadStatus, Probed, Answer
<1>10. CASE ScanAndReadIdCard(t)
  BY <1>10 DEF ScanAndReadIdCard, StartScan, StartRF, MoveToScan, ScanImage, ReadRF, AfterMove,
     Finish
<1>11. CASE BackIdCard(t)
  BY <1>11 DEF BackIdCard, Checked, AfterBack
<1>. QED
  BY <1>1, <1>2, <1>3, <1>4, <1>5, <1>6, <1>7, <1>8, <1>9, <1>10, <1>11 DEF Step, Continue

\* So the places keep matching the entry points.
LEMMA PlaceStep ==
  ASSUME TypeOK, PlaceInv, NEW t \in Callers, Step(t)
  PROVE  PlaceInv' /\ pc' \in [Callers -> Pc] /\ op' \in [Callers -> Ops]
<1>0. pc \in [Callers -> Pc] /\ op \in [Callers -> Ops]
  BY DEF TypeOK
<1>1. Control(t) /\ Own(t)
  BY ControlStep, OwnStep
<1>2. op' \in [Callers -> Ops]
  <2>1. CASE Enter(t)
    BY <1>0, <2>1 DEF Enter
  <2>2. CASE Continue(t)
    BY <1>0, <2>2 DEF Continue, NullCall, SetUserData, Forward, SetScan, CloseDevice, OpenDevice,
                  WaitForCard, GetDevStatus, ScanAndReadIdCard, BackIdCard
  <2>. QED
    BY <2>1, <2>2 DEF Step
<1>3. pc'[t] \in Pc
  <2>1. Body(t) \in Pc /\ AfterClose(t) \in Pc
    BY <1>0 DEF Body, AfterClose, Ops, SimpleOps, InfoOps, Pc, Tests, Invocations
  <2>. QED
    BY <1>0, <1>1, <2>1 DEF Control, Leads, Pc, Tests, Invocations
<1>4. PlaceInv'
  <2>1. SUFFICES /\ pc'[t] \in Opening => op'[t] \in {"init", "test", "uninit"}
                 /\ pc'[t] \in Opening \ {"close?", "uninit", "clear"} => op'[t] # "uninit"
                 /\ op'[t] = "test" => pc'[t] \in {"idle"} \cup Opening \cup Waiting \cup Taking \cup Giving
    BY <1>1 DEF PlaceInv, Own
  <2>2. CASE pc[t] = "idle"
    BY <1>1, <2>2 DEF Control, Leads
  <2>3. CASE pc[t] \in {"user?", "user"}
    BY <1>0, <1>1, <2>3 DEF PlaceInv, Control, Leads, Body, Ops, SimpleOps, InfoOps
  <2>4. CASE pc[t] \in Opening
    BY <1>0, <1>1, <2>4 DEF PlaceInv, Control, Leads, AfterClose
  <2>5. CASE pc[t] \in Waiting
    BY <1>0, <1>1, <2>5 DEF PlaceInv, Control, Leads
  <2>6. CASE pc[t] \in Taking \cup Giving
    BY <1>0, <1>1, <2>6 DEF PlaceInv, Control, Leads
  <2>7. CASE pc[t] \in {"simple?", "simple", "info?", "infoConnect", "info", "setScan"}
    BY <1>0, <1>1, <2>7 DEF PlaceInv, Control, Leads
  <2>. QED
    BY <1>0, <2>2, <2>3, <2>4, <2>5, <2>6, <2>7 DEF Pc, Tests, Invocations
<1>. QED
  BY <1>0, <1>1, <1>2, <1>3, <1>4 DEF Control

\* No step accepts other settings than OpenDevice's.
LEMMA SettingsRefused ==
  ASSUME NEW t \in Callers, SetScan(t)
  PROVE  UNCHANGED gScanConf
BY DEF SetScan, SetScanAccepts

\* Answers to the questions of WaitForCard are readings.
LEMMA ProbedTyped ==
  ASSUME TypeOK, NEW t \in Callers, NEW reading \in [ok : BOOLEAN, low : SUBSET Sensors],
         Probed(t, reading)
  PROVE  /\ probe' \in [Callers -> Questions]
         /\ reads' \in [Callers -> [Questions -> [ok : BOOLEAN, low : SUBSET Sensors]]]
<1>1. /\ probe \in [Callers -> Questions]
      /\ reads \in [Callers -> [Questions -> [ok : BOOLEAN, low : SUBSET Sensors]]]
  BY DEF TypeOK
<1>. QED
  BY <1>1 DEF Probed, Ends

\* Every variable stays in its type.
LEMMA TypeStep ==
  ASSUME TypeOK, PlaceInv, process = "running", NEW t \in Callers, Step(t)
  PROVE  TypeOK'
<1>1. pc' \in [Callers -> Pc] /\ op' \in [Callers -> Ops]
  BY PlaceStep
<1>. USE DEF Check, Invoke
<1>2. process' \in {"running", "dead"} /\ calls' \in 0..MaxCalls
  <2>1. calls \in 0..MaxCalls /\ MaxCalls \in Nat
    BY DEF TypeOK
  <2>2. calls' \in 0..MaxCalls
    <3>1. CASE Enter(t)
      BY <2>1, <3>1 DEF Enter
    <3>2. CASE Continue(t)
      BY <2>1, <3>2 DEF Continue, NullCall, SetUserData, Forward, SetScan, CloseDevice, OpenDevice,
                  WaitForCard, GetDevStatus, ScanAndReadIdCard, BackIdCard
    <3>. QED
      BY <3>1, <3>2 DEF Step
  <2>3. process' \in {"running", "dead"}
    BY DEF Step, Continue, Enter, NullCall, SetUserData, Forward, SetScan, CloseDevice, OpenDevice,
           WaitForCard, GetDevStatus, ScanAndReadIdCard, BackIdCard
  <2>. QED
    BY <2>2, <2>3
<1>3. pstPfnTab' \in BOOLEAN /\ opened' \in BOOLEAN
  <2>1. pstPfnTab \in BOOLEAN /\ opened \in BOOLEAN
    BY DEF TypeOK
  <2>. QED
    BY <2>1 DEF Step, Continue, Enter, NullCall, SetUserData, Forward, SetScan, CloseDevice, OpenDevice,
           DllEntry, InitDriver, ForgetTable, NoTable, ResetScanConf,
           WaitForCard, GetDevStatus, ScanAndReadIdCard, BackIdCard
<1>4. online' \in BOOLEAN /\ s_bDevOnLine' \in BOOLEAN /\ position' \in {"entry", "scan"}
  <2>1. online \in BOOLEAN /\ s_bDevOnLine \in BOOLEAN /\ position \in {"entry", "scan"}
    BY DEF TypeOK
  <2>2. CASE Forward(t)
    BY <2>1, <2>2 DEF Forward, IDS_CS_Calibrate, IDS_CS_Reset, IDS_CS_Scan, IDS_CS_ReadRF,
       IDS_CS_Connect, IDS_CS_Move, IDS_CS_GetDevInfo, IDS_CS_GetStatus, ConnectedCall
  <2>3. CASE GetDevStatus(t)
    BY <2>1, <2>3 DEF GetDevStatus, TestTable, ConnectFirst, TestOnLine, ReadStatus
  <2>4. CASE ScanAndReadIdCard(t)
    BY <2>1, <2>4 DEF ScanAndReadIdCard, StartScan, StartRF, MoveToScan, ScanImage, ReadRF
  <2>5. CASE ~Forward(t) /\ ~GetDevStatus(t) /\ ~ScanAndReadIdCard(t)
    BY <2>1, <2>5 DEF Step, Continue, Enter, NullCall, SetUserData, SetScan, CloseDevice, OpenDevice,
           WaitForCard, BackIdCard
  <2>. QED
    BY <2>2, <2>3, <2>4, <2>5
<1>5. gScanConf' \in {"zero", "torn", "default", "chosen"}
  BY SettingsRefused DEF TypeOK, Step, Continue, Enter, NullCall, SetUserData, Forward, CloseDevice,
     OpenDevice, DllEntry, InitDriver, ForgetTable, ResetScanConf, Settings, WaitForCard, GetDevStatus,
     ScanAndReadIdCard, BackIdCard
<1>6. image' \in [Callers -> BOOLEAN] /\ rf' \in [Callers -> BOOLEAN]
  <2>1. image \in [Callers -> BOOLEAN] /\ rf \in [Callers -> BOOLEAN]
    BY DEF TypeOK
  <2>2. CASE Enter(t)
    BY <2>1, <2>2 DEF Enter
  <2>3. CASE Continue(t)
    BY <2>1, <2>3 DEF Continue, NullCall, SetUserData, Forward, SetScan, CloseDevice, OpenDevice,
                  WaitForCard, GetDevStatus, ScanAndReadIdCard, BackIdCard
  <2>. QED
    BY <2>2, <2>3 DEF Step
<1>7. ret' \in [Callers -> BOOLEAN]
  <2>1. ret \in [Callers -> BOOLEAN] /\ pstPfnTab \in BOOLEAN
    BY DEF TypeOK
  <2>2. CASE MoveToScan(t)
    <3>1. PICK ok \in BOOLEAN : ret' = [ret EXCEPT ![t] = ret[t] /\ ok]
      BY <2>2 DEF MoveToScan, Combined
    <3>2. (ret[t] /\ ok) \in BOOLEAN
      BY Zenon
    <3>. QED
      BY <2>1, <3>1, <3>2
  <2>3. CASE ~MoveToScan(t)
    BY <2>1, <2>3 DEF Step, Continue, Enter, NullCall, SetUserData, Forward, SetScan, CloseDevice, OpenDevice,
           DllEntry, InitDriver, ForgetTable, ResetScanConf, WaitForCard, GetDevStatus,
           ScanAndReadIdCard, StartScan, StartRF, ScanImage, ReadRF, BackIdCard
  <2>. QED
    BY <2>2, <2>3
<1>8. /\ probe' \in [Callers -> Questions]
      /\ reads' \in [Callers -> [Questions -> [ok : BOOLEAN, low : SUBSET Sensors]]]
  <2>1. /\ probe \in [Callers -> Questions]
        /\ reads \in [Callers -> [Questions -> [ok : BOOLEAN, low : SUBSET Sensors]]]
        /\ NoReading \in [ok : BOOLEAN, low : SUBSET Sensors]
    BY DEF TypeOK, NoReading
  <2>2. CASE GetDevStatus(t)
    <3>1. CASE UNCHANGED <<probe, reads>>
      BY <2>1, <3>1
    <3>2. CASE Probed(t, NoReading)
      BY <2>1, <3>2, ProbedTyped
    <3>3. CASE \E low \in SUBSET Mask(probe[t]) : Probed(t, [ok |-> TRUE, low |-> low])
      <4>1. Mask(probe[t]) \subseteq Sensors
        BY DEF Mask, Sensors
      <4>. QED
        BY <3>3, <4>1, ProbedTyped
    <3>. QED
      BY <2>2, <3>1, <3>2, <3>3 DEF GetDevStatus, TestTable, ConnectFirst, TestOnLine, ReadStatus
  <2>3. CASE Enter(t) \/ WaitForCard(t)
    <3>1. /\ probe' = [probe EXCEPT ![t] = "cover"]
          /\ reads' = [reads EXCEPT ![t] = [q \in Questions |-> NoReading]]
      BY <2>3 DEF Enter, WaitForCard
    <3>2. [q \in Questions |-> NoReading] \in [Questions -> [ok : BOOLEAN, low : SUBSET Sensors]]
      BY <2>1
    <3>. QED
      BY <2>1, <3>1, <3>2
  <2>4. CASE Continue(t) /\ ~GetDevStatus(t) /\ ~WaitForCard(t)
    BY <2>1, <2>4 DEF Continue, NullCall, SetUserData, Forward, SetScan, CloseDevice, OpenDevice,
       ScanAndReadIdCard, BackIdCard
  <2>. QED
    BY <2>2, <2>3, <2>4 DEF Step
<1>9. /\ succeeded' \in [Callers -> SUBSET {"rfStart", "move", "image"}]
      /\ szIDCard' \in [Callers -> Cards \cup {NoCard}]
  <2>1. /\ succeeded \in [Callers -> SUBSET {"rfStart", "move", "image"}]
        /\ szIDCard \in [Callers -> Cards \cup {NoCard}]
    BY DEF TypeOK
  <2>2. CASE ScanAndReadIdCard(t)
    BY <2>1, <2>2 DEF ScanAndReadIdCard, StartScan, StartRF, MoveToScan, ScanImage, ReadRF, Tried, TransIDCard
  <2>3. CASE Enter(t)
    BY <2>1, <2>3 DEF Enter
  <2>4. CASE Continue(t) /\ ~ScanAndReadIdCard(t)
    BY <2>1, <2>4 DEF Continue, NullCall, SetUserData, Forward, SetScan, CloseDevice,
         OpenDevice, WaitForCard, GetDevStatus, BackIdCard
  <2>. QED
    BY <2>2, <2>3, <2>4 DEF Step
<1>. QED
  BY <1>1, <1>2, <1>3, <1>4, <1>5, <1>6, <1>7, <1>8, <1>9 DEF TypeOK


-----------------------------------------------------------------------------
(* The invariants that hold however callers interfere.                     *)

\* WaitForCard goes from one question to the next only when the answer does
\* not end it, and test() goes on to scan only after the last.
LEMMA QuestionStep ==
  ASSUME TypeOK, PlaceInv, QuestionInv, ScansOnlyReadyCards, NEW t \in Callers, Step(t)
  PROVE  QuestionInv' /\ ScansOnlyReadyCards'
<1>0. /\ Functions /\ Control(t) /\ Own(t)
      /\ reads \in [Callers -> [Questions -> [ok : BOOLEAN, low : SUBSET Sensors]]]
  BY Typed, ControlStep, OwnStep DEF TypeOK
<1>1. SUFFICES
        /\ pc'[t] \in Waiting \ {"wait?", "scan?"} =>
             /\ probe'[t] # "cover" => ~FlagIs("cover", reads'[t]["cover"])
             /\ probe'[t] = "entry" => ~FlagIs("path", reads'[t]["path"])
        /\ InLoop(t)' => /\ FlagIs("entry", reads'[t]["entry"])
                        /\ ~FlagIs("cover", reads'[t]["cover"])
                        /\ ~FlagIs("path", reads'[t]["path"])
  BY <1>0 DEF QuestionInv, ScansOnlyReadyCards, InLoop, FlagIs, Mask, Own
<1>2. ASSUME NEW reading \in [ok : BOOLEAN, low : SUBSET Sensors], Probed(t, reading),
             pc[t] \in Waiting \ {"wait?", "scan?"}
      PROVE  /\ pc'[t] \in Waiting \ {"wait?", "scan?"} =>
                  /\ probe'[t] # "cover" => ~FlagIs("cover", reads'[t]["cover"])
                  /\ probe'[t] = "entry" => ~FlagIs("path", reads'[t]["path"])
             /\ InLoop(t)' => /\ FlagIs("entry", reads'[t]["entry"])
                             /\ ~FlagIs("cover", reads'[t]["cover"])
                             /\ ~FlagIs("path", reads'[t]["path"])
  <2>1. /\ probe[t] # "cover" => ~FlagIs("cover", reads[t]["cover"])
        /\ probe[t] = "entry" => ~FlagIs("path", reads[t]["path"])
    BY <1>2 DEF QuestionInv
  <2>2. /\ reads'[t][probe[t]] = reading
        /\ \A q \in Questions \ {probe[t]} : reads'[t][q] = reads[t][q]
    BY <1>0, <1>2 DEF Probed, Functions
  <2>3. CASE Ends(probe[t], FlagIs(probe[t], reading))
    <3>1. Answer(t, FlagIs(probe[t], reading) /\ probe[t] = "entry")
      BY <1>2, <2>3 DEF Probed
    <3>2. InLoop(t)' => FlagIs(probe[t], reading) /\ probe[t] = "entry"
      BY <1>0, <3>1 DEF Answer, Goto, InLoop, Functions
    <3>3. pc'[t] \notin Waiting \ {"wait?", "scan?"}
      BY <1>0, <3>1 DEF Answer, Goto, Functions
    <3>. QED
      BY <2>1, <2>2, <3>2, <3>3
  <2>4. CASE ~Ends(probe[t], FlagIs(probe[t], reading))
    <3>1. /\ pc'[t] = "flag?"
          /\ probe'[t] = IF probe[t] = "cover" THEN "path" ELSE "entry"
          /\ ~FlagIs(probe[t], reading) /\ probe[t] \in {"cover", "path"}
      BY <1>0, <1>2, <2>4 DEF Probed, Ends, Goto, Functions
    <3>. QED
      BY <2>1, <2>2, <3>1 DEF InLoop
  <2>. QED
    BY <2>3, <2>4
<1>3. CASE Enter(t)
  BY <1>0, <1>3 DEF Enter, Goto, InLoop, Functions
<1>4. CASE WaitForCard(t)
  BY <1>0, <1>4 DEF WaitForCard, Answer, Goto, InLoop, Functions
<1>5. CASE GetDevStatus(t)
  <2>1. pc[t] \in Waiting \ {"wait?", "scan?"}
    BY <1>5 DEF GetDevStatus, TestTable, ConnectFirst, TestOnLine, ReadStatus, Invoke
  <2>2. CASE Probed(t, NoReading)
    BY <1>2, <2>1, <2>2 DEF NoReading
  <2>3. CASE \E low \in SUBSET Mask(probe[t]) : Probed(t, [ok |-> TRUE, low |-> low])
    <3>1. Mask(probe[t]) \subseteq Sensors
      BY DEF Mask, Sensors
    <3>. QED
      BY <1>2, <2>1, <2>3, <3>1
  <2>4. CASE UNCHANGED <<probe, reads>> /\ pc'[t] \in Waiting \ {"wait?", "scan?"}
    BY <2>1, <2>4 DEF QuestionInv, InLoop
  <2>5. \A to \in {"status?", "connect", "online?", "getStatus"} : Goto(t, to) => pc'[t] = to
    BY <1>0 DEF Goto, Functions
  <2>. QED
    BY <1>5, <2>2, <2>3, <2>4, <2>5 DEF GetDevStatus, TestTable, ConnectFirst, TestOnLine, ReadStatus
<1>6. CASE Continue(t) /\ ~WaitForCard(t) /\ ~GetDevStatus(t)
  <2>1. UNCHANGED <<probe, reads, op>>
    BY <1>6 DEF Continue, NullCall, SetUserData, Forward, SetScan, CloseDevice, OpenDevice,
       ScanAndReadIdCard, BackIdCard
  <2>2. CASE pc'[t] = pc[t]
    BY <2>1, <2>2 DEF QuestionInv, ScansOnlyReadyCards, InLoop
  <2>3. pc[t] \in Waiting \ {"scan?"} => pc'[t] = pc[t]
    BY <1>6 DEF Continue, NullCall, SetUserData, Forward, OneCall, SetScan, CloseDevice, OpenDevice,
       DllEntry, InitDriver, ForgetTable, ResetScanConf, ScanAndReadIdCard, StartScan, StartRF,
       MoveToScan, ScanImage, ReadRF, BackIdCard, Checked, Check, Invoke, IDS_CS_Calibrate,
       IDS_CS_Reset, IDS_CS_Scan, IDS_CS_ReadRF, IDS_CS_Connect, IDS_CS_Move, IDS_CS_GetDevInfo,
       IDS_CS_GetStatus, ConnectedCall
  <2>4. CASE pc[t] \notin Waiting \ {"scan?"}
    <3>1. pc'[t] \notin Waiting \ {"wait?", "scan?"}
      BY <1>0, <1>6, <2>4 DEF Control, Leads, Functions, PlaceInv, Continue, Body, AfterClose, Pc,
         Tests, Invocations, NullCall
    <3>2. InLoop(t)' => InLoop(t)
      <4>1. SUFFICES ASSUME InLoop(t)' PROVE InLoop(t)
        OBVIOUS
      <4>2. op[t] = "test" /\ pc'[t] \in {"scan?"} \cup Taking \cup Giving
        BY <2>1, <4>1 DEF InLoop
      <4>3. pc[t] \in {"idle"} \cup Opening \cup Taking \cup Giving \cup {"scan?"}
        BY <2>4, <4>2 DEF PlaceInv
      <4>4. pc[t] \notin {"idle"} \cup Opening
        BY <1>0, <4>2 DEF Control, Leads, AfterClose
      <4>. QED
        BY <4>2, <4>3, <4>4 DEF InLoop
    <3>. QED
      BY <2>1, <3>1, <3>2 DEF ScansOnlyReadyCards
  <2>. QED
    BY <2>2, <2>3, <2>4
<1>. QED
  BY <1>3, <1>4, <1>5, <1>6 DEF Step

\* Whoever zeroes the settings is in OpenDevice until they are whole again,
\* and nobody starts a scan before some caller has obtained the table there.
LEMMA SettingsStep ==
  ASSUME TypeOK, PlaceInv, SettingsInv, NEW t \in Callers, Step(t)
  PROVE  SettingsInv'
<1>. SUFFICES ASSUME gScanConf' # "default"
              PROVE  \/ \E u \in Callers : InOpenDevice(u)'
                     \/ ~pstPfnTab' /\ \A u \in Callers : pc'[u] \notin Taking
  BY DEF SettingsInv
<1>0. Functions /\ Control(t) /\ Own(t)
  BY Typed, ControlStep, OwnStep
<1>1. \A u \in Callers \ {t} : InOpenDevice(u) => InOpenDevice(u)'
  BY <1>0 DEF InOpenDevice, Own
<1>2. InOpenDevice(t) => InOpenDevice(t)' \/ pc[t] = "rest"
  BY <1>0 DEF InOpenDevice, Control, Leads, AfterClose
<1>3. pc[t] # "rest"
  BY DEF Step, Continue, Enter, NullCall, Invocations, SetUserData, Forward, OneCall, SetScan,
     CloseDevice, OpenDevice, DllEntry, InitDriver, ForgetTable, ResetScanConf, Settings, Check, Invoke,
     WaitForCard, GetDevStatus, TestTable, ConnectFirst, TestOnLine, ReadStatus, ScanAndReadIdCard,
     StartScan, StartRF, MoveToScan, ScanImage, ReadRF, BackIdCard, Checked, IDS_CS_Calibrate,
     IDS_CS_Reset, IDS_CS_Scan, IDS_CS_ReadRF, IDS_CS_Connect, IDS_CS_Move, IDS_CS_GetDevInfo,
     IDS_CS_GetStatus, ConnectedCall
<1>4. CASE \E u \in Callers : InOpenDevice(u)
  BY <1>1, <1>2, <1>3, <1>4
<1>5. CASE ~\E u \in Callers : InOpenDevice(u)
  <2>1. pc[t] \notin {"entry", "entry?", "init", "initFail", "zero", "conf", "rest"}
    BY <1>0, <1>5 DEF InOpenDevice, PlaceInv, Functions
  <2>2. gScanConf' = gScanConf /\ (pstPfnTab' => pstPfnTab)
    <3>1. gScanConf' = gScanConf
      BY <2>1, SettingsRefused DEF Step, Continue, Enter, NullCall, SetUserData, Forward, CloseDevice,
         OpenDevice, DllEntry, InitDriver, ForgetTable, ResetScanConf, Check, Invoke, WaitForCard,
         GetDevStatus, ScanAndReadIdCard, BackIdCard
    <3>2. pstPfnTab' = pstPfnTab \/ pstPfnTab' = FALSE
      BY <2>1 DEF Step, Continue, Enter, NullCall, SetUserData, Forward, SetScan, CloseDevice,
         OpenDevice, DllEntry, InitDriver, ForgetTable, ResetScanConf, Check, Invoke, WaitForCard,
         GetDevStatus, ScanAndReadIdCard, BackIdCard
    <3>. QED
      BY <3>1, <3>2
  <2>3. ~pstPfnTab /\ \A u \in Callers : pc[u] \notin Taking
    BY <1>5, <2>2 DEF SettingsInv
  <2>4. pc[t] = "scan?" => pc'[t] \notin Taking
    BY <1>0, <2>3 DEF Step, Continue, Enter, NullCall, Invocations, SetUserData, Forward, OneCall,
       SetScan, CloseDevice, OpenDevice, DllEntry, InitDriver, ForgetTable, ResetScanConf, Check, Invoke,
       WaitForCard, GetDevStatus, TestTable, ConnectFirst, TestOnLine, ReadStatus, ScanAndReadIdCard,
       StartScan, StartRF, MoveToScan, ScanImage, ReadRF, BackIdCard, Checked, IDS_CS_Calibrate,
       IDS_CS_Reset, IDS_CS_Scan, IDS_CS_ReadRF, IDS_CS_Connect, IDS_CS_Move, IDS_CS_GetDevInfo,
       IDS_CS_GetStatus, ConnectedCall, Finish, Goto, Functions
  <2>5. pc'[t] \notin Taking
    BY <1>0, <2>3, <2>4 DEF Control, Leads, Functions, Pc, Tests, Invocations, Body, AfterClose
  <2>. QED
    BY <1>0, <2>2, <2>3, <2>5 DEF Own
<1>. QED
  BY <1>4, <1>5

\* The device calls that have succeeded are those that the place and the
\* result so far stand for.
LEMMA CardStep ==
  ASSUME TypeOK, PlaceInv, CardInv, NEW t \in Callers, Step(t)
  PROVE  CardInv'
<1>0. /\ Functions /\ Control(t) /\ Own(t)
      /\ succeeded \in [Callers -> SUBSET {"rfStart", "move", "image"}]
  BY Typed, ControlStep, OwnStep DEF TypeOK
<1>1. SUFFICES ASSUME op'[t] = "test"
               PROVE  /\ pc'[t] # "idle" => image'[t] /\ rf'[t]
                      /\ pc'[t] = "rfStart" => succeeded'[t] = {}
                      /\ pc'[t] = "move" => succeeded'[t] = IF ret'[t] THEN {"rfStart"} ELSE {}
                      /\ pc'[t] = "image" => succeeded'[t] = {"rfStart", "move"}
                      /\ pc'[t] = "rfRead" /\ ret'[t] => succeeded'[t] = {"rfStart", "move", "image"}
                      /\ pc'[t] \in Giving => succeeded'[t] = {"rfStart", "move", "image"}
  <2>1. ASSUME NEW u \in Callers \ {t}, op'[u] = "test"
        PROVE  /\ pc'[u] # "idle" => image'[u] /\ rf'[u]
               /\ pc'[u] = "rfStart" => succeeded'[u] = {}
               /\ pc'[u] = "move" => succeeded'[u] = IF ret'[u] THEN {"rfStart"} ELSE {}
               /\ pc'[u] = "image" => succeeded'[u] = {"rfStart", "move"}
               /\ pc'[u] = "rfRead" /\ ret'[u] => succeeded'[u] = {"rfStart", "move", "image"}
               /\ pc'[u] \in Giving => succeeded'[u] = {"rfStart", "move", "image"}
    <3>1. /\ pc'[u] = pc[u] /\ op'[u] = op[u] /\ image'[u] = image[u] /\ rf'[u] = rf[u]
          /\ ret'[u] = ret[u] /\ succeeded'[u] = succeeded[u]
      BY <1>0, <2>1 DEF Own
    <3>. QED
      BY <2>1, <3>1 DEF CardInv
  <2>. QED
    BY <2>1 DEF CardInv
<1>2. CASE Enter(t)
  BY <1>0, <1>1, <1>2 DEF Enter, Goto, Functions
<1>3. CASE ScanAndReadIdCard(t)
  <2>1. op[t] = "test" /\ pc[t] # "idle" /\ image' = image /\ rf' = rf
    BY <1>0, <1>1, <1>3 DEF ScanAndReadIdCard, StartScan, StartRF, MoveToScan, ScanImage, ReadRF, Invoke
  <2>2. image[t] /\ rf[t]
    BY <2>1 DEF CardInv
  <2>3. CASE StartScan(t)
    BY <1>0, <2>1, <2>2, <2>3 DEF StartScan, Finish, Goto, Functions
  <2>4. CASE StartRF(t)
    <3>1. succeeded[t] = {} /\ pc'[t] = "move"
      BY <1>0, <2>1, <2>4 DEF StartRF, Invoke, Goto, CardInv, Functions
    <3>. QED
      BY <1>0, <2>1, <2>2, <2>4, <3>1 DEF StartRF, Tried, Functions
  <2>5. CASE MoveToScan(t)
    <3>1. PICK ok \in BOOLEAN :
            /\ Tried(t, "move", ok)
            /\ ret' = [ret EXCEPT ![t] = ret[t] /\ ok]
            /\ AfterMove(t, ret[t] /\ ok)
      BY <2>5 DEF MoveToScan, Combined
    <3>2. succeeded[t] = IF ret[t] THEN {"rfStart"} ELSE {}
      BY <2>1, <2>5 DEF MoveToScan, Invoke, CardInv
    <3>3. CASE ret[t] /\ ok
      <4>1. pc'[t] = "image" /\ succeeded'[t] = {"rfStart", "move"}
        BY <1>0, <2>2, <3>1, <3>2, <3>3 DEF AfterMove, Tried, Goto, Functions
      <4>. QED
        BY <2>1, <2>2, <4>1
    <3>4. CASE ~(ret[t] /\ ok)
      <4>1. pc'[t] = "rfRead"
        BY <1>0, <2>2, <3>1, <3>4 DEF AfterMove, Goto, Functions
      <4>2. ~ret'[t]
        BY <1>0, <3>1, <3>4 DEF Functions
      <4>. QED
        BY <2>1, <2>2, <4>1, <4>2
    <3>. QED
      BY <3>3, <3>4
  <2>6. CASE ScanImage(t)
    <3>1. succeeded[t] = {"rfStart", "move"} /\ pc'[t] = "rfRead"
      BY <1>0, <2>1, <2>2, <2>6 DEF ScanImage, Invoke, Goto, CardInv, Functions
    <3>. QED
      BY <1>0, <2>1, <2>2, <2>6, <3>1 DEF ScanImage, Tried, Functions
  <2>7. CASE ReadRF(t)
    BY <1>0, <2>1, <2>2, <2>7 DEF ReadRF, Invoke, Finish, Goto, CardInv, Functions
  <2>. QED
    BY <1>3, <2>3, <2>4, <2>5, <2>6, <2>7 DEF ScanAndReadIdCard
<1>4. CASE Continue(t) /\ ~ScanAndReadIdCard(t)
  <2>1. UNCHANGED <<succeeded, op, image, rf>>
    BY <1>4 DEF Continue, NullCall, SetUserData, Forward, SetScan, CloseDevice, OpenDevice,
       WaitForCard, GetDevStatus, BackIdCard
  <2>2. pc[t] \in Taking => pc'[t] = pc[t] /\ ret' = ret
    BY <1>4 DEF Continue, NullCall, Invocations, SetUserData, Forward, OneCall, SetScan, CloseDevice,
       OpenDevice, DllEntry, InitDriver, ForgetTable, ResetScanConf, Check, Invoke, WaitForCard,
       GetDevStatus, TestTable, ConnectFirst, TestOnLine, ReadStatus, BackIdCard, Checked,
       IDS_CS_Calibrate, IDS_CS_Reset, IDS_CS_Scan, IDS_CS_ReadRF, IDS_CS_Connect, IDS_CS_Move,
       IDS_CS_GetDevInfo, IDS_CS_GetStatus, ConnectedCall
  <2>3. pc[t] # "idle" /\ pc[t] # "scan?"
    BY <1>4 DEF Continue, NullCall, Invocations, SetUserData, Forward, OneCall, SetScan, CloseDevice,
       OpenDevice, DllEntry, InitDriver, ForgetTable, ResetScanConf, Check, Invoke, WaitForCard,
       GetDevStatus, TestTable, ConnectFirst, TestOnLine, ReadStatus, BackIdCard, Checked,
       IDS_CS_Calibrate, IDS_CS_Reset, IDS_CS_Scan, IDS_CS_ReadRF, IDS_CS_Connect, IDS_CS_Move,
       IDS_CS_GetDevInfo, IDS_CS_GetStatus, ConnectedCall
  <2>4. pc'[t] \in Taking => pc[t] \in Taking
    BY <1>0, <1>1, <2>1, <2>3 DEF PlaceInv, Control, Leads, AfterClose
  <2>5. pc'[t] \in Giving => pc[t] \in Taking \cup Giving
    BY <1>0, <1>1, <2>1, <2>3 DEF PlaceInv, Control, Leads, AfterClose
  <2>. QED
    BY <1>1, <2>1, <2>2, <2>3, <2>4, <2>5 DEF CardInv
<1>. QED
  BY <1>2, <1>3, <1>4 DEF Step

\* An image is made only behind a read command, if one is asked for, and a move
\* that both succeeded.
LEMMA ImageStep ==
  ASSUME TypeOK, ImageInv, NEW t \in Callers, Step(t)
  PROVE  ImageInv'
<1>0. /\ Functions /\ Control(t) /\ Own(t)
      /\ succeeded \in [Callers -> SUBSET {"rfStart", "move", "image"}]
  BY Typed, ControlStep, OwnStep DEF TypeOK
<1>1. SUFFICES /\ pc'[t] = "move" /\ ret'[t] /\ rf'[t] => "rfStart" \in succeeded'[t]
               /\ pc'[t] = "image" => /\ image'[t] /\ "move" \in succeeded'[t]
                                      /\ rf'[t] => "rfStart" \in succeeded'[t]
  BY <1>0 DEF ImageInv, Own
<1>2. CASE Enter(t)
  BY <1>0, <1>2 DEF Enter, Goto, Functions
<1>3. CASE ScanAndReadIdCard(t)
  <2>1. image' = image /\ rf' = rf
    BY <1>3 DEF ScanAndReadIdCard
  <2>2. CASE StartScan(t)
    <3>1. pc'[t] \in {"rfStart", "move", "idle", "wait?", "back?"} /\ (pc'[t] = "move" => ~rf[t])
      BY <1>0, <2>2 DEF StartScan, Finish, Goto, Functions
    <3>. QED
      BY <2>1, <3>1
  <2>3. CASE StartRF(t)
    BY <1>0, <2>1, <2>3 DEF StartRF, Tried, Goto, Functions
  <2>4. CASE MoveToScan(t)
    <3>1. PICK ok \in BOOLEAN :
            Tried(t, "move", ok) /\ AfterMove(t, ret[t] /\ ok) /\ pc[t] = "move"
      BY <2>4 DEF MoveToScan, Combined, Invoke
    <3>2. pc'[t] # "move"
      BY <1>0, <3>1 DEF AfterMove, Finish, Goto, Functions
    <3>3. pc'[t] = "image" => ret[t] /\ ok /\ image[t]
      BY <1>0, <3>1 DEF AfterMove, Finish, Goto, Functions
    <3>4. ok => succeeded'[t] = succeeded[t] \cup {"move"}
      BY <1>0, <3>1 DEF Tried
    <3>. QED
      BY <2>1, <3>1, <3>2, <3>3, <3>4 DEF ImageInv
  <2>5. CASE ScanImage(t) \/ ReadRF(t)
    <3>1. pc'[t] \in {"rfRead", "idle", "wait?", "back?"}
      BY <1>0, <2>5 DEF ScanImage, ReadRF, Finish, Goto, Functions
    <3>. QED
      BY <3>1
  <2>. QED
    BY <1>3, <2>2, <2>3, <2>4, <2>5 DEF ScanAndReadIdCard
<1>4. CASE Continue(t) /\ ~ScanAndReadIdCard(t)
  <2>1. UNCHANGED <<succeeded, image, rf>>
    BY <1>4 DEF Continue, NullCall, SetUserData, Forward, SetScan, CloseDevice, OpenDevice,
       WaitForCard, GetDevStatus, BackIdCard
  <2>2. pc[t] \in Taking => pc'[t] = pc[t] /\ ret' = ret
    BY <1>4 DEF Continue, NullCall, Invocations, SetUserData, Forward, OneCall, SetScan, CloseDevice,
       OpenDevice, DllEntry, InitDriver, ForgetTable, ResetScanConf, Check, Invoke, WaitForCard,
       GetDevStatus, TestTable, ConnectFirst, TestOnLine, ReadStatus, BackIdCard, Checked,
       IDS_CS_Calibrate, IDS_CS_Reset, IDS_CS_Scan, IDS_CS_ReadRF, IDS_CS_Connect, IDS_CS_Move,
       IDS_CS_GetDevInfo, IDS_CS_GetStatus, ConnectedCall
  <2>3. pc[t] # "idle" /\ pc[t] # "scan?"
    BY <1>4 DEF Continue, NullCall, Invocations, SetUserData, Forward, OneCall, SetScan, CloseDevice,
       OpenDevice, DllEntry, InitDriver, ForgetTable, ResetScanConf, Check, Invoke, WaitForCard,
       GetDevStatus, TestTable, ConnectFirst, TestOnLine, ReadStatus, BackIdCard, Checked,
       IDS_CS_Calibrate, IDS_CS_Reset, IDS_CS_Scan, IDS_CS_ReadRF, IDS_CS_Connect, IDS_CS_Move,
       IDS_CS_GetDevInfo, IDS_CS_GetStatus, ConnectedCall
  <2>4. pc'[t] \in {"move", "image"} => pc[t] \in Taking
    BY <1>0, <2>3 DEF Control, Leads, Body, AfterClose, Functions, Pc, Tests, Invocations
  <2>. QED
    BY <2>1, <2>2, <2>4 DEF ImageInv
<1>. QED
  BY <1>2, <1>3, <1>4 DEF Step

\* Every step of a caller preserves all of it.
LEMMA CallerInv ==
  ASSUME TypeOK, IInv, process = "running", NEW t \in Callers, Step(t)
  PROVE  TypeOK' /\ IInv'
BY TypeStep, PlaceStep, QuestionStep, SettingsStep, CardStep, ImageStep DEF IInv

\* Nothing is open before the first call of an entry point.
LEMMA InitInv ==
  Init => TypeOK /\ IInv
<1>. SUFFICES ASSUME Init PROVE TypeOK /\ IInv
  OBVIOUS
<1>. USE DEF Init
<1>1. TypeOK
  <2>1. /\ pc \in [Callers -> Pc] /\ op \in [Callers -> Ops]
        /\ image \in [Callers -> BOOLEAN] /\ rf \in [Callers -> BOOLEAN]
        /\ ret \in [Callers -> BOOLEAN] /\ probe \in [Callers -> Questions]
        /\ succeeded \in [Callers -> SUBSET {"rfStart", "move", "image"}]
        /\ szIDCard \in [Callers -> Cards \cup {NoCard}]
    BY DEF Pc, Ops
  <2>2. reads \in [Callers -> [Questions -> [ok : BOOLEAN, low : SUBSET Sensors]]]
    BY DEF NoReading
  <2>3. /\ process \in {"running", "dead"} /\ position \in {"entry", "scan"}
        /\ pstPfnTab \in BOOLEAN /\ opened \in BOOLEAN /\ online \in BOOLEAN
        /\ s_bDevOnLine \in BOOLEAN /\ gScanConf \in {"zero", "torn", "default", "chosen"}
    OBVIOUS
  <2>4. calls \in 0..MaxCalls
    OBVIOUS
  <2>. HIDE DEF Init
  <2>. QED
    BY <2>1, <2>2, <2>3, <2>4 DEF TypeOK
<1>2. PlaceInv /\ QuestionInv /\ ScansOnlyReadyCards
  BY DEF PlaceInv, QuestionInv, ScansOnlyReadyCards, InLoop
<1>3. SettingsInv /\ CardInv /\ ImageInv
  BY DEF SettingsInv, CardInv, ImageInv
<1>. QED
  BY <1>1, <1>2, <1>3 DEF IInv

\* So every step of the library preserves the invariant.
LEMMA NextInv ==
  TypeOK /\ IInv /\ [Next]_vars => TypeOK' /\ IInv'
<1>. SUFFICES ASSUME TypeOK, IInv, [Next]_vars PROVE TypeOK' /\ IInv'
  OBVIOUS
<1>1. CASE Next
  BY <1>1, CallerInv DEF Next, Run, Step
<1>2. CASE UNCHANGED vars
  <2>1. TypeOK' /\ PlaceInv'
    BY <1>2 DEF TypeOK, IInv, PlaceInv
  <2>2. QuestionInv' /\ ScansOnlyReadyCards'
    BY <1>2 DEF IInv, QuestionInv, ScansOnlyReadyCards, InLoop, FlagIs, Mask
  <2>3. SettingsInv' /\ CardInv' /\ ImageInv'
    BY <1>2 DEF IInv, SettingsInv, InOpenDevice, CardInv, ImageInv
  <2>. QED
    BY <2>1, <2>2, <2>3 DEF IInv
<1>. QED
  BY <1>1, <1>2

-----------------------------------------------------------------------------

\* Every variable of the library keeps its type.
THEOREM TypeCorrect == Spec => []TypeOK
<1>1. TypeOK /\ IInv /\ [Next]_vars => (TypeOK /\ IInv)'
  BY NextInv
<1>. QED
  BY InitInv, <1>1, PTL DEF Spec

\* The inductive invariant holds in every reachable state.
THEOREM Invariance == Spec => [](TypeOK /\ IInv)
<1>1. TypeOK /\ IInv /\ [Next]_vars => (TypeOK /\ IInv)'
  BY NextInv
<1>. QED
  BY InitInv, <1>1, PTL DEF Spec

\* test() takes in a card only after reading sensor 1 blocked and reading
\* neither an open cover nor a wholly blocked path, in this same round and
\* whatever other callers do to the table and the device.
THEOREM OnlyReadyCards == Spec => []ScansOnlyReadyCards
<1>1. IInv => ScansOnlyReadyCards
  BY DEF IInv
<1>. QED
  BY Invariance, <1>1, PTL

\* A card is scanned with other settings than OpenDevice's only while another
\* caller is in OpenDevice.
THEOREM WholeSettings == Spec => []SettingsWhole
<1>1. IInv => SettingsWhole
  BY DEF IInv, SettingsInv, InOpenDevice, SettingsWhole
<1>. QED
  BY Invariance, <1>1, PTL

-----------------------------------------------------------------------------
(* test() goes through the cycle that CardCycle describes.                 *)

\* Another caller can only kill the loop of test().
LEMMA CycleOther ==
  ASSUME TypeOK, PlaceInv, process = "running", Tester \in Callers,
         NEW t \in Callers \ {Tester}, Step(t)
  PROVE  [Cycle!Next]_(Cycle!vars)
<1>1. /\ Own(t) /\ process' \in {"running", "dead"}
  BY OwnStep, TypeStep DEF TypeOK
<1>. QED
  BY <1>1 DEF Own, Stage, Cycle!Next, Cycle!Die, Cycle!vars

\* A step of test() is one of the cycle's, or none.
LEMMA CycleTester ==
  ASSUME TypeOK, PlaceInv, CardInv, CardInv', process = "running", Tester \in Callers, Step(Tester)
  PROVE  [Cycle!Next]_(Cycle!vars)
<1>. DEFINE T == Tester
            done == IF Stage(T) \in {"taking", "giving"} THEN succeeded[T] ELSE {}
<1>0. /\ Functions /\ Control(T) /\ process' \in {"running", "dead"}
      /\ succeeded \in [Callers -> SUBSET {"rfStart", "move", "image"}]
  BY Typed, ControlStep, TypeStep DEF TypeOK
<1>1. CASE process' = "dead"
  <2>1. Stage(T) # "dead" /\ Stage(T)' = "dead"
    BY <1>1 DEF Stage
  <2>. QED
    BY <2>1 DEF Cycle!Next, Cycle!Die
<1>2. CASE process' = "running" /\ Stage(T) = "off"
  <2>1. Stage(T)' \in {"off", "waiting"}
    <3>1. SUFFICES ASSUME op'[T] = "test", pc'[T] # "idle" PROVE pc'[T] \notin Taking \cup Giving
      BY <1>0, <1>2 DEF Stage
    <3>2. CASE pc[T] = "idle"
      BY <1>0, <3>1, <3>2 DEF Control, Leads
    <3>3. CASE pc[T] # "idle"
      <4>1. op[T] = "test" /\ pc[T] \in Opening
        BY <1>0, <1>2, <3>1, <3>3 DEF Control, Stage
      <4>. QED
        BY <1>0, <4>1 DEF Control, Leads, AfterClose
    <3>. QED
      BY <3>2, <3>3
  <2>. QED
    BY <1>2, <2>1 DEF Cycle!Next, Cycle!Begin, Cycle!vars
<1>3. CASE process' = "running" /\ op[T] = "test" /\ pc[T] \in Waiting
  <2>1. Stage(T) = "waiting" /\ done = {} /\ op' = op /\ rf[T]
    BY <1>0, <1>3 DEF Stage, Control, CardInv
  <2>2. pc'[T] # "idle" /\ pc'[T] \in Waiting \cup {"rfStart", "move"}
    BY <1>0, <1>3 DEF Control, Leads
  <2>3. pc'[T] # "move"
    BY <1>0, <1>3, <2>1 DEF Step, Continue, Enter, NullCall, Invocations, SetUserData, Forward, OneCall,
       SetScan, CloseDevice, OpenDevice, DllEntry, InitDriver, ForgetTable, ResetScanConf, Check, Invoke,
       WaitForCard, Answer, GetDevStatus, TestTable, ConnectFirst, TestOnLine, ReadStatus, Probed,
       ScanAndReadIdCard, StartScan, StartRF, MoveToScan, ScanImage, ReadRF, BackIdCard, Checked,
       IDS_CS_Calibrate, IDS_CS_Reset, IDS_CS_Scan, IDS_CS_ReadRF, IDS_CS_Connect, IDS_CS_Move,
       IDS_CS_GetDevInfo, IDS_CS_GetStatus, ConnectedCall, Finish, Goto, Functions
  <2>4. CASE pc'[T] \in Waiting
    <3>1. Stage(T)' = "waiting"
      BY <1>3, <2>1, <2>4 DEF Stage
    <3>. QED
      BY <2>1, <3>1 DEF Cycle!Next, Cycle!vars
  <2>5. CASE pc'[T] = "rfStart"
    <3>1. Stage(T)' = "taking" /\ succeeded'[T] = {}
      BY <1>3, <2>1, <2>5 DEF Stage, CardInv
    <3>. QED
      BY <2>1, <3>1 DEF Cycle!Next, Cycle!Take
  <2>. QED
    BY <2>2, <2>3, <2>4, <2>5
<1>4. CASE process' = "running" /\ op[T] = "test" /\ pc[T] \in Taking
  <2>1. Stage(T) = "taking" /\ op' = op /\ image[T] /\ rf[T] /\ done = succeeded[T]
    BY <1>0, <1>4 DEF Stage, Control, CardInv
  <2>2. ASSUME pc'[T] \in Taking, UNCHANGED succeeded
        PROVE  [Cycle!Next]_(Cycle!vars)
    <3>1. Stage(T)' = "taking"
      BY <1>4, <2>1, <2>2 DEF Stage
    <3>. QED
      BY <2>1, <2>2, <3>1 DEF Cycle!vars
  <2>3. ASSUME NEW d \in Cycle!Steps \ succeeded[T], pc'[T] \in Taking,
               d = "image" => succeeded[T] = {"rfStart", "move"},
               succeeded' = [succeeded EXCEPT ![T] = @ \cup {d}]
        PROVE  Cycle!Next
    <3>1. Stage(T)' = "taking"
      BY <1>4, <2>1, <2>3 DEF Stage
    <3>2. succeeded'[T] = succeeded[T] \cup {d}
      BY <1>0, <2>3
    <3>. QED
      BY <2>1, <2>3, <3>1, <3>2 DEF Cycle!Next, Cycle!Succeed
  <2>4. CASE StartRF(T)
    <3>1. PICK ok \in BOOLEAN : Tried(T, "rfStart", ok) /\ Goto(T, "move") /\ pc[T] = "rfStart"
      BY <2>4 DEF StartRF, Invoke
    <3>2. pc'[T] = "move" /\ "rfStart" \in Cycle!Steps \ succeeded[T]
      BY <1>0, <1>4, <3>1 DEF Goto, CardInv, Functions, Cycle!Steps
    <3>. QED
      BY <2>2, <2>3, <3>1, <3>2 DEF Tried
  <2>5. CASE MoveToScan(T)
    <3>1. PICK ok \in BOOLEAN : Tried(T, "move", ok) /\ AfterMove(T, ret[T] /\ ok) /\ pc[T] = "move"
      BY <2>5 DEF MoveToScan, Combined, Invoke
    <3>2. pc'[T] \in Taking
      BY <1>0, <2>1, <3>1 DEF AfterMove, Goto, Functions
    <3>3. "move" \in Cycle!Steps \ succeeded[T]
      BY <1>4, <3>1 DEF CardInv, Cycle!Steps
    <3>. QED
      BY <2>2, <2>3, <3>1, <3>2, <3>3 DEF Tried
  <2>6. CASE ScanImage(T)
    <3>1. PICK ok \in BOOLEAN : Tried(T, "image", ok) /\ Goto(T, "rfRead") /\ pc[T] = "image"
      BY <2>1, <2>6 DEF ScanImage, Invoke
    <3>2. pc'[T] \in Taking /\ succeeded[T] = {"rfStart", "move"}
      BY <1>0, <1>4, <3>1 DEF Goto, CardInv, Functions
    <3>3. "image" \in Cycle!Steps \ succeeded[T]
      BY <3>2 DEF Cycle!Steps
    <3>. QED
      BY <2>2, <2>3, <3>1, <3>2, <3>3 DEF Tried
  <2>7. CASE ReadRF(T)
    <3>1. pc[T] = "rfRead" /\ pc'[T] = (IF ret[T] THEN "back?" ELSE "wait?") /\ succeeded' = succeeded
      BY <1>0, <1>4, <2>7 DEF ReadRF, Invoke, Finish, Goto, Functions
    <3>2. CASE ret[T]
      <4>1. succeeded[T] = Cycle!Steps /\ Stage(T)' = "giving"
        BY <1>4, <2>1, <3>1, <3>2 DEF CardInv, Stage, Cycle!Steps
      <4>. QED
        BY <2>1, <3>1, <4>1 DEF Cycle!Next, Cycle!Give
    <3>3. CASE ~ret[T]
      <4>1. Stage(T)' = "waiting"
        BY <1>4, <2>1, <3>1, <3>3 DEF Stage
      <4>. QED
        BY <2>1, <4>1 DEF Cycle!Next, Cycle!GiveUp
    <3>. QED
      BY <3>2, <3>3
  <2>8. CASE ~ScanAndReadIdCard(T)
    <3>1. FALSE
      BY <1>4, <2>8 DEF Step, Continue, Enter, NullCall, SetUserData, Forward, OneCall,
       SetScan, CloseDevice, OpenDevice, DllEntry, InitDriver, ForgetTable, ResetScanConf, Check, Invoke,
       WaitForCard, GetDevStatus, TestTable, ConnectFirst, TestOnLine, ReadStatus,
       BackIdCard, Checked, IDS_CS_Calibrate, IDS_CS_Reset, IDS_CS_Scan, IDS_CS_ReadRF,
       IDS_CS_Connect, IDS_CS_Move, IDS_CS_GetDevInfo, IDS_CS_GetStatus, ConnectedCall
    <3>. QED
      BY <3>1
  <2>9. ~StartScan(T)
    BY <1>4 DEF StartScan
  <2>. QED
    BY <2>4, <2>5, <2>6, <2>7, <2>8, <2>9 DEF ScanAndReadIdCard
<1>5. CASE process' = "running" /\ op[T] = "test" /\ pc[T] \in Giving
  <2>1. Stage(T) = "giving" /\ op' = op /\ done = succeeded[T]
    BY <1>0, <1>5 DEF Stage, Control
  <2>2. pc'[T] \in {"back", "wait?"}
    BY <1>0, <1>5 DEF Control, Leads
  <2>3. CASE pc'[T] = "wait?"
    <3>1. Stage(T)' = "waiting"
      BY <1>5, <2>1, <2>3 DEF Stage
    <3>. QED
      BY <2>1, <3>1 DEF Cycle!Next, Cycle!Back
  <2>4. CASE pc'[T] = "back"
    <3>1. Stage(T)' = "giving"
      BY <1>5, <2>1, <2>4 DEF Stage
    <3>2. succeeded'[T] = succeeded[T]
      BY <1>5, <2>1, <2>4 DEF CardInv
    <3>. QED
      BY <2>1, <3>1, <3>2 DEF Cycle!vars
  <2>. QED
    BY <2>2, <2>3, <2>4
<1>6. CASE process' = "running" /\ Stage(T) # "off"
  <2>1. op[T] = "test" /\ pc[T] \in Waiting \cup Taking \cup Giving
    BY <1>6 DEF Stage, PlaceInv
  <2>. QED
    BY <1>3, <1>4, <1>5, <1>6, <2>1
<1>. QED
  BY <1>0, <1>1, <1>2, <1>6

\* Whatever other callers do, the loop of test() is a CardCycle as far as
\* safety goes: no image before the read command and the move succeeded, no
\* card given back before all three did, and no way out of the loop.
THEOREM CycleSafety ==
  ASSUME Callers # {}
  PROVE  Spec => Cycle!Spec
<1>1. Tester \in Callers
  BY DEF Tester
<1>2. Init => Cycle!Init
  BY <1>1 DEF Init, Stage, Cycle!Init
<1>3. TypeOK /\ IInv /\ TypeOK' /\ IInv' /\ [Next]_vars => [Cycle!Next]_(Cycle!vars)
  <2>. SUFFICES ASSUME TypeOK, IInv, IInv', [Next]_vars PROVE [Cycle!Next]_(Cycle!vars)
    OBVIOUS
  <2>1. ASSUME NEW t \in Callers, process = "running", Step(t)
        PROVE  [Cycle!Next]_(Cycle!vars)
    BY <1>1, <2>1, CycleOther, CycleTester DEF IInv
  <2>2. CASE UNCHANGED vars
    BY <2>2 DEF Stage, Cycle!vars
  <2>. QED
    BY <2>1, <2>2 DEF Next, Run, Step
<1>. QED
  BY <1>2, <1>3, Invariance, PTL DEF Spec, Cycle!Spec

-----------------------------------------------------------------------------
(* What holds with one caller at a time.                                   *)

\* A step of the only caller preserves SerialInv.
LEMMA SerialStep ==
  ASSUME NEW c \in Callers, TypeOK, PlaceInv, SerialInv(c), Step(c)
  PROVE  SerialInv(c)'
<1>0. /\ Functions /\ pstPfnTab \in BOOLEAN /\ opened \in BOOLEAN /\ online \in BOOLEAN
      /\ s_bDevOnLine \in BOOLEAN /\ position \in {"entry", "scan"}
  BY Typed DEF TypeOK
<1>. USE <1>0 DEF Functions, SerialInv, Invocations, Goto, Check, Invoke
<1>1. CASE Enter(c)
  BY <1>1 DEF Enter
<1>2. CASE NullCall(c)
  BY <1>2 DEF NullCall
<1>3. CASE SetUserData(c)
  BY <1>3 DEF SetUserData, Body
<1>4. CASE Forward(c)
  BY <1>4 DEF Forward, OneCall, IDS_CS_Calibrate, IDS_CS_Reset, IDS_CS_Scan, IDS_CS_ReadRF,
     IDS_CS_Connect, IDS_CS_Move, IDS_CS_GetDevInfo, IDS_CS_GetStatus, ConnectedCall, Connected
<1>5. CASE SetScan(c)
  BY <1>5 DEF SetScan
<1>6. CASE CloseDevice(c)
  BY <1>6 DEF CloseDevice, AfterClose
<1>7. CASE OpenDevice(c)
  <2>1. CASE DllEntry(c)
    BY <1>7, <2>1 DEF OpenDevice, DllEntry
  <2>2. CASE Check(c, "entry?", "init", "zero") /\ UNCHANGED <<pstPfnTab, opened>>
    BY <1>7, <2>2 DEF OpenDevice
  <2>3. CASE InitDriver(c)
    BY <1>7, <2>3 DEF OpenDevice, InitDriver
  <2>4. CASE ForgetTable(c)
    BY <1>7, <2>4 DEF OpenDevice, ForgetTable, NoTable
  <2>5. CASE ResetScanConf(c)
    BY <1>7, <2>5 DEF OpenDevice, ResetScanConf
  <2>. QED
    BY <1>7, <2>1, <2>2, <2>3, <2>4, <2>5 DEF OpenDevice
<1>8. CASE WaitForCard(c)
  BY <1>8 DEF WaitForCard, Answer
<1>9. CASE GetDevStatus(c)
  <2>1. ASSUME NEW reading, Probed(c, reading)
        PROVE  pc'[c] \in {"idle", "scan?", "wait?", "flag?"}
    BY <2>1 DEF Probed, Answer
  <2>2. UNCHANGED <<pstPfnTab, opened, position>>
    BY <1>9 DEF GetDevStatus
  <2>3. CASE TestTable(c, "flag?", "status?")
    BY <2>1, <2>2, <2>3 DEF TestTable
  <2>4. CASE TestTable(c, "status?", "connect")
    BY <2>1, <2>2, <2>4 DEF TestTable
  <2>5. CASE ConnectFirst(c)
    BY <2>2, <2>5 DEF ConnectFirst
  <2>6. CASE TestOnLine(c)
    BY <2>1, <2>2, <2>6 DEF TestOnLine
  <2>7. CASE ReadStatus(c)
    <3>1. pc'[c] \in {"idle", "scan?", "wait?", "flag?"}
      BY <2>1, <2>7 DEF ReadStatus
    <3>. QED
      BY <2>2, <2>7, <3>1 DEF ReadStatus
  <2>. QED
    BY <1>9, <2>3, <2>4, <2>5, <2>6, <2>7 DEF GetDevStatus
<1>10. CASE ScanAndReadIdCard(c)
  <2>1. CASE StartScan(c)
    BY <1>10, <2>1 DEF ScanAndReadIdCard, StartScan, Finish
  <2>2. CASE StartRF(c)
    BY <1>10, <2>2 DEF ScanAndReadIdCard, StartRF
  <2>3. CASE MoveToScan(c)
    BY <1>10, <2>3 DEF ScanAndReadIdCard, MoveToScan, AfterMove, Combined, Finish
  <2>4. CASE ScanImage(c) \/ ReadRF(c)
    BY <1>10, <2>4 DEF ScanAndReadIdCard, ScanImage, ReadRF, Finish
  <2>. QED
    BY <1>10, <2>1, <2>2, <2>3, <2>4 DEF ScanAndReadIdCard
<1>11. CASE BackIdCard(c)
  BY <1>11 DEF BackIdCard, Checked, AfterBack
<1>. QED
  BY <1>1, <1>2, <1>3, <1>4, <1>5, <1>6, <1>7, <1>8, <1>9, <1>10, <1>11 DEF Step, Continue

\* SerialInv holds throughout, if there is no other caller.
LEMMA Serial ==
  ASSUME NEW c, Callers = {c}
  PROVE  Spec => []SerialInv(c)
<1>1. Init => SerialInv(c)
  BY DEF Init, SerialInv, Invocations
<1>2. TypeOK /\ IInv /\ SerialInv(c) /\ [Next]_vars => SerialInv(c)'
  <2>. SUFFICES ASSUME TypeOK, IInv, SerialInv(c), [Next]_vars PROVE SerialInv(c)'
    OBVIOUS
  <2>1. CASE Next
    BY <2>1, SerialStep DEF IInv, Next, Run, Step
  <2>2. CASE UNCHANGED vars
    BY <2>2 DEF SerialInv
  <2>. QED
    BY <2>1, <2>2
<1>. QED
  BY <1>1, <1>2, Invariance, PTL DEF Spec

\* With one caller at a time the driver is only called while it is open, and
\* initialised only while it is not.
THEOREM CallsWhileOpen ==
  ASSUME NEW c, Callers = {c}
  PROVE  Spec => []DriverCallsWhileOpen
<1>1. SerialInv(c) => DriverCallsWhileOpen
  BY DEF SerialInv, DriverCallsWhileOpen, Invocations
<1>. QED
  BY Serial, <1>1, PTL

\* With one caller at a time, the pointer says between two entry points
\* whether the driver is open.
THEOREM TableTellsOpen ==
  ASSUME NEW c, Callers = {c}
  PROVE  Spec => []TableMeansOpen
<1>1. SerialInv(c) => TableMeansOpen
  BY DEF SerialInv, TableMeansOpen
<1>. QED
  BY Serial, <1>1, PTL

\* With one caller at a time, information and status are asked only of a
\* device whose last pConnect succeeded.
THEOREM StatusOnline ==
  ASSUME NEW c, Callers = {c}
  PROVE  Spec => []StatusWhileOnline
<1>1. SerialInv(c) => StatusWhileOnline
  BY DEF SerialInv, StatusWhileOnline
<1>. QED
  BY Serial, <1>1, PTL

\* With one caller at a time, ScanAndReadIdCard makes an image only if one is
\* wanted, after the device calls before it have succeeded, where the move put
\* the card and with OpenDevice's settings.
THEOREM InPlace ==
  ASSUME NEW c, Callers = {c}
  PROVE  Spec => []ScanInPlace
<1>1. IInv /\ SerialInv(c) => ScanInPlace
  BY DEF IInv, SettingsInv, InOpenDevice, ImageInv, SerialInv, ScanInPlace, Invocations
<1>. QED
  BY Serial, Invariance, <1>1, PTL

=============================================================================
