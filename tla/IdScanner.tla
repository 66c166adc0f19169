----------------------------- MODULE IdScanner -----------------------------
(***************************************************************************)
(* The identity-card scanner library: TestIDS.cpp and its JNI entry points *)
(* in IDSDriver_jni.cpp.  Every entry point works through pstPfnTab, the   *)
(* function table of the vendor's driver, which OpenDevice obtains and     *)
(* CloseDevice gives up; it is a plain global, and a caller may be on any  *)
(* thread.  test() never returns, so whoever wants to close the device     *)
(* while it runs is on another one.                                        *)
(*                                                                         *)
(* A step is one read of pstPfnTab in a test, or one call through it.  The *)
(* driver itself is not in the repository: each call may succeed or fail,  *)
(* and a status call may report any combination of sensors.                *)
(***************************************************************************)
EXTENDS Integers

CONSTANTS
  Callers,      \* the threads that enter the library
  PathSensors,  \* sensors 2, 3 and 4, along the path of the card
  Cards,        \* what can be read from a card
  NoCard,       \* an empty szIDCard
  MaxCalls      \* bound: entry points called

ASSUME IdScannerAssumption ==
  /\ PathSensors # {}
  /\ "cover" \notin PathSensors /\ "sensor1" \notin PathSensors
  /\ NoCard \notin Cards
  /\ MaxCalls \in Nat

VARIABLES
  process,       \* "running", or "dead" after a call through a null table
  pstPfnTab,     \* whether the table pointer is set
  opened,        \* driver: between a successful pInit and the next pUninit
  online,        \* driver: the last pConnect succeeded
  position,      \* driver: where the last successful pMove put the card
  s_bDevOnLine,  \* the static of GetDevStatus
  gScanConf,     \* the scan settings: zeroed, assigned in part, OpenDevice's,
                 \* or SetScan's
  calls,         \* entry points called so far (bounded by MaxCalls)
  pc, op,        \* where each caller stands, in which entry point
  image, rf,     \* the arguments of ScanAndReadIdCard
  ret,           \* its bRet, and that of OpenDevice
  probe,         \* which of its three questions WaitForCard is asking
  reads,         \* the answers it got
  succeeded,     \* the device calls of ScanAndReadIdCard that succeeded
  szIDCard       \* the card text in the caller's buffer

driverVars == <<opened, online, position>>
tableVars == <<process, pstPfnTab>>
callVars == <<calls, op, image, rf>>
scanVars == <<succeeded, szIDCard>>
vars == <<tableVars, driverVars, s_bDevOnLine, gScanConf, callVars, pc, ret,
          probe, reads, scanVars>>

SimpleOps == {"calibrate", "reset", "connect", "move", "scan", "readRF"}
InfoOps == {"getDevInfo", "getStatus"}
Ops == SimpleOps \cup InfoOps \cup {"init", "uninit", "waitForCard",
         "scanAndReadIdCard", "backIdCard", "setScan", "test"}

\* The sensors that WaitForCard asks for, one question after the other.
Mask(q) ==
  CASE q = "cover" -> {"cover"} [] q = "path" -> PathSensors [] OTHER -> {"sensor1"}
Questions == {"cover", "path", "entry"}
Sensors == {"cover", "sensor1"} \cup PathSensors
NoReading == [ok |-> FALSE, low |-> {}]

\* The points where a caller tests pstPfnTab, and those where it calls through it.
Tests == {"user?", "close?", "entry?", "simple?", "info?", "wait?", "flag?",
          "status?", "scan?", "back?"}
Invocations == {"user", "uninit", "init", "simple", "infoConnect", "info",
                "connect", "getStatus", "rfStart", "move", "image", "rfRead",
                "back"}
Pc == Tests \cup Invocations \cup
        {"idle", "clear", "entry", "initFail", "zero", "conf", "rest", "setScan",
         "online?"}

Init ==
  /\ process = "running"
  /\ pstPfnTab = FALSE
  /\ opened = FALSE
  /\ online = FALSE
  /\ position = "entry"
  /\ s_bDevOnLine = FALSE
  /\ gScanConf = "zero"
  /\ calls = 0
  /\ pc = [t \in Callers |-> "idle"]
  /\ op = [t \in Callers |-> "test"]
  /\ image = [t \in Callers |-> FALSE]
  /\ rf = [t \in Callers |-> FALSE]
  /\ ret = [t \in Callers |-> FALSE]
  /\ probe = [t \in Callers |-> "cover"]
  /\ reads = [t \in Callers |-> [q \in Questions |-> NoReading]]
  /\ succeeded = [t \in Callers |-> {}]
  /\ szIDCard = [t \in Callers |-> NoCard]

Goto(t, to) == pc' = [pc EXCEPT ![t] = to]

\* if (0 != pstPfnTab)
Check(t, at, yes, no) ==
  /\ pc[t] = at
  /\ Goto(t, IF pstPfnTab THEN yes ELSE no)

\* A call through the table, at a point where it is not null.
Invoke(t, at) == pc[t] = at /\ pstPfnTab

\* A call through the table after another caller has nulled it.
NullCall(t) ==
  /\ pc[t] \in Invocations
  /\ ~pstPfnTab
  /\ process' = "dead"
  /\ UNCHANGED <<pstPfnTab, driverVars, s_bDevOnLine, gScanConf, callVars, pc,
                 ret, probe, reads, scanVars>>

-----------------------------------------------------------------------------
(* The JNI entry points.                                                   *)

\* The entry point is called, with fresh locals and (scanAndReadIdCard) its
\* arguments and a new buffer.  All but test and init first set the user data.
Enter(t) ==
  /\ pc[t] = "idle"
  /\ calls < MaxCalls
  /\ calls' = calls + 1
  /\ \E o \in Ops, i, r \in BOOLEAN :
       /\ o # "scanAndReadIdCard" => i /\ r
       /\ op' = [op EXCEPT ![t] = o]
       /\ image' = [image EXCEPT ![t] = i]
       /\ rf' = [rf EXCEPT ![t] = r]
       /\ Goto(t, IF o \in {"init", "test"} THEN "close?" ELSE "user?")
  /\ szIDCard' = [szIDCard EXCEPT ![t] = NoCard]
  /\ ret' = [ret EXCEPT ![t] = FALSE]
  /\ probe' = [probe EXCEPT ![t] = "cover"]
  /\ reads' = [reads EXCEPT ![t] = [q \in Questions |-> NoReading]]
  /\ succeeded' = [succeeded EXCEPT ![t] = {}]
  /\ UNCHANGED <<tableVars, driverVars, s_bDevOnLine, gScanConf>>

\* What follows IDS_CS_SetUserData in each entry point.
Body(t) ==
  CASE op[t] \in SimpleOps -> "simple?"
    [] op[t] \in InfoOps -> "info?"
    [] op[t] = "init" -> "idle"
    [] op[t] = "uninit" -> "close?"
    [] op[t] = "waitForCard" -> "wait?"
    [] op[t] = "scanAndReadIdCard" -> "scan?"
    [] op[t] = "backIdCard" -> "back?"
    [] OTHER -> "setScan"

SetUserData(t) ==
  /\ \/ Check(t, "user?", "user", Body(t))
     \/ Invoke(t, "user") /\ Goto(t, Body(t))
  /\ UNCHANGED <<tableVars, driverVars, s_bDevOnLine, gScanConf, callVars, ret,
                 probe, reads, scanVars>>

\* An entry point that is one call through the table.
OneCall(t, o) ==
  /\ op[t] = o
  /\ Check(t, "simple?", "simple", "idle") \/ (Invoke(t, "simple") /\ Goto(t, "idle"))

IDS_CS_Calibrate(t) == OneCall(t, "calibrate") /\ UNCHANGED <<online, position>>
IDS_CS_Reset(t) == OneCall(t, "reset") /\ UNCHANGED <<online, position>>
IDS_CS_Scan(t) == OneCall(t, "scan") /\ UNCHANGED <<online, position>>
IDS_CS_ReadRF(t) == OneCall(t, "readRF") /\ UNCHANGED <<online, position>>

IDS_CS_Connect(t) ==
  /\ OneCall(t, "connect")
  /\ online' \in IF pc[t] = "simple" THEN BOOLEAN ELSE {online}
  /\ UNCHANGED position

IDS_CS_Move(t) ==
  /\ OneCall(t, "move")
  /\ position' \in {position} \cup IF pc[t] = "simple" THEN {"entry", "scan"} ELSE {}
  /\ UNCHANGED online

\* IDS_CS_GetDevInfo and IDS_CS_GetStatus connect first, and give up if that
\* fails.
Heedless(ok) == TRUE  \* fault: the result of pConnect is ignored
Connected(ok) == ok

ConnectedCall(t) ==
  /\ \/ Check(t, "info?", "infoConnect", "idle") /\ UNCHANGED online
     \/ /\ Invoke(t, "infoConnect")
        /\ \E ok \in BOOLEAN :
             online' = ok /\ Goto(t, IF Connected(ok) THEN "info" ELSE "idle")
     \/ Invoke(t, "info") /\ Goto(t, "idle") /\ UNCHANGED online
  /\ UNCHANGED position

IDS_CS_GetDevInfo(t) == op[t] = "getDevInfo" /\ ConnectedCall(t)
IDS_CS_GetStatus(t) == op[t] = "getStatus" /\ ConnectedCall(t)

\* The entry points that only forward to the driver.
Forward(t) ==
  /\ \/ IDS_CS_Calibrate(t)
     \/ IDS_CS_Reset(t)
     \/ IDS_CS_Connect(t)
     \/ IDS_CS_Move(t)
     \/ IDS_CS_Scan(t)
     \/ IDS_CS_ReadRF(t)
     \/ IDS_CS_GetDevInfo(t)
     \/ IDS_CS_GetStatus(t)
  /\ UNCHANGED <<tableVars, opened, s_bDevOnLine, gScanConf, callVars, ret,
                 probe, reads, scanVars>>

\* The test of the arguments: it asks for a resolution that is at once 150
\* and 300 (iDpi != 150 || iDpi != 300 refuses), so it accepts nothing.
SetScanAccepts(iDpi, iMode, iSize, iType) ==
  /\ ~(iDpi # 150 \/ iDpi # 300)
  /\ iMode \in 0..4
  /\ iSize \in 1..3
  /\ iType \in 1..2

SetScan(t) ==
  /\ pc[t] = "setScan"
  /\ \E iDpi \in {150, 300, 600}, iMode \in {0, 5}, iSize \in {0, 1}, iType \in {1, 3} :
       gScanConf' = IF SetScanAccepts(iDpi, iMode, iSize, iType) THEN "chosen"
                                                                 ELSE gScanConf
  /\ Goto(t, "idle")
  /\ UNCHANGED <<tableVars, driverVars, s_bDevOnLine, callVars, ret, probe,
                 reads, scanVars>>

-----------------------------------------------------------------------------
(* Opening and closing.                                                    *)

\* OpenDevice begins with CloseDevice; uninit is only that.
AfterClose(t) == IF op[t] = "uninit" THEN "idle" ELSE "entry"

CloseDevice(t) ==
  /\ \/ /\ Check(t, "close?", "uninit", AfterClose(t))
        /\ UNCHANGED <<pstPfnTab, opened>>
     \/ /\ Invoke(t, "uninit")
        /\ opened' = FALSE
        /\ Goto(t, "clear")
        /\ UNCHANGED pstPfnTab
     \/ /\ pc[t] = "clear"
        /\ pstPfnTab' = FALSE
        /\ Goto(t, AfterClose(t))
        /\ UNCHANGED opened
  /\ UNCHANGED <<process, online, position, s_bDevOnLine, gScanConf, callVars,
                 ret, probe, reads, scanVars>>

\* The rest of OpenDevice: Dll_IDS_Entry may give no table; a failed pInit
\* takes it back; the settings are reset in either case.
DllEntry(t) ==
  /\ pc[t] = "entry"
  /\ pstPfnTab' \in BOOLEAN
  /\ ret' = [ret EXCEPT ![t] = FALSE]
  /\ Goto(t, "entry?")
  /\ UNCHANGED <<opened, gScanConf>>

InitDriver(t) ==
  /\ Invoke(t, "init")
  /\ \E ok \in BOOLEAN :
       /\ opened' = (opened \/ ok)
       /\ ret' = [ret EXCEPT ![t] = ok]
       /\ Goto(t, IF ok THEN "zero" ELSE "initFail")
  /\ UNCHANGED <<pstPfnTab, gScanConf>>

KeptTable == pstPfnTab  \* fault: the table stays although pInit failed
NoTable == FALSE

ForgetTable(t) ==
  /\ pc[t] = "initFail"
  /\ pstPfnTab' = NoTable
  /\ Goto(t, "zero")
  /\ UNCHANGED <<opened, gScanConf, ret>>

\* memset of gScanConf, then its four assignments, of which the first leaves it
\* torn and the last whole; init goes on with the user data, test with its loop
\* if the device was opened.
NoSettings == "zero"  \* fault: the settings are not assigned again
Settings == "default"

ResetScanConf(t) ==
  /\ \/ pc[t] = "zero" /\ gScanConf' = "zero" /\ Goto(t, "conf")
     \/ pc[t] = "conf" /\ gScanConf' = "torn" /\ Goto(t, "rest")
     \/ /\ pc[t] = "rest"
        /\ gScanConf' = Settings
        /\ Goto(t, IF op[t] = "init" THEN "user?" ELSE IF ret[t] THEN "wait?" ELSE "idle")
  /\ UNCHANGED <<pstPfnTab, opened, ret>>

OpenDevice(t) ==
  /\ \/ DllEntry(t)
     \/ /\ Check(t, "entry?", "init", "zero")
        /\ UNCHANGED <<pstPfnTab, opened, gScanConf, ret>>
     \/ InitDriver(t)
     \/ ForgetTable(t)
     \/ ResetScanConf(t)
  /\ UNCHANGED <<process, online, position, s_bDevOnLine, callVars, probe, reads,
                 scanVars>>

-----------------------------------------------------------------------------
(* Waiting for a card.                                                     *)

\* The result of WaitForCard: test goes on to scan, or sleeps and asks again.
PatientAnswer(t, b) ==  \* fault: WaitForCard itself asks again
  Goto(t, IF ~b THEN "wait?" ELSE IF op[t] = "test" THEN "scan?" ELSE "idle")

Answer(t, b) ==
  Goto(t, IF op[t] # "test" THEN "idle" ELSE IF b THEN "scan?" ELSE "wait?")

\* The first of the three questions.
WaitForCard(t) ==
  /\ pc[t] = "wait?"
  /\ IF pstPfnTab THEN Goto(t, "flag?") ELSE Answer(t, FALSE)
  /\ probe' = [probe EXCEPT ![t] = "cover"]
  /\ reads' = [reads EXCEPT ![t] = [q \in Questions |-> NoReading]]
  /\ UNCHANGED <<tableVars, driverVars, s_bDevOnLine, gScanConf, callVars, ret,
                 scanVars>>

\* CoverFlagIs and SensorFlagIs: a status was read and every sensor that is
\* asked for is low.  No status counts as not low.
FlagIs(q, reading) == reading.ok /\ Mask(q) \subseteq reading.low

\* WaitForCard is told the answer to its question: an open (low) cover or a
\* fully blocked path end it, then sensor 1 decides.
EndsLate(q, b) == (b /\ q # "cover") \/ q = "entry"  \* fault: the cover does not
Ends(q, b) == b \/ q = "entry"

Probed(t, reading) ==
  LET b == FlagIs(probe[t], reading) IN
  /\ reads' = [reads EXCEPT ![t][probe[t]] = reading]
  /\ IF Ends(probe[t], b)
     THEN Answer(t, b /\ probe[t] = "entry") /\ UNCHANGED probe
     ELSE /\ probe' = [probe EXCEPT ![t] = IF @ = "cover" THEN "path" ELSE "entry"]
          /\ Goto(t, "flag?")

\* The tests of CoverFlagIs or SensorFlagIs, then of GetDevStatus.
TestTable(t, at, yes) ==
  /\ pc[t] = at
  /\ IF pstPfnTab THEN Goto(t, yes) /\ UNCHANGED <<probe, reads>>
                  ELSE Probed(t, NoReading)
  /\ UNCHANGED <<online, s_bDevOnLine>>

\* pConnect, and what the static s_bDevOnLine makes of it.
ConnectFirst(t) ==
  /\ Invoke(t, "connect")
  /\ online' \in BOOLEAN
  /\ s_bDevOnLine' = online'
  /\ Goto(t, "online?")
  /\ UNCHANGED <<probe, reads>>

\* The static is read again: another caller may have written it meanwhile.
TestOnLine(t) ==
  /\ pc[t] = "online?"
  /\ IF s_bDevOnLine THEN Goto(t, "getStatus") /\ UNCHANGED <<probe, reads>>
                     ELSE Probed(t, NoReading)
  /\ UNCHANGED <<online, s_bDevOnLine>>

ReadStatus(t) ==
  /\ Invoke(t, "getStatus")
  /\ \/ Probed(t, NoReading)
     \/ \E low \in SUBSET Mask(probe[t]) : Probed(t, [ok |-> TRUE, low |-> low])
  /\ UNCHANGED <<online, s_bDevOnLine>>

GetDevStatus(t) ==
  /\ \/ TestTable(t, "flag?", "status?")
     \/ TestTable(t, "status?", "connect")
     \/ ConnectFirst(t)
     \/ TestOnLine(t)
     \/ ReadStatus(t)
  /\ UNCHANGED <<tableVars, opened, position, gScanConf, callVars, ret, scanVars>>

-----------------------------------------------------------------------------
(* Scanning, reading and giving back a card.                               *)

\* ScanAndReadIdCard returns: test gives the card back if all went well.
Finish(t, b) ==
  Goto(t, IF op[t] # "test" THEN "idle" ELSE IF b THEN "back?" ELSE "wait?")

\* A device call of ScanAndReadIdCard and whether it succeeds.
Tried(t, what, ok) ==
  succeeded' = IF ok THEN [succeeded EXCEPT ![t] = @ \cup {what}] ELSE succeeded

StartScan(t) ==
  /\ pc[t] = "scan?"
  /\ IF pstPfnTab THEN Goto(t, IF rf[t] THEN "rfStart" ELSE "move") ELSE Finish(t, FALSE)
  /\ ret' = [ret EXCEPT ![t] = pstPfnTab]
  /\ succeeded' = [succeeded EXCEPT ![t] = {}]
  /\ UNCHANGED <<position, szIDCard>>

StartRF(t) ==
  /\ Invoke(t, "rfStart")
  /\ \E ok \in BOOLEAN : Tried(t, "rfStart", ok) /\ ret' = [ret EXCEPT ![t] = ok]
  /\ Goto(t, "move")
  /\ UNCHANGED <<position, szIDCard>>

\* After the move: the image if it is wanted and all went well, then the RF
\* data if they are wanted, whatever happened.
AfterMove(t, b) ==
  IF b /\ image[t] THEN Goto(t, "image")
  ELSE IF rf[t] THEN Goto(t, "rfRead") ELSE Finish(t, b)

\* bRet &= the result of the move.
Overwritten(before, ok) == ok  \* fault: bRet = that result
Combined(before, ok) == before /\ ok

MoveToScan(t) ==
  /\ Invoke(t, "move")
  /\ \E ok \in BOOLEAN :
       /\ Tried(t, "move", ok)
       /\ position' = IF ok THEN "scan" ELSE position
       /\ ret' = [ret EXCEPT ![t] = Combined(@, ok)]
       /\ AfterMove(t, Combined(ret[t], ok))
  /\ UNCHANGED szIDCard

ScanImage(t) ==
  /\ Invoke(t, "image")
  /\ \E ok \in BOOLEAN :
       /\ Tried(t, "image", ok)
       /\ ret' = [ret EXCEPT ![t] = ok]
       /\ IF rf[t] THEN Goto(t, "rfRead") ELSE Finish(t, ok)
  /\ UNCHANGED <<position, szIDCard>>

\* What szIDCard may hold after TransIDCard: the text of a card, or what it
\* held before if the sex on the card cannot be translated.
HalfTranslated(before) == Cards \cup {"half"}  \* fault: copied all the same
TransIDCard(before) == Cards \cup {before}

\* The RF data, read whether or not the card was moved and scanned.  Neither a
\* failure of this nor of the translation is reported.
ReadRF(t) ==
  /\ Invoke(t, "rfRead")
  /\ \E text \in TransIDCard(szIDCard[t]) : szIDCard' = [szIDCard EXCEPT ![t] = text]
  /\ Finish(t, ret[t])
  /\ UNCHANGED <<position, ret, succeeded>>

ScanAndReadIdCard(t) ==
  /\ \/ StartScan(t)
     \/ StartRF(t)
     \/ MoveToScan(t)
     \/ ScanImage(t)
     \/ ReadRF(t)
  /\ UNCHANGED <<tableVars, opened, online, s_bDevOnLine, gScanConf, callVars,
                 probe, reads>>

\* BackIdCard; test ignores its result and waits for the next card.
AfterBack(t) == IF op[t] = "test" THEN "wait?" ELSE "idle"

Unchecked(t) == pc[t] = "back?" /\ Goto(t, "back")  \* fault: the table is not tested
Checked(t) == Check(t, "back?", "back", AfterBack(t))

BackIdCard(t) ==
  /\ \/ Checked(t) /\ UNCHANGED position
     \/ /\ Invoke(t, "back")
        /\ position' \in {position, "entry"}
        /\ Goto(t, AfterBack(t))
  /\ UNCHANGED <<tableVars, opened, online, s_bDevOnLine, gScanConf, callVars,
                 ret, probe, reads, scanVars>>

-----------------------------------------------------------------------------

Continue(t) ==
  \/ NullCall(t)
  \/ SetUserData(t)
  \/ Forward(t)
  \/ SetScan(t)
  \/ CloseDevice(t)
  \/ OpenDevice(t)
  \/ WaitForCard(t)
  \/ GetDevStatus(t)
  \/ ScanAndReadIdCard(t)
  \/ BackIdCard(t)

Run(t) == process = "running" /\ Continue(t)

Next == \E t \in Callers : (process = "running" /\ Enter(t)) \/ Run(t)

Spec == Init /\ [][Next]_vars

\* A caller inside the library is scheduled, and the driver's calls return
\* (those that wait for the card are given a time limit).  Nobody is obliged
\* to call.
FairSpec == Spec /\ \A t \in Callers : WF_vars(Run(t))

-----------------------------------------------------------------------------
(* Properties.                                                             *)

\* Every variable stays in its type.
TypeOK ==
  /\ process \in {"running", "dead"}
  /\ {pstPfnTab, opened, online, s_bDevOnLine} \subseteq BOOLEAN
  /\ position \in {"entry", "scan"}
  /\ gScanConf \in {"zero", "torn", "default", "chosen"}
  /\ calls \in 0..MaxCalls
  /\ pc \in [Callers -> Pc]
  /\ op \in [Callers -> Ops]
  /\ image \in [Callers -> BOOLEAN]
  /\ rf \in [Callers -> BOOLEAN]
  /\ ret \in [Callers -> BOOLEAN]
  /\ probe \in [Callers -> Questions]
  /\ reads \in [Callers -> [Questions -> [ok : BOOLEAN, low : SUBSET Sensors]]]
  /\ succeeded \in [Callers -> SUBSET {"rfStart", "move", "image"}]
  /\ szIDCard \in [Callers -> Cards \cup {NoCard}]

\* With one caller at a time the driver is only called while it is open, never
\* through a null table, and never opened twice: every entry point tests the
\* pointer, and OpenDevice closes first.
DriverCallsWhileOpen ==
  \A t \in Callers :
    /\ pc[t] = "init" => pstPfnTab /\ ~opened
    /\ pc[t] \in Invocations \ {"init"} => pstPfnTab /\ opened

\* With one caller at a time, between two entry points the pointer says
\* whether the driver is open, also after a failed OpenDevice.
TableMeansOpen ==
  (\A t \in Callers : pc[t] = "idle") => (pstPfnTab <=> opened)

\* With one caller at a time, information and status are only asked of a
\* device whose last pConnect succeeded; the static s_bDevOnLine, which
\* outlives the call and the device, never stands for a connect that failed.
StatusWhileOnline ==
  \A t \in Callers : pc[t] \in {"info", "getStatus"} => online

\* With one caller at a time, ScanAndReadIdCard, whether test() or Java calls it,
\* makes an image only if one is wanted, after every device call that it was to
\* make first has succeeded, with the card still where the move put it and the
\* settings those that OpenDevice made.  (IDS_CS_Scan is another way to scan: it
\* neither moves the card nor uses gScanConf, and is not meant here.)
ScanInPlace ==
  \A t \in Callers :
    pc[t] = "image" => /\ position = "scan" /\ gScanConf = "default"
                       /\ image[t] /\ "move" \in succeeded[t]
                       /\ rf[t] => "rfStart" \in succeeded[t]

\* What test() has got to, seen as a CardCycle.
Taking == {"rfStart", "move", "image", "rfRead"}
Giving == {"back?", "back"}
Opening == {"close?", "uninit", "clear", "entry", "entry?", "init", "initFail",
            "zero", "conf", "rest"}
Stage(t) ==
  CASE process = "dead" -> "dead"
    [] process # "dead" /\ (op[t] # "test" \/ pc[t] \in {"idle"} \cup Opening) -> "off"
    [] process # "dead" /\ op[t] = "test" /\ pc[t] \in Taking -> "taking"
    [] process # "dead" /\ op[t] = "test" /\ pc[t] \in Giving -> "giving"
    [] OTHER -> "waiting"

\* One of the callers, which are all alike.
Tester == CHOOSE t \in Callers : TRUE

Cycle == INSTANCE CardCycle
  WITH stage <- Stage(Tester),
       done <- IF Stage(Tester) \in {"taking", "giving"} THEN succeeded[Tester] ELSE {}

\* However other callers interfere, the loop of test() is a CardCycle: no image
\* is scanned before the read command and the move succeeded, no card given
\* back before all did, every card that is taken in is disposed of, and the
\* loop, once entered, is never left, not even when the device is closed.
TestCycles == Cycle!FairSpec

InLoop(t) == op[t] = "test" /\ pc[t] \in {"scan?", "rfStart", "move", "image", "rfRead",
                                         "back?", "back"}

\* However other callers interfere, the loop of test() takes in a card only
\* after it read sensor 1 blocked, and read neither an open cover nor a path
\* that is blocked at every sensor, in this same round.
ScansOnlyReadyCards ==
  \A t \in Callers :
    InLoop(t) => /\ FlagIs("entry", reads[t]["entry"])
                 /\ ~FlagIs("cover", reads[t]["cover"])
                 /\ ~FlagIs("path", reads[t]["path"])

\* However other callers interfere, ScanAndReadIdCard scans with settings other
\* than those that OpenDevice makes only while some caller is in OpenDevice: the
\* settings that it zeroes are whole again when it returns.
SettingsWhole ==
  \A t \in Callers :
    pc[t] = "image" /\ gScanConf # "default" =>
      \E u \in Callers \ {t} : op[u] \in {"init", "test"} /\ pc[u] \in Opening

\* Every entry point but test returns, unless the process dies.
EntryPointsReturn ==
  \A t \in Callers :
    (pc[t] # "idle" /\ op[t] # "test") ~> (pc[t] = "idle" \/ process = "dead")

\* The comment of WaitForCard, "check the state of the cover; while it is open
\* there must be no scan": a card is taken in only after the cover was read,
\* and read closed.
ScansOnlyUnderClosedCover ==
  \A t \in Callers :
    InLoop(t) => reads[t]["cover"].ok /\ "cover" \notin reads[t]["cover"].low

\* The comment of WaitForCard, "check the sensors that must not be blocked
\* before the scan": a card is taken in only when none of sensors 2, 3 and 4
\* was read blocked.
ScansOnlyWithClearPath ==
  \A t \in Callers :
    InLoop(t) => reads[t]["path"].low = {}
=============================================================================
