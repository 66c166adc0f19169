-------------------------- MODULE UsbDriverProofs --------------------------
(***************************************************************************)
(* Machine-checked proofs about UsbDriver, for any number of threads,      *)
(* whatever each of them calls, and any lengths and bounds.                *)
(***************************************************************************)
EXTENDS UsbDriver, FiniteSetTheorems, TLAPS

(* The inductive invariant behind the safety properties, part by part.     *)

\* The calls of OpenDevice that may still ask the user.
Asking == {t \in Threads : pc[t] \in {"find", "list", "request"}}

\* A dialog belongs to one OpenDevice, so there are never more.
DialogInv ==
  /\ IsFiniteSet(Asking)
  /\ dialogs + Cardinality(Asking) <= mListSize

\* The place of a thread tells which method or broadcast it is in; broadcasts
\* are handled by the main thread only.
PlaceInv ==
  \A t \in Threads :
    /\ pc[t] \in {"find", "list", "request", "register", "permission"} => op[t] = "OpenDevice"
    /\ pc[t] = "enter" => op[t] \in {"OpenDevice", "granted", "denied"}
    /\ pc[t] \in InMonitor => op[t] \in {"OpenDevice", "granted"}
    /\ pc[t] \in InClose => op[t] \in {"CloseDevice", "detached"}
    /\ pc[t] = "ready?" => op[t] \in Transfers \cup {"RecvData"}
    /\ pc[t] = "transfer" => op[t] \in Transfers
    /\ pc[t] = "chunk" => op[t] = "RecvData"
    /\ op[t] \in Broadcasts => t = Main

\* What RecvData still asks for and what it has counted make up what was wanted.
CountInv ==
  \A t \in Threads :
    /\ left[t] + index[t] = want[t]
    /\ pc[t] = "chunk" => left[t] > 0
    /\ pc[t] = "idle" /\ op[t] = "RecvData" /\ result[t] = 0 => left[t] = 0

OverlapInv ==
  \A t, u \in Threads : pc[t] \in InMonitor /\ pc[u] \in InClose => overlapped

\* Without an overlap only mConnection can be open, and where it is about to
\* be replaced or nulled it is not.
LiveInv ==
  ~overlapped =>
    /\ live \subseteq {mConnection}
    /\ \A t \in Threads :
         /\ pc[t] \in {"setOpen", "closeNull"} => live = {}
         /\ pc[t] = "closeRest" => mConnection = 0

\* A connection whose other statics are not there is one that setDevice or
\* CloseDevice is still working on.
Reworking == {"setClose", "setUse?", "setUse", "close"}
StaticsInv ==
  ~overlapped /\ mConnection \in live =>
    \/ mUsbFd = mConnection /\ mUsbInterface /\ endpoints
    \/ \E t \in Threads : pc[t] \in Reworking

\* What CloseDevice leaves stays until the next FindUsbList.
ClosedInv ==
  intent = "closed" => ~mUsbManager /\ (~overlapped => mConnection = 0)

\* The main thread handles a permission and has not come to openDevice.
Granting == op[Main] = "granted" /\ pc[Main] \in {"enter", "setClose?", "setRelease", "setClose", "setOpen"}

\* Whoever asks for the permission has registered the receiver before he is
\* refused.
GrantInv ==
  /\ \A t \in Threads :
       pc[t] = "permission" \/ (pc[t] = "enter" /\ op[t] = "OpenDevice") => registered
  /\ intent = "refused" => registered
  /\ intent = "refused" /\ granted /\ process = "running" =>
       Granting \/ \E i \in DOMAIN queue : queue[i] = "granted"

IInv ==
  /\ DialogInv
  /\ PlaceInv
  /\ CountInv
  /\ MonitorHeld
  /\ OverlapInv
  /\ LiveInv
  /\ StaticsInv
  /\ ClosedInv
  /\ GrantInv

-----------------------------------------------------------------------------

USE UsbDriverAssumption
USE DEF system, connections, statics, recv, driverVars, vars,
        Transfers, Methods, Broadcasts, InMonitor, InClose

\* A step of one thread, without the history of overlaps.
Step(t) ==
  \/ Call(t)
  \/ Find(t)
  \/ RequestPermission(t)
  \/ RegisterReceiver(t)
  \/ EnterMonitor(t)
  \/ HasPermission(t)
  \/ SetDevice(t)
  \/ CloseDevice(t)
  \/ Ready(t)
  \/ Transfer(t)
  \/ RecvChunk(t)

-----------------------------------------------------------------------------
(* Where a step leads.                                                     *)

\* What setDevice and CloseDevice leave alone.
SetFrame == UNCHANGED <<system, mUsbManager, mListSize, op, recv>>
CloseFrame == UNCHANGED <<system, made, endpoints, mUsbFd, mListSize, op, recv>>

\* The method or the handler of t ends, one way or the other.
Ended(t) ==
  /\ pc' = [pc EXCEPT ![t] = pc'[t]] /\ pc'[t] = "idle"
  /\ monitor' = IF monitor = t THEN Nobody ELSE monitor
  /\ result' \in [Threads -> {Exception, -2, -1, 0, 1}]
  /\ \A u \in Threads \ {t} : result'[u] = result[u]
  /\ process' \in {process, "dead"}

\* A return leaves the method and its monitor,
LEMMA Returning ==
  ASSUME TypeOK, NEW t \in Threads, NEW r \in {-2, -1, 0, 1}, Return(t, r)
  PROVE  Ended(t)
BY DEF TypeOK, Goto, Return, Ended

\* and so does an exception,
LEMMA Throwing ==
  ASSUME TypeOK, NEW t \in Threads, Throw(t)
  PROVE  Ended(t)
BY DEF TypeOK, Goto, Throw, Unlocked, Ended

\* and so does a toast.
LEMMA Toasting ==
  ASSUME TypeOK, NEW t \in Threads, NEW r \in {-2, -1}, Toast(t, r)
  PROVE  Ended(t)
BY Returning, Throwing DEF Toast

\* A method that goes on keeps the monitor.
LEMMA Proceeding ==
  ASSUME TypeOK, NEW t \in Threads, NEW to, Proceed(t, to)
  PROVE  /\ pc' = [pc EXCEPT ![t] = pc'[t]] /\ pc'[t] = to
         /\ UNCHANGED <<process, monitor, result>>
BY DEF TypeOK, Goto, Proceed

\* The places a step of t may lead to.
Leads(t) ==
  /\ pc[t] = "idle" => \/ op'[t] = "OpenDevice" /\ pc'[t] = "find"
                       \/ op'[t] = "CloseDevice" /\ pc'[t] = "close?"
                       \/ op'[t] \in Transfers \cup {"RecvData"} /\ pc'[t] = "ready?"
  /\ pc[t] = "find" => pc'[t] = "list"
  /\ pc[t] = "list" => pc'[t] \in {"request", "idle"}
  /\ pc[t] = "request" => pc'[t] \in {"register", "idle"}
  /\ pc[t] = "register" => pc'[t] = "enter"
  /\ pc[t] = "enter" => CASE op[t] = "denied" -> pc'[t] = "idle"
                          [] op[t] = "granted" -> pc'[t] = "setClose?"
                          [] OTHER -> pc'[t] = "permission"
  /\ pc[t] = "permission" => pc'[t] \in {"setClose?", "idle"}
  /\ pc[t] = "setClose?" => pc'[t] \in {"setRelease", "setOpen"}
  /\ pc[t] = "setRelease" => pc'[t] \in {"setClose", "idle"}
  /\ pc[t] = "setClose" => pc'[t] \in {"setOpen", "idle"}
  /\ pc[t] = "setOpen" => pc'[t] \in {"setUse?", "idle"}
  /\ pc[t] = "setUse?" => pc'[t] \in {"setUse", "idle"}
  /\ pc[t] = "setUse" => pc'[t] = "idle"
  /\ pc[t] = "close?" => pc'[t] \in {"closeRelease", "closeRest"}
  /\ pc[t] = "closeRelease" => pc'[t] \in {"close", "idle"}
  /\ pc[t] = "close" => pc'[t] \in {"closeNull", "idle"}
  /\ pc[t] = "closeNull" => pc'[t] = "closeRest"
  /\ pc[t] = "closeRest" => pc'[t] = "idle"
  /\ pc[t] = "ready?" => \/ pc'[t] = "idle"
                         \/ pc'[t] = "transfer" /\ op[t] # "RecvData"
                         \/ pc'[t] = "chunk" /\ op[t] = "RecvData"
  /\ pc[t] = "transfer" => pc'[t] = "idle"
  /\ pc[t] = "chunk" => pc'[t] \in {"chunk", "idle"}

\* The monitor is taken at "enter" and given back at the end.
Locks(t) ==
  monitor' = IF pc'[t] = "idle" /\ monitor = t THEN Nobody
             ELSE IF pc[t] = "enter" /\ pc'[t] # "idle" THEN t ELSE monitor

\* A step of t moves t only, and inside its method.
Control(t) ==
  /\ process = "running"
  /\ pc' = [pc EXCEPT ![t] = pc'[t]]
  /\ IF pc[t] = "idle" THEN op' = [op EXCEPT ![t] = op'[t]] ELSE op' = op
  /\ Leads(t)
  /\ pc[t] = "enter" => monitor = Nobody
  /\ Locks(t)
  /\ process' \in {"running", "exited", "dead"}
  /\ result' \in [Threads -> {Exception, -2, -1, 0, 1}]
  /\ \A u \in Threads \ {t} : result'[u] = result[u]

\* Every step of a thread follows the places of its method and the monitor.
LEMMA ControlStep ==
  ASSUME TypeOK, MonitorHeld, NEW t \in Threads, Step(t)
  PROVE  Control(t)
<1>. USE Returning, Throwing, Toasting, Proceeding DEF At, Ended, Leads, Locks, Control
<1>0. /\ pc \in [Threads -> Pc]
      /\ op \in [Threads -> Methods \cup Broadcasts]
      /\ result \in [Threads -> {Exception, -2, -1, 0, 1}]
  BY DEF TypeOK
<1>1. CASE Call(t)
  BY <1>0, <1>1 DEF Call, Goto
<1>2. CASE Find(t)
  BY <1>0, <1>2 DEF Find
<1>3. CASE RequestPermission(t)
  BY <1>0, <1>3 DEF RequestPermission
<1>4. CASE RegisterReceiver(t)
  BY <1>0, <1>4 DEF RegisterReceiver, AtOnce
<1>5. CASE EnterMonitor(t)
  BY <1>0, <1>5 DEF EnterMonitor, Synchronized, Goto
<1>6. CASE HasPermission(t)
  BY <1>0, <1>6 DEF HasPermission
<1>7. ASSUME SetFrame, SetClose(t) PROVE Control(t)
  BY <1>0, <1>7 DEF SetFrame, SetClose
<1>8. ASSUME SetFrame, SetOpen(t) PROVE Control(t)
  BY <1>0, <1>8 DEF SetFrame, SetOpen
<1>9. ASSUME SetFrame, SetUse(t) PROVE Control(t)
  BY <1>0, <1>9 DEF SetFrame, SetUse
<1>10. ASSUME CloseFrame, CloseConnection(t) PROVE Control(t)
  BY <1>0, <1>10 DEF CloseFrame, CloseConnection
<1>11. ASSUME CloseFrame, CloseRest(t) PROVE Control(t)
  BY <1>0, <1>11 DEF CloseFrame, CloseRest, Goto, MonitorHeld
<1>12. CASE Ready(t)
  BY <1>0, <1>12 DEF Ready
<1>13. CASE Transfer(t)
  BY <1>0, <1>13 DEF Transfer
<1>14. CASE RecvChunk(t)
  BY <1>0, <1>14 DEF RecvChunk, Got
<1>. QED
  BY <1>1, <1>2, <1>3, <1>4, <1>5, <1>6, <1>7, <1>8, <1>9, <1>10, <1>11, <1>12, <1>13, <1>14
     DEF Step, SetDevice, CloseDevice, SetFrame, CloseFrame

\* So the places keep matching the methods, and the monitor its holder.
LEMMA PlaceStep ==
  ASSUME TypeOK, PlaceInv, MonitorHeld, NEW t \in Threads, Step(t)
  PROVE  PlaceInv' /\ MonitorHeld'
<1>0. /\ Control(t) /\ pc \in [Threads -> Pc]
      /\ op \in [Threads -> Methods \cup Broadcasts]
  BY ControlStep DEF TypeOK
<1>1. PlaceInv'
  <2>1. ASSUME NEW u \in Threads \ {t} PROVE pc'[u] = pc[u] /\ op'[u] = op[u]
    BY <1>0 DEF Control
  <2>2. CASE pc[t] = "idle"
    BY <1>0, <2>1, <2>2 DEF Control, Leads, PlaceInv
  <2>3. CASE pc[t] # "idle"
    <3>1. op' = op
      BY <1>0, <2>3 DEF Control
    <3>2. CASE pc[t] \in {"find", "list", "request", "register", "enter"}
      BY <1>0, <2>1, <3>1, <3>2 DEF Control, Leads, PlaceInv
    <3>3. CASE pc[t] \in InMonitor
      BY <1>0, <2>1, <3>1, <3>3 DEF Control, Leads, PlaceInv
    <3>4. CASE pc[t] \in InClose
      BY <1>0, <2>1, <3>1, <3>4 DEF Control, Leads, PlaceInv
    <3>5. CASE pc[t] \in {"ready?", "transfer", "chunk"}
      BY <1>0, <2>1, <3>1, <3>5 DEF Control, Leads, PlaceInv
    <3>. QED
      BY <1>0, <2>3, <3>2, <3>3, <3>4, <3>5 DEF Pc
  <2>. QED
    BY <2>2, <2>3
<1>2. MonitorHeld'
  BY <1>0 DEF MonitorHeld, Control, Leads, Locks, Pc
<1>. QED
  BY <1>1, <1>2

-----------------------------------------------------------------------------
(* The parts that one kind of step can disturb.                            *)

\* A dialog takes the place of the OpenDevice that asked for it.
LEMMA DialogStep ==
  ASSUME TypeOK, MonitorHeld, DialogInv, NEW t \in Threads, Step(t)
  PROVE  /\ DialogInv'
         /\ dialogs' \in 0..MaxOpens /\ mListSize' \in 0..MaxOpens
<1>. USE DEF Control, Leads
<1>0. /\ Control(t) /\ pc \in [Threads -> Pc]
      /\ op \in [Threads -> Methods \cup Broadcasts]
      /\ dialogs \in Nat /\ mListSize \in Nat /\ MaxOpens \in Nat
      /\ mListSize <= MaxOpens /\ dialogs <= MaxOpens
  <2>1. MaxOpens \in Nat
    OBVIOUS
  <2>2. dialogs \in 0..MaxOpens /\ mListSize \in 0..MaxOpens
    BY DEF TypeOK
  <2>3. pc \in [Threads -> Pc] /\ op \in [Threads -> Methods \cup Broadcasts]
    BY DEF TypeOK
  <2>. QED
    BY <2>1, <2>2, <2>3, ControlStep
<1>1. IsFiniteSet(Asking) /\ Cardinality(Asking) \in Nat
  BY FS_CardinalityType DEF DialogInv
<1>2. CASE Call(t)
  <2>1. pc[t] = "idle" /\ t \notin Asking
    BY <1>2 DEF Call, At, Asking
  <2>2. CASE op'[t] = "OpenDevice"
    <3>1. Asking' = Asking \cup {t}
      BY <1>0, <2>1, <2>2 DEF Asking
    <3>2. IsFiniteSet(Asking') /\ Cardinality(Asking') = Cardinality(Asking) + 1
      BY <1>1, <2>1, <3>1, FS_AddElement
    <3>3. dialogs' = dialogs /\ mListSize < MaxOpens /\ mListSize' = mListSize + 1
      BY <1>0, <1>2, <2>2 DEF Call
    <3>. QED
      BY <1>0, <1>1, <3>2, <3>3 DEF DialogInv
  <2>3. CASE op'[t] # "OpenDevice"
    <3>1. Asking' = Asking
      BY <1>0, <2>1, <2>3 DEF Asking
    <3>2. dialogs' = dialogs /\ mListSize' = mListSize
      BY <1>0, <1>2, <2>3 DEF Call
    <3>. QED
      BY <1>0, <1>1, <3>1, <3>2 DEF DialogInv
  <2>. QED
    BY <2>2, <2>3
<1>3. CASE RequestPermission(t)
  <2>1. t \in Asking /\ Asking' = Asking \ {t}
    BY <1>0, <1>3 DEF RequestPermission, At, Asking
  <2>2. IsFiniteSet(Asking') /\ Cardinality(Asking') = Cardinality(Asking) - 1
    BY <1>1, <2>1, FS_RemoveElement
  <2>3. dialogs' \in {dialogs, dialogs + 1} /\ mListSize' = mListSize
    BY <1>3 DEF RequestPermission
  <2>4. Cardinality(Asking') >= 0
    BY <2>2, FS_CardinalityType
  <2>5. dialogs' + Cardinality(Asking') <= mListSize'
    <3>. HIDE DEF Control, Leads
    <3>. QED
      BY <1>0, <1>1, <2>2, <2>3 DEF DialogInv
  <2>6. dialogs' \in 0..MaxOpens /\ mListSize' \in 0..MaxOpens
    <3>. HIDE DEF Control, Leads
    <3>. QED
      BY <1>0, <1>1, <2>2, <2>3, <2>4, <2>5
  <2>. QED
    BY <2>2, <2>5, <2>6 DEF DialogInv
<1>4. ASSUME UNCHANGED <<dialogs, mListSize>>, pc[t] \notin {"idle", "request"}
      PROVE  DialogInv' /\ dialogs' \in 0..MaxOpens /\ mListSize' \in 0..MaxOpens
  <2>1. Asking' \subseteq Asking
    BY <1>0, <1>4 DEF Asking, Pc
  <2>2. IsFiniteSet(Asking') /\ Cardinality(Asking') <= Cardinality(Asking)
    BY <1>1, <2>1, FS_Subset
  <2>3. Cardinality(Asking') \in Nat
    BY <2>2, FS_CardinalityType
  <2>4. dialogs + Cardinality(Asking') <= mListSize
    BY <1>0, <1>1, <2>2, <2>3 DEF DialogInv
  <2>5. dialogs' + Cardinality(Asking') <= mListSize'
    BY <1>4, <2>4
  <2>6. dialogs' \in 0..MaxOpens /\ mListSize' \in 0..MaxOpens
    BY <1>0, <1>4
  <2>. QED
    BY <2>2, <2>5, <2>6 DEF DialogInv
<1>5. CASE ~Call(t) /\ ~RequestPermission(t)
  <2>1. UNCHANGED <<dialogs, mListSize>> /\ pc[t] \notin {"idle", "request"}
    BY <1>5 DEF Step, At, Find, RegisterReceiver, EnterMonitor, HasPermission, SetDevice, SetClose,
                SetOpen, SetUse, CloseDevice, CloseConnection, CloseRest, Ready, Transfer, RecvChunk
  <2>. QED
    BY <1>4, <2>1
<1>. QED
  BY <1>2, <1>3, <1>5

\* RecvData counts what it no longer asks for, and ends with success only when
\* it asks for nothing more.
LEMMA CountStep ==
  ASSUME TypeOK, PlaceInv, MonitorHeld, CountInv, NEW t \in Threads, Step(t)
  PROVE  /\ CountInv'
         /\ want' \in [Threads -> 0..MaxLen]
         /\ left' \in [Threads -> 0..MaxLen]
         /\ index' \in [Threads -> 0..MaxLen]
<1>. USE DEF Control, Leads
<1>0. /\ Control(t) /\ pc \in [Threads -> Pc]
      /\ op \in [Threads -> Methods \cup Broadcasts]
      /\ result \in [Threads -> {Exception, -2, -1, 0, 1}]
      /\ want \in [Threads -> 0..MaxLen]
      /\ left \in [Threads -> 0..MaxLen]
      /\ index \in [Threads -> 0..MaxLen]
      /\ MaxLen \in Nat /\ Packet \in Nat \ {0}
  BY ControlStep DEF TypeOK
<1>1. CASE Call(t)
  <2>1. PICK n \in 0..MaxLen : want' = [want EXCEPT ![t] = n] /\ left' = [left EXCEPT ![t] = n]
    <3>1. 0 \in 0..MaxLen
      BY <1>0
    <3>. QED
      BY <1>1, <3>1 DEF Call
  <2>2. index' = [index EXCEPT ![t] = 0] /\ pc'[t] # "idle" /\ pc[t] = "idle" /\ pc'[t] # "chunk"
    BY <1>0, <1>1 DEF Call, At
  <2>3. result' = result
    BY <1>1 DEF Call
  <2>. QED
    BY <1>0, <2>1, <2>2, <2>3 DEF CountInv
<1>2. CASE RecvChunk(t)
  <2>1. CASE Got(t)
    <3>1. PICK length \in Chunk(t) :
            /\ left' = [left EXCEPT ![t] = @ - length]
            /\ index' = [index EXCEPT ![t] = index[t] + length]
            /\ IF left[t] - length > 0 THEN Proceed(t, "chunk") ELSE Return(t, 0)
      BY <2>1 DEF Got, Received
    <3>2. pc[t] = "chunk" /\ left[t] > 0 /\ want' = want
      BY <1>2 DEF RecvChunk, At, CountInv
    <3>3. length \in Int /\ 0 < length /\ length <= left[t]
      BY <1>0, <3>1, <3>2 DEF Chunk
    <3>4. IF left[t] - length > 0 THEN pc'[t] = "chunk" ELSE pc'[t] = "idle"
      BY <3>1, Returning, Proceeding DEF Ended
    <3>5. left' \in [Threads -> 0..MaxLen] /\ index' \in [Threads -> 0..MaxLen]
      BY <1>0, <3>1, <3>2, <3>3 DEF CountInv
    <3>. QED
      BY <1>0, <3>1, <3>2, <3>3, <3>4, <3>5 DEF CountInv
  <2>2. CASE Throw(t) /\ UNCHANGED <<left, index>>
    <3>1. want' = want /\ pc[t] = "chunk" /\ op[t] = "RecvData"
      BY <1>2 DEF RecvChunk, At, PlaceInv
    <3>2. pc'[t] = "idle" /\ result'[t] = Exception /\ op' = op
      BY <1>0, <2>2, <3>1, Throwing DEF Throw, Ended
    <3>. QED
      BY <1>0, <2>2, <3>1, <3>2 DEF CountInv, Exception
  <2>3. CASE Return(t, -2) /\ UNCHANGED <<left, index>>
    <3>1. want' = want /\ pc[t] = "chunk" /\ op[t] = "RecvData"
      BY <1>2 DEF RecvChunk, At, PlaceInv
    <3>2. pc'[t] = "idle" /\ result'[t] = -2 /\ op' = op
      BY <1>0, <2>3, <3>1, Returning DEF Return, Ended
    <3>. QED
      BY <1>0, <2>3, <3>1, <3>2 DEF CountInv
  <2>. QED
    BY <1>2, <2>1, <2>2, <2>3 DEF RecvChunk
<1>3. CASE Ready(t)
  <2>1. UNCHANGED <<want, left, index>> /\ pc[t] = "ready?" /\ op' = op
    BY <1>0, <1>3 DEF Ready, At
  <2>2. op[t] = "RecvData" /\ pc'[t] = "idle" => result'[t] = -1 \/ left[t] = 0
    <3>1. CASE Return(t, -1)
      BY <1>0, <3>1 DEF Return
    <3>2. CASE op[t] = "RecvData" /\ ~(left[t] > 0)
      BY <1>0, <3>2
    <3>3. ASSUME NEW to \in {"transfer", "chunk"}, Proceed(t, to) PROVE pc'[t] # "idle"
      BY <3>3, Proceeding
    <3>. QED
      BY <1>3, <3>1, <3>2, <3>3 DEF Ready
  <2>3. pc'[t] = "chunk" => left[t] > 0
    <3>1. CASE left[t] > 0
      BY <3>1
    <3>2. ASSUME NEW r \in {-1, 0}, Return(t, r) PROVE pc'[t] # "chunk"
      BY <3>2, Returning DEF Ended
    <3>3. CASE Proceed(t, "transfer")
      BY <3>3, Proceeding
    <3>. QED
      BY <1>3, <3>1, <3>2, <3>3 DEF Ready
  <2>. QED
    BY <1>0, <2>1, <2>2, <2>3 DEF CountInv
<1>4. CASE ~Call(t) /\ ~RecvChunk(t) /\ ~Ready(t)
  <2>1. UNCHANGED <<want, left, index>> /\ pc[t] \notin {"idle", "ready?", "chunk"}
    BY <1>4 DEF Step, At, Find, RequestPermission, RegisterReceiver, EnterMonitor, HasPermission,
                SetDevice, SetClose, SetOpen, SetUse, CloseDevice, CloseConnection, CloseRest, Transfer
  <2>2. op[t] # "RecvData" /\ op' = op
    BY <1>0, <2>1 DEF PlaceInv, Pc
  <2>3. pc'[t] # "chunk"
    BY <1>0, <2>1 DEF Pc
  <2>. QED
    BY <1>0, <2>1, <2>2, <2>3 DEF CountInv
<1>. QED
  BY <1>1, <1>2, <1>3, <1>4

\* A permission that comes after a refusal finds the receiver registered.
LEMMA GrantStep ==
  ASSUME TypeOK, PlaceInv, MonitorHeld, GrantInv, NEW t \in Threads, Step(t)
  PROVE  GrantInv'
<1>0. /\ Control(t) /\ pc \in [Threads -> Pc]
      /\ op \in [Threads -> Methods \cup Broadcasts]
      /\ queue \in Seq(Broadcasts) /\ UNCHANGED <<plugged, granted>>
  <2>1. UNCHANGED <<plugged, granted>>
    BY DEF Step, Call, Find, RequestPermission, RegisterReceiver, EnterMonitor, HasPermission,
           SetDevice, CloseDevice, Ready, Transfer, RecvChunk
  <2>. QED
    BY <2>1, ControlStep DEF TypeOK
<1>1. registered \/ pc[t] = "register" => registered'
  <2>1. CASE RegisterReceiver(t)
    BY <2>1 DEF RegisterReceiver, AtOnce
  <2>2. CASE ~RegisterReceiver(t)
    <3>1. registered' = registered
      BY <2>2 DEF Step, Call, Find, RequestPermission, EnterMonitor, HasPermission, SetDevice,
                  CloseDevice, Ready, Transfer, RecvChunk
    <3>2. pc[t] # "register"
      BY <2>2 DEF Step, At, Call, Find, RequestPermission, EnterMonitor, HasPermission, SetDevice,
                  SetClose, SetOpen, SetUse, CloseDevice, CloseConnection, CloseRest, Ready,
                  Transfer, RecvChunk
    <3>. QED
      BY <3>1, <3>2
  <2>. QED
    BY <2>1, <2>2
<1>2. intent' = "refused" => intent = "refused" \/ (pc[t] = "permission" /\ ~granted)
  BY DEF Step, At, Call, Find, RequestPermission, RegisterReceiver, EnterMonitor,
         HasPermission, SetDevice, SetClose, SetOpen, SetUse, CloseDevice, CloseRest, Ready,
         Transfer, RecvChunk
<1>3. pc[t] = "setOpen" => intent' # "refused"
  BY DEF Step, At, Call, Find, RequestPermission, RegisterReceiver, EnterMonitor,
         HasPermission, SetDevice, SetClose, SetOpen, SetUse, CloseDevice, CloseConnection,
         CloseRest, Ready, Transfer, RecvChunk
<1>4. queue' = queue \/ queue' = Append(queue, "granted")
  BY DEF Step, Sent, Call, Find, RequestPermission, RegisterReceiver, EnterMonitor, HasPermission,
         SetDevice, CloseDevice, Ready, Transfer, RecvChunk
<1>5. ASSUME NEW i \in DOMAIN queue, queue[i] = "granted"
      PROVE  \E j \in DOMAIN queue' : queue'[j] = "granted"
  BY <1>0, <1>4, <1>5
<1>6. Granting /\ process' = "running" /\ intent' = "refused" => Granting'
  <2>1. SUFFICES ASSUME Granting, process' = "running", intent' = "refused", t = Main
                 PROVE  Granting'
    BY <1>0 DEF Granting, Control
  <2>2. ~Throw(t)
    BY <2>1 DEF Granting, Throw
  <2>3. op' = op /\ pc'[t] # "idle"
    BY <1>0, <2>1, <2>2, <1>3, Proceeding
       DEF Granting, Control, Leads, Step, At, Call, Find, RequestPermission, RegisterReceiver,
           EnterMonitor, HasPermission, SetDevice, SetClose, SetOpen, SetUse, CloseDevice,
           CloseConnection, CloseRest, Ready, Transfer, RecvChunk
  <2>. QED
    BY <1>0, <1>3, <2>1, <2>3 DEF Granting, Control, Leads
<1>7. \A u \in Threads :
        (pc[u] = "permission" \/ (pc[u] = "enter" /\ op[u] = "OpenDevice") => registered)'
  <2>1. ASSUME NEW u \in Threads \ {t}
        PROVE  (pc[u] = "permission" \/ (pc[u] = "enter" /\ op[u] = "OpenDevice") => registered)'
    <3>1. pc'[u] = pc[u] /\ op'[u] = op[u]
      BY <1>0, <2>1 DEF Control
    <3>. QED
      BY <1>1, <2>1, <3>1 DEF GrantInv
  <2>2. (pc[t] = "permission" \/ (pc[t] = "enter" /\ op[t] = "OpenDevice") => registered)'
    <3>1. pc'[t] \in {"permission", "enter"} => op' = op /\ pc[t] \in {"enter", "register"}
      BY <1>0 DEF Control, Leads, Pc
    <3>2. pc'[t] = "permission" => pc[t] = "enter" /\ op[t] = "OpenDevice"
      BY <1>0, <3>1 DEF Control, Leads, PlaceInv
    <3>3. pc'[t] = "enter" => pc[t] = "register"
      BY <1>0, <3>1 DEF Control, Leads
    <3>. QED
      BY <1>1, <3>2, <3>3 DEF GrantInv
  <2>. QED
    BY <2>1, <2>2
<1>. QED
  BY <1>0, <1>1, <1>2, <1>5, <1>6, <1>7 DEF GrantInv, Control

-----------------------------------------------------------------------------
(* The connection.                                                         *)

\* Until the history says otherwise, nobody closes while somebody sets the
\* device, and only one sets it.
LEMMA NoOverlap ==
  ASSUME OverlapInv, NoteOverlap, ~overlapped'
  PROVE  /\ ~overlapped
         /\ \A t, u \in Threads : ~(pc[t] \in InMonitor /\ pc[u] \in InClose)
         /\ \A t, u \in Threads : ~(pc'[t] \in InMonitor /\ pc'[u] \in InClose)
BY DEF OverlapInv, NoteOverlap

\* The steps that touch neither the connection nor what belongs to it.
Elsewhere(t) ==
  /\ UNCHANGED <<live, made, mConnection, mUsbInterface, endpoints, mUsbFd>>
  /\ pc'[t] \notin {"setOpen", "closeNull", "closeRest", "setUse"}
  /\ pc[t] \notin Reworking

\* Only setDevice and CloseDevice touch the connection.
LEMMA Others ==
  ASSUME TypeOK, MonitorHeld, NEW t \in Threads, Step(t)
  PROVE  \/ Elsewhere(t)
         \/ SetFrame /\ (SetClose(t) \/ SetOpen(t) \/ SetUse(t))
         \/ CloseFrame /\ CloseConnection(t)
<1>. SUFFICES ASSUME ~(SetFrame /\ (SetClose(t) \/ SetOpen(t) \/ SetUse(t))),
                     ~(CloseFrame /\ CloseConnection(t))
              PROVE  Elsewhere(t)
  OBVIOUS
<1>1. /\ UNCHANGED <<live, made, mConnection, mUsbInterface, endpoints, mUsbFd>>
      /\ pc[t] \notin {"setClose?", "setRelease", "setClose", "setOpen", "setUse?", "setUse",
                       "close?", "closeRelease", "close", "closeNull"}
  BY DEF Step, At, Call, Find, RequestPermission, RegisterReceiver, EnterMonitor, HasPermission,
         SetDevice, SetFrame, CloseDevice, CloseFrame, CloseRest, Ready, Transfer, RecvChunk
<1>2. Control(t) /\ pc \in [Threads -> Pc]
  BY ControlStep DEF TypeOK
<1>. QED
  BY <1>1, <1>2 DEF Elsewhere, Reworking, Control, Leads, Pc

\* The connection in mConnection is the only one open, and it is closed before
\* another takes its place.
LEMMA LiveStep ==
  ASSUME TypeOK, MonitorHeld, OverlapInv, LiveInv, NEW t \in Threads, Step(t), NoteOverlap
  PROVE  LiveInv'
<1>. SUFFICES ASSUME ~overlapped' PROVE LiveInv'
  BY DEF LiveInv
<1>0. /\ Control(t) /\ pc \in [Threads -> Pc]
      /\ live \subseteq 1..made /\ mConnection \in 0..made /\ made \in Nat
  BY ControlStep DEF TypeOK
<1>1. /\ live \subseteq {mConnection}
      /\ \A u \in Threads :
           /\ pc[u] \in {"setOpen", "closeNull"} => live = {}
           /\ pc[u] = "closeRest" => mConnection = 0
      /\ ~overlapped
      /\ \A u, v \in Threads : ~(pc[u] \in InMonitor /\ pc[v] \in InClose)
      /\ \A u, v \in Threads : ~(pc'[u] \in InMonitor /\ pc'[v] \in InClose)
  BY NoOverlap DEF LiveInv
<1>2. \A u \in Threads \ {t} : pc'[u] = pc[u]
  BY <1>0 DEF Control
<1>3. \A u, v \in Threads : pc[u] \in InMonitor /\ pc[v] \in InMonitor => u = v
  BY <1>0 DEF Control, MonitorHeld
<1>4. SUFFICES /\ live' \subseteq {mConnection'}
               /\ \A u \in Threads :
                    /\ pc'[u] \in {"setOpen", "closeNull"} => live' = {}
                    /\ pc'[u] = "closeRest" => mConnection' = 0
  BY DEF LiveInv
<1>5. CASE Elsewhere(t)
  BY <1>0, <1>1, <1>2, <1>5 DEF Elsewhere
<1>6. CASE SetFrame /\ SetClose(t)
  <2>1. UNCHANGED mConnection /\ live' \subseteq live
    BY <1>6 DEF SetClose
  <2>2. pc'[t] = "setOpen" => live' = {}
    <3>1. CASE pc[t] = "setClose"
      BY <1>1, <1>6, <3>1 DEF SetClose, At
    <3>2. CASE pc[t] = "setClose?"
      <4>1. pc'[t] = "setOpen" => mConnection = 0
        BY <1>6, <3>2, Proceeding DEF SetClose, MustClose, At
      <4>2. live' = live
        BY <1>6, <3>2 DEF SetClose, At
      <4>3. mConnection = 0 => live = {}
        BY <1>0, <1>1
      <4>. QED
        BY <4>1, <4>2, <4>3
    <3>3. CASE pc[t] = "setRelease"
      BY <1>0, <3>3 DEF Control, Leads
    <3>. QED
      BY <1>6, <3>1, <3>2, <3>3 DEF SetClose, At
  <2>3. pc'[t] \notin {"closeNull", "closeRest"}
    BY <1>0, <1>6 DEF SetClose, At, Control, Leads
  <2>. QED
    BY <1>1, <1>2, <2>1, <2>2, <2>3
<1>7. CASE SetFrame /\ SetOpen(t)
  <2>1. live = {} /\ pc[t] = "setOpen" /\ pc'[t] \in {"setUse?", "idle"}
    BY <1>0, <1>1, <1>7 DEF SetOpen, At, Control, Leads
  <2>2. \A u \in Threads : pc'[u] \notin {"setOpen", "closeNull", "closeRest"}
    BY <1>1, <1>2, <1>3, <2>1
  <2>3. live' \subseteq {mConnection'}
    BY <1>7, <2>1 DEF SetOpen
  <2>. QED
    BY <2>2, <2>3
<1>8. CASE SetFrame /\ SetUse(t)
  <2>1. UNCHANGED <<mConnection, live>> /\ pc'[t] \notin {"setOpen", "closeNull", "closeRest"}
    BY <1>0, <1>8 DEF SetUse, At, Control, Leads
  <2>. QED
    BY <1>1, <1>2, <2>1
<1>9. CASE CloseFrame /\ CloseConnection(t)
  <2>1. live' \subseteq live /\ (pc[t] = "closeNull" => live = {})
    BY <1>1, <1>9 DEF CloseConnection
  <2>2. pc'[t] # "setOpen" /\ (pc'[t] = "closeNull" => live' = {})
    BY <1>0, <1>1, <1>9 DEF CloseConnection, At, Control, Leads
  <2>3. pc'[t] = "closeRest" => mConnection' = 0
    BY <1>0, <1>9, Proceeding, Throwing DEF CloseConnection, Ended
  <2>4. mConnection' = mConnection \/ (mConnection' = 0 /\ live = {})
    BY <2>1, <1>9 DEF CloseConnection, At
  <2>. QED
    BY <1>1, <1>2, <2>1, <2>2, <2>3, <2>4
<1>. QED
  BY <1>5, <1>6, <1>7, <1>8, <1>9, Others

\* The descriptor, the interface and the end points follow the connection.
LEMMA StaticsStep ==
  ASSUME TypeOK, MonitorHeld, OverlapInv, LiveInv, StaticsInv, NEW t \in Threads, Step(t),
         NoteOverlap
  PROVE  StaticsInv'
<1>. SUFFICES ASSUME ~overlapped', mConnection' \in live'
              PROVE  \/ mUsbFd' = mConnection' /\ mUsbInterface' /\ endpoints'
                     \/ \E u \in Threads : pc'[u] \in Reworking
  BY DEF StaticsInv
<1>0. /\ Control(t) /\ pc \in [Threads -> Pc]
      /\ live \subseteq 1..made /\ mConnection \in 0..made /\ made \in Nat
  BY ControlStep DEF TypeOK
<1>1. /\ live \subseteq {mConnection}
      /\ \A u \in Threads : pc[u] \in {"setOpen", "closeNull"} => live = {}
      /\ ~overlapped
  BY NoOverlap DEF LiveInv
<1>2. \A u \in Threads \ {t} : pc'[u] = pc[u]
  BY <1>0 DEF Control
<1>3. mConnection \in live =>
        \/ mUsbFd = mConnection /\ mUsbInterface /\ endpoints
        \/ \E u \in Threads : pc[u] \in Reworking
  BY <1>1 DEF StaticsInv
<1>4. CASE Elsewhere(t)
  BY <1>2, <1>3, <1>4 DEF Elsewhere
<1>5. CASE SetFrame /\ SetClose(t)
  <2>1. CASE pc[t] = "setRelease"
    <3>1. pc'[t] = "setClose" \/ (mConnection' = 0 /\ live' = live)
      BY <1>5, <2>1, Proceeding DEF SetClose, At
    <3>. QED
      BY <1>0, <3>1 DEF Reworking
  <2>2. CASE pc[t] = "setClose"
    BY <1>0, <1>1, <1>5, <2>2 DEF SetClose, At
  <2>3. CASE pc[t] = "setClose?"
    <3>1. UNCHANGED <<mConnection, live, mUsbFd, mUsbInterface, endpoints>>
      BY <1>5, <2>3 DEF SetClose, At
    <3>. QED
      BY <1>2, <1>3, <2>3, <3>1 DEF Reworking
  <2>. QED
    BY <1>5, <2>1, <2>2, <2>3 DEF SetClose, At
<1>6. CASE SetFrame /\ SetOpen(t)
  <2>1. pc'[t] = "setUse?"
    BY <1>0, <1>1, <1>6, Proceeding DEF SetOpen, At
  <2>. QED
    BY <2>1 DEF Reworking
<1>7. CASE SetFrame /\ SetUse(t)
  <2>1. mConnection' = mConnection /\ live' = live /\ mConnection # 0
    BY <1>0, <1>7 DEF SetUse
  <2>2. pc'[t] = "setUse" \/ (mUsbFd' = mConnection /\ mUsbInterface' /\ endpoints')
    BY <1>7, <2>1, Proceeding DEF SetUse, NewFd
  <2>. QED
    BY <2>1, <2>2 DEF Reworking
<1>8. CASE CloseFrame /\ CloseConnection(t)
  <2>1. CASE pc[t] = "closeRelease"
    <3>1. pc'[t] = "close" \/ (mConnection' = 0 /\ live' = live)
      BY <1>8, <2>1, Proceeding DEF CloseConnection, At
    <3>. QED
      BY <1>0, <3>1 DEF Reworking
  <2>2. CASE pc[t] \in {"close", "closeNull"}
    BY <1>0, <1>1, <1>8, <2>2 DEF CloseConnection, At
  <2>3. CASE pc[t] = "close?"
    <3>1. UNCHANGED <<mConnection, live, mUsbFd, mUsbInterface, endpoints>>
      BY <1>8, <2>3 DEF CloseFrame, CloseConnection, At
    <3>. QED
      BY <1>2, <1>3, <2>3, <3>1 DEF Reworking
  <2>. QED
    BY <1>8, <2>1, <2>2, <2>3 DEF CloseConnection, At
<1>. QED
  BY <1>4, <1>5, <1>6, <1>7, <1>8, Others

\* What is closed stays closed: whoever is half way into setDevice finds no
\* mUsbManager.
LEMMA ClosedStep ==
  ASSUME TypeOK, PlaceInv, MonitorHeld, OverlapInv, LiveInv, ClosedInv, NEW t \in Threads, Step(t),
         NoteOverlap
  PROVE  ClosedInv'
<1>. SUFFICES ASSUME intent' = "closed" PROVE ~mUsbManager' /\ (~overlapped' => mConnection' = 0)
  BY DEF ClosedInv
<1>0. Control(t)
  BY ControlStep
<1>1. ~overlapped' => ~overlapped
  BY DEF NoteOverlap
<1>2. CASE CloseFrame /\ CloseRest(t) /\ UNCHANGED <<live, mConnection, mUsbInterface>>
  <2>1. ~overlapped => mConnection = 0
    BY <1>2 DEF CloseRest, At, LiveInv
  <2>. QED
    BY <1>1, <1>2, <2>1 DEF CloseRest, NoManager
<1>3. CASE ~(CloseFrame /\ CloseRest(t) /\ UNCHANGED <<live, mConnection, mUsbInterface>>)
  <2>1. intent = "closed" /\ mUsbManager' = mUsbManager
    BY <1>3 DEF Step, Call, Find, RequestPermission, RegisterReceiver, EnterMonitor, HasPermission,
           SetDevice, SetClose, SetOpen, SetUse, CloseDevice, CloseFrame, Ready, Transfer, RecvChunk
  <2>2. ~mUsbManager /\ (~overlapped => mConnection = 0)
    BY <2>1 DEF ClosedInv
  <2>3. mConnection' = mConnection \/ mConnection' = 0
    BY <2>2, Others DEF Elsewhere, SetClose, SetOpen, SetUse, CloseConnection
  <2>. QED
    BY <1>1, <2>1, <2>2, <2>3
<1>. QED
  BY <1>2, <1>3

-----------------------------------------------------------------------------
(* The steps of a thread, and of the main thread and the environment.      *)

\* Every variable stays in its type.
LEMMA TypeStep ==
  ASSUME TypeOK, PlaceInv, MonitorHeld, DialogInv, CountInv, NEW t \in Threads, Step(t), NoteOverlap
  PROVE  TypeOK'
<1>0. Control(t)
  BY ControlStep
<1>1. /\ process' \in {"running", "exited", "dead"}
      /\ result' \in [Threads -> {Exception, -2, -1, 0, 1}]
  BY <1>0 DEF Control
<1>2. pc' \in [Threads -> Pc] /\ op' \in [Threads -> Methods \cup Broadcasts]
  <2>1. pc \in [Threads -> Pc] /\ op \in [Threads -> Methods \cup Broadcasts]
    BY DEF TypeOK
  <2>2. pc'[t] \in Pc /\ op'[t] \in Methods \cup Broadcasts
    BY <1>0, <2>1 DEF Control, Leads, Pc
  <2>. QED
    BY <1>0, <2>1, <2>2 DEF Control
<1>3. monitor' \in Threads \cup {Nobody} /\ overlapped' \in BOOLEAN
  BY <1>0 DEF Control, Locks, NoteOverlap, TypeOK
<1>4. /\ plugged' \in BOOLEAN /\ granted' \in BOOLEAN /\ registered' \in BOOLEAN
      /\ queue' \in Seq(Broadcasts)
  <2>1. UNCHANGED <<plugged, granted>> /\ (registered' = registered \/ registered' = TRUE)
    BY DEF Step, AtOnce, Call, Find, RequestPermission, RegisterReceiver, EnterMonitor,
           HasPermission, SetDevice, CloseDevice, Ready, Transfer, RecvChunk
  <2>2. queue' = queue \/ queue' = Append(queue, "granted")
    BY DEF Step, Sent, Call, Find, RequestPermission, RegisterReceiver, EnterMonitor,
           HasPermission, SetDevice, CloseDevice, Ready, Transfer, RecvChunk
  <2>3. queue \in Seq(Broadcasts) /\ Append(queue, "granted") \in Seq(Broadcasts)
    BY DEF TypeOK
  <2>4. plugged \in BOOLEAN /\ granted \in BOOLEAN /\ registered \in BOOLEAN
    BY DEF TypeOK
  <2>. QED
    BY <2>1, <2>2, <2>3, <2>4
<1>5. mUsbManager' \in BOOLEAN /\ intent' \in {"closed", "open", "refused"}
  BY DEF TypeOK, Step, Call, Find, RequestPermission, RegisterReceiver, EnterMonitor, HasPermission,
         SetDevice, SetClose, SetOpen, SetUse, CloseDevice, CloseRest, NoManager, Ready, Transfer, RecvChunk
<1>6. /\ made' \in 0..MaxConnections /\ live' \subseteq 1..made'
      /\ mConnection' \in 0..made' /\ mUsbFd' \in 0..made'
  <2>1. /\ made \in 0..MaxConnections /\ live \subseteq 1..made /\ MaxConnections \in Nat
        /\ mConnection \in 0..made /\ mUsbFd \in 0..made
    BY DEF TypeOK
  <2>2. ASSUME made' = made, live' \subseteq live, mConnection' \in {mConnection, 0},
               mUsbFd' \in {mUsbFd, mConnection}
        PROVE  /\ made' \in 0..MaxConnections /\ live' \subseteq 1..made'
               /\ mConnection' \in 0..made' /\ mUsbFd' \in 0..made'
    BY <2>1, <2>2
  <2>3. CASE Elsewhere(t)
    BY <2>2, <2>3 DEF Elsewhere
  <2>4. CASE SetClose(t)
    BY <2>2, <2>4 DEF SetClose
  <2>5. CASE SetOpen(t)
    <3>1. CASE made' = made /\ live' = live
      BY <2>1, <2>2, <2>5, <3>1 DEF SetOpen
    <3>2. CASE made < MaxConnections /\ made' = made + 1 /\ live' = live \cup {made'}
               /\ mConnection' = made' /\ mUsbFd' = mUsbFd
      BY <2>1, <3>2
    <3>. QED
      BY <2>5, <3>1, <3>2 DEF SetOpen
  <2>6. CASE SetUse(t)
    BY <2>2, <2>6 DEF SetUse, NewFd
  <2>7. CASE CloseFrame /\ CloseConnection(t)
    BY <2>2, <2>7 DEF CloseFrame, CloseConnection
  <2>. QED
    BY <2>3, <2>4, <2>5, <2>6, <2>7, Others
<1>7. mUsbInterface' \in BOOLEAN /\ endpoints' \in BOOLEAN
  BY Others DEF TypeOK, Elsewhere, SetClose, SetOpen, SetUse, CloseFrame, CloseConnection
<1>. QED
  BY <1>1, <1>2, <1>3, <1>4, <1>5, <1>6, <1>7, DialogStep, CountStep DEF TypeOK

\* Every step of a method or of the receiver preserves the invariant.
LEMMA ThreadInv ==
  ASSUME TypeOK, IInv, NEW t \in Threads, Step(t), NoteOverlap
  PROVE  TypeOK' /\ IInv'
<1>1. OverlapInv'
  BY DEF OverlapInv, NoteOverlap
<1>. QED
  BY <1>1, TypeStep, DialogStep, PlaceStep, CountStep, LiveStep, StaticsStep, ClosedStep, GrantStep
     DEF IInv

\* The receiver takes a broadcast: from the queue into the main thread.
LEMMA HandleInv ==
  ASSUME TypeOK, IInv, Handle
  PROVE  TypeOK' /\ IInv'
<1>. USE DEF Handle, OnReceive, At, Goto
<1>1. /\ pc \in [Threads -> Pc] /\ op \in [Threads -> Methods \cup Broadcasts]
      /\ pc[Main] = "idle" /\ queue \in Seq(Broadcasts) /\ queue # <<>>
  BY DEF TypeOK
<1>2. /\ Head(queue) \in Broadcasts /\ Tail(queue) \in Seq(Broadcasts)
      /\ \A i \in DOMAIN queue : i # 1 => i - 1 \in DOMAIN Tail(queue) /\ Tail(queue)[i - 1] = queue[i]
      /\ Head(queue) = queue[1]
  BY <1>1
<1>3. pc' = [pc EXCEPT ![Main] = IF Head(queue) = "detached" THEN "close?" ELSE "enter"]
  OBVIOUS
<1>4. overlapped' \in BOOLEAN /\ (overlapped => overlapped')
  BY DEF NoteOverlap, TypeOK
<1>5. TypeOK'
  <2>1. pc' \in [Threads -> Pc] /\ op' \in [Threads -> Methods \cup Broadcasts]
    BY <1>1, <1>2, <1>3 DEF Pc
  <2>. QED
    BY <1>2, <1>4, <2>1 DEF TypeOK
<1>6. DialogInv'
  <2>1. Asking' = Asking
    BY <1>1, <1>3 DEF Asking
  <2>. QED
    BY <2>1 DEF DialogInv, IInv
<1>7. PlaceInv'
  BY <1>1, <1>2, <1>3 DEF PlaceInv, IInv
<1>8. CountInv'
  BY <1>1, <1>2, <1>3 DEF CountInv, IInv
<1>9. MonitorHeld'
  BY <1>1, <1>3 DEF MonitorHeld, IInv
<1>10. OverlapInv'
  BY DEF OverlapInv, NoteOverlap
<1>11. LiveInv'
  BY <1>1, <1>3, <1>4 DEF LiveInv, IInv
<1>12. StaticsInv'
  BY <1>1, <1>3, <1>4 DEF StaticsInv, Reworking, IInv
<1>13. ClosedInv'
  BY <1>4 DEF ClosedInv, IInv
<1>14. GrantInv'
  <2>1. Granting' \/ ~(\E i \in DOMAIN queue : queue[i] = "granted")
                  \/ \E i \in DOMAIN queue' : queue'[i] = "granted"
    <3>1. SUFFICES ASSUME NEW i \in DOMAIN queue, queue[i] = "granted"
                   PROVE  Granting' \/ \E j \in DOMAIN queue' : queue'[j] = "granted"
      OBVIOUS
    <3>2. CASE i = 1
      BY <1>1, <1>2, <1>3, <3>1, <3>2 DEF Granting
    <3>3. CASE i # 1
      BY <1>2, <3>1, <3>3
    <3>. QED
      BY <3>2, <3>3
  <2>2. ~Granting
    BY <1>1 DEF Granting
  <2>. QED
    BY <1>1, <1>2, <1>3, <2>1, <2>2 DEF GrantInv, IInv
<1>. QED
  BY <1>5, <1>6, <1>7, <1>8, <1>9, <1>10, <1>11, <1>12, <1>13, <1>14 DEF IInv

\* The user and the USB service change nothing of the driver's own.
LEMMA EnvironmentInv ==
  ASSUME TypeOK, IInv, Environment
  PROVE  TypeOK' /\ IInv'
<1>1. /\ UNCHANGED <<process, connections, statics, monitor, intent, pc, op, recv, result, registered>>
      /\ dialogs' \in {dialogs, dialogs - 1} /\ dialogs' >= 0
      /\ plugged' \in BOOLEAN /\ granted' \in BOOLEAN
  <2>1. dialogs \in Nat /\ plugged \in BOOLEAN /\ granted \in BOOLEAN
    BY DEF TypeOK
  <2>2. CASE AnswerDialog
    <3>1. dialogs' = dialogs - 1 /\ dialogs' >= 0
      BY <2>1, <2>2 DEF AnswerDialog
    <3>2. plugged' = plugged /\ (granted' = granted \/ granted' = TRUE)
      BY <2>2 DEF AnswerDialog
    <3>3. UNCHANGED <<process, connections, statics, monitor, intent, pc, op, recv, result, registered>>
      BY <2>2 DEF AnswerDialog
    <3>. QED
      BY <2>1, <3>1, <3>2, <3>3
  <2>3. CASE PlugOrUnplug
    <3>1. plugged' = ~plugged /\ granted' = FALSE /\ dialogs' = dialogs
      BY <2>3 DEF PlugOrUnplug
    <3>2. UNCHANGED <<process, connections, statics, monitor, intent, pc, op, recv, result, registered>>
      BY <2>3 DEF PlugOrUnplug
    <3>3. plugged' \in BOOLEAN /\ granted' \in BOOLEAN
      BY <3>1, Zenon
    <3>4. dialogs' \in {dialogs, dialogs - 1} /\ dialogs' >= 0
      BY <2>1, <3>1
    <3>. QED
      BY <3>2, <3>3, <3>4
  <2>. QED
    BY <2>2, <2>3 DEF Environment
<1>2. queue' = queue \/ \E b \in Broadcasts : queue' = Append(queue, b)
  BY DEF Environment, AnswerDialog, PlugOrUnplug, Sent
<1>3. granted' /\ registered => granted \/ queue' = Append(queue, "granted")
  BY DEF Environment, AnswerDialog, PlugOrUnplug, Sent
<1>4. overlapped' \in BOOLEAN /\ (overlapped => overlapped')
  BY DEF Environment, NoteOverlap, TypeOK
<1>5. TypeOK'
  <2>1. queue' \in Seq(Broadcasts)
    <3>1. queue \in Seq(Broadcasts)
      BY DEF TypeOK
    <3>. QED
      BY <1>2, <3>1
  <2>2. dialogs' \in 0..MaxOpens
    BY <1>1 DEF TypeOK
  <2>. QED
    BY <1>1, <1>4, <2>1, <2>2 DEF TypeOK
<1>6. DialogInv'
  <2>1. Asking' = Asking
    BY <1>1 DEF Asking
  <2>2. IsFiniteSet(Asking) /\ dialogs + Cardinality(Asking) <= mListSize
    BY DEF IInv, DialogInv
  <2>3. Cardinality(Asking) \in Nat /\ dialogs \in Nat /\ mListSize \in Nat
    BY <2>2, FS_CardinalityType DEF TypeOK
  <2>. QED
    BY <1>1, <2>1, <2>2, <2>3 DEF DialogInv
<1>7. PlaceInv' /\ CountInv' /\ MonitorHeld'
  BY <1>1 DEF PlaceInv, CountInv, MonitorHeld, IInv
<1>8. OverlapInv'
  BY DEF OverlapInv, Environment, NoteOverlap
<1>9. LiveInv' /\ StaticsInv' /\ ClosedInv'
  BY <1>1, <1>4 DEF LiveInv, StaticsInv, Reworking, ClosedInv, IInv
<1>10. GrantInv'
  <2>1. ASSUME NEW i \in DOMAIN queue, queue[i] = "granted"
        PROVE  \E j \in DOMAIN queue' : queue'[j] = "granted"
    <3>1. queue \in Seq(Broadcasts)
      BY DEF TypeOK
    <3>. QED
      BY <1>2, <2>1, <3>1
  <2>2. queue' = Append(queue, "granted") => \E j \in DOMAIN queue' : queue'[j] = "granted"
    <3>1. queue \in Seq(Broadcasts)
      BY DEF TypeOK
    <3>2. SUFFICES ASSUME queue' = Append(queue, "granted") PROVE queue'[Len(queue) + 1] = "granted"
                   /\ Len(queue) + 1 \in DOMAIN queue'
      OBVIOUS
    <3>. QED
      BY <3>1, <3>2
  <2>3. Granting' = Granting
    BY <1>1 DEF Granting
  <2>. QED
    BY <1>1, <1>3, <2>1, <2>2, <2>3 DEF GrantInv, IInv
<1>. QED
  BY <1>5, <1>6, <1>7, <1>8, <1>9, <1>10 DEF IInv

-----------------------------------------------------------------------------

\* The initial state satisfies the invariant.
LEMMA InitInv ==
  Init => TypeOK /\ IInv
<1>. SUFFICES ASSUME Init PROVE TypeOK /\ IInv
  OBVIOUS
<1>. USE DEF Init
<1>1. TypeOK
  <2>1. /\ pc \in [Threads -> Pc] /\ op \in [Threads -> Methods \cup Broadcasts]
        /\ want \in [Threads -> 0..MaxLen] /\ left \in [Threads -> 0..MaxLen]
        /\ index \in [Threads -> 0..MaxLen]
        /\ result \in [Threads -> {Exception, -2, -1, 0, 1}]
    BY DEF Pc
  <2>2. /\ dialogs \in 0..MaxOpens /\ mListSize \in 0..MaxOpens /\ made \in 0..MaxConnections
        /\ mConnection \in 0..made /\ mUsbFd \in 0..made /\ live \subseteq 1..made
    OBVIOUS
  <2>3. /\ process \in {"running", "exited", "dead"}
        /\ plugged \in BOOLEAN /\ granted \in BOOLEAN /\ registered \in BOOLEAN
        /\ mUsbManager \in BOOLEAN /\ mUsbInterface \in BOOLEAN /\ endpoints \in BOOLEAN
        /\ intent \in {"closed", "open", "refused"} /\ overlapped \in BOOLEAN
    OBVIOUS
  <2>4. queue \in Seq(Broadcasts) /\ monitor \in Threads \cup {Nobody}
    <3>1. queue = <<>> /\ monitor = Nobody
      OBVIOUS
    <3>. HIDE DEF Init
    <3>. QED
      BY <3>1
  <2>. HIDE DEF Init
  <2>. QED
    BY <2>1, <2>2, <2>3, <2>4 DEF TypeOK
<1>2. DialogInv
  <2>1. Asking = {}
    BY DEF Asking
  <2>. QED
    BY <2>1, FS_EmptySet DEF DialogInv
<1>3. PlaceInv /\ CountInv /\ MonitorHeld /\ OverlapInv
  BY DEF PlaceInv, CountInv, MonitorHeld, OverlapInv
<1>4. LiveInv /\ StaticsInv /\ ClosedInv /\ GrantInv
  BY DEF LiveInv, StaticsInv, ClosedInv, GrantInv
<1>. QED
  BY <1>1, <1>2, <1>3, <1>4 DEF IInv

\* Every step preserves the invariant.
LEMMA NextInv ==
  TypeOK /\ IInv /\ [Next]_vars => TypeOK' /\ IInv'
<1>. SUFFICES ASSUME TypeOK, IInv, [Next]_vars PROVE TypeOK' /\ IInv'
  OBVIOUS
<1>1. ASSUME NEW t \in Threads, Start(t) \/ Continue(t)
      PROVE  TypeOK' /\ IInv'
  <2>1. Step(t) /\ NoteOverlap
    BY <1>1 DEF Start, Continue, Step
  <2>. QED
    BY <2>1, ThreadInv
<1>2. CASE UNCHANGED vars
  <2>1. TypeOK' /\ DialogInv'
    BY <1>2 DEF TypeOK, IInv, DialogInv, Asking
  <2>2. PlaceInv' /\ CountInv' /\ MonitorHeld' /\ OverlapInv'
    BY <1>2 DEF IInv, PlaceInv, CountInv, MonitorHeld, OverlapInv
  <2>3. LiveInv' /\ StaticsInv' /\ ClosedInv' /\ GrantInv'
    BY <1>2 DEF IInv, LiveInv, StaticsInv, ClosedInv, GrantInv, Granting
  <2>. QED
    BY <2>1, <2>2, <2>3 DEF IInv
<1>. QED
  BY <1>1, <1>2, HandleInv, EnvironmentInv DEF Next

-----------------------------------------------------------------------------

\* Every variable of the driver keeps its type: there are never more dialogs
\* than calls of OpenDevice, and RecvData never counts beyond what was wanted.
THEOREM TypeCorrect == Spec => []TypeOK
<1>1. TypeOK /\ IInv /\ [Next]_vars => (TypeOK /\ IInv)'
  BY NextInv
<1>. QED
  BY InitInv, <1>1, PTL DEF Spec

\* The inductive invariant holds in every reachable state.
THEOREM Invariance == Spec => [](TypeOK /\ IInv)
<1>1. TypeOK /\ IInv /\ [Next]_vars => (TypeOK /\ IInv)'
  BY NextInv
<1>. QED
  BY InitInv, <1>1, PTL DEF Spec

\* One thread at a time sets the device, and whoever leaves setDevice, by an
\* exception too, leaves the monitor.
THEOREM MutualExclusion == Spec => []MonitorHeld
<1>1. IInv => MonitorHeld
  BY DEF IInv
<1>. QED
  BY Invariance, <1>1, PTL

\* Without an overlap of a CloseDevice and a setDevice, no connection is ever
\* left open in the USB service that mConnection does not name.
THEOREM NoLeak == Spec => []NoLeakedConnection
<1>1. IInv => NoLeakedConnection
  BY DEF IInv, LiveInv, NoLeakedConnection
<1>. QED
  BY Invariance, <1>1, PTL

\* Then the descriptor, the interface and the end points belong to it.
THEOREM Together == Spec => []StaticsBelongTogether
<1>1. IInv => StaticsBelongTogether
  BY DEF IInv, StaticsInv, Reworking, StaticsBelongTogether, Settled
<1>. QED
  BY Invariance, <1>1, PTL

\* Then a closed device stays closed until the next FindUsbList, whatever was
\* half done when it was closed and whenever the user answers.
THEOREM StaysClosed == Spec => []ClosedStaysClosed
<1>1. TypeOK /\ IInv => ClosedStaysClosed
  <2>1. TypeOK => live \subseteq 1..made /\ made \in Nat
    BY DEF TypeOK
  <2>. QED
    BY <2>1 DEF IInv, LiveInv, ClosedInv, ClosedStaysClosed
<1>. QED
  BY Invariance, <1>1, PTL

\* A permission that the user gives after OpenDevice was refused reaches the
\* receiver, in every interleaving of threads, dialogs and broadcasts.
THEOREM GrantArrives == Spec => []GrantReachesDriver
<1>1. IInv => GrantReachesDriver
  BY DEF IInv, GrantInv, Granting, GrantReachesDriver
<1>. QED
  BY Invariance, <1>1, PTL

\* A RecvData that reports success has received all the bytes it was asked
\* for, for every length and packet size.
THEOREM AllReceived == Spec => []RecvComplete
<1>1. TypeOK /\ IInv => RecvComplete
  BY DEF TypeOK, IInv, CountInv, RecvComplete
<1>. QED
  BY Invariance, <1>1, PTL
=============================================================================
