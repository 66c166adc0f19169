--------------------------- MODULE UsbStackProofs ---------------------------
(***************************************************************************)
(* Machine-checked proofs about UsbStack: UsbDriver is what the bridge     *)
(* takes it for, and what jni_closeDevice reports is true, for any number  *)
(* of native threads and whatever each of them calls.                      *)
(***************************************************************************)
EXTENDS UsbStack, UsbDriverProofs

(* The inductive invariant: UsbDriver's own, and how the two are joined.   *)

\* Only the variables of the bridge that tell where a thread is matter here.
BridgeTyped ==
  /\ where \in [Natives -> {"idle", "findClass"} \cup Bridge!InCall]
  /\ function \in [Natives -> Methods \cup {"SetJniEnv"}]
  /\ returned \in [Natives -> Int]

\* A native thread is in UsbDriver only while its bridge function waits for it,
\* and then in the method that the function is for.
LinkInv ==
  /\ \A t \in Threads \ Natives : pc[t] # "idle" => op[t] \in Broadcasts
  /\ \A t \in Threads : op[t] = "OpenDevice" => t \in Natives /\ "OpenDevice" \in MayCall[t]
  /\ \A t \in Natives :
       /\ where[t] # "java" => pc[t] = "idle"
       /\ where[t] = "java" => op[t] = function[t]
       /\ where[t] \in Bridge!InCall => function[t] \in MayCall[t]
       /\ where[t] = "findClass" => function[t] = "SetJniEnv"
       /\ where[t] = "copy" => function[t] # "CloseDevice"

\* What a method of UsbDriver left is what the bridge expects of it.
ResultInv ==
  \A t \in Natives :
    where[t] = "java" /\ pc[t] = "idle" =>
      result[t] \in Bridge!Results(function[t]) \cup {Exception}

\* A CloseDevice has done its work, or is about to end.
Closing == intent = "closed" \/ \E u \in Threads : pc[u] = "closeRest"

\* How far the CloseDevice of t must be for that.
Reported(t) ==
  /\ function[t] = "CloseDevice"
  /\ \/ where[t] = "java" /\ pc[t] = "idle"
     \/ where[t] = "java" /\ pc[t] \in {"closeRelease", "close"} /\ mConnection = 0
     \/ where[t] \in {"release", "idle"} /\ returned[t] = 0

OnlyOpener(t) == \A u \in Natives \ {t} : "OpenDevice" \notin MayCall[u]

ReportInv == \A t \in Natives : ~overlapped /\ OnlyOpener(t) /\ Reported(t) => Closing

StackInv ==
  /\ BridgeTyped
  /\ LinkInv
  /\ ResultInv
  /\ ReportInv

-----------------------------------------------------------------------------

USE UsbDriverAssumption, UsbStackAssumption
USE DEF system, connections, statics, recv, driverVars, vars, bridgeVars, stackVars,
        Transfers, Methods, Broadcasts, InMonitor, InClose

(* The steps of the bridge.                                                *)

\* A step of t in the bridge, which leaves the driver alone: it enters no
\* method, and reports 0 for a CloseDevice only if it did already.
BridgeMoves(t) ==
  /\ UNCHANGED driverVars /\ process' \in {process, "dead"}
  /\ where[t] # "java" /\ where'[t] # "java"
  /\ \A u \in Natives \ {t} :
       where'[u] = where[u] /\ function'[u] = function[u] /\ returned'[u] = returned[u]
  /\ where'[t] \in Bridge!InCall =>
       \/ where'[t] = "init" /\ function'[t] \in MayCall[t]
       \/ where[t] \in Bridge!InCall /\ function'[t] = function[t]
  /\ where'[t] = "findClass" => function'[t] = "SetJniEnv"
  /\ where'[t] = "copy" => where[t] = "copy" /\ function'[t] = function[t]
  /\ where'[t] \in {"release", "idle"} /\ function'[t] = "CloseDevice" /\ returned'[t] = 0 =>
       /\ function[t] = "CloseDevice" /\ returned[t] = 0
       /\ where[t] \in {"release", "idle"}

\* Every step of the bridge itself is such a move.
LEMMA BridgeStep ==
  ASSUME BridgeTyped, LinkInv, NEW t \in Natives, Enters(t) \/ InBridge(t)
  PROVE  BridgeTyped' /\ BridgeMoves(t)
<1>. USE DEF Bridge!At, Bridge!Goto, Bridge!InCall, BridgeMoves, BridgeTyped
<1>0. /\ where[t] = "findClass" => function[t] = "SetJniEnv"
      /\ where[t] = "copy" => function[t] # "CloseDevice"
  BY DEF LinkInv
<1>1. CASE Bridge!SetJniEnv(t) /\ UNCHANGED driverVars
  BY <1>1 DEF Bridge!SetJniEnv, Bridge!Enter, Bridge!answers
<1>2. CASE Bridge!CallBridge(t) /\ function'[t] \in MayCall[t] /\ UNCHANGED driverVars
  <2>1. PICK o \in Methods : function' = [function EXCEPT ![t] = o]
    BY <1>2 DEF Bridge!CallBridge
  <2>. QED
    BY <1>2, <2>1 DEF Bridge!CallBridge, Bridge!Enter
<1>3. CASE Bridge!FindClass(t) /\ UNCHANGED driverVars
  BY <1>0, <1>3 DEF Bridge!FindClass, Bridge!answers
<1>4. CASE Bridge!InitUsbDriver(t) /\ UNCHANGED driverVars
  BY <1>4 DEF Bridge!InitUsbDriver, Bridge!NoEnvironment
<1>5. CASE Bridge!CopyBack(t) /\ UNCHANGED driverVars
  <2>1. PICK v \in Int : returned' = [returned EXCEPT ![t] = v]
    <3>1. BufSize \in Int /\ returned[t] \in Int
      OBVIOUS
    <3>2. (IF function[t] = "RecvData" THEN {0, BufSize} ELSE {returned[t]}) \subseteq Int
      BY <3>1
    <3>3. \E v \in IF function[t] = "RecvData" THEN {0, BufSize} ELSE {returned[t]} :
            returned' = [returned EXCEPT ![t] = v]
      BY <1>5, Zenon DEF Bridge!CopyBack, Bridge!Length
    <3>. QED
      BY <3>2, <3>3
  <2>. QED
    BY <1>0, <1>5, <2>1 DEF Bridge!CopyBack
<1>6. CASE Bridge!ReleaseUsbDriver(t) /\ UNCHANGED driverVars
  BY <1>6 DEF Bridge!ReleaseUsbDriver, Bridge!answers
<1>7. CASE Bridge!Crash(t) /\ UNCHANGED driverVars
  <2>1. UNCHANGED <<where, function, returned>> /\ process' = "dead"
    BY <1>7 DEF Bridge!Crash, Bridge!bridgeVars, Bridge!answers
  <2>2. where[t] # "java"
    BY <1>7 DEF Bridge!Crash
  <2>3. BridgeTyped'
    BY <2>1
  <2>. QED
    BY <1>0, <1>7, <2>1, <2>2, <2>3
<1>. QED
  BY <1>1, <1>2, <1>3, <1>4, <1>5, <1>6, <1>7 DEF Enters, InBridge, Bridge!Inside

\* The bridge calls a method.
LEMMA IntoStep ==
  ASSUME BridgeTyped, NEW t \in Natives, IntoJava(t)
  PROVE  /\ BridgeTyped' /\ UNCHANGED <<function, returned>>
         /\ where[t] = "call" /\ where' = [where EXCEPT ![t] = "java"]
         /\ Start(t) /\ op'[t] = function[t]
BY DEF IntoJava, Bridge!CallStaticIntMethod, Bridge!At, Bridge!Goto, Bridge!InCall, Bridge!answers,
       BridgeTyped

\* The method is over, and the bridge goes on with its result.
LEMMA OutStep ==
  ASSUME BridgeTyped, TypeOK, NEW t \in Natives, OutOfJava(t)
  PROVE  /\ BridgeTyped' /\ UNCHANGED <<vars, function>>
         /\ where[t] = "java" /\ pc[t] = "idle"
         /\ where' = [where EXCEPT ![t] = where'[t]]
         /\ where'[t] = IF function[t] = "CloseDevice" THEN "release" ELSE where'[t]
         /\ where'[t] \in {"copy", "release"}
         /\ where'[t] = "copy" => function[t] # "CloseDevice"
         /\ \A u \in Natives \ {t} : returned'[u] = returned[u]
<1>. USE DEF Bridge!At, Bridge!Goto, Bridge!InCall, Bridge!WithArrays, Bridge!Ops, BridgeTyped
<1>1. result[t] \in Int
  <2>1. result \in [Threads -> {Exception, -2, -1, 0, 1}] /\ Exception \in Int
    BY DEF TypeOK, Exception
  <2>. QED
    BY <2>1
<1>2. PICK v \in Int : returned' = [returned EXCEPT ![t] = v]
  <2>1. Bridge!Results(function[t]) \subseteq Int
    BY DEF Bridge!Results
  <2>2. Bridge!Answered(t, result[t])
    BY DEF OutOfJava
  <2>. QED
    BY <1>1, <2>1, <2>2 DEF Bridge!Answered
<1>. QED
  BY <1>2 DEF OutOfJava, Bridge!Answered

-----------------------------------------------------------------------------
(* The steps of UsbDriver.                                                 *)

\* Every method ends with one of its own results, or an exception.
LEMMA ResultStep ==
  ASSUME TypeOK, PlaceInv, NEW t \in Threads, Continue(t), op[t] \in Methods, pc'[t] = "idle"
  PROVE  result'[t] \in Bridge!Results(op[t]) \cup {Exception}
<1>0. pc \in [Threads -> Pc] /\ result \in [Threads -> {Exception, -2, -1, 0, 1}]
  BY DEF TypeOK
<1>1. ASSUME NEW r, Return(t, r) PROVE result'[t] = r
  BY <1>0, <1>1 DEF Return
<1>2. ASSUME Throw(t) PROVE result'[t] = Exception
  BY <1>0, <1>2 DEF Throw
<1>3. ASSUME NEW r, Toast(t, r) PROVE result'[t] \in {r, Exception}
  BY <1>1, <1>2, <1>3 DEF Toast
<1>4. ASSUME NEW to \in Pc \ {"idle"}, Proceed(t, to) PROVE FALSE
  BY <1>0, <1>4 DEF Proceed, Goto
<1>. USE DEF At, Bridge!Results, Pc
<1>5. CASE Find(t) \/ RequestPermission(t) \/ HasPermission(t)
  BY <1>2, <1>3, <1>4, <1>5 DEF Find, RequestPermission, HasPermission, PlaceInv
<1>6. CASE RegisterReceiver(t)
  BY <1>4, <1>6 DEF RegisterReceiver
<1>7. CASE EnterMonitor(t)
  BY <1>0, <1>7 DEF EnterMonitor, Goto
<1>8. CASE SetDevice(t)
  <2>1. op[t] = "OpenDevice"
    BY <1>8 DEF SetDevice, SetClose, SetOpen, SetUse, PlaceInv
  <2>. QED
    BY <1>1, <1>2, <1>4, <1>8, <2>1 DEF SetDevice, SetClose, SetOpen, SetUse
<1>9. CASE CloseDevice(t)
  <2>1. op[t] = "CloseDevice"
    BY <1>9 DEF CloseDevice, CloseConnection, CloseRest, PlaceInv
  <2>. QED
    BY <1>1, <1>2, <1>4, <1>9, <2>1 DEF CloseDevice, CloseConnection, CloseRest
<1>10. CASE Ready(t)
  <2>1. op[t] \in Transfers \cup {"RecvData"}
    BY <1>10 DEF Ready, PlaceInv
  <2>. QED
    BY <1>1, <1>4, <1>10, <2>1 DEF Ready
<1>11. CASE Transfer(t)
  <2>1. op[t] \in Transfers
    BY <1>11 DEF Transfer, PlaceInv
  <2>. QED
    BY <1>1, <1>2, <1>11, <2>1 DEF Transfer
<1>12. CASE RecvChunk(t)
  <2>1. op[t] = "RecvData"
    BY <1>12 DEF RecvChunk, PlaceInv
  <2>. QED
    BY <1>1, <1>2, <1>4, <1>12, <2>1 DEF RecvChunk, Got
<1>. QED
  BY <1>5, <1>6, <1>7, <1>8, <1>9, <1>10, <1>11, <1>12 DEF Continue

\* Whoever does not open the device leaves it closed, or nearly so.
LEMMA ClosingStep ==
  ASSUME TypeOK, PlaceInv, MonitorHeld, NEW u \in Threads, Continue(u), op[u] # "OpenDevice", Closing
  PROVE  Closing'
<1>0. Control(u) /\ pc \in [Threads -> Pc]
  BY ControlStep DEF Step, Continue, TypeOK
<1>1. pc[u] \notin {"find", "permission"}
  BY DEF PlaceInv
<1>2. intent = "closed" => intent' = "closed"
  BY <1>1 DEF Continue, At, Find, RequestPermission, RegisterReceiver, EnterMonitor, HasPermission,
         SetDevice, SetClose, SetOpen, SetUse, CloseDevice, CloseRest, Ready, Transfer, RecvChunk
<1>3. pc[u] = "closeRest" => intent' = "closed"
  BY DEF Continue, At, Find, RequestPermission, RegisterReceiver, EnterMonitor, HasPermission,
         SetDevice, SetClose, SetOpen, SetUse, CloseDevice, CloseConnection, CloseRest, Ready,
         Transfer, RecvChunk
<1>. QED
  BY <1>0, <1>2, <1>3 DEF Closing, Control

\* A CloseDevice that ends has closed the device, or has met another that did.
LEMMA ReportStep ==
  ASSUME TypeOK, IInv, StackInv, NEW u \in Natives \cup {Main}, InDriver(u)
  PROVE  ReportInv'
<1>. SUFFICES ASSUME NEW t \in Natives, ~overlapped', OnlyOpener(t), Reported(t)'
              PROVE  Closing'
  BY DEF ReportInv, OnlyOpener
<1>0. /\ Control(u) /\ Continue(u) /\ pc \in [Threads -> Pc] /\ NoteOverlap /\ u \in Threads
      /\ Step(u) /\ UNCHANGED <<where, function, returned>> /\ pc[u] # "idle"
      /\ PlaceInv /\ MonitorHeld /\ OverlapInv
  <2>1. u \in Threads /\ Continue(u) /\ Step(u) /\ NoteOverlap
    BY DEF InDriver, Continue, Step
  <2>2. pc[u] # "idle"
    BY <2>1 DEF Continue, At, Find, RequestPermission, RegisterReceiver, EnterMonitor, HasPermission,
           SetDevice, SetClose, SetOpen, SetUse, CloseDevice, CloseConnection, CloseRest, Ready,
           Transfer, RecvChunk
  <2>. QED
    BY <2>1, <2>2, ControlStep DEF TypeOK, IInv, InDriver
<1>1. ~overlapped /\ (\A v, w \in Threads : ~(pc[v] \in InMonitor /\ pc[w] \in InClose))
  BY <1>0, NoOverlap
<1>2. op[u] # "OpenDevice"
  <2>1. CASE u = t
    BY <1>0, <2>1 DEF StackInv, LinkInv, Reported
  <2>2. CASE u # t
    BY <1>0, <2>2 DEF StackInv, LinkInv, OnlyOpener
  <2>. QED
    BY <2>1, <2>2
<1>3. CASE Reported(t)
  BY <1>0, <1>1, <1>2, <1>3, ClosingStep DEF StackInv, ReportInv
<1>4. CASE ~Reported(t) /\ u = t
  <2>1. /\ where[t] = "java" /\ op[t] = "CloseDevice"
        /\ pc'[t] = "idle" \/ (pc'[t] \in {"closeRelease", "close"} /\ mConnection' = 0)
        /\ ~(pc[t] \in {"closeRelease", "close"} /\ mConnection = 0)
    BY <1>0, <1>4 DEF Reported, StackInv, LinkInv
  <2>2. pc[t] \in InClose
    BY <1>0, <1>4, <2>1 DEF PlaceInv, Pc
  <2>3. CASE pc[t] = "closeRest"
    BY <1>0, <1>4, <2>3 DEF Continue, At, Find, RequestPermission, RegisterReceiver, EnterMonitor,
       HasPermission, SetDevice, SetClose, SetOpen, SetUse, CloseDevice, CloseConnection, CloseRest,
       Ready, Transfer, RecvChunk, Closing
  <2>4. CASE pc[t] \in {"close?", "closeRelease", "close"}
    <3>1. CloseConnection(t)
      BY <1>0, <1>4, <2>4 DEF Continue, At, Find, RequestPermission, RegisterReceiver, EnterMonitor,
       HasPermission, SetDevice, SetClose, SetOpen, SetUse, CloseDevice, CloseRest,
       Ready, Transfer, RecvChunk
    <3>. QED
      BY <1>0, <1>4, <2>1, <2>4, <3>1, Proceeding DEF CloseConnection, At, Control, Leads
  <2>. QED
    BY <1>0, <1>4, <2>1, <2>2, <2>3, <2>4 DEF Control, Leads
<1>5. CASE ~Reported(t) /\ u # t
  <2>1. pc[t] \in {"closeRelease", "close"} /\ mConnection # 0 /\ mConnection' = 0
    BY <1>0, <1>5 DEF Reported, Control
  <2>2. pc[u] \notin InMonitor
    BY <1>0, <1>1, <2>1
  <2>3. CloseConnection(u) /\ pc[u] = "closeNull"
    BY <1>0, <2>1, <2>2, Others DEF Elsewhere, SetClose, SetOpen, SetUse, CloseConnection, At
  <2>. QED
    BY <1>0, <2>3 DEF Control, Leads, Closing
<1>. QED
  BY <1>3, <1>4, <1>5

-----------------------------------------------------------------------------
(* Every step preserves the invariant.                                     *)

\* UsbDriver's invariant outlives the process.
LEMMA Untouched ==
  ASSUME TypeOK, IInv, UNCHANGED driverVars, process' \in {process, "dead"}
  PROVE  TypeOK' /\ IInv'
<1>1. TypeOK' /\ DialogInv'
  BY DEF TypeOK, IInv, DialogInv, Asking
<1>2. PlaceInv' /\ CountInv' /\ MonitorHeld' /\ OverlapInv'
  BY DEF IInv, PlaceInv, CountInv, MonitorHeld, OverlapInv
<1>3. LiveInv' /\ StaticsInv' /\ ClosedInv' /\ GrantInv'
  BY DEF IInv, LiveInv, StaticsInv, ClosedInv, GrantInv, Granting
<1>. QED
  BY <1>1, <1>2, <1>3 DEF IInv

\* The bridge's own steps.
LEMMA BridgeInv ==
  ASSUME TypeOK, IInv, StackInv, NEW t \in Natives, Enters(t) \/ InBridge(t)
  PROVE  TypeOK' /\ IInv' /\ StackInv'
<1>1. BridgeTyped' /\ BridgeMoves(t)
  BY BridgeStep DEF StackInv
<1>. USE DEF BridgeMoves
<1>2. TypeOK' /\ IInv'
  BY <1>1, Untouched
<1>3. LinkInv'
  BY <1>1 DEF StackInv, LinkInv, Bridge!InCall
<1>4. ResultInv'
  BY <1>1 DEF StackInv, ResultInv
<1>5. ReportInv'
  <2>1. SUFFICES ASSUME NEW u \in Natives, Reported(u)' PROVE Reported(u) /\ (Closing => Closing')
    BY <1>1 DEF StackInv, ReportInv, OnlyOpener
  <2>. QED
    BY <1>1, <2>1 DEF Reported, Closing
<1>. QED
  BY <1>1, <1>2, <1>3, <1>4, <1>5 DEF StackInv

\* The call of a method.
LEMMA IntoInv ==
  ASSUME TypeOK, IInv, StackInv, NEW t \in Natives, IntoJava(t)
  PROVE  TypeOK' /\ IInv' /\ StackInv'
<1>1. /\ BridgeTyped' /\ UNCHANGED <<function, returned>>
      /\ where[t] = "call" /\ where' = [where EXCEPT ![t] = "java"]
      /\ Start(t) /\ op'[t] = function[t] /\ BridgeTyped
  BY IntoStep DEF StackInv
<1>2. TypeOK' /\ IInv'
  BY <1>1, NextInv DEF Next
<1>3. /\ Control(t) /\ pc[t] = "idle" /\ pc'[t] \notin {"idle", "closeRelease", "close", "closeRest"}
      /\ op'[t] \in MayCall[t] /\ mConnection' = mConnection /\ intent' = intent
      /\ UNCHANGED result /\ (overlapped => overlapped')
      /\ \A u \in Threads \ {t} : pc'[u] = pc[u] /\ op'[u] = op[u]
  <2>1. Control(t) /\ pc[t] = "idle"
    BY <1>1, ControlStep DEF Start, Step, Call, At, IInv
  <2>2. op \in [Threads -> Methods \cup Broadcasts]
    BY DEF TypeOK
  <2>3. op'[t] \in MayCall[t]
    BY <1>1, <2>2 DEF Start, Call
  <2>4. pc'[t] \notin {"idle", "closeRelease", "close", "closeRest"}
    BY <2>1 DEF Control, Leads
  <2>5. \A u \in Threads \ {t} : pc'[u] = pc[u] /\ op'[u] = op[u]
    BY <2>1, <2>2 DEF Control, TypeOK
  <2>6. UNCHANGED <<mConnection, intent, result>> /\ (overlapped => overlapped')
    BY <1>1 DEF Start, Call, NoteOverlap
  <2>. QED
    BY <2>1, <2>3, <2>4, <2>5, <2>6
<1>4. LinkInv'
  BY <1>1, <1>3 DEF StackInv, LinkInv, Bridge!InCall, BridgeTyped
<1>5. ResultInv'
  BY <1>1, <1>3 DEF StackInv, ResultInv, BridgeTyped
<1>6. ReportInv'
  <2>1. SUFFICES ASSUME NEW u \in Natives, Reported(u)' PROVE Reported(u) /\ (Closing => Closing')
    BY <1>3 DEF StackInv, ReportInv, OnlyOpener
  <2>2. u # t
    BY <1>1, <1>3, <2>1 DEF Reported, BridgeTyped
  <2>. QED
    BY <1>1, <1>3, <2>1, <2>2 DEF Reported, Closing, BridgeTyped
<1>. QED
  BY <1>1, <1>2, <1>4, <1>5, <1>6 DEF StackInv

\* The return to the bridge.
LEMMA OutInv ==
  ASSUME TypeOK, IInv, StackInv, NEW t \in Natives, OutOfJava(t)
  PROVE  TypeOK' /\ IInv' /\ StackInv'
<1>1. /\ BridgeTyped' /\ UNCHANGED <<vars, function>> /\ BridgeTyped
      /\ where[t] = "java" /\ pc[t] = "idle"
      /\ where' = [where EXCEPT ![t] = where'[t]]
      /\ where'[t] \in {"copy", "release"}
      /\ where'[t] = "copy" => function[t] # "CloseDevice"
      /\ \A u \in Natives \ {t} : returned'[u] = returned[u]
  BY OutStep DEF StackInv
<1>2. TypeOK' /\ IInv'
  BY <1>1, Untouched
<1>3. LinkInv'
  BY <1>1 DEF StackInv, LinkInv, Bridge!InCall, BridgeTyped
<1>4. ResultInv'
  BY <1>1 DEF StackInv, ResultInv, BridgeTyped
<1>5. ReportInv'
  <2>1. SUFFICES ASSUME NEW u \in Natives, Reported(u)' PROVE Reported(u) /\ (Closing => Closing')
    BY <1>1 DEF StackInv, ReportInv, OnlyOpener
  <2>. QED
    BY <1>1, <2>1 DEF Reported, Closing, BridgeTyped
<1>. QED
  BY <1>1, <1>2, <1>3, <1>4, <1>5 DEF StackInv

\* The steps of the methods, and of the receiver.
LEMMA DriverInv ==
  ASSUME TypeOK, IInv, StackInv, NEW t \in Natives \cup {Main}, InDriver(t)
  PROVE  TypeOK' /\ IInv' /\ StackInv'
<1>1. /\ Continue(t) /\ Control(t) /\ t \in Threads /\ pc[t] # "idle"
      /\ UNCHANGED <<where, function, returned, op>>
      /\ \A u \in Threads \ {t} : pc'[u] = pc[u] /\ result'[u] = result[u]
  <2>1. Continue(t) /\ Step(t) /\ t \in Threads
    BY DEF InDriver, Continue, Step
  <2>2. pc[t] # "idle"
    BY <2>1 DEF Continue, At, Find, RequestPermission, RegisterReceiver, EnterMonitor, HasPermission,
           SetDevice, SetClose, SetOpen, SetUse, CloseDevice, CloseConnection, CloseRest, Ready,
           Transfer, RecvChunk
  <2>3. Control(t) /\ pc \in [Threads -> Pc]
    BY <2>1, ControlStep DEF IInv, TypeOK
  <2>4. op' = op /\ \A u \in Threads \ {t} : pc'[u] = pc[u] /\ result'[u] = result[u]
    BY <2>2, <2>3 DEF Control
  <2>. QED
    BY <2>1, <2>2, <2>3, <2>4 DEF InDriver
<1>2. TypeOK' /\ IInv'
  BY <1>1, NextInv DEF Next
<1>3. BridgeTyped' /\ LinkInv'
  BY <1>1 DEF StackInv, BridgeTyped, LinkInv
<1>4. ResultInv'
  <2>1. SUFFICES ASSUME NEW u \in Natives, where[u] = "java", pc'[u] = "idle"
                 PROVE  result'[u] \in Bridge!Results(function[u]) \cup {Exception}
    BY <1>1 DEF ResultInv
  <2>2. CASE u = t
    <3>1. op[t] = function[t] /\ op[t] \in Methods
      BY <2>1, <2>2 DEF StackInv, LinkInv, BridgeTyped, Bridge!InCall
    <3>. QED
      BY <1>1, <2>1, <2>2, <3>1, ResultStep DEF IInv
  <2>3. CASE u # t
    BY <1>1, <2>1, <2>3 DEF StackInv, ResultInv
  <2>. QED
    BY <2>2, <2>3
<1>. QED
  BY <1>2, <1>3, <1>4, ReportStep DEF StackInv

\* The receiver takes a broadcast, or the user and the USB service act.
LEMMA OutsideInv ==
  ASSUME TypeOK, IInv, StackInv, Receives \/ Surroundings
  PROVE  TypeOK' /\ IInv' /\ StackInv'
<1>1. TypeOK' /\ IInv'
  BY HandleInv, EnvironmentInv DEF Receives, Surroundings
<1>2. /\ UNCHANGED <<where, function, returned, result, mConnection, intent>>
      /\ \/ pc' = pc /\ op' = op
         \/ /\ pc[Main] = "idle" /\ op'[Main] \in Broadcasts
            /\ \A t \in Threads \ {Main} : pc'[t] = pc[t] /\ op'[t] = op[t]
      /\ overlapped => overlapped'
  <2>1. /\ pc \in [Threads -> Pc] /\ op \in [Threads -> Methods \cup Broadcasts]
        /\ queue \in Seq(Broadcasts)
    BY DEF TypeOK
  <2>2. CASE Receives
    <3>1. Head(queue) \in Broadcasts
      BY <2>1, <2>2 DEF Receives, Handle, OnReceive
    <3>. QED
      BY <2>1, <2>2, <3>1 DEF Receives, Handle, OnReceive, At, Goto, NoteOverlap
  <2>3. CASE Surroundings
    BY <2>3 DEF Surroundings, Environment, AnswerDialog, PlugOrUnplug, NoteOverlap
  <2>. QED
    BY <2>2, <2>3
<1>3. BridgeTyped' /\ ResultInv'
  BY <1>2 DEF StackInv, BridgeTyped, ResultInv
<1>4. LinkInv'
  BY <1>2 DEF StackInv, LinkInv
<1>5. ReportInv'
  <2>1. SUFFICES ASSUME NEW u \in Natives, Reported(u)' PROVE Reported(u) /\ (Closing => Closing')
    BY <1>2 DEF StackInv, ReportInv, OnlyOpener
  <2>. QED
    BY <1>2, <2>1 DEF Reported, Closing
<1>. QED
  BY <1>1, <1>3, <1>4, <1>5 DEF StackInv

\* Neither the bridge nor UsbDriver has been called yet.
LEMMA StackInitInv ==
  StackInit => TypeOK /\ IInv /\ StackInv
<1>. SUFFICES ASSUME StackInit PROVE TypeOK /\ IInv /\ StackInv
  OBVIOUS
<1>1. TypeOK /\ IInv
  BY InitInv DEF StackInit
<1>2. /\ \A t \in Threads : pc[t] = "idle" /\ op[t] = "CloseDevice"
      /\ \A t \in Natives : where[t] = "idle" /\ function[t] = "SetJniEnv"
      /\ BridgeTyped
  BY DEF StackInit, Init, Bridge!Init, BridgeTyped
<1>3. LinkInv /\ ResultInv /\ ReportInv
  BY <1>2 DEF LinkInv, ResultInv, ReportInv, Reported, Bridge!InCall
<1>. QED
  BY <1>1, <1>2, <1>3 DEF StackInv

\* So every step of either part preserves the invariant.
LEMMA StackNextInv ==
  TypeOK /\ IInv /\ StackInv /\ [StackNext]_stackVars => TypeOK' /\ IInv' /\ StackInv'
<1>. SUFFICES ASSUME TypeOK, IInv, StackInv, [StackNext]_stackVars
              PROVE  TypeOK' /\ IInv' /\ StackInv'
  OBVIOUS
<1>1. CASE UNCHANGED stackVars
  <2>1. TypeOK' /\ IInv'
    BY <1>1, Untouched
  <2>2. StackInv'
    BY <1>1 DEF StackInv, BridgeTyped, LinkInv, ResultInv, ReportInv, Reported, Closing, OnlyOpener
  <2>. QED
    BY <2>1, <2>2
<1>. QED
  BY <1>1, BridgeInv, IntoInv, OutInv, DriverInv, OutsideInv DEF StackNext, GoesOn

-----------------------------------------------------------------------------

\* The inductive invariant of the stack holds in every reachable state; with it
\* that of UsbDriver, although the bridge may end the process at any moment.
THEOREM StackInvariance == StackSpec => [](TypeOK /\ IInv /\ StackInv)
<1>1. TypeOK /\ IInv /\ StackInv /\ [StackNext]_stackVars => (TypeOK /\ IInv /\ StackInv)'
  BY StackNextInv
<1>. QED
  BY StackInitInv, <1>1, PTL DEF StackSpec

\* If one native thread only opens the device, and no CloseDevice has overlapped
\* a setDevice so far, a jni_closeDevice of that thread that returned 0 has closed
\* it, and it is still closed, whatever the receiver and the other threads did
\* since.  With such an overlap it may return 0 and leave a connection open.
THEOREM ClosedIsClosed == StackSpec => []ClosedWhenReported
<1>1. TypeOK /\ IInv /\ StackInv => ClosedWhenReported
  <2>. SUFFICES ASSUME TypeOK, IInv, StackInv, NEW t \in Natives, Settled, ~overlapped, OnlyOpener(t),
                       where[t] = "idle", function[t] = "CloseDevice", returned[t] = 0
                PROVE  mConnection = 0 /\ live = {}
    BY DEF ClosedWhenReported, OnlyOpener
  <2>1. intent = "closed"
    BY DEF StackInv, ReportInv, Reported, Closing, Settled
  <2>2. live \subseteq 1..made /\ made \in Nat
    BY DEF TypeOK
  <2>. QED
    BY <2>1, <2>2 DEF IInv, LiveInv, ClosedInv
<1>. QED
  BY StackInvariance, <1>1, PTL

\* UsbDriver, under the bridge, is one of the things the bridge takes it for:
\* a call of a method is answered by one of its results or an exception, and
\* nothing else of the bridge changes; so every safety property of UsbBridge
\* holds of the two together.
THEOREM StackIsBridge == StackSpec => Bridge!Spec
<1>1. StackInit => Bridge!Init
  BY DEF StackInit
<1>2. TypeOK /\ IInv /\ StackInv /\ [StackNext]_stackVars => [Bridge!Next]_(Bridge!vars)
  <2>. SUFFICES ASSUME TypeOK, StackInv, [StackNext]_stackVars
                PROVE  [Bridge!Next]_(Bridge!vars)
    OBVIOUS
  <2>. USE DEF Bridge!Next, Bridge!vars, Bridge!bridgeVars, Bridge!globals, Bridge!vmVars,
               Bridge!answers, Bridge!history
  <2>1. CASE \E t \in Natives : Enters(t)
    BY <2>1 DEF Enters
  <2>2. CASE \E t \in Natives : InBridge(t)
    BY <2>2 DEF InBridge, Bridge!Continue
  <2>3. CASE \E t \in Natives : IntoJava(t)
    BY <2>3 DEF IntoJava, Bridge!Continue
  <2>4. CASE \E t \in Natives : OutOfJava(t)
    <3>1. PICK t \in Natives : OutOfJava(t)
      BY <2>4
    <3>2. pc[t] = "idle" /\ where[t] = "java" /\ Bridge!Answered(t, result[t])
      BY <3>1 DEF OutOfJava, Bridge!Answered, Bridge!At
    <3>3. result[t] \in Bridge!Results(function[t]) \cup {Bridge!Exception}
      BY <3>2 DEF StackInv, ResultInv, Exception, Bridge!Exception
    <3>. QED
      BY <3>2, <3>3 DEF Bridge!Answer
  <2>5. CASE \E t \in Natives \cup {Main} : InDriver(t)
    <3>1. PICK t \in Natives \cup {Main} : InDriver(t)
      BY <2>5
    <3>2. process = "running" /\ process' \in {"running", "exited", "dead"}
      <4>1. process = "running"
        BY <3>1 DEF InDriver, Continue, At, Find, RequestPermission, RegisterReceiver, EnterMonitor,
           HasPermission, SetDevice, SetClose, SetOpen, SetUse, CloseDevice, CloseConnection,
           CloseRest, Ready, Transfer, RecvChunk
      <4>2. process' \in {process, "exited", "dead"}
        BY <3>1 DEF InDriver, Continue, Find, RequestPermission, RegisterReceiver, EnterMonitor,
           HasPermission, SetDevice, SetClose, SetOpen, SetUse, CloseDevice, CloseConnection,
           CloseRest, Ready, Transfer, RecvChunk, Got, Proceed, Return, Throw, Toast
      <4>. QED
        BY <4>1, <4>2
    <3>. QED
      BY <3>1, <3>2 DEF InDriver, Bridge!Killed
  <2>6. CASE Receives \/ Surroundings \/ UNCHANGED stackVars
    BY <2>6 DEF Receives, Handle, OnReceive, Surroundings, Environment, AnswerDialog, PlugOrUnplug
  <2>. QED
    BY <2>1, <2>2, <2>3, <2>4, <2>5, <2>6 DEF StackNext, GoesOn
<1>. QED
  BY <1>1, <1>2, StackInvariance, PTL DEF StackSpec, Bridge!Spec

\* What UsbDriver guarantees by itself it guarantees under the bridge too,
\* although a crash in the bridge may stop it between any two of its steps.
THEOREM DriverUnderBridge ==
  StackSpec => [](/\ MonitorHeld /\ NoLeakedConnection /\ StaticsBelongTogether
                  /\ ClosedStaysClosed /\ GrantReachesDriver /\ RecvComplete)
<1>1. TypeOK /\ IInv => /\ MonitorHeld /\ NoLeakedConnection /\ StaticsBelongTogether
                        /\ ClosedStaysClosed /\ GrantReachesDriver /\ RecvComplete
  <2>. SUFFICES ASSUME TypeOK, IInv
                PROVE  /\ MonitorHeld /\ NoLeakedConnection /\ StaticsBelongTogether
                       /\ ClosedStaysClosed /\ GrantReachesDriver /\ RecvComplete
    OBVIOUS
  <2>1. MonitorHeld /\ NoLeakedConnection /\ StaticsBelongTogether
    BY DEF IInv, LiveInv, StaticsInv, Reworking, NoLeakedConnection, StaticsBelongTogether, Settled
  <2>2. ClosedStaysClosed
    <3>1. live \subseteq 1..made /\ made \in Nat
      BY DEF TypeOK
    <3>. QED
      BY <3>1 DEF IInv, LiveInv, ClosedInv, ClosedStaysClosed
  <2>3. GrantReachesDriver
    BY DEF IInv, GrantInv, Granting, GrantReachesDriver
  <2>4. RecvComplete
    BY DEF TypeOK, IInv, CountInv, RecvComplete
  <2>. QED
    BY <2>1, <2>2, <2>3, <2>4
<1>. QED
  BY StackInvariance, <1>1, PTL

-----------------------------------------------------------------------------
(* The theorems of the bridge, for the two together.                       *)

\* Bridge once more, with its theorems.
Keeps == INSTANCE UsbBridgeProofs
  WITH Threads <- Natives, JavaThreads <- {}, NoOne <- Nobody,
       Calls <- UNION {MayCall[t] : t \in Natives},
       pc <- where, op <- function, result <- returned

\* What the bridge supposes of its constants is so in the stack: native threads
\* call nothing but the methods of UsbDriver.
LEMMA BridgeConstants ==
  /\ {} \subseteq Natives /\ Nobody \notin Natives
  /\ UNION {MayCall[t] : t \in Natives} \subseteq Keeps!Ops
  /\ BufSize \in Nat \ {0} /\ MaxEntries \in Nat
<1>1. \A t \in Natives : MayCall[t] \subseteq Methods
  BY UsbStackAssumption, UsbDriverAssumption
<1>2. Methods = Keeps!Ops
  BY DEF Keeps!Ops, Methods, Transfers
<1>3. BufSize \in Nat \ {0} /\ MaxEntries \in Nat
  BY UsbStackAssumption
<1>4. Nobody \notin Natives
  BY UsbStackAssumption, UsbDriverAssumption
<1>5. UNION {MayCall[t] : t \in Natives} \subseteq Keeps!Ops
  BY <1>1, <1>2
<1>. QED
  BY <1>3, <1>4, <1>5

\* Both instances are the same bridge.
LEMMA SameBridge == Bridge!Spec => Keeps!Spec
<1>1. Bridge!Init => Keeps!Init
  BY DEF Bridge!Init, Keeps!Init, Bridge!NoRef, Keeps!NoRef,
         Bridge!Unserved, Keeps!Unserved
<1>2. [Bridge!Next]_(Bridge!vars) => [Keeps!Next]_(Keeps!vars)
  BY DEF Bridge!Next, Keeps!Next, Bridge!vars, Keeps!vars,
         Bridge!bridgeVars, Keeps!bridgeVars, Bridge!globals, Keeps!globals,
         Bridge!vmVars, Keeps!vmVars, Bridge!answers, Keeps!answers,
         Bridge!history, Keeps!history, Bridge!SetJniEnv, Keeps!SetJniEnv,
         Bridge!Enter, Keeps!Enter, Bridge!At, Keeps!At, Bridge!Goto, Keeps!Goto,
         Bridge!Alone, Keeps!Alone, Bridge!getJNIEnv, Keeps!getJNIEnv,
         Bridge!CallBridge, Keeps!CallBridge, Bridge!Unserved, Keeps!Unserved,
         Bridge!Continue, Keeps!Continue, Bridge!Inside, Keeps!Inside,
         Bridge!FindClass, Keeps!FindClass, Bridge!Raised, Keeps!Raised,
         Bridge!NoRef, Keeps!NoRef, Bridge!InitUsbDriver, Keeps!InitUsbDriver,
         Bridge!NoEnvironment, Keeps!NoEnvironment, Bridge!CopyBack, Keeps!CopyBack,
         Bridge!Length, Keeps!Length, Bridge!ReleaseUsbDriver, Keeps!ReleaseUsbDriver,
         Bridge!NothingToRelease, Keeps!NothingToRelease, Bridge!Crash, Keeps!Crash,
         Bridge!ValidFor, Keeps!ValidFor, Bridge!RefsOf, Keeps!RefsOf,
         Bridge!CallStaticIntMethod, Keeps!CallStaticIntMethod,
         Bridge!Answer, Keeps!Answer, Bridge!Answered, Keeps!Answered,
         Bridge!Results, Keeps!Results, Bridge!Exception, Keeps!Exception,
         Bridge!WithArrays, Keeps!WithArrays, Bridge!Ops, Keeps!Ops,
         Bridge!ReturnToJava, Keeps!ReturnToJava, Bridge!Killed, Keeps!Killed
<1>. QED
  BY <1>1, <1>2, PTL DEF Bridge!Spec, Keeps!Spec

\* The first jni_ call after SetJniEnv has its own environment and, unless
\* FindClass failed, its own class reference; native threads are detached after
\* their calls, and the results of UsbDriver's methods are what the jni_
\* functions return, with the real UsbDriver under the bridge too.
THEOREM BridgeOverDriver ==
  StackSpec => [](/\ Bridge!FirstCallSound
                  /\ Bridge!DetachedAfterCall
                  /\ Bridge!AnswersPassedOn)
<1>1. StackSpec => Keeps!Spec
  BY StackIsBridge, SameBridge, PTL
<1>2. Keeps!Spec => [](/\ Keeps!FirstCallSound
                       /\ Keeps!DetachedAfterCall
                       /\ Keeps!AnswersPassedOn)
  BY BridgeConstants, Keeps!FirstCall, Keeps!Detached, Keeps!PassedOn, PTL
<1>3. Keeps!FirstCallSound => Bridge!FirstCallSound
  BY DEF Bridge!FirstCallSound, Keeps!FirstCallSound, Bridge!InCall, Keeps!InCall, Bridge!RefsOf, Keeps!RefsOf,
         Bridge!NoRef, Keeps!NoRef
<1>4. Keeps!DetachedAfterCall => Bridge!DetachedAfterCall
  BY DEF Bridge!DetachedAfterCall, Keeps!DetachedAfterCall, Bridge!Ops, Keeps!Ops
<1>5. Keeps!AnswersPassedOn => Bridge!AnswersPassedOn
  BY DEF Bridge!AnswersPassedOn, Keeps!AnswersPassedOn, Bridge!Ops, Keeps!Ops,
         Bridge!Exception, Keeps!Exception, Bridge!Unserved, Keeps!Unserved
<1>. QED
  BY <1>1, <1>2, <1>3, <1>4, <1>5, PTL
=============================================================================
