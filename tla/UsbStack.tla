------------------------------ MODULE UsbStack ------------------------------
(***************************************************************************)
(* UsbDriver under its C bridge: native threads call the jni_ functions,   *)
(* each of which runs one method of UsbDriver on the calling thread, while *)
(* the main thread runs UsbDriver's receiver.  The two share nothing but   *)
(* the calling thread, the answer and the process.                         *)
(***************************************************************************)
EXTENDS UsbDriver

CONSTANTS
  Natives,     \* the threads that enter the bridge
  BufSize,     \* the iBufSize of jni_bulk_recvData
  MaxEntries   \* bound: functions of the bridge entered

VARIABLES
  attached, jniEnv, UsbDriverCCallJava, refs, pending, served, entries,
  fresh, attachFailed,  \* the bridge's, under their own names
  where, function,      \* its pc and op
  returned              \* its result

Bridge == INSTANCE UsbBridge
  WITH Threads <- Natives, JavaThreads <- {}, NoOne <- Nobody,
       Calls <- UNION {MayCall[t] : t \in Natives},
       pc <- where, op <- function, result <- returned

bridgeVars ==
  <<attached, jniEnv, UsbDriverCCallJava, refs, pending, served, entries, fresh,
    attachFailed, where, function, returned>>

ASSUME UsbStackAssumption ==
  /\ BufSize \in Nat \ {0}
  /\ MaxEntries \in Nat
  /\ Natives \subseteq Threads \ {Main}
  /\ MayCall[Main] = {}
  /\ MaxEntries <= MaxOpens

stackVars == <<vars, bridgeVars>>

StackInit == Init /\ Bridge!Init

\* The bridge's own steps, among them the one by which the VM ends it all.
Enters(t) ==
  /\ Bridge!SetJniEnv(t) \/ (Bridge!CallBridge(t) /\ function'[t] \in MayCall[t])
  /\ UNCHANGED driverVars

InBridge(t) == Bridge!Inside(t) /\ UNCHANGED driverVars

\* CallStaticIntMethod runs the method of UsbDriver, and its result, or that
\* it threw, is what the bridge goes on with.  jni_bulk_recvData passes an array
\* where RecvData takes a length, which is then any number.
IntoJava(t) ==
  /\ Bridge!CallStaticIntMethod(t)
  /\ Start(t)
  /\ op'[t] = function[t]

OutOfJava(t) ==
  /\ pc[t] = "idle"
  /\ Bridge!Answered(t, result[t])
  /\ UNCHANGED driverVars

\* UsbDriver's steps.
InDriver(t) == Continue(t) /\ UNCHANGED bridgeVars
Receives == Handle /\ UNCHANGED bridgeVars
Surroundings == Environment /\ UNCHANGED bridgeVars

GoesOn(t) == InBridge(t) \/ IntoJava(t) \/ OutOfJava(t) \/ InDriver(t)

StackNext ==
  \/ \E t \in Natives : Enters(t) \/ GoesOn(t)
  \/ InDriver(Main)
  \/ Receives
  \/ Surroundings

\* As in UsbBridge and in UsbDriver: threads are scheduled, the platform's
\* calls return, the main thread takes its messages.
StackSpec ==
  /\ StackInit /\ [][StackNext]_stackVars
  /\ \A t \in Natives : WF_stackVars(GoesOn(t))
  /\ WF_stackVars(InDriver(Main))
  /\ WF_stackVars(Receives)

-----------------------------------------------------------------------------
(* Properties.                                                             *)

\* UsbDriver is what the bridge takes it for: each call of a method is answered,
\* by one of its own results or an exception, and the thread comes back.  So
\* what holds of UsbBridge with any such answers holds of the two together.
BridgeServed == Bridge!FairSpec

\* As long as no CloseDevice has overlapped a setDevice, jni_closeDevice returns 0
\* only if the device is closed, and it stays so until the only thread that opens
\* it does so again, whatever the receiver handles and other threads call
\* meanwhile.  (Nothing in the code keeps the two apart: a CloseDevice that finds
\* mConnection null just before setDevice assigns it returns 0 and leaves the new
\* connection open, and then nothing is said here.)
ClosedWhenReported ==
  \A t \in Natives :
    /\ Settled /\ ~overlapped
    /\ where[t] = "idle" /\ function[t] = "CloseDevice" /\ returned[t] = 0
    /\ \A u \in Natives \ {t} : "OpenDevice" \notin MayCall[u]
    => mConnection = 0 /\ live = {}
=============================================================================
