----------------------------- MODULE UsbBridge -----------------------------
(***************************************************************************)
(* UsbDriver_CCallJava.c: the C functions through which native code calls  *)
(* UsbDriver.  SetJniEnv attaches the calling thread and keeps its         *)
(* environment and a local reference to the class in two globals; each     *)
(* jni_ function uses both, and at its end deletes the reference and       *)
(* detaches the thread, but leaves the globals as they are.                *)
(*                                                                         *)
(* A step is what happens between two reads of the globals that another    *)
(* thread may have changed.  The VM is the environment: an environment or  *)
(* a reference that is used where it is not valid either ends the process  *)
(* or is believed.                                                         *)
(***************************************************************************)
EXTENDS Integers

CONSTANTS
  Threads,      \* the threads that enter the bridge
  JavaThreads,  \* those that come from Java: attached, with frames of Java
  NoOne,        \* no thread, hence no environment and no reference
  Calls,        \* the methods of UsbDriver that they call
  BufSize,      \* the iBufSize of jni_bulk_recvData
  MaxEntries    \* bound: calls of SetJniEnv and of jni_ functions

\* The bridge has one function for each method of UsbDriver.
Ops == {"OpenDevice", "CloseDevice", "SendData", "RecvData", "SendControl",
        "RecvControl"}
WithArrays == Ops \ {"OpenDevice", "CloseDevice"}

ASSUME UsbBridgeAssumption ==
  /\ JavaThreads \subseteq Threads
  /\ NoOne \notin Threads
  /\ Calls \subseteq Ops
  /\ BufSize \in Nat \ {0}
  /\ MaxEntries \in Nat

VARIABLES
  process,             \* "running", "exited" or "dead"
  attached,            \* the threads the VM knows
  jniEnv,              \* the thread whose environment it is
  UsbDriverCCallJava,  \* the class reference: whose it is, and a name
  refs,                \* the class references that are valid
  pending,             \* threads with an exception nobody has caught
  pc, op,              \* where each thread stands, in which function
  served,              \* what UsbDriver answered the last jni_ call
  result,              \* what the last jni_ call returned
  entries,             \* functions entered so far (bounded by MaxEntries)
  fresh,               \* history: who ran SetJniEnv last, with no other
                       \* thread in the bridge until its next call is over
  attachFailed         \* history: some AttachCurrentThread failed

globals == <<jniEnv, UsbDriverCCallJava>>
vmVars == <<attached, refs, pending>>
answers == <<served, result>>
history == <<entries, fresh, attachFailed>>
bridgeVars == <<globals, vmVars, pc, op, answers, history>>
vars == <<process, bridgeVars>>

Exception == -3                 \* UsbDriver throws
Unserved == -4                  \* the call did not reach it
Results(o) ==                   \* what its methods return
  CASE o = "OpenDevice" -> {-2, -1, 1} [] o = "CloseDevice" -> {0} [] OTHER -> {-2, -1, 0}

NoRef == <<NoOne, NoOne, 0>>
InCall == {"init", "find", "call", "java", "copy", "release"}

Init ==
  /\ process = "running"
  /\ attached = JavaThreads
  /\ jniEnv = NoOne
  /\ UsbDriverCCallJava = NoRef
  /\ refs = {}
  /\ pending = {}
  /\ pc = [t \in Threads |-> "idle"]
  /\ op = [t \in Threads |-> "SetJniEnv"]
  /\ served = [t \in Threads |-> Unserved]
  /\ result = [t \in Threads |-> 0]
  /\ entries = 0
  /\ fresh = NoOne
  /\ attachFailed = FALSE

Goto(t, to) == pc' = [pc EXCEPT ![t] = to]
At(t, here) == process = "running" /\ pc[t] = here
RefsOf(t) == {r \in refs : r[1] = t}

\* Threads with an exception pending after one was raised in t's environment.
Raised(t) == pending \cup ({t} \cap attached)

\* The thread enters a function.
Enter(t) ==
  /\ At(t, "idle")
  /\ entries < MaxEntries
  /\ entries' = entries + 1

-----------------------------------------------------------------------------
(* SetJniEnv.                                                              *)

\* t, if no other thread is in the bridge.
Alone(t) == IF \A u \in Threads \ {t} : pc[u] = "idle" THEN t ELSE NoOne

\* getJNIEnv: attaching a thread that is attached yields its environment.
KeptJNIEnv(t) ==  \* fault: an environment that is there is kept
  /\ attached' = IF jniEnv = NoOne THEN attached \cup {t} ELSE attached
  /\ jniEnv' = IF jniEnv = NoOne THEN t ELSE jniEnv
  /\ UNCHANGED attachFailed

getJNIEnv(t) ==
  \/ /\ attached' = attached \cup {t}
     /\ jniEnv' = t
     /\ UNCHANGED attachFailed
  \/ /\ t \notin attached
     /\ jniEnv' = NoOne
     /\ attachFailed' = TRUE
     /\ UNCHANGED attached

SetJniEnv(t) ==
  /\ Enter(t)
  /\ op' = [op EXCEPT ![t] = "SetJniEnv"]
  /\ Goto(t, "findClass")
  /\ fresh' = Alone(t)
  /\ getJNIEnv(t)
  /\ UNCHANGED <<process, UsbDriverCCallJava, refs, pending, answers>>

\* FindClass through the global jniEnv.  The class loader that a native thread
\* gets may not know the class.
FindClass(t) ==
  /\ At(t, "findClass")
  /\ jniEnv # NoOne
  /\ \/ /\ UsbDriverCCallJava' = <<jniEnv, t, entries>>
        /\ refs' = IF jniEnv \in attached THEN refs \cup {UsbDriverCCallJava'} ELSE refs
        /\ UNCHANGED pending
     \/ /\ jniEnv \notin JavaThreads
        /\ UsbDriverCCallJava' = NoRef
        /\ pending' = Raised(jniEnv)
        /\ UNCHANGED refs
  /\ Goto(t, "idle")
  /\ UNCHANGED <<process, attached, jniEnv, op, answers, history>>

-----------------------------------------------------------------------------
(* The jni_ functions.                                                     *)

CallBridge(t) ==
  /\ Enter(t)
  /\ \E o \in Calls : op' = [op EXCEPT ![t] = o]
  /\ Goto(t, "init")
  /\ served' = [served EXCEPT ![t] = Unserved]
  /\ fresh' = IF fresh = t THEN t ELSE NoOne
  /\ UNCHANGED <<process, globals, vmVars, result, attachFailed>>

\* Without an environment InitUsbDriver returns 0, and the caller -1.
WaitForEnv(t) ==  \* fault: it waits until there is one
  Goto(t, "init") /\ UNCHANGED result
OwnCode(t) ==  \* fault: the caller returns that 0
  Goto(t, "idle") /\ result' = [result EXCEPT ![t] = 0]
NoEnvironment(t) ==
  Goto(t, "idle") /\ result' = [result EXCEPT ![t] = -1]

\* InitUsbDriver tests the environment, then reads the globals again to look up
\* every method; if one is not found it releases all and the caller returns -1.
InitUsbDriver(t) ==
  /\ \/ At(t, "init") /\ jniEnv = NoOne /\ NoEnvironment(t) /\ UNCHANGED pending
     \/ At(t, "init") /\ jniEnv # NoOne /\ Goto(t, "find") /\ UNCHANGED <<pending, result>>
     \/ /\ At(t, "find")
        /\ jniEnv # NoOne /\ UsbDriverCCallJava # NoRef
        /\ \/ Goto(t, "call") /\ UNCHANGED <<pending, result>>
           \/ /\ pending' = Raised(jniEnv)
              /\ result' = [result EXCEPT ![t] = -1]
              /\ Goto(t, "release")
  /\ UNCHANGED <<process, globals, attached, refs, op, served, history>>

\* The arrays are made and filled, and UsbDriver is called.
CallStaticIntMethod(t) ==
  /\ At(t, "call")
  /\ jniEnv # NoOne /\ UsbDriverCCallJava # NoRef
  /\ Goto(t, "java")
  /\ UNCHANGED <<process, globals, vmVars, op, answers, history>>

\* UsbDriver answers r.  After an exception the result is undefined.
Answered(t, r) ==
  /\ At(t, "java")
  /\ served' = [served EXCEPT ![t] = r]
  /\ \E v \in IF r = Exception THEN Results(op[t]) ELSE {r} :
       result' = [result EXCEPT ![t] = v]
  /\ pending' = IF r = Exception THEN Raised(t) ELSE pending
  /\ Goto(t, IF op[t] \in WithArrays THEN "copy" ELSE "release")
  /\ UNCHANGED <<process, globals, attached, refs, op, history>>

\* jni_bulk_recvData returns what it wrote to jArLen itself, or nothing yet
\* if the VM had handed out a copy of the array.
LengthPlusOne == {0, BufSize + 1}  \* fault: as long as the other arrays
Length == {0, BufSize}

\* The arrays are copied back and freed.
CopyBack(t) ==
  /\ At(t, "copy")
  /\ jniEnv # NoOne
  /\ \E v \in IF op[t] = "RecvData" THEN Length ELSE {result[t]} :
       result' = [result EXCEPT ![t] = v]
  /\ Goto(t, "release")
  /\ UNCHANGED <<process, globals, vmVars, op, served, history>>

\* The test that begins ReleaseUsbDriver.
NoEnvOrClass == jniEnv = NoOne \/ UsbDriverCCallJava = NoRef  \* fault
NothingToRelease == jniEnv = NoOne

\* ReleaseUsbDriver.  Detaching a thread of Java is refused; that of a native
\* thread frees its references.
ReleaseUsbDriver(t) ==
  /\ At(t, "release")
  /\ IF NothingToRelease
     THEN UNCHANGED vmVars
     ELSE /\ attached' = attached \ ({t} \ JavaThreads)
          /\ refs' = {r \in refs \ {UsbDriverCCallJava} : r[1] \in attached'}
          /\ pending' = pending \cap attached'
  /\ fresh' = NoOne
  /\ Goto(t, "idle")
  /\ UNCHANGED <<process, globals, op, answers, entries, attachFailed>>

-----------------------------------------------------------------------------
(* The VM.                                                                 *)

\* The globals are what a JNI call of t needs.
ValidFor(t) ==
  /\ jniEnv = t /\ t \in attached
  /\ UsbDriverCCallJava \in RefsOf(t)

\* What ends the process: JNI calls with null, with what is not valid for the
\* thread, or with an exception pending; detaching a thread of Java.
Crash(t) ==
  /\ process = "running"
  /\ \/ pc[t] = "findClass" /\ ~(jniEnv = t /\ t \in attached \ pending)
     \/ pc[t] \in {"find", "call", "copy"} /\ ~(ValidFor(t) /\ t \notin pending)
     \/ /\ pc[t] = "release" /\ jniEnv # NoOne
        /\ \/ UsbDriverCCallJava # NoRef /\ ~ValidFor(t)
           \/ t \in pending \cup JavaThreads
  /\ process' = "dead"
  /\ UNCHANGED bridgeVars

\* A native method returns to Java: its references end, and a pending
\* exception is thrown there.
ReturnToJava(t) ==
  /\ At(t, "idle")
  /\ t \in JavaThreads
  /\ RefsOf(t) # {} \/ t \in pending
  /\ refs' = refs \ RefsOf(t)
  /\ pending' = pending \ {t}
  /\ fresh' = IF fresh = t THEN NoOne ELSE fresh
  /\ UNCHANGED <<process, globals, attached, pc, op, answers, entries, attachFailed>>

\* The process ends for a reason outside the bridge, such as System.exit.
Killed ==
  /\ process = "running"
  /\ process' \in {"exited", "dead"}
  /\ UNCHANGED bridgeVars

-----------------------------------------------------------------------------

\* The steps of the bridge that leave UsbDriver alone.
Inside(t) ==
  \/ FindClass(t)
  \/ InitUsbDriver(t)
  \/ CopyBack(t)
  \/ ReleaseUsbDriver(t)
  \/ Crash(t)

Continue(t) == Inside(t) \/ CallStaticIntMethod(t)

Answer(t) == \E r \in Results(op[t]) \cup {Exception} : Answered(t, r)

Next ==
  \/ \E t \in Threads :
       \/ SetJniEnv(t)
       \/ CallBridge(t)
       \/ Continue(t)
       \/ Answer(t)
       \/ ReturnToJava(t)
  \/ Killed

Spec == Init /\ [][Next]_vars

\* A thread inside the bridge is scheduled, and UsbDriver answers.
FairSpec == Spec /\ \A t \in Threads : WF_vars(Continue(t) \/ Answer(t))

-----------------------------------------------------------------------------
(* Properties.                                                             *)

\* Every variable stays in its type; no reference outlives the attachment of
\* its thread, and only threads of Java stay attached without SetJniEnv.
TypeOK ==
  /\ process \in {"running", "exited", "dead"}
  /\ JavaThreads \subseteq attached /\ attached \subseteq Threads
  /\ jniEnv \in Threads \cup {NoOne}
  /\ refs \subseteq attached \X Threads \X (1..entries)
  /\ UsbDriverCCallJava \in {NoRef} \cup (Threads \X Threads \X (1..entries))
  /\ pending \subseteq attached
  /\ pc \in [Threads -> {"idle", "findClass"} \cup InCall]
  /\ op \in [Threads -> Ops \cup {"SetJniEnv"}]
  /\ served \in [Threads -> {Exception, Unserved, -2, -1, 0, 1}]
  /\ result \in [Threads -> {-2, -1, 0, 1, BufSize}]
  /\ entries \in 0..MaxEntries
  /\ fresh \in Threads \cup {NoOne}
  /\ attachFailed \in BOOLEAN

\* The first jni_ call that follows SetJniEnv on the same thread, with no other
\* thread entering the bridge in between, has that thread's own environment,
\* attached, until it returns; and its own class reference, valid, unless
\* FindClass failed, whose result SetJniEnv does not check: then the reference
\* is null, the exception is still pending, and the call gets no further than
\* looking up the methods, where the process dies.  (Later calls, and calls of
\* two threads, have no such guarantee: the globals are then stale.)
FirstCallSound ==
  \A t \in Threads :
    fresh = t /\ pc[t] \in InCall =>
      /\ jniEnv = t /\ t \in attached
      /\ \/ UsbDriverCCallJava \in RefsOf(t)
         \/ UsbDriverCCallJava = NoRef /\ t \in pending /\ pc[t] \in {"init", "find"}

\* Unless some attach failed, a native thread is detached whenever its jni_
\* call has returned, whichever threads changed the globals meanwhile.
DetachedAfterCall ==
  \A t \in Threads \ JavaThreads :
    ~attachFailed /\ pc[t] = "idle" /\ op[t] \in Ops => t \notin attached

\* What a jni_ function other than jni_bulk_recvData returns is what UsbDriver
\* answered, or -1 if the call did not reach it.
AnswersPassedOn ==
  \A t \in Threads :
    pc[t] = "idle" /\ op[t] \in Ops \ {"RecvData"} /\ served[t] # Exception =>
      result[t] = IF served[t] = Unserved THEN -1 ELSE served[t]

\* Every function of the bridge returns, unless the process ends.
CallsReturn ==
  \A t \in Threads : pc[t] # "idle" ~> (pc[t] = "idle" \/ process # "running")

\* UsbDriver_CCallJava.h: jni_bulk_recvData returns -1 if the device is not
\* open and -2 if the command failed.
RecvReportsFailure ==
  \A t \in Threads :
    pc[t] = "idle" /\ op[t] = "RecvData" /\ served[t] \in {-1, -2} =>
      result[t] = served[t]
=============================================================================
