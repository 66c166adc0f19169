-------------------------- MODULE UsbBridgeProofs --------------------------
(***************************************************************************)
(* Machine-checked proofs about UsbBridge, for any number of threads and   *)
(* calls, any division of the threads into native ones and those of Java,  *)
(* and any buffer size.                                                    *)
(***************************************************************************)
EXTENDS UsbBridge, TLAPS

(* The inductive invariant behind the safety properties, part by part.     *)

\* A thread inside a function has been counted, and is in the function that
\* its place belongs to.
PlaceInv ==
  \A t \in Threads :
    /\ pc[t] # "idle" => entries >= 1
    /\ pc[t] \in InCall => op[t] \in Ops
    /\ pc[t] = "findClass" => op[t] = "SetJniEnv"

\* From its SetJniEnv on, the thread in "fresh" is the only one in the bridge,
\* and the globals are its own; the reference is null only with the exception
\* of FindClass still pending, and then no method has been found.
FreshInv ==
  \A t \in Threads : fresh = t =>
    /\ \A u \in Threads \ {t} : pc[u] = "idle"
    /\ pc[t] = "findClass" => jniEnv \in {t, NoOne}
    /\ pc[t] # "findClass" =>
         /\ jniEnv = t
         /\ \/ UsbDriverCCallJava \in RefsOf(t)
            \/ /\ UsbDriverCCallJava = NoRef /\ t \in pending
               /\ pc[t] \in {"idle", "init", "find"}
    /\ jniEnv = t => t \in attached

\* The environment is null only before the first attach, unless one failed.
NullEnvInv ==
  ~attachFailed /\ jniEnv = NoOne => attached = JavaThreads

\* What a function is about to return, from its entry on.
AnswerInv ==
  \A t \in Threads :
    /\ pc[t] \in {"init", "find", "call", "java"} => served[t] = Unserved
    /\ pc[t] \in {"copy", "release"} /\ op[t] # "RecvData" /\ served[t] # Exception =>
         result[t] = IF served[t] = Unserved THEN -1 ELSE served[t]

IInv ==
  /\ PlaceInv
  /\ FreshInv
  /\ NullEnvInv
  /\ DetachedAfterCall
  /\ AnswerInv
  /\ AnswersPassedOn

-----------------------------------------------------------------------------

USE UsbBridgeAssumption
USE DEF globals, vmVars, answers, history, bridgeVars, vars

\* A step of one thread.
Step(t) ==
  \/ SetJniEnv(t)
  \/ CallBridge(t)
  \/ Continue(t)
  \/ Answer(t)
  \/ ReturnToJava(t)

\* The place of a thread tells which function it is in.
LEMMA PlaceStep ==
  ASSUME TypeOK, PlaceInv, NEW t \in Threads, Step(t)
  PROVE  PlaceInv'
<1>. USE DEF TypeOK, PlaceInv, InCall, Goto, At, Enter
<1>1. CASE SetJniEnv(t)
  BY <1>1 DEF SetJniEnv
<1>2. CASE CallBridge(t)
  BY <1>2 DEF CallBridge
<1>3. CASE FindClass(t)
  BY <1>3 DEF FindClass
<1>4. CASE InitUsbDriver(t)
  BY <1>4 DEF InitUsbDriver, NoEnvironment
<1>5. CASE CallStaticIntMethod(t)
  BY <1>5 DEF CallStaticIntMethod
<1>6. CASE Answer(t)
  BY <1>6 DEF Answer, Answered
<1>7. CASE CopyBack(t)
  BY <1>7 DEF CopyBack
<1>8. CASE ReleaseUsbDriver(t)
  BY <1>8 DEF ReleaseUsbDriver
<1>9. CASE Crash(t)
  BY <1>9 DEF Crash
<1>10. CASE ReturnToJava(t)
  BY <1>10 DEF ReturnToJava
<1>. QED
  BY <1>1, <1>2, <1>3, <1>4, <1>5, <1>6, <1>7, <1>8, <1>9, <1>10
     DEF Step, Continue, Inside

\* Every variable stays in its type.  What could go wrong is in the VM: a
\* reference is born in the environment of the thread in jniEnv, and dies with
\* the attachment of its thread.
LEMMA TypeStep ==
  ASSUME TypeOK, PlaceInv, NEW t \in Threads, Step(t)
  PROVE  TypeOK'
<1>. USE DEF TypeOK, InCall, Goto, At, Enter, NoRef
<1>0. ASSUME Enter(t), refs' = refs, UsbDriverCCallJava' = UsbDriverCCallJava,
             attached \subseteq attached', JavaThreads \subseteq attached'
      PROVE  /\ entries' \in 0..MaxEntries
             /\ refs' \subseteq attached' \X Threads \X (1..entries')
             /\ UsbDriverCCallJava' \in {NoRef} \cup (Threads \X Threads \X (1..entries'))
  <2>1. entries' \in 0..MaxEntries /\ 1..entries \subseteq 1..entries'
    BY <1>0
  <2>. QED
    BY <1>0, <2>1
<1>1. CASE SetJniEnv(t)
  <2>1. /\ JavaThreads \subseteq attached' /\ attached' \subseteq Threads
        /\ attached \subseteq attached'
        /\ jniEnv' \in Threads \cup {NoOne} /\ attachFailed' \in BOOLEAN
    BY <1>1 DEF SetJniEnv, getJNIEnv
  <2>2. fresh' \in Threads \cup {NoOne}
    BY <1>1 DEF SetJniEnv, Alone
  <2>. QED
    BY <1>0, <1>1, <2>1, <2>2 DEF SetJniEnv
<1>2. CASE CallBridge(t)
  BY <1>0, <1>2, Calls \subseteq Ops DEF CallBridge
<1>3. CASE FindClass(t)
  <2>1. entries \in 1..entries
    BY <1>3 DEF FindClass, PlaceInv
  <2>2. jniEnv \in Threads
    BY <1>3 DEF FindClass
  <2>3. refs' \subseteq attached \X Threads \X (1..entries)
    BY <1>3, <2>1, <2>2 DEF FindClass
  <2>4. UsbDriverCCallJava' \in {NoRef} \cup (Threads \X Threads \X (1..entries))
    BY <1>3, <2>1, <2>2 DEF FindClass
  <2>5. pending' \subseteq attached
    BY <1>3 DEF FindClass, Raised
  <2>. QED
    BY <1>3, <2>3, <2>4, <2>5 DEF FindClass
<1>4. CASE InitUsbDriver(t)
  BY <1>4 DEF InitUsbDriver, NoEnvironment, Raised
<1>5. CASE CallStaticIntMethod(t)
  BY <1>5 DEF CallStaticIntMethod
<1>6. CASE Answer(t)
  BY <1>6 DEF Answer, Answered, Results, Raised, Exception, Unserved
<1>7. CASE CopyBack(t)
  BY <1>7 DEF CopyBack, Length
<1>8. CASE ReleaseUsbDriver(t)
  <2>1. /\ JavaThreads \subseteq attached' /\ attached' \subseteq attached
        /\ refs' \subseteq attached' \X Threads \X (1..entries)
        /\ pending' \subseteq attached'
    BY <1>8 DEF ReleaseUsbDriver
  <2>. QED
    BY <1>8, <2>1 DEF ReleaseUsbDriver
<1>9. CASE Crash(t)
  BY <1>9 DEF Crash
<1>10. CASE ReturnToJava(t)
  BY <1>10 DEF ReturnToJava, RefsOf
<1>. QED
  BY <1>1, <1>2, <1>3, <1>4, <1>5, <1>6, <1>7, <1>8, <1>9, <1>10
     DEF Step, Continue, Inside

\* While a thread is "fresh" no other thread enters the bridge, so what it
\* found in the globals is still there.
LEMMA FreshStep ==
  ASSUME TypeOK, FreshInv, NEW t \in Threads, Step(t)
  PROVE  FreshInv'
<1>. USE DEF TypeOK, FreshInv, RefsOf, InCall, Goto, At, Enter, NoRef
<1>1. CASE SetJniEnv(t)
  BY <1>1 DEF SetJniEnv, getJNIEnv, Alone
<1>2. CASE CallBridge(t)
  BY <1>2 DEF CallBridge
<1>3. CASE FindClass(t)
  <2>1. SUFFICES ASSUME NEW u \in Threads, fresh' = u
                 PROVE  FreshInv'
    BY DEF FreshInv
  <2>2. u = t /\ fresh = t
    BY <1>3, <2>1 DEF FindClass
  <2>3. jniEnv = t /\ t \in attached /\ jniEnv' = t /\ t \in attached'
    BY <1>3, <2>2 DEF FindClass
  <2>4. \/ UsbDriverCCallJava' \in RefsOf(t)'
        \/ UsbDriverCCallJava' = NoRef /\ t \in pending'
    BY <1>3, <2>3 DEF FindClass, Raised
  <2>5. pc' = [pc EXCEPT ![t] = "idle"] /\ fresh' = t
    BY <1>3, <2>2 DEF FindClass
  <2>. QED
    BY <2>2, <2>3, <2>4, <2>5
<1>4. CASE InitUsbDriver(t)
  BY <1>4 DEF InitUsbDriver, NoEnvironment
<1>5. CASE CallStaticIntMethod(t)
  BY <1>5 DEF CallStaticIntMethod
<1>6. CASE Answer(t)
  BY <1>6 DEF Answer, Answered
<1>7. CASE CopyBack(t)
  BY <1>7 DEF CopyBack
<1>8. CASE ReleaseUsbDriver(t)
  BY <1>8 DEF ReleaseUsbDriver
<1>9. CASE Crash(t)
  BY <1>9 DEF Crash
<1>10. CASE ReturnToJava(t)
  BY <1>10 DEF ReturnToJava
<1>. QED
  BY <1>1, <1>2, <1>3, <1>4, <1>5, <1>6, <1>7, <1>8, <1>9, <1>10
     DEF Step, Continue, Inside

\* A call leaves its native thread detached: where it detaches nothing there
\* is no environment, and then no native thread is attached.
LEMMA DetachStep ==
  ASSUME TypeOK, PlaceInv, NullEnvInv, DetachedAfterCall, NEW t \in Threads, Step(t)
  PROVE  NullEnvInv' /\ DetachedAfterCall'
<1>. USE DEF TypeOK, PlaceInv, NullEnvInv, DetachedAfterCall, InCall, Goto, At, Enter
<1>1. CASE SetJniEnv(t)
  BY <1>1 DEF SetJniEnv, getJNIEnv, Ops
<1>2. CASE CallBridge(t)
  BY <1>2 DEF CallBridge
<1>3. CASE FindClass(t)
  BY <1>3 DEF FindClass, Ops
<1>4. CASE InitUsbDriver(t)
  BY <1>4 DEF InitUsbDriver, NoEnvironment
<1>5. CASE CallStaticIntMethod(t)
  BY <1>5 DEF CallStaticIntMethod
<1>6. CASE Answer(t)
  BY <1>6 DEF Answer, Answered
<1>7. CASE CopyBack(t)
  BY <1>7 DEF CopyBack
<1>8. CASE ReleaseUsbDriver(t)
  BY <1>8 DEF ReleaseUsbDriver, NothingToRelease
<1>9. CASE Crash(t)
  BY <1>9 DEF Crash
<1>10. CASE ReturnToJava(t)
  BY <1>10 DEF ReturnToJava
<1>. QED
  BY <1>1, <1>2, <1>3, <1>4, <1>5, <1>6, <1>7, <1>8, <1>9, <1>10
     DEF Step, Continue, Inside

\* What UsbDriver answered is kept until the function returns it.
LEMMA AnswerStep ==
  ASSUME TypeOK, PlaceInv, AnswerInv, AnswersPassedOn, NEW t \in Threads, Step(t)
  PROVE  AnswerInv' /\ AnswersPassedOn'
<1>. USE DEF TypeOK, PlaceInv, AnswerInv, AnswersPassedOn, InCall, Goto, At, Enter,
             Exception, Unserved
<1>1. CASE SetJniEnv(t)
  BY <1>1 DEF SetJniEnv, Ops
<1>2. CASE CallBridge(t)
  BY <1>2 DEF CallBridge
<1>3. CASE FindClass(t)
  BY <1>3 DEF FindClass, Ops
<1>4. CASE InitUsbDriver(t)
  BY <1>4 DEF InitUsbDriver, NoEnvironment
<1>5. CASE CallStaticIntMethod(t)
  BY <1>5 DEF CallStaticIntMethod
<1>6. CASE Answer(t)
  BY <1>6 DEF Answer, Answered, Results
<1>7. CASE CopyBack(t)
  BY <1>7 DEF CopyBack
<1>8. CASE ReleaseUsbDriver(t)
  BY <1>8 DEF ReleaseUsbDriver
<1>9. CASE Crash(t)
  BY <1>9 DEF Crash
<1>10. CASE ReturnToJava(t)
  BY <1>10 DEF ReturnToJava
<1>. QED
  BY <1>1, <1>2, <1>3, <1>4, <1>5, <1>6, <1>7, <1>8, <1>9, <1>10
     DEF Step, Continue, Inside

-----------------------------------------------------------------------------

\* The initial state satisfies the invariant.
LEMMA InitInv ==
  Init => TypeOK /\ IInv
<1>. SUFFICES ASSUME Init PROVE TypeOK /\ IInv
  OBVIOUS
<1>. USE DEF Init
<1>1. TypeOK
  <2>1. /\ pc \in [Threads -> {"idle", "findClass"} \cup InCall]
        /\ op \in [Threads -> Ops \cup {"SetJniEnv"}]
        /\ served \in [Threads -> {Exception, Unserved, -2, -1, 0, 1}]
        /\ result \in [Threads -> {-2, -1, 0, 1, BufSize}]
    OBVIOUS
  <2>2. /\ refs \subseteq attached \X Threads \X (1..entries)
        /\ UsbDriverCCallJava \in {NoRef} \cup (Threads \X Threads \X (1..entries))
    OBVIOUS
  <2>3. JavaThreads \subseteq attached /\ attached \subseteq Threads
    OBVIOUS
  <2>4. /\ jniEnv \in Threads \cup {NoOne} /\ fresh \in Threads \cup {NoOne}
        /\ pending \subseteq attached
    OBVIOUS
  <2>5. process \in {"running", "exited", "dead"} /\ attachFailed \in BOOLEAN
    OBVIOUS
  <2>6. entries \in 0..MaxEntries
    OBVIOUS
  <2>. HIDE DEF Init
  <2>. QED
    BY <2>1, <2>2, <2>3, <2>4, <2>5, <2>6 DEF TypeOK
<1>2. PlaceInv /\ NullEnvInv
  BY DEF PlaceInv, NullEnvInv, InCall
<1>3. FreshInv
  BY DEF FreshInv
<1>4. DetachedAfterCall /\ AnswerInv /\ AnswersPassedOn
  BY DEF DetachedAfterCall, AnswerInv, AnswersPassedOn, Ops
<1>. QED
  BY <1>1, <1>2, <1>3, <1>4 DEF IInv

\* Every step preserves the invariant.
LEMMA NextInv ==
  TypeOK /\ IInv /\ [Next]_vars => TypeOK' /\ IInv'
<1>. SUFFICES ASSUME TypeOK, IInv, [Next]_vars PROVE TypeOK' /\ IInv'
  OBVIOUS
<1>1. ASSUME NEW t \in Threads, Step(t)
      PROVE  TypeOK' /\ IInv'
  BY <1>1, PlaceStep, TypeStep, FreshStep, DetachStep, AnswerStep DEF IInv
<1>2. ASSUME process' \in {"running", "exited", "dead"}, UNCHANGED bridgeVars
      PROVE  TypeOK' /\ IInv'
  BY <1>2 DEF IInv, TypeOK, PlaceInv, FreshInv, RefsOf, NullEnvInv, DetachedAfterCall,
              AnswerInv, AnswersPassedOn
<1>3. CASE Killed
  BY <1>2, <1>3 DEF Killed
<1>4. CASE UNCHANGED vars
  BY <1>2, <1>4 DEF TypeOK
<1>. QED
  BY <1>1, <1>3, <1>4 DEF Next, Step

-----------------------------------------------------------------------------

\* Every variable of the bridge keeps its type: no class reference outlives
\* the attachment of its thread, and a thread of Java is never detached.
THEOREM TypeCorrect == Spec => []TypeOK
<1>1. TypeOK /\ IInv /\ [Next]_vars => (TypeOK /\ IInv)'
  BY NextInv
<1>. QED
  BY InitInv, <1>1, PTL DEF Spec

\* The inductive invariant holds in every reachable state.
THEOREM Invariance == Spec => []IInv
<1>1. TypeOK /\ IInv /\ [Next]_vars => (TypeOK /\ IInv)'
  BY NextInv
<1>. QED
  BY InitInv, <1>1, PTL DEF Spec

\* The first jni_ call after SetJniEnv on the same thread, undisturbed by other
\* threads, has that thread's environment from InitUsbDriver to
\* ReleaseUsbDriver; and its class reference, unless FindClass failed: then the
\* call dies before it has looked up a method.
THEOREM FirstCall == Spec => []FirstCallSound
<1>1. IInv => FirstCallSound
  BY DEF IInv, FreshInv, FirstCallSound, InCall
<1>. QED
  BY Invariance, <1>1, PTL

\* Unless AttachCurrentThread failed, no native thread is attached once a jni_
\* function of it has returned, whatever other threads did to the globals.
THEOREM Detached == Spec => []DetachedAfterCall
<1>1. IInv => DetachedAfterCall
  BY DEF IInv
<1>. QED
  BY Invariance, <1>1, PTL

\* Every jni_ function but jni_bulk_recvData returns what UsbDriver answered,
\* or -1 if it did not reach UsbDriver.
THEOREM PassedOn == Spec => []AnswersPassedOn
<1>1. IInv => AnswersPassedOn
  BY DEF IInv
<1>. QED
  BY Invariance, <1>1, PTL
=============================================================================
