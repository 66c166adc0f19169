-------------------------- MODULE NdkThreadProofs --------------------------
(***************************************************************************)
(* Machine-checked proofs about NdkThread, for every number of threads,    *)
(* slots, rounds, activities and clicks.                                   *)
(***************************************************************************)
EXTENDS NdkThread, FiniteSetTheorems, TLAPS

(* The inductive invariant behind the safety properties, part by part.     *)

\* Rounds of w whose recv has returned: the loop counter alone tells.
Delivered(w) ==
  IF wpc[w] \in {"none", "loop", "dump"} THEN Rounds - c[w]
                                         ELSE Rounds - c[w] - 1

CounterInv ==
  \A w \in Workers :
    /\ wpc[w] = "none" => c[w] = Rounds
    /\ wpc[w] = "loop" => c[w] >= 0
    /\ wpc[w] \in InNotify => c[w] \in 0..(Rounds - 1)
    /\ wpc[w] \in {"attach", "failed"} => c[w] = Rounds - 1
    /\ wpc[w] \in {"detach", "done"} => c[w] = -1

ContentInv ==
  \A w \in Workers : \A r \in 1..Rounds :
    content[w][r] = IF r <= Delivered(w) THEN 1 ELSE 0

AttachInv ==
  \A w \in Workers :
    /\ w \in attached <=> \/ wpc[w] \in InNotify \cup {"detach"}
                          \/ wpc[w] = "loop" /\ c[w] < Rounds
    /\ wpc[w] # "done" => (isAttached[w] <=> w \in attached)

ArraysOf(w) ==
  {BufferOf(w, r) : r \in 1..Rounds} \cup {SizeOf(w, r) : r \in 1..Rounds}

LocalsInv ==
  \A w \in Workers :
    /\ w \notin attached => locals[w] = {}
    /\ locals[w] \subseteq ArraysOf(w)

SetupInv ==
  /\ globalRefs = 1..mObject
  /\ mObject = IF ui = "setupObject" THEN setups - 1 ELSE setups
  /\ ui \in {"load", "init"} => setups = 0 /\ Created = {}
  /\ ui \in {"setupObject", "setupMethods"} => setups > 0 /\ activity = setups
  /\ ui # "load" => "sVm" \in assigned
  /\ ui \notin {"load", "init"} => {"card_clazz", "card_object"} \subseteq assigned
  /\ ui \in {"idle", "increment"} => mObject # 0 /\ "recv_envent" \in assigned
  /\ Created # {} => mObject # 0 /\ "recv_envent" \in assigned
  /\ \A w \in Workers : seen[w] <= mObject
  /\ \A w \in Created : seen[w] # 0

HeapInv ==
  /\ \A n \in globalRefs : Transmit(n) \in heap
  /\ activity # 0 => Transmit(activity) \in heap
  /\ \A w \in Workers : locals[w] \subseteq heap
  /\ {card.buffer, card.size} \ {None} \subseteq heap

IInv ==
  /\ CounterInv
  /\ ContentInv
  /\ AttachInv
  /\ LocalsInv
  /\ SetupInv
  /\ HeapInv
  /\ HandlesKept

-----------------------------------------------------------------------------

USE NdkThreadAssumption
USE DEF KeptRefs, MethodsNext, NextSlot, LoopEnds, Counted, GivesUp, DetachCurrentThread

\* The arrays a thread names are arrays, and the round it is in exists.
LEMMA RoundIsARound ==
  ASSUME TypeOK, CounterInv, NEW w \in Workers, wpc[w] \in InNotify
  PROVE  /\ Round(w) \in 1..Rounds
         /\ BufferOf(w, Round(w)) \in Buffers
         /\ SizeOf(w, Round(w)) \in Sizes
<1>1. c[w] \in 0..(Rounds - 1)
  BY DEF CounterInv
<1>2. Round(w) \in 1..Rounds
  BY <1>1 DEF Round
<1>. QED
  BY <1>2 DEF Buffers, Sizes

\* The loop counter, the program counter and the type of everything the
\* UI thread owns are preserved by the steps of the UI thread.
LEMMA TypeUi ==
  ASSUME TypeOK, SetupInv, UiStep
  PROVE  TypeOK'
<1>. USE DEF TypeOK, Globals, UiPc, Objects, SetupInv, Die, uiVars, threadVars, dataVars
<1>1. CASE JNI_OnLoad
  BY <1>1 DEF JNI_OnLoad
<1>2. CASE NativeInit
  BY <1>2 DEF NativeInit
<1>3. CASE Launch
  BY <1>3 DEF Launch
<1>4. CASE SetupObject
  BY <1>4 DEF SetupObject
<1>5. CASE SetupMethods
  BY <1>5 DEF SetupMethods
<1>6. CASE Destroy
  BY <1>6 DEF Destroy
<1>7. CASE StartThread
  <2>1. /\ ui' \in UiPc
        /\ clicks' \in 0..MaxClicks
        /\ UNCHANGED <<assigned, setups, activity, mObject, globalRefs>>
    BY <1>7 DEF StartThread
  <2>2. CASE UNCHANGED <<process, thread_count, pt, threadVars, dataVars>>
    BY <2>1, <2>2
  <2>3. ASSUME NEW w \in Workers, Spawn(w), StoreHandle(w)
        PROVE  TypeOK'
    <3>1. /\ wpc' \in [Workers -> WorkerPc]
          /\ seen' \in [Workers -> 0..MaxSetups]
          /\ UNCHANGED <<c, attached, isAttached, dataVars>>
      BY <2>3 DEF Spawn, WorkerPc
    <3>2. /\ pt' \in [Slots -> Workers \cup {None}]
          /\ process' \in {"running", "dead"}
          /\ thread_count' \in Int
      BY <2>3 DEF StoreHandle
    <3>. QED
      BY <2>1, <3>1, <3>2
  <2>. QED
    BY <1>7, <2>2, <2>3 DEF StartThread
<1>8. CASE Increment
  BY <1>8 DEF Increment
<1>. QED
  BY <1>1, <1>2, <1>3, <1>4, <1>5, <1>6, <1>7, <1>8 DEF UiStep

\* A step of a native thread preserves the type invariant: the facts it needs
\* are that its counter stays above -1 and that its round exists.
LEMMA TypeWorker ==
  ASSUME TypeOK, CounterInv, SetupInv, NEW w \in Workers, WorkerStep(w)
  PROVE  TypeOK'
<1>0. wpc[w] \in InNotify => /\ Round(w) \in 1..Rounds
                             /\ BufferOf(w, Round(w)) \in Buffers
                             /\ SizeOf(w, Round(w)) \in Sizes
  BY RoundIsARound
<1>. USE DEF TypeOK, WorkerPc, InNotify, Goto, uiVars, threadVars, dataVars
<1>1. CASE Loop(w)
  BY <1>1 DEF Loop, CounterInv
<1>2. CASE Attach(w)
  BY <1>2 DEF Attach
<1>3. CASE PutBuffer(w)
  BY <1>0, <1>3 DEF PutBuffer, Objects
<1>4. CASE PutSize(w)
  BY <1>0, <1>4 DEF PutSize, Objects
<1>5. CASE LoadTarget(w)
  BY <1>5 DEF LoadTarget
<1>6. CASE CallRecv(w)
  BY <1>0, <1>6 DEF CallRecv
<1>7. CASE Dump(w)
  BY <1>7 DEF Dump
<1>8. CASE Detach(w)
  BY <1>8 DEF Detach
<1>. QED
  BY <1>1, <1>2, <1>3, <1>4, <1>5, <1>6, <1>7, <1>8 DEF WorkerStep

-----------------------------------------------------------------------------
(* The UI thread touches a native thread only by creating it.              *)

\* No step of the UI thread changes a native thread that already runs; the
\* only one that changes any thread starts one at the top of thread_fun.
LEMMA UiFrame ==
  ASSUME UiStep
  PROVE  /\ UNCHANGED <<c, attached, isAttached, locals, card, content>>
         /\ \/ UNCHANGED <<wpc, seen>>
            \/ /\ ui = "idle" /\ mObject' = mObject
               /\ \E w \in Workers :
                    /\ wpc[w] = "none"
                    /\ wpc' = [wpc EXCEPT ![w] = "loop"]
                    /\ seen' = [seen EXCEPT ![w] = mObject]
<1>. USE DEF Die, uiVars, threadVars, dataVars
<1>1. CASE JNI_OnLoad
  BY <1>1 DEF JNI_OnLoad
<1>2. CASE NativeInit
  BY <1>2 DEF NativeInit
<1>3. CASE Launch
  BY <1>3 DEF Launch
<1>4. CASE SetupObject
  BY <1>4 DEF SetupObject
<1>5. CASE SetupMethods
  BY <1>5 DEF SetupMethods
<1>6. CASE Destroy
  BY <1>6 DEF Destroy
<1>7. CASE StartThread
  BY <1>7 DEF StartThread, Spawn
<1>8. CASE Increment
  BY <1>8 DEF Increment
<1>. QED
  BY <1>1, <1>2, <1>3, <1>4, <1>5, <1>6, <1>7, <1>8 DEF UiStep

\* A new thread starts with its counter full, unattached and without local
\* references, so the four per-thread invariants survive the UI thread.
LEMMA ThreadsUi ==
  ASSUME TypeOK, CounterInv, ContentInv, AttachInv, LocalsInv, UiStep
  PROVE  CounterInv' /\ ContentInv' /\ AttachInv' /\ LocalsInv'
<1>. USE UiFrame DEF TypeOK, WorkerPc, InNotify
<1>1. CounterInv'
  BY DEF CounterInv
<1>2. ContentInv'
  BY DEF ContentInv, Delivered
<1>3. AttachInv'
  BY DEF AttachInv, CounterInv
<1>4. LocalsInv'
  BY DEF LocalsInv
<1>. QED
  BY <1>1, <1>2, <1>3, <1>4

\* The loop counter of a thread tells where it stands, step by step.
LEMMA CounterWorker ==
  ASSUME TypeOK, CounterInv, AttachInv, NEW w \in Workers, WorkerStep(w)
  PROVE  CounterInv'
<1>. USE DEF TypeOK, WorkerPc, InNotify, Goto, CounterInv
<1>1. CASE Loop(w)
  BY <1>1 DEF Loop, AttachInv
<1>2. CASE Attach(w)
  BY <1>2 DEF Attach
<1>3. CASE PutBuffer(w)
  BY <1>3 DEF PutBuffer
<1>4. CASE PutSize(w)
  BY <1>4 DEF PutSize
<1>5. CASE LoadTarget(w)
  BY <1>5 DEF LoadTarget
<1>6. CASE CallRecv(w)
  BY <1>6 DEF CallRecv
<1>7. CASE Dump(w)
  BY <1>7 DEF Dump
<1>8. CASE Detach(w)
  BY <1>8 DEF Detach
<1>. QED
  BY <1>1, <1>2, <1>3, <1>4, <1>5, <1>6, <1>7, <1>8 DEF WorkerStep

\* A recv is the only step that changes a delivery count, and it counts the
\* round the thread is in; the arrays that PutBuffer makes are not yet used.
LEMMA ContentWorker ==
  ASSUME TypeOK, CounterInv, ContentInv, NEW w \in Workers, WorkerStep(w)
  PROVE  ContentInv'
<1>0. wpc[w] \in InNotify => Round(w) \in 1..Rounds
  BY RoundIsARound
<1>. USE <1>0 DEF TypeOK, WorkerPc, InNotify, Goto, CounterInv, ContentInv, Delivered, Round,
                 uiVars, threadVars, dataVars
<1>1. CASE Loop(w)
  BY <1>1 DEF Loop
<1>2. CASE Attach(w)
  BY <1>2 DEF Attach
<1>3. CASE PutBuffer(w)
  <2>1. content[w][Round(w)] = 0
    <3>1. Delivered(w) = Round(w) - 1
      BY <1>3 DEF PutBuffer
    <3>. HIDE DEF Delivered, Round
    <3>. QED
      BY <1>0, <1>3, <3>1 DEF PutBuffer
  <2>2. content' = content
    <3>. HIDE DEF Delivered, Round
    <3>. QED
      BY <1>0, <1>3, <2>1 DEF PutBuffer
  <2>3. ASSUME NEW v \in Workers
        PROVE  Delivered(v)' = Delivered(v)
    BY <1>3 DEF PutBuffer
  <2>. HIDE DEF Delivered, Round
  <2>. QED
    BY <2>2, <2>3
<1>4. CASE PutSize(w)
  BY <1>4 DEF PutSize
<1>5. CASE LoadTarget(w)
  BY <1>5 DEF LoadTarget
<1>6. CASE CallRecv(w)
  <2>1. c' = c /\ wpc' = [wpc EXCEPT ![w] = "dump"] /\ wpc[w] = "call"
    BY <1>6 DEF CallRecv
  <2>2. ASSUME NEW v \in Workers, NEW r \in 1..Rounds
        PROVE  content'[v][r] = IF r <= Delivered(v)' THEN 1 ELSE 0
    <3>1. CASE v # w
      BY <1>6, <2>1, <3>1 DEF CallRecv
    <3>2. CASE v = w
      <4>1. Delivered(w) = Round(w) - 1 /\ Delivered(w)' = Round(w)
        BY <2>1
      <4>2. content'[w][r] = IF r = Round(w) THEN content[w][r] + 1
                                             ELSE content[w][r]
        BY <1>6, <1>0 DEF CallRecv
      <4>3. content[w][r] = IF r <= Delivered(w) THEN 1 ELSE 0
        BY DEF ContentInv
      <4>. HIDE DEF Delivered, Round
      <4>. QED
        BY <1>0, <2>1, <3>2, <4>1, <4>2, <4>3
    <3>. QED
      BY <3>1, <3>2
  <2>. QED
    BY <2>2
<1>7. CASE Dump(w)
  BY <1>7 DEF Dump
<1>8. CASE Detach(w)
  BY <1>8 DEF Detach
<1>. QED
  BY <1>1, <1>2, <1>3, <1>4, <1>5, <1>6, <1>7, <1>8 DEF WorkerStep

\* A thread's own record of being attached agrees with the VM until it ends.
LEMMA AttachWorker ==
  ASSUME TypeOK, CounterInv, AttachInv, NEW w \in Workers, WorkerStep(w)
  PROVE  AttachInv'
<1>. USE DEF TypeOK, WorkerPc, InNotify, Goto, CounterInv, AttachInv,
             uiVars, threadVars, dataVars
<1>1. CASE Loop(w)
  BY <1>1 DEF Loop
<1>2. CASE Attach(w)
  <2>1. CASE attached' = attached \cup {w} /\ wpc' = [wpc EXCEPT ![w] = "buffer"]
    BY <1>2, <2>1 DEF Attach
  <2>2. CASE attached' = attached /\ wpc' = [wpc EXCEPT ![w] = "failed"]
    BY <1>2, <2>2 DEF Attach
  <2>. QED
    BY <1>2, <2>1, <2>2 DEF Attach
<1>3. CASE PutBuffer(w)
  BY <1>3 DEF PutBuffer
<1>4. CASE PutSize(w)
  BY <1>4 DEF PutSize
<1>5. CASE LoadTarget(w)
  BY <1>5 DEF LoadTarget
<1>6. CASE CallRecv(w)
  BY <1>6 DEF CallRecv
<1>7. CASE Dump(w)
  BY <1>7 DEF Dump
<1>8. CASE Detach(w)
  BY <1>8 DEF Detach
<1>. QED
  BY <1>1, <1>2, <1>3, <1>4, <1>5, <1>6, <1>7, <1>8 DEF WorkerStep

\* Local references are made while attached, one pair per round.
LEMMA LocalsWorker ==
  ASSUME TypeOK, CounterInv, AttachInv, LocalsInv,
         NEW w \in Workers, WorkerStep(w)
  PROVE  LocalsInv'
<1>0. wpc[w] \in InNotify => Round(w) \in 1..Rounds
  BY RoundIsARound
<1>. USE <1>0 DEF TypeOK, WorkerPc, InNotify, Goto, AttachInv, LocalsInv,
                 uiVars, threadVars, dataVars
<1>a. ASSUME NEW v \in Workers, v # w
      PROVE  (v \in attached' <=> v \in attached) /\ locals'[v] = locals[v]
  BY <1>a DEF WorkerStep, Loop, Attach, PutBuffer, PutSize, LoadTarget,
              CallRecv, Dump, Detach
<1>b. ASSUME (w \notin attached' => locals'[w] = {}),
             locals'[w] \subseteq ArraysOf(w)
      PROVE  LocalsInv'
  BY <1>a, <1>b
<1>1. CASE Loop(w)
  BY <1>1 DEF Loop
<1>2. CASE Attach(w)
  BY <1>b, <1>2 DEF Attach
<1>3. CASE PutBuffer(w)
  <2>1. w \in attached /\ attached' = attached
    BY <1>3 DEF PutBuffer
  <2>2. locals'[w] = locals[w] \cup {BufferOf(w, Round(w))}
    BY <1>3 DEF PutBuffer
  <2>3. BufferOf(w, Round(w)) \in ArraysOf(w)
    BY <1>0, <1>3 DEF PutBuffer, ArraysOf
  <2>. QED
    BY <1>b, <2>1, <2>2, <2>3
<1>4. CASE PutSize(w)
  <2>1. w \in attached /\ attached' = attached
    BY <1>4 DEF PutSize
  <2>2. locals'[w] = locals[w] \cup {SizeOf(w, Round(w))}
    BY <1>4 DEF PutSize
  <2>3. SizeOf(w, Round(w)) \in ArraysOf(w)
    BY <1>0, <1>4 DEF PutSize, ArraysOf
  <2>. QED
    BY <1>b, <2>1, <2>2, <2>3
<1>5. CASE LoadTarget(w)
  BY <1>5 DEF LoadTarget
<1>6. CASE CallRecv(w)
  BY <1>6 DEF CallRecv
<1>7. CASE Dump(w)
  BY <1>7 DEF Dump
<1>8. CASE Detach(w)
  BY <1>b, <1>8 DEF Detach
<1>. QED
  BY <1>1, <1>2, <1>3, <1>4, <1>5, <1>6, <1>7, <1>8 DEF WorkerStep

-----------------------------------------------------------------------------
(* Set-up, heap and handles.                                               *)

\* What the UI thread has stored by the time it reaches a point of its code
\* stays stored, and it creates threads only once everything is stored.
LEMMA SetupUi ==
  ASSUME TypeOK, SetupInv, UiStep
  PROVE  SetupInv'
<1>. USE DEF TypeOK, UiPc, SetupInv, Created, Die, uiVars, threadVars, dataVars
<1>1. CASE JNI_OnLoad
  BY <1>1 DEF JNI_OnLoad
<1>2. CASE NativeInit
  <2>1. CASE Die
    BY <2>1
  <2>2. ASSUME ~Die
        PROVE  /\ ui = "init" /\ ui' = "launch"
               /\ assigned' = assigned \cup {"post_event", "card_clazz", "card_object"}
               /\ UNCHANGED <<setups, activity, mObject, globalRefs, wpc, seen>>
    BY <1>2, <2>2 DEF NativeInit
  <2>3. CASE ~Die
    BY <2>2, <2>3
  <2>. QED
    BY <2>1, <2>3
<1>3. CASE Launch
  BY <1>3 DEF Launch
<1>4. CASE SetupObject
  BY <1>4 DEF SetupObject
<1>5. CASE SetupMethods
  BY <1>5 DEF SetupMethods
<1>6. CASE Destroy
  BY <1>6 DEF Destroy
<1>7. CASE StartThread
  <2>1. /\ ui = "idle" /\ ui' = "increment"
        /\ UNCHANGED <<assigned, setups, activity, mObject, globalRefs>>
    BY <1>7 DEF StartThread
  <2>2. CASE UNCHANGED <<wpc, seen>>
    BY <2>1, <2>2
  <2>3. ASSUME NEW w \in Workers,
               wpc' = [wpc EXCEPT ![w] = "loop"],
               seen' = [seen EXCEPT ![w] = mObject]
        PROVE  SetupInv'
    BY <2>1, <2>3
  <2>. QED
    BY <2>2, <2>3, UiFrame
<1>8. CASE Increment
  BY <1>8 DEF Increment
<1>. QED
  BY <1>1, <1>2, <1>3, <1>4, <1>5, <1>6, <1>7, <1>8 DEF UiStep

\* A step of a native thread leaves the set of created threads and everything
\* of the UI thread as they are.
LEMMA WorkerFrame ==
  ASSUME TypeOK, NEW w \in Workers, WorkerStep(w)
  PROVE  UNCHANGED <<process, uiVars>> /\ Created' = Created
<1>. USE DEF TypeOK, Created, Goto
<1>1. CASE Loop(w)
  BY <1>1 DEF Loop
<1>2. CASE Attach(w)
  BY <1>2 DEF Attach
<1>3. CASE PutBuffer(w)
  BY <1>3 DEF PutBuffer
<1>4. CASE PutSize(w)
  BY <1>4 DEF PutSize
<1>5. CASE LoadTarget(w)
  BY <1>5 DEF LoadTarget
<1>6. CASE CallRecv(w)
  BY <1>6 DEF CallRecv
<1>7. CASE Dump(w)
  BY <1>7 DEF Dump
<1>8. CASE Detach(w)
  BY <1>8 DEF Detach
<1>. QED
  BY <1>1, <1>2, <1>3, <1>4, <1>5, <1>6, <1>7, <1>8 DEF WorkerStep

\* A thread only ever moves to a newer value of mObject.
LEMMA SetupWorker ==
  ASSUME TypeOK, SetupInv, NEW w \in Workers, WorkerStep(w)
  PROVE  SetupInv'
<1>1. UNCHANGED <<process, uiVars>> /\ Created' = Created
  BY WorkerFrame
<1>2. \/ seen' = seen
      \/ /\ wpc[w] = "target"
         /\ \E n \in seen[w]..mObject : seen' = [seen EXCEPT ![w] = n]
  BY DEF WorkerStep, Loop, Attach, PutBuffer, PutSize, LoadTarget, CallRecv,
         Dump, Detach
<1>3. CASE seen' = seen
  BY <1>1, <1>3 DEF SetupInv, uiVars
<1>4. CASE /\ wpc[w] = "target"
           /\ \E n \in seen[w]..mObject : seen' = [seen EXCEPT ![w] = n]
  <2>1. w \in Created
    BY <1>4 DEF Created
  <2>2. PICK n \in seen[w]..mObject : seen' = [seen EXCEPT ![w] = n]
    BY <1>4
  <2>3. n <= mObject /\ n # 0
    BY <2>1, <2>2 DEF SetupInv, TypeOK
  <2>. QED
    BY <1>1, <2>2, <2>3 DEF SetupInv, uiVars, TypeOK
<1>. QED
  BY <1>2, <1>3, <1>4

\* The UI thread drops no reference that keeps a JavaClass: a global reference
\* is never deleted, and a destroyed activity is no longer read.
LEMMA HeapUi ==
  ASSUME TypeOK, SetupInv, HeapInv, UiStep
  PROVE  HeapInv'
<1>. USE UiFrame DEF TypeOK, SetupInv, HeapInv, Die, uiVars, threadVars, dataVars
<1>1. CASE JNI_OnLoad
  BY <1>1 DEF JNI_OnLoad
<1>2. CASE NativeInit
  BY <1>2 DEF NativeInit
<1>3. CASE Launch
  BY <1>3 DEF Launch
<1>4. CASE SetupObject
  BY <1>4 DEF SetupObject
<1>5. CASE SetupMethods
  BY <1>5 DEF SetupMethods
<1>6. CASE Destroy
  BY <1>6 DEF Destroy
<1>7. CASE StartThread
  BY <1>7 DEF StartThread, Spawn
<1>8. CASE Increment
  BY <1>8 DEF Increment
<1>. QED
  BY <1>1, <1>2, <1>3, <1>4, <1>5, <1>6, <1>7, <1>8 DEF UiStep

\* A native thread refers only to arrays it has just put on the heap.
LEMMA HeapWorker ==
  ASSUME TypeOK, HeapInv, NEW w \in Workers, WorkerStep(w)
  PROVE  HeapInv'
<1>0. UNCHANGED <<process, uiVars>>
  BY WorkerFrame
<1>. USE <1>0 DEF TypeOK, HeapInv, uiVars, dataVars
<1>1. CASE UNCHANGED <<locals, card, heap>>
  BY <1>1
<1>2. CASE PutBuffer(w)
  BY <1>2 DEF PutBuffer
<1>3. CASE PutSize(w)
  BY <1>3 DEF PutSize
<1>4. CASE Detach(w)
  BY <1>4 DEF Detach
<1>. QED
  BY <1>1, <1>2, <1>3, <1>4
     DEF WorkerStep, Loop, Attach, LoadTarget, CallRecv, Dump

\* The collector frees nothing a reference keeps.
LEMMA HeapCollect ==
  ASSUME TypeOK, HeapInv, SetupInv, Collect
  PROVE  HeapInv'
  BY DEF TypeOK, HeapInv, SetupInv, Collect, Reachable, uiVars, threadVars

\* As long as the clicks fit in pt, the slot that a click writes is new, so
\* no earlier handle is lost.
LEMMA HandlesUi ==
  ASSUME TypeOK, SetupInv, HandlesKept, UiStep
  PROVE  HandlesKept'
<1>. USE DEF TypeOK, UiPc, HandlesKept, Created, Die, uiVars, threadVars, dataVars
<1>1. CASE JNI_OnLoad
  BY <1>1 DEF JNI_OnLoad
<1>2. CASE NativeInit
  BY <1>2 DEF NativeInit
<1>3. CASE Launch
  BY <1>3 DEF Launch
<1>4. CASE SetupObject
  BY <1>4 DEF SetupObject
<1>5. CASE SetupMethods
  BY <1>5 DEF SetupMethods
<1>6. CASE Destroy
  BY <1>6 DEF Destroy
<1>7. CASE StartThread
  <2>. SUFFICES ASSUME clicks' <= NumThreads
                PROVE  /\ thread_count' = clicks' - 1
                       /\ \A v \in Created' : \E i \in 0..(clicks' - 1) : pt'[i] = v
    BY <1>7 DEF StartThread
  <2>1. clicks' = clicks + 1 /\ thread_count = clicks /\ thread_count \in Slots
    BY <1>7 DEF StartThread, Slots
  <2>2. CASE UNCHANGED <<process, thread_count, pt, threadVars, dataVars>>
    BY <2>1, <2>2
  <2>3. ASSUME NEW w \in Workers, Spawn(w), StoreHandle(w)
        PROVE  /\ thread_count' = clicks' - 1
               /\ \A v \in Created' : \E i \in 0..(clicks' - 1) : pt'[i] = v
    <3>1. thread_count' = thread_count /\ pt' = [pt EXCEPT ![thread_count] = w]
      BY <2>1, <2>3 DEF StoreHandle
    <3>2. Created' = Created \cup {w}
      BY <2>3 DEF Spawn
    <3>3. pt'[clicks] = w
      BY <2>1, <3>1
    <3>4. \A v \in Created : \E i \in 0..(clicks - 1) : pt'[i] = v
      BY <2>1, <3>1 DEF Slots
    <3>. QED
      BY <2>1, <3>1, <3>2, <3>3, <3>4
  <2>. QED
    BY <1>7, <2>2, <2>3 DEF StartThread
<1>8. CASE Increment
  BY <1>8 DEF Increment
<1>. QED
  BY <1>1, <1>2, <1>3, <1>4, <1>5, <1>6, <1>7, <1>8 DEF UiStep

-----------------------------------------------------------------------------
(* The invariant holds.                                                    *)

\* Before the library is loaded the invariant holds: no thread, no reference.
LEMMA InitInv == Init => TypeOK /\ IInv
<1>. SUFFICES ASSUME Init PROVE TypeOK /\ IInv
  OBVIOUS
<1>. USE DEF Init
<1>1. TypeOK
  BY DEF TypeOK, UiPc, WorkerPc, Slots
<1>2. CounterInv /\ ContentInv /\ AttachInv /\ LocalsInv
  BY DEF CounterInv, ContentInv, AttachInv, LocalsInv, Delivered, InNotify
<1>3. SetupInv /\ HeapInv /\ HandlesKept
  BY DEF SetupInv, HeapInv, HandlesKept, Created
<1>. QED
  BY <1>1, <1>2, <1>3 DEF IInv

\* Every step preserves the type invariant and all parts of IInv together:
\* the parts need each other's facts about the state before the step.
LEMMA NextInv == TypeOK /\ IInv /\ [Next]_vars => TypeOK' /\ IInv'
<1>. SUFFICES ASSUME TypeOK, IInv, [Next]_vars
              PROVE  TypeOK' /\ IInv'
  OBVIOUS
<1>. USE DEF IInv
<1>1. CASE UiStep
  BY <1>1, TypeUi, ThreadsUi, SetupUi, HeapUi, HandlesUi
<1>2. ASSUME NEW w \in Workers, WorkerStep(w)
      PROVE  TypeOK' /\ IInv'
  <2>1. TypeOK' /\ CounterInv' /\ ContentInv' /\ AttachInv' /\ LocalsInv'
    BY <1>2, TypeWorker, CounterWorker, ContentWorker, AttachWorker, LocalsWorker
  <2>2. SetupInv' /\ HeapInv'
    BY <1>2, SetupWorker, HeapWorker
  <2>3. HandlesKept'
    BY <1>2, WorkerFrame DEF HandlesKept, uiVars
  <2>. QED
    BY <2>1, <2>2, <2>3
<1>3. CASE Collect
  <2>1. HeapInv'
    BY <1>3, HeapCollect
  <2>2. TypeOK'
    BY <1>3 DEF Collect, TypeOK, uiVars, threadVars
  <2>3. CounterInv' /\ ContentInv' /\ AttachInv' /\ LocalsInv'
    BY <1>3 DEF Collect, CounterInv, ContentInv, AttachInv, LocalsInv, Delivered,
                uiVars, threadVars
  <2>4. SetupInv' /\ HandlesKept'
    BY <1>3 DEF Collect, SetupInv, HandlesKept, Created, uiVars, threadVars
  <2>. QED
    BY <2>1, <2>2, <2>3, <2>4
<1>4. CASE UNCHANGED vars
  <2>. USE <1>4 DEF vars, uiVars, threadVars, dataVars
  <2>1. TypeOK'
    BY DEF TypeOK
  <2>2. CounterInv' /\ ContentInv' /\ AttachInv' /\ LocalsInv'
    BY DEF CounterInv, ContentInv, AttachInv, LocalsInv, Delivered
  <2>3. SetupInv' /\ HeapInv' /\ HandlesKept'
    BY DEF SetupInv, HeapInv, HandlesKept, Created
  <2>. QED
    BY <2>1, <2>2, <2>3
<1>. QED
  BY <1>1, <1>2, <1>3, <1>4 DEF Next, RunWorker

\* The inductive invariant holds in every reachable state of the program, for
\* any number of threads, rounds, slots, activities and clicks.
THEOREM Invariance == Spec => [](TypeOK /\ IInv)
  BY InitInv, NextInv, PTL DEF Spec

\* Every variable stays in its type.
THEOREM TypeCorrect == Spec => []TypeOK
  BY Invariance, PTL

\* A native thread runs only after the globals it reads were stored.
THEOREM GlobalsBeforeThreads == Spec => []WorkersSeeGlobals
<1>1. TypeOK /\ IInv => WorkersSeeGlobals
  BY DEF IInv, SetupInv, WorkersSeeGlobals, TypeOK, UiPc, Created
<1>. QED
  BY <1>1, Invariance, PTL

\* No raw reference a thread, mObject or card_object holds dangles.
THEOREM ReferencesLive == Spec => []NoDanglingReference
<1>1. TypeOK /\ IInv => NoDanglingReference
  BY DEF IInv, SetupInv, HeapInv, NoDanglingReference, TypeOK, Created, WorkerPc
<1>. QED
  BY <1>1, Invariance, PTL

\* No thread's recv reaches another thread's array.
THEOREM BuffersPrivate == Spec => []BufferPrivate
<1>1. ASSUME TypeOK, IInv PROVE BufferPrivate
  <2>. SUFFICES ASSUME NEW w \in Workers, wpc[w] \in InNotify
                PROVE  /\ wpc[w] \in {"size", "target", "call"} => content[w][Round(w)] = 0
                       /\ wpc[w] = "dump" => content[w][Round(w)] = 1
    BY DEF BufferPrivate, InNotify
  <2>1. Round(w) \in 1..Rounds
    BY <1>1, RoundIsARound DEF IInv
  <2>2. content[w][Round(w)] = IF Round(w) <= Delivered(w) THEN 1 ELSE 0
    BY <1>1, <2>1 DEF IInv, ContentInv
  <2>3. c[w] \in Int
    BY <1>1 DEF TypeOK
  <2>. QED
    BY <2>1, <2>2, <2>3 DEF Round, Delivered, InNotify
<1>. QED
  BY <1>1, Invariance, PTL

\* The first NumThreads clicks lose no thread handle.
THEOREM HandlesAreKept == Spec => []HandlesKept
<1>1. IInv => HandlesKept
  BY DEF IInv
<1>. QED
  BY <1>1, Invariance, PTL

\* The arrays of one thread number two per round.
LEMMA ArraysPerThread ==
  ASSUME NEW w \in Workers
  PROVE  IsFiniteSet(ArraysOf(w)) /\ Cardinality(ArraysOf(w)) <= 2 * Rounds
<1>. DEFINE f == [i \in 1..(2 * Rounds) |->
                    IF i <= Rounds THEN BufferOf(w, i) ELSE SizeOf(w, i - Rounds)]
<1>1. f \in [1..(2 * Rounds) -> ArraysOf(w)]
  BY DEF ArraysOf
<1>2. ASSUME NEW a \in ArraysOf(w)
      PROVE  \E i \in 1..(2 * Rounds) : f[i] = a
  <2>1. CASE \E r \in 1..Rounds : a = BufferOf(w, r)
    BY <2>1
  <2>2. ASSUME NEW r \in 1..Rounds, a = SizeOf(w, r)
        PROVE  \E i \in 1..(2 * Rounds) : f[i] = a
    <3>1. Rounds + r \in 1..(2 * Rounds) /\ ~(Rounds + r <= Rounds)
          /\ (Rounds + r) - Rounds = r
      OBVIOUS
    <3>2. f[Rounds + r] = SizeOf(w, r)
      BY <3>1
    <3>. QED
      BY <2>2, <3>1, <3>2
  <2>. QED
    BY <2>1, <2>2 DEF ArraysOf
<1>3. f \in Surjection(1..(2 * Rounds), ArraysOf(w))
  <2>. HIDE DEF f
  <2>. QED
    BY <1>1, <1>2 DEF Surjection
<1>4. IsFiniteSet(1..(2 * Rounds)) /\ Cardinality(1..(2 * Rounds)) = 2 * Rounds
  BY FS_Interval
<1>. HIDE DEF f
<1>. QED
  BY <1>3, <1>4, FS_Surjection

\* A thread that returned is detached and holds no local reference; no thread
\* ever holds more than two per round.
THEOREM ThreadsExitDetached == Spec => []ExitsDetached
<1>1. ASSUME TypeOK, IInv PROVE ExitsDetached
  <2>. SUFFICES ASSUME NEW w \in Workers
                PROVE  /\ wpc[w] \in {"done", "failed"} =>
                             w \notin attached /\ locals[w] = {}
                       /\ Cardinality(locals[w]) <= 2 * Rounds
    BY DEF ExitsDetached
  <2>1. wpc[w] \in {"done", "failed"} => w \notin attached /\ locals[w] = {}
    BY <1>1 DEF IInv, AttachInv, LocalsInv, InNotify
  <2>2. locals[w] \in SUBSET ArraysOf(w)
    BY <1>1 DEF IInv, LocalsInv
  <2>3. /\ IsFiniteSet(ArraysOf(w)) /\ Cardinality(ArraysOf(w)) <= 2 * Rounds
        /\ IsFiniteSet(locals[w])
        /\ Cardinality(locals[w]) <= Cardinality(ArraysOf(w))
    BY <2>2, ArraysPerThread, FS_Subset
  <2>4. Cardinality(locals[w]) \in Nat /\ Cardinality(ArraysOf(w)) \in Nat
    BY <2>3, FS_CardinalityType
  <2>. QED
    BY <2>1, <2>3, <2>4
<1>. QED
  BY <1>1, Invariance, PTL

-----------------------------------------------------------------------------
(* The threads implement the abstract jobs.                                *)

\* Before the library is loaded every job is idle and has delivered nothing.
LEMMA JobsInitially == Init => Jobs!JobsInit
  BY DEF Init, Jobs!JobsInit, JobStatus

\* A step of a thread starts nothing: it delivers its next round, ends the job
\* after the last round, abandons it before the first, or is invisible.
LEMMA JobsWorker ==
  ASSUME TypeOK, IInv, NEW w \in Workers, WorkerStep(w)
  PROVE  [Jobs!JobsNext]_(Jobs!jobVars)
<1>. USE DEF TypeOK, Jobs!jobVars
<1>a. wpc[w] # "none" => JobStatus[w] = IF wpc[w] \in {"done", "failed"} THEN wpc[w] ELSE "active"
  BY DEF JobStatus
<1>b. ASSUME NEW to \in {"loop", "buffer", "attach", "detach", "size", "target", "call", "dump"},
             wpc' = [wpc EXCEPT ![w] = to], content' = content,
             wpc[w] \notin {"none", "done", "failed"}
      PROVE  UNCHANGED Jobs!jobVars
  BY <1>b DEF JobStatus
<1>1. CASE Loop(w)
  BY <1>1, <1>b DEF Loop, Goto, dataVars
<1>2. CASE Attach(w)
  <2>1. CASE wpc' = [wpc EXCEPT ![w] = "buffer"]
    BY <1>2, <2>1, <1>b DEF Attach, dataVars
  <2>2. CASE wpc' = [wpc EXCEPT ![w] = "failed"]
    <3>1. /\ JobStatus' = [JobStatus EXCEPT ![w] = "failed"]
          /\ JobStatus[w] = "active" /\ content' = content
      BY <1>2, <2>2 DEF Attach, dataVars, JobStatus
    <3>2. Delivered(w) = 0
      BY <1>2 DEF Attach, IInv, CounterInv, Delivered
    <3>3. \A r \in 1..Rounds : content[w][r] = 0
      BY <3>2 DEF IInv, ContentInv
    <3>. QED
      BY <3>1, <3>3 DEF Jobs!JobsNext, Jobs!Abandon
  <2>. QED
    BY <1>2, <2>1, <2>2 DEF Attach, Goto
<1>3. CASE PutBuffer(w)
  <2>1. Round(w) \in 1..Rounds /\ content[w][Round(w)] = 0
    <3>1. Round(w) \in 1..Rounds
      BY <1>3, RoundIsARound DEF PutBuffer, IInv, InNotify
    <3>2. ~(Round(w) <= Delivered(w))
      BY <1>3 DEF PutBuffer, Delivered, Round
    <3>. QED
      BY <3>1, <3>2 DEF IInv, ContentInv
  <2>2. content' = content
    BY <1>3, <2>1 DEF PutBuffer
  <2>. QED
    BY <1>3, <2>2, <1>b DEF PutBuffer, Goto
<1>4. CASE PutSize(w)
  BY <1>4, <1>b DEF PutSize, Goto
<1>5. CASE LoadTarget(w)
  BY <1>5, <1>b DEF LoadTarget, Goto, dataVars
<1>6. CASE CallRecv(w)
  <2>1. Round(w) \in 1..Rounds /\ Delivered(w) = Round(w) - 1
    BY <1>6, RoundIsARound DEF CallRecv, IInv, InNotify, Delivered, Round
  <2>2. \A q \in 1..Rounds : content[w][q] = IF q < Round(w) THEN 1 ELSE 0
    BY <2>1 DEF IInv, ContentInv
  <2>3. content' = [content EXCEPT ![w][Round(w)] = 1]
    <3>1. content[w][Round(w)] + 1 = 1
      BY <2>1, <2>2
    <3>. HIDE DEF TypeOK
    <3>. QED
      BY <1>6, <3>1 DEF CallRecv
  <2>4. JobStatus[w] = "active" /\ JobStatus' = JobStatus
    BY <1>6 DEF CallRecv, Goto, JobStatus
  <2>. QED
    BY <2>1, <2>2, <2>3, <2>4 DEF Jobs!JobsNext, Jobs!Deliver
<1>7. CASE Dump(w)
  BY <1>7, <1>b DEF Dump, Goto, dataVars
<1>8. CASE Detach(w)
  <2>1. /\ JobStatus' = [JobStatus EXCEPT ![w] = "done"]
        /\ JobStatus[w] = "active" /\ content' = content
    BY <1>8 DEF Detach, Goto, JobStatus
  <2>2. Delivered(w) = Rounds
    BY <1>8 DEF Detach, IInv, CounterInv, Delivered
  <2>3. \A r \in 1..Rounds : content[w][r] = 1
    BY <2>2 DEF IInv, ContentInv
  <2>. QED
    BY <2>1, <2>3 DEF Jobs!JobsNext, Jobs!Finish
<1>. QED
  BY <1>1, <1>2, <1>3, <1>4, <1>5, <1>6, <1>7, <1>8 DEF WorkerStep

\* The UI thread submits a job when pthread_create succeeds, and does nothing
\* else to the jobs.
LEMMA JobsUi ==
  ASSUME TypeOK, UiStep
  PROVE  [Jobs!JobsNext]_(Jobs!jobVars)
<1>1. content' = content
  BY UiFrame
<1>2. CASE wpc' = wpc
  BY <1>1, <1>2 DEF Jobs!jobVars, JobStatus
<1>3. ASSUME NEW w \in Workers, wpc[w] = "none", wpc' = [wpc EXCEPT ![w] = "loop"]
      PROVE  Jobs!Submit(w)
  BY <1>1, <1>3 DEF TypeOK, Jobs!Submit, JobStatus
<1>. QED
  BY <1>2, <1>3, UiFrame DEF Jobs!JobsNext

\* Every behaviour of the program is a behaviour of the abstract jobs: all
\* callbacks in order and once, or none at all.
THEOREM ThreadsImplementJobs == Spec => ImplementsJobs
<1>1. TypeOK /\ IInv /\ [Next]_vars => [Jobs!JobsNext]_(Jobs!jobVars)
  <2>. SUFFICES ASSUME TypeOK, IInv, [Next]_vars
                PROVE  [Jobs!JobsNext]_(Jobs!jobVars)
    OBVIOUS
  <2>1. CASE Collect \/ UNCHANGED vars
    BY <2>1 DEF Collect, vars, uiVars, threadVars, dataVars, Jobs!jobVars, JobStatus
  <2>. QED
    BY <2>1, JobsUi, JobsWorker DEF Next, RunWorker
<1>. QED
  BY <1>1, JobsInitially, Invariance, PTL DEF Spec, ImplementsJobs, Jobs!JobsSpec
=============================================================================
