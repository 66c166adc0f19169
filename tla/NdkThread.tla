----------------------------- MODULE NdkThread -----------------------------
(***************************************************************************)
(* The built program: the UI thread of MainActivity, which loads the       *)
(* native library, builds a NativeClass per activity and starts one native *)
(* thread per click (native-lib.cpp, NativeClass.java, MainActivity.kt),   *)
(* and those threads, each of which attaches to the VM, runs notify() once *)
(* per round and detaches.                                                 *)
(*                                                                         *)
(* The globals of native-lib.cpp are shared without a lock.  A step is one *)
(* access to them, or one call that another thread can observe; code       *)
(* between two such points is one step.  The garbage collector is a third  *)
(* actor: it frees whatever no reference keeps, so that a raw jobject held *)
(* by a thread can be seen to dangle.                                      *)
(***************************************************************************)
EXTENDS Integers, FiniteSets

CONSTANTS
  Workers,     \* the native threads that pthread_create may yield
  NumThreads,  \* NUMTHREADS, the length of pt
  Rounds,      \* the initial c of thread_fun
  MaxSetups,   \* bound: activities (hence NativeClass objects) created
  MaxClicks,   \* bound: calls of start_thread
  Clobbered,   \* what thread_count may hold after a store behind pt
  None         \* no thread, no array

Transmit(n) == <<"transmit", n>>            \* the JavaClass of the n-th setup
BufferOf(w, r) == <<"buffer", w, r>>        \* byte[20] that w made in round r
SizeOf(w, r) == <<"size", w, r>>            \* int[1] that w made in round r
Buffers == {BufferOf(w, r) : w \in Workers, r \in 1..Rounds}
Sizes == {SizeOf(w, r) : w \in Workers, r \in 1..Rounds}
Objects == {Transmit(n) : n \in 1..MaxSetups} \cup Buffers \cup Sizes

ASSUME NdkThreadAssumption ==
  /\ NumThreads \in Nat \ {0}
  /\ Rounds \in Nat \ {0}
  /\ MaxSetups \in Nat
  /\ MaxClicks \in Nat
  /\ Clobbered \subseteq Int
  /\ None \notin Workers
  /\ None \notin Objects

VARIABLES
  process,       \* "running", or "dead" after an uncaught error
  ui,            \* where the UI thread stands
  assigned,      \* the globals that hold a value (the rest are still zero)
  setups,        \* NativeClass objects constructed so far
  activity,      \* the setup the live activity belongs to, 0 if none
  mObject,       \* the setup whose JavaClass mObject names, 0 if none
  globalRefs,    \* setups whose JavaClass a JNI global reference holds
  clicks,        \* calls of start_thread so far (bounded by MaxClicks)
  thread_count,
  pt,            \* the thread handles
  wpc,           \* where each native thread stands
  c,             \* its loop counter
  attached,      \* the native threads the VM knows
  isAttached,    \* each thread's own record of that
  seen,          \* the newest setup each thread must have seen in mObject
  locals,        \* each attached thread's JNI local references
  card,          \* the fields of the shared CommData object
  content,       \* content[w][r]: times recv rewrote BufferOf(w, r)
  heap           \* the Java objects not yet collected

uiVars == <<ui, assigned, setups, activity, mObject, globalRefs, clicks,
            thread_count, pt>>
threadVars == <<wpc, c, attached, isAttached, seen>>
dataVars == <<locals, card, content, heap>>
vars == <<process, uiVars, threadVars, dataVars>>

Slots == 0..(NumThreads - 1)
Globals == {"sVm", "post_event", "card_clazz", "card_object",
            "send_envent", "recv_envent"}
UiPc == {"load", "init", "launch", "setupObject", "setupMethods", "idle",
         "increment"}
InNotify == {"buffer", "size", "target", "call", "dump"}
WorkerPc == {"none", "loop", "attach", "detach", "done", "failed"} \cup InNotify

Init ==
  /\ process = "running"
  /\ ui = "load"
  /\ assigned = {}
  /\ setups = 0
  /\ activity = 0
  /\ mObject = 0
  /\ globalRefs = {}
  /\ clicks = 0
  /\ thread_count = 0
  /\ pt = [i \in Slots |-> None]
  /\ wpc = [w \in Workers |-> "none"]
  /\ c = [w \in Workers |-> Rounds]
  /\ attached = {}
  /\ isAttached = [w \in Workers |-> FALSE]
  /\ seen = [w \in Workers |-> 0]
  /\ locals = [w \in Workers |-> {}]
  /\ card = [buffer |-> None, size |-> None]
  /\ content = [w \in Workers |-> [r \in 1..Rounds |-> 0]]
  /\ heap = {}

-----------------------------------------------------------------------------
(* The UI thread.                                                          *)

\* An exception nobody catches, or a fault, ends the whole process.
Die ==
  /\ process' = "dead"
  /\ UNCHANGED <<uiVars, threadVars, dataVars>>

\* System.loadLibrary in the static initialiser runs JNI_OnLoad.
JNI_OnLoad ==
  /\ ui = "load"
  /\ assigned' = assigned \cup {"sVm"}
  /\ ui' = "init"
  /\ UNCHANGED <<process, setups, activity, mObject, globalRefs, clicks,
                 thread_count, pt, threadVars, dataVars>>

\* native_init.  When FindClass fails it returns early with the exception
\* pending; the static initialiser then fails, and with it the process.
NativeInit ==
  /\ ui = "init"
  /\ \/ /\ assigned' = assigned \cup {"post_event", "card_clazz", "card_object"}
        /\ ui' = "launch"
        /\ UNCHANGED <<process, setups, activity, mObject, globalRefs, clicks,
                       thread_count, pt, threadVars, dataVars>>
     \/ Die

\* A MainActivity is instantiated; its NativeClass makes a new JavaClass.
Launch ==
  /\ ui = "launch"
  /\ setups < MaxSetups
  /\ setups' = setups + 1
  /\ activity' = setups + 1
  /\ heap' = heap \cup {Transmit(setups + 1)}
  /\ ui' = "setupObject"
  /\ UNCHANGED <<process, assigned, mObject, globalRefs, clicks, thread_count,
                 pt, threadVars, locals, card, content>>

\* native_setup up to the store of mObject.  The previous global reference
\* stays: nothing ever deletes one.
OnlyNewRef == {activity}  \* fault: the previous reference is deleted
KeptRefs == globalRefs \cup {activity}

TooSoon == "idle"  \* fault: the click listener works before the method ids
MethodsNext == "setupMethods"

SetupObject ==
  /\ ui = "setupObject"
  /\ globalRefs' = KeptRefs
  /\ mObject' = activity
  /\ ui' = MethodsNext
  /\ UNCHANGED <<process, assigned, setups, activity, clicks, thread_count, pt,
                 threadVars, dataVars>>

\* The rest of native_setup, up to the click listener of onCreate.  If
\* FindClass fails the constructor throws.
SetupMethods ==
  /\ ui = "setupMethods"
  /\ \/ /\ assigned' = assigned \cup {"send_envent", "recv_envent"}
        /\ ui' = "idle"
        /\ UNCHANGED <<process, setups, activity, mObject, globalRefs, clicks,
                       thread_count, pt, threadVars, dataVars>>
     \/ Die

\* The activity is destroyed (rotation, back); a new one may be launched.
Destroy ==
  /\ ui = "idle"
  /\ activity' = 0
  /\ ui' = "launch"
  /\ UNCHANGED <<process, assigned, setups, mObject, globalRefs, clicks,
                 thread_count, pt, threadVars, dataVars>>

\* The new thread is in thread_fun; it sees at least the current mObject,
\* because pthread_create orders what came before it.
Spawn(w) ==
  /\ wpc[w] = "none"
  /\ wpc' = [wpc EXCEPT ![w] = "loop"]
  /\ seen' = [seen EXCEPT ![w] = mObject]
  /\ UNCHANGED <<c, attached, isAttached, dataVars>>

\* pthread_create(&pt[thread_count], ...): the store of the handle.  An index
\* outside pt is undefined: the store hits memory nothing reads, or
\* thread_count, which follows pt, or an unmapped page.
StoreHandle(w) ==
  \/ /\ thread_count \in Slots
     /\ pt' = [pt EXCEPT ![thread_count] = w]
     /\ UNCHANGED <<process, thread_count>>
  \/ /\ thread_count \notin Slots
     /\ thread_count' \in {thread_count} \cup Clobbered
     /\ UNCHANGED <<process, pt>>
  \/ /\ thread_count \notin Slots
     /\ process' = "dead"
     /\ UNCHANGED <<thread_count, pt>>

\* start_thread, first half.  The result of pthread_create is ignored.
StartThread ==
  /\ ui = "idle"
  /\ clicks < MaxClicks
  /\ clicks' = clicks + 1
  /\ ui' = "increment"
  /\ \/ \E w \in Workers : Spawn(w) /\ StoreHandle(w)
     \/ UNCHANGED <<process, thread_count, pt, threadVars, dataVars>>
  /\ UNCHANGED <<assigned, setups, activity, mObject, globalRefs>>

\* start_thread, second half: thread_count++, not atomic with the creation.
SameSlot == thread_count  \* fault: the next click uses the slot again
NextSlot == thread_count + 1

Increment ==
  /\ ui = "increment"
  /\ thread_count' = NextSlot
  /\ ui' = "idle"
  /\ UNCHANGED <<process, assigned, setups, activity, mObject, globalRefs,
                 clicks, pt, threadVars, dataVars>>

UiStep ==
  \/ JNI_OnLoad
  \/ NativeInit
  \/ Launch
  \/ SetupObject
  \/ SetupMethods
  \/ Destroy
  \/ StartThread
  \/ Increment

-----------------------------------------------------------------------------
(* A native thread.                                                        *)

Round(w) == Rounds - c[w]   \* the round w is in, once c-- was evaluated

Goto(w, to) == wpc' = [wpc EXCEPT ![w] = to]

\* while (c--), then GetEnv, which succeeds on an attached thread.
OneMoreRound(w) == c[w] < 0  \* fault: while (c-- >= 0)
LoopEnds(w) == c[w] = 0

NotCounted(w) == c[w]  \* fault: while (c)
Counted(w) == c[w] - 1

Loop(w) ==
  /\ wpc[w] = "loop"
  /\ c' = [c EXCEPT ![w] = Counted(w)]
  /\ Goto(w, IF LoopEnds(w) THEN "detach"
             ELSE IF w \in attached THEN "buffer" ELSE "attach")
  /\ UNCHANGED <<process, uiVars, attached, isAttached, seen, dataVars>>

\* AttachCurrentThread; on failure the thread returns at once.
SkipsRound == "loop"  \* fault: it tries again in the next round
GivesUp == "failed"

Attach(w) ==
  /\ wpc[w] = "attach"
  /\ \/ /\ attached' = attached \cup {w}
        /\ isAttached' = [isAttached EXCEPT ![w] = TRUE]
        /\ Goto(w, "buffer")
     \/ /\ Goto(w, GivesUp)
        /\ UNCHANGED <<attached, isAttached>>
  /\ UNCHANGED <<process, uiVars, c, seen, dataVars>>

\* notify: a new byte[20] holding 0..19 goes into card_object.buffer.
PutBuffer(w) ==
  LET b == BufferOf(w, Round(w)) IN
  /\ wpc[w] = "buffer"
  /\ heap' = heap \cup {b}
  /\ locals' = [locals EXCEPT ![w] = @ \cup {b}]
  /\ content' = [content EXCEPT ![w][Round(w)] = 0]
  /\ card' = [card EXCEPT !.buffer = b]
  /\ Goto(w, "size")
  /\ UNCHANGED <<process, uiVars, c, attached, isAttached, seen>>

\* notify: a new int[1] holding 20 goes into card_object.size.
PutSize(w) ==
  LET s == SizeOf(w, Round(w)) IN
  /\ wpc[w] = "size"
  /\ heap' = heap \cup {s}
  /\ locals' = [locals EXCEPT ![w] = @ \cup {s}]
  /\ card' = [card EXCEPT !.size = s]
  /\ Goto(w, "target")
  /\ UNCHANGED <<process, uiVars, c, attached, isAttached, seen, content>>

\* notify reads mObject while native_setup may be storing it: the thread gets
\* the current value or an older one it was not yet obliged to see.
LoadTarget(w) ==
  /\ wpc[w] = "target"
  /\ \E n \in seen[w]..mObject : seen' = [seen EXCEPT ![w] = n]
  /\ Goto(w, "call")
  /\ UNCHANGED <<process, uiVars, c, attached, isAttached, dataVars>>

\* CallIntMethod(mObject, recv_envent, pBufferArray, 20): JavaClass.recv adds
\* 100 to the first ten bytes of the array it is given.
SharedCallRecv(w) ==  \* fault: pass card_object.buffer, not the local array
  /\ wpc[w] = "call"
  /\ content' = [content EXCEPT ![card.buffer[2]][card.buffer[3]] = @ + 1]
  /\ Goto(w, "dump")
  /\ UNCHANGED <<process, uiVars, c, attached, isAttached, seen, locals, card,
                 heap>>

CallRecv(w) ==
  /\ wpc[w] = "call"
  /\ content' = [content EXCEPT ![w][Round(w)] = @ + 1]
  /\ Goto(w, "dump")
  /\ UNCHANGED <<process, uiVars, c, attached, isAttached, seen, locals, card,
                 heap>>

\* The rest of notify: the two arrays are read, logged and released.
Dump(w) ==
  /\ wpc[w] = "dump"
  /\ Goto(w, "loop")
  /\ UNCHANGED <<process, uiVars, c, attached, isAttached, seen, dataVars>>

\* DetachCurrentThread frees the local references of the thread; it returns.
StayAttached(w) == UNCHANGED <<attached, locals>>  \* fault: it just returns
DetachCurrentThread(w) ==
  /\ attached' = attached \ {w}
  /\ locals' = [locals EXCEPT ![w] = {}]

Detach(w) ==
  /\ wpc[w] = "detach"
  /\ \/ isAttached[w] /\ DetachCurrentThread(w)
     \/ ~isAttached[w] /\ UNCHANGED <<attached, locals>>
  /\ Goto(w, "done")
  /\ UNCHANGED <<process, uiVars, c, isAttached, seen, card, content, heap>>

WorkerStep(w) ==
  \/ Loop(w)
  \/ Attach(w)
  \/ PutBuffer(w)
  \/ PutSize(w)
  \/ LoadTarget(w)
  \/ CallRecv(w)
  \/ Dump(w)
  \/ Detach(w)

-----------------------------------------------------------------------------
(* The VM.                                                                 *)

\* What a collection keeps: the JavaClass of the live activity, global and
\* local references, and the fields of card_object (itself a global reference).
Reachable ==
  {Transmit(n) : n \in globalRefs \cup {activity}}
    \cup {card.buffer, card.size}
    \cup UNION {locals[w] : w \in Workers}

Collect ==
  /\ ~ heap \subseteq Reachable
  /\ heap' = heap \cap Reachable
  /\ UNCHANGED <<process, uiVars, threadVars, locals, card, content>>

-----------------------------------------------------------------------------

RunWorker(w) == process = "running" /\ WorkerStep(w)

Next ==
  \/ process = "running" /\ UiStep
  \/ \E w \in Workers : RunWorker(w)
  \/ process = "running" /\ Collect

Spec == Init /\ [][Next]_vars

\* The kernel schedules every created thread; nothing in thread_fun blocks.
FairSpec == Spec /\ \A w \in Workers : WF_vars(RunWorker(w))

-----------------------------------------------------------------------------
(* Properties.                                                             *)

\* Every variable stays in its type; in particular the loop counter of
\* thread_fun never passes -1 and no array is named that was never made.
TypeOK ==
  /\ process \in {"running", "dead"}
  /\ ui \in UiPc
  /\ assigned \subseteq Globals
  /\ setups \in 0..MaxSetups
  /\ activity \in 0..setups
  /\ mObject \in 0..setups
  /\ globalRefs \subseteq 1..setups
  /\ clicks \in 0..MaxClicks
  /\ thread_count \in Int
  /\ pt \in [Slots -> Workers \cup {None}]
  /\ wpc \in [Workers -> WorkerPc]
  /\ c \in [Workers -> -1..Rounds]
  /\ attached \subseteq Workers
  /\ isAttached \in [Workers -> BOOLEAN]
  /\ seen \in [Workers -> 0..MaxSetups]
  /\ locals \in [Workers -> SUBSET (Buffers \cup Sizes)]
  /\ card \in [buffer : Buffers \cup {None}, size : Sizes \cup {None}]
  /\ content \in [Workers -> [1..Rounds -> Nat]]
  /\ heap \subseteq Objects

Created == {w \in Workers : wpc[w] # "none"}

\* A native thread runs only when every global it will read has been stored:
\* sVm, the CommData class and object, the recv method id and mObject.  The
\* order of static initialiser, constructor and click listener guarantees it;
\* thread_fun and notify check none of them.
WorkersSeeGlobals ==
  Created # {} =>
    /\ {"sVm", "card_clazz", "card_object", "recv_envent"} \subseteq assigned
    /\ \A w \in Created : seen[w] # 0

\* No raw reference dangles, whatever the collector does while a new activity
\* replaces mObject: the JavaClass a thread is about to call, the one mObject
\* names, the arrays in local references and those in card_object all live.
NoDanglingReference ==
  /\ mObject # 0 => Transmit(mObject) \in heap
  /\ \A w \in Workers :
       /\ wpc[w] = "call" => Transmit(seen[w]) \in heap
       /\ locals[w] \subseteq heap
  /\ {card.buffer, card.size} \ {None} \subseteq heap

\* Although every array is published in the shared card_object, no other
\* thread's recv touches it: between its creation and the call it holds the
\* initial pattern, and when notify dumps it exactly one recv was applied.
BufferPrivate ==
  \A w \in Workers :
    /\ wpc[w] \in {"size", "target", "call"} => content[w][Round(w)] = 0
    /\ wpc[w] = "dump" => content[w][Round(w)] = 1

\* A thread that has returned is not attached (the VM aborts a process whose
\* thread exits attached) and holds no local references; one still running
\* holds at most the two arrays of each round, fewer than the frame's 16.
ExitsDetached ==
  \A w \in Workers :
    /\ wpc[w] \in {"done", "failed"} => w \notin attached /\ locals[w] = {}
    /\ Cardinality(locals[w]) <= 2 * Rounds

\* Within NUMTHREADS clicks, thread_count counts the clicks and every thread
\* that was created can still be found through its own slot of pt, whether or
\* not some of the creations failed.
HandlesKept ==
  clicks <= NumThreads =>
    /\ thread_count = IF ui = "increment" THEN clicks - 1 ELSE clicks
    /\ \A w \in Created : \E i \in 0..(clicks - 1) : pt[i] = w

\* The comment of native_setup: the reference kept for callbacks does not
\* keep the JavaClass of an activity that is gone from being collected.
ProxyIsWeak ==
  \A n \in 1..setups : n # activity => n \notin globalRefs

\* Every created thread returns (unless the process dies first).
EveryWorkerReturns ==
  \A w \in Workers :
    wpc[w] # "none" ~> (wpc[w] \in {"done", "failed"} \/ process = "dead")

-----------------------------------------------------------------------------
(* The abstract view: threads are jobs, recv is a delivery.                *)

JobStatus ==
  [w \in Workers |->
     CASE wpc[w] = "none" -> "idle"
       [] wpc[w] \in {"done", "failed"} -> wpc[w]
       [] OTHER -> "active"]

Jobs == INSTANCE CallbackJobs WITH status <- JobStatus, hits <- content

\* Each started thread delivers all its callbacks in order and then ends, or
\* ends without having delivered any because it could not attach.
ImplementsJobs == Jobs!JobsSpec
=============================================================================
