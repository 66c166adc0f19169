# NdkThreadSample: a TLA+ verification project

The repository holds two things. `app/` is a small Android program in which native threads call
back into Java ("native thread to call java function", `README.md:2`). `tmp/` holds the code such
threads were meant for and which `app/CMakeLists.txt` does not build: a library for an
identity-card scanner (`TestIDS.cpp`), its JNI entry points (`IDSDriver_jni.cpp`), a USB driver
written in Java (`UsbDriver.java`) and a C bridge to it (`UsbDriver_CCallJava.c`). All paths below
are relative to the repository.

## 1. The parts and how they interact

| part | state | operations | what makes it correct |
|---|---|---|---|
| Native entry points and globals (`native-lib.cpp`) | `sVm`, `fields` (method ids, `card_clazz`, `card_object`), `mObject`, `pt[NUMTHREADS]`, `thread_count` | `JNI_OnLoad`, `native_init`, `native_setup`, `start_thread` | everything a thread reads is stored before a thread exists; references stay valid; every handle keeps its slot |
| Native threads (`thread_fun`, `notify`) | loop counter `c`, `isAttached`, local references, the VM's record of attached threads | attach, per round two arrays into `card_object` and one call of `JavaClass.recv`, detach | all callbacks in order and once, or none; detached at the end; one thread's array is not touched by another |
| Java side (`NativeClass`, `JavaClass`, `CommData`, `MainActivity`) | `NativeClass.transmit`, the fields of `CommData` | static initialiser, constructor, click listener, `recv` | a new activity may replace the old one while threads run |
| Scanner library (`TestIDS.cpp`) | `pstPfnTab`, `gScanConf`, the static `s_bDevOnLine` of `GetDevStatus` | `OpenDevice`, `CloseDevice`, `SetScan`, `WaitForCard`, `ScanAndReadIdCard`, `BackIdCard`, the `IDS_CS_` calls, the loop of `test` | the driver is called only when open and connected; a card is taken in only when ready and given back only when done |
| Scanner JNI (`IDSDriver_jni.cpp`) | none of its own; the Java arrays it is handed | 15 entry points, each sets the user data and forwards (`init` the other way round, `testIDS` without); `C2jniString`, `Jni2cString` | Java reads what the driver wrote; a path survives the way to Java and back |
| USB driver (`UsbDriver.java`) | statics `mUsbManager`, `mConnection`, `mUsbInterface`, `inPoint`, `outPoint`, `mUsbFd`, `mDevList` | `OpenDevice`, `CloseDevice`, four transfers, the broadcast receiver | no connection leaks; the statics belong to one connection; the monitor is released; a transfer that succeeds is complete |
| C bridge (`UsbDriver_CCallJava.c`) | `g_jvm`, `jniEnv`, the class reference and method ids | `SetJniEnv`, `InitUsbDriver`, `ReleaseUsbDriver`, one function per method of `UsbDriver` | the environment used belongs to the calling, attached thread; threads end detached; results are passed on |

Interaction: the UI thread constructs `NativeClass`, which stores the globals that the native threads
read later without a lock; `pthread_create` is the only synchronisation. The threads publish arrays
in one shared `CommData` object and call `JavaClass.recv`. In `tmp/`, the scanner is driven through
JNI calls on any Java thread; below it the vendor's driver (not in the repository) reaches the USB
device through the bridge and `UsbDriver`, whose receiver runs on the main thread.

What is hard here: unsynchronised globals, an activity recreated while threads run, an array index
that nothing bounds, table pointers that are tested and then used, a static that outlives a device,
permission answers that come late, reopening an open device, a monitor that only some methods take,
and calls of a device that fail halfway. `PROJECT.json` lists these under "hazards", each at its line.

## 2. The modules

| module | role |
|---|---|
| `CallbackJobs` | abstract specification: a started job delivers its callbacks in order, once each, and ends, or ends without any |
| `NdkThread` | the built program: UI thread, native threads, garbage collector; implements `CallbackJobs` |
| `CardCycle` | abstract specification: what the loop of `test` does with each card |
| `IdScanner` | the scanner library under its JNI entry points; its `test` implements `CardCycle` |
| `JniArrays` | the conversions of `IDSDriver_jni.cpp`, and what they leave in an array of Java |
| `UsbDriver` | the USB driver with its receiver, the user and the USB service |
| `UsbBridge` | the C bridge, over any `UsbDriver` that answers |
| `UsbStack` | `UsbBridge` and `UsbDriver` composed: a native call goes through both |
| `NdkThreadProofs`, `IdScannerProofs`, `UsbDriverProofs`, `UsbBridgeProofs`, `UsbStackProofs`, `JniArraysProofs` | the inductive invariant of each, its theorems and their proofs (section 4) |
| `MC...` | instances for TLC |

The operators marked "fault" are changed versions of a definition that follows them. No next-state
relation uses them; each breaks the property it is paired with in `PROJECT.json` ("mutants"), which
shows that the property is able to fail.

### NdkThread

One step is one access to a shared global, or one call that another thread can observe.

* The UI thread's position is `ui`; its actions follow the code in order: `JNI_OnLoad`, `NativeInit`
  (static initialiser), `Launch` (the constructor makes a `JavaClass`), `SetupObject` (the store of
  `mObject`), `SetupMethods` (the method ids), then clicks. A click is two steps, `StartThread` and
  `Increment`, since the new thread runs before `thread_count++`. `Destroy` ends an activity, and
  `Launch` may make the next one while threads of the first still run.
* `start_thread` ignores the result of `pthread_create`: `StartThread` may create no thread.
* `pthread_create` stores the handle at `pt[thread_count]` unchecked. `StoreHandle` outside `pt` is
  undefined behaviour: nothing visible is hit, or `thread_count` is overwritten (by a value from
  `Clobbered`), or the process dies.
* A native thread's position is `wpc[w]`; `Loop`, `Attach`, `PutBuffer`, `PutSize`, `LoadTarget`,
  `CallRecv`, `Dump` and `Detach` are `thread_fun` with `notify` inlined. `GetEnv` succeeds exactly on
  an attached thread, so only the first round attaches. Method calls on `env` between two steps touch
  only the thread's own objects.
* The read of `mObject` races with `native_setup`: `LoadTarget` yields the current value or an older
  one, but none older than what the thread has seen (`seen`, raised by `pthread_create`).
* Objects exist so that references can dangle: `heap` holds them, `Collect` removes those that
  nothing in `Reachable` keeps. Without `Collect` the properties about references would hold trivially.
* `content[w][r]` counts how often `recv` added its 100 to the array of round `r`; the bytes
  themselves are left out, since nothing depends on more than "how many times".
* A failing `FindClass` leaves an exception pending, which ends the process (`Die`).

### IdScanner

One step is one test of `pstPfnTab`, or one call through it; so another caller may act between the
test and the call (`NullCall` is the call through the pointer that was nulled). A caller `t` stands
at `pc[t]` in entry point `op[t]`. `test` is an entry point whose loop only a failed `OpenDevice`
avoids. Each driver call may succeed or fail, and a status may report any combination of sensors.
`opened`, `online` and `position` are what the driver was last told to do, so that the properties
can relate the library's state to it. `ResetScanConf` is three steps, since a scan of another caller copies
`gScanConf` meanwhile: it is zeroed, the first of its fields is assigned, and the last. `pConnect` and what
`GetDevStatus` makes of it in `s_bDevOnLine` are one step (`ConnectFirst`); the later test of the static is a step
of its own. Only another caller's own use of the static could come between the two. With one caller there is
none, and the properties of `IdScanner_race` speak neither of the static nor of `online`; apart, the two steps would
double that instance. Image data, text and
file names are left out; the text of a card is one value (`szIDCard`). `SetScanAccepts` is the code's
test of the arguments, which accepts nothing.

What `test` has got to maps to `CardCycle` by `Stage` and `succeeded`: waiting, taking a card in,
giving it back. Of the many driver calls in between only those that succeed for the card are steps of
the abstract cycle; the loop's fairness carries over, so a card that was taken in is disposed of.

### JniArrays

One step is one call that writes a Java array, or `init`, which reads one as a path. `C2jniString`
copies up to the first zero and neither ends nor clears the array; `readRF` lets the driver's bytes be
laid over it: each of its thirteen arrays gets a wide field of the card (`readField`, 16-bit units, low byte first as
on every ABI of Android), a file name (`readName`, `NameLen` bytes, two to a `jchar`) or the type of the card
(`readType`, one byte). `signed` is whether the build's `char` is (x86) or not (ARM): `Widen` is the assignment of
such a `char` to a `jchar`, `Narrow` the way back. `TransIDCard_Self` takes the card by value, so what
it does to the copy, words for the codes of gender and nation included, has no effect. One array stands for all, since each is written on its own.

### UsbDriver

One step is one access to the shared statics or one call of the platform. A thread `t` stands at
`pc[t]` in `op[t]`, a method or, on the main thread, a broadcast (`OnReceive`). `Throw` is an
exception leaving the method: the monitor is released, and in the receiver, where nobody catches
it, the process ends. `SetDevice` runs in the monitor (`EnterMonitor`); `CloseDevice` and the
transfers do not take it, so each of their accesses to `mConnection` is a step, and `releaseInterface` and `close`
are two, in `CloseDevice` and in `setDevice`. Only one device with
the vendor and product that the code knows is modelled. The USB service, the permission dialog and
the plug are the environment (`Sent`, `AnswerDialog`, `PlugOrUnplug`; `openDevice` may give a connection,
null or an exception). `InitContext` is taken to have run. The history variable `overlapped` notes
that one thread was in `CloseDevice` while another was in `setDevice`, which the code permits.

### UsbBridge

`jniEnv` is the thread whose environment it is, `UsbDriverCCallJava` a class reference with the thread
it belongs to; both are plain globals. `SetJniEnv` is two steps (attach, `FindClass`), a `jni_`
function is `CallBridge`, `InitUsbDriver` (the test of `jniEnv`, then the lookups, which read the globals again), `CallStaticIntMethod`, the answer, `CopyBack` for those with
arrays, `ReleaseUsbDriver`. What another thread did to the globals in between is seen at each. An
environment or a reference that is not valid where it is used is undefined behaviour: `Crash` ends the
process, and the ordinary step, which believes it, remains possible. After an exception of `UsbDriver` the
result is any of the method's, and the exception stays pending. Threads of Java (`JavaThreads`) are
attached from the start, may not be detached, and lose their local references on returning to Java.

### UsbStack

The bridge's `CallStaticIntMethod` starts the method of `UsbDriver` on the same thread, and the bridge
goes on with its result. The two share the thread, the answer and `process`: the end of the process
in `UsbDriver` is `Killed` in the bridge. The main thread runs only the receiver. A native thread calls the
methods in its own `MayCall`. What a thread's `jni_closeDevice` reports stays true until the device is opened
again, so `ClosedWhenReported` speaks of a thread besides which nobody opens it.

## 3. What is checked

| run | instance | shows |
|---|---|---|
| `NdkThread` | 2 threads, 2 rounds, 2 slots, 2 activities, 3 clicks, fair | `TypeOK`, `WorkersSeeGlobals`, `NoDanglingReference`, `BufferPrivate`, `ExitsDetached`, `HandlesKept`, `ImplementsJobs` (refinement of `CallbackJobs`), `EveryWorkerReturns` |
| `NdkThread_proxy` | 2 activities | violated: `ProxyIsWeak` (an activity is destroyed, and its JavaClass is still held) |
| `IdScanner_serial` | 1 caller, 4 entry points in sequence, all sensors, 2 cards | `TypeOK`, `DriverCallsWhileOpen`, `TableMeansOpen`, `StatusWhileOnline`, `ScanInPlace` |
| `IdScanner_race` | 2 callers, fair | `ScansOnlyReadyCards`, `SettingsWhole`, `TestCycles` (refinement of `CardCycle`), `EntryPointsReturn` |
| `IdScanner_cover`, `IdScanner_path` | the loop of `test` alone | violated: `ScansOnlyUnderClosedCover`, `ScansOnlyWithClearPath` |
| `UsbDriver_race` | the main thread opens, closes and handles broadcasts, a worker opens and receives, fair | `TypeOK`, `NoLeakedConnection`, `StaticsBelongTogether`, `ClosedStaysClosed`, `GrantReachesDriver`, `MonitorHeld`, `RecvComplete`, `MethodsReturn` |
| `UsbDriver_connected` | one `OpenDevice` | violated: `OpenMeansConnected` |
| `UsbBridge_calls` | a native thread and one of Java, 4 calls, fair | `TypeOK`, `FirstCallSound`, `DetachedAfterCall`, `AnswersPassedOn`, `CallsReturn` |
| `UsbBridge_recv` | one native thread, 2 calls | violated: `RecvReportsFailure` |
| `UsbStack` | one native thread under the bridge, the receiver on the main thread, fair | `ClosedWhenReported`, `BridgeServed` (the composition implements `UsbBridge`) |
| `JniArrays` | an array of 5, texts up to 3 bytes, fields of 2 units, file names of 4 bytes (260 in the code) | `TypeOK`, `TextReadable`, `PathSurvives`, `StatusReadable`, `FieldReadable`, `BytesReadable` |

Several properties state their own scope, and are false outside it, because the code has no lock there:

* Those of `IdScanner_serial` hold for one caller at a time. `ScanInPlace` is about `ScanAndReadIdCard` only:
  `IDS_CS_Scan` scans wherever the card is and with settings of its own. Those of `IdScanner_race` survive any
  interference: each caller decides on its own readings, and settings are torn only while some
  `OpenDevice` runs.
* `NoLeakedConnection`, `StaticsBelongTogether`, `ClosedStaysClosed` and `ClosedWhenReported` hold unless a
  `CloseDevice` has overlapped a `setDevice`; everything else may be interleaved. `GrantReachesDriver`,
  `MonitorHeld`, `RecvComplete` and `MethodsReturn` need no such condition. `RecvComplete` is about
  the count only: with a device that is reopened meanwhile the bytes may come from two connections,
  and none of them reach the caller's buffer (`UsbDriver.java:190` transfers into `tmpData`).
* `FirstCallSound` is about the first `jni_` call after `SetJniEnv`, without another thread in
  between. Its environment is its own; its class reference is too, unless `FindClass` failed, which `SetJniEnv`
  does not check: then the call finds no method and the process dies. The code gives no more: `ReleaseUsbDriver` leaves the globals stale, so a second call or a
  second thread may end the process (`Crash`). `DetachedAfterCall` holds however the globals were
  changed, unless an attach failed, which makes another thread's `ReleaseUsbDriver` give up.
* `TextReadable` and `StatusReadable` say exactly what arrives: text followed by what is left of an
  earlier one, and flags up to the first zero. `FieldReadable` says that the wide fields arrive as the chip holds
  them, gender and nation as codes, because `TransIDCard_Self` is ineffective; `BytesReadable` that file names and type
  arrive as bytes, which Java does not read as chars but for names of one byte and types in a clean `jchar`.

### The bounds

* `NumThreads` is 5 in the code and 1 or 2 in the runs: what matters is one slot that is filled, one
  that is left out by a failed creation, and one click more than slots. The proofs hold for every value.
* `Rounds` is 2, the code's `c`. `MaxSetups = 2` gives one replacement of `mObject` under running threads.
* `Clobbered` holds a value inside `pt`, one behind it and a negative one.
* In `IdScanner`, `MaxCalls` is the number of entry points called: 4 in sequence allow opening, changing, closing
  and using again; with two callers, 2 put one against the loop of `test`, which itself never ends.
  One sensor stands for the path in `IdScanner_race`, where the mask does not matter.
* `MaxOpens` and `MaxConnections` of 2 give a reopening, by a second call or by a late permission;
  `MaxLen = 2` with `Packet = 2` a whole chunk, a short one, and the rest of one. A worker that
  closes, and the other transfers (one access each, after the same test that `RecvData` begins with), are in `UsbStack`.
* `MaxEntries = 4` lets a thread of the bridge set the environment, call, and call again with stale
  globals, or each of two threads set and call; in `UsbStack` two pairs of `SetJniEnv` and a method.
  One method without arrays, one with, and `RecvData` are all that the bridge tells apart.
* `Size = 5` is the number of status flags; a text of 3 over an earlier one of 3, 2 or 1 leaves every kind
  of rest; one byte below 128 and one above are the two cases of `Widen`. A unit is 0, below 256 or above; `NameLen = 4` gives
  names of no byte, of one, and of both parities, over two `jchar`s. It is even, as 260 is.

Deadlock checking is off, except in `JniArrays`, because the bounds end every instance, and because a
process that died or exited takes no further step.

### Fairness

`FairSpec` of `NdkThread` gives weak fairness to each native thread: the kernel schedules a created
thread and nothing in `thread_fun` waits for another. The UI thread and the collector get none: nobody
must click. `IdScanner` gives it to a caller inside an entry point, because its driver calls return
(the moves carry a time limit of 10 s, `TestIDS.cpp:514`, `:668`), not to `Enter`. `UsbDriver` gives it
to a thread inside a method (transfers carry `iTimeOut`) and to the main thread's messages, not to
callers, the user or the plug. Java's monitors are not fair; weak fairness suffices for
`MethodsReturn` since every entry of the monitor costs an `OpenDevice` or a broadcast, of which the
bounds allow finitely many: the property shows that nobody keeps the monitor, not that it is shared fairly.
`UsbBridge` gives it to a thread inside a function, and supposes that `UsbDriver` answers; `UsbStack` drops
that supposition, has only the fairness of `UsbDriver`'s and the bridge's own steps, and shows in
`BridgeServed` that the answers come.

## 4. What is proved

Every state invariant that a passing run checks is also a theorem, for all values of the constants, and so is
the safety part of each of the three refinements. The only assumptions are the `ASSUME`s of the modules
(`NdkThreadAssumption`, `IdScannerAssumption`, `UsbDriverAssumption`, `UsbBridgeAssumption`, `UsbStackAssumption`,
`JniArraysAssumption`), which TLC evaluates in the runs, and what a theorem states itself.

| module | for any | theorem: property |
|---|---|---|
| `NdkThreadProofs` | threads, `NumThreads`, `Rounds`, setups, clicks, clobbering values | `TypeCorrect`, `GlobalsBeforeThreads`: `WorkersSeeGlobals`, `ReferencesLive`: `NoDanglingReference`, `BuffersPrivate`: `BufferPrivate`, `HandlesAreKept`: `HandlesKept`, `ThreadsExitDetached`: `ExitsDetached`, `ThreadsImplementJobs`: `ImplementsJobs` |
| `IdScannerProofs` | callers, calls, cards, sensors | `TypeCorrect`, `OnlyReadyCards`: `ScansOnlyReadyCards`, `WholeSettings`: `SettingsWhole`; `CycleSafety`: `test` implements `CardCycle`, where there is a caller; for a single caller `CallsWhileOpen`: `DriverCallsWhileOpen`, `TableTellsOpen`: `TableMeansOpen`, `StatusOnline`: `StatusWhileOnline`, `InPlace`: `ScanInPlace` |
| `UsbDriverProofs` | threads, what each may call, opens, connections, lengths, packet size | `TypeCorrect`, `MutualExclusion`: `MonitorHeld`, `NoLeak`: `NoLeakedConnection`, `Together`: `StaticsBelongTogether`, `StaysClosed`: `ClosedStaysClosed`, `GrantArrives`: `GrantReachesDriver`, `AllReceived`: `RecvComplete` |
| `UsbBridgeProofs` | threads, of C or of Java, calls, buffer size | `TypeCorrect`, `FirstCall`: `FirstCallSound`, `Detached`: `DetachedAfterCall`, `PassedOn`: `AnswersPassedOn` |
| `UsbStackProofs` | native threads and what each may call | `ClosedIsClosed`: `ClosedWhenReported`; `StackIsBridge`: the composition implements `UsbBridge`; `DriverUnderBridge`, `BridgeOverDriver`: what is proved of either part holds in the composition |
| `JniArraysProofs` | lengths of array, texts, fields and file names, bytes, units, signedness of `char` | `TypeCorrect`, `TextRead`: `TextReadable`, `PathKept`: `PathSurvives`, `StatusRead`: `StatusReadable`, `FieldRead`: `FieldReadable`, `BytesRead`: `BytesReadable` |

`TypeCorrect` is about `TypeOK` everywhere. Each module's `Invariance` (`StackInvariance`) is its inductive
invariant; the others follow from it. Almost none of the properties is inductive as it stands, and what had to
be added is what the code relies on without saying so.

The proofs are laid out alike: a lemma on what a step leaves alone and where it leads, one lemma
for each part of the invariant with a step for each action, their conjunction in `NextInv`, and then the
theorems.

### NdkThreadProofs

* `CounterInv` and `ContentInv`: the loop counter alone tells which rounds were delivered
  (`Delivered(w)`). `BufferPrivate` and the refinement follow from it.
* `AttachInv`, `LocalsInv`: a thread is attached exactly from its first round to its `Detach`, and
  holds only arrays of its own; `ExitsDetached` counts them (`ArraysPerThread`).
* `SetupInv`: which globals are stored at each point of the UI thread, that a thread exists only after
  all of them, and that `globalRefs` is exactly the setups up to `mObject`.
* `HeapInv`: what a reference names is on the heap. Together with `SetupInv` it yields
  `NoDanglingReference`: a thread may call an old JavaClass, but the reference to it is never deleted,
  so the same missing `DeleteGlobalRef` that leaks the object keeps the race harmless.
* `HandlesKept` is inductive with `SetupInv`: below `NumThreads` clicks `thread_count` is the number of
  completed clicks, so each click writes a slot of its own.

The refinement maps a worker's step to a step of the abstract job or a stutter (`JobsWorker`, `JobsUi`).

### IdScannerProofs

* `PlaceInv`: which entry point a place belongs to, as far as opening, closing and the loop of `test` go.
* `QuestionInv`: the questions of `WaitForCard` that lie behind were not answered in a way that ends it. It is
  about this caller's readings (`reads`), so nothing another caller does disturbs it, and the last question's
  answer makes it `ScansOnlyReadyCards`.
* `SettingsInv`: settings other than `OpenDevice`'s are there only while some caller is in `OpenDevice`, or before
  anybody was, when the table is null and nobody can have come to a scan. `SettingsWhole` alone would not
  survive the step that enters a scan. That `SetScan` changes nothing (its test accepts no arguments) is part of it.
* `CardInv`: at each place of `test`, `succeeded` is what the place and `bRet` stand for; `CycleSafety`
  rests on it: an image is made only after the command and the move, a card is given back only after all three.
* `SerialInv(c)`, for the only caller: what table, driver and `s_bDevOnLine` are at each place within
  `OpenDevice`, `CloseDevice` and `GetDevStatus`. With two callers it is false, and so are the properties.
  `ImageInv`: what `ScanAndReadIdCard` has done on the way to an image; `ScanInPlace` is its last step.

### UsbDriverProofs

* `PlaceInv` ties places to methods and broadcasts; only the main thread handles broadcasts.
* `MonitorHeld` is inductive: a toast, an exception and a return are the three ways out of the monitor
  (`Toasting`, `Throwing`, `Returning`), and each releases it.
* `CountInv`: `left + index = want` within `RecvData`. It is about one thread's own variables, which is why
  reopening does not disturb `RecvComplete`.
* `OverlapInv` makes the history variable useful: without an overlap nobody is in `setDevice` while another is in
  `CloseDevice`, so that the steps of the one can be treated as if the other did not exist.
* `LiveInv`: without an overlap only `mConnection` can be open, and not where `setDevice` is about to replace it nor
  where `CloseDevice` is about to null it; `StaticsInv`: whose other statics are not there is still being worked
  on; `ClosedInv`: after a close, a thread that comes to `setDevice` finds `mUsbManager` null and leaves by an exception.
* `DialogInv`, `GrantInv`: who asks has registered the receiver before he is refused, and dialogs are no more
  than the calls that asked.

### UsbBridgeProofs

* `FreshInv`: from its `SetJniEnv` on, the thread in `fresh` is alone in the bridge, and the globals are its own; or the
  reference is null, and then the exception of `FindClass` is pending, and the thread not beyond its lookups.
* `NullEnvInv`: `jniEnv` is null only before the first attach, unless one failed. `DetachedAfterCall` needs it:
  `ReleaseUsbDriver` gives up only on a null environment, whoever's it is, so stale globals do not keep it from
  detaching its own thread.
* `AnswerInv`: what a function is about to return, from its entry on.

### UsbStackProofs

`StackInv` joins the two: a native thread is in `UsbDriver` only while its bridge function waits for it, and in the
method that the function is for (`LinkInv`); what the method left is an answer the bridge knows
(`ResultInv`); and a `CloseDevice` on its way to report 0 has left `intent` closed, or is about to (`ReportInv`).
`ResultInv` is the step that makes `StackIsBridge` true. `BridgeOverDriver` then uses the theorems of
`UsbBridgeProofs` through a second instance (`Keeps`), which is shown to be the same bridge. `ClosedWhenReported` supposes
that no other native thread may open the device at all, and says nothing once a `CloseDevice` has overlapped a `setDevice`,
where a `CloseDevice` that returns 0 can leave a connection. The run has one native thread, so that the
clause on the other threads is shown by the theorem alone.

### JniArraysProofs

`ArrayInv` says of which earlier array and which text the array is made. The rest is arithmetic and lemmas about
`strlen` (it exists and is unique: `StrlenExists`, `StrlenIs`, by the well-ordering of the naturals), about
`Narrow` and `Widen` (`RoundTrip`: they are inverse on bytes, and neither makes a zero), about what
`C2jniString` and the bytes of a card leave in an array (`Filled`, `Laid` and what follows them), and about the two
bytes of a `jchar`.

### Only model-checked

Liveness is out of the prover's reach, and with it `EveryWorkerReturns`, `EntryPointsReturn`, `MethodsReturn`,
`CallsReturn`, the fairness of `CardCycle` in `TestCycles` and that of the bridge in `BridgeServed`. TLC checks them on
the instances of section 3. The five violated properties need no proof: their counterexamples are enough.

## 5. Where code and comments disagree

* `native-lib.cpp:158-160`: the "weak reference" is a strong global one that is never deleted: it still holds the JavaClass of
  an activity that was destroyed (`NdkThread_proxy`).
* `TestIDS.cpp:628-629`: a cover whose status could not be read counts as closed (`IdScanner_cover`).
* `TestIDS.cpp:635-636`: "the sensors that must not be blocked" stop the scan only if all three are (`IdScanner_path`).
* `UsbDriver_CCallJava.h:16`, `UsbDriver.java:131-133`: success is reported without a connection, and
  as 1 where 0 is documented (`UsbDriver_connected`).
* `UsbDriver_CCallJava.h:43`, `UsbDriver_CCallJava.c:275-289`: a failed `RecvData` is reported as a number of
  bytes received (`UsbBridge_recv`).

No comment or test speaks of the sixth click, which writes behind `pt[NUMTHREADS]` (`native-lib.cpp:178`); it
is in the model (`StoreHandle`), and `HandlesKept` says up to where all is well.

The comments of `TestIDS.cpp` are stored in a broken encoding; the sense above is what they say once
the bytes are read as intended.

## 6. What is not modelled

* `notifyChildThread`, `postEventFromNative`, `JavaClass.send`, `assignEndpoint`, `ReadIdcard`,
  `ScanIdCard`: no caller, or no effect. `InitContext` sets two statics that are taken to be set.
* The bytes of USB transfers: `UsbBridge` and `UsbDriver` keep lengths and results. That `RecvData` never fills
  the caller's buffer is therefore not a property.
* The number of a device and its vendor: the code overwrites both arguments by constants.
* Overruns of the fixed buffers (`char[256]`) and of Java arrays that are too short: `JniArraysAssumption`
  takes the arrays to be long enough.
* What is done with the descriptor that `getUsbFd` gives away: no caller is in the repository.
* What the text of a card must be after a failed reading, and where a card must be when `test` waits again:
  both are in the model, but nothing in the repository says what is right.
* Logging, text layout, the translation tables, the sleeps, the Gradle build, resources, the template tests.

## 7. Plan

Done: the built program, the scanner library, the conversions, the USB driver, its bridge and their composition,
with every state invariant and the safety of the three refinements proved. What is left:

1. The sixth click: `HandlesKept` proves up to where the array suffices; what `StoreHandle` may overwrite
   beyond it could be stated and proved as a property of its own.
2. `IdScanner` with several callers: which of the serial properties survive if at most one caller opens or closes.
3. Shorter proofs where one step per action repeats the same leaf.
