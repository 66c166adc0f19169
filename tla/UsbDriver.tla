----------------------------- MODULE UsbDriver -----------------------------
(***************************************************************************)
(* UsbDriver.java: a class of static state that opens one USB device,      *)
(* moves bytes, and closes it.  Its methods may be called on any thread;   *)
(* its broadcast receiver runs on the main thread, which takes one message *)
(* at a time.  Only setDevice runs under the class monitor; the transfers  *)
(* and CloseDevice read and write mConnection without it.                  *)
(*                                                                         *)
(* A step is one access to the shared statics, or one call of the          *)
(* platform.  The user (who answers permission dialogs, plugs and unplugs) *)
(* and the USB service are the environment.                                *)
(***************************************************************************)
EXTENDS Integers, Sequences

CONSTANTS
  Threads,         \* the threads that call the driver, Main among them
  Main,            \* the main thread, which also runs the receiver
  MayCall,         \* MayCall[t]: the methods that thread t calls
  Nobody,          \* no owner of the monitor
  MaxOpens,        \* bound: calls of OpenDevice
  MaxConnections,  \* bound: connections the USB service ever makes
  MaxLen,          \* bound: bytes asked of RecvData
  Packet           \* getMaxPacketSize of the input endpoint

Transfers == {"SendData", "SendControl", "RecvControl"}
Methods == Transfers \cup {"OpenDevice", "CloseDevice", "RecvData"}
Broadcasts == {"granted", "denied", "detached"}

ASSUME UsbDriverAssumption ==
  /\ Main \in Threads
  /\ Nobody \notin Threads
  /\ MayCall \in [Threads -> SUBSET Methods]
  /\ {MaxOpens, MaxConnections} \subseteq Nat
  /\ {MaxLen, Packet} \subseteq Nat \ {0}

VARIABLES
  process,        \* "running", "exited" (System.exit) or "dead" (uncaught)
  plugged,        \* the device is attached
  granted,        \* the application has permission for it
  dialogs,        \* permission dialogs the user has not answered
  queue,          \* broadcasts on their way to the main thread
  registered,     \* mUsbReceiver is registered
  live,           \* connections that are open in the USB service
  made,           \* connections made so far (bounded by MaxConnections)
  mUsbManager,    \* whether it is set
  mConnection,    \* the connection, 0 if null
  mUsbInterface,  \* whether it is set
  endpoints,      \* whether inPoint and outPoint are set
  mUsbFd,         \* the connection whose descriptor it is, 0 before any
  mListSize,      \* entries of mDevList, one per OpenDevice
  monitor,        \* who is in synchronized (UsbDriver.class)
  intent,         \* history: the last call or handler closed the device, set
                  \* out to open it, or was refused for want of permission
  overlapped,     \* history: one thread was in CloseDevice while another
                  \* was in setDevice
  pc, op,         \* where each thread stands, in which method or broadcast
  want,           \* the iDataLen RecvData was called with (0 also stands for
                  \* less than that)
  left, index,    \* its iDataLen and index
  result          \* the last result of a method, or Exception

system == <<plugged, granted, dialogs, queue, registered>>
connections == <<live, made>>
statics == <<mUsbManager, mConnection, mUsbInterface, endpoints, mUsbFd,
             mListSize>>
recv == <<want, left, index>>
driverVars == <<system, connections, statics, monitor, intent, overlapped, pc,
                op, recv, result>>
vars == <<process, driverVars>>

Exception == -3   \* an exception instead of a result
Pc == {"idle", "find", "list", "request", "register", "enter", "permission",
       "setClose?", "setRelease", "setClose", "setOpen", "setUse?", "setUse",
       "close?", "closeRelease", "close", "closeNull", "closeRest",
       "ready?", "transfer", "chunk"}

Init ==
  /\ process = "running"
  /\ plugged \in BOOLEAN
  /\ granted = FALSE
  /\ dialogs = 0
  /\ queue = <<>>
  /\ registered = FALSE
  /\ live = {}
  /\ made = 0
  /\ mUsbManager = FALSE
  /\ mConnection = 0
  /\ mUsbInterface = FALSE
  /\ endpoints = FALSE
  /\ mUsbFd = 0
  /\ mListSize = 0
  /\ monitor = Nobody
  /\ intent = "closed"
  /\ overlapped = FALSE
  /\ pc = [t \in Threads |-> "idle"]
  /\ op = [t \in Threads |-> "CloseDevice"]
  /\ want = [t \in Threads |-> 0]
  /\ left = [t \in Threads |-> 0]
  /\ index = [t \in Threads |-> 0]
  /\ result = [t \in Threads |-> 0]

Goto(t, to) == pc' = [pc EXCEPT ![t] = to]
At(t, here) == process = "running" /\ pc[t] = here

\* The method returns r, or the handler of a broadcast returns; either way a
\* monitor that it holds is released.
Return(t, r) ==
  /\ Goto(t, "idle")
  /\ monitor' = IF monitor = t THEN Nobody ELSE monitor
  /\ result' = IF op[t] \in Methods THEN [result EXCEPT ![t] = r] ELSE result
  /\ UNCHANGED process

\* A null reference is used.  Synchronized blocks release the monitor then too;
\* inside the receiver nobody catches the exception.
StillLocked(t) == monitor  \* fault: a lock that an exception leaves locked
Unlocked(t) == IF monitor = t THEN Nobody ELSE monitor

Throw(t) ==
  /\ Goto(t, "idle")
  /\ monitor' = Unlocked(t)
  /\ IF op[t] \in Methods
     THEN result' = [result EXCEPT ![t] = Exception] /\ UNCHANGED process
     ELSE process' = "dead" /\ UNCHANGED result

\* The method goes on.
Proceed(t, to) == Goto(t, to) /\ UNCHANGED <<process, monitor, result>>

\* A broadcast reaches only a receiver that is registered when it is sent.
Sent(q, broadcast) == IF registered THEN Append(q, broadcast) ELSE q

-----------------------------------------------------------------------------
(* Calls and broadcasts.                                                   *)

Call(t) ==
  /\ At(t, "idle")
  /\ \E m \in MayCall[t] :
       /\ op' = [op EXCEPT ![t] = m]
       /\ m = "OpenDevice" => mListSize < MaxOpens
       /\ mListSize' = IF m = "OpenDevice" THEN mListSize + 1 ELSE mListSize
       /\ Goto(t, CASE m = "OpenDevice" -> "find"
                    [] m = "CloseDevice" -> "close?"
                    [] OTHER -> "ready?")
       /\ \E n \in IF m = "RecvData" THEN 0..MaxLen ELSE {0} :
            /\ want' = [want EXCEPT ![t] = n]
            /\ left' = [left EXCEPT ![t] = n]
  /\ index' = [index EXCEPT ![t] = 0]
  /\ UNCHANGED <<process, system, connections, mUsbManager, mConnection,
                 mUsbInterface, endpoints, mUsbFd, monitor, intent, result>>

\* onReceive.  A granted permission opens the device again even if it is open.
OnReceive ==
  /\ At(Main, "idle")
  /\ queue # <<>>
  /\ queue' = Tail(queue)
  /\ op' = [op EXCEPT ![Main] = Head(queue)]
  /\ Goto(Main, IF Head(queue) = "detached" THEN "close?" ELSE "enter")
  /\ UNCHANGED <<process, plugged, granted, dialogs, registered, connections,
                 statics, monitor, intent, recv, result>>

-----------------------------------------------------------------------------
(* OpenDevice: FindUsbList for the one vendor and product it knows.        *)

\* A toast needs a looper, which a thread other than Main may not have.
Toast(t, r) == Return(t, r) \/ (t # Main /\ Throw(t))

Find(t) ==
  /\ \/ At(t, "find") /\ mUsbManager' = TRUE /\ intent' = "open" /\ Proceed(t, "list")
     \/ /\ At(t, "list")
        /\ CASE ~mUsbManager -> Throw(t)
             [] mUsbManager /\ plugged -> Proceed(t, "request")
             [] OTHER -> Toast(t, -1)
        /\ UNCHANGED <<mUsbManager, intent>>
  /\ UNCHANGED <<system, connections, mConnection, mUsbInterface, endpoints,
                 mUsbFd, mListSize, op, recv>>

\* requestPermission: the answer is broadcast at once if it is known, else
\* the user is asked.
RequestPermission(t) ==
  /\ At(t, "request")
  /\ IF mUsbManager THEN Proceed(t, "register") ELSE Throw(t)
  /\ queue' = IF mUsbManager /\ granted THEN Sent(queue, "granted") ELSE queue
  /\ dialogs' = IF mUsbManager /\ ~granted THEN dialogs + 1 ELSE dialogs
  /\ UNCHANGED <<plugged, granted, registered, connections, statics, intent,
                 op, recv>>

OnceGranted == registered \/ granted  \* fault: only when it has the answer
AtOnce == TRUE

RegisterReceiver(t) ==
  /\ At(t, "register")
  /\ registered' = AtOnce
  /\ Proceed(t, "enter")
  /\ UNCHANGED <<plugged, granted, dialogs, queue, connections, statics,
                 intent, op, recv>>

\* synchronized (UsbDriver.class), in FindUsbList and in onReceive.
OnlyInFindUsbList(t) == op[t] # "granted"  \* fault: onReceive does without
Synchronized(t) == TRUE

EnterMonitor(t) ==
  /\ At(t, "enter")
  /\ Synchronized(t) => monitor = Nobody
  /\ monitor' = IF op[t] # "denied" /\ Synchronized(t) THEN t ELSE monitor
  /\ Goto(t, CASE op[t] = "denied" -> "idle"
               [] op[t] = "granted" -> "setClose?"
               [] OTHER -> "permission")
  /\ UNCHANGED <<process, system, connections, statics, intent, op, recv,
                 result>>

HasPermission(t) ==
  /\ At(t, "permission")
  /\ CASE ~mUsbManager -> Throw(t)
       [] mUsbManager /\ granted -> Proceed(t, "setClose?")
       [] OTHER -> Toast(t, -2)
  /\ intent' = IF mUsbManager /\ ~granted THEN "refused" ELSE intent
  /\ UNCHANGED <<system, connections, statics, op, recv>>

\* setDevice.  A connection that is still there has its interface released, if
\* it has one, and is closed, but not nulled.
NeverClosed == FALSE  \* fault: it is not closed
MustClose == mConnection # 0

SetClose(t) ==
  \/ /\ At(t, "setClose?")
     /\ Proceed(t, IF MustClose THEN "setRelease" ELSE "setOpen")
     /\ UNCHANGED <<connections, mConnection, mUsbInterface, endpoints, mUsbFd, intent>>
  \/ /\ At(t, "setRelease")
     /\ IF mUsbInterface /\ mConnection = 0 THEN Throw(t) /\ UNCHANGED mUsbInterface
        ELSE Proceed(t, "setClose") /\ mUsbInterface' = FALSE
     /\ UNCHANGED <<connections, mConnection, endpoints, mUsbFd, intent>>
  \/ /\ At(t, "setClose")
     /\ IF mConnection = 0 THEN Throw(t) /\ UNCHANGED mUsbInterface
        ELSE Proceed(t, "setOpen") /\ mUsbInterface' = FALSE
     /\ live' = live \ {mConnection}
     /\ UNCHANGED <<made, mConnection, endpoints, mUsbFd, intent>>

\* openDevice gives a connection or null, or throws for a device that is gone.
SetOpen(t) ==
  /\ At(t, "setOpen")
  /\ intent' = IF intent = "refused" THEN "open" ELSE intent
  /\ \/ ~(mUsbManager /\ plugged /\ granted) /\ Throw(t) /\ UNCHANGED <<connections, mConnection>>
     \/ mUsbManager /\ mConnection' = 0 /\ Proceed(t, "setUse?") /\ UNCHANGED connections
     \/ /\ mUsbManager /\ plugged /\ granted /\ made < MaxConnections
        /\ made' = made + 1
        /\ live' = live \cup {made'}
        /\ mConnection' = made'
        /\ Proceed(t, "setUse?")
  /\ UNCHANGED <<mUsbInterface, endpoints, mUsbFd>>

\* The descriptor, interface and end points, if there is a connection.
FirstFd == IF mUsbFd = 0 THEN mConnection ELSE mUsbFd  \* fault: it is kept
NewFd == mConnection

SetUse(t) ==
  \/ /\ At(t, "setUse?")
     /\ IF mConnection # 0 THEN Proceed(t, "setUse") ELSE Return(t, 1)
     /\ UNCHANGED <<connections, mConnection, mUsbInterface, endpoints, mUsbFd, intent>>
  \/ /\ At(t, "setUse")
     /\ \/ /\ mConnection # 0
           /\ mUsbFd' = NewFd
           /\ mUsbInterface' = TRUE
           /\ endpoints' = TRUE
           /\ Return(t, 1)
        \/ mConnection = 0 /\ Throw(t) /\ UNCHANGED <<mUsbInterface, endpoints, mUsbFd>>
     /\ UNCHANGED <<connections, mConnection, intent>>

SetDevice(t) ==
  /\ SetClose(t) \/ SetOpen(t) \/ SetUse(t)
  /\ UNCHANGED <<system, mUsbManager, mListSize, op, recv>>

-----------------------------------------------------------------------------
(* CloseDevice, which the receiver also runs when the device is detached.  *)

CloseConnection(t) ==
  \/ /\ At(t, "close?")
     /\ Proceed(t, IF mConnection # 0 THEN "closeRelease" ELSE "closeRest")
     /\ UNCHANGED <<live, mConnection, mUsbInterface>>
  \/ /\ At(t, "closeRelease")
     /\ IF mUsbInterface /\ mConnection = 0 THEN Throw(t) /\ UNCHANGED mUsbInterface
        ELSE Proceed(t, "close") /\ mUsbInterface' = FALSE
     /\ UNCHANGED <<live, mConnection>>
  \/ /\ At(t, "close")
     /\ IF mConnection # 0 THEN Proceed(t, "closeNull") ELSE Throw(t)
     /\ live' = live \ {mConnection}
     /\ UNCHANGED <<mConnection, mUsbInterface>>
  \/ /\ At(t, "closeNull")
     /\ mConnection' = 0
     /\ Proceed(t, "closeRest")
     /\ UNCHANGED <<live, mUsbInterface>>

\* bAttached is never set, so the receiver stays registered.  After a detach
\* the receiver ends the process.
KeptManager == mUsbManager  \* fault: only the device is forgotten
NoManager == FALSE

CloseRest(t) ==
  /\ At(t, "closeRest")
  /\ mUsbManager' = NoManager
  /\ intent' = "closed"
  /\ IF op[t] = "detached"
     THEN process' = "exited" /\ Goto(t, "idle") /\ UNCHANGED <<monitor, result>>
     ELSE Return(t, 0)

CloseDevice(t) ==
  /\ \/ CloseConnection(t) /\ UNCHANGED <<mUsbManager, intent>>
     \/ CloseRest(t) /\ UNCHANGED <<live, mConnection, mUsbInterface>>
  /\ UNCHANGED <<system, made, endpoints, mUsbFd, mListSize, op, recv>>

-----------------------------------------------------------------------------
(* Transfers.                                                              *)

\* The test that begins each of them; only the bulk ones need an end point.
Ready(t) ==
  /\ At(t, "ready?")
  /\ IF mConnection = 0 \/ (op[t] \in {"SendData", "RecvData"} /\ ~endpoints)
     THEN Return(t, -1)
     ELSE CASE op[t] # "RecvData" -> Proceed(t, "transfer")
            [] op[t] = "RecvData" /\ left[t] > 0 -> Proceed(t, "chunk")
            [] OTHER -> Return(t, 0)
  /\ UNCHANGED <<system, connections, statics, intent, op, recv>>

\* One bulk or control transfer, on what mConnection is by now; on a closed
\* connection or an unplugged device it fails.
Transfer(t) ==
  /\ At(t, "transfer")
  /\ \/ mConnection = 0 /\ Throw(t)
     \/ mConnection # 0 /\ Return(t, -2)
     \/ mConnection \in live /\ plugged /\ Return(t, 0)
  /\ UNCHANGED <<system, connections, statics, intent, op, recv>>

\* One round of RecvData's loop: it asks for a packet, or what is left if that
\* is less, and gets up to as many bytes.
WholePackets(t) == 1..Packet  \* fault: it always asks for a packet
Chunk(t) == 1..(IF left[t] < Packet THEN left[t] ELSE Packet)

LastChunk(t, length) == length  \* fault: only the last chunk is counted
Received(t, length) == index[t] + length

Got(t) ==
  \E length \in Chunk(t) :
    /\ left' = [left EXCEPT ![t] = @ - length]
    /\ index' = [index EXCEPT ![t] = Received(t, length)]
    /\ IF left[t] - length > 0 THEN Proceed(t, "chunk") ELSE Return(t, 0)

RecvChunk(t) ==
  /\ At(t, "chunk")
  /\ \/ mConnection = 0 /\ Throw(t) /\ UNCHANGED <<left, index>>
     \/ mConnection # 0 /\ Return(t, -2) /\ UNCHANGED <<left, index>>
     \/ mConnection \in live /\ plugged /\ Got(t)
  /\ UNCHANGED <<system, connections, statics, intent, op, want>>

-----------------------------------------------------------------------------
(* The user and the USB service.                                           *)

AnswerDialog ==
  /\ process = "running"
  /\ dialogs > 0
  /\ dialogs' = dialogs - 1
  /\ \/ plugged /\ granted' = TRUE /\ queue' = Sent(queue, "granted")
     \/ queue' = Sent(queue, "denied") /\ UNCHANGED granted
  /\ UNCHANGED <<process, plugged, registered, connections, statics, monitor,
                 intent, pc, op, recv, result>>

\* Unplugging takes the permission away and, once, is broadcast.
PlugOrUnplug ==
  /\ process = "running"
  /\ \A i \in DOMAIN queue : queue[i] # "detached"
  /\ plugged' = ~plugged
  /\ granted' = FALSE
  /\ queue' = IF plugged THEN Sent(queue, "detached") ELSE queue
  /\ UNCHANGED <<process, dialogs, registered, connections, statics, monitor,
                 intent, pc, op, recv, result>>

-----------------------------------------------------------------------------

InMonitor == {"permission", "setClose?", "setRelease", "setClose", "setOpen", "setUse?",
              "setUse"}
InClose == {"close?", "closeRelease", "close", "closeNull", "closeRest"}

\* Every step keeps the history of overlaps.
NoteOverlap ==
  overlapped' =
    (overlapped \/ \E t, u \in Threads : pc'[t] \in InMonitor /\ pc'[u] \in InClose)

Continue(t) ==
  /\ \/ Find(t)
     \/ RequestPermission(t)
     \/ RegisterReceiver(t)
     \/ EnterMonitor(t)
     \/ HasPermission(t)
     \/ SetDevice(t)
     \/ CloseDevice(t)
     \/ Ready(t)
     \/ Transfer(t)
     \/ RecvChunk(t)
  /\ NoteOverlap

Start(t) == Call(t) /\ NoteOverlap
Handle == OnReceive /\ NoteOverlap
Environment == (AnswerDialog \/ PlugOrUnplug) /\ NoteOverlap

Next ==
  \/ \E t \in Threads : Start(t) \/ Continue(t)
  \/ Handle
  \/ Environment

Spec == Init /\ [][Next]_vars

\* A thread inside a method is scheduled and the platform's calls return (the
\* transfers have a time limit); the main thread takes its messages.  The
\* user does what he likes.
FairSpec ==
  /\ Spec
  /\ \A t \in Threads : WF_vars(Continue(t))
  /\ WF_vars(Handle)

-----------------------------------------------------------------------------
(* Properties.                                                             *)

\* Every variable stays in its type; in particular RecvData never asks for
\* less than one byte nor counts beyond what was wanted.
TypeOK ==
  /\ process \in {"running", "exited", "dead"}
  /\ {plugged, granted, registered, mUsbManager, mUsbInterface, endpoints}
       \subseteq BOOLEAN
  /\ dialogs \in 0..MaxOpens
  /\ queue \in Seq(Broadcasts)
  /\ made \in 0..MaxConnections
  /\ live \subseteq 1..made
  /\ {mConnection, mUsbFd} \subseteq 0..made
  /\ mListSize \in 0..MaxOpens
  /\ monitor \in Threads \cup {Nobody}
  /\ intent \in {"closed", "open", "refused"}
  /\ overlapped \in BOOLEAN
  /\ pc \in [Threads -> Pc]
  /\ op \in [Threads -> Methods \cup Broadcasts]
  /\ want \in [Threads -> 0..MaxLen]
  /\ left \in [Threads -> 0..MaxLen]
  /\ index \in [Threads -> 0..MaxLen]
  /\ result \in [Threads -> {Exception, -2, -1, 0, 1}]

\* No two threads are in setDevice at once, and whoever leaves it, by an
\* exception too, leaves the monitor: nobody else holds it.
MonitorHeld ==
  \A t \in Threads :
    process = "running" => (monitor = t <=> (pc[t] \in InMonitor))

\* No thread is opening or closing the device, in a process that goes on.
Settled ==
  process = "running" /\ \A t \in Threads : pc[t] \notin InMonitor \cup InClose

\* Once settled, a connection that is open in the USB service is the one that
\* mConnection names: reopening, by a second OpenDevice or by a late permission
\* broadcast, on whichever thread, leaks none, unless a CloseDevice has
\* overlapped a setDevice, which the monitor does not prevent.
NoLeakedConnection == Settled /\ ~overlapped => live \subseteq {mConnection}

\* Then also the descriptor that getUsbFd gives away, the interface and the
\* end points are those of the connection.
StaticsBelongTogether ==
  Settled /\ ~overlapped /\ mConnection \in live =>
    mUsbFd = mConnection /\ mUsbInterface /\ endpoints

\* Without such an overlap, a device that was closed stays closed until the
\* next FindUsbList, also when an OpenDevice of another thread was half done
\* or the permission arrives only now (for want of mUsbManager they fail).
ClosedStaysClosed ==
  Settled /\ ~overlapped /\ intent = "closed" => mConnection = 0 /\ live = {}

\* An OpenDevice that was refused is not forgotten when the user grants the
\* permission, whenever he does: a broadcast is on its way to the receiver,
\* or being handled.
GrantReachesDriver ==
  intent = "refused" /\ granted /\ process = "running" =>
    \/ \E i \in DOMAIN queue : queue[i] = "granted"
    \/ \E t \in Threads : pc[t] \in InMonitor \cup {"enter"}

\* Whatever is reopened or closed meanwhile, a RecvData that reports success
\* has counted exactly the bytes that were wanted.
RecvComplete ==
  \A t \in Threads :
    pc[t] = "idle" /\ op[t] = "RecvData" /\ result[t] = 0 =>
      left[t] = 0 /\ index[t] = want[t]

\* Every method returns or throws, and every broadcast is handled, unless the
\* process ends: nobody keeps the monitor.
MethodsReturn ==
  \A t \in Threads : pc[t] # "idle" ~> (pc[t] = "idle" \/ process # "running")

\* UsbDriver_CCallJava.h: opening the device returns 0 on success, -1 if no
\* device matches and -2 without permission.  So with any result but these two
\* the device is open when OpenDevice returns.
OpenMeansConnected ==
  [][\A t \in Threads :
       pc[t] # "idle" /\ pc'[t] = "idle" /\ op[t] = "OpenDevice" /\ result'[t] >= 0
         => mConnection # 0]_vars
=============================================================================
