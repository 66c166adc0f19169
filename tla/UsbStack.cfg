\* One native thread under the bridge, and the main thread.
CONSTANTS
  ui = ui
  n1 = n1
  Main = ui
  Threads <- MainAndOne
  Natives <- OneNative
  MayCall <- OneCalls
  Nobody = Nobody
  MaxOpens = 4
  MaxConnections = 2
  MaxLen = 1
  Packet = 1
  BufSize = 2
  MaxEntries = 4
SPECIFICATION StackSpec
INVARIANT ClosedWhenReported
PROPERTY BridgeServed
\* The bound on entries is used up, or the process ended.
CHECK_DEADLOCK FALSE
