\* The main thread opens and closes while a worker opens and receives.
CONSTANTS
  ui = ui
  worker = worker
  Main = ui
  Threads <- MainAndWorker
  MayCall <- Rivals
  Nobody = Nobody
  MaxOpens = 2
  MaxConnections = 2
  MaxLen = 2
  Packet = 2
SPECIFICATION FairSpec
INVARIANTS
  TypeOK
  NoLeakedConnection
  StaticsBelongTogether
  ClosedStaysClosed
  GrantReachesDriver
  MonitorHeld
  RecvComplete
PROPERTY MethodsReturn
\* Nothing need happen once the process has ended.
CHECK_DEADLOCK FALSE
