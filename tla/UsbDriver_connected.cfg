\* One OpenDevice.
CONSTANTS
  ui = ui
  worker = worker
  Main = ui
  Threads <- OnlyMain
  MayCall <- AllOnMain
  Nobody = Nobody
  MaxOpens = 1
  MaxConnections = 1
  MaxLen = 1
  Packet = 1
SPECIFICATION Spec
PROPERTY OpenMeansConnected
\* Nothing need happen once the process has ended.
CHECK_DEADLOCK FALSE
