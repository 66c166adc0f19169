\* One caller at a time, all sensors.
CONSTANTS
  c1 = c1
  c2 = c2
  cardA = cardA
  cardB = cardB
  Callers <- OneCaller
  Cards <- TwoCards
  PathSensors <- AllPathSensors
  NoCard = NoCard
  MaxCalls = 4
SPECIFICATION Spec
INVARIANTS
  TypeOK
  DriverCallsWhileOpen
  TableMeansOpen
  StatusWhileOnline
  ScanInPlace
\* The callers stop when the bound on calls is used up, or the process died.
CHECK_DEADLOCK FALSE
