\* The loop of test() alone.
CONSTANTS
  c1 = c1
  c2 = c2
  cardA = cardA
  cardB = cardB
  Callers <- OneCaller
  Cards <- OneCard
  PathSensors <- OnePathSensor
  NoCard = NoCard
  MaxCalls = 1
SPECIFICATION Spec
INVARIANT ScansOnlyUnderClosedCover
\* The callers stop when the bound on calls is used up, or the process died.
CHECK_DEADLOCK FALSE
