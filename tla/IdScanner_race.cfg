\* Two callers that interfere: the loop of test() keeps to its own readings,
\* and every other call ends.
CONSTANTS
  c1 = c1
  c2 = c2
  cardA = cardA
  cardB = cardB
  Callers <- TwoCallers
  Cards <- NoCards
  PathSensors <- OnePathSensor
  NoCard = NoCard
  MaxCalls = 2
SPECIFICATION FairSpec
INVARIANTS
  ScansOnlyReadyCards
  SettingsWhole
PROPERTIES
  TestCycles
  EntryPointsReturn
\* The callers stop when the bound on calls is used up, or the process died.
CHECK_DEADLOCK FALSE
