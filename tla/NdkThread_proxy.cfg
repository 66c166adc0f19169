\* A second activity replaces the first.
CONSTANTS
  w1 = w1
  w2 = w2
  Workers <- TwoWorkers
  NumThreads = 2
  Rounds = 1
  MaxSetups = 2
  MaxClicks = 1
  Clobbered <- ClobberedValues
  None = None
SPECIFICATION Spec
INVARIANT ProxyIsWeak
\* The UI thread stops when the bounds are used up, or the process died.
CHECK_DEADLOCK FALSE
