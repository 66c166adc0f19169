\* Two threads, two activities, and more clicks than slots: with a failed
\* creation among them, pt is filled and overrun.
CONSTANTS
  w1 = w1
  w2 = w2
  Workers <- TwoWorkers
  NumThreads = 2
  Rounds = 2
  MaxSetups = 2
  MaxClicks = 3
  Clobbered <- ClobberedValues
  None = None
SPECIFICATION FairSpec
INVARIANTS
  TypeOK
  WorkersSeeGlobals
  NoDanglingReference
  BufferPrivate
  ExitsDetached
  HandlesKept
PROPERTIES
  ImplementsJobs
  EveryWorkerReturns
\* The UI thread stops when the bounds are used up, or the process died.
CHECK_DEADLOCK FALSE
