\* A native thread and one from Java.
CONSTANTS
  n1 = n1
  j1 = j1
  Threads <- NativeAndJava
  JavaThreads <- OnlyJ1
  Calls <- ThreeCalls
  NoOne = NoOne
  BufSize = 2
  MaxEntries = 4
SPECIFICATION FairSpec
INVARIANTS
  TypeOK
  FirstCallSound
  DetachedAfterCall
  AnswersPassedOn
PROPERTY CallsReturn
\* The bound on entries is used up, or the process died.
CHECK_DEADLOCK FALSE
