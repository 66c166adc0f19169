\* One native thread: SetJniEnv and one call.
CONSTANTS
  n1 = n1
  j1 = j1
  Threads <- OneNative
  JavaThreads <- NoJava
  Calls <- ThreeCalls
  NoOne = NoOne
  BufSize = 2
  MaxEntries = 2
SPECIFICATION Spec
INVARIANT RecvReportsFailure
\* The bound on entries is used up, or the process died.
CHECK_DEADLOCK FALSE
