SPECIFICATION Spec
CONSTANTS
  NULL = NULL
  p1 = p1
  p2 = p2
  a = a
  Threads = {p1}
  Calls <- AddsThenPolls
  CallbackCalls = {}
  Safe = FALSE
  MayFail = {}
  InitialSize = 10
  Growth = 1618
  MaxLen = 4
  Fd0 = f0
  Fds = {f0, f1}
INVARIANT CallbacksFit
CHECK_DEADLOCK FALSE
