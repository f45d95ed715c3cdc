SPECIFICATION FairSpec
CONSTANTS
  NULL = NULL
  p1 = p1
  p2 = p2
  a = a
  Threads = {p1, p2, a}
  Calls <- TwoPollers
  CallbackCalls = {"stop"}
  Safe = FALSE
  MayFail = {"poll", "main_poll", "callbacks"}
  InitialSize = 2
  Growth = 1618
  MaxLen = 4
  Fd0 = f0
  Fds = {f0}
INVARIANTS TypeOK OneDispatcher SlotFree RoundServesAll
PROPERTIES RoundStable StopReturns
CHECK_DEADLOCK FALSE
