SPECIFICATION Spec
CONSTANTS
  NULL = NULL
  Wild = Wild
  Ends = {e1, e2}
  ReqIds = {r1, r2}
  StoreIds = {s1, s2, s3}
  Uninit <- Zeroed
  MayFail <- ShrinkFails
  HookErrors <- Errors
  Growth = 500
  MaxEvents = 3
INVARIANTS NoUndefined CountsMatchHeap
