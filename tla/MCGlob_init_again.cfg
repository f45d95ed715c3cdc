SPECIFICATION Spec
CONSTANTS
  NULL = NULL
  u1 = u1
  u2 = u2
  u3 = u3
  Ends = {e1, e2}
  Verbs = {GET, POST}
  Urls = {u1, u2, u3}
  TooLong = {u3}
  Hash <- Hashes
  Buckets = 3
  MayFail = FALSE
  MaxUrls = 4
INVARIANT InitAgain
CHECK_DEADLOCK FALSE
