SPECIFICATION Spec
CONSTANTS
  NULL = NULL
  u1 = u1
  u2 = u2
  u3 = u3
  Ends = {e1, e2}
  Verbs = {GET, POST}
  Urls = {u1, u2, u3}
  TooLong = {u3}
  Hash <- Hashes
  Buckets = 3
  MayFail = TRUE
  MaxUrls = 4
INVARIANTS TypeOK NoUndefined NoLeak
PROPERTIES RouterSpec
SYMMETRY Symmetry
CHECK_DEADLOCK FALSE
