SPECIFICATION Spec
CONSTANTS
  NULL = NULL
  b1 = b1
  b2 = b2
  Glob = Glob
  t1 = t1
  t2 = t2
  n1 = n1
  n2 = n2
  char = char
  int = int
  end = end
  Threads = {t1, t2}
  Names = {n1, n2}
  Types = {char, int}
  Size <- Sizes
  Endpoints = {end}
  Registrars <- Shared
  Hash <- Hashes
  Buckets = 3
  SizeMax = 5
  MaxVars = 2
  Blocks = {b1, b2}
INVARIANTS TypeOK Disjoint InStore FirstWins GetInBlock
CHECK_DEADLOCK FALSE
