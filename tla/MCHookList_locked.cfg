SPECIFICATION FairSpec
CONSTANTS
  NULL = NULL
  mid1 = mid1
  mid2 = mid2
  high = high
  Hooks = {mid1, mid2, high}
  Threads = {t1, t2}
  Prio <- MCPrio
  Locked = TRUE
  MaxRuns = 1
INVARIANTS TypeOK NoLostHook Sorted CalledInOrder CalledAll NoLeak
PROPERTIES OrderSpec Returns
