SPECIFICATION FairSpec
CONSTANTS
  q1 = q1
  m1 = m1
  m2 = m2
  a1 = a1
  x = x
  y = y
  Reqs = {m1, m2, q1, a1}
  Workloads <- Mixed
  Rows = {x, y}
  PoolSize = 2
  Allowlist = TRUE
  Faults = 1
INVARIANT AtomicMutation
INVARIANT QuerySeesWholeMutations
INVARIANT NothingLeaks
INVARIANT ActionAnswerIsWhole
INVARIANT NoStandstill
PROPERTY EveryRequestEnds
CHECK_DEADLOCK FALSE
