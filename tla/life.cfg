SPECIFICATION LifeSpec
CONSTANTS
  m1 = m1
  m2 = m2
  c1 = c1
  c2 = c2
  c3 = c3
  None = None
  Call <- ThreeCalls
  Machine <- TwoMachines
  On <- OnOwn
  Overlap = FALSE
  WithOverride <- Second
  Prefetch = TRUE
  MaxTerms = 1
  MaxVoid = 1
  MaxQueries = 2
  MaxWork = 3
INVARIANTS
  ReportsItself
  FailsByItself
  OverrideEveryTime
  PrefetcherClosed
CHECK_DEADLOCK FALSE
