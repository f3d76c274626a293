SPECIFICATION MCSpec
CONSTANTS
  Words = 3
  PageWords = 1
  MaxWrites = 2
  MaxRestarts = 1
  a = a
  b = b
  x = x
  y = y
  RcTargets = {t1, t2}
  RcPaths = {a, b}
  RcProducts = {x, y}
  RcProductOf <- ProductOf
  MaxVersion = 2
  RcUpdated = {a}
  MaxRegions = 2
  MaxPublished = 2
  UnloadMidway = FALSE
  Allocators = {a1, a2}
  Tracers = {p1}
  Slots = 3
  LimThreads = {r1, r2}
  Limits = {1, 2}
  Granularity = 2
  MaxNow = 2
  MaxIncs = 7
  MaxRates = 1
SYMMETRY Symmetry
CHECK_DEADLOCK FALSE
INVARIANTS ReadsWholeWrites NoTwoApplied NoneMeansApplied SlotsSound RateHolds
