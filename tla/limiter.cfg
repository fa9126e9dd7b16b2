CONSTANTS
  Keys = {k1, k2}
  Limit = 2
  Window = 2
  PerSecond = 2
  MaxTime = 8
SPECIFICATION Spec
SYMMETRY KeySymmetry
INVARIANTS TypeOK LimitHolds RetryAfterSuffices
PROPERTY ImplementsSlidingWindow
