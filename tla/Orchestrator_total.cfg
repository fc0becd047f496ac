SPECIFICATION Spec
CONSTANTS
  Node = {a, b, c}
  MaxConcurrent = 1
  MaxTotal = 2
  MaxRatio = 2
  Recording = FALSE
  MaxRounds = 1
INVARIANT TotalBounded
CHECK_DEADLOCK FALSE
