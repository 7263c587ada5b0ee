CONSTANTS
  MaxN <- MCMaxN
  CommitteeF = 2
  TotalF = 3
SPECIFICATION Spec
INVARIANT NoDivZeroPanic
CHECK_DEADLOCK FALSE
