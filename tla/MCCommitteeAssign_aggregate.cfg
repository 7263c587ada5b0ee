CONSTANTS
  MaxN <- MCMaxN
  CommitteeF = 2
  TotalF = 3
SPECIFICATION Spec
INVARIANT AggregateBound
CHECK_DEADLOCK FALSE
