CONSTANTS
  MaxN <- MCMaxN
  CommitteeF = 2
  TotalF = 3
SPECIFICATION Spec
INVARIANT NoIndexPanic
CHECK_DEADLOCK FALSE
