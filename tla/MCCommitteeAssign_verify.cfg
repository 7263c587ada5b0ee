CONSTANTS
  MaxN <- MCMaxN
  CommitteeF = 2
  TotalF = 3
SPECIFICATION Spec
INVARIANT TypeOK
PROPERTY RecountCountsOwnCommittee
CHECK_DEADLOCK FALSE
