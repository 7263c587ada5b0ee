CONSTANTS
  MaxN <- MCMaxN
  CommitteeF = 2
  TotalF = 3
SPECIFICATION Spec
INVARIANT AssignPassesVerification
CHECK_DEADLOCK FALSE
