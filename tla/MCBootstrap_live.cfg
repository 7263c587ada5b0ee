CONSTANTS
  N <- MCN
SPECIFICATION FairSpec
PROPERTY BootstrapCompletes
CHECK_DEADLOCK FALSE
