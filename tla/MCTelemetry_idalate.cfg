CONSTANTS
  h1 = h1  h2 = h2  h3 = h3
  x1 = x1  x2 = x2
  t1 = t1  t2 = t2
  Zero = Zero
  Free = Free
  Handlers <- MCHandlers
  Ids <- MCIds
  Times <- MCTimes
  FinalCap <- MCFinalCap
  MsgTypes <- IdaTypes
SYMMETRY Symmetry
SPECIFICATION Spec
INVARIANT IdaLineComplete
CHECK_DEADLOCK FALSE
