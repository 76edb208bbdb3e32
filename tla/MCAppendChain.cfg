SPECIFICATION FairSpec
CONSTANTS
  Calls = {c1, c2, c3, c4}
  Nil = Nil
INVARIANTS
  NoFork
  WalkIsHistory
PROPERTIES
  LogRefinement
  AppendsSettle
CHECK_DEADLOCK FALSE
