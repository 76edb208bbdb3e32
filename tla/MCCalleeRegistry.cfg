SPECIFICATION CalleeSpec
CONSTANTS
  c1 = c1
  c2 = c2
  c3 = c3
  NoCall = NoCall
  Calls <- AllCalls
  TeeCalls <- TwoTee
  MaxMishaps = 1
SYMMETRY TeeSymmetry
INVARIANTS
  LoopsAreRegistered
  FreshUnlessRaced
  ReportsOwnIfAlone
CHECK_DEADLOCK FALSE
