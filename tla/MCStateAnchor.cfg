SPECIFICATION AnchorFairSpec
CONSTANTS
  Calls = {a1, a2, c1, d1}
  AgentRotations = {a1, a2}
  CliRotations = {c1}
  DashRotations = {d1}
  Nil = Nil
  MaxInFlight = 2
  MaxFaults = 1
  MaxRestarts = 1
INVARIANTS
  LineageUnlessMishap
PROPERTIES
  RotationsEnd
CHECK_DEADLOCK FALSE
