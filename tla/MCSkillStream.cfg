SPECIFICATION PanelSpec
CONSTANTS
  MaxChunks = 2
  MaxFaults = 2
  Skills = {s1, s2}
  Limit = 1
  MaxCalls = 2
  Nil = Nil
INVARIANTS
  ShowsOneCall
  WholeUnlessMishap
PROPERTIES
  PageSeesStream
  CallsEnd
CHECK_DEADLOCK FALSE
