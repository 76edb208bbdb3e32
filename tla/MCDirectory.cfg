SPECIFICATION Spec
CONSTANTS
  Procs = {p1, p2, p3, p4}
  Names = {n1, n2}
  s1 = s1
  s2 = s2
  s3 = s3
  Skills = {s1, s2, s3}
  Attested <- MCAttested
  Listed = {s1, s2}
  Lookback = 1
  Nil = Nil
  Absent = Absent
  Torn = Torn
  MaxCalls = 2
  MaxFaults = 1
SYMMETRY Symmetry
INVARIANTS
  OneIdentity
  TokenKeptUnlessMishap
  EntryCoherent
CHECK_DEADLOCK FALSE
