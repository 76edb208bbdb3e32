SPECIFICATION Spec
CONSTANTS
  Flows = {f1, f2}
  Edits = {e1, e2}
  SkillIds = {s1, s2}
  MaxSkills = 1
  Nil = Nil
  MaxFaults = 1
SYMMETRY Symmetry
INVARIANTS
  RecordsMatchRow
  DoneMeansOwned
  SecondTokenOnlyByMishap
  CardListsActive
  CapUnlessRaced
CHECK_DEADLOCK FALSE
