SPECIFICATION FairSpec
CONSTANTS
  Requests <- MCRequests
  Nonces <- MCNonces
  Skills <- MCSkills
  StreamSkills <- MCStreamSkills
  InferringSkills <- MCStreamSkills
  RequirePayment = TRUE
  MaxAge = 1
  NonceCacheSize = 1
  SnapshotEvery = 2
  Nil = Nil
  MaxTime = 2
  MaxDeliveries = 3
  MaxFaults = 1
  MaxRestarts = 1
  MaxChunks = 1
INVARIANTS
  ReplayDistance
  OneAnswer
  RepMatchesAnswers
  StatsMatchRep
  TeeOfAnsweredCall
PROPERTIES
  LoopDrains
CHECK_DEADLOCK FALSE
