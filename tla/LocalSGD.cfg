SPECIFICATION FairSpec
CONSTANTS
  NumReplicas = 3
  MinReplicas = 2
  NumFragments = 2
  Every = 2
  Algorithms <- MCAlgorithms
  MaxFaults = 1
  StepBound = 3
  None = None
  NoRank = NoRank
INVARIANTS
  ReplicasAgree ParamsFollowOriginal EveryFragmentInTurn
PROPERTIES
  CommitsArrivedAverage RoundsEnd
CHECK_DEADLOCK FALSE
