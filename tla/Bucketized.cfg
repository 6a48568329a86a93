SPECIFICATION AlgorithmsSpec
CONSTANTS
  NoRank = NoRank
  None = None
  MaxReplicas = 4
  MaxSteps = 2
  MaxGroupRank = 3
  MaxRows = 4
  MaxWorld = 3
  Columns = {1, 4, 5}
  MaxSize = 13
INVARIANTS
  BucketsAverageAll
