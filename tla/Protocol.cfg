SPECIFICATION PSpec
CONSTANTS
  Slots = 3
  Lives = 2
  MinReplicas = 2
  InitSync = TRUE
  FixedWithSpares = FALSE
  Stragglers = FALSE
  PartialFailures = TRUE
  LighthouseFaults = FALSE
  MaxFaults = 2
  StepBound = 2
  None = None
  NoRank = NoRank
  MaxReplicas = 4
  MaxSteps = 2
  MaxGroupRank = 3
  MaxRows = 4
  MaxWorld = 3
  Columns = {1, 4, 5}
  MaxSize = 13
INVARIANTS
  WeightsAgree GroupsAreQuorums ParticipantsAreAveraged
  RecoveryFits CollectivesSum ShardsCover
CHECK_DEADLOCK FALSE
