SPECIFICATION Spec
CONSTANTS
  Slots = 3
  Lives = 2
  MinReplicas = 2
  InitSync = FALSE
  FixedWithSpares = FALSE
  Stragglers = TRUE
  PartialFailures = FALSE
  LighthouseFaults = FALSE
  MaxFaults = 1
  StepBound = 1
  None = None
  NoRank = NoRank
INVARIANTS
  SameStepSameWeights
CHECK_DEADLOCK FALSE
