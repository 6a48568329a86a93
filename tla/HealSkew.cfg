SPECIFICATION Spec
CONSTANTS
  Ranks = {g1, g2}
  QuorumRetries = 0
  HealFailures = TRUE
  VoteTimeouts = FALSE
  MaxStep = 3
  MaxRounds = 3
  None = None
PROPERTIES CommitsOneStep
CHECK_DEADLOCK FALSE
