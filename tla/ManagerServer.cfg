SPECIFICATION MSpec
CONSTANTS
  Ranks = {g1, g2, g3}
  QuorumRetries = 1
  HealFailures = FALSE
  VoteTimeouts = TRUE
  MaxStep = 3
  MaxRounds = 4
  None = None
INVARIANTS TypeOK NoLostRank RanksKeepStep
PROPERTIES DecisionsFitVotes HealsAnswered
CHECK_DEADLOCK FALSE
