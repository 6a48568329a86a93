SPECIFICATION Spec
SYMMETRY Symmetry
CONSTANTS
  Replicas = {r1, r2, r3}
  Handlers = {h1, h2}
  MinReplicas = 2
  HeartbeatTimeout = 1
  JoinTimeout = 1
  ChannelCap = 1
  ShrinkInputs = {FALSE}
  FailureInputs = {0}
  Overlapping = TRUE
  Steady = {}
  MaxQuorumId = 2
  MaxEpoch = 0
  None = None
INVARIANTS TypeOK QuorumIdNamesMembers NoLostWaiter QuorumLargeEnough
