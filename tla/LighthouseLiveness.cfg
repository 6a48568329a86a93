SPECIFICATION StragglingSpec
CONSTANTS
  Replicas = {r1, r2, r3}
  Handlers = {h1, h2}
  MinReplicas = 1
  HeartbeatTimeout = 2
  JoinTimeout = 1
  ChannelCap = 1
  ShrinkInputs = {FALSE}
  FailureInputs = {0}
  Overlapping = FALSE
  Steady = {r1, r2}
  MaxQuorumId = 2
  MaxEpoch = 0
  None = None
PROPERTIES CallsEnd
