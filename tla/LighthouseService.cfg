SPECIFICATION Spec
SYMMETRY Symmetry
CONSTANTS
  Replicas = {r1, r2}
  Handlers = {h1, h2}
  MinReplicas = 1
  HeartbeatTimeout = 1
  JoinTimeout = 1
  ChannelCap = 1
  ShrinkInputs = {FALSE, TRUE}
  FailureInputs = {0, 1}
  Overlapping = FALSE
  Steady = {}
  MaxQuorumId = 2
  MaxEpoch = 1
  None = None
PROPERTIES ImplementsService AnswersInOrder FailureGetsFreshId
