SPECIFICATION TSpec
CONSTANTS
    Threads <- MCThreads
    Trainer <- MCTrainer
    Chunk <- MCChunk
    Configs <- MCConfigs
    NumTensors = 3
    MaxStep = 1
    MaxRecvs = 1
    MayRetry = FALSE
    Dsts = {d1, d2}
    NumLeaves = 2
    LastStep = 1
    MaxAttempts = 2
INVARIANTS TypesOK ReceivedIsCheckpoint DisallowedSendsNothing LockSafe ReceivedIsWhole
PROPERTIES TransfersEnd
CHECK_DEADLOCK FALSE
