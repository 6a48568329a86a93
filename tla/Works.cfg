SPECIFICATION WSpec
CONSTANTS
    Parts = {"timeouts", "managed", "baby", "nccl", "swallow"}
    Futs = {f1}
    Blocks = {b1}
    Streams = {s1}
    MaxUses = 2
    MayRaise = TRUE
    NumBuckets = 3
    Uses = {"ddp", "pure", "wait", "sync"}
    MaxOps = 2
    FreesFirst = TRUE
    SynchronizeGloo = FALSE
    MaxConfigs = 2
    MaxComms = 3
    MaxCalls = 3
    MaxConfs = 3
INVARIANTS TypesOK NothingGoesOffWrongly VotesAreInformed AnswersMatch ErrorsAreTheSteps
PROPERTIES NothingAfterFailure TimeoutsEnd StepEnds FutureCompletes OperationsEnd
CHECK_DEADLOCK FALSE
