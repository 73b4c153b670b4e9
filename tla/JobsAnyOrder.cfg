CONSTANTS
    j1 = j1
    j2 = j2
    w1 = w1
    w2 = w2
    NoWorker = NoWorker
    NoJob = NoJob
    Jobs <- OneJob
    Workers <- TwoWorkers
    TotalSteps = 2
    PatchedTotals = {3}
    MetricEvery = 1
    CheckpointEvery = 2
    ValidateFrom <- AnyStatus
    QueueFrom <- QueueAllowed
    CancelFrom <- CancelAllowed
    RaisesIn <- Anywhere
    SlowWorkers = TRUE
    MaxCrashes = 1
    MaxDamage = 0
    MaxGeneration = 2
    MaxCheckpoints = 2
    RecoveriesUsed <- RecoveryTypes
SPECIFICATION Spec
SYMMETRY Interchangeable
INVARIANT TokensAreUnique
INVARIANT FlaggedNeverRuns
CHECK_DEADLOCK FALSE
