CONSTANTS
    j1 = j1
    j2 = j2
    w1 = w1
    w2 = w2
    NoWorker = NoWorker
    NoJob = NoJob
    Jobs <- OneJob
    Workers <- TwoWorkers
    TotalSteps = 3
    PatchedTotals = {2}
    MetricEvery = 1
    CheckpointEvery = 2
    ValidateFrom = {"draft"}
    QueueFrom <- QueueAllowed
    CancelFrom <- CancelAllowed
    RaisesIn <- ButCompletion
    SlowWorkers = FALSE
    MaxCrashes = 2
    MaxDamage = 1
    MaxGeneration = 4
    MaxCheckpoints = 4
    RecoveriesUsed <- RecoveryTypes
SPECIFICATION Spec
INVARIANT TypeOK
INVARIANT WorkersKeepTheirLease
INVARIANT CheckpointsAreHonest
INVARIANT ClaimableIsResumable
INVARIANT RejectedMeansDamaged
INVARIANT CompletedMeansTrained
PROPERTY OutcomesAreFinal
PROPERTY ProgressIsDurable
CHECK_DEADLOCK FALSE
