CONSTANTS
    j1 = j1
    j2 = j2
    w1 = w1
    w2 = w2
    NoWorker = NoWorker
    NoJob = NoJob
    Jobs <- OneJob
    Workers <- TwoWorkers
    TotalSteps = 2
    PatchedTotals = {2}
    MetricEvery = 1
    CheckpointEvery = 2
    ValidateFrom = {"draft"}
    QueueFrom = {"draft", "validating"}
    CancelFrom = {}
    RaisesIn = {}
    SlowWorkers = FALSE
    MaxCrashes = 2
    MaxDamage = 0
    MaxGeneration = 9
    MaxCheckpoints = 9
    RecoveriesUsed = {"stale_lease"}
SPECIFICATION OperatedSpec
PROPERTY LostRunsAreFlagged
PROPERTY JobsSurviveCrashes
CHECK_DEADLOCK FALSE
