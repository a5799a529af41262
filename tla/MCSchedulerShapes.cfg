CONSTANTS
    NoWorker = NoWorker
    NoJob = NoJob
    Partitions = {p1}
    OneWorker = {w}
    TwoWorkers = {w1, w2}
    OneCluster = {c}
    TwoClusters = {c1, c2}
    MaxFaults = 2
    MaxJobsPerPartition = 2
    HasCommit = TRUE
    ObserveAll = TRUE
    StartupProbeMayFail = FALSE
SPECIFICATION ShapesSpec
SYMMETRY Symmetry
INVARIANTS
    TypeOK
    CommittedIsBuilt
    QueueMatchesPlan
    Contiguous
    WaitingJobsAhead
    AssignedKeyIsNew
    HolderHasSpec
