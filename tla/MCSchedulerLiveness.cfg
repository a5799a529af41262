CONSTANTS
    NoWorker = NoWorker
    NoJob = NoJob
    Partitions = {p1, p2}
    Clusters = {c1}
    Workers = {w1, w2}
    MaxOffset = 2
    MaxRecords = 2
    MaxFaults = 1
    MaxJobsPerPartition = 1
    HasCommit = FALSE
    ObserveAll = TRUE
    StartupProbeMayFail = FALSE
SPECIFICATION FairSpec
PROPERTIES
    EverythingCommitted
    ImplementsAtLeastOnce
