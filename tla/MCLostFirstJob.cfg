CONSTANTS
    NoWorker = NoWorker
    NoJob = NoJob
    Partitions = {p1}
    Clusters = {c1}
    Workers = {w1, w2}
    MaxOffset = 2
    MaxRecords = 2
    MaxFaults = 2
    MaxJobsPerPartition = 2
    HasCommit = FALSE
    ObserveAll = TRUE
    StartupProbeMayFail = FALSE
SPECIFICATION Spec
SYMMETRY Symmetry
INVARIANTS
    CommittedIsBuilt
