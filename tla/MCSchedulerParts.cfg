CONSTANTS
    NoWorker = NoWorker
    JobIDs = {j1, j2}
    Workers = {w1, w2}
    Specs = {s1}
    MaxEpoch = 4
    NumClusters = 3
    NumJobs = 3
    MaxStart = 1
    Clusters = {c1, c2}
    JobSize = 4
    EndTime = 8
    MaxScanAge = 7
    LogStart = 1
    MaxRecords = 3
SPECIFICATION PartsSpec
INVARIANTS
    ListMatchesJobs
    KeysUnique
    OrderedRight
    CycleIffCyclic
    CoversBacklog
    OneBucketPerJob
PROPERTIES
    StaleKeyNeverCompletes
    Terminates
