CONSTANTS
    Blocks = {b1, b2}
    JobIds = {j1, j2}
    Workers = {w1, w2}
    MaxLeases = 2
    MaxGen = 4
    MaxWork = 2
    MaxFaults = 1
SPECIFICATION MCSpec
SYMMETRY Symmetry
CHECK_DEADLOCK FALSE
INVARIANTS
    ListsMatchJobs
    OldestLeaseFirst
    DiskMatchesMemory
    NoRecompaction
    JobsShareNoBlock
    KeyNamesItsJob
PROPERTY
    ImplementsClaims
