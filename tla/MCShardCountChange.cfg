CONSTANTS
    Ranges <- RangesDef
    Windows <- WindowsDef
    SplitGroups = 1
    Compactors = {k1}
    Hashes = {0, 1, 2, 3, 4, 5}
    ShardCounts = {2, 3}
    Early = 4
    Late = 9
    MaxSources = 1
    MaxFaults = 2
SPECIFICATION MCSpec
INVARIANTS
    NoDataLost
