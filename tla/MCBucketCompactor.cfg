CONSTANTS
    Ranges <- RangesDef
    Windows <- WindowsDef
    SplitGroups = 1
    Compactors = {k1, k2}
    Hashes = {0, 1}
    ShardCounts = {2}
    Early = 4
    Late = 9
    MaxSources = 3
    MaxFaults = 2
SPECIFICATION MCSpec
SYMMETRY Symmetry
INVARIANTS
    NoDataLost
    PlanSound
    IdleMeansOnce
    WorkBounded
