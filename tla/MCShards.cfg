CONSTANTS
    Tenants = {t1, t2}
    none = none
    MaxShards = 3
    MaxWrites = 2
    MaxStarts = 5
SPECIFICATION Spec
SYMMETRY Symmetry
CHECK_DEADLOCK FALSE
INVARIANTS
    NeverRefused
    OneBucketAtHome
PROPERTIES
    LastBucketStays
    ImplementsStore
