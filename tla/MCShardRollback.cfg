CONSTANTS
    Tenants = {t1}
    none = none
    MaxShards = 2
    MaxWrites = 1
    MaxStarts = 4
SPECIFICATION Spec
CHECK_DEADLOCK FALSE
INVARIANTS
    SourcesEquivalent
