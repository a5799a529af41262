CONSTANTS
    Tenants = {t1, t2}
    Calls = {c1, c2}
    MaxJobs = 1
    MaxEvents = 1
    FreeReassign = FALSE
    nil = nil
SPECIFICATION Spec
SYMMETRY Symmetry
CHECK_DEADLOCK FALSE
INVARIANTS
    TypeOK
    RotationWellFormed
    RotationHasWork
    NoTenantSkipped
    NotFoundIsReal
    KnownTenantsAgree
PROPERTY
    ClosedIsQuiet
