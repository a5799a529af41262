CONSTANTS
    Tenants = {t1, t2, t3}
    Calls = {c1}
    MaxJobs = 2
    MaxEvents = 0
    FreeReassign = TRUE
    nil = nil
SPECIFICATION OneHasTwoSpec
CHECK_DEADLOCK FALSE
PROPERTY
    EveryTenantServed
