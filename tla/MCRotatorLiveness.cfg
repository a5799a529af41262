CONSTANTS
    Tenants = {t1, t2}
    Calls = {c1}
    MaxJobs = 1
    MaxEvents = 1
    FreeReassign = FALSE
    nil = nil
SPECIFICATION OneJobSpec
CHECK_DEADLOCK FALSE
PROPERTIES
    WorkIsLeased
