\* Attempts before the dead-letter queue.
CONSTANTS
    d1 = d1  d2 = d2  t1 = t1
    Docs <- OneDoc
    BadIds = {}
    Garbage = {}
    None = None
    Tenants = {t1}
    TenantOf <- OneTenant
    Reqs = {r1}
    Workers = {w1}
    MsgIds = {m1, m2}
    MaxAttempts = 3
    BatchSize = 2
    SweepLimit = 2
    Rejected = {d1}
    Tombstones = TRUE
    MaxFaults = 2
SPECIFICATION Spec
CHECK_DEADLOCK FALSE
PROPERTIES AttemptsBeforeDeadLetter
