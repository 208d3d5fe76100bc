\* Convergence under fairness, beside a document that the cluster refuses and a
\* sweep that has room for one.
CONSTANTS
    d1 = d1  d2 = d2  t1 = t1
    Docs <- TwoDocs
    BadIds = {}
    Garbage = {}
    None = None
    Tenants = {t1}
    TenantOf <- OneTenant
    Reqs = {r1}
    Workers = {w1}
    MsgIds = {m1}
    MaxAttempts = 3
    BatchSize = 1
    SweepLimit = 1
    Rejected = {d2}
    Tombstones = TRUE
    MaxFaults = 2
SPECIFICATION CrowdedSpec
CHECK_DEADLOCK FALSE
PROPERTIES PendingIsResolved DeletedIsRemoved
