\* Two documents and a foreign event in one worker's batches.
CONSTANTS
    d1 = d1  d2 = d2  t1 = t1
    Docs <- TwoDocs
    BadIds = {b1, b2}
    Garbage = {b2}
    None = None
    Tenants = {t1}
    TenantOf <- OneTenant
    Reqs = {r1}
    Workers = {w1}
    MsgIds = {m1, m2}
    MaxAttempts = 3
    BatchSize = 2
    SweepLimit = 2
    Rejected = {d2}
    Tombstones = TRUE
    MaxFaults = 1
SPECIFICATION Spec
SYMMETRY Symmetry
CHECK_DEADLOCK FALSE
INVARIANTS DeletedEntryHasOwner OwedBumpHasOwner IndexedMeansPresent
