\* One document, every interleaving of two requests and two workers.
CONSTANTS
    d1 = d1  d2 = d2  t1 = t1
    Docs <- OneDoc
    BadIds = {}
    Garbage = {}
    None = None
    Tenants = {t1}
    TenantOf <- OneTenant
    Reqs = {r1, r2}
    Workers = {w1, w2}
    MsgIds = {m1, m2}
    MaxAttempts = 3
    BatchSize = 1
    SweepLimit = 1
    Rejected = {}
    Tombstones = TRUE
    MaxFaults = 2
SPECIFICATION Spec
SYMMETRY Symmetry
CHECK_DEADLOCK FALSE
INVARIANTS TypeOK DeletedEntryHasOwner OwedBumpHasOwner IndexedMeansPresent
PROPERTIES NoResurrection RowsMoveForward ImplementsLifecycle
