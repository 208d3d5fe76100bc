\* Two GETs and two DELETEs of one document; every call to Redis may fail.
CONSTANTS
    Readers = {g1, g2}
    Deleters = {x1, x2}
    None = None
    CanFail = {"get", "set", "delete"}
SPECIFICATION FairSpec
INVARIANTS TypeOK DeletedEntryIsExcused
PROPERTIES DeletedLeavesCache
