\* Three searches in two processes; every call may fail.
CONSTANTS
    s1 = s1  s2 = s2  s3 = s3  r1 = r1  r2 = r2
    Searches = {s1, s2, s3}
    Replicas = {r1, r2}
    ReplicaOf <- TwoAndOne
    None = None
    MaxWrites = 1
    MaxBumps = 1
    CanFail = {"gen", "get", "set", "incr", "engine", "cancel", "evict", "refresh"}
SPECIFICATION FairSpec
CHECK_DEADLOCK FALSE
INVARIANTS TypeOK SettledWritesAreSeen OneLeader
PROPERTIES SearchEnds
