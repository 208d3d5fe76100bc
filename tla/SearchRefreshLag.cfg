\* A search between the bump and the refresh.
CONSTANTS
    s1 = s1  s2 = s2  s3 = s3  r1 = r1  r2 = r2
    Searches = {s1, s2, s3}
    Replicas = {r1, r2}
    ReplicaOf <- TwoAndOne
    None = None
    MaxWrites = 2
    MaxBumps = 1
    CanFail = {"refresh"}
SPECIFICATION Spec
CHECK_DEADLOCK FALSE
INVARIANTS StalenessEndsWithIndexing
