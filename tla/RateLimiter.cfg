\* A process and the shared bucket; a burst is three requests, and an
\* empty bucket expires before it is full again.
CONSTANTS
    Replicas = {p1}
    Redis = Redis
    None = None
    Limit = 2
    Minute = 3
    MinBurst = 3
    BurstDivisor = 4
    Ttl = 2
    MaxTime = 5
SPECIFICATION Spec
INVARIANTS TypeOK QuotaHolds RetryAfterIsEnough
