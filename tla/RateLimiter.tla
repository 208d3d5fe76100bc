----------------------------- MODULE RateLimiter -----------------------------
(***************************************************************************)
(* The token buckets of one tenant and one kind of request (services/      *)
(* rate_limiter.py, rate_limited in api/deps.py): the bucket in Redis that *)
(* all API processes share, and the local bucket each process falls back   *)
(* to while Redis fails for it.                                            *)
(*                                                                         *)
(* A minute has Minute ticks.  A bucket counts in units: a request costs   *)
(* Minute units and a tick adds Limit of them, so a minute adds Limit      *)
(* requests and no fraction is lost.                                       *)
(***************************************************************************)
EXTENDS Naturals

CONSTANTS
    Replicas,      \* API processes
    Redis,         \* the shared bucket
    None,          \* no bucket, no promise
    Limit,         \* tenant.rate_limit_per_minute
    Minute,        \* ticks of a minute
    MinBurst,      \* the smallest burst allowance, 5 requests
    BurstDivisor,  \* 1 / burst_ratio
    Ttl,           \* EXPIRE of the shared bucket, 2 minutes
    MaxTime        \* bound on the clock

Cost == Minute
Larger(a, b) == IF a > b THEN a ELSE b
Smaller(a, b) == IF a < b THEN a ELSE b

\* max(5.0, limit_per_minute * burst_ratio)
Capacity == Larger(MinBurst * Cost, (Limit * Cost) \div BurstDivisor)

ASSUME LimiterAssumption ==
    /\ Redis \notin Replicas
    /\ None \notin Nat \cup [tokens : Nat, ts : Nat]
    /\ {Limit, Minute, MinBurst, BurstDivisor, Ttl} \subseteq Nat \ {0}
    /\ MaxTime \in Nat

Buckets == Replicas \cup {Redis}
Time == 0 .. MaxTime

VARIABLES
    now,      \* redis TIME and time.monotonic()
    bucket,   \* every bucket: its tokens, and when they were counted
    granted,  \* history: requests a bucket admitted since a time, since it was last lost
    promise   \* history: when the first client refused since was told to come back

vars == <<now, bucket, granted, promise>>

TypeOK ==
    /\ now \in Time
    /\ bucket \in [Buckets -> [tokens : 0 .. Capacity, ts : 0 .. now] \cup {None}]
    /\ granted \in [Buckets -> [Time -> Nat]]
    /\ promise \in [Buckets -> Nat \cup {None}]

NoGrants == [t \in Time |-> 0]

Init ==
    /\ now = 0
    /\ bucket = [b \in Buckets |-> None]
    /\ granted = [b \in Buckets |-> NoGrants]
    /\ promise = [b \in Buckets |-> None]

-----------------------------------------------------------------------------
\* Variant: tokens pile up without an end.
RefillUnbounded(b) ==
    IF bucket[b] = None THEN Capacity
    ELSE bucket[b].tokens + (now - bucket[b].ts) * Limit

\* The tokens of a bucket at this time; a new one is full.
Refill(b) ==
    IF bucket[b] = None THEN Capacity
    ELSE Smaller(Capacity, bucket[b].tokens + (now - bucket[b].ts) * Limit)

\* Variant: the time of the last count is not moved.
CountedSameTime(b, tokens) ==
    [tokens |-> tokens, ts |-> IF bucket[b] = None THEN now ELSE bucket[b].ts]

\* Variant: a refusal moves the time but keeps the tokens of the last count.
CountedGrantsOnly(b, tokens) ==
    [tokens |-> IF Refill(b) >= Cost \/ bucket[b] = None THEN tokens ELSE bucket[b].tokens,
     ts |-> now]

\* What is written back, whether the request was admitted or not.
Counted(b, tokens) == [tokens |-> tokens, ts |-> now]

\* (cost - tokens) / refill_rate, in whole ticks.
RetryAfter(tokens) == ((Cost - tokens) + Limit - 1) \div Limit

\* The buckets bs each admit or refuse one request: the Lua script runs in one
\* piece, and _check_local does not await.
Draw(bs) ==
    LET admits(b) == Refill(b) >= Cost IN
    /\ bucket' = [b \in Buckets |->
          CASE b \in bs /\ admits(b)  -> Counted(b, Refill(b) - Cost)
            [] b \in bs /\ ~admits(b) -> Counted(b, Refill(b))
            [] OTHER -> bucket[b]]
    /\ granted' = [b \in Buckets |->
          IF b \in bs /\ admits(b)
          THEN [t \in Time |-> granted[b][t] + (IF t <= now THEN 1 ELSE 0)]
          ELSE granted[b]]
    /\ promise' = [b \in Buckets |->
          CASE b \in bs /\ admits(b)  -> None
            [] b \in bs /\ ~admits(b) /\ promise[b] = None -> now + RetryAfter(Refill(b))
            [] OTHER -> promise[b]]
    /\ UNCHANGED now

\* A request meets the shared bucket.
CheckShared == Draw({Redis})

\* Redis fails for process r, which draws on its own bucket; the script may
\* have run all the same.
CheckLocal(r) == Draw({r}) \/ Draw({r, Redis})

Lose(b) ==
    /\ bucket' = [bucket EXCEPT ![b] = None]
    /\ granted' = [granted EXCEPT ![b] = NoGrants]
    /\ promise' = [promise EXCEPT ![b] = None]
    /\ UNCHANGED now

\* A process restarts, or Redis evicts the bucket or restarts empty.
LoseBucket(b) == bucket[b] # None /\ Lose(b)

\* The TTL of the shared bucket: nobody touched it for a while.
Expire ==
    /\ bucket[Redis] # None
    /\ now - bucket[Redis].ts >= Ttl
    /\ bucket' = [bucket EXCEPT ![Redis] = None]
    /\ UNCHANGED <<now, granted, promise>>

Tick ==
    /\ now < MaxTime
    /\ now' = now + 1
    /\ UNCHANGED <<bucket, granted, promise>>

Next ==
    \/ CheckShared
    \/ \E r \in Replicas : CheckLocal(r)
    \/ \E b \in Buckets : LoseBucket(b)
    \/ Expire
    \/ Tick

Spec == Init /\ [][Next]_vars

-----------------------------------------------------------------------------
\* What the expiry of an empty bucket gives away: a new bucket is full, and the
\* time to live may be too short to fill the old one.
Excess == Larger(Capacity, Ttl * Limit) - Ttl * Limit

\* What a bucket admits between any two times is at most a burst and what the
\* rate allows in between, and the excess of as many expiries as fit in between.
\* With the code's numbers the excess is nothing for limits above two requests
\* per minute; no refusal, fallback or full bucket adds to it.  Together,
\* processes that fall back get one such quota each, and the shared one.
QuotaHolds ==
    \A b \in Buckets : \A from \in 0 .. now :
        Cost * granted[b][from]
            <= Capacity + Limit * (now - from) + Excess * ((now - from) \div Ttl)

\* A client that was refused and comes back after retry_after seconds finds a
\* token, unless another request took it: the refusals in between, which write
\* the bucket back too, cost it nothing.
RetryAfterIsEnough ==
    \A b \in Buckets :
        promise[b] # None /\ now >= promise[b] => Refill(b) >= Cost

=============================================================================
