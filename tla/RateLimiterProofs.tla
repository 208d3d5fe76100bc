-------------------------- MODULE RateLimiterProofs --------------------------
(***************************************************************************)
(* The promises of the token buckets, for every number of processes, every *)
(* limit, burst and length of a minute, and every time of expiry.          *)
(*                                                                         *)
(* Both promises are about what a bucket would hold if it were counted     *)
(* now, Refill, rather than about what is stored: a refusal changes what   *)
(* is stored and leaves Refill alone.  An expiry fills the bucket; it      *)
(* comes a whole time to live after the last count, and Excess is the      *)
(* most that it can add.                                                   *)
(***************************************************************************)
EXTENDS RateLimiter, Integers, TLAPS

\* The time of the last count of a bucket.
Last(b) == IF bucket[b] = None THEN now ELSE bucket[b].ts

\* What a window of length d may admit, if expiries are only counted in its
\* first e ticks.
Allowed(d, e) == Capacity + Limit * d + Excess * (e \div Ttl)

\* What a bucket has admitted since a time, and what it still holds, come from a
\* burst, from the refills since and from the expiries up to the last count; a
\* time after the last count has no grants yet.
Spent(b) ==
    \A t \in Time :
        granted[b][t] # 0 =>
            /\ t <= Last(b)
            /\ Cost * granted[b][t] + Refill(b) <= Allowed(now - t, Last(b) - t)

\* Until the time it was told, a refused client sees the missing tokens come in.
Promised(b) ==
    promise[b] # None =>
        \/ Refill(b) >= Cost
        \/ /\ now <= promise[b]
           /\ Refill(b) + (promise[b] - now) * Limit >= Cost

LimiterInv == TypeOK /\ \A b \in Buckets : Spent(b) /\ Promised(b)

-----------------------------------------------------------------------------
\* Arithmetic.

\* A product of naturals is one.
LEMMA ProductType ==
    ASSUME NEW x \in Nat, NEW y \in Nat
    PROVE  x * y \in Nat
  OBVIOUS

\* Products grow with their factors.
LEMMA ProductGrows ==
    ASSUME NEW x \in Nat, NEW y \in Nat, NEW k \in Nat, x >= y
    PROVE  x * k >= y * k
<1>1. PICK z \in Nat : x = y + z
  <2>1. x - y \in Nat /\ x = y + (x - y)
    OBVIOUS
  <2> QED BY <2>1
<1>2. x * k = y * k + z * k
  BY <1>1
<1> QED BY <1>2, ProductType

\* Rounding a quotient up leaves at least the dividend.
LEMMA CeilingLemma ==
    ASSUME NEW a \in Nat, NEW k \in Nat \ {0}
    PROVE  /\ (a + k - 1) \div k \in Nat
           /\ ((a + k - 1) \div k) * k >= a
<1> DEFINE q == (a + k - 1) \div k
<1>1. q \in Int /\ a + k - 1 = k * q + ((a + k - 1) % k) /\ (a + k - 1) % k \in 0 .. k - 1
  OBVIOUS
<1>2. q \in Nat
  OBVIOUS
<1> HIDE DEF q
<1>3. q * k >= a
  BY <1>1
<1> QED BY <1>2, <1>3 DEF q

\* A quotient grows with its dividend, by one at least for every divisor more.
LEMMA QuotientGrows ==
    ASSUME NEW a \in Nat, NEW c \in Nat, NEW k \in Nat \ {0}, c >= a
    PROVE  /\ a \div k \in Nat
           /\ c \div k \in Nat
           /\ c \div k >= a \div k
           /\ c >= a + k => c \div k >= (a \div k) + 1
<1> DEFINE p == a \div k
           q == c \div k
<1>1. /\ p \in Nat /\ a = k * p + (a % k) /\ a % k \in 0 .. k - 1
      /\ q \in Nat /\ c = k * q + (c % k) /\ c % k \in 0 .. k - 1
  OBVIOUS
<1> HIDE DEF p, q
<1>2. k * p \in Nat /\ k * q \in Nat /\ a >= k * p /\ c < k * q + k
  BY <1>1, ProductType
<1>3. ASSUME NEW r \in Nat, k * r <= c PROVE q >= r
  <2> SUFFICES ASSUME q < r PROVE FALSE
    BY <1>1
  <2>1. r >= q + 1
    BY <1>1
  <2>2. r * k >= (q + 1) * k
    BY <1>1, <2>1, ProductGrows
  <2>3. (q + 1) * k = k * q + k /\ r * k = k * r /\ k * r \in Nat
    BY <1>1, ProductType
  <2> QED BY <1>1, <1>2, <1>3, <2>2, <2>3
<1>4. q >= p
  BY <1>1, <1>2, <1>3
<1>5. ASSUME c >= a + k PROVE q >= p + 1
  <2>1. k * (p + 1) = k * p + k
    BY <1>1
  <2>2. k * (p + 1) <= c
    BY <1>1, <1>2, <1>5, <2>1
  <2> QED BY <1>1, <1>3, <2>2
<1> QED BY <1>1, <1>4, <1>5 DEF p, q

\* A burst is a number of units, and at least one request.
LEMMA CapacityType == Capacity \in Nat /\ Cost \in Nat \ {0} /\ Capacity >= Cost
<1> DEFINE x == MinBurst * Cost
           y == (Limit * Cost) \div BurstDivisor
<1>1. Cost \in Nat \ {0} /\ MinBurst \in Nat \ {0} /\ BurstDivisor \in Nat \ {0} /\ Limit \in Nat
  BY LimiterAssumption DEF Cost
<1>2. x \in Nat /\ x >= Cost
  <2>1. MinBurst * Cost >= 1 * Cost
    BY <1>1, ProductGrows
  <2> QED BY <1>1, <2>1, ProductType
<1>3. y \in Nat
  <2>1. Limit * Cost \in Nat
    BY <1>1, ProductType
  <2> QED BY <1>1, <2>1
<1> HIDE DEF x, y
<1>4. Larger(x, y) \in Nat /\ Larger(x, y) >= Cost
  BY <1>1, <1>2, <1>3 DEF Larger
<1> QED BY <1>1, <1>4 DEF Capacity, x, y

-----------------------------------------------------------------------------
\* What a bucket holds now, and what each operation makes of it.

\* The fields of a bucket that exists.
LEMMA BucketFields ==
    ASSUME TypeOK, NEW b \in Buckets, bucket[b] # None
    PROVE  /\ bucket[b] \in [tokens : 0 .. Capacity, ts : 0 .. now]
           /\ bucket[b].tokens \in Nat /\ bucket[b].tokens <= Capacity
           /\ bucket[b].ts \in Nat /\ bucket[b].ts <= now
           /\ now \in Nat /\ now - bucket[b].ts \in Nat
  BY CapacityType DEF TypeOK, Time

\* A bucket holds at most a burst.
LEMMA RefillType ==
    ASSUME TypeOK, NEW b \in Buckets
    PROVE  Refill(b) \in Nat /\ Refill(b) <= Capacity
<1>1. CASE bucket[b] = None
  BY <1>1, CapacityType DEF Refill
<1>2. CASE bucket[b] # None
  <2>1. (now - bucket[b].ts) * Limit \in Nat
    BY <1>2, BucketFields, LimiterAssumption, ProductType
  <2> QED BY <1>2, <2>1, BucketFields, CapacityType DEF Refill, Smaller
<1> QED BY <1>1, <1>2

\* A bucket counted now holds what it was left with.
LEMMA CountedHolds ==
    ASSUME TypeOK, NEW b \in Buckets, NEW n \in Nat, n <= Capacity,
           bucket'[b] = Counted(b, n), now' = now
    PROVE  Refill(b)' = n
<1>1. bucket'[b] # None
  <2>1. Counted(b, n) \in [tokens : Nat, ts : Nat]
    BY DEF Counted, TypeOK, Time
  <2> QED BY <2>1, LimiterAssumption
<1>2. bucket'[b].tokens = n /\ now' - bucket'[b].ts = 0
  BY DEF Counted, TypeOK, Time
<1>3. (now' - bucket'[b].ts) * Limit = 0
  BY <1>2, LimiterAssumption
<1> QED BY <1>1, <1>2, <1>3, CapacityType DEF Refill, Smaller

\* A tick adds Limit units, up to a burst.
LEMMA TickRefills ==
    ASSUME TypeOK, NEW b \in Buckets, Tick
    PROVE  Refill(b)' = Smaller(Capacity, Refill(b) + Limit)
<1>1. CASE bucket[b] = None
  BY <1>1, CapacityType, LimiterAssumption DEF Refill, Tick, Smaller
<1>2. CASE bucket[b] # None
  <2> DEFINE d == now - bucket[b].ts
             x == bucket[b].tokens + d * Limit
  <2>1. d \in Nat /\ Limit \in Nat /\ bucket[b].tokens \in Nat /\ now' - bucket[b].ts = d + 1
    BY <1>2, BucketFields, LimiterAssumption DEF Tick
  <2>2. Refill(b) = Smaller(Capacity, x)
    BY <1>2 DEF Refill
  <2>3. Refill(b)' = Smaller(Capacity, bucket[b].tokens + (d + 1) * Limit)
    BY <1>2, <2>1 DEF Refill, Tick
  <2> HIDE DEF d
  <2>4. x \in Nat /\ bucket[b].tokens + (d + 1) * Limit = x + Limit
    <3>1. d * Limit \in Nat /\ (d + 1) * Limit = d * Limit + Limit
      BY <2>1, ProductType
    <3> QED BY <2>1, <3>1
  <2> HIDE DEF x
  <2>5. Smaller(Capacity, x + Limit) = Smaller(Capacity, Smaller(Capacity, x) + Limit)
    BY <2>1, <2>4, CapacityType DEF Smaller
  <2> QED BY <2>2, <2>3, <2>4, <2>5
<1> QED BY <1>1, <1>2

\* A bucket that expires lacks no more than the excess.
LEMMA ExpiredLacks ==
    ASSUME TypeOK, Expire
    PROVE  Refill(Redis) + Excess >= Capacity
<1> Redis \in Buckets
  BY DEF Buckets
<1> DEFINE d == now - bucket[Redis].ts
<1>1. d \in Nat /\ d >= Ttl /\ bucket[Redis].tokens \in Nat /\ bucket[Redis] # None
  BY BucketFields DEF Expire
<1>2. Refill(Redis) = Smaller(Capacity, bucket[Redis].tokens + d * Limit)
  BY <1>1 DEF Refill
<1> HIDE DEF d
<1>3. d * Limit >= Ttl * Limit /\ Ttl * Limit \in Nat /\ d * Limit \in Nat
  BY <1>1, LimiterAssumption, ProductGrows, ProductType
<1> QED BY <1>1, <1>2, <1>3, CapacityType DEF Smaller, Excess, Larger

\* The last count is not after now.
LEMMA LastType ==
    ASSUME TypeOK, NEW b \in Buckets
    PROVE  Last(b) \in Nat /\ Last(b) <= now /\ now \in Nat
  BY BucketFields DEF Last, TypeOK, Time

\* A bucket counted now was last counted now.
LEMMA CountedLast ==
    ASSUME TypeOK, NEW b \in Buckets, NEW n \in Nat, bucket'[b] = Counted(b, n), now' = now
    PROVE  Last(b)' = now
<1>1. Counted(b, n) \in [tokens : Nat, ts : Nat] /\ Counted(b, n).ts = now
  BY DEF Counted, TypeOK, Time
<1> QED BY <1>1, LimiterAssumption DEF Last

\* The excess is a number of units.
LEMMA ExcessType == Excess \in Nat /\ Ttl \in Nat \ {0} /\ Limit \in Nat
<1>1. Ttl \in Nat \ {0} /\ Limit \in Nat
  BY LimiterAssumption
<1>2. Ttl * Limit \in Nat
  BY <1>1, ProductType
<1> QED BY <1>1, <1>2, CapacityType DEF Excess, Larger

\* What is allowed grows with the window and with the expiries in it.
LEMMA AllowedGrows ==
    ASSUME NEW d \in Nat, NEW e \in Nat, NEW f \in Nat, f >= e
    PROVE  /\ Allowed(d, e) \in Nat
           /\ Allowed(d, f) \in Nat
           /\ Allowed(d, e) >= Capacity
           /\ Allowed(d, f) >= Allowed(d, e)
           /\ f >= e + Ttl => Allowed(d, f) >= Allowed(d, e) + Excess
           /\ Allowed(d + 1, e) = Allowed(d, e) + Limit
<1> DEFINE p == e \div Ttl
           q == f \div Ttl
<1>1. Ttl \in Nat \ {0} /\ Limit \in Nat /\ Excess \in Nat
  BY ExcessType
<1>2. p \in Nat /\ q \in Nat /\ q >= p /\ (f >= e + Ttl => q >= p + 1)
  BY <1>1, QuotientGrows
<1>3. Allowed(d, e) = Capacity + Limit * d + Excess * p
  BY DEF Allowed
<1>4. Allowed(d, f) = Capacity + Limit * d + Excess * q
  BY DEF Allowed
<1>5. Allowed(d + 1, e) = Capacity + Limit * (d + 1) + Excess * p
  BY DEF Allowed
<1> HIDE DEF p, q
<1>6. /\ Limit * d \in Nat /\ Limit * (d + 1) = Limit * d + Limit
      /\ Excess * p \in Nat /\ Excess * q \in Nat
      /\ Excess * q = q * Excess /\ Excess * p = p * Excess
      /\ (p + 1) * Excess = p * Excess + Excess
  BY <1>1, <1>2, ProductType
<1>7. q * Excess >= p * Excess
  BY <1>1, <1>2, ProductGrows
<1>8. ASSUME f >= e + Ttl PROVE q * Excess >= (p + 1) * Excess
  BY <1>1, <1>2, <1>8, ProductGrows
<1> QED BY <1>1, <1>3, <1>4, <1>5, <1>6, <1>7, <1>8, CapacityType

\* Grants that fit in what was allowed at the last count fit in what is now.
LEMMA SpentLater ==
    ASSUME TypeOK, NEW b \in Buckets, NEW t \in Time, NEW n \in Nat, t <= Last(b),
           Cost * granted[b][t] + n <= Allowed(now - t, Last(b) - t)
    PROVE  Cost * granted[b][t] + n <= Allowed(now - t, now - t)
<1> DEFINE d == now - t
           e == Last(b) - t
           g == granted[b][t]
<1>0. t \in Nat /\ g \in Nat
  BY LimiterAssumption DEF Time, TypeOK
<1>1. d \in Nat /\ e \in Nat /\ d >= e
  BY <1>0, LastType
<1> HIDE DEF d, e, g
<1>2. Allowed(d, e) \in Nat /\ Allowed(d, d) \in Nat /\ Allowed(d, d) >= Allowed(d, e)
  BY <1>1, AllowedGrows
<1>3. Cost * g \in Nat
  BY <1>0, CapacityType, ProductType
<1>4. Cost * g + n <= Allowed(d, e)
  BY DEF d, e, g
<1>5. Cost * g + n <= Allowed(d, d)
  BY <1>2, <1>3, <1>4
<1> QED BY <1>5 DEF d, g

-----------------------------------------------------------------------------
\* The invariant of one bucket, in the next state.
Keeps(b) ==
    /\ bucket'[b] \in [tokens : 0 .. Capacity, ts : 0 .. now'] \cup {None}
    /\ granted'[b] \in [Time -> Nat]
    /\ promise'[b] \in Nat \cup {None}
    /\ Spent(b)'
    /\ Promised(b)'

\* The invariant is one about every bucket.
LEMMA BucketByBucket ==
    ASSUME now' \in Time,
           bucket' = [b \in Buckets |-> bucket'[b]],
           granted' = [b \in Buckets |-> granted'[b]],
           promise' = [b \in Buckets |-> promise'[b]],
           \A b \in Buckets : Keeps(b)
    PROVE  LimiterInv'
<1>1. bucket' \in [Buckets -> [tokens : 0 .. Capacity, ts : 0 .. now'] \cup {None}]
  BY DEF Keeps
<1>2. granted' \in [Buckets -> [Time -> Nat]]
  BY DEF Keeps
<1>3. promise' \in [Buckets -> Nat \cup {None}]
  BY DEF Keeps
<1>4. TypeOK'
  BY <1>1, <1>2, <1>3 DEF TypeOK
<1> QED BY <1>4 DEF Keeps, LimiterInv

\* A bucket that nothing touches keeps its invariant.
LEMMA Untouched ==
    ASSUME LimiterInv, NEW b \in Buckets, now' = now,
           bucket'[b] = bucket[b], granted'[b] = granted[b], promise'[b] = promise[b]
    PROVE  Keeps(b)
<1>1. Refill(b)' = Refill(b) /\ Last(b)' = Last(b)
  BY DEF Refill, Last
<1>2. bucket'[b] \in [tokens : 0 .. Capacity, ts : 0 .. now'] \cup {None}
  BY DEF LimiterInv, TypeOK
<1>3. granted'[b] \in [Time -> Nat] /\ promise'[b] \in Nat \cup {None}
  BY DEF LimiterInv, TypeOK
<1>4. Spent(b)' /\ Promised(b)'
  BY <1>1 DEF LimiterInv, Spent, Promised
<1> QED BY <1>2, <1>3, <1>4 DEF Keeps

\* A bucket that was lost starts full, with nothing spent.
LEMMA Emptied ==
    ASSUME LimiterInv, NEW b \in Buckets, now' = now,
           bucket'[b] = None, granted'[b] = NoGrants, promise'[b] = None
    PROVE  Keeps(b)
<1> QED BY LimiterAssumption DEF Keeps, Spent, Promised, NoGrants

\* An admitted request takes from the bucket what it adds to the grants.
LEMMA Admitted ==
    ASSUME LimiterInv, NEW b \in Buckets, now' = now, Refill(b) >= Cost,
           bucket'[b] = Counted(b, Refill(b) - Cost),
           granted'[b] = [t \in Time |-> granted[b][t] + (IF t <= now THEN 1 ELSE 0)],
           promise'[b] = None
    PROVE  Keeps(b)
<1> DEFINE n == Refill(b) - Cost
<1>1. TypeOK /\ Spent(b) /\ granted[b] \in [Time -> Nat] /\ now \in Nat /\ Time = 0 .. MaxTime /\ now <= MaxTime
  BY LimiterAssumption DEF LimiterInv, TypeOK, Time
<1>2. n \in Nat /\ n <= Capacity /\ Refill(b) \in Nat
  BY <1>1, RefillType, CapacityType
<1>3. Refill(b)' = n
  BY <1>1, <1>2, CountedHolds
<1>4. bucket'[b] \in [tokens : 0 .. Capacity, ts : 0 .. now']
  BY <1>1, <1>2, CapacityType DEF Counted
<1> HIDE DEF n
<1>0. ASSUME NEW t \in Time
      PROVE  /\ granted[b][t] \in Nat
             /\ granted'[b][t] \in Nat
             /\ t <= now => granted'[b][t] = granted[b][t] + 1
             /\ t > now => granted'[b][t] = granted[b][t]
  <2>1. t \in Nat /\ granted[b][t] \in Nat
    BY <1>1, LimiterAssumption
  <2>2. granted'[b][t] = granted[b][t] + (IF t <= now THEN 1 ELSE 0)
    OBVIOUS
  <2>3. CASE t <= now
    BY <1>1, <2>1, <2>2, <2>3
  <2>4. CASE t > now
    BY <1>1, <2>1, <2>2, <2>4
  <2> QED BY <1>1, <2>1, <2>3, <2>4
<1>5. granted'[b] \in [Time -> Nat]
  BY <1>0
<1>6. Last(b)' = now
  BY <1>1, <1>2, CountedLast DEF n
<1>7. Last(b) \in Nat /\ Last(b) <= now
  BY <1>1, LastType
<1>8. Spent(b)'
  <2> SUFFICES ASSUME NEW t \in Time, granted'[b][t] # 0
               PROVE  t <= now /\ Cost * granted'[b][t] + n <= Allowed(now - t, now - t)
    BY <1>3, <1>6 DEF Spent
  <2> DEFINE g == granted[b][t]
             d == now - t
             e == Last(b) - t
  <2>1. t <= now
    BY <1>0, <1>1, <1>7 DEF Spent
  <2>2. t \in Nat /\ d \in Nat /\ g \in Nat /\ granted'[b][t] = g + 1
    BY <1>0, <1>1, <2>1
  <2>3. Cost * g + Refill(b) <= Allowed(d, d)
    <3>1. CASE g = 0
      <4> HIDE DEF d, g
      <4>1. d >= d
        BY <2>2
      <4>2. Allowed(d, d) \in Nat /\ Allowed(d, d) >= Capacity
        BY <2>2, <4>1, AllowedGrows
      <4>3. Cost * g = 0
        BY <3>1, CapacityType
      <4> QED BY <1>2, <4>2, <4>3, RefillType, <1>1, CapacityType
    <3>2. CASE g # 0
      <4>1. t <= Last(b) /\ Cost * g + Refill(b) <= Allowed(d, e)
        BY <1>1, <3>2 DEF Spent
      <4> QED BY <1>1, <1>2, <4>1, SpentLater
    <3> QED BY <3>1, <3>2
  <2> HIDE DEF g, d
  <2>4. Cost * (g + 1) = Cost * g + Cost /\ Cost * g \in Nat
    BY <2>2, CapacityType, ProductType
  <2>5. Cost * g + Cost + n = Cost * g + Refill(b)
    BY <1>2, <2>4, CapacityType DEF n
  <2>6. Cost * (g + 1) + n <= Allowed(d, d)
    BY <2>3, <2>4, <2>5
  <2> QED BY <2>1, <2>2, <2>6 DEF d
<1> QED BY <1>4, <1>5, <1>8 DEF Keeps, Promised

\* A refused client is told a time at which the missing tokens are there.
LEMMA RetryAfterLemma ==
    ASSUME NEW n \in Nat, n < Cost
    PROVE  RetryAfter(n) \in Nat /\ n + RetryAfter(n) * Limit >= Cost
<1> DEFINE m == Cost - n
           q == (m + Limit - 1) \div Limit
<1>1. m \in Nat /\ Limit \in Nat \ {0} /\ n + m = Cost
  BY CapacityType, LimiterAssumption
<1> HIDE DEF m
<1>2. q \in Nat /\ q * Limit >= m
  BY <1>1, CeilingLemma
<1>3. RetryAfter(n) = q
  BY DEF RetryAfter, m
<1> HIDE DEF q
<1>4. q * Limit \in Nat
  BY <1>1, <1>2, ProductType
<1> QED BY <1>1, <1>2, <1>3, <1>4

\* A refusal counts the bucket and takes nothing from it; the first one since
\* the last grant makes the promise.
LEMMA Refused ==
    ASSUME LimiterInv, NEW b \in Buckets, now' = now, ~(Refill(b) >= Cost),
           bucket'[b] = Counted(b, Refill(b)), granted'[b] = granted[b],
           promise'[b] = IF promise[b] = None THEN now + RetryAfter(Refill(b)) ELSE promise[b]
    PROVE  Keeps(b)
<1>1. TypeOK /\ Spent(b) /\ Promised(b) /\ now \in Nat
  BY DEF LimiterInv, TypeOK, Time
<1>2. Refill(b) \in Nat /\ Refill(b) <= Capacity
  BY <1>1, RefillType
<1>3. Refill(b)' = Refill(b)
  BY <1>1, <1>2, CountedHolds
<1>4. bucket'[b] \in [tokens : 0 .. Capacity, ts : 0 .. now']
  BY <1>1, <1>2, CapacityType DEF Counted
<1>5. granted'[b] \in [Time -> Nat] /\ Spent(b)'
  <2>1. Last(b)' = now /\ Last(b) \in Nat /\ Last(b) <= now
    BY <1>1, <1>2, CountedLast, LastType
  <2>2. ASSUME NEW t \in Time, granted[b][t] # 0
        PROVE  t <= now /\ Cost * granted[b][t] + Refill(b) <= Allowed(now - t, now - t)
    <3>1. Cost * granted[b][t] + Refill(b) <= Allowed(now - t, Last(b) - t) /\ t <= Last(b)
      BY <1>1, <2>2 DEF Spent
    <3>2. t <= now
      BY <1>1, <2>1, <3>1 DEF Time
    <3>3. Cost * granted[b][t] + Refill(b) <= Allowed(now - t, now - t)
      BY <1>1, <1>2, <2>1, <3>1, SpentLater
    <3> QED BY <3>2, <3>3
  <2> QED BY <1>1, <1>3, <2>1, <2>2 DEF Spent, TypeOK
<1>6. promise'[b] \in Nat \cup {None} /\ Promised(b)'
  <2>1. CASE promise[b] = None
    <3> DEFINE q == RetryAfter(Refill(b))
    <3>1. q \in Nat /\ Refill(b) + q * Limit >= Cost
      BY <1>2, RetryAfterLemma, CapacityType
    <3> HIDE DEF q
    <3>2. promise'[b] = now + q
      BY <2>1 DEF q
    <3>3. promise'[b] - now = q /\ now <= promise'[b] /\ promise'[b] \in Nat
      BY <1>1, <3>1, <3>2
    <3> QED BY <1>3, <3>1, <3>3 DEF Promised
  <2>2. CASE promise[b] # None
    BY <1>1, <1>3, <2>2 DEF Promised, TypeOK
  <2> QED BY <2>1, <2>2
<1> QED BY <1>4, <1>5, <1>6 DEF Keeps

-----------------------------------------------------------------------------
\* The actions.

\* A request at one bucket or at two, admitted or refused by each.
LEMMA DrawStep ==
    ASSUME LimiterInv, NEW bs, Draw(bs)
    PROVE  LimiterInv'
<1>1. ASSUME NEW b \in Buckets PROVE Keeps(b)
  <2>1. CASE b \in bs /\ Refill(b) >= Cost
    <3>1. /\ bucket'[b] = Counted(b, Refill(b) - Cost)
          /\ granted'[b] = [t \in Time |-> granted[b][t] + (IF t <= now THEN 1 ELSE 0)]
          /\ promise'[b] = None
          /\ now' = now
      BY <2>1 DEF Draw
    <3> QED BY <2>1, <3>1, Admitted
  <2>2. CASE b \in bs /\ ~(Refill(b) >= Cost)
    <3>1. /\ bucket'[b] = Counted(b, Refill(b))
          /\ granted'[b] = granted[b]
          /\ promise'[b] = IF promise[b] = None THEN now + RetryAfter(Refill(b)) ELSE promise[b]
          /\ now' = now
      BY <2>2 DEF Draw
    <3> QED BY <2>2, <3>1, Refused
  <2>3. CASE b \notin bs
    <3>1. bucket'[b] = bucket[b] /\ granted'[b] = granted[b] /\ promise'[b] = promise[b] /\ now' = now
      BY <2>3 DEF Draw
    <3> QED BY <3>1, Untouched
  <2> QED BY <2>1, <2>2, <2>3
<1>2. now' \in Time
  BY DEF Draw, LimiterInv, TypeOK
<1>3. bucket' = [b \in Buckets |-> bucket'[b]]
  BY DEF Draw
<1>4. granted' = [b \in Buckets |-> granted'[b]]
  BY DEF Draw
<1>5. promise' = [b \in Buckets |-> promise'[b]]
  BY DEF Draw
<1> QED BY <1>1, <1>2, <1>3, <1>4, <1>5, BucketByBucket

\* A bucket is lost with its history.
LEMMA LoseStep ==
    ASSUME LimiterInv, NEW c \in Buckets, Lose(c)
    PROVE  LimiterInv'
<1>1. ASSUME NEW b \in Buckets PROVE Keeps(b)
  <2>1. CASE b = c
    BY <2>1, Emptied DEF Lose, LimiterInv, TypeOK
  <2>2. CASE b # c
    BY <2>2, Untouched DEF Lose, LimiterInv, TypeOK
  <2> QED BY <2>1, <2>2
<1>2. now' \in Time
  BY DEF Lose, LimiterInv, TypeOK
<1>3. /\ bucket' = [b \in Buckets |-> bucket'[b]]
      /\ granted' = [b \in Buckets |-> granted'[b]]
      /\ promise' = [b \in Buckets |-> promise'[b]]
  BY DEF Lose, LimiterInv, TypeOK
<1> QED BY <1>1, <1>2, <1>3, BucketByBucket

\* The shared bucket expires: what it gains is in the excess of this expiry.
LEMMA ExpireStep ==
    ASSUME LimiterInv, Expire
    PROVE  LimiterInv'
<1>1. ASSUME NEW b \in Buckets PROVE Keeps(b)
  <2>1. CASE b = Redis
    <3>1. bucket'[b] = None /\ granted'[b] = granted[b] /\ promise'[b] = promise[b] /\ now' = now
      BY <2>1 DEF Expire, LimiterInv, TypeOK
    <3>2. Refill(b)' = Capacity /\ Last(b)' = now
      BY <3>1 DEF Refill, Last
    <3>3. TypeOK /\ Refill(b) + Excess >= Capacity /\ now - Last(b) >= Ttl
      BY <2>1, ExpiredLacks DEF LimiterInv, Last, Expire
    <3>4. Refill(b) \in Nat /\ Last(b) \in Nat /\ Last(b) <= now /\ now \in Nat
      BY <3>3, RefillType, LastType
    <3>5. Spent(b)'
      <4> SUFFICES ASSUME NEW t \in Time, granted[b][t] # 0
                   PROVE  t <= now /\ Cost * granted[b][t] + Capacity <= Allowed(now - t, now - t)
        BY <3>1, <3>2 DEF Spent
      <4>1. t <= Last(b) /\ Cost * granted[b][t] + Refill(b) <= Allowed(now - t, Last(b) - t)
        BY DEF LimiterInv, Spent
      <4> DEFINE d == now - t
                 e == Last(b) - t
                 g == granted[b][t]
      <4>0. t \in Nat /\ g \in Nat
        BY <3>3, LimiterAssumption DEF Time, TypeOK
      <4>2. d \in Nat /\ e \in Nat /\ d >= e + Ttl /\ d >= e /\ t <= now
        BY <3>3, <3>4, <4>0, <4>1, ExcessType
      <4>3. Cost * g + Refill(b) <= Allowed(d, e)
        BY <4>1
      <4> HIDE DEF d, e, g
      <4>4. Allowed(d, e) \in Nat /\ Allowed(d, d) \in Nat /\ Allowed(d, d) >= Allowed(d, e) + Excess
        BY <4>2, AllowedGrows
      <4>5. Cost * g \in Nat /\ Excess \in Nat
        BY <4>0, CapacityType, ProductType, ExcessType
      <4>6. Cost * g + Capacity <= Allowed(d, d)
        BY <3>3, <3>4, <4>3, <4>4, <4>5, CapacityType
      <4> QED BY <4>2, <4>6 DEF d, g
    <3>6. Promised(b)'
      BY <3>2, CapacityType DEF Promised
    <3> QED BY <3>1, <3>5, <3>6 DEF Keeps, LimiterInv, TypeOK
  <2>2. CASE b # Redis
    BY <2>2, Untouched DEF Expire, LimiterInv, TypeOK
  <2> QED BY <2>1, <2>2
<1>2. now' \in Time
  BY DEF Expire, LimiterInv, TypeOK
<1>3. /\ bucket' = [b \in Buckets |-> bucket'[b]]
      /\ granted' = [b \in Buckets |-> granted'[b]]
      /\ promise' = [b \in Buckets |-> promise'[b]]
  BY DEF Expire, LimiterInv, TypeOK
<1> QED BY <1>1, <1>2, <1>3, BucketByBucket

\* Time passes: a bucket gains no more than the allowance does, and a promise
\* that is not due yet comes nearer by what the bucket gains.
LEMMA TickStep ==
    ASSUME LimiterInv, Tick
    PROVE  LimiterInv'
<1>1. TypeOK /\ now \in Nat /\ now' = now + 1 /\ now' \in Time /\ Limit \in Nat
  BY LimiterAssumption DEF Tick, LimiterInv, TypeOK, Time
<1>2. ASSUME NEW b \in Buckets PROVE Keeps(b)
  <2> DEFINE n == Refill(b)
             m == Refill(b)'
  <2>1. bucket'[b] = bucket[b] /\ granted'[b] = granted[b] /\ promise'[b] = promise[b]
    BY DEF Tick
  <2>2. /\ n \in Nat /\ n <= Capacity
        /\ m = Smaller(Capacity, n + Limit)
    BY <1>1, RefillType, TickRefills
  <2>3. m \in Nat /\ m <= Capacity /\ m <= n + Limit /\ (m = Capacity \/ m = n + Limit)
    <3> HIDE DEF n, m
    <3> QED BY <1>1, <2>2, CapacityType DEF Smaller
  <2>4. bucket'[b] \in [tokens : 0 .. Capacity, ts : 0 .. now'] \cup {None}
    <3>1. CASE bucket[b] = None
      BY <2>1, <3>1
    <3>2. CASE bucket[b] # None
      <4>1. bucket[b] \in [tokens : 0 .. Capacity, ts : 0 .. now]
        BY <1>1, <3>2, BucketFields
      <4>2. 0 .. now \subseteq 0 .. now'
        BY <1>1
      <4> QED BY <2>1, <4>1, <4>2
    <3> QED BY <3>1, <3>2
  <2>5. granted[b] \in [Time -> Nat] /\ promise[b] \in Nat \cup {None}
    BY <1>1 DEF TypeOK
  <2>6. Spent(b) /\ Promised(b)
    BY DEF LimiterInv
  <2>7. Spent(b)'
    <3> SUFFICES ASSUME NEW t \in Time, granted[b][t] # 0
                 PROVE  t <= Last(b)' /\ Cost * granted[b][t] + m <= Allowed(now' - t, Last(b)' - t)
      BY <2>1 DEF Spent
    <3> DEFINE g == granted[b][t]
               d == now - t
               e == Last(b) - t
               f == Last(b)' - t
    <3>1. t <= Last(b) /\ Cost * g + n <= Allowed(d, e)
      BY <2>6 DEF Spent
    <3>2. Last(b) \in Nat /\ Last(b)' \in Nat /\ Last(b) <= now /\ Last(b) <= Last(b)'
      <4>1. Last(b) \in Nat /\ Last(b) <= now
        BY <1>1, LastType
      <4>2. Last(b)' = Last(b) \/ (Last(b) = now /\ Last(b)' = now')
        BY <2>1 DEF Last
      <4> QED BY <1>1, <4>1, <4>2
    <3>0. t \in Nat /\ g \in Nat
      BY <2>5, LimiterAssumption DEF Time
    <3>3. /\ d \in Nat /\ e \in Nat /\ f \in Nat /\ f >= e /\ now' - t = d + 1
          /\ t <= Last(b)'
      <4> HIDE DEF g, n, m
      <4> QED BY <1>1, <3>0, <3>1, <3>2
    <3> HIDE DEF g, n, m, d, e, f
    <3>4. /\ Allowed(d + 1, f) >= Allowed(d + 1, e)
          /\ Allowed(d + 1, e) = Allowed(d, e) + Limit
          /\ Allowed(d, e) \in Nat /\ Allowed(d + 1, f) \in Nat
      <4>1. d + 1 \in Nat
        BY <3>3
      <4>2. Allowed(d + 1, f) >= Allowed(d + 1, e) /\ Allowed(d + 1, f) \in Nat
        BY <3>3, <4>1, AllowedGrows
      <4>3. Allowed(d + 1, e) = Allowed(d, e) + Limit /\ Allowed(d, e) \in Nat
        BY <3>3, AllowedGrows
      <4> QED BY <4>2, <4>3
    <3>5. Cost * g \in Nat
      BY <3>0, CapacityType, ProductType
    <3>6. Cost * g + m <= Allowed(d + 1, f)
      BY <1>1, <2>2, <2>3, <3>1, <3>4, <3>5
    <3> QED BY <3>3, <3>6 DEF g, f
  <2>8. Promised(b)'
    <3> SUFFICES ASSUME promise[b] # None
                 PROVE  \/ m >= Cost
                        \/ now' <= promise[b] /\ m + (promise[b] - now') * Limit >= Cost
      BY <2>1 DEF Promised
    <3> DEFINE p == promise[b]
    <3>1. p \in Nat
      BY <2>5
    <3>2. n >= Cost \/ (now <= p /\ n + (p - now) * Limit >= Cost)
      BY <2>6 DEF Promised
    <3> HIDE DEF n, m, p
    <3>3. CASE n >= Cost \/ m = Capacity
      BY <1>1, <2>2, <2>3, <3>3, CapacityType
    <3>4. CASE n < Cost /\ m = n + Limit
      <4>1. now <= p /\ n + (p - now) * Limit >= Cost
        BY <2>2, <3>2, <3>4, CapacityType
      <4>2. p # now
        <5>1. SUFFICES ASSUME p = now PROVE FALSE
          OBVIOUS
        <5>2. p - now = 0 /\ 0 * Limit = 0
          BY <1>1, <5>1
        <5> QED BY <2>2, <3>4, <4>1, <5>2, CapacityType
      <4> DEFINE d == p - now'
      <4>3. d \in Nat /\ p - now = d + 1 /\ now' <= p
        BY <1>1, <3>1, <4>1, <4>2
      <4> HIDE DEF d
      <4>4. (d + 1) * Limit = d * Limit + Limit /\ d * Limit \in Nat
        BY <1>1, <4>3, ProductType
      <4>5. m + d * Limit >= Cost
        BY <1>1, <2>2, <3>4, <4>1, <4>3, <4>4, CapacityType
      <4> QED BY <4>3, <4>5 DEF d, p
    <3> QED BY <2>2, <2>3, <3>3, <3>4, CapacityType
  <2> QED BY <2>1, <2>4, <2>5, <2>7, <2>8 DEF Keeps
<1>3. /\ bucket' = [b \in Buckets |-> bucket'[b]]
      /\ granted' = [b \in Buckets |-> granted'[b]]
      /\ promise' = [b \in Buckets |-> promise'[b]]
  BY DEF Tick, LimiterInv, TypeOK
<1> QED BY <1>1, <1>2, <1>3, BucketByBucket

\* Full buckets, nothing granted and nothing promised.
LEMMA LimiterInit == Init => LimiterInv
<1> SUFFICES ASSUME Init PROVE LimiterInv
  OBVIOUS
<1>1. TypeOK
  BY LimiterAssumption DEF Init, TypeOK, Time, NoGrants
<1>2. ASSUME NEW b \in Buckets PROVE Spent(b) /\ Promised(b)
  <2>1. Refill(b) = Capacity /\ now = 0 /\ promise[b] = None
    BY DEF Init, Refill
  <2>2. ASSUME NEW t \in Time PROVE granted[b][t] = 0
    BY DEF Init, NoGrants
  <2> QED BY <2>1, <2>2 DEF Spent, Promised
<1> QED BY <1>1, <1>2 DEF LimiterInv

\* One case per action.
LEMMA LimiterStep == LimiterInv /\ [Next]_vars => LimiterInv'
<1> SUFFICES ASSUME LimiterInv, [Next]_vars PROVE LimiterInv'
  OBVIOUS
<1>1. CASE CheckShared
  BY <1>1, DrawStep DEF CheckShared
<1>2. ASSUME NEW r \in Replicas, CheckLocal(r) PROVE LimiterInv'
  BY <1>2, DrawStep DEF CheckLocal
<1>3. ASSUME NEW b \in Buckets, LoseBucket(b) PROVE LimiterInv'
  BY <1>3, LoseStep DEF LoseBucket
<1>4. CASE Expire
  BY <1>4, ExpireStep
<1>5. CASE Tick
  BY <1>5, TickStep
<1>6. CASE UNCHANGED vars
  BY <1>6 DEF vars, LimiterInv, TypeOK, Spent, Promised, Refill, Last
<1> QED BY <1>1, <1>2, <1>3, <1>4, <1>5, <1>6 DEF Next

\* The invariant holds in every reachable state.
LEMMA LimiterInvariant == Spec => []LimiterInv
  BY LimiterInit, LimiterStep, PTL DEF Spec

\* Buckets never hold more than a burst, nor tokens counted in the future
\* (tokens and ts in TOKEN_BUCKET_LUA and _check_local).
THEOREM LimiterTypeCorrect == Spec => []TypeOK
<1>1. LimiterInv => TypeOK
  BY DEF LimiterInv
<1> QED BY <1>1, LimiterInvariant, PTL

\* In no window does a bucket admit more than a burst, what the rate allows and
\* the excess of the expiries that fit in it, whatever refusals and fallbacks lie
\* in it (TOKEN_BUCKET_LUA and _check_local), for every limit, one and two
\* requests per minute included.
THEOREM QuotaHoldsAlways == Spec => []QuotaHolds
<1>1. LimiterInv => QuotaHolds
  <2> SUFFICES ASSUME LimiterInv, NEW b \in Buckets, NEW t \in 0 .. now
               PROVE  Cost * granted[b][t] <= Allowed(now - t, now - t)
    BY DEF QuotaHolds, Allowed
  <2> DEFINE d == now - t
             g == granted[b][t]
  <2>1. TypeOK /\ now \in Nat /\ t \in Time /\ g \in Nat /\ d \in Nat
    BY LimiterAssumption DEF LimiterInv, TypeOK, Time
  <2>2. Refill(b) \in Nat
    BY <2>1, RefillType
  <2>3. Allowed(d, d) \in Nat /\ Cost * g \in Nat /\ Cost * 0 = 0
    <3> HIDE DEF d, g
    <3>1. d >= d
      BY <2>1
    <3>2. Allowed(d, d) \in Nat
      BY <2>1, <3>1, AllowedGrows
    <3>3. Cost * g \in Nat /\ Cost * 0 = 0
      BY <2>1, CapacityType, ProductType
    <3> QED BY <3>2, <3>3
  <2>4. CASE g = 0
    BY <2>3, <2>4
  <2>5. CASE g # 0
    <3>1. t <= Last(b) /\ Cost * g + Refill(b) <= Allowed(d, Last(b) - t)
      BY <2>1, <2>5 DEF LimiterInv, Spent
    <3>2. Cost * g + Refill(b) <= Allowed(d, d)
      BY <2>1, <2>2, <3>1, SpentLater
    <3> HIDE DEF d, g
    <3> QED BY <2>2, <2>3, <3>2 DEF d, g
  <2> QED BY <2>4, <2>5
<1> QED BY <1>1, LimiterInvariant, PTL

\* A client that comes back after retry_after finds a token unless another
\* request took it, however often the bucket was counted in between.
THEOREM RetryAfterIsEnoughHolds == Spec => []RetryAfterIsEnough
<1>1. LimiterInv => RetryAfterIsEnough
  <2> SUFFICES ASSUME LimiterInv, NEW b \in Buckets, promise[b] # None, now >= promise[b]
               PROVE  Refill(b) >= Cost
    BY DEF RetryAfterIsEnough
  <2>1. now \in Nat /\ promise[b] \in Nat /\ Refill(b) \in Nat
    BY RefillType DEF LimiterInv, TypeOK, Time
  <2>2. CASE promise[b] = now
    <3>1. (promise[b] - now) * Limit = 0
      BY <2>1, <2>2, LimiterAssumption
    <3> QED BY <2>1, <3>1, CapacityType DEF LimiterInv, Promised
  <2>3. CASE promise[b] # now
    BY <2>1, <2>3 DEF LimiterInv, Promised
  <2> QED BY <2>2, <2>3
<1> QED BY <1>1, LimiterInvariant, PTL
=============================================================================
