----------------------------- MODULE SearchCache -----------------------------
(***************************************************************************)
(* The cache of search results of one tenant and one normalised query      *)
(* (services/search_service.py, cache_keys.py): results are stored under   *)
(* the tenant's generation, a write to the index moves the generation, and *)
(* concurrent misses of one replica collapse into one engine query.        *)
(*                                                                         *)
(* A result is the number of index writes it reflects.  A search runs      *)
(* once; a step is what it does between two awaits.  Which calls to Redis  *)
(* and the engine may fail is a parameter: every one of them is fail-open  *)
(* or turned into a 503.  Three of the failures undo the invalidation, and *)
(* a history variable records them.                                        *)
(***************************************************************************)
EXTENDS Naturals

CONSTANTS
    Searches,    \* search requests
    Replicas,    \* API processes: _inflight is per process
    ReplicaOf,   \* the process that serves a search
    None,        \* no entry, no leader
    MaxWrites,   \* bound on the writes of the indexing workers
    MaxBumps,    \* bound on INCRs that follow no write (POST and DELETE)
    CanFail      \* the kinds of calls that may fail

\* "refresh": a write that its bulk call has confirmed is not visible at once.
CallKinds == {"gen", "get", "set", "incr", "engine", "cancel", "evict", "refresh"}

ASSUME SearchAssumption ==
    /\ ReplicaOf \in [Searches -> Replicas]
    /\ None \notin Searches \cup Nat
    /\ MaxWrites \in Nat
    /\ MaxBumps \in Nat
    /\ CanFail \subseteq CallKinds

VARIABLES
    written,   \* writes the workers' bulk calls have applied to the index
    visible,   \* writes that searches can see
    writer,    \* the worker: about to write, or about to bump the generation
    settled,   \* history: writes whose worker went on after its bump
    bumps,     \* INCRs by API requests so far
    gen,       \* Redis: t:{tenant}:search:gen, 0 when there is no such key
    cache,     \* Redis: the result stored under every generation
    inflight,  \* per replica and generation: the leading search
    search,    \* per search: its progress and, when it leads, its future
    excused    \* history: has a failure defeated the invalidation?

vars == <<written, visible, writer, settled, bumps, gen, cache, inflight, search, excused>>
index == <<written, visible, writer, settled>>

Generations == 0 .. MaxWrites + MaxBumps
Result == 0 .. MaxWrites

\* floor is history: the writes settled and visible when the search began.
NoSearch == [pc |-> "new", gen |-> 0, leader |-> None, result |-> 0, floor |-> 0]

TypeOK ==
    /\ written \in Result
    /\ visible \in Result
    /\ writer \in {"write", "bump"}
    /\ settled \in Result
    /\ bumps \in 0 .. MaxBumps
    /\ gen \in Generations
    /\ cache \in [Generations -> Result \cup {None}]
    /\ inflight \in [Replicas -> [Generations -> Searches \cup {None}]]
    /\ search \in [Searches ->
          [pc : {"new", "lookup", "execute", "store", "wait", "answered", "failed", "cancelled"},
           gen : Generations, leader : Searches \cup {None}, result : Result, floor : Result]]
    /\ excused \in BOOLEAN

Init ==
    /\ written = 0
    /\ visible = 0
    /\ writer = "write"
    /\ settled = 0
    /\ bumps = 0
    /\ gen = 0
    /\ cache = [g \in Generations |-> None]
    /\ inflight = [r \in Replicas |-> [g \in Generations |-> None]]
    /\ search = [s \in Searches |-> NoSearch]
    /\ excused = FALSE

May(kind) == kind \in CanFail
Excuse == excused' = TRUE

-----------------------------------------------------------------------------
\* The indexing worker: the bulk call, then INCR.

BulkWrite ==
    /\ writer = "write"
    /\ written < MaxWrites
    /\ written' = written + 1
    /\ \/ visible' = written'
       \/ May("refresh") /\ UNCHANGED visible
    /\ writer' = "bump"
    /\ UNCHANGED <<settled, bumps, gen, cache, inflight, search, excused>>

WorkerBump ==
    /\ writer = "bump"
    /\ \/ gen' = gen + 1 /\ UNCHANGED excused
       \/ May("incr") /\ UNCHANGED gen /\ Excuse
    /\ writer' = "write"
    /\ settled' = written
    /\ UNCHANGED <<written, visible, bumps, cache, inflight, search>>

\* refresh_interval: the writes so far become visible.
Refresh ==
    /\ visible # written
    /\ visible' = written
    /\ UNCHANGED <<written, writer, settled, bumps, gen, cache, inflight, search, excused>>

\* invalidate_tenant of a POST or DELETE request.
RequestBump ==
    /\ bumps < MaxBumps
    /\ bumps' = bumps + 1
    /\ \/ gen' = gen + 1
       \/ May("incr") /\ UNCHANGED gen
    /\ UNCHANGED <<index, cache, inflight, search, excused>>

-----------------------------------------------------------------------------
\* SearchService.search

\* A search ends: only its outcome remains, for those that joined it.
Finish(s, how, result) ==
    search' = [search EXCEPT ![s] =
        [NoSearch EXCEPT !.pc = how, !.result = result, !.floor = search[s].floor]]

Floor == IF visible < settled THEN visible ELSE settled

\* current_generation: a Redis error and a missing key both read as 0.
ReadGeneration(s) ==
    /\ search[s].pc = "new"
    /\ \E g \in {gen} \cup (IF May("gen") THEN {0} ELSE {}) :
          /\ search' = [search EXCEPT ![s] =
                [NoSearch EXCEPT !.pc = "lookup", !.gen = g, !.floor = Floor]]
          /\ IF g = gen THEN UNCHANGED excused ELSE Excuse
    /\ UNCHANGED <<index, bumps, gen, cache, inflight>>

\* Variant: a missing entry taken for a result.
HitWithoutCheck(s) ==
    /\ search[s].pc = "lookup"
    /\ Finish(s, "answered", cache[search[s].gen])
    /\ UNCHANGED <<index, bumps, gen, cache, inflight, excused>>

Hit(s) ==
    /\ search[s].pc = "lookup"
    /\ cache[search[s].gen] # None
    /\ Finish(s, "answered", cache[search[s].gen])
    /\ UNCHANGED <<index, bumps, gen, cache, inflight, excused>>

\* Variant: nobody learns of the query under way.
MissUnregistered(s) ==
    /\ search[s].pc = "lookup"
    /\ cache[search[s].gen] = None \/ May("get")
    /\ search' = [search EXCEPT ![s].pc = "execute"]
    /\ UNCHANGED <<index, bumps, gen, cache, inflight, excused>>

\* A miss, or a failed lookup: join the query under way in this process or
\* lead a new one.  Nothing is awaited in between.
Miss(s) ==
    LET leader == inflight[ReplicaOf[s]][search[s].gen] IN
    /\ search[s].pc = "lookup"
    /\ cache[search[s].gen] = None \/ May("get")
    /\ IF leader # None
       THEN /\ search' = [search EXCEPT ![s].pc = "wait", ![s].leader = leader]
            /\ UNCHANGED inflight
       ELSE /\ search' = [search EXCEPT ![s].pc = "execute"]
            /\ inflight' = [inflight EXCEPT ![ReplicaOf[s]][search[s].gen] = s]
    /\ UNCHANGED <<index, bumps, gen, cache, excused>>

Pop(s) == inflight' = [inflight EXCEPT ![ReplicaOf[s]][search[s].gen] = None]

\* The engine answers, or raises: then the future carries the exception.  An
\* answer under the new generation may precede the refresh that shows the write.
Execute(s) ==
    /\ search[s].pc = "execute"
    /\ \/ /\ search' = [search EXCEPT ![s].pc = "store", ![s].result = visible]
          /\ IF visible < settled THEN Excuse ELSE UNCHANGED excused
          /\ UNCHANGED inflight
       \/ /\ May("engine")
          /\ Finish(s, "failed", 0)
          /\ Pop(s)
          /\ UNCHANGED excused
    /\ UNCHANGED <<index, bumps, gen, cache>>

\* Variant: the key is made from the generation at the time of the store.
StoreUnderCurrent(s) ==
    /\ search[s].pc = "store"
    /\ \/ cache' = [cache EXCEPT ![gen] = search[s].result]
       \/ May("set") /\ UNCHANGED cache
    /\ Finish(s, "answered", search[s].result)
    /\ Pop(s)
    /\ UNCHANGED <<index, bumps, gen, excused>>

\* set_json, fail-open, then the future gets its result.
Store(s) ==
    /\ search[s].pc = "store"
    /\ \/ cache' = [cache EXCEPT ![search[s].gen] = search[s].result]
       \/ May("set") /\ UNCHANGED cache
    /\ Finish(s, "answered", search[s].result)
    /\ Pop(s)
    /\ UNCHANGED <<index, bumps, gen, excused>>

\* Variant: the leader's exception never reaches those that joined it.
ResumeOnResult(s) ==
    LET leader == search[s].leader IN
    /\ search[s].pc = "wait"
    /\ search[leader].pc = "answered"
    /\ Finish(s, "answered", search[leader].result)
    /\ UNCHANGED <<index, bumps, gen, cache, inflight, excused>>

\* A coalesced search takes the leader's result or exception.
Resume(s) ==
    LET leader == search[s].leader IN
    /\ search[s].pc = "wait"
    /\ search[leader].pc \in {"answered", "failed"}
    /\ Finish(s, search[leader].pc, search[leader].result)
    /\ UNCHANGED <<index, bumps, gen, cache, inflight, excused>>

\* The request of a leader is cancelled.  CancelledError is no Exception: the
\* finally clause drops the future, and nobody resolves it.  Redis may have
\* applied a SET whose answer is not awaited any more.
CancelLeader(s) ==
    /\ May("cancel")
    /\ search[s].pc \in {"execute", "store"}
    /\ \/ UNCHANGED cache
       \/ /\ search[s].pc = "store"
          /\ cache' = [cache EXCEPT ![search[s].gen] = search[s].result]
    /\ Finish(s, "cancelled", 0)
    /\ Pop(s)
    /\ UNCHANGED <<index, bumps, gen, excused>>

\* The TTL of an entry ends, or Redis evicts it (allkeys-lru).
Expire(g) ==
    /\ cache[g] # None
    /\ cache' = [cache EXCEPT ![g] = None]
    /\ UNCHANGED <<index, bumps, gen, inflight, search, excused>>

EvictGeneration ==
    /\ May("evict")
    /\ gen # 0
    /\ gen' = 0
    /\ Excuse
    /\ UNCHANGED <<index, bumps, cache, inflight, search>>

-----------------------------------------------------------------------------
SearchStep(s) == Hit(s) \/ Miss(s) \/ Execute(s) \/ Store(s) \/ Resume(s)

Next ==
    \/ BulkWrite \/ WorkerBump \/ Refresh \/ RequestBump \/ EvictGeneration
    \/ \E s \in Searches : ReadGeneration(s) \/ SearchStep(s) \/ CancelLeader(s)
    \/ \E g \in Generations : Expire(g)

Spec == Init /\ [][Next]_vars

\* A search that has begun goes on: Redis, the engine and the event loop answer.
FairSpec == Spec /\ \A s \in Searches : WF_vars(SearchStep(s))

-----------------------------------------------------------------------------
\* A search that begins after the worker has settled a write, and the engine
\* has made it visible, reflects the write, whether its answer comes from the
\* cache, from the engine or from a search it joined.  Only a lost bump, a lost
\* generation or an answer that came before the refresh defeats this: slow
\* searches, failed lookups and stores, evictions of results, cancelled leaders
\* and the lost bumps of POST and DELETE do not.
SettledWritesAreSeen ==
    \A s \in Searches :
        search[s].pc = "answered" /\ ~excused => search[s].result >= search[s].floor

\* At most one engine query for a key at a time in a process.
OneLeader ==
    \A s, t \in Searches :
        /\ search[s].pc \in {"execute", "store"}
        /\ search[t].pc \in {"execute", "store"}
        /\ ReplicaOf[s] = ReplicaOf[t]
        /\ search[s].gen = search[t].gen
        => s = t

\* Every search ends, unless the search it joined was cancelled.
SearchEnds ==
    \A s \in Searches :
        search[s].pc = "lookup" ~>
            \/ search[s].pc \in {"answered", "failed", "cancelled"}
            \/ search[s].pc = "wait" /\ search[search[s].leader].pc = "cancelled"

\* "The staleness window is therefore bounded by indexing lag, not by the cache
\* TTL" (processor.py): once the worker has indexed a write and bumped, and the
\* engine shows the write, no new search misses it.
StalenessEndsWithIndexing ==
    \A s \in Searches : search[s].pc = "answered" => search[s].result >= search[s].floor

=============================================================================
