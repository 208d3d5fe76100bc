------------------------------- MODULE Startup -------------------------------
(***************************************************************************)
(* How API replicas and indexing workers come up (container.py, db/        *)
(* database.py, clients/opensearch_engine.py, clients/queue.py, workers/   *)
(* consumer.py) and what GET /health then says of them.                    *)
(*                                                                         *)
(* A replica creates the tables and seeds the tenants, where any failure   *)
(* ends it, then bootstraps the index and connects to the broker, where a  *)
(* failure is logged and it starts degraded.  A worker bootstraps the      *)
(* index and connects, and any failure ends it.  Whatever ends is started  *)
(* again by its supervisor (restart: unless-stopped).  All of them start   *)
(* at once, with the old or the new value of SEED_TENANTS while a new      *)
(* version is rolled out.                                                  *)
(*                                                                         *)
(* Seeding is one transaction at READ COMMITTED.  Every tenant is read,    *)
(* and its write is flushed before the next read; a flush waits for        *)
(* transactions that hold the row or the key, and fails on a key that      *)
(* another tenant has.                                                     *)
(***************************************************************************)
EXTENDS TenantRegistry

CONSTANTS
    Api,        \* API replicas
    Workers,    \* indexing workers
    Rollout,    \* the values of SEED_TENANTS, oldest first
    MaxFaults   \* bound on crashes, outages and tenants that are disabled

Procs == Api \cup Workers
Deps == {"postgres", "opensearch", "redis", "rabbitmq"}
Latest == Len(Rollout)

ASSUME StartupAssumption ==
    /\ Api \cap Workers = {}
    /\ Rollout \in Seq(Configs)
    /\ Latest > 0
    /\ MaxFaults \in Nat

VARIABLES
    schema,     \* Postgres: do the tables exist?
    index,      \* OpenSearch: does documents-v1 exist?
    alias,      \* OpenSearch: does the alias documents exist?
    reachable,  \* the dependencies that answer
    proc,       \* processes
    faults

stores == <<registry, schema, index, alias>>
environment == <<reachable, faults>>
vars == <<stores, environment, proc>>

\* What a publisher holds: nothing, a connection without its exchange, both.
Connection == {"none", "half", "open"}
NoWrites == [t \in Tenants |-> None]

InDatabase == {"schema", "create", "seed", "insert", "update", "commit"}
InIndex == {"index", "create_index", "alias", "put_alias"}

\* A process: the step of its start-up, the position of its configuration in
\* Rollout, the entry of it that is being seeded, the keys that its open
\* transaction has written, and its publisher's connection.
Process ==
    [pc : {"down", "connect", "up"} \cup InDatabase \cup InIndex,
     version : 1..Latest, at : Nat \ {0}, tx : [Tenants -> Keys \cup {None}],
     conn : Connection]
Stopped(v) == [pc |-> "down", version |-> v, at |-> 1, tx |-> NoWrites, conn |-> "none"]

\* The types; no transaction outlives the seeding it belongs to.
TypeOK ==
    /\ RegistryTypeOK
    /\ schema \in BOOLEAN /\ index \in BOOLEAN /\ alias \in BOOLEAN
    /\ reachable \subseteq Deps
    /\ proc \in [Procs -> Process]
    /\ \A p \in Procs : proc[p].pc \notin InDatabase => proc[p].tx = NoWrites
    /\ faults \in Nat

Init ==
    /\ RegistryInit
    /\ schema = FALSE /\ index = FALSE /\ alias = FALSE
    /\ reachable = Deps
    /\ proc = [p \in Procs |-> Stopped(1)]
    /\ faults = 0

-----------------------------------------------------------------------------
Goto(p, state) == proc' = [proc EXCEPT ![p].pc = state]

\* A call to a dependency that answers, and to one that does not.
Calls(p, steps, d) == proc[p].pc \in steps /\ d \in reachable
Misses(p, steps, d) == proc[p].pc \in steps /\ d \notin reachable

\* Variant: the transaction stays open.
DownUnclosed(p) ==
    proc' = [proc EXCEPT ![p] = [Stopped(@.version) EXCEPT !.tx = proc[p].tx]]

\* The process ends: its transaction is rolled back, its connections close.
Down(p) == proc' = [proc EXCEPT ![p] = Stopped(@.version)]

\* The supervisor starts it again.
Restart(p) ==
    /\ proc[p].pc = "down"
    /\ Goto(p, IF p \in Api THEN "schema" ELSE "index")
    /\ UNCHANGED <<stores, environment>>

-----------------------------------------------------------------------------
\* create_schema: create_all looks for the tables, then creates what is missing.

SchemaCheck(p) ==
    /\ Calls(p, {"schema"}, "postgres")
    /\ Goto(p, IF schema THEN "seed" ELSE "create")
    /\ UNCHANGED <<stores, environment>>

\* CREATE TABLE fails if another process was faster.
SchemaCreate(p) ==
    /\ Calls(p, {"create"}, "postgres")
    /\ schema' = TRUE
    /\ IF schema THEN Down(p) ELSE Goto(p, "seed")
    /\ UNCHANGED <<registry, index, alias, environment>>

-----------------------------------------------------------------------------
\* seed_tenants.

Config(p) == Rollout[proc[p].version]
Current(p) == Config(p)[proc[p].at]

\* Variant: a tenant that exists is left as it is.
NeededInsertOnly(row, k) == IF row = None THEN "insert" ELSE "none"

\* What an entry of the configuration asks for.
Needed(row, k) ==
    CASE row = None -> "insert"
      [] row # None /\ row.key # k -> "update"
      [] OTHER -> "none"

SeedRead(p) ==
    /\ Calls(p, {"seed"}, "postgres")
    /\ IF proc[p].at > Len(Config(p))
       THEN Goto(p, "commit")
       ELSE LET needed == Needed(registry[Current(p).tenant], Current(p).key) IN
            IF needed = "none" THEN proc' = [proc EXCEPT ![p].at = @ + 1] ELSE Goto(p, needed)
    /\ UNCHANGED <<stores, environment>>

HasKey(t, k) == registry[t] # None /\ registry[t].key = k

\* Another open transaction holds the row, or a row with the same key.
Blocked(p) ==
    \E q \in Api \ {p}, t \in Tenants :
        /\ proc[q].tx[t] # None
        /\ \/ t = Current(p).tenant
           \/ proc[q].tx[t] = Current(p).key
           \/ HasKey(t, Current(p).key)

\* The row exists by now, or another tenant has the key.
Violates(p) ==
    \/ proc[p].pc = "insert" /\ registry[Current(p).tenant] # None
    \/ \E t \in Tenants \ {Current(p).tenant} :
          \/ proc[p].tx[t] = Current(p).key
          \/ proc[p].tx[t] = None /\ HasKey(t, Current(p).key)

SeedFlush(p) ==
    /\ Calls(p, {"insert", "update"}, "postgres")
    /\ ~Blocked(p)
    /\ IF Violates(p)
       THEN Down(p)
       ELSE proc' = [proc EXCEPT ![p].pc = "seed", ![p].at = @ + 1,
                                 ![p].tx = [@ EXCEPT ![Current(p).tenant] = Current(p).key]]
    /\ UNCHANGED <<stores, environment>>

\* Postgres ends one of the transactions that wait for each other.
SeedAbort(p) ==
    /\ proc[p].pc \in {"insert", "update"}
    /\ Blocked(p)
    /\ Down(p)
    /\ UNCHANGED <<stores, environment>>

\* Variant: whole rows are written, the default status with them.
CommittedWholeRows(w) ==
    [t \in Tenants |-> IF w[t] = None THEN registry[t] ELSE [key |-> w[t], active |-> TRUE]]

\* Variant: the session is closed without a commit.
CommittedNothing(w) == registry

\* INSERT with the default status, UPDATE of the key alone.
Committed(w) ==
    [t \in Tenants |->
        CASE w[t] = None -> registry[t]
          [] w[t] # None /\ registry[t] = None -> [key |-> w[t], active |-> TRUE]
          [] OTHER -> [key |-> w[t], active |-> registry[t].active]]

SeedCommit(p) ==
    /\ Calls(p, {"commit"}, "postgres")
    /\ registry' = Committed(proc[p].tx)
    /\ proc' = [proc EXCEPT ![p].pc = "index", ![p].at = 1, ![p].tx = NoWrites]
    /\ UNCHANGED <<schema, index, alias, environment>>

\* Postgres is fail-fast.
DatabaseFails(p) ==
    /\ Misses(p, InDatabase, "postgres")
    /\ Down(p)
    /\ UNCHANGED <<stores, environment>>

-----------------------------------------------------------------------------
\* ensure_index: documents-v1, then the alias.  The checks and the calls that
\* follow them are separate requests to the cluster.

\* Variant: a worker starts degraded like a replica.
IndexRaisesTolerated(p) == Goto(p, "connect")

\* A replica goes on, a worker ends.
IndexRaises(p) == IF p \in Api THEN Goto(p, "connect") ELSE Down(p)

IndexExists(p) ==
    /\ Calls(p, {"index"}, "opensearch")
    /\ Goto(p, IF index THEN "alias" ELSE "create_index")
    /\ UNCHANGED <<stores, environment>>

\* indices.create raises if another process was faster.
IndexCreate(p) ==
    /\ Calls(p, {"create_index"}, "opensearch")
    /\ index' = TRUE
    /\ IF index THEN IndexRaises(p) ELSE Goto(p, "alias")
    /\ UNCHANGED <<registry, schema, alias, environment>>

AliasExists(p) ==
    /\ Calls(p, {"alias"}, "opensearch")
    /\ Goto(p, IF alias THEN "connect" ELSE "put_alias")
    /\ UNCHANGED <<stores, environment>>

AliasPut(p) ==
    /\ Calls(p, {"put_alias"}, "opensearch")
    /\ alias' = TRUE
    /\ Goto(p, "connect")
    /\ UNCHANGED <<registry, schema, index, environment>>

ClusterFails(p) ==
    /\ Misses(p, InIndex, "opensearch")
    /\ IndexRaises(p)
    /\ UNCHANGED <<stores, environment>>

-----------------------------------------------------------------------------
\* The publisher.

\* connect() opens the connection and the channel and declares the exchange.
Connect(p) ==
    /\ Calls(p, {"connect"}, "rabbitmq")
    /\ proc' = [proc EXCEPT ![p].pc = "up", ![p].conn = "open"]
    /\ UNCHANGED <<stores, environment>>

\* connect() raises, before or after it has stored the connection.
ConnectFails(p) ==
    /\ Misses(p, {"connect"}, "rabbitmq")
    /\ IF p \in Api
       THEN \E c \in {"none", "half"} : proc' = [proc EXCEPT ![p].pc = "up", ![p].conn = c]
       ELSE Down(p)
    /\ UNCHANGED <<stores, environment>>

\* Variant: only start-up connects.
PublishUnconnected(p) ==
    /\ Calls(p, {"up"}, "rabbitmq")
    /\ UNCHANGED vars

\* A write publishes its event; without an exchange it connects first.
Publish(p) ==
    /\ Calls(p, {"up"}, "rabbitmq")
    /\ proc' = [proc EXCEPT ![p].conn = "open"]
    /\ UNCHANGED <<stores, environment>>

\* While the broker is away a publish raises; its connect() may have stored a
\* connection by then.
PublishFails(p) ==
    /\ Misses(p, {"up"}, "rabbitmq")
    /\ proc[p].conn = "none"
    /\ proc' = [proc EXCEPT ![p].conn = "half"]
    /\ UNCHANGED <<stores, environment>>

-----------------------------------------------------------------------------
\* GET /health and /health/ready.

Critical == {"postgres", "opensearch"}

\* publisher.ping asks whether there is a connection, which reconnects by
\* itself and counts as closed only after close().
PublisherPing(p) == proc[p].conn # "none"

Probe(p, d) == IF d = "rabbitmq" THEN PublisherPing(p) ELSE d \in reachable

Verdict(p) ==
    LET down == {d \in Deps : ~Probe(p, d)} IN
    CASE down \cap Critical # {} -> "unhealthy"
      [] down # {} /\ down \cap Critical = {} -> "degraded"
      [] OTHER -> "healthy"

\* A process answers once its start-up is over.
Ready(p) == proc[p].pc = "up" /\ Verdict(p) # "unhealthy"

-----------------------------------------------------------------------------
\* The environment.

Fault == faults < MaxFaults /\ faults' = faults + 1

\* A process is killed, at any step.
Crash(p) ==
    /\ proc[p].pc # "down"
    /\ Fault
    /\ Down(p)
    /\ UNCHANGED <<stores, reachable>>

\* The rollout stops a replica and starts it with the next configuration.
Deploy(p) ==
    /\ proc[p].version < Latest
    /\ proc' = [proc EXCEPT ![p] = Stopped(@.version + 1)]
    /\ UNCHANGED <<stores, environment>>

Outage(d) ==
    /\ d \in reachable
    /\ Fault
    /\ reachable' = reachable \ {d}
    /\ UNCHANGED <<stores, proc>>

Recover(d) ==
    /\ d \in Deps \ reachable
    /\ reachable' = reachable \cup {d}
    /\ UNCHANGED <<stores, proc, faults>>

\* An operator disables a tenant.
Disable(t) ==
    /\ registry[t] # None /\ registry[t].active
    /\ Fault
    /\ SetStatus(t)
    /\ UNCHANGED <<schema, index, alias, reachable, proc>>

-----------------------------------------------------------------------------
DatabaseStep(p) ==
    \/ SchemaCheck(p) \/ SchemaCreate(p)
    \/ SeedRead(p) \/ SeedFlush(p) \/ SeedAbort(p) \/ SeedCommit(p)
    \/ DatabaseFails(p)

IndexStep(p) ==
    \/ IndexExists(p) \/ IndexCreate(p)
    \/ AliasExists(p) \/ AliasPut(p)
    \/ ClusterFails(p)

StartStep(p) == Restart(p) \/ IndexStep(p) \/ Connect(p) \/ ConnectFails(p)

Next ==
    \/ \E p \in Procs : StartStep(p) \/ Crash(p)
    \/ \E p \in Api : DatabaseStep(p) \/ Publish(p) \/ PublishFails(p) \/ Deploy(p)
    \/ \E d \in Deps : Outage(d) \/ Recover(d)
    \/ \E t \in Tenants : Disable(t)

Spec == Init /\ [][Next]_vars

\* Processes run and are restarted, outages end, the rollout reaches every
\* replica, and clients write.
Fairness ==
    /\ \A p \in Procs : WF_vars(StartStep(p))
    /\ \A p \in Api : WF_vars(DatabaseStep(p)) /\ WF_vars(Publish(p)) /\ WF_vars(Deploy(p))
    /\ \A d \in Deps : WF_vars(Recover(d))

FairSpec == Spec /\ Fairness

-----------------------------------------------------------------------------
\* A worker that consumes finds the alias.  OpenSearch would otherwise create
\* an index of that name, with guessed mappings, for its first bulk call, and
\* put_alias would fail from then on.  Two checks and two calls to the cluster,
\* of processes that start together, die in between or tolerate a failure.
ConsumingMeansAlias == \A w \in Workers : proc[w].pc = "up" => alias

\* A replica that reports ready finds its tables and a row for every tenant of
\* its configuration, whoever created them, and whatever start-ups failed.
ReadyMeansProvisioned ==
    \A p \in Api : Ready(p) =>
        schema /\ \A i \in 1..Len(Config(p)) : registry[Config(p)[i].tenant] # None

\* Transactions that read what others change, wait, fail or are rolled back
\* only ever take the table along TenantRegistry: whole commits of the entries
\* of one configuration, keys unique, and a disabled tenant stays disabled.
ImplementsRegistry == RegistrySpec

\* Once the rollout has reached every replica, the tenants get the keys of the
\* last configuration and keep them, although replicas with the old one may
\* have put the old keys back until then.
RolloutConverges ==
    (\A p \in Api : proc[p].version = Latest) ~>
        [](\A i \in 1..Len(Rollout[Latest]) :
              HasKey(Rollout[Latest][i].tenant, Rollout[Latest][i].key))

\* After the last failure every process comes up, and /health says healthy:
\* lost races, aborted transactions and replicas that started without the
\* broker do not leave anything behind.
FleetRecovers ==
    <>[]((\A p \in Procs : proc[p].pc = "up") /\ \A p \in Api : Verdict(p) = "healthy")

=============================================================================
