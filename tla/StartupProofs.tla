---------------------------- MODULE StartupProofs ----------------------------
(***************************************************************************)
(* Proofs about start-up and seeding, for any number of replicas, workers, *)
(* tenants and configurations in the rollout, and any number of faults:    *)
(* types, what a process that is up may rely on, and that transactions     *)
(* that overlap take the tenants table along TenantRegistry.               *)
(***************************************************************************)
EXTENDS Startup, TLAPS

-----------------------------------------------------------------------------
\* What holds of a process p with the record x, given the tables (sch), the
\* alias (al) and the rows of the tenants, whatever the others do.

Seeding == {"seed", "insert", "update", "commit"}
Before == {"down", "schema", "create"}
After == InIndex \cup {"connect", "up"}

ConfigOf(x) == Rollout[x.version]

\* The transaction has written entries of the configuration, and is closed
\* outside of the database.
TxOK(x) ==
    /\ x.pc \notin InDatabase => x.tx = NoWrites
    /\ x.tx \in WritesOf(ConfigOf(x))

\* Seeding goes through the configuration from the first entry to the last.
PositionOK(x) ==
    /\ x.pc \in Before => x.at = 1
    /\ x.pc \in {"insert", "update"} => x.at <= Len(ConfigOf(x))
    /\ x.pc = "commit" => x.at > Len(ConfigOf(x))

\* A worker has no business in the database, and comes past the index only
\* when the alias is there.
WorkerOK(x, al) ==
    /\ x.pc \notin InDatabase
    /\ x.pc \in {"connect", "up"} => al

\* A replica that seeds has the tables, and a row or a write for every entry
\* behind it; one that is past seeding has the rows.
ReplicaOK(x, sch, rows) ==
    /\ x.pc \notin Before => sch
    /\ x.pc \in Seeding =>
          \A i \in 1..Len(ConfigOf(x)) : i < x.at =>
             rows[ConfigOf(x)[i].tenant] # None \/ x.tx[ConfigOf(x)[i].tenant] # None
    /\ x.pc \in After =>
          \A i \in 1..Len(ConfigOf(x)) : rows[ConfigOf(x)[i].tenant] # None

ProcOK(p, x, sch, al, rows) ==
    /\ x \in Process
    /\ TxOK(x)
    /\ PositionOK(x)
    /\ p \in Workers => WorkerOK(x, al)
    /\ p \in Api => ReplicaOK(x, sch, rows)

-----------------------------------------------------------------------------
\* What holds between transactions.

RowKey(row) == IF row = None THEN None ELSE row.key

\* The key of t as a transaction with the writes w sees it.
View(w, t) == IF w[t] # None THEN w[t] ELSE RowKey(registry[t])

ViewUnique(w) ==
    \A t, u \in Tenants : View(w, t) # None /\ View(w, t) = View(w, u) => t = u

\* Open transactions write different rows and different keys.
Isolated ==
    \A p, q \in Api : p # q =>
        \A t, u \in Tenants : proc[p].tx[t] # None /\ proc[q].tx[u] # None =>
            t # u /\ proc[p].tx[t] # proc[q].tx[u]

\* Keys are unique in the table, and would be after any of the commits.
AllUnique == ViewUnique(NoWrites) /\ \A p \in Api : ViewUnique(proc[p].tx)

StartInv ==
    /\ TypeOK
    /\ \A p \in Procs : ProcOK(p, proc[p], schema, alias, registry)
    /\ Isolated
    /\ AllUnique

-----------------------------------------------------------------------------
\* Operators.

\* A version of the configuration is a sequence of entries.
LEMMA ConfigType ==
    ASSUME NEW v \in 1..Latest
    PROVE  /\ Rollout[v] \in Configs /\ Rollout[v] \in Seq(Entry)
           /\ Len(Rollout[v]) \in Nat
           /\ \A i \in 1..Len(Rollout[v]) : Rollout[v][i] \in Entry
<1>1. Rollout[v] \in Configs
  BY StartupAssumption DEF Latest
<1>2. Rollout[v] \in Seq(Entry)
  BY <1>1, RegistryAssumption
<1>. QED BY <1>1, <1>2

\* A transaction without writes.
LEMMA NoWritesType ==
    ASSUME NEW c
    PROVE  NoWrites \in WritesOf(c) /\ NoWrites \in [Tenants -> Keys \cup {None}]
  BY DEF NoWrites, WritesOf

\* No key is the absence of one.
LEMMA KeysAreKeys == None \notin Keys
  BY RegistryAssumption

\* The row of a tenant that was inserted.
LEMMA RowIsRow ==
    ASSUME RegistryTypeOK, NEW t \in Tenants
    PROVE  registry[t] # None => registry[t] \in Tenant /\ registry[t].key \in Keys
  BY DEF RegistryTypeOK, Tenant

\* Committed, as seed_tenants does it, is Written, as the abstract table has it.
LEMMA CommittedIsWritten ==
    ASSUME NEW w PROVE Committed(w) = Written(w)
<1>1. ASSUME NEW t \in Tenants PROVE Committed(w)[t] = Written(w)[t]
  <2>1. CASE w[t] = None
    BY <2>1 DEF Committed, Written
  <2>2. CASE w[t] # None /\ registry[t] = None
    BY <2>2 DEF Committed, Written, WithKey
  <2>3. CASE w[t] # None /\ registry[t] # None
    BY <2>3 DEF Committed, Written, WithKey
  <2>. QED BY <2>1, <2>2, <2>3
<1>. QED BY <1>1 DEF Committed, Written

\* The keys of the table after a commit are those the transaction saw.
LEMMA WrittenView ==
    ASSUME RegistryTypeOK, NEW w \in [Tenants -> Keys \cup {None}], NEW t \in Tenants
    PROVE  /\ RowKey(Written(w)[t]) = View(w, t)
           /\ Written(w)[t] \in Tenant \cup {None}
           /\ (Written(w)[t] = None) <=> (View(w, t) = None)
<1>1. CASE w[t] = None
  <2>1. Written(w)[t] = registry[t] /\ View(w, t) = RowKey(registry[t])
    BY <1>1 DEF Written, View
  <2>2. CASE registry[t] = None
    BY <2>1, <2>2 DEF RowKey
  <2>3. CASE registry[t] # None
    BY <2>1, <2>3, RowIsRow, KeysAreKeys DEF RowKey
  <2>. QED BY <2>2, <2>3
<1>2. CASE w[t] # None
  <2>1. Written(w)[t] = WithKey(registry[t], w[t]) /\ View(w, t) = w[t] /\ w[t] \in Keys
    BY <1>2 DEF Written, View
  <2>2. WithKey(registry[t], w[t]) \in Tenant /\ WithKey(registry[t], w[t]).key = w[t]
    BY <2>1 DEF WithKey, Tenant, RegistryTypeOK
  <2>3. None \notin Tenant
    BY RegistryAssumption DEF Tenant
  <2>. QED BY <2>1, <2>2, <2>3, KeysAreKeys DEF RowKey
<1>. QED BY <1>1, <1>2

\* A commit leaves a well-formed table.
LEMMA WrittenType ==
    ASSUME RegistryTypeOK, NEW w \in [Tenants -> Keys \cup {None}]
    PROVE  Written(w) \in [Tenants -> Tenant \cup {None}]
  BY WrittenView DEF Written

\* A unique view is a table with unique keys.
LEMMA UniqueView ==
    ASSUME RegistryTypeOK, NEW w \in [Tenants -> Keys \cup {None}], ViewUnique(w)
    PROVE  UniqueKeys(Written(w))
<1> SUFFICES ASSUME NEW t \in Tenants, NEW u \in Tenants, Written(w)[t] # None,
                    Written(w)[u] # None, Written(w)[t].key = Written(w)[u].key
             PROVE  t = u
  BY DEF UniqueKeys
<1>1. View(w, t) = Written(w)[t].key /\ View(w, u) = Written(w)[u].key /\ View(w, t) # None
  BY WrittenView DEF RowKey
<1>. QED BY <1>1 DEF ViewUnique

-----------------------------------------------------------------------------
\* Steps of one process.

\* The table is left alone, the tables and the alias do not go away.
Quiet ==
    /\ registry' = registry
    /\ schema' \in BOOLEAN /\ index' \in BOOLEAN /\ alias' \in BOOLEAN
    /\ schema => schema'
    /\ alias => alias'
    /\ reachable' \subseteq Deps
    /\ faults' \in Nat

\* p moves on, the others do not.
Moves(p) ==
    /\ proc' \in [Procs -> Process]
    /\ \A q \in Procs : q # p => proc'[q] = proc[q]

\* A step that keeps the transaction of p, or closes it, keeps the invariant if
\* p itself remains in order.
LEMMA OneProcess ==
    ASSUME StartInv, NEW p \in Procs, Quiet, Moves(p),
           proc'[p].tx \in {proc[p].tx, NoWrites},
           ProcOK(p, proc'[p], schema', alias', registry')
    PROVE  StartInv'
<1>1. ASSUME NEW q \in Procs PROVE ProcOK(q, proc'[q], schema', alias', registry')
  <2>1. CASE q = p
    BY <2>1
  <2>2. CASE q # p
    <3>1. ProcOK(q, proc[q], schema, alias, registry) /\ proc'[q] = proc[q] /\ registry' = registry
      BY <2>2 DEF StartInv, Moves, Quiet
    <3>2. q \in Workers => WorkerOK(proc[q], alias')
      BY <3>1 DEF ProcOK, WorkerOK, Quiet
    <3>3. q \in Api => ReplicaOK(proc[q], schema', registry)
      BY <3>1 DEF ProcOK, ReplicaOK, Quiet
    <3>. QED BY <3>1, <3>2, <3>3 DEF ProcOK
  <2>. QED BY <2>1, <2>2
<1>2. TypeOK'
  <2>1. \A q \in Procs : proc'[q].pc \notin InDatabase => proc'[q].tx = NoWrites
    BY <1>1 DEF ProcOK, TxOK
  <2>. QED BY <2>1 DEF StartInv, TypeOK, Quiet, Moves, RegistryTypeOK
<1>3. \A q \in Api : proc'[q].tx \in {proc[q].tx, NoWrites}
  BY DEF Moves, Procs
<1>4. Isolated'
  <2> SUFFICES ASSUME NEW a \in Api, NEW b \in Api, a # b, NEW t \in Tenants, NEW u \in Tenants,
                      proc'[a].tx[t] # None, proc'[b].tx[u] # None
               PROVE  t # u /\ proc'[a].tx[t] # proc'[b].tx[u]
    BY DEF Isolated
  <2>1. proc'[a].tx = proc[a].tx /\ proc'[b].tx = proc[b].tx
    BY <1>3 DEF NoWrites
  <2>. QED BY <2>1 DEF StartInv, Isolated
<1>5. AllUnique'
  BY <1>3 DEF StartInv, AllUnique, ViewUnique, View, Quiet
<1>. QED BY <1>1, <1>2, <1>4, <1>5 DEF StartInv

\* What a step does to the record of its process.
LEMMA GotoFields ==
    ASSUME StartInv, NEW p \in Procs,
           NEW s \in {"connect", "up"} \cup InDatabase \cup InIndex, Goto(p, s)
    PROVE  /\ Moves(p) /\ proc'[p].pc = s /\ proc'[p].version = proc[p].version
           /\ proc'[p].at = proc[p].at /\ proc'[p].tx = proc[p].tx
  BY DEF StartInv, TypeOK, Goto, Moves, Process

\* A process that stopped is well formed.
LEMMA StoppedType ==
    ASSUME NEW v \in 1..Latest
    PROVE  Stopped(v) \in Process
  BY NoWritesType DEF Stopped, Process, Connection

\* A process that stops, with its own or another version, is in order.
LEMMA StoppedStep ==
    ASSUME StartInv, NEW p \in Procs, NEW v \in 1..Latest, Quiet,
           proc' = [proc EXCEPT ![p] = Stopped(v)]
    PROVE  StartInv'
<1>1. Moves(p) /\ proc'[p] = Stopped(v)
  BY StoppedType DEF StartInv, TypeOK, Moves
<1>2. /\ proc'[p] \in Process /\ proc'[p].pc = "down" /\ proc'[p].at = 1
      /\ proc'[p].tx = NoWrites
  BY <1>1, StoppedType DEF Stopped
<1>3. ProcOK(p, proc'[p], schema', alias', registry')
  BY <1>2, NoWritesType DEF ProcOK, TxOK, PositionOK, WorkerOK, ReplicaOK, Before, After,
     Seeding, InDatabase, InIndex
<1>. QED BY <1>1, <1>2, <1>3, OneProcess

\* A process that goes down drops its transaction and keeps the invariant.
LEMMA DownStep ==
    ASSUME StartInv, NEW p \in Procs, Quiet, Down(p)
    PROVE  StartInv'
<1>1. proc[p].version \in 1..Latest /\ proc' = [proc EXCEPT ![p] = Stopped(proc[p].version)]
  BY DEF StartInv, TypeOK, Process, Down
<1>. QED BY <1>1, StoppedStep

\* The dependencies and the faults may change at any time.
LEMMA StillQuiet ==
    ASSUME StartInv, UNCHANGED stores, reachable' \subseteq Deps, faults' \in Nat
    PROVE  Quiet
  BY DEF StartInv, TypeOK, stores, Quiet

-----------------------------------------------------------------------------
\* Every action.  Except for the flush and the commit, each is a step of one
\* process that keeps or closes its transaction.

\* Nothing runs and nothing exists.
LEMMA StartInit == Init => StartInv
<1> SUFFICES ASSUME Init PROVE StartInv
  OBVIOUS
<1>1. 1 \in 1..Latest
  BY StartupAssumption DEF Latest
<1>2. \A p \in Procs : proc[p] = Stopped(1) /\ Stopped(1) \in Process
  BY <1>1, StoppedType DEF Init
<1>3. TypeOK
  BY <1>2 DEF Init, TypeOK, RegistryInit, RegistryTypeOK, Stopped
<1>4. \A p \in Procs : ProcOK(p, proc[p], schema, alias, registry)
  BY <1>2, NoWritesType DEF Stopped, ProcOK, TxOK, PositionOK, WorkerOK, ReplicaOK, Before, After,
     Seeding, InDatabase, InIndex
<1>5. Isolated
  BY <1>2 DEF Isolated, Stopped, NoWrites, Procs
<1>6. AllUnique
  BY <1>2 DEF Init, RegistryInit, AllUnique, ViewUnique, View, RowKey, Stopped, NoWrites, Procs
<1>. QED BY <1>3, <1>4, <1>5, <1>6 DEF StartInv

\* A restarted process begins from nothing.
LEMMA RestartStep ==
    ASSUME StartInv, NEW p \in Procs, Restart(p)
    PROVE  StartInv'
<1>1. Quiet
  BY StillQuiet DEF Restart, environment, StartInv, TypeOK
<1>2. ProcOK(p, proc[p], schema, alias, registry)
  BY DEF StartInv
<1>3. /\ Moves(p) /\ proc'[p].pc \in {"schema", "index"} /\ (proc'[p].pc = "schema" <=> p \in Api)
      /\ proc'[p].version = proc[p].version /\ proc'[p].at = proc[p].at
      /\ proc'[p].tx = proc[p].tx
  BY GotoFields DEF Restart, InDatabase, InIndex
<1>4. proc[p].pc = "down" /\ proc[p].at = 1 /\ proc[p].tx = NoWrites
  BY <1>2 DEF Restart, ProcOK, TxOK, PositionOK, Before, InDatabase
<1>5. ProcOK(p, proc'[p], schema', alias', registry')
  BY <1>2, <1>3, <1>4, StartupAssumption DEF Moves, ProcOK, TxOK, PositionOK, WorkerOK,
     ReplicaOK, ConfigOf, Before, After, Seeding, InDatabase, InIndex
<1>. QED BY <1>1, <1>3, <1>5, OneProcess

\* create_schema: whoever goes on to the seeding has tables.
LEMMA SchemaStep ==
    ASSUME StartInv, NEW p \in Api, SchemaCheck(p) \/ SchemaCreate(p)
    PROVE  StartInv'
<1>0. p \in Procs /\ p \notin Workers
  BY StartupAssumption DEF Procs
<1>1. Quiet
  BY StillQuiet DEF SchemaCheck, SchemaCreate, stores, environment, StartInv, TypeOK, Quiet
<1>2. ProcOK(p, proc[p], schema, alias, registry)
  BY <1>0 DEF StartInv
<1>3. CASE SchemaCreate(p) /\ Down(p)
  BY <1>0, <1>1, <1>3, DownStep
<1>4. CASE ~(SchemaCreate(p) /\ Down(p))
  <2>1. /\ Moves(p) /\ proc'[p].pc \in {"seed", "create"}
        /\ (proc'[p].pc = "seed" => schema')
        /\ proc'[p].version = proc[p].version /\ proc'[p].at = proc[p].at
        /\ proc'[p].tx = proc[p].tx
    BY <1>0, <1>4, GotoFields DEF SchemaCheck, SchemaCreate, stores, InDatabase, InIndex
  <2>2. proc[p].pc \in {"schema", "create"} /\ proc[p].at = 1
    BY <1>2 DEF SchemaCheck, SchemaCreate, Calls, ProcOK, PositionOK, Before
  <2>3. TxOK(proc'[p]) /\ PositionOK(proc'[p])
    BY <1>2, <2>1, <2>2 DEF ProcOK, TxOK, PositionOK, ConfigOf, Before, InDatabase
  <2>4. ReplicaOK(proc'[p], schema', registry')
    BY <2>1, <2>2 DEF ReplicaOK, ConfigOf, Before, After, Seeding, InDatabase, InIndex
  <2>5. ProcOK(p, proc'[p], schema', alias', registry')
    BY <1>0, <2>1, <2>3, <2>4 DEF Moves, ProcOK
  <2>. QED BY <1>0, <1>1, <2>1, <2>5, OneProcess
<1>. QED BY <1>3, <1>4

\* A read that finds the row as it should be goes on to the next entry.
LEMMA SeedReadStep ==
    ASSUME StartInv, NEW p \in Api, SeedRead(p)
    PROVE  StartInv'
<1>0. p \in Procs /\ p \notin Workers
  BY StartupAssumption DEF Procs
<1>1. Quiet
  BY StillQuiet DEF SeedRead, environment, StartInv, TypeOK
<1>2. ProcOK(p, proc[p], schema, alias, registry)
  BY <1>0 DEF StartInv
<1> DEFINE at == proc[p].at
           c == Config(p)
           needed == Needed(registry[Current(p).tenant], Current(p).key)
<1>3. /\ proc[p].pc = "seed" /\ schema /\ schema' /\ at \in Nat \ {0} /\ Len(c) \in Nat
      /\ proc[p].version \in 1..Latest
  BY <1>1, <1>2, ConfigType DEF SeedRead, Calls, ProcOK, ReplicaOK, Before, Quiet, Process, Config
<1>4. \A i \in 1..Len(c) : i < at => registry[c[i].tenant] # None \/ proc[p].tx[c[i].tenant] # None
  BY <1>2, <1>3 DEF ProcOK, ReplicaOK, Seeding, ConfigOf, Config
<1>5. CASE at > Len(c) \/ needed # "none"
  <2>1. needed # "none" => needed \in {"insert", "update"}
    BY DEF Needed
  <2>2. /\ Moves(p) /\ proc'[p].pc \in {"insert", "update", "commit"}
        /\ (proc'[p].pc = "commit" <=> at > Len(c))
        /\ proc'[p].version = proc[p].version /\ proc'[p].at = proc[p].at
        /\ proc'[p].tx = proc[p].tx
    BY <1>0, <1>3, <1>5, <2>1, GotoFields DEF SeedRead, InDatabase, InIndex
  <2>3. TxOK(proc'[p]) /\ PositionOK(proc'[p])
    BY <1>2, <1>3, <2>2 DEF ProcOK, TxOK, PositionOK, ConfigOf, Config, Before, InDatabase
  <2>4. ReplicaOK(proc'[p], schema', registry')
    BY <1>1, <1>3, <1>4, <2>2
       DEF Quiet, ReplicaOK, ConfigOf, Config, Before, After, Seeding, InIndex
  <2>5. ProcOK(p, proc'[p], schema', alias', registry')
    BY <1>0, <2>2, <2>3, <2>4 DEF Moves, ProcOK
  <2>. QED BY <1>0, <1>1, <2>2, <2>5, OneProcess
<1>6. CASE ~(at > Len(c) \/ needed # "none")
  <2> DEFINE next == at + 1
  <2>1. proc' = [proc EXCEPT ![p].at = next] /\ next \in Nat \ {0}
    BY <1>3, <1>6 DEF SeedRead
  <2> HIDE DEF next
  <2>2. /\ Moves(p) /\ proc'[p].pc = "seed" /\ proc'[p].at = next
        /\ proc'[p].version = proc[p].version /\ proc'[p].tx = proc[p].tx
    BY <1>0, <1>3, <2>1 DEF StartInv, TypeOK, Moves, Process
  <2>3. registry[c[at].tenant] # None
    BY <1>6 DEF Needed, Current
  <2>4. \A i \in 1..Len(c) : i < next =>
            registry[c[i].tenant] # None \/ proc[p].tx[c[i].tenant] # None
    BY <1>3, <1>4, <2>3 DEF next
  <2>5. TxOK(proc'[p]) /\ PositionOK(proc'[p])
    BY <1>2, <1>3, <2>2 DEF ProcOK, TxOK, PositionOK, ConfigOf, Before, InDatabase
  <2>6. ReplicaOK(proc'[p], schema', registry')
    BY <1>1, <1>3, <2>2, <2>4
       DEF Quiet, ReplicaOK, ConfigOf, Config, Before, After, Seeding, InIndex
  <2>7. ProcOK(p, proc'[p], schema', alias', registry')
    BY <1>0, <2>2, <2>5, <2>6 DEF Moves, ProcOK
  <2>. QED BY <1>0, <1>1, <2>2, <2>7, OneProcess
<1>. QED BY <1>5, <1>6

\* A flush that neither waits nor fails writes a row and a key that no other
\* open transaction has written, and that no other row has.
LEMMA SeedFlushStep ==
    ASSUME StartInv, NEW p \in Api, SeedFlush(p)
    PROVE  StartInv'
<1>0. p \in Procs /\ p \notin Workers
  BY StartupAssumption DEF Procs
<1>1. Quiet
  BY StillQuiet DEF SeedFlush, environment, StartInv, TypeOK
<1>2. ProcOK(p, proc[p], schema, alias, registry)
  BY <1>0 DEF StartInv
<1>3. CASE Violates(p)
  BY <1>0, <1>1, <1>3, DownStep DEF SeedFlush
<1>4. CASE ~Violates(p)
  <2> DEFINE x == proc[p]
             c == Config(p)
             tenant == Current(p).tenant
             key == Current(p).key
             tx == [x.tx EXCEPT ![tenant] = key]
             next == x.at + 1
  <2>1. /\ x \in Process /\ x.pc \in {"insert", "update"} /\ schema' /\ x.at \in Nat \ {0}
        /\ next \in Nat \ {0} /\ x.version \in 1..Latest /\ x.at <= Len(c)
        /\ x.tx \in [Tenants -> Keys \cup {None}]
    BY <1>1, <1>2 DEF SeedFlush, Calls, ProcOK, PositionOK, ReplicaOK, Before, Quiet, Process,
       Config, ConfigOf
  <2>2. /\ Len(c) \in Nat /\ x.at \in 1..Len(c)
        /\ c[x.at] = Current(p) /\ c[x.at] \in Entry
    BY <2>1, ConfigType DEF Config, Current
  <2>3. tenant \in Tenants /\ key \in Keys /\ key # None
    BY <2>2, KeysAreKeys DEF Entry
  <2>4. tx \in [Tenants -> Keys \cup {None}]
        /\ \A t \in Tenants : tx[t] = IF t = tenant THEN key ELSE x.tx[t]
    BY <2>1, <2>3
  <2>5. proc' = [proc EXCEPT ![p].pc = "seed", ![p].at = next, ![p].tx = tx]
    BY <1>4 DEF SeedFlush
  <2> HIDE DEF tx, next
  <2>6. /\ Moves(p) /\ proc'[p].pc = "seed" /\ proc'[p].at = next
        /\ proc'[p].version = x.version /\ proc'[p].tx = tx
    <3> DEFINE y == [x EXCEPT !.tx = tx]
               z == [y EXCEPT !.at = next]
               w == [z EXCEPT !.pc = "seed"]
    <3>1. y \in Process /\ y.tx = tx /\ y.version = x.version
      BY <2>1, <2>4 DEF Process
    <3>2. proc' = [proc EXCEPT ![p] = w]
      BY <2>5
    <3> HIDE DEF y
    <3>3. z \in Process /\ z.tx = tx /\ z.version = x.version /\ z.at = next
      BY <2>1, <3>1 DEF Process
    <3> HIDE DEF z
    <3>4. w \in Process /\ w.tx = tx /\ w.version = x.version /\ w.at = next /\ w.pc = "seed"
      BY <3>3 DEF Process, InDatabase
    <3> HIDE DEF w
    <3>. QED BY <1>0, <3>2, <3>4 DEF StartInv, TypeOK, Moves
  <2>7. TxOK(proc'[p]) /\ PositionOK(proc'[p])
    <3>1. c = ConfigOf(proc'[p]) /\ x.tx \in WritesOf(c)
      BY <1>2, <2>6 DEF Config, ConfigOf, ProcOK, TxOK
    <3>2. [tenant |-> tenant, key |-> key] = c[x.at]
      BY <2>2 DEF Entry
    <3>3. tx \in WritesOf(c)
      BY <2>2, <2>4, <3>1, <3>2 DEF WritesOf
    <3>. QED BY <2>6, <3>1, <3>3 DEF TxOK, PositionOK, Before, InDatabase
  <2>8. ReplicaOK(proc'[p], schema', registry')
    <3>1. \A i \in 1..Len(c) : i < x.at => registry[c[i].tenant] # None \/ x.tx[c[i].tenant] # None
      BY <1>2, <2>1 DEF ProcOK, ReplicaOK, Seeding, ConfigOf, Config
    <3>2. \A i \in 1..Len(c) : c[i].tenant \in Tenants
      BY <2>1, ConfigType DEF Config, Entry
    <3>3. \A i \in 1..Len(c) : i < next => i < x.at \/ c[i].tenant = tenant
      BY <2>1, <2>2 DEF next
    <3>4. \A i \in 1..Len(c) : i < next => registry[c[i].tenant] # None \/ tx[c[i].tenant] # None
      BY <2>3, <2>4, <3>1, <3>2, <3>3
    <3>. QED BY <1>1, <2>1, <2>6, <3>4 DEF Quiet, ReplicaOK, ConfigOf, Config, After, Seeding, InIndex
  <2>9. ASSUME NEW q \in Procs PROVE ProcOK(q, proc'[q], schema', alias', registry')
    <3>1. CASE q = p
      BY <1>0, <2>6, <2>7, <2>8, <3>1 DEF Moves, ProcOK
    <3>2. CASE q # p
      BY <2>6, <3>2 DEF SeedFlush, stores, StartInv, Moves
    <3>. QED BY <3>1, <3>2
  <2>10. TypeOK'
    <3>1. \A q \in Procs : proc'[q].pc \notin InDatabase => proc'[q].tx = NoWrites
      BY <2>9 DEF ProcOK, TxOK
    <3>. QED BY <1>1, <2>6, <3>1 DEF StartInv, TypeOK, Quiet, Moves, RegistryTypeOK
  <2>11. \A q \in Api : q # p => proc'[q] = proc[q]
    BY <2>6 DEF Moves, Procs
  \* ~Blocked(p)
  <2>12. ASSUME NEW q \in Api, q # p, NEW t \in Tenants, proc[q].tx[t] # None
         PROVE  t # tenant /\ proc[q].tx[t] # key
    BY <2>12 DEF SeedFlush, Blocked
  <2>13. Isolated'
    <3> SUFFICES ASSUME NEW a \in Api, NEW b \in Api, a # b, NEW t \in Tenants, NEW u \in Tenants,
                        proc'[a].tx[t] # None, proc'[b].tx[u] # None
                 PROVE  t # u /\ proc'[a].tx[t] # proc'[b].tx[u]
      BY DEF Isolated
    <3>1. CASE a = p
      BY <2>4, <2>6, <2>11, <2>12, <3>1 DEF StartInv, Isolated
    <3>2. CASE b = p
      BY <2>4, <2>6, <2>11, <2>12, <3>2 DEF StartInv, Isolated
    <3>3. CASE a # p /\ b # p
      BY <2>11, <3>3 DEF StartInv, Isolated
    <3>. QED BY <3>1, <3>2, <3>3
  \* ~Violates(p)
  <2>14. ASSUME NEW t \in Tenants, t # tenant PROVE View(tx, t) = View(x.tx, t) /\ View(x.tx, t) # key
    <3>1. x.tx[t] # key /\ (x.tx[t] = None => ~HasKey(t, key))
      BY <1>4, <2>14 DEF Violates
    <3>. QED BY <2>3, <2>4, <2>14, <3>1 DEF View, RowKey, HasKey
  <2>15. View(tx, tenant) = key
    BY <2>3, <2>4 DEF View
  <2>16. ViewUnique(tx)
    BY <2>14, <2>15 DEF StartInv, AllUnique, ViewUnique
  <2>17. AllUnique'
    BY <1>1, <2>6, <2>11, <2>16 DEF Quiet, StartInv, AllUnique, ViewUnique, View
  <2>. QED BY <2>9, <2>10, <2>13, <2>17 DEF StartInv
<1>. QED BY <1>3, <1>4

\* Rows do not go away, so what the others rely on stays true when the table
\* becomes rows.
LEMMA RowsStay ==
    ASSUME NEW p, NEW x, NEW sch, NEW al, NEW old, NEW rows,
           ProcOK(p, x, sch, al, old), x.version \in 1..Latest,
           \A t \in Tenants : old[t] # None => rows[t] # None
    PROVE  ProcOK(p, x, sch, al, rows)
<1>1. \A i \in 1..Len(ConfigOf(x)) : ConfigOf(x)[i].tenant \in Tenants
  BY ConfigType DEF ConfigOf, Entry
<1>. QED BY <1>1 DEF ProcOK, ReplicaOK

\* The commit: what the transaction saw becomes the table.
LEMMA SeedCommitStep ==
    ASSUME StartInv, NEW p \in Api, SeedCommit(p)
    PROVE  /\ StartInv'
           /\ registry' = Written(proc[p].tx) /\ UniqueKeys(registry')
           /\ proc[p].tx \in WritesOf(Config(p)) /\ Config(p) \in Configs
<1> DEFINE x == proc[p]
           c == Config(p)
<1>0. p \in Procs /\ p \notin Workers
  BY StartupAssumption DEF Procs
<1>1. ProcOK(p, x, schema, alias, registry) /\ RegistryTypeOK
  BY <1>0 DEF StartInv, TypeOK
<1>2. /\ x \in Process /\ x.pc = "commit" /\ schema /\ x.version \in 1..Latest
      /\ x.at \in Nat /\ x.at > Len(c) /\ x.tx \in [Tenants -> Keys \cup {None}]
      /\ x.tx \in WritesOf(c)
  BY <1>1 DEF SeedCommit, Calls, ProcOK, TxOK, PositionOK, ReplicaOK, Before, Process, Config, ConfigOf
<1>3. c \in Configs /\ Len(c) \in Nat /\ \A i \in 1..Len(c) : c[i].tenant \in Tenants
  BY <1>2, ConfigType DEF Config, Entry
<1>4. registry' = Written(x.tx)
  BY CommittedIsWritten DEF SeedCommit
<1>5. RegistryTypeOK'
  BY <1>1, <1>2, <1>4, WrittenType DEF RegistryTypeOK
<1>6. ViewUnique(x.tx)
  BY DEF StartInv, AllUnique
<1>7. UniqueKeys(registry')
  BY <1>1, <1>2, <1>4, <1>6, UniqueView
<1>8. \A t \in Tenants : RowKey(registry'[t]) = View(x.tx, t)
  BY <1>1, <1>2, <1>4, WrittenView
<1>9. \A t \in Tenants : registry[t] # None \/ x.tx[t] # None => registry'[t] # None
  <2>1. \A t \in Tenants : registry[t] # None => RowKey(registry[t]) # None
    BY <1>1, RowIsRow, KeysAreKeys DEF RowKey
  <2>2. \A t \in Tenants : registry[t] # None \/ x.tx[t] # None => View(x.tx, t) # None
    BY <2>1 DEF View
  <2>. QED BY <1>8, <2>2 DEF RowKey
<1>10. proc' = [proc EXCEPT ![p].pc = "index", ![p].at = 1, ![p].tx = NoWrites]
  BY DEF SeedCommit
<1>11. /\ Moves(p) /\ proc'[p].pc = "index" /\ proc'[p].version = x.version
       /\ proc'[p].tx = NoWrites
  <2> DEFINE y == [x EXCEPT !.tx = NoWrites]
             z == [y EXCEPT !.at = 1]
             w == [z EXCEPT !.pc = "index"]
  <2>1. y \in Process /\ y.tx = NoWrites /\ y.version = x.version
    BY <1>2, NoWritesType DEF Process
  <2>2. proc' = [proc EXCEPT ![p] = w]
    BY <1>10
  <2> HIDE DEF y
  <2>3. z \in Process /\ z.tx = NoWrites /\ z.version = x.version
    BY <2>1 DEF Process
  <2> HIDE DEF z
  <2>4. w \in Process /\ w.tx = NoWrites /\ w.version = x.version /\ w.pc = "index"
    BY <2>3 DEF Process, InIndex
  <2> HIDE DEF w
  <2>. QED BY <1>0, <2>2, <2>4 DEF StartInv, TypeOK, Moves
<1>12. schema' = schema /\ alias' = alias
  BY DEF SeedCommit
<1>13. ProcOK(p, proc'[p], schema', alias', registry')
  <2>1. TxOK(proc'[p]) /\ PositionOK(proc'[p])
    BY <1>11, NoWritesType DEF TxOK, PositionOK, Before
  <2>2. \A i \in 1..Len(c) : registry'[c[i].tenant] # None
    <3>1. \A i \in 1..Len(c) : registry[c[i].tenant] # None \/ x.tx[c[i].tenant] # None
      BY <1>1, <1>2, <1>3 DEF ProcOK, ReplicaOK, Seeding, ConfigOf, Config
    <3>. QED BY <1>3, <1>9, <3>1
  <2>3. ReplicaOK(proc'[p], schema', registry')
    BY <1>2, <1>11, <1>12, <2>2 DEF ReplicaOK, ConfigOf, Config, Seeding
  <2>. QED BY <1>0, <1>11, <2>1, <2>3 DEF Moves, ProcOK
<1>14. ASSUME NEW q \in Procs PROVE ProcOK(q, proc'[q], schema', alias', registry')
  <2>1. CASE q = p
    BY <1>13, <2>1
  <2>2. CASE q # p
    <3>1. proc'[q] = proc[q] /\ ProcOK(q, proc[q], schema, alias, registry)
          /\ proc[q].version \in 1..Latest
      BY <1>11, <2>2 DEF Moves, StartInv, TypeOK, Process
    <3>2. ProcOK(q, proc[q], schema, alias, registry')
      BY <1>9, <3>1, RowsStay
    <3>. QED BY <1>12, <3>1, <3>2
  <2>. QED BY <2>1, <2>2
<1>15. TypeOK'
  <2>1. \A q \in Procs : proc'[q].pc \notin InDatabase => proc'[q].tx = NoWrites
    BY <1>14 DEF ProcOK, TxOK
  <2>. QED BY <1>5, <1>11, <2>1 DEF SeedCommit, environment, StartInv, TypeOK, Moves
<1>16. \A q \in Api : q # p => proc'[q] = proc[q]
  BY <1>11 DEF Moves, Procs
<1>17. Isolated'
  BY <1>11, <1>16 DEF StartInv, Isolated, NoWrites
<1>18. AllUnique'
  <2>1. \A t \in Tenants : View(NoWrites, t)' = View(x.tx, t)
    BY <1>8 DEF View, NoWrites
  <2>2. ViewUnique(NoWrites)'
    BY <1>6, <2>1 DEF ViewUnique
  <2>3. ASSUME NEW q \in Api, q # p PROVE ViewUnique(proc[q].tx)'
    <3> DEFINE y == proc[q].tx
    <3>1. proc'[q].tx = y
      BY <1>16, <2>3
    <3>2. \A t \in Tenants : View(proc[q].tx, t)' = IF y[t] # None THEN y[t] ELSE View(x.tx, t)
      BY <1>8, <3>1 DEF View
    <3>3. \A t \in Tenants : y[t] = None /\ x.tx[t] = None => View(y, t) = View(x.tx, t)
      BY DEF View
    <3>4. \A t \in Tenants : y[t] # None => View(y, t) = y[t] /\ x.tx[t] = None
      BY <2>3 DEF View, StartInv, Isolated
    <3>5. \A t, u \in Tenants : y[t] # None /\ x.tx[u] # None => y[t] # View(x.tx, u)
      BY <2>3 DEF View, StartInv, Isolated
    <3>6. ViewUnique(y)
      BY DEF StartInv, AllUnique
    <3> HIDE DEF x, y
    <3>. QED BY <1>6, <3>2, <3>3, <3>4, <3>5, <3>6 DEF ViewUnique
  <2>. QED BY <1>11, <2>2, <2>3 DEF AllUnique
<1>. QED BY <1>2, <1>3, <1>4, <1>7, <1>14, <1>15, <1>17, <1>18 DEF StartInv

\* The index: a worker goes past it only with the alias.
LEMMA IndexStepStep ==
    ASSUME StartInv, NEW p \in Procs, IndexStep(p)
    PROVE  StartInv'
<1>1. Quiet
  BY StillQuiet DEF IndexStep, IndexExists, IndexCreate, AliasExists, AliasPut, ClusterFails,
     stores, environment, StartInv, TypeOK, Quiet
<1>2. ProcOK(p, proc[p], schema, alias, registry) /\ proc[p].pc \in InIndex
  BY DEF StartInv, IndexStep, IndexExists, IndexCreate, AliasExists, AliasPut, ClusterFails,
     Calls, Misses, InIndex
<1>3. CASE Down(p)
  BY <1>1, <1>3, DownStep
<1>4. CASE ~Down(p)
  <2>1. PICK s \in InIndex \cup {"connect"} :
            Goto(p, s) /\ (s = "connect" => p \in Api \/ alias')
    <3>1. CASE IndexExists(p)
      BY <3>1 DEF IndexExists, InIndex
    <3>2. CASE IndexCreate(p)
      BY <1>4, <3>2 DEF IndexCreate, IndexRaises, InIndex
    <3>3. CASE AliasExists(p)
      BY <3>3 DEF AliasExists, InIndex, stores
    <3>4. CASE AliasPut(p)
      BY <3>4 DEF AliasPut, InIndex
    <3>5. CASE ClusterFails(p)
      BY <1>4, <3>5 DEF ClusterFails, IndexRaises, InIndex
    <3>. QED BY <3>1, <3>2, <3>3, <3>4, <3>5 DEF IndexStep
  <2>2. /\ Moves(p) /\ proc'[p].pc = s /\ proc'[p].version = proc[p].version
        /\ proc'[p].at = proc[p].at /\ proc'[p].tx = proc[p].tx
    BY <2>1, GotoFields
  <2>3. TxOK(proc'[p]) /\ PositionOK(proc'[p])
    BY <1>2, <2>1, <2>2 DEF ProcOK, TxOK, PositionOK, ConfigOf, Before, InDatabase, InIndex
  <2>4. p \in Workers => WorkerOK(proc'[p], alias')
    BY <2>1, <2>2, StartupAssumption DEF WorkerOK, InDatabase, InIndex
  <2>5. p \in Api => ReplicaOK(proc'[p], schema', registry')
    BY <1>1, <1>2, <2>1, <2>2 DEF Quiet, ProcOK, ReplicaOK, ConfigOf, Before, After, Seeding, InIndex
  <2>6. ProcOK(p, proc'[p], schema', alias', registry')
    BY <2>2, <2>3, <2>4, <2>5 DEF Moves, ProcOK
  <2>. QED BY <1>1, <2>2, <2>6, OneProcess
<1>. QED BY <1>3, <1>4

\* The publisher: connecting and publishing end a start-up or stay up.
LEMMA PublisherStep ==
    ASSUME StartInv, NEW p \in Procs,
           Connect(p) \/ ConnectFails(p) \/ Publish(p) \/ PublishFails(p)
    PROVE  StartInv'
<1>1. Quiet
  BY StillQuiet DEF Connect, ConnectFails, Publish, PublishFails, environment, StartInv, TypeOK
<1>2. ProcOK(p, proc[p], schema, alias, registry) /\ proc[p].pc \in {"connect", "up"}
  BY DEF StartInv, Connect, ConnectFails, Publish, PublishFails, Calls, Misses
<1>3. CASE Down(p)
  BY <1>1, <1>3, DownStep
<1>4. CASE ~Down(p)
  <2>1. \/ \E conn \in Connection : proc' = [proc EXCEPT ![p].pc = "up", ![p].conn = conn]
        \/ \E conn \in Connection : proc' = [proc EXCEPT ![p].conn = conn]
    BY <1>4 DEF Connect, ConnectFails, Publish, PublishFails, Connection
  <2>2. /\ Moves(p) /\ proc'[p].pc \in {proc[p].pc, "up"} /\ proc'[p].version = proc[p].version
        /\ proc'[p].at = proc[p].at /\ proc'[p].tx = proc[p].tx
    <3>1. CASE \E conn \in Connection : proc' = [proc EXCEPT ![p].conn = conn]
      BY <3>1 DEF StartInv, TypeOK, Moves, Process
    <3>2. CASE \E conn \in Connection : proc' = [proc EXCEPT ![p].pc = "up", ![p].conn = conn]
      <4>1. PICK conn \in Connection : proc' = [proc EXCEPT ![p].pc = "up", ![p].conn = conn]
        BY <3>2
      <4> DEFINE y == [proc[p] EXCEPT !.conn = conn]
                 z == [y EXCEPT !.pc = "up"]
      <4>2. proc' = [proc EXCEPT ![p] = z]
        BY <4>1
      <4>3. y \in Process /\ y.version = proc[p].version /\ y.at = proc[p].at /\ y.tx = proc[p].tx
        BY DEF StartInv, TypeOK, Process
      <4> HIDE DEF y
      <4>4. /\ z \in Process /\ z.pc = "up" /\ z.version = proc[p].version
            /\ z.at = proc[p].at /\ z.tx = proc[p].tx
        BY <4>3 DEF Process
      <4> HIDE DEF z
      <4>. QED BY <4>2, <4>4 DEF StartInv, TypeOK, Moves
    <3>. QED BY <2>1, <3>1, <3>2
  <2>3. TxOK(proc'[p]) /\ PositionOK(proc'[p])
    BY <1>2, <2>2 DEF ProcOK, TxOK, PositionOK, ConfigOf, Before, InDatabase
  <2>4. p \in Workers => WorkerOK(proc'[p], alias')
    BY <1>1, <1>2, <2>2 DEF Quiet, ProcOK, WorkerOK, InDatabase
  <2>5. p \in Api => ReplicaOK(proc'[p], schema', registry')
    BY <1>1, <1>2, <2>2 DEF Quiet, ProcOK, ReplicaOK, ConfigOf, Before, After, Seeding
  <2>6. ProcOK(p, proc'[p], schema', alias', registry')
    BY <2>2, <2>3, <2>4, <2>5 DEF Moves, ProcOK
  <2>. QED BY <1>1, <2>2, <2>6, OneProcess
<1>. QED BY <1>3, <1>4

\* Whatever ends a process.
LEMMA EndStep ==
    ASSUME StartInv, NEW p \in Procs, Crash(p) \/ SeedAbort(p) \/ DatabaseFails(p) \/ Deploy(p)
    PROVE  StartInv'
<1>1. Quiet
  BY StillQuiet, StartupAssumption DEF Crash, Fault, SeedAbort, DatabaseFails, Deploy, environment,
     StartInv, TypeOK
<1>2. CASE Down(p)
  BY <1>1, <1>2, DownStep
<1>3. CASE Deploy(p)
  <2> DEFINE v == proc[p].version + 1
  <2>1. Latest \in Nat /\ proc[p].version \in 1..Latest
    BY StartupAssumption DEF StartInv, TypeOK, Process, Latest
  <2>2. v \in 1..Latest
    BY <1>3, <2>1 DEF Deploy
  <2>3. proc' = [proc EXCEPT ![p] = Stopped(v)]
    BY <1>3 DEF Deploy
  <2> HIDE DEF v
  <2>. QED BY <1>1, <2>2, <2>3, StoppedStep
<1>. QED BY <1>2, <1>3 DEF Crash, SeedAbort, DatabaseFails

\* The environment: dependencies come and go, and a tenant is disabled, which
\* leaves its row and its key.
LEMMA EnvironmentStep ==
    ASSUME StartInv, \/ \E d \in Deps : Outage(d) \/ Recover(d)
                     \/ \E t \in Tenants : Disable(t)
                     \/ UNCHANGED vars
    PROVE  StartInv'
<1>1. /\ proc' = proc /\ schema' = schema /\ index' = index /\ alias' = alias
      /\ reachable' \subseteq Deps /\ faults' \in Nat
  BY StartupAssumption DEF Outage, Recover, Disable, Fault, vars, stores, environment, StartInv, TypeOK
<1>2. /\ registry' \in [Tenants -> Tenant \cup {None}]
      /\ \A t \in Tenants : RowKey(registry'[t]) = RowKey(registry[t])
      /\ \A t \in Tenants : registry[t] # None => registry'[t] # None
  <2>1. CASE registry' = registry
    BY <2>1 DEF StartInv, TypeOK, RegistryTypeOK
  <2>2. CASE \E t \in Tenants : Disable(t)
    <3>0. PICK t \in Tenants : Disable(t)
      BY <2>2
    <3> DEFINE row == [registry[t] EXCEPT !.active = ~registry[t].active]
    <3>1. registry' = [registry EXCEPT ![t] = row] /\ registry[t] # None /\ registry[t] \in Tenant
      BY <3>0 DEF Disable, SetStatus, StartInv, TypeOK, RegistryTypeOK
    <3>2. row \in Tenant /\ row.key = registry[t].key
      BY <3>1 DEF Tenant
    <3>3. row # None
      BY <3>2, RegistryAssumption DEF Tenant
    <3> HIDE DEF row
    <3>. QED BY <3>1, <3>2, <3>3 DEF StartInv, TypeOK, RegistryTypeOK, RowKey
  <2>. QED BY <2>1, <2>2 DEF Outage, Recover, vars, stores
<1>3. ASSUME NEW p \in Procs PROVE ProcOK(p, proc'[p], schema', alias', registry')
  <2>1. ProcOK(p, proc[p], schema, alias, registry) /\ proc[p].version \in 1..Latest
    BY DEF StartInv, TypeOK, Process
  <2>2. ProcOK(p, proc[p], schema, alias, registry')
    BY <1>2, <2>1, RowsStay
  <2>. QED BY <1>1, <2>2
<1>4. TypeOK'
  BY <1>1, <1>2 DEF StartInv, TypeOK, RegistryTypeOK
<1>5. Isolated'
  BY <1>1 DEF StartInv, Isolated
<1>6. AllUnique'
  BY <1>1, <1>2 DEF StartInv, AllUnique, ViewUnique, View
<1>. QED BY <1>3, <1>4, <1>5, <1>6 DEF StartInv

\* One case per group of actions.
LEMMA StartNext == StartInv /\ [Next]_vars => StartInv'
<1> SUFFICES ASSUME StartInv, [Next]_vars PROVE StartInv'
  OBVIOUS
<1>1. Api \subseteq Procs
  BY DEF Procs
<1>2. ASSUME NEW p \in Api, DatabaseStep(p) PROVE StartInv'
  BY <1>1, <1>2, SchemaStep, SeedReadStep, SeedFlushStep, SeedCommitStep, EndStep DEF DatabaseStep
<1>3. ASSUME NEW p \in Procs, StartStep(p) PROVE StartInv'
  BY <1>3, RestartStep, IndexStepStep, PublisherStep DEF StartStep
<1>4. ASSUME NEW p \in Procs, Crash(p) PROVE StartInv'
  BY <1>4, EndStep
<1>5. ASSUME NEW p \in Api, Publish(p) \/ PublishFails(p) \/ Deploy(p) PROVE StartInv'
  BY <1>1, <1>5, PublisherStep, EndStep
<1>. QED BY <1>2, <1>3, <1>4, <1>5, EnvironmentStep DEF Next

\* The invariant holds in every reachable state.
LEMMA StartInvariant == Spec => []StartInv
  BY StartInit, StartNext, PTL DEF Spec

-----------------------------------------------------------------------------
\* The types: no transaction outlives the seeding it belongs to, however the
\* process ended.
THEOREM StartupTypeCorrect == Spec => []TypeOK
<1>1. StartInv => TypeOK
  BY DEF StartInv
<1>. QED BY <1>1, StartInvariant, PTL

\* A worker that consumes finds the alias, whoever created it, for any number
\* of processes that start together and fail in between.
THEOREM ConsumingMeansAliasHolds == Spec => []ConsumingMeansAlias
<1>1. StartInv => ConsumingMeansAlias
  BY DEF StartInv, ConsumingMeansAlias, ProcOK, WorkerOK, Procs
<1>. QED BY <1>1, StartInvariant, PTL

\* A replica that reports ready has its tables and a row for every tenant of
\* its configuration.
THEOREM ReadyMeansProvisionedHolds == Spec => []ReadyMeansProvisioned
<1>1. ASSUME StartInv PROVE ReadyMeansProvisioned
  <2> SUFFICES ASSUME NEW p \in Api, Ready(p)
               PROVE  schema /\ \A i \in 1..Len(Config(p)) : registry[Config(p)[i].tenant] # None
    BY DEF ReadyMeansProvisioned
  <2>1. ReplicaOK(proc[p], schema, registry) /\ proc[p].pc = "up"
    BY <1>1 DEF StartInv, ProcOK, Procs, Ready
  <2>. QED BY <2>1 DEF ReplicaOK, ConfigOf, Config, Before, After
<1>. QED BY <1>1, StartInvariant, PTL

\* Refinement: every step of every process leaves the tenants table alone or
\* is a step of TenantRegistry, a whole commit of entries of one configuration
\* with unique keys, or a change of a tenant's status.
THEOREM StartupImplementsRegistry == Spec => ImplementsRegistry
<1>1. Init => RegistryInit
  BY DEF Init
<1>2. ASSUME StartInv, [Next]_vars PROVE [RegistryNext]_registry
  <2>1. ASSUME NEW p \in Api, SeedCommit(p) PROVE RegistryNext
    BY <1>2, <2>1, SeedCommitStep DEF RegistryNext, Provision
  <2>2. ASSUME NEW t \in Tenants, Disable(t) PROVE RegistryNext
    BY <2>2 DEF Disable, RegistryNext
  <2>3. ASSUME NEW p \in Procs, StartStep(p) \/ Crash(p) PROVE registry' = registry
    BY <2>3 DEF StartStep, Restart, IndexStep, IndexExists, IndexCreate, AliasExists, AliasPut,
       ClusterFails, Connect, ConnectFails, Crash, stores
  <2>4. ASSUME NEW p \in Api,
               (DatabaseStep(p) /\ ~SeedCommit(p)) \/ Publish(p) \/ PublishFails(p) \/ Deploy(p)
        PROVE  registry' = registry
    BY <2>4 DEF DatabaseStep, SchemaCheck, SchemaCreate, SeedRead, SeedFlush, SeedAbort,
       DatabaseFails, Publish, PublishFails, Deploy, stores
  <2>5. ASSUME NEW d \in Deps, Outage(d) \/ Recover(d) PROVE registry' = registry
    BY <2>5 DEF Outage, Recover, stores
  <2>6. CASE UNCHANGED vars
    BY <2>6 DEF vars, stores
  <2>. QED BY <1>2, <2>1, <2>2, <2>3, <2>4, <2>5, <2>6 DEF Next
<1>. QED BY <1>1, <1>2, StartInvariant, PTL DEF Spec, ImplementsRegistry, RegistrySpec

=============================================================================
