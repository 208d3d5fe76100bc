-------------------------- MODULE IndexingPipeline --------------------------
(***************************************************************************)
(* The asynchronous indexing pipeline: POST and DELETE /documents commit   *)
(* to Postgres and publish a thin event; indexing workers consume batches  *)
(* of events, re-read the rows and write the search index with external    *)
(* versioning; the retry queue, the dead-letter queue and the reconciler   *)
(* repair what failed on the way.                                          *)
(*                                                                         *)
(* A step is what the code does between two awaits, so requests, workers,  *)
(* the reconciler and the broker interleave at every await.  Every failure *)
(* the code handles (a publish that raises, a bulk call that raises or     *)
(* refuses items, a Redis error, a killed process) is a nondeterministic   *)
(* outcome that spends one unit of the budget MaxFaults.                   *)
(*                                                                         *)
(* An event carries document id, tenant, version and type.  The processor  *)
(* only uses its id and its tenant, which is the document's own: the rest  *)
(* of the event, and the order of a queue, change nothing it does.         *)
(***************************************************************************)
EXTENDS Naturals, FiniteSets

CONSTANTS
    Docs,         \* the documents: well-formed ids that rows may exist for
    BadIds,       \* what foreign events carry in place of a document's id
    Garbage,      \* those of BadIds whose body is not even an event
    None,         \* no document
    Tenants,
    TenantOf,     \* the owner of every document
    Reqs,         \* concurrent API requests
    Workers,      \* indexing worker processes, each with its reconciler
    MsgIds,       \* capacity of the broker: messages alive at one time
    MaxAttempts,  \* settings.max_index_attempts
    BatchSize,    \* settings.worker_batch_size
    SweepLimit,   \* settings.reconcile_batch_size
    Rejected,     \* documents whose index operation the cluster refuses
    Tombstones,   \* does the engine remember the version of a delete?
    MaxFaults     \* bound on the failures of one behaviour

Ids == Docs \cup BadIds
Places == {"free", "main", "retry"}

ASSUME DocsAssumption ==
    /\ Docs \cap BadIds = {}
    /\ None \notin Ids
    /\ Rejected \subseteq Docs
    /\ Garbage \subseteq BadIds
ASSUME TenantAssumption == TenantOf \in [Docs -> Tenants]
ASSUME WorkerAssumption == Workers \cap Places = {}
ASSUME BoundAssumption ==
    /\ MaxAttempts \in Nat \ {0}
    /\ BatchSize \in Nat \ {0}
    /\ SweepLimit \in Nat \ {0}
    /\ MaxFaults \in Nat
    /\ Tombstones \in BOOLEAN

VARIABLES
    row,          \* Postgres: the documents table
    clock,        \* the time of the last insert into the table
    cutoff,       \* rows updated before this time are past the grace period
    index,        \* the search index: what the engine holds for a document
    late,         \* bulk items whose request failed and that may still arrive
    announce,     \* does a tenant's generation still owe a bump to an entry?
    msg,          \* RabbitMQ: where every message is, and its x-death header
    dlq,          \* ids dead-lettered for good
    req,          \* API requests in flight
    pc, op, done, failed,   \* per worker: the batch being flushed
    sweep,        \* per worker: stale documents its reconciler has yet to publish
    lost,         \* history: documents whose delete event never reached the broker
    faults        \* failures so far

vars == <<row, clock, cutoff, index, late, announce, msg, dlq, req,
          pc, op, done, failed, sweep, lost, faults>>

table == <<row, clock, cutoff>>
engine == <<index, late>>
worker == <<pc, op, done, failed>>

-----------------------------------------------------------------------------
\* "failed" is a declared status that no code path writes.
Status == {"absent", "pending", "indexed", "failed", "deleted"}
\* updated is only ever compared for pending rows, so only the insert records it.
Row == [status : Status, version : Nat, updated : Nat]
NoRow == [status |-> "absent", version |-> 0, updated |-> 0]

\* x-death keeps one counter for the rejections by the main queue's consumer
\* and one for the expiries in the retry queue.
Message == [at : Places \cup Workers, id : Ids \cup {None}, rejected : Nat, expired : Nat]
NoMessage == [at |-> "free", id |-> None, rejected |-> 0, expired |-> 0]

Operation == [kind : {"none", "index", "delete"}, version : Nat]
NoOps == [d \in Docs |-> [kind |-> "none", version |-> 0]]

Request ==
    [pc : {"idle", "create_publish", "create_invalidate",
           "delete_commit", "delete_invalidate", "delete_publish"},
     doc : Docs \cup {None}, version : Nat]
NoRequest == [pc |-> "idle", doc |-> None, version |-> 0]

TypeOK ==
    /\ row \in [Docs -> Row]
    /\ clock \in Nat
    /\ cutoff \in Nat
    /\ index \in [Docs -> [present : BOOLEAN, version : Nat]]
    /\ late \subseteq [doc : Docs, kind : {"index", "delete"}, version : Nat]
    /\ announce \in [Docs -> {"done", "owed", "skipped"}]
    /\ msg \in [MsgIds -> Message]
    /\ dlq \subseteq Ids \cup {None}
    /\ req \in [Reqs -> Request]
    /\ pc \in [Workers -> {"collect", "bulk", "mark", "announce", "settle"}]
    /\ op \in [Workers -> [Docs -> Operation]]
    /\ done \in [Workers -> SUBSET Docs]
    /\ failed \in [Workers -> SUBSET (Ids \cup {None})]
    /\ sweep \in [Workers -> SUBSET Docs]
    /\ lost \subseteq Docs \cup {None}
    /\ faults \in Nat

Init ==
    /\ row = [d \in Docs |-> NoRow]
    /\ clock = 0
    /\ cutoff = 0
    /\ index = [d \in Docs |-> [present |-> FALSE, version |-> 0]]
    /\ late = {}
    /\ announce = [d \in Docs |-> "done"]
    /\ msg = [m \in MsgIds |-> NoMessage]
    /\ dlq = {}
    /\ req = [r \in Reqs |-> NoRequest]
    /\ pc = [w \in Workers |-> "collect"]
    /\ op = [w \in Workers |-> NoOps]
    /\ done = [w \in Workers |-> {}]
    /\ failed = [w \in Workers |-> {}]
    /\ sweep = [w \in Workers |-> {}]
    /\ lost = {}
    /\ faults = 0

-----------------------------------------------------------------------------
\* A failure is possible while the budget lasts.
Fault == faults < MaxFaults /\ faults' = faults + 1
NoFault == UNCHANGED faults

\* The broker has taken a persistent message: exchange.publish returns, or its
\* caller swallows a timeout of the confirmation, which makes no difference.
Publish(i) ==
    \E m \in MsgIds :
        /\ msg[m].at = "free"
        /\ msg' = [msg EXCEPT ![m] =
                      [at |-> "main", id |-> i, rejected |-> 0, expired |-> 0]]

\* An INCR of a tenant's search generation makes every result cached for the
\* tenant before it unreachable.
Bumped(ts) ==
    [d \in Docs |-> IF TenantOf[d] \in ts THEN "done" ELSE announce[d]]

\* invalidate_tenant is fail-open: a Redis error is logged and swallowed.
InvalidateTenant(t) ==
    \/ announce' = Bumped({t}) /\ NoFault
    \/ UNCHANGED announce /\ Fault

SetReq(r, state) == req' = [req EXCEPT ![r].pc = state]
EndReq(r) == req' = [req EXCEPT ![r] = NoRequest]

-----------------------------------------------------------------------------
\* POST /documents: commit the row (the durability boundary), publish, bump.

CreateCommit(r, d) ==
    /\ req[r].pc = "idle"
    /\ row[d].status = "absent"
    /\ row' = [row EXCEPT ![d] = [status |-> "pending", version |-> 1, updated |-> clock + 1]]
    /\ clock' = clock + 1
    /\ req' = [req EXCEPT ![r] = [pc |-> "create_publish", doc |-> d, version |-> 1]]
    /\ UNCHANGED <<cutoff, engine, announce, msg, dlq, worker, sweep, lost, faults>>

\* A publish that raises is logged; the request goes on.
CreatePublish(r) ==
    /\ req[r].pc = "create_publish"
    /\ \/ Publish(req[r].doc) /\ NoFault
       \/ UNCHANGED msg /\ Fault
    /\ SetReq(r, "create_invalidate")
    /\ UNCHANGED <<table, engine, announce, dlq, worker, sweep, lost>>

CreateInvalidate(r) ==
    /\ req[r].pc = "create_invalidate"
    /\ InvalidateTenant(TenantOf[req[r].doc])
    /\ EndReq(r)
    /\ UNCHANGED <<table, engine, msg, dlq, worker, sweep, lost>>

\* DELETE /documents/{id}: read, soft-delete and commit, bump, publish.
\* Reading an absent or deleted row is a 404, which changes nothing.

DeleteRead(r, d) ==
    /\ req[r].pc = "idle"
    /\ row[d].status \notin {"absent", "deleted"}
    /\ req' = [req EXCEPT ![r] =
                  [pc |-> "delete_commit", doc |-> d, version |-> row[d].version]]
    /\ UNCHANGED <<table, engine, announce, msg, dlq, worker, sweep, lost, faults>>

\* soft_delete writes the version it read plus one, without a check that the
\* row is still the one it read.
DeleteCommit(r) ==
    /\ req[r].pc = "delete_commit"
    /\ row' = [row EXCEPT ![req[r].doc] =
                  [status |-> "deleted", version |-> req[r].version + 1, updated |-> 0]]
    /\ SetReq(r, "delete_invalidate")
    /\ UNCHANGED <<clock, cutoff, engine, announce, msg, dlq, worker, sweep, lost, faults>>

DeleteInvalidate(r) ==
    /\ req[r].pc = "delete_invalidate"
    /\ InvalidateTenant(TenantOf[req[r].doc])
    /\ SetReq(r, "delete_publish")
    /\ UNCHANGED <<table, engine, msg, dlq, worker, sweep, lost>>

DeletePublish(r) ==
    /\ req[r].pc = "delete_publish"
    /\ \/ Publish(req[r].doc) /\ UNCHANGED lost /\ NoFault
       \/ lost' = lost \cup {req[r].doc} /\ UNCHANGED msg /\ Fault
    /\ EndReq(r)
    /\ UNCHANGED <<table, engine, announce, dlq, worker, sweep>>

\* The API process dies, or the database refuses the statement, in mid-request.
RequestCrash(r) ==
    /\ req[r].pc # "idle"
    /\ Fault
    /\ lost' = IF req[r].pc \in {"delete_invalidate", "delete_publish"}
                 THEN lost \cup {req[r].doc} ELSE lost
    /\ EndReq(r)
    /\ UNCHANGED <<table, engine, announce, msg, dlq, worker, sweep>>

\* A message of some other producer, which the worker cannot parse.
ForeignPublish(b) ==
    /\ Publish(b)
    /\ UNCHANGED <<table, engine, announce, dlq, req, worker, sweep, lost, faults>>

-----------------------------------------------------------------------------
\* The indexing worker.  Its batch is the set of unacknowledged messages it
\* holds; duplicates of a document in it collapse into one operation.

Batch(w) == {m \in MsgIds : msg[m].at = w}
BatchIds(w) == {msg[m].id : m \in Batch(w)}

Receive(w, m) ==
    /\ pc[w] = "collect"
    /\ msg[m].at = "main"
    /\ msg[m].id \notin Garbage
    /\ Cardinality(Batch(w)) < BatchSize
    /\ msg' = [msg EXCEPT ![m].at = w]
    /\ UNCHANGED <<table, engine, announce, dlq, req, worker, sweep, lost, faults>>

\* A body that is not an event is logged and acknowledged at once.
Discard(w, m) ==
    /\ pc[w] = "collect"
    /\ msg[m].at = "main"
    /\ msg[m].id \in Garbage
    /\ msg' = [msg EXCEPT ![m] = NoMessage]
    /\ UNCHANGED <<table, engine, announce, dlq, req, worker, sweep, lost, faults>>

\* The operation the current row asks for; a malformed id or a row that is
\* not there is skipped.
OpFor(d) ==
    CASE row[d].status = "absent"  -> [kind |-> "none", version |-> 0]
      [] row[d].status = "deleted" -> [kind |-> "delete", version |-> row[d].version]
      [] OTHER                     -> [kind |-> "index", version |-> row[d].version]

Operations(w) ==
    [d \in Docs |-> IF d \in BatchIds(w) THEN OpFor(d) ELSE [kind |-> "none", version |-> 0]]

\* The batch is full or its linger time is over: re-read the rows.
FlushRead(w) ==
    /\ pc[w] = "collect"
    /\ Batch(w) # {}
    /\ op' = [op EXCEPT ![w] = Operations(w)]
    /\ pc' = [pc EXCEPT ![w] = IF Operations(w) = NoOps THEN "settle" ELSE "bulk"]
    /\ UNCHANGED <<table, engine, announce, msg, dlq, req, done, failed, sweep, lost, faults>>

\* Variant: without a version check, the last operation wins.
ApplyOpUnversioned(entry, o) == [present |-> o.kind = "index", version |-> o.version]

\* Variant: a delete leaves nothing behind to compare a late index with.
ApplyOpForgetful(entry, o) ==
    CASE o.version <= entry.version -> entry
      [] o.version > entry.version /\ o.kind = "index" ->
             [present |-> TRUE, version |-> o.version]
      [] OTHER -> [present |-> FALSE, version |-> 0]

\* External versioning: an operation that is not newer than the entry is a
\* conflict, which changes nothing.
ApplyOp(entry, o) ==
    CASE o.version <= entry.version -> entry
      [] o.version > entry.version /\ o.kind = "index" ->
             [present |-> TRUE, version |-> o.version]
      [] OTHER ->
             [present |-> FALSE, version |-> IF Tombstones THEN o.version ELSE 0]

\* The index once the operations o[d] of the documents d in ds are applied, and
\* the bumps that are owed to the entries that this shows or hides.
Applied(o, ds) ==
    [d \in Docs |-> IF d \in ds THEN ApplyOp(index[d], o[d]) ELSE index[d]]
Owed(new) ==
    [d \in Docs |-> IF new[d].present # index[d].present THEN "owed" ELSE announce[d]]

OpDocs(w) == {d \in Docs : op[w][d].kind # "none"}
Acceptable(w) == {d \in OpDocs(w) : ~(d \in Rejected /\ op[w][d].kind = "index")}

\* Variant: the items that failed are not reported.
FailedItemsNone(w, ok) == {}

\* The items of the answer that are neither a success nor a conflict.
FailedItems(w, ok) == OpDocs(w) \ ok

\* Items of the batch on their way to the cluster, in a request nobody waits for.
Items(w, ds) ==
    {[doc |-> d, kind |-> op[w][d].kind, version |-> op[w][d].version] : d \in ds}

\* The bulk call answers.  Items of the set ok succeeded, conflicts included;
\* an acceptable item that fails is a fault of the cluster.  The answer may be
\* that of a retry, with the items sent of the attempt before it still under way.
BulkAnswers(w) ==
    /\ pc[w] = "bulk"
    /\ \E ok \in SUBSET Acceptable(w), sent \in SUBSET Acceptable(w) :
          /\ IF ok = Acceptable(w) /\ sent = {} THEN NoFault ELSE Fault
          /\ late' = late \cup Items(w, sent)
          /\ index' = Applied(op[w], ok)
          /\ announce' = Owed(index')
          /\ done' = [done EXCEPT ![w] = ok]
          /\ failed' = [failed EXCEPT ![w] = FailedItems(w, ok)]
    /\ pc' = [pc EXCEPT ![w] = "mark"]
    /\ UNCHANGED <<table, msg, dlq, req, op, sweep, lost>>

\* Variant: a call that raised counts as done.
FailedOnRaiseNone(w) == {}

\* Every event of the batch, the skipped ones too.
FailedOnRaise(w) == BatchIds(w)

\* The bulk call raises, after its retries: the whole batch failed, and some of
\* its items are still on their way to the cluster.
BulkRaises(w) ==
    /\ pc[w] = "bulk"
    /\ Fault
    /\ \E sent \in SUBSET Acceptable(w) : late' = late \cup Items(w, sent)
    /\ failed' = [failed EXCEPT ![w] = FailedOnRaise(w)]
    /\ pc' = [pc EXCEPT ![w] = "settle"]
    /\ UNCHANGED <<table, index, announce, msg, dlq, req, op, done, sweep, lost>>

LateArrival(o) ==
    /\ o \in late
    /\ late' = late \ {o}
    /\ index' = [index EXCEPT ![o.doc] = ApplyOp(@, o)]
    /\ announce' = Owed(index')
    /\ UNCHANGED <<table, msg, dlq, req, worker, sweep, lost, faults>>

\* Variant: WHERE id IN (...) alone.
MarkedIndexedAnyStatus(ds) ==
    [d \in Docs |-> IF d \in ds
                    THEN [status |-> "indexed", version |-> row[d].version, updated |-> 0]
                    ELSE row[d]]

\* Variant: the enumeration's name in place of its value.
MarkedIndexedByName(ds) ==
    [d \in Docs |-> IF d \in ds /\ row[d].status = "pending"
                    THEN [status |-> "INDEXED", version |-> row[d].version, updated |-> 0]
                    ELSE row[d]]

\* UPDATE ... WHERE id IN (...) AND status = 'pending', then COMMIT.
MarkedIndexed(ds) ==
    [d \in Docs |-> IF d \in ds /\ row[d].status = "pending"
                    THEN [status |-> "indexed", version |-> row[d].version, updated |-> 0]
                    ELSE row[d]]

\* Variant: every document the batch meant to index.
ConfirmableAll(w) == {d \in Docs : op[w][d].kind = "index"}

\* The documents of the batch whose index operation succeeded.
Confirmable(w) == {d \in done[w] : op[w][d].kind = "index"}

MarkIndexed(w) ==
    /\ pc[w] = "mark"
    /\ row' = MarkedIndexed(Confirmable(w))
    /\ pc' = [pc EXCEPT ![w] = "announce"]
    /\ UNCHANGED <<clock, cutoff, engine, announce, msg, dlq, req, op, done, failed, sweep, lost, faults>>

\* Variant: the tenants of what was indexed, not of what was removed.
ChangedTenantsOfIndexed(w) == {TenantOf[d] : d \in Confirmable(w)}

ChangedTenants(w) == {TenantOf[d] : d \in done[w]}

\* One INCR for every tenant whose documents changed; those of the tenants in
\* down fail, and nothing tries them again.
Announce(w) ==
    /\ pc[w] = "announce"
    /\ \E down \in SUBSET ChangedTenants(w) :
          /\ IF down = {} THEN NoFault ELSE Fault
          /\ announce' = [d \in Docs |->
                CASE TenantOf[d] \in ChangedTenants(w) \ down -> "done"
                  [] TenantOf[d] \in down /\ announce[d] = "owed" -> "skipped"
                  [] OTHER -> announce[d]]
    /\ pc' = [pc EXCEPT ![w] = "settle"]
    /\ UNCHANGED <<table, engine, msg, dlq, req, op, done, failed, sweep, lost>>

-----------------------------------------------------------------------------
\* _flush settles the messages of the batch one by one.

DeathCount(m) == msg[m].rejected + msg[m].expired
Exhausted(m) == DeathCount(m) + 1 >= MaxAttempts

Settling(w, m) == pc[w] = "settle" /\ msg[m].at = w

Ack(w, m) ==
    /\ Settling(w, m)
    /\ msg[m].id \notin failed[w]
    /\ msg' = [msg EXCEPT ![m] = NoMessage]
    /\ UNCHANGED <<table, engine, announce, dlq, req, worker, sweep, lost, faults>>

\* nack(requeue=False): the main queue dead-letters to the retry queue.
Nack(w, m) ==
    /\ Settling(w, m)
    /\ msg[m].id \in failed[w]
    /\ ~Exhausted(m)
    /\ msg' = [msg EXCEPT ![m].at = "retry", ![m].rejected = @ + 1]
    /\ UNCHANGED <<table, engine, announce, dlq, req, worker, sweep, lost, faults>>

DeadLetter(w, m) ==
    /\ Settling(w, m)
    /\ msg[m].id \in failed[w]
    /\ Exhausted(m)
    /\ dlq' = dlq \cup {msg[m].id}
    /\ msg' = [msg EXCEPT ![m] = NoMessage]
    /\ UNCHANGED <<table, engine, announce, req, worker, sweep, lost, faults>>

EndFlush(w) ==
    /\ pc[w] = "settle"
    /\ Batch(w) = {}
    /\ pc' = [pc EXCEPT ![w] = "collect"]
    /\ op' = [op EXCEPT ![w] = NoOps]
    /\ done' = [done EXCEPT ![w] = {}]
    /\ failed' = [failed EXCEPT ![w] = {}]
    /\ UNCHANGED <<table, engine, announce, msg, dlq, req, sweep, lost, faults>>

\* The TTL of the retry queue is over: the message re-enters the main queue.
RetryExpire(m) ==
    /\ msg[m].at = "retry"
    /\ msg' = [msg EXCEPT ![m].at = "main", ![m].expired = @ + 1]
    /\ UNCHANGED <<table, engine, announce, dlq, req, worker, sweep, lost, faults>>

\* The connection to the broker drops: it requeues what the worker held, while
\* the worker, which learns of it when it settles, goes on with its batch.
Disconnect(w) ==
    /\ pc[w] # "collect"
    /\ Batch(w) # {}
    /\ Fault
    /\ msg' = [m \in MsgIds |-> IF msg[m].at = w THEN [msg[m] EXCEPT !.at = "main"] ELSE msg[m]]
    /\ UNCHANGED <<table, engine, announce, dlq, req, worker, sweep, lost>>

\* The worker process ends (killed, or an exception of Postgres or RabbitMQ
\* escapes run) and is restarted: the broker requeues what it held, and its
\* reconciler's sweep is gone.  A message may die between its publication to
\* the dead-letter queue and its ack.
Crash(w) ==
    /\ pc[w] # "collect" \/ Batch(w) # {} \/ sweep[w] # {}
    /\ Fault
    /\ \E dead \in SUBSET {m \in Batch(w) : Settling(w, m) /\ msg[m].id \in failed[w] /\ Exhausted(m)} :
          /\ Cardinality(dead) <= 1
          /\ dlq' = dlq \cup {msg[m].id : m \in dead}
    /\ msg' = [m \in MsgIds |-> IF msg[m].at = w THEN [msg[m] EXCEPT !.at = "main"] ELSE msg[m]]
    /\ pc' = [pc EXCEPT ![w] = "collect"]
    /\ op' = [op EXCEPT ![w] = NoOps]
    /\ done' = [done EXCEPT ![w] = {}]
    /\ failed' = [failed EXCEPT ![w] = {}]
    /\ sweep' = [sweep EXCEPT ![w] = {}]
    /\ UNCHANGED <<table, engine, announce, req, lost>>

-----------------------------------------------------------------------------
\* The reconciler.

Tick ==
    /\ cutoff <= clock
    /\ cutoff' = cutoff + 1
    /\ UNCHANGED <<row, clock, engine, announce, msg, dlq, req, worker, sweep, lost, faults>>

Stale == {d \in Docs : row[d].status \in {"pending", "failed"} /\ row[d].updated < cutoff}

\* Variant: ORDER BY updated_at DESC.
FindStaleNewestFirst(limit) ==
    {d \in Stale : Cardinality({e \in Stale : row[e].updated > row[d].updated}) < limit}

\* ORDER BY updated_at LIMIT limit
FindStale(limit) ==
    {d \in Stale : Cardinality({e \in Stale : row[e].updated < row[d].updated}) < limit}

SweepRead(w) ==
    /\ sweep[w] = {}
    /\ FindStale(SweepLimit) # {}
    /\ sweep' = [sweep EXCEPT ![w] = FindStale(SweepLimit)]
    /\ UNCHANGED <<table, engine, announce, msg, dlq, req, worker, lost, faults>>

\* A publish that raises ends the sweep, also when the broker has the message.
SweepPublish(w, d) ==
    /\ d \in sweep[w]
    /\ \/ Publish(d) /\ sweep' = [sweep EXCEPT ![w] = @ \ {d}] /\ NoFault
       \/ Publish(d) /\ sweep' = [sweep EXCEPT ![w] = {}] /\ Fault
       \/ UNCHANGED msg /\ sweep' = [sweep EXCEPT ![w] = {}] /\ Fault
    /\ UNCHANGED <<table, engine, announce, dlq, req, worker, lost>>

-----------------------------------------------------------------------------
RequestStep(r) ==
    \/ CreatePublish(r)
    \/ CreateInvalidate(r)
    \/ DeleteCommit(r)
    \/ DeleteInvalidate(r)
    \/ DeletePublish(r)

WorkerStep(w) ==
    \/ FlushRead(w)
    \/ BulkAnswers(w)
    \/ BulkRaises(w)
    \/ MarkIndexed(w)
    \/ Announce(w)
    \/ \E m \in MsgIds : Ack(w, m) \/ Nack(w, m) \/ DeadLetter(w, m)
    \/ EndFlush(w)

ReconcilerStep(w) ==
    \/ SweepRead(w)
    \/ \E d \in Docs : SweepPublish(w, d)

Next ==
    \/ \E r \in Reqs, d \in Docs : CreateCommit(r, d) \/ DeleteRead(r, d)
    \/ \E r \in Reqs : RequestStep(r) \/ RequestCrash(r)
    \/ \E b \in BadIds : ForeignPublish(b)
    \/ \E w \in Workers, m \in MsgIds : Receive(w, m) \/ Discard(w, m)
    \/ \E w \in Workers : WorkerStep(w) \/ ReconcilerStep(w) \/ Disconnect(w) \/ Crash(w)
    \/ \E o \in late : LateArrival(o)
    \/ \E m \in MsgIds : RetryExpire(m)
    \/ Tick

Spec == Init /\ [][Next]_vars

\* Event loops run, the broker delivers and expires, time passes: every started
\* request, flush and sweep goes on.  The main queue is first in first out, so
\* a message does not wait for ever while workers keep taking others; a publish
\* waits for a slot of MsgIds only because the model bounds the broker.  Nothing
\* is assumed of clients, of failures or of a bulk item whose call failed.
Fairness ==
    /\ \A r \in Reqs : SF_vars(RequestStep(r))
    /\ \A w \in Workers : WF_vars(WorkerStep(w)) /\ SF_vars(ReconcilerStep(w))
    /\ \A m \in MsgIds : SF_vars(\E w \in Workers : Receive(w, m) \/ Discard(w, m)) /\ WF_vars(RetryExpire(m))
    /\ WF_vars(Tick)

FairSpec == Spec /\ Fairness

-----------------------------------------------------------------------------
\* A message still has its document's rows to read again, or is to be retried.
Unread(m) ==
    \/ msg[m].at \in {"main", "retry"}
    \/ msg[m].at \in Workers /\ pc[msg[m].at] = "collect"
Failing(m) == msg[m].at \in Workers /\ msg[m].id \in failed[msg[m].at]

\* A message will remove the entry of d from the index, or try again.
Removes(m, d) ==
    /\ msg[m].id = d
    /\ \/ Unread(m)
       \/ Failing(m)
       \/ /\ msg[m].at \in Workers
          /\ pc[msg[m].at] = "bulk"
          /\ op[msg[m].at][d].kind = "delete"

Deleting(r, d) ==
    req[r].doc = d /\ req[r].pc \in {"delete_invalidate", "delete_publish"}

\* A document that is deleted in Postgres and still searchable has somebody
\* who will remove it: the request that deleted it and has yet to publish, or
\* a message that no worker has settled.  The exceptions are the events that
\* were lost before they reached the broker or were dead-lettered, which no
\* code repairs: find_stale does not look at deleted rows.  Dedupe, partial
\* bulk failures, crashes and stale reads of the rows must not lose a removal.
DeletedEntryHasOwner ==
    \A d \in Docs :
        row[d].status = "deleted" /\ index[d].present =>
            \/ d \in lost \cup dlq
            \/ \E r \in Reqs : Deleting(r, d)
            \/ \E m \in MsgIds : Removes(m, d)

\* A message is yet to bump the generation for its document, or to try again.
Announces(m, d) ==
    /\ msg[m].id = d
    /\ \/ Unread(m)
       \/ Failing(m)
       \/ /\ msg[m].at \in Workers
          /\ pc[msg[m].at] \in {"bulk", "mark", "announce"}
          /\ op[msg[m].at][d].kind # "none"

\* A change of the searchable corpus whose tenant's generation has not moved
\* since has a message that will try to move it, with two exceptions: a worker
\* has tried and its INCR failed, which _invalidate ignores before the message
\* is acknowledged, or the message was dead-lettered.  Nothing else drops an
\* invalidation: process() bumps after its commit, so a crash, a partial answer
\* or a bulk call that raised after the cluster applied it must leave the
\* message unsettled.
OwedBumpHasOwner ==
    \A d \in Docs :
        announce[d] # "done" =>
            \/ announce[d] = "skipped"
            \/ d \in dlq
            \/ \E m \in MsgIds : Announces(m, d)

\* The status "indexed" is only written for documents the cluster holds: the
\* UPDATE runs after an await, and the row or the entry may have changed since
\* the batch was read.
IndexedMeansPresent ==
    \A d \in Docs : row[d].status = "indexed" => index[d].present

\* An entry that a delete has removed never comes back, whatever index
\* operations, retries and late requests were in flight when it was removed.
NoResurrection ==
    [][\A d \in Docs :
        row[d].status = "deleted" /\ index[d].version >= row[d].version
            => ~index'[d].present]_vars

\* A soft delete is final and versions only grow, under concurrent deletes
\* and workers that mark the row they read before.
RowsMoveForward ==
    [][\A d \in Docs :
        /\ row'[d].version >= row[d].version
        /\ row[d].status = "deleted" => row'[d].status = "deleted"]_vars

\* Older documents that the cluster refuses fill every sweep: they stay pending,
\* at the head of find_stale's order.
Crowded(d) ==
    Cardinality({e \in Rejected : row[e].status = "pending" /\ row[e].updated < row[d].updated})
        >= SweepLimit

\* Whatever happened to its events, a stored document is confirmed in the index
\* or deleted: lost publishes and dead letters are repaired by the reconciler.
\* The one exception is a document behind as many refused ones as the sweep's
\* limit; documents that are younger than it, refused or not, never starve it.
PendingIsResolved ==
    \A d \in Docs \ Rejected :
        row[d].status = "pending" ~> (row[d].status \in {"indexed", "deleted"} \/ Crowded(d))

\* A deleted document leaves the index, unless its event was lost or
\* dead-lettered.
DeletedIsRemoved ==
    \A d \in Docs :
        row[d].status = "deleted" ~> (~index[d].present \/ d \in lost \cup dlq)

-----------------------------------------------------------------------------
\* The entry of a document, with the deletion it may remember.
EntryState(e) ==
    CASE e.version = 0 -> "none"
      [] e.version # 0 /\ e.present -> "live"
      [] OTHER -> "gone"

Lifecycle ==
    INSTANCE DocLifecycle WITH
        stored <- [d \in Docs |-> row[d].status],
        entry  <- [d \in Docs |-> EntryState(index[d])]

\* Requests, workers, retries and failures together only ever move a row and
\* its index entry along the life that DocLifecycle allows: an entry goes live
\* only for a stored document, is gone only for a deleted one and never comes
\* back, and a row is confirmed only while its entry is live.
ImplementsLifecycle == Lifecycle!Spec

\* A message is dead-lettered only after max_index_attempts attempts to index
\* its document, as consumer.py says ("counted from x-death").
AttemptsBeforeDeadLetter ==
    [][\A w \in Workers, m \in MsgIds :
        DeadLetter(w, m) => msg[m].rejected + 1 >= MaxAttempts]_vars

\* "Non-fatal: the row is already durable. The reconciler will re-publish."
\* (document_service.py, of both events): a deleted document leaves the index.
DeletesConverge ==
    \A d \in Docs : row[d].status = "deleted" ~> ~index[d].present

=============================================================================
