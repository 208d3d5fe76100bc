----------------------- MODULE IndexingPipelineProofs -----------------------
(***************************************************************************)
(* Proofs about IndexingPipeline, for every number of documents, tenants,  *)
(* requests, workers and messages and every number of failures.            *)
(***************************************************************************)
EXTENDS IndexingPipeline, TLAPS

-----------------------------------------------------------------------------
\* Updates of a field keep records in their set.
LEMMA MessageUpdate ==
    ASSUME NEW x \in Message, NEW p \in Places \cup Workers
    PROVE  [x EXCEPT !.at = p] \in Message
  BY DEF Message

\* The same of a request's progress.
LEMMA RequestUpdate ==
    ASSUME NEW x \in Request,
           NEW p \in {"idle", "create_publish", "create_invalidate",
                      "delete_commit", "delete_invalidate", "delete_publish"}
    PROVE  [x EXCEPT !.pc = p] \in Request
  BY DEF Request

\* Moving a request to another step keeps the requests well formed.
LEMMA SetReqType ==
    ASSUME TypeOK, NEW r \in Reqs, NEW p \in {"create_invalidate", "delete_invalidate", "delete_publish"},
           SetReq(r, p)
    PROVE  req' \in [Reqs -> Request]
<1>1. [req[r] EXCEPT !.pc = p] \in Request
  BY RequestUpdate DEF TypeOK
<1> QED BY <1>1 DEF SetReq, TypeOK

\* Publishing keeps the broker's messages well formed.
LEMMA PublishType ==
    ASSUME TypeOK, NEW i \in Ids \cup {None}, Publish(i)
    PROVE  msg' \in [MsgIds -> Message]
  BY DEF Publish, TypeOK, Message, Places

\* Bumping the generation of some tenants keeps announce well formed.
LEMMA BumpType ==
    ASSUME TypeOK, NEW t, InvalidateTenant(t)
    PROVE  announce' \in [Docs -> {"done", "owed", "skipped"}] /\ faults' \in Nat
  BY DEF InvalidateTenant, Bumped, TypeOK, Fault, NoFault

\* What a row asks of the index is an operation.
LEMMA OpForType ==
    ASSUME TypeOK, NEW d \in Docs
    PROVE  OpFor(d) \in Operation
  BY DEF TypeOK, OpFor, Operation, Row

\* Applying an operation to an entry leaves an entry.
LEMMA ApplyType ==
    ASSUME NEW e \in [present : BOOLEAN, version : Nat], NEW o, o.version \in Nat
    PROVE  ApplyOp(e, o) \in [present : BOOLEAN, version : Nat]
  BY DEF ApplyOp

\* Noting the bumps that a new index is owed keeps announce well formed.
LEMMA OwedType ==
    ASSUME TypeOK, announce' = Owed(index')
    PROVE  announce' \in [Docs -> {"done", "owed", "skipped"}]
  BY DEF Owed, TypeOK

\* Items that are sent are operations of their documents.
LEMMA ItemsType ==
    ASSUME TypeOK, NEW w \in Workers, NEW sent \in SUBSET Acceptable(w)
    PROVE  Items(w, sent) \subseteq [doc : Docs, kind : {"index", "delete"}, version : Nat]
  BY DEF Items, TypeOK, Acceptable, OpDocs, Operation

\* Every variable keeps its type: the step of the induction.
LEMMA TypeStep == TypeOK /\ [Next]_vars => TypeOK'
<1> SUFFICES ASSUME TypeOK, [Next]_vars PROVE TypeOK'
  OBVIOUS
<1>1. ASSUME NEW r \in Reqs, NEW d \in Docs, CreateCommit(r, d) PROVE TypeOK'
  BY <1>1 DEF CreateCommit, TypeOK, Row, Status, Request, engine, worker
<1>2. ASSUME NEW r \in Reqs, NEW d \in Docs, DeleteRead(r, d) PROVE TypeOK'
  BY <1>2 DEF DeleteRead, TypeOK, Row, Request, table, engine, worker
<1>3. ASSUME NEW r \in Reqs, RequestStep(r) PROVE TypeOK'
  <2>0. req[r].doc \in Docs \cup {None} /\ req[r] \in Request
    BY DEF TypeOK, Request
  <2>1. CASE CreatePublish(r)
    <3>1. msg' \in [MsgIds -> Message]
      BY <2>0, <2>1, PublishType DEF CreatePublish, TypeOK, Ids
    <3>2. req' \in [Reqs -> Request]
      BY <2>1, SetReqType DEF CreatePublish
    <3>3. faults' \in Nat
      BY <2>1 DEF CreatePublish, TypeOK, Fault, NoFault
    <3> QED BY <2>1, <3>1, <3>2, <3>3 DEF CreatePublish, TypeOK, table, engine, worker
  <2>2. CASE CreateInvalidate(r)
    <3>1. announce' \in [Docs -> {"done", "owed", "skipped"}] /\ faults' \in Nat
      BY <2>2, BumpType DEF CreateInvalidate
    <3>2. req' \in [Reqs -> Request]
      BY <2>2 DEF CreateInvalidate, EndReq, NoRequest, Request, TypeOK
    <3> QED BY <2>2, <3>1, <3>2 DEF CreateInvalidate, TypeOK, table, engine, worker
  <2>3. CASE DeleteCommit(r)
    <3>1. row' \in [Docs -> Row]
      <4>1. [status |-> "deleted", version |-> req[r].version + 1, updated |-> 0] \in Row
        BY <2>0 DEF Row, Status, Request
      <4> QED BY <2>3, <4>1 DEF DeleteCommit, TypeOK
    <3>2. req' \in [Reqs -> Request]
      BY <2>3, SetReqType DEF DeleteCommit
    <3> QED BY <2>3, <3>1, <3>2 DEF DeleteCommit, TypeOK, engine, worker
  <2>4. CASE DeleteInvalidate(r)
    <3>1. announce' \in [Docs -> {"done", "owed", "skipped"}] /\ faults' \in Nat
      BY <2>4, BumpType DEF DeleteInvalidate
    <3>2. req' \in [Reqs -> Request]
      BY <2>4, SetReqType DEF DeleteInvalidate
    <3> QED BY <2>4, <3>1, <3>2 DEF DeleteInvalidate, TypeOK, table, engine, worker
  <2>5. CASE DeletePublish(r)
    <3>1. msg' \in [MsgIds -> Message]
      BY <2>0, <2>5, PublishType DEF DeletePublish, TypeOK, Ids
    <3>2. req' \in [Reqs -> Request] /\ faults' \in Nat /\ lost' \subseteq Docs \cup {None}
      BY <2>0, <2>5 DEF DeletePublish, EndReq, NoRequest, Request, TypeOK, Fault, NoFault
    <3> QED BY <2>5, <3>1, <3>2 DEF DeletePublish, TypeOK, table, engine, worker
  <2> QED BY <1>3, <2>1, <2>2, <2>3, <2>4, <2>5 DEF RequestStep
<1>4. ASSUME NEW r \in Reqs, RequestCrash(r) PROVE TypeOK'
  <2>1. req' \in [Reqs -> Request] /\ faults' \in Nat /\ lost' \subseteq Docs \cup {None}
    BY <1>4 DEF RequestCrash, EndReq, NoRequest, Request, TypeOK, Fault
  <2> QED BY <1>4, <2>1 DEF RequestCrash, TypeOK, table, engine, worker
<1>5. ASSUME NEW b \in BadIds, ForeignPublish(b) PROVE TypeOK'
  <2>1. msg' \in [MsgIds -> Message]
    BY <1>5, PublishType DEF ForeignPublish, Ids
  <2> QED BY <1>5, <2>1 DEF ForeignPublish, TypeOK, table, engine, worker
<1>6. ASSUME NEW w \in Workers, NEW m \in MsgIds, Receive(w, m) PROVE TypeOK'
  <2>1. msg' \in [MsgIds -> Message]
    <3>1. [msg[m] EXCEPT !.at = w] \in Message
      BY MessageUpdate DEF TypeOK
    <3> QED BY <1>6, <3>1 DEF Receive, TypeOK
  <2> QED BY <1>6, <2>1 DEF Receive, TypeOK, table, engine, worker
<1>7. ASSUME NEW w \in Workers, FlushRead(w) PROVE TypeOK'
  <2>1. Operations(w) \in [Docs -> Operation]
    BY OpForType DEF Operations, Operation
  <2> QED BY <1>7, <2>1 DEF FlushRead, TypeOK, table, engine
<1>8. ASSUME NEW w \in Workers, BulkAnswers(w) PROVE TypeOK'
  <2>1. PICK ok \in SUBSET Acceptable(w), sent \in SUBSET Acceptable(w) :
          /\ index' = Applied(op[w], ok)
          /\ announce' = Owed(index')
          /\ done' = [done EXCEPT ![w] = ok]
          /\ failed' = [failed EXCEPT ![w] = OpDocs(w) \ ok]
          /\ late' = late \cup Items(w, sent)
          /\ IF ok = Acceptable(w) /\ sent = {} THEN NoFault ELSE Fault
    BY <1>8 DEF BulkAnswers, FailedItems
  <2>2. \A d \in Docs : ApplyOp(index[d], op[w][d]) \in [present : BOOLEAN, version : Nat]
    BY ApplyType DEF TypeOK, Operation
  <2>3. index' \in [Docs -> [present : BOOLEAN, version : Nat]]
    BY <2>1, <2>2 DEF Applied, TypeOK
  <2>4. announce' \in [Docs -> {"done", "owed", "skipped"}]
    BY <2>1, OwedType
  <2>5. /\ done' \in [Workers -> SUBSET Docs]
        /\ failed' \in [Workers -> SUBSET (Ids \cup {None})]
    BY <2>1 DEF TypeOK, Acceptable, OpDocs, Ids
  <2>6. faults' \in Nat
    BY <2>1 DEF Fault, NoFault, TypeOK
  <2>7. late' \subseteq [doc : Docs, kind : {"index", "delete"}, version : Nat]
    BY <2>1, ItemsType DEF TypeOK
  <2> QED BY <1>8, <2>3, <2>4, <2>5, <2>6, <2>7 DEF BulkAnswers, TypeOK, table
<1>9. ASSUME NEW w \in Workers, BulkRaises(w) PROVE TypeOK'
  <2>1. late' \subseteq [doc : Docs, kind : {"index", "delete"}, version : Nat]
    BY <1>9, ItemsType DEF BulkRaises, TypeOK
  <2>2. failed' \in [Workers -> SUBSET (Ids \cup {None})]
    BY <1>9 DEF BulkRaises, FailedOnRaise, TypeOK, BatchIds, Batch, Message
  <2> QED BY <1>9, <2>1, <2>2 DEF BulkRaises, Fault, TypeOK, table
<1>10. ASSUME NEW o \in late, LateArrival(o) PROVE TypeOK'
  <2>1. ApplyOp(index[o.doc], o) \in [present : BOOLEAN, version : Nat]
    BY ApplyType DEF TypeOK
  <2>2. index' \in [Docs -> [present : BOOLEAN, version : Nat]]
    BY <1>10, <2>1 DEF LateArrival, TypeOK
  <2>3. announce' \in [Docs -> {"done", "owed", "skipped"}]
    BY <1>10, OwedType DEF LateArrival
  <2> QED BY <1>10, <2>2, <2>3 DEF LateArrival, TypeOK, table, worker
<1>11. ASSUME NEW w \in Workers, MarkIndexed(w) PROVE TypeOK'
  <2>1. row' \in [Docs -> Row]
    <3>1. \A d \in Docs : [status |-> "indexed", version |-> row[d].version, updated |-> 0] \in Row
      BY DEF TypeOK, Row, Status
    <3> QED BY <1>11, <3>1 DEF MarkIndexed, MarkedIndexed, TypeOK
  <2> QED BY <1>11, <2>1 DEF MarkIndexed, TypeOK, engine
<1>12. ASSUME NEW w \in Workers, Announce(w) PROVE TypeOK'
  <2>1. announce' \in [Docs -> {"done", "owed", "skipped"}] /\ faults' \in Nat
    BY <1>12 DEF Announce, Fault, NoFault, TypeOK
  <2> QED BY <1>12, <2>1 DEF Announce, TypeOK, table, engine
<1>13. ASSUME NEW w \in Workers, NEW m \in MsgIds,
              Discard(w, m) \/ Ack(w, m) \/ Nack(w, m) \/ DeadLetter(w, m)
       PROVE  TypeOK'
  <2>1. msg' \in [MsgIds -> Message]
    <3>1. NoMessage \in Message
      BY BoundAssumption DEF NoMessage, Message, Places
    <3>2. CASE Discard(w, m) \/ Ack(w, m) \/ DeadLetter(w, m)
      BY <3>1, <3>2 DEF Discard, Ack, DeadLetter, TypeOK
    <3>3. CASE Nack(w, m)
      <4>1. [msg[m] EXCEPT !.at = "retry", !.rejected = @ + 1] \in Message
        <5>1. msg[m] \in Message /\ msg[m].rejected + 1 \in Nat
          BY DEF TypeOK, Message
        <5>2. [msg[m] EXCEPT !.rejected = @ + 1] \in Message
          BY <5>1 DEF Message
        <5> QED BY <5>2, MessageUpdate DEF Places
      <4> QED BY <3>3, <4>1 DEF Nack, TypeOK
    <3> QED BY <1>13, <3>2, <3>3
  <2>2. dlq' \subseteq Ids \cup {None}
    BY <1>13 DEF Discard, Ack, Nack, DeadLetter, TypeOK, Message
  <2> QED BY <1>13, <2>1, <2>2 DEF Discard, Ack, Nack, DeadLetter, TypeOK, table, engine, worker
<1>14. ASSUME NEW w \in Workers, EndFlush(w) PROVE TypeOK'
  <2>1. NoOps \in [Docs -> Operation]
    BY DEF NoOps, Operation
  <2> QED BY <1>14, <2>1 DEF EndFlush, TypeOK, table, engine
<1>15. ASSUME NEW w \in Workers, Disconnect(w) \/ Crash(w) PROVE TypeOK'
  <2>1. NoOps \in [Docs -> Operation]
    BY DEF NoOps, Operation
  <2>2. msg' \in [MsgIds -> Message]
    <3>1. \A m \in MsgIds : [msg[m] EXCEPT !.at = "main"] \in Message
      BY MessageUpdate DEF TypeOK, Places
    <3> QED BY <1>15, <3>1 DEF Disconnect, Crash, TypeOK
  <2>3. CASE Disconnect(w)
    BY <2>2, <2>3 DEF Disconnect, Fault, TypeOK, table, engine, worker
  <2>4. CASE Crash(w)
    <3>1. dlq' \subseteq Ids \cup {None}
      BY <2>4 DEF Crash, Batch, TypeOK, Message
    <3> QED BY <2>4, <2>1, <2>2, <3>1 DEF Crash, Fault, TypeOK, table, engine
  <2> QED BY <1>15, <2>3, <2>4
<1>16. ASSUME NEW w \in Workers, ReconcilerStep(w) PROVE TypeOK'
  <2>1. CASE SweepRead(w)
    BY <2>1 DEF SweepRead, FindStale, Stale, TypeOK, table, engine, worker
  <2>2. ASSUME NEW d \in Docs, SweepPublish(w, d) PROVE TypeOK'
    <3>1. msg' \in [MsgIds -> Message]
      BY <2>2, PublishType DEF SweepPublish, TypeOK, Ids
    <3>2. sweep' \in [Workers -> SUBSET Docs] /\ faults' \in Nat
      BY <2>2 DEF SweepPublish, TypeOK, Fault, NoFault
    <3> QED BY <2>2, <3>1, <3>2 DEF SweepPublish, TypeOK, table, engine, worker
  <2> QED BY <1>16, <2>1, <2>2 DEF ReconcilerStep
<1>17. ASSUME NEW m \in MsgIds, RetryExpire(m) PROVE TypeOK'
  <2>1. msg' \in [MsgIds -> Message]
    <3>1. msg[m] \in Message
      BY DEF TypeOK
    <3>2. [msg[m] EXCEPT !.expired = @ + 1] \in Message
      BY <3>1 DEF Message
    <3>3. [[msg[m] EXCEPT !.expired = @ + 1] EXCEPT !.at = "main"] \in Message
      BY <3>2, MessageUpdate DEF Places
    <3> QED BY <1>17, <3>1, <3>3 DEF RetryExpire, TypeOK
  <2> QED BY <1>17, <2>1 DEF RetryExpire, TypeOK, table, engine, worker
<1>18. CASE Tick
  BY <1>18 DEF Tick, TypeOK, engine, worker
<1>19. CASE UNCHANGED vars
  BY <1>19 DEF vars, TypeOK
<1> QED
  BY <1>1, <1>2, <1>3, <1>4, <1>5, <1>6, <1>7, <1>8, <1>9, <1>10, <1>11, <1>12,
     <1>13, <1>14, <1>15, <1>16, <1>17, <1>18, <1>19
  DEF Next, WorkerStep

\* The empty system is well typed: the base of the induction.
LEMMA TypeInit == Init => TypeOK
  BY BoundAssumption DEF Init, TypeOK, NoRow, NoMessage, NoRequest, NoOps, Row, Status, Message,
         Places, Request, Operation

\* Every reachable state of the pipeline is well typed: no step of a request,
\* a worker, the broker or the reconciler leaves the sets the code works in.
THEOREM TypeCorrect == Spec => []TypeOK
  BY TypeInit, TypeStep, PTL DEF Spec

-----------------------------------------------------------------------------
\* The version of a row says which life its document is in.
RowVersions ==
    \A d \in Docs :
        row[d].version = CASE row[d].status = "absent"  -> 0
                           [] row[d].status = "deleted" -> 2
                           [] OTHER                     -> 1

\* A request in flight is about a stored document; a delete that has not
\* committed read version 1, and one that has is why the row is deleted.
Requests ==
    \A r \in Reqs : req[r].pc # "idle" =>
        /\ req[r].doc \in Docs
        /\ row[req[r].doc].status # "absent"
        /\ req[r].pc = "delete_commit" => req[r].version = 1
        /\ req[r].pc \in {"delete_invalidate", "delete_publish"} =>
               row[req[r].doc].status = "deleted"

\* An operation, pending in a worker or under way to the cluster, is one that
\* its document's row has asked for.
Sound(d, o) ==
    /\ o.kind = "index"  => o.version = 1 /\ row[d].status # "absent"
    /\ o.kind = "delete" => o.version = 2 /\ row[d].status = "deleted"

Operational ==
    /\ \A w \in Workers, d \in Docs : Sound(d, op[w][d])
    /\ \A o \in late : Sound(o.doc, o)

\* The entry of a document remembers the last operation applied to it.
Entries ==
    \A d \in Docs :
        /\ index[d].version \in {0, 1, 2}
        /\ index[d].present <=> index[d].version = 1
        /\ index[d].version # 0 => row[d].status # "absent"
        /\ index[d].version = 2 => row[d].status = "deleted"
        /\ row[d].status = "indexed" => index[d].version # 0

\* What the cluster confirmed to a worker it holds, or something newer.
Confirmed ==
    \A w \in Workers : \A d \in done[w] :
        op[w][d].kind # "none" /\ index[d].version >= op[w][d].version

Versions == RowVersions /\ Requests /\ Operational /\ Entries /\ Confirmed

\* A worker that has not had its bulk answer has nothing done and nothing failed.
Fresh ==
    \A w \in Workers : pc[w] \in {"collect", "bulk"} => done[w] = {} /\ failed[w] = {}

VInv == TypeOK /\ Fresh /\ Versions

\* No step leaves results of an earlier batch in a worker that collects a new one.
LEMMA FreshStep == TypeOK /\ Fresh /\ [Next]_vars => Fresh'
<1> SUFFICES ASSUME TypeOK, Fresh, [Next]_vars PROVE Fresh'
  OBVIOUS
<1>1. ASSUME UNCHANGED <<pc, done, failed>> PROVE Fresh'
  BY <1>1 DEF Fresh
<1>2. ASSUME NEW w \in Workers, FlushRead(w) \/ MarkIndexed(w) \/ Announce(w) PROVE Fresh'
  BY <1>2 DEF FlushRead, MarkIndexed, Announce, Fresh, TypeOK
<1>3. ASSUME NEW w \in Workers, BulkAnswers(w) \/ BulkRaises(w) PROVE Fresh'
  <2>1. /\ pc'[w] \notin {"collect", "bulk"}
        /\ \A v \in Workers \ {w} : pc'[v] = pc[v] /\ done'[v] = done[v] /\ failed'[v] = failed[v]
    BY <1>3 DEF BulkAnswers, BulkRaises, TypeOK
  <2> QED BY <2>1 DEF Fresh
<1>4. ASSUME NEW w \in Workers, EndFlush(w) \/ Crash(w) PROVE Fresh'
  BY <1>4 DEF EndFlush, Crash, Fresh, TypeOK
<1>5. ASSUME NEW w \in Workers, NEW m \in MsgIds,
             Receive(w, m) \/ Discard(w, m) \/ Ack(w, m) \/ Nack(w, m) \/ DeadLetter(w, m)
      PROVE  Fresh'
  BY <1>1, <1>5 DEF Receive, Discard, Ack, Nack, DeadLetter, worker
<1>6. ASSUME NEW w \in Workers, Disconnect(w) \/ ReconcilerStep(w) PROVE Fresh'
  BY <1>1, <1>6 DEF Disconnect, ReconcilerStep, SweepRead, SweepPublish, worker
<1>7. ASSUME NEW r \in Reqs, RequestStep(r) \/ RequestCrash(r) PROVE Fresh'
  BY <1>1, <1>7 DEF RequestStep, CreatePublish, CreateInvalidate, DeleteCommit,
                    DeleteInvalidate, DeletePublish, RequestCrash, worker
<1>8. ASSUME NEW r \in Reqs, NEW d \in Docs, CreateCommit(r, d) \/ DeleteRead(r, d) PROVE Fresh'
  BY <1>1, <1>8 DEF CreateCommit, DeleteRead, worker
<1>9. ASSUME NEW b \in BadIds, ForeignPublish(b) PROVE Fresh'
  BY <1>1, <1>9 DEF ForeignPublish, worker
<1>10. ASSUME NEW o \in late, LateArrival(o) PROVE Fresh'
  BY <1>1, <1>10 DEF LateArrival, worker
<1>11. ASSUME NEW m \in MsgIds, RetryExpire(m) PROVE Fresh'
  BY <1>1, <1>11 DEF RetryExpire, worker
<1>12. CASE Tick \/ UNCHANGED vars
  BY <1>1, <1>12 DEF Tick, vars, worker
<1> QED
  BY <1>2, <1>3, <1>4, <1>5, <1>6, <1>7, <1>8, <1>9, <1>10, <1>11, <1>12
  DEF Next, WorkerStep

\* A sound operation leaves an entry that is as new as the operation and as
\* the entry it met, and that the row accounts for.
LEMMA ApplySound ==
    ASSUME Tombstones, VInv, NEW d \in Docs, NEW o,
           o.kind \in {"index", "delete"}, o.version \in Nat, Sound(d, o),
           NEW e, e = ApplyOp(index[d], o)
    PROVE  /\ e.version \in {0, 1, 2}
           /\ e.present <=> e.version = 1
           /\ e.version >= index[d].version
           /\ e.version >= o.version
           /\ e.version # 0 => row[d].status # "absent"
           /\ e.version = 2 => row[d].status = "deleted"
<1>1. index[d] \in [present : BOOLEAN, version : Nat]
  BY DEF VInv, TypeOK
<1>2. CASE o.version <= index[d].version
  BY <1>1, <1>2 DEF ApplyOp, VInv, Versions, Entries
<1>3. CASE ~(o.version <= index[d].version)
  <2>2. CASE o.kind = "index"
    <3>1. e = [present |-> TRUE, version |-> o.version]
      BY <1>1, <1>3, <2>2 DEF ApplyOp
    <3> QED BY <1>1, <1>3, <2>2, <3>1 DEF Sound
  <2>3. CASE o.kind = "delete"
    <3>1. e = [present |-> FALSE, version |-> o.version]
      BY <1>1, <1>3, <2>3 DEF ApplyOp
    <3> QED BY <1>1, <1>3, <2>3, <3>1 DEF Sound
  <2> QED BY <2>2, <2>3
<1> QED BY <1>2, <1>3

\* Items that are sent are as justified as the operations they are made from.
LEMMA ItemsSound ==
    ASSUME Versions, NEW w \in Workers, NEW sent \in SUBSET Acceptable(w)
    PROVE  \A o \in Items(w, sent) : Sound(o.doc, o)
<1>1. \A d \in sent : Sound(d, op[w][d])
  BY DEF Acceptable, OpDocs, Versions, Operational
<1> QED BY <1>1 DEF Items, Sound

\* A step that leaves the table, the index and the operations alone.
LEMMA QuietStep ==
    ASSUME VInv, UNCHANGED <<row, index, late, op, done>>, Requests'
    PROVE  Versions'
  BY DEF VInv, Versions, RowVersions, Operational, Sound, Entries, Confirmed

\* A step that only writes rows, and only forward.
LEMMA RowStep ==
    ASSUME VInv, UNCHANGED <<index, late, op, done>>, Requests', RowVersions',
           \A d \in Docs :
               /\ row[d].status # "absent" => row'[d].status # "absent"
               /\ row[d].status = "deleted" => row'[d].status = "deleted"
               /\ row'[d].status = "indexed" => row[d].status = "indexed" \/ index[d].version # 0
    PROVE  Versions'
<1>1. late \subseteq [doc : Docs, kind : {"index", "delete"}, version : Nat]
  BY DEF VInv, TypeOK
<1>2. Operational'
  BY <1>1 DEF VInv, Versions, Operational, Sound
<1>3. Entries'
  BY DEF VInv, Versions, Entries
<1>4. Confirmed'
  BY DEF VInv, Versions, Confirmed
<1> QED BY <1>2, <1>3, <1>4 DEF Versions

\* The agreement of versions is inductive: one case per action of Next.
LEMMA VersionsStep == ASSUME Tombstones PROVE VInv /\ [Next]_vars => Versions'
<1> SUFFICES ASSUME VInv, [Next]_vars PROVE Versions'
  OBVIOUS
<1> USE DEF VInv
<1>1. ASSUME NEW r \in Reqs, NEW d \in Docs, CreateCommit(r, d) PROVE Versions'
  <2>1. RowVersions'
    BY <1>1 DEF CreateCommit, Versions, RowVersions, TypeOK
  <2>2. Requests'
    BY <1>1 DEF CreateCommit, Versions, Requests, TypeOK
  <2> QED BY <1>1, <2>1, <2>2, RowStep DEF CreateCommit, TypeOK, engine, worker
<1>2. ASSUME NEW r \in Reqs, NEW d \in Docs, DeleteRead(r, d) PROVE Versions'
  <2>1. Requests'
    BY <1>2 DEF DeleteRead, Versions, Requests, RowVersions, TypeOK, table
  <2> QED BY <1>2, <2>1, QuietStep DEF DeleteRead, table, engine, worker
<1>3. ASSUME NEW r \in Reqs, RequestStep(r) PROVE Versions'
  <2>1. CASE CreatePublish(r) \/ CreateInvalidate(r) \/ DeleteInvalidate(r) \/ DeletePublish(r)
    <3>1. Requests'
      <4>1. CASE CreatePublish(r) \/ DeleteInvalidate(r)
        <5>1. /\ req'[r].doc = req[r].doc /\ req[r].pc # "idle"
              /\ req'[r].pc = "create_invalidate" \/ (/\ req[r].pc = "delete_invalidate"
                                                      /\ req'[r].pc = "delete_publish")
              /\ \A q \in Reqs \ {r} : req'[q] = req[q]
              /\ row' = row
          BY <4>1 DEF CreatePublish, DeleteInvalidate, SetReq, TypeOK, Request, table
        <5> QED BY <5>1 DEF Versions, Requests
      <4>2. CASE CreateInvalidate(r) \/ DeletePublish(r)
        <5>1. /\ req'[r].pc = "idle"
              /\ \A q \in Reqs \ {r} : req'[q] = req[q]
              /\ row' = row
          BY <4>2 DEF CreateInvalidate, DeletePublish, EndReq, NoRequest, TypeOK, table
        <5> QED BY <5>1 DEF Versions, Requests
      <4> QED BY <2>1, <4>1, <4>2
    <3> QED BY <2>1, <3>1, QuietStep
            DEF CreatePublish, CreateInvalidate, DeleteInvalidate, DeletePublish,
                table, engine, worker
  <2>2. CASE DeleteCommit(r)
    <3>1. req[r].doc \in Docs /\ req[r].version = 1 /\ row[req[r].doc].status # "absent"
      BY <2>2 DEF DeleteCommit, Versions, Requests
    <3>2. RowVersions'
      BY <2>2, <3>1 DEF DeleteCommit, Versions, RowVersions, TypeOK
    <3>3. Requests'
      BY <2>2, <3>1 DEF DeleteCommit, SetReq, Versions, Requests, TypeOK, Request
    <3> QED BY <2>2, <3>1, <3>2, <3>3, RowStep DEF DeleteCommit, TypeOK, engine, worker
  <2> QED BY <1>3, <2>1, <2>2 DEF RequestStep
<1>4. ASSUME NEW r \in Reqs, RequestCrash(r) PROVE Versions'
  <2>1. Requests'
    BY <1>4 DEF RequestCrash, EndReq, NoRequest, Versions, Requests, TypeOK, table
  <2> QED BY <1>4, <2>1, QuietStep DEF RequestCrash, table, engine, worker
<1>5. ASSUME UNCHANGED <<row, index, late, op, done, req>> PROVE Versions'
  <2>1. Requests'
    BY <1>5 DEF Versions, Requests
  <2> QED BY <1>5, <2>1, QuietStep
<1>6. ASSUME NEW w \in Workers, FlushRead(w) PROVE Versions'
  <2>1. \A d \in Docs : Sound(d, OpFor(d))
    BY DEF Sound, OpFor, Versions, RowVersions, TypeOK, Row, Status
  <2>2. \A d \in Docs : Sound(d, op'[w][d])
    BY <1>6, <2>1 DEF FlushRead, Operations, Sound, TypeOK
  <2>3. Operational'
    BY <1>6, <2>2 DEF FlushRead, Versions, Operational, Sound, TypeOK, table, engine
  <2>4. Confirmed'
    BY <1>6 DEF FlushRead, Fresh, Versions, Confirmed, TypeOK, table, engine
  <2> QED BY <1>6, <2>3, <2>4 DEF FlushRead, Versions, RowVersions, Requests, Entries, table, engine
<1>7. ASSUME NEW w \in Workers, BulkAnswers(w) PROVE Versions'
  <2>1. PICK ok \in SUBSET Acceptable(w), sent \in SUBSET Acceptable(w) :
          /\ index' = Applied(op[w], ok)
          /\ done' = [done EXCEPT ![w] = ok]
          /\ late' = late \cup Items(w, sent)
    BY <1>7 DEF BulkAnswers
  <2>2. UNCHANGED <<row, req, op>>
    BY <1>7 DEF BulkAnswers, table
  <2>3. \A d \in ok : /\ d \in Docs
                      /\ op[w][d].kind \in {"index", "delete"}
                      /\ op[w][d].version \in Nat
                      /\ Sound(d, op[w][d])
                      /\ index'[d] = ApplyOp(index[d], op[w][d])
    BY <2>1 DEF Acceptable, OpDocs, Applied, TypeOK, Operation, Versions, Operational
  <2>4. \A d \in Docs \ ok : index'[d] = index[d]
    BY <2>1 DEF Applied
  <2>5. \A d \in ok : /\ index'[d].version \in {0, 1, 2}
                      /\ index'[d].present <=> index'[d].version = 1
                      /\ index'[d].version >= index[d].version
                      /\ index'[d].version >= op[w][d].version
                      /\ index'[d].version # 0 => row[d].status # "absent"
                      /\ index'[d].version = 2 => row[d].status = "deleted"
    BY <2>3, ApplySound
  <2>6. \A d \in Docs : index[d].version \in Nat /\ index'[d].version >= index[d].version
    BY <2>4, <2>5 DEF TypeOK
  <2>7. Entries'
    BY <2>2, <2>4, <2>5 DEF Versions, Entries
  <2>8. Confirmed'
    <3> SUFFICES ASSUME NEW v \in Workers, NEW d \in done'[v]
                 PROVE  op[v][d].kind # "none" /\ index'[d].version >= op[v][d].version
      BY <2>2 DEF Confirmed
    <3>1. CASE v = w
      BY <2>1, <2>3, <2>5, <3>1 DEF TypeOK
    <3>2. CASE v # w
      <4>1. d \in done[v] /\ d \in Docs
        BY <2>1, <3>2 DEF TypeOK
      <4>2. op[v][d].kind # "none" /\ index[d].version >= op[v][d].version /\ op[v][d].version \in Nat
        BY <4>1 DEF Versions, Confirmed, TypeOK, Operation
      <4>3. index'[d].version \in Nat
        <5>1. CASE d \in ok
          BY <2>5, <5>1
        <5>2. CASE d \notin ok
          BY <2>4, <4>1, <5>2 DEF TypeOK
        <5> QED BY <5>1, <5>2
      <4> QED BY <4>1, <4>2, <4>3, <2>6
    <3> QED BY <3>1, <3>2
  <2>9. \A o \in late' : Sound(o.doc, o)
    BY <2>1, ItemsSound DEF Versions, Operational
  <2> QED BY <2>2, <2>7, <2>8, <2>9 DEF Versions, RowVersions, Requests, Operational, Sound
<1>8. ASSUME NEW w \in Workers, BulkRaises(w) PROVE Versions'
  <2>1. PICK sent \in SUBSET Acceptable(w) :
          late' = late \cup Items(w, sent)
    BY <1>8 DEF BulkRaises
  <2>2. UNCHANGED <<row, index, req, op, done>>
    BY <1>8 DEF BulkRaises, table
  <2>3. \A o \in late' : Sound(o.doc, o)
    BY <2>1, ItemsSound DEF Versions, Operational
  <2>4. Operational'
    BY <2>2, <2>3 DEF Versions, Operational, Sound
  <2> QED BY <2>2, <2>4 DEF Versions, RowVersions, Requests, Entries, Confirmed
<1>9. ASSUME NEW o \in late, LateArrival(o) PROVE Versions'
  <2>1. /\ o.doc \in Docs
        /\ o.kind \in {"index", "delete"}
        /\ o.version \in Nat
        /\ Sound(o.doc, o)
    BY DEF TypeOK, Versions, Operational
  <2>2. UNCHANGED <<row, req, op, done>> /\ late' = late \ {o}
    BY <1>9 DEF LateArrival, table, worker
  <2>3. /\ index'[o.doc] = ApplyOp(index[o.doc], o)
        /\ \A d \in Docs \ {o.doc} : index'[d] = index[d]
    BY <1>9, <2>1 DEF LateArrival, TypeOK
  <2>4. /\ index'[o.doc].version \in {0, 1, 2}
        /\ index'[o.doc].present <=> index'[o.doc].version = 1
        /\ index'[o.doc].version >= index[o.doc].version
        /\ index'[o.doc].version # 0 => row[o.doc].status # "absent"
        /\ index'[o.doc].version = 2 => row[o.doc].status = "deleted"
    BY <2>1, <2>3, ApplySound
  <2>5. Entries'
    BY <2>1, <2>2, <2>3, <2>4 DEF Versions, Entries, TypeOK
  <2>6. Confirmed'
    <3> SUFFICES ASSUME NEW v \in Workers, NEW d \in done[v]
                 PROVE  op[v][d].kind # "none" /\ index'[d].version >= op[v][d].version
      BY <2>2 DEF Confirmed
    <3>1. d \in Docs /\ index[d].version \in Nat /\ op[v][d].version \in Nat
      BY DEF TypeOK, Operation
    <3>2. op[v][d].kind # "none" /\ index[d].version >= op[v][d].version
      BY DEF Versions, Confirmed
    <3> QED BY <2>3, <2>4, <3>1, <3>2
  <2> QED BY <2>2, <2>5, <2>6 DEF Versions, RowVersions, Requests, Operational, Sound
<1>10. ASSUME NEW w \in Workers, MarkIndexed(w) PROVE Versions'
  <2>1. \A d \in Docs : row'[d] = row[d] \/ /\ d \in done[w]
                                            /\ op[w][d].kind = "index"
                                            /\ row[d].status = "pending"
                                            /\ row'[d].status = "indexed"
                                            /\ row'[d].version = row[d].version
    BY <1>10 DEF MarkIndexed, MarkedIndexed, Confirmable
  <2>2. \A d \in done[w] : op[w][d].kind = "index" => index[d].version # 0
    <3> SUFFICES ASSUME NEW d \in done[w], op[w][d].kind = "index" PROVE index[d].version # 0
      OBVIOUS
    <3>1. d \in Docs
      BY DEF TypeOK
    <3>2. op[w][d].version = 1 /\ index[d].version >= op[w][d].version
      BY <3>1 DEF Versions, Confirmed, Operational, Sound
    <3> QED BY <3>2
  <2>3. RowVersions'
    BY <2>1 DEF Versions, RowVersions
  <2>4. Requests'
    BY <1>10, <2>1 DEF MarkIndexed, Versions, Requests
  <2> QED BY <1>10, <2>1, <2>2, <2>3, <2>4, RowStep DEF MarkIndexed, engine
<1>11. ASSUME NEW w \in Workers, EndFlush(w) \/ Crash(w) PROVE Versions'
  <2>1. /\ UNCHANGED <<row, index, late, req>>
        /\ op' = [op EXCEPT ![w] = NoOps]
        /\ done' = [done EXCEPT ![w] = {}]
    BY <1>11 DEF EndFlush, Crash, table, engine
  <2>2. \A d \in Docs : Sound(d, NoOps[d])
    BY DEF Sound, NoOps
  <2>3. Operational'
    BY <2>1, <2>2 DEF Versions, Operational, Sound, TypeOK
  <2>4. Confirmed'
    BY <2>1 DEF Versions, Confirmed, TypeOK
  <2> QED BY <2>1, <2>3, <2>4 DEF Versions, RowVersions, Requests, Entries
<1>12. ASSUME NEW w \in Workers, NEW m \in MsgIds,
             Receive(w, m) \/ Discard(w, m) \/ Ack(w, m) \/ Nack(w, m) \/ DeadLetter(w, m)
       PROVE  Versions'
  BY <1>5, <1>12 DEF Receive, Discard, Ack, Nack, DeadLetter, table, engine, worker
<1>13. ASSUME NEW w \in Workers, Announce(w) \/ Disconnect(w) \/ ReconcilerStep(w) PROVE Versions'
  BY <1>5, <1>13 DEF Announce, Disconnect, ReconcilerStep, SweepRead, SweepPublish, table, engine, worker
<1>14. ASSUME NEW m \in MsgIds, RetryExpire(m) PROVE Versions'
  BY <1>5, <1>14 DEF RetryExpire, table, engine, worker
<1>15. ASSUME NEW b \in BadIds, ForeignPublish(b) PROVE Versions'
  BY <1>5, <1>15 DEF ForeignPublish, table, engine, worker
<1>16. CASE Tick \/ UNCHANGED vars
  BY <1>5, <1>16 DEF Tick, vars, engine, worker
<1> QED
  BY <1>1, <1>2, <1>3, <1>4, <1>6, <1>7, <1>8, <1>9, <1>10, <1>11, <1>12, <1>13,
     <1>14, <1>15, <1>16
  DEF Next, WorkerStep

\* With no row, no operation and no entry, all versions agree.
LEMMA VersionsInit == Init => Versions
  BY DEF Init, Versions, RowVersions, Requests, Operational, Sound, Entries, Confirmed,
         NoRow, NoRequest, NoOps

\* The versions of rows, operations and entries agree in every reachable state.
THEOREM VersionsHold == ASSUME Tombstones PROVE Spec => []VInv
<1>1. Init => VInv
  <2>1. Init => Fresh
    BY DEF Init, Fresh
  <2> QED BY <2>1, TypeInit, VersionsInit DEF VInv
<1>2. VInv /\ [Next]_vars => VInv'
  BY TypeStep, FreshStep, VersionsStep DEF VInv
<1> QED BY <1>1, <1>2, PTL DEF Spec

\* A row that says "indexed" is about a document the search index holds, for
\* every interleaving of deletes, workers, retries and late bulk requests.
THEOREM IndexedMeansPresentHolds == ASSUME Tombstones PROVE Spec => []IndexedMeansPresent
<1>1. VInv => IndexedMeansPresent
  BY DEF VInv, Versions, Entries, IndexedMeansPresent
<1> QED BY <1>1, VersionsHold, PTL

-----------------------------------------------------------------------------
\* The ways in which a step may change the rows and the index.
Inserts(d) ==
    /\ row[d].status = "absent"
    /\ row'[d].status = "pending"
    /\ \A e \in Docs \ {d} : row'[e] = row[e]

SoftDeletes(d) ==
    /\ row[d].status # "absent"
    /\ row'[d].status = "deleted"
    /\ \A e \in Docs \ {d} : row'[e] = row[e]

Confirms(ds) ==
    /\ \A d \in ds : /\ row[d].status = "pending"
                     /\ index[d].version # 0
                     /\ row'[d].status = "indexed"
    /\ \A d \in Docs \ ds : row'[d] = row[d]

IndexAdvances == \A d \in Docs : index'[d].version >= index[d].version

\* Every step inserts, soft-deletes or confirms, or moves index entries to
\* newer versions, or touches neither the rows nor the index.
LEMMA StepKinds ==
    ASSUME Tombstones, VInv, [Next]_vars
    PROVE  \/ index' = index /\ row' = row
           \/ index' = index /\ \E d \in Docs : Inserts(d) \/ SoftDeletes(d)
           \/ index' = index /\ \E ds \in SUBSET Docs : Confirms(ds)
           \/ row' = row /\ IndexAdvances
<1> DEFINE Goal == \/ index' = index /\ row' = row
                   \/ index' = index /\ \E d \in Docs : Inserts(d) \/ SoftDeletes(d)
                   \/ index' = index /\ \E ds \in SUBSET Docs : Confirms(ds)
                   \/ row' = row /\ IndexAdvances
<1> USE DEF VInv
<1>1. ASSUME NEW r \in Reqs, NEW d \in Docs, CreateCommit(r, d) PROVE Goal
  BY <1>1 DEF CreateCommit, Inserts, TypeOK, engine
<1>2. ASSUME NEW r \in Reqs, DeleteCommit(r) PROVE Goal
  <2>1. req[r].doc \in Docs /\ row[req[r].doc].status # "absent"
    BY <1>2 DEF DeleteCommit, Versions, Requests
  <2>2. SoftDeletes(req[r].doc) /\ index' = index
    BY <1>2, <2>1 DEF DeleteCommit, SoftDeletes, TypeOK, engine
  <2> QED BY <2>1, <2>2
<1>3. ASSUME NEW w \in Workers, MarkIndexed(w) PROVE Goal
  <2> DEFINE ds == {d \in Docs : d \in done[w] /\ op[w][d].kind = "index" /\ row[d].status = "pending"}
  <2>1. \A d \in ds : op[w][d].version = 1 /\ index[d].version >= op[w][d].version
    BY DEF Versions, Confirmed, Operational, Sound
  <2>2. \A d \in ds : index[d].version # 0
    BY <2>1
  <2>3. \A d \in ds : row'[d].status = "indexed"
    BY <1>3 DEF MarkIndexed, MarkedIndexed, Confirmable
  <2>4. \A d \in Docs \ ds : row'[d] = row[d]
    BY <1>3 DEF MarkIndexed, MarkedIndexed, Confirmable
  <2>5. Confirms(ds) /\ index' = index
    BY <1>3, <2>2, <2>3, <2>4 DEF Confirms, MarkIndexed, engine
  <2> QED BY <2>5
<1>4. ASSUME NEW w \in Workers, BulkAnswers(w) PROVE Goal
  <2>1. PICK ok \in SUBSET Acceptable(w) : index' = Applied(op[w], ok)
    BY <1>4 DEF BulkAnswers
  <2>2. ASSUME NEW d \in ok PROVE index'[d].version >= index[d].version
    <3>1. /\ d \in Docs
          /\ op[w][d].kind \in {"index", "delete"}
          /\ op[w][d].version \in Nat
          /\ Sound(d, op[w][d])
          /\ index'[d] = ApplyOp(index[d], op[w][d])
      BY <2>1, <2>2 DEF Acceptable, OpDocs, Applied, TypeOK, Operation, Versions, Operational
    <3> QED BY <3>1, ApplySound
  <2>3. ASSUME NEW d \in Docs \ ok PROVE index'[d].version >= index[d].version
    <3>1. index'[d] = index[d] /\ index[d].version \in Nat
      BY <2>1, <2>3 DEF Applied, TypeOK
    <3> QED BY <3>1
  <2> QED BY <1>4, <2>2, <2>3 DEF BulkAnswers, IndexAdvances, table
<1>5. ASSUME NEW o \in late, LateArrival(o) PROVE Goal
  <2>1. /\ o.doc \in Docs
        /\ o.kind \in {"index", "delete"}
        /\ o.version \in Nat
        /\ Sound(o.doc, o)
    BY DEF TypeOK, Versions, Operational
  <2>2. /\ index'[o.doc] = ApplyOp(index[o.doc], o)
        /\ \A d \in Docs \ {o.doc} : index'[d] = index[d] /\ index[d].version \in Nat
    BY <1>5, <2>1 DEF LateArrival, TypeOK
  <2>3. index'[o.doc].version >= index[o.doc].version
    BY <2>1, <2>2, ApplySound
  <2>4. IndexAdvances
    BY <2>2, <2>3 DEF IndexAdvances
  <2> QED BY <1>5, <2>4 DEF LateArrival, table
<1>6. ASSUME NEW w \in Workers, FlushRead(w) \/ BulkRaises(w) \/ Announce(w) \/ EndFlush(w) \/ Crash(w)
      PROVE  Goal
  BY <1>6 DEF FlushRead, BulkRaises, Announce, EndFlush, Crash, table, engine
<1>7. ASSUME NEW w \in Workers, NEW m \in MsgIds,
             Receive(w, m) \/ Discard(w, m) \/ Ack(w, m) \/ Nack(w, m) \/ DeadLetter(w, m)
      PROVE  Goal
  BY <1>7 DEF Receive, Discard, Ack, Nack, DeadLetter, table, engine
<1>8. ASSUME NEW w \in Workers, Disconnect(w) \/ ReconcilerStep(w) PROVE Goal
  BY <1>8 DEF Disconnect, ReconcilerStep, SweepRead, SweepPublish, table, engine
<1>9. ASSUME NEW r \in Reqs, CreatePublish(r) \/ CreateInvalidate(r) \/ DeleteInvalidate(r)
                             \/ DeletePublish(r) \/ RequestCrash(r)
      PROVE  Goal
  BY <1>9 DEF CreatePublish, CreateInvalidate, DeleteInvalidate, DeletePublish, RequestCrash, table, engine
<1>10. ASSUME NEW r \in Reqs, NEW d \in Docs, DeleteRead(r, d) PROVE Goal
  BY <1>10 DEF DeleteRead, table, engine
<1>11. ASSUME NEW b \in BadIds, ForeignPublish(b) PROVE Goal
  BY <1>11 DEF ForeignPublish, table, engine
<1>12. ASSUME NEW m \in MsgIds, RetryExpire(m) PROVE Goal
  BY <1>12 DEF RetryExpire, table, engine
<1>13. CASE Tick \/ UNCHANGED vars
  BY <1>13 DEF Tick, vars, engine
<1> QED
  BY <1>1, <1>2, <1>3, <1>4, <1>5, <1>6, <1>7, <1>8, <1>9, <1>10, <1>11, <1>12, <1>13
  DEF Next, WorkerStep, RequestStep

\* The row of a document and its version only move forward, and a soft delete
\* is final, for concurrent deletes that read the same version and workers
\* that confirm what they read before the delete.
THEOREM RowsMoveForwardHolds == ASSUME Tombstones PROVE Spec => RowsMoveForward
<1>1. ASSUME VInv, VInv', [Next]_vars, NEW d \in Docs
      PROVE  /\ row'[d].version >= row[d].version
             /\ row[d].status = "deleted" => row'[d].status = "deleted"
  <2>1. \/ row'[d] = row[d]
        \/ row[d].status = "absent" /\ row'[d].status = "pending"
        \/ row[d].status # "absent" /\ row'[d].status = "deleted"
        \/ row[d].status = "pending" /\ row'[d].status = "indexed"
    BY <1>1, StepKinds DEF Inserts, SoftDeletes, Confirms
  <2>2. /\ row[d].version = CASE row[d].status = "absent"  -> 0
                              [] row[d].status = "deleted" -> 2
                              [] OTHER                     -> 1
        /\ row'[d].version = CASE row'[d].status = "absent"  -> 0
                               [] row'[d].status = "deleted" -> 2
                               [] OTHER                     -> 1
    BY <1>1 DEF VInv, Versions, RowVersions
  <2> QED BY <2>1, <2>2
<1>2. VInv /\ VInv' /\ [Next]_vars =>
        [\A d \in Docs :
            /\ row'[d].version >= row[d].version
            /\ row[d].status = "deleted" => row'[d].status = "deleted"]_vars
  BY <1>1
<1> QED BY <1>2, VersionsHold, PTL DEF Spec, RowsMoveForward

\* Once the delete of a document has reached the index, no index operation in
\* flight, retried or late makes the document searchable again.
THEOREM NoResurrectionHolds == ASSUME Tombstones PROVE Spec => NoResurrection
<1>1. ASSUME VInv, VInv', [Next]_vars, NEW d \in Docs,
             row[d].status = "deleted", index[d].version >= row[d].version
      PROVE  ~index'[d].present
  <2>1. row[d].version = 2 /\ index[d].version \in {0, 1, 2}
    BY <1>1 DEF VInv, Versions, RowVersions, Entries
  <2>2. index'[d].version \in {0, 1, 2} /\ (index'[d].present <=> index'[d].version = 1)
    BY <1>1 DEF VInv, Versions, Entries
  <2>3. index'[d].version >= index[d].version
    BY <1>1, <2>1, StepKinds DEF IndexAdvances
  <2> QED BY <1>1, <2>1, <2>2, <2>3
<1>2. VInv /\ VInv' /\ [Next]_vars =>
        [\A d \in Docs :
            row[d].status = "deleted" /\ index[d].version >= row[d].version
                => ~index'[d].present]_vars
  BY <1>1
<1> QED BY <1>2, VersionsHold, PTL DEF Spec, NoResurrection

-----------------------------------------------------------------------------
\* The pipeline implements the life cycle of DocLifecycle: every step of a
\* request, a worker, the broker or the reconciler is a step of one document's
\* row, a batch of confirmations, a batch of entries shown and hidden, or
\* invisible.
THEOREM LifecycleImplemented == ASSUME Tombstones PROVE Spec => ImplementsLifecycle
<1>1. Init => Lifecycle!Init
  BY DEF Init, Lifecycle!Init, NoRow, EntryState
<1>2. ASSUME VInv, VInv', [Next]_vars
      PROVE  [Lifecycle!Next]_<<[d \in Docs |-> row[d].status], [d \in Docs |-> EntryState(index[d])]>>
  <2> DEFINE stored == [d \in Docs |-> row[d].status]
             entry  == [d \in Docs |-> EntryState(index[d])]
  <2>0. \A d \in Docs :
          /\ index[d].version \in {0, 1, 2} /\ index'[d].version \in {0, 1, 2}
          /\ entry[d] = CASE index[d].version = 0 -> "none" [] index[d].version = 1 -> "live" [] OTHER -> "gone"
          /\ entry'[d] = CASE index'[d].version = 0 -> "none" [] index'[d].version = 1 -> "live" [] OTHER -> "gone"
    BY <1>2 DEF VInv, Versions, Entries, EntryState
  <2>1. CASE index' = index /\ row' = row
    BY <2>1
  <2>2. ASSUME NEW d \in Docs, index' = index, Inserts(d)
        PROVE  Lifecycle!Create(d)
    BY <2>2 DEF Inserts, Lifecycle!Create
  <2>3. ASSUME NEW d \in Docs, index' = index, SoftDeletes(d)
        PROVE  Lifecycle!Delete(d) \/ UNCHANGED <<stored, entry>>
    <3>1. CASE row[d].status = "deleted"
      BY <2>3, <3>1 DEF SoftDeletes
    <3>2. CASE row[d].status # "deleted"
      BY <2>3, <3>2 DEF SoftDeletes, Lifecycle!Delete
    <3> QED BY <3>1, <3>2
  <2>4. ASSUME NEW ds \in SUBSET Docs, index' = index, Confirms(ds)
        PROVE  Lifecycle!Confirm(ds)
    <3>1. \A d \in ds : stored[d] = "pending" /\ entry[d] = "live"
      BY <1>2, <2>0, <2>4 DEF Confirms, VInv, Versions, Entries
    <3>2. stored' = [d \in Docs |-> IF d \in ds THEN "indexed" ELSE stored[d]]
      BY <2>4 DEF Confirms
    <3> QED BY <2>4, <3>1, <3>2 DEF Lifecycle!Confirm
  <2>5. ASSUME row' = row, IndexAdvances
        PROVE  \E shown \in SUBSET Docs, hidden \in SUBSET Docs : Lifecycle!Apply(shown, hidden)
    <3> DEFINE shown  == {d \in Docs : index[d].version = 0 /\ index'[d].version = 1}
               hidden == {d \in Docs : index[d].version # 2 /\ index'[d].version = 2}
    <3>1. \A d \in shown : stored[d] # "absent" /\ entry[d] = "none"
      BY <1>2, <2>0, <2>5 DEF VInv, Versions, Entries
    <3>2. \A d \in hidden : stored[d] = "deleted" /\ entry[d] # "gone"
      BY <1>2, <2>0, <2>5 DEF VInv, Versions, Entries
    <3>3. entry' = [d \in Docs |-> CASE d \in hidden -> "gone"
                                      [] d \in shown \ hidden -> "live"
                                      [] OTHER -> entry[d]]
      BY <2>0, <2>5 DEF IndexAdvances
    <3> QED BY <2>5, <3>1, <3>2, <3>3 DEF Lifecycle!Apply
  <2> QED BY <1>2, <2>1, <2>2, <2>3, <2>4, <2>5, StepKinds DEF Lifecycle!Next
<1> QED BY <1>1, <1>2, VersionsHold, PTL DEF Spec, ImplementsLifecycle, Lifecycle!Spec

=============================================================================
