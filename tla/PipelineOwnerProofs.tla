------------------------ MODULE PipelineOwnerProofs ------------------------
(***************************************************************************)
(* Who owes what: proofs, for every number of documents, requests,         *)
(* workers, messages and failures, that a change which the index or the    *)
(* caches still wait for has a message that brings it, and of the only     *)
(* exceptions: lost and dead-lettered events, and bumps that a worker has  *)
(* tried in vain.                                                          *)
(*                                                                         *)
(* A message may lose its worker and be delivered to another, while the    *)
(* first goes on with its bulk call, and a call that raised may still be   *)
(* applied later.  So the invariant is about operations in flight rather   *)
(* than about entries: as long as an operation would still change its      *)
(* entry, some message is going to lead to that version, or a newer one.   *)
(***************************************************************************)
EXTENDS IndexingPipelineProofs

-----------------------------------------------------------------------------
\* A message is going to bring version v of d, or a newer one, to the index:
\* its worker has yet to read the row, to hear of an operation as new as that,
\* or to send the message to the retry queue.
Carries(m, d, v) ==
    /\ msg[m].id = d
    /\ \/ Unread(m)
       \/ Failing(m)
       \/ /\ msg[m].at \in Workers
          /\ pc[msg[m].at] = "bulk"
          /\ op[msg[m].at][d].kind # "none"
          /\ op[msg[m].at][d].version >= v

Carried(d, v) == d \in dlq \/ \E m \in MsgIds : Carries(m, d, v)

\* A deletion that the index does not know of yet.
DeletesOwned ==
    \A d \in Docs :
        row[d].status = "deleted" /\ index[d].version # 2 =>
            \/ d \in lost
            \/ \E r \in Reqs : Deleting(r, d)
            \/ Carried(d, 2)

\* Operations of workers and late items that would still change their entry.
InFlight(d, v) ==
    /\ v > index[d].version
    /\ \/ \E w \in Workers : pc[w] = "bulk" /\ op[w][d].kind # "none" /\ op[w][d].version = v
       \/ \E o \in late : o.doc = d /\ o.version = v

FlightsCarried == \A d \in Docs, v \in {1, 2} : InFlight(d, v) => Carried(d, v)

\* A bump that is owed has its message, and an entry that some operation changed.
BumpsOwned ==
    \A d \in Docs :
        announce[d] = "owed" =>
            /\ d \in dlq \/ \E m \in MsgIds : Announces(m, d)
            /\ index[d].version # 0

\* The answer to a bulk call is about every operation of the batch.
Answered ==
    \A w \in Workers : pc[w] \in {"mark", "announce"} => OpDocs(w) \subseteq done[w] \cup failed[w]

OwnerInv == VInv /\ DeletesOwned /\ FlightsCarried /\ BumpsOwned /\ Answered


-----------------------------------------------------------------------------
\* Messages.

\* A message whose worker has not finished with it.
Alive(m) ==
    \/ Unread(m)
    \/ Failing(m)
    \/ msg[m].at \in Workers /\ pc[msg[m].at] \in {"bulk", "mark", "announce"}

\* Where a step may leave the message of a document that is still needed: where
\* it was, before a new reading of the row, or dead-lettered.
Kept(m) ==
    \/ msg'[m] = msg[m]
    \/ msg'[m].id = msg[m].id /\ Unread(m)'
    \/ msg[m].id \in dlq'

\* A publication takes a free slot.
LEMMA PublishKeeps ==
    ASSUME TypeOK, NEW i, Publish(i) \/ UNCHANGED msg, NEW m \in MsgIds, Alive(m)
    PROVE  Kept(m)
<1>1. CASE UNCHANGED msg
  BY <1>1 DEF Kept
<1>2. CASE Publish(i)
  <2>1. msg[m].at # "free"
    BY WorkerAssumption DEF Alive, Unread, Failing, Places
  <2>2. PICK n \in MsgIds : msg[n].at = "free" /\
            msg' = [msg EXCEPT ![n] = [at |-> "main", id |-> i, rejected |-> 0, expired |-> 0]]
    BY <1>2 DEF Publish
  <2>3. msg'[m] = msg[m]
    BY <2>1, <2>2 DEF TypeOK
  <2> QED BY <2>3 DEF Kept
<1> QED BY <1>1, <1>2

\* No delivery, settlement, expiry or failure drops a message whose worker has
\* not finished with it.
LEMMA MessageKept ==
    ASSUME TypeOK, [Next]_vars, NEW m \in MsgIds, msg[m].id \in Docs, Alive(m)
    PROVE  Kept(m)
<1>1. ASSUME UNCHANGED msg PROVE Kept(m)
  BY <1>1 DEF Kept
<1>2. ASSUME NEW r \in Reqs, NEW d \in Docs, CreateCommit(r, d) \/ DeleteRead(r, d) PROVE Kept(m)
  BY <1>1, <1>2 DEF CreateCommit, DeleteRead
<1>3. ASSUME NEW r \in Reqs, RequestStep(r) \/ RequestCrash(r) PROVE Kept(m)
  <2>1. CASE CreatePublish(r)
    BY <2>1, PublishKeeps DEF CreatePublish
  <2>2. CASE DeletePublish(r)
    BY <2>2, PublishKeeps DEF DeletePublish
  <2>3. CASE CreateInvalidate(r) \/ DeleteCommit(r) \/ DeleteInvalidate(r) \/ RequestCrash(r)
    BY <1>1, <2>3 DEF CreateInvalidate, DeleteCommit, DeleteInvalidate, RequestCrash
  <2> QED BY <1>3, <2>1, <2>2, <2>3 DEF RequestStep
<1>4. ASSUME NEW b \in BadIds, ForeignPublish(b) PROVE Kept(m)
  BY <1>4, PublishKeeps DEF ForeignPublish
<1>5. ASSUME NEW w \in Workers, NEW n \in MsgIds, Receive(w, n) PROVE Kept(m)
  <2>1. CASE n = m
    <3>1. msg[m] \in Message
      BY DEF TypeOK
    <3>2. msg'[m] = [msg[m] EXCEPT !.at = w]
      BY <1>5, <2>1 DEF Receive, TypeOK
    <3>3. msg'[m].id = msg[m].id /\ msg'[m].at = w /\ pc'[w] = "collect"
      BY <1>5, <3>1, <3>2 DEF Receive, worker, Message
    <3> QED BY <3>3 DEF Kept, Unread
  <2>2. CASE n # m
    BY <1>5, <2>2 DEF Receive, Kept, TypeOK
  <2> QED BY <2>1, <2>2
<1>6. ASSUME NEW w \in Workers, NEW n \in MsgIds, Discard(w, n) PROVE Kept(m)
  <2>1. n # m
    BY <1>6, DocsAssumption DEF Discard
  <2> QED BY <1>6, <2>1 DEF Discard, Kept, TypeOK
<1>7. ASSUME NEW w \in Workers, NEW n \in MsgIds, Ack(w, n) PROVE Kept(m)
  <2>1. n # m
    <3> SUFFICES ASSUME n = m PROVE FALSE
      OBVIOUS
    <3>1. msg[m].at = w /\ pc[w] = "settle" /\ msg[m].id \notin failed[w]
      BY <1>7 DEF Ack, Settling
    <3> QED BY <3>1, WorkerAssumption DEF Alive, Unread, Failing, Places
  <2> QED BY <1>7, <2>1 DEF Ack, Kept, TypeOK
<1>8. ASSUME NEW w \in Workers, NEW n \in MsgIds, Nack(w, n) PROVE Kept(m)
  <2>1. CASE n = m
    <3> DEFINE x == [msg[m] EXCEPT !.at = "retry"]
    <3>1. msg[m] \in Message
      BY DEF TypeOK
    <3>2. msg'[m] = [x EXCEPT !.rejected = msg[m].rejected + 1]
      BY <1>8, <2>1, <3>1 DEF Nack, TypeOK, Message
    <3>3. x \in Message /\ x.at = "retry" /\ x.id = msg[m].id
      BY <3>1, MessageUpdate DEF Places, Message
    <3> HIDE DEF x
    <3>4. msg'[m].id = msg[m].id /\ msg'[m].at = "retry"
      BY <3>2, <3>3 DEF Message
    <3> QED BY <3>4 DEF Kept, Unread
  <2>2. CASE n # m
    BY <1>8, <2>2 DEF Nack, Kept, TypeOK
  <2> QED BY <2>1, <2>2
<1>9. ASSUME NEW w \in Workers, NEW n \in MsgIds, DeadLetter(w, n) PROVE Kept(m)
  BY <1>9 DEF DeadLetter, Kept, TypeOK
<1>10. ASSUME NEW w \in Workers, FlushRead(w) \/ BulkAnswers(w) \/ BulkRaises(w) \/ MarkIndexed(w)
                                 \/ Announce(w) \/ EndFlush(w)
       PROVE  Kept(m)
  BY <1>1, <1>10 DEF FlushRead, BulkAnswers, BulkRaises, MarkIndexed, Announce, EndFlush
<1>11. ASSUME NEW w \in Workers, Disconnect(w) \/ Crash(w) PROVE Kept(m)
  <2>1. msg'[m] = IF msg[m].at = w THEN [msg[m] EXCEPT !.at = "main"] ELSE msg[m]
    BY <1>11 DEF Disconnect, Crash
  <2>2. msg[m] \in Message
    BY DEF TypeOK
  <2>3. CASE msg[m].at = w
    <3>1. msg'[m].id = msg[m].id /\ msg'[m].at = "main"
      BY <2>1, <2>2, <2>3 DEF Message
    <3> QED BY <3>1 DEF Kept, Unread
  <2> QED BY <2>1, <2>3 DEF Kept
<1>12. ASSUME NEW w \in Workers, ReconcilerStep(w) PROVE Kept(m)
  <2>1. CASE SweepRead(w)
    BY <1>1, <2>1 DEF SweepRead
  <2>2. ASSUME NEW d \in Docs, SweepPublish(w, d) PROVE Kept(m)
    BY <2>2, PublishKeeps DEF SweepPublish
  <2> QED BY <1>12, <2>1, <2>2 DEF ReconcilerStep
<1>13. ASSUME NEW o \in late, LateArrival(o) PROVE Kept(m)
  BY <1>1, <1>13 DEF LateArrival
<1>14. ASSUME NEW n \in MsgIds, RetryExpire(n) PROVE Kept(m)
  <2>1. CASE n = m
    <3> DEFINE x == [msg[m] EXCEPT !.at = "main"]
    <3>1. msg[m] \in Message
      BY DEF TypeOK
    <3>2. msg'[m] = [x EXCEPT !.expired = msg[m].expired + 1]
      BY <1>14, <2>1, <3>1 DEF RetryExpire, TypeOK, Message
    <3>3. x \in Message /\ x.at = "main" /\ x.id = msg[m].id
      BY <3>1, MessageUpdate DEF Places, Message
    <3> HIDE DEF x
    <3>4. msg'[m].id = msg[m].id /\ msg'[m].at = "main"
      BY <3>2, <3>3 DEF Message
    <3> QED BY <3>4 DEF Kept, Unread
  <2>2. CASE n # m
    BY <1>14, <2>2 DEF RetryExpire, Kept, TypeOK
  <2> QED BY <2>1, <2>2
<1>15. CASE Tick \/ UNCHANGED vars
  BY <1>1, <1>15 DEF Tick, vars
<1> QED
  BY <1>2, <1>3, <1>4, <1>5, <1>6, <1>7, <1>8, <1>9, <1>10, <1>11, <1>12, <1>13, <1>14, <1>15
  DEF Next, WorkerStep

-----------------------------------------------------------------------------
\* Workers.

\* The steps of a worker's flush.
Flushes(w) ==
    \/ FlushRead(w)
    \/ BulkAnswers(w)
    \/ BulkRaises(w)
    \/ MarkIndexed(w)
    \/ Announce(w)
    \/ EndFlush(w)
    \/ Crash(w)

\* Only a flush touches what its worker knows, and no dead letter is taken back.
LEMMA FlushOrNot ==
    ASSUME TypeOK, [Next]_vars
    PROVE  /\ \/ UNCHANGED <<pc, op, done, failed>>
              \/ \E w \in Workers : Flushes(w)
           /\ dlq \subseteq dlq'
<1>1. ASSUME NEW r \in Reqs, NEW d \in Docs, CreateCommit(r, d) \/ DeleteRead(r, d)
      PROVE  UNCHANGED <<pc, op, done, failed, dlq>>
  BY <1>1 DEF CreateCommit, DeleteRead, worker
<1>2. ASSUME NEW r \in Reqs, RequestStep(r) \/ RequestCrash(r)
      PROVE  UNCHANGED <<pc, op, done, failed, dlq>>
  BY <1>2 DEF RequestStep, CreatePublish, CreateInvalidate, DeleteCommit, DeleteInvalidate,
              DeletePublish, RequestCrash, worker
<1>3. ASSUME NEW b \in BadIds, ForeignPublish(b) PROVE UNCHANGED <<pc, op, done, failed, dlq>>
  BY <1>3 DEF ForeignPublish, worker
<1>4. ASSUME NEW w \in Workers, NEW m \in MsgIds,
             Receive(w, m) \/ Discard(w, m) \/ Ack(w, m) \/ Nack(w, m) \/ DeadLetter(w, m)
      PROVE  UNCHANGED <<pc, op, done, failed>> /\ dlq \subseteq dlq'
  BY <1>4 DEF Receive, Discard, Ack, Nack, DeadLetter, worker
<1>5. ASSUME NEW w \in Workers, Disconnect(w) \/ ReconcilerStep(w)
      PROVE  UNCHANGED <<pc, op, done, failed, dlq>>
  BY <1>5 DEF Disconnect, ReconcilerStep, SweepRead, SweepPublish, worker
<1>6. ASSUME NEW o \in late, LateArrival(o) PROVE UNCHANGED <<pc, op, done, failed, dlq>>
  BY <1>6 DEF LateArrival, worker
<1>7. ASSUME NEW m \in MsgIds, RetryExpire(m) PROVE UNCHANGED <<pc, op, done, failed, dlq>>
  BY <1>7 DEF RetryExpire, worker
<1>8. CASE Tick \/ UNCHANGED vars
  BY <1>8 DEF Tick, vars, worker
<1>9. ASSUME NEW w \in Workers, Flushes(w) PROVE dlq \subseteq dlq'
  BY <1>9 DEF Flushes, FlushRead, BulkAnswers, BulkRaises, MarkIndexed, Announce, EndFlush, Crash
<1> QED
  BY <1>1, <1>2, <1>3, <1>4, <1>5, <1>6, <1>7, <1>8, <1>9 DEF Next, WorkerStep, Flushes

\* A flush leaves the other workers alone.
LEMMA FlushIsLocal ==
    ASSUME TypeOK, NEW w \in Workers, Flushes(w), NEW v \in Workers, v # w
    PROVE  pc'[v] = pc[v] /\ op'[v] = op[v] /\ done'[v] = done[v] /\ failed'[v] = failed[v]
  BY DEF Flushes, FlushRead, BulkAnswers, BulkRaises, MarkIndexed, Announce, EndFlush, Crash, TypeOK

\* The operation for a stored document that is read is as new as its row.
LEMMA ReadIsCurrent ==
    ASSUME TypeOK, Versions, NEW w \in Workers, FlushRead(w), NEW m \in MsgIds, msg[m].at = w,
           NEW d \in Docs, msg[m].id = d, row[d].status # "absent"
    PROVE  /\ pc'[w] = "bulk"
           /\ op'[w][d].kind # "none"
           /\ op'[w][d].version = row[d].version
<1>1. d \in BatchIds(w)
  BY DEF BatchIds, Batch
<1>2. Operations(w)[d] = OpFor(d)
  BY <1>1 DEF Operations
<1>3. OpFor(d).kind # "none" /\ OpFor(d).version = row[d].version
  BY DEF OpFor
<1>4. Operations(w) # NoOps
  BY <1>2, <1>3 DEF NoOps
<1> QED BY <1>2, <1>3, <1>4 DEF FlushRead, TypeOK

\* Applied operations leave entries at least as new as they are.
LEMMA AppliedIsNew ==
    ASSUME Tombstones, VInv, NEW w \in Workers, NEW ok \in SUBSET Acceptable(w),
           index' = Applied(op[w], ok), NEW d \in ok
    PROVE  index'[d].version >= op[w][d].version
<1>1. /\ d \in Docs
      /\ op[w][d].kind \in {"index", "delete"}
      /\ op[w][d].version \in Nat
      /\ Sound(d, op[w][d])
      /\ index'[d] = ApplyOp(index[d], op[w][d])
  BY DEF Acceptable, OpDocs, Applied, VInv, TypeOK, Operation, Versions, Operational
<1> QED BY <1>1, ApplySound

\* A message that carries a version keeps doing so until the index has it.
LEMMA CarriedStep ==
    ASSUME Tombstones, VInv, [Next]_vars, NEW d \in Docs, NEW v \in {1, 2},
           row[d].version >= v, Carried(d, v)
    PROVE  Carried(d, v)' \/ index'[d].version >= v
<1> USE DEF VInv
<1>1. CASE d \in dlq
  BY <1>1, FlushOrNot DEF Carried
<1>2. ASSUME NEW m \in MsgIds, Carries(m, d, v) PROVE Carried(d, v)' \/ index'[d].version >= v
  <2>1. msg[m].id = d /\ Alive(m)
    BY <1>2 DEF Carries, Alive
  <2>2. CASE d \in dlq' \/ (msg'[m].id = msg[m].id /\ Unread(m)')
    BY <2>1, <2>2 DEF Carried, Carries
  <2>3. CASE msg'[m] = msg[m]
    <3>1. CASE \/ msg[m].at \notin Workers
               \/ msg[m].at \in Workers /\ pc'[msg[m].at] = pc[msg[m].at]
                  /\ op'[msg[m].at] = op[msg[m].at] /\ failed'[msg[m].at] = failed[msg[m].at]
      <4>1. Carries(m, d, v)'
        BY <1>2, <2>3, <3>1 DEF Carries, Unread, Failing
      <4> QED BY <4>1 DEF Carried
    <3>2. ASSUME NEW w \in Workers, Flushes(w), msg[m].at = w
          PROVE  Carried(d, v)' \/ index'[d].version >= v
      <4>1. CASE FlushRead(w)
        <5>1. row[d].status # "absent"
          BY DEF Versions, RowVersions
        <5>2. Carries(m, d, v)'
          BY <2>1, <2>3, <3>2, <4>1, <5>1, ReadIsCurrent DEF Carries
        <5> QED BY <5>2 DEF Carried
      <4>2. CASE BulkAnswers(w)
        <5>1. PICK ok \in SUBSET Acceptable(w) :
                /\ index' = Applied(op[w], ok)
                /\ failed' = [failed EXCEPT ![w] = OpDocs(w) \ ok]
          BY <4>2 DEF BulkAnswers, FailedItems
        <5>2. pc[w] = "bulk" /\ failed[w] = {}
          BY <4>2 DEF BulkAnswers, Fresh
        <5>3. op[w][d].kind # "none" /\ op[w][d].version >= v /\ op[w][d].version \in Nat
          BY <1>2, <3>2, <5>2, WorkerAssumption DEF Carries, Unread, Failing, Places, TypeOK, Operation
        <5>4. CASE d \in ok
          <6>1. index'[d].version >= op[w][d].version
            BY <5>1, <5>4, AppliedIsNew
          <6>2. index'[d].version \in Nat
            BY TypeStep DEF TypeOK
          <6> QED BY <5>3, <6>1, <6>2
        <5>5. CASE d \notin ok
          <6>1. d \in failed'[w]
            BY <5>1, <5>3, <5>5 DEF OpDocs, TypeOK
          <6>2. Carries(m, d, v)'
            BY <2>1, <2>3, <3>2, <6>1 DEF Carries, Failing
          <6> QED BY <6>2 DEF Carried
        <5> QED BY <5>4, <5>5
      <4>3. CASE BulkRaises(w)
        <5>1. d \in failed'[w]
          BY <2>1, <3>2, <4>3 DEF BulkRaises, FailedOnRaise, BatchIds, Batch, TypeOK
        <5>2. Carries(m, d, v)'
          BY <2>1, <2>3, <3>2, <5>1 DEF Carries, Failing
        <5> QED BY <5>2 DEF Carried
      <4>4. CASE MarkIndexed(w) \/ Announce(w)
        <5>1. pc[w] \in {"mark", "announce"} /\ failed' = failed
          BY <4>4 DEF MarkIndexed, Announce
        <5>2. d \in failed[w]
          BY <1>2, <3>2, <5>1, WorkerAssumption DEF Carries, Unread, Failing, Places
        <5>3. Carries(m, d, v)'
          BY <2>1, <2>3, <3>2, <5>1, <5>2 DEF Carries, Failing
        <5> QED BY <5>3 DEF Carried
      <4>5. CASE EndFlush(w)
        BY <3>2, <4>5 DEF EndFlush, Batch
      <4>6. CASE Crash(w)
        <5>1. msg[m] \in Message /\ msg'[m] = [msg[m] EXCEPT !.at = "main"]
          BY <3>2, <4>6 DEF Crash, TypeOK
        <5>2. msg'[m].id = d /\ Unread(m)'
          BY <2>1, <5>1 DEF Message, Unread
        <5> QED BY <5>2 DEF Carried, Carries
      <4> QED BY <3>2, <4>1, <4>2, <4>3, <4>4, <4>5, <4>6 DEF Flushes
    <3> QED BY <3>1, <3>2, FlushOrNot, FlushIsLocal
  <2> QED BY <2>1, <2>2, <2>3, MessageKept DEF Kept
<1> QED BY <1>1, <1>2 DEF Carried

-----------------------------------------------------------------------------
\* Deletions.

\* A document whose event was just published is carried.
LEMMA CarriedFromQueue ==
    ASSUME TypeOK, NEW d \in Docs, NEW v, Publish(d)
    PROVE  Carried(d, v)'
<1>1. PICK m \in MsgIds : msg' = [msg EXCEPT ![m] =
                              [at |-> "main", id |-> d, rejected |-> 0, expired |-> 0]]
  BY DEF Publish
<1>2. msg'[m].id = d /\ msg'[m].at = "main"
  BY <1>1 DEF TypeOK
<1> QED BY <1>2 DEF Carried, Carries, Unread

\* A request that deleted a document publishes the event or is counted as lost.
LEMMA DeletingStep ==
    ASSUME TypeOK, [Next]_vars, NEW d \in Docs
    PROVE  /\ lost \subseteq lost'
           /\ \A r \in Reqs : Deleting(r, d) => Deleting(r, d)' \/ d \in lost' \/ Carried(d, 2)'
<1> DEFINE Goal == /\ lost \subseteq lost'
                   /\ \A r \in Reqs : Deleting(r, d) => Deleting(r, d)' \/ d \in lost' \/ Carried(d, 2)'
<1>1. ASSUME UNCHANGED <<req, lost>> PROVE Goal
  BY <1>1 DEF Deleting
<1>2. ASSUME NEW q \in Reqs, NEW e \in Docs, CreateCommit(q, e) \/ DeleteRead(q, e) PROVE Goal
  BY <1>2 DEF CreateCommit, DeleteRead, Deleting, TypeOK
<1>3. ASSUME NEW q \in Reqs, CreatePublish(q) \/ CreateInvalidate(q) \/ DeleteCommit(q) PROVE Goal
  <2>1. \A r \in Reqs \ {q} : req'[r] = req[r]
    BY <1>3 DEF CreatePublish, CreateInvalidate, DeleteCommit, SetReq, EndReq, TypeOK
  <2>2. ~Deleting(q, d) /\ lost' = lost
    BY <1>3 DEF CreatePublish, CreateInvalidate, DeleteCommit, Deleting
  <2> QED BY <2>1, <2>2 DEF Deleting
<1>4. ASSUME NEW q \in Reqs, DeleteInvalidate(q) PROVE Goal
  <2>1. \A r \in Reqs \ {q} : req'[r] = req[r]
    BY <1>4 DEF DeleteInvalidate, SetReq, TypeOK
  <2>2. req[q] \in Request /\ req'[q] = [req[q] EXCEPT !.pc = "delete_publish"]
    BY <1>4 DEF DeleteInvalidate, SetReq, TypeOK
  <2>3. req'[q].doc = req[q].doc /\ req'[q].pc = "delete_publish"
    BY <2>2 DEF Request
  <2>4. lost' = lost
    BY <1>4 DEF DeleteInvalidate
  <2> QED BY <2>1, <2>3, <2>4 DEF Deleting
<1>5. ASSUME NEW q \in Reqs, DeletePublish(q) PROVE Goal
  <2>1. \A r \in Reqs \ {q} : req'[r] = req[r]
    BY <1>5 DEF DeletePublish, EndReq, TypeOK
  <2>2. Deleting(q, d) => d \in lost' \/ Carried(d, 2)'
    BY <1>5, CarriedFromQueue DEF DeletePublish, Deleting
  <2>3. lost \subseteq lost'
    BY <1>5 DEF DeletePublish
  <2> QED BY <2>1, <2>2, <2>3 DEF Deleting
<1>6. ASSUME NEW q \in Reqs, RequestCrash(q) PROVE Goal
  <2>1. \A r \in Reqs \ {q} : req'[r] = req[r]
    BY <1>6 DEF RequestCrash, EndReq, TypeOK
  <2>2. (Deleting(q, d) => d \in lost') /\ lost \subseteq lost'
    BY <1>6 DEF RequestCrash, Deleting
  <2> QED BY <2>1, <2>2 DEF Deleting
<1>7. ASSUME NEW b \in BadIds, ForeignPublish(b) PROVE Goal
  BY <1>1, <1>7 DEF ForeignPublish
<1>8. ASSUME NEW w \in Workers, NEW m \in MsgIds,
             Receive(w, m) \/ Discard(w, m) \/ Ack(w, m) \/ Nack(w, m) \/ DeadLetter(w, m)
      PROVE  Goal
  BY <1>1, <1>8 DEF Receive, Discard, Ack, Nack, DeadLetter
<1>9. ASSUME NEW w \in Workers, Flushes(w) \/ Disconnect(w) PROVE Goal
  BY <1>1, <1>9 DEF Flushes, FlushRead, BulkAnswers, BulkRaises, MarkIndexed, Announce, EndFlush,
                    Crash, Disconnect
<1>10. ASSUME NEW w \in Workers, ReconcilerStep(w) PROVE Goal
  BY <1>1, <1>10 DEF ReconcilerStep, SweepRead, SweepPublish
<1>11. ASSUME NEW o \in late, LateArrival(o) PROVE Goal
  BY <1>1, <1>11 DEF LateArrival
<1>12. ASSUME NEW m \in MsgIds, RetryExpire(m) PROVE Goal
  BY <1>1, <1>12 DEF RetryExpire
<1>13. CASE Tick \/ UNCHANGED vars
  BY <1>1, <1>13 DEF Tick, vars
<1> QED
  BY <1>2, <1>3, <1>4, <1>5, <1>6, <1>7, <1>8, <1>9, <1>10, <1>11, <1>12, <1>13
  DEF Next, RequestStep, WorkerStep, Flushes

\* A row becomes deleted by the commit of a request that has yet to publish.
LEMMA DeletedByRequest ==
    ASSUME VInv, [Next]_vars, NEW d \in Docs, row[d].status # "deleted", row'[d].status = "deleted"
    PROVE  \E r \in Reqs : Deleting(r, d)'
<1> USE DEF VInv
<1>1. \E r \in Reqs : DeleteCommit(r)
  <2>1. ASSUME row' = row PROVE FALSE
    BY <2>1
  <2>2. ASSUME NEW r \in Reqs, NEW e \in Docs, CreateCommit(r, e) PROVE FALSE
    BY <2>2 DEF CreateCommit, TypeOK
  <2>3. ASSUME NEW w \in Workers, MarkIndexed(w) PROVE FALSE
    BY <2>3 DEF MarkIndexed, MarkedIndexed
  <2>4. ASSUME NEW w \in Workers, WorkerStep(w), ~MarkIndexed(w) PROVE row' = row
    BY <2>4 DEF WorkerStep, FlushRead, BulkAnswers, BulkRaises, Announce, Ack, Nack, DeadLetter,
                EndFlush, table
  <2>5. ASSUME NEW w \in Workers, Disconnect(w) \/ Crash(w) \/ ReconcilerStep(w) PROVE row' = row
    BY <2>5 DEF Disconnect, Crash, ReconcilerStep, SweepRead, SweepPublish, table
  <2>6. ASSUME NEW w \in Workers, NEW m \in MsgIds, Receive(w, m) \/ Discard(w, m) PROVE row' = row
    BY <2>6 DEF Receive, Discard, table
  <2>7. ASSUME NEW r \in Reqs, RequestStep(r) \/ RequestCrash(r), ~DeleteCommit(r) PROVE row' = row
    BY <2>7 DEF RequestStep, CreatePublish, CreateInvalidate, DeleteInvalidate, DeletePublish,
                RequestCrash, table
  <2>8. ASSUME NEW r \in Reqs, NEW e \in Docs, DeleteRead(r, e) PROVE row' = row
    BY <2>8 DEF DeleteRead, table
  <2>9. ASSUME NEW o \in late, LateArrival(o) PROVE row' = row
    BY <2>9 DEF LateArrival, table
  <2>10. ASSUME NEW b \in BadIds, ForeignPublish(b) PROVE row' = row
    BY <2>10 DEF ForeignPublish, table
  <2>11. ASSUME NEW m \in MsgIds, RetryExpire(m) PROVE row' = row
    BY <2>11 DEF RetryExpire, table
  <2>12. ASSUME Tick \/ UNCHANGED vars PROVE row' = row
    BY <2>12 DEF Tick, vars
  <2> QED
    BY <2>1, <2>2, <2>3, <2>4, <2>5, <2>6, <2>7, <2>8, <2>9, <2>10, <2>11, <2>12 DEF Next
<1>2. PICK r \in Reqs : DeleteCommit(r)
  BY <1>1
<1>3. req[r].doc = d
  BY <1>2 DEF DeleteCommit, TypeOK
<1>4. req[r] \in Request /\ req'[r] = [req[r] EXCEPT !.pc = "delete_invalidate"]
  BY <1>2 DEF DeleteCommit, SetReq, TypeOK
<1>5. req'[r].doc = d /\ req'[r].pc = "delete_invalidate"
  BY <1>3, <1>4 DEF Request
<1> QED BY <1>5 DEF Deleting

\* Entries only move to newer versions.
LEMMA EntriesAdvance ==
    ASSUME Tombstones, VInv, [Next]_vars, NEW d \in Docs
    PROVE  /\ index[d].version \in {0, 1, 2} /\ index'[d].version \in {0, 1, 2}
           /\ index'[d].version >= index[d].version
           /\ index[d].present <=> index[d].version = 1
           /\ index'[d].present <=> index'[d].version = 1
<1>1. VInv'
  BY TypeStep, FreshStep, VersionsStep DEF VInv
<1>2. /\ index[d].version \in {0, 1, 2} /\ index'[d].version \in {0, 1, 2}
      /\ index[d].present <=> index[d].version = 1
      /\ index'[d].present <=> index'[d].version = 1
  BY <1>1 DEF VInv, Versions, Entries
<1>3. index' = index \/ IndexAdvances
  BY StepKinds
<1> QED BY <1>2, <1>3 DEF IndexAdvances

\* A deletion that the index still lacks keeps its owner.
LEMMA DeletesOwnedStep ==
    ASSUME Tombstones, VInv, DeletesOwned, [Next]_vars
    PROVE  DeletesOwned'
<1> SUFFICES ASSUME NEW d \in Docs, row'[d].status = "deleted", index'[d].version # 2
             PROVE  d \in lost' \/ (\E r \in Reqs : Deleting(r, d)') \/ Carried(d, 2)'
  BY DEF DeletesOwned
<1>1. index[d].version # 2
  BY EntriesAdvance
<1>2. CASE row[d].status # "deleted"
  BY <1>2, DeletedByRequest
<1>3. CASE row[d].status = "deleted"
  <2>1. row[d].version = 2
    BY <1>3 DEF VInv, Versions, RowVersions
  <2>2. CASE Carried(d, 2)
    <3>1. Carried(d, 2)' \/ index'[d].version >= 2
      BY <2>1, <2>2, CarriedStep
    <3>2. ~(index'[d].version >= 2)
      BY EntriesAdvance
    <3> QED BY <3>1, <3>2
  <2>3. CASE d \in lost \/ \E r \in Reqs : Deleting(r, d)
    BY <2>3, DeletingStep DEF VInv
  <2> QED BY <1>1, <1>3, <2>2, <2>3 DEF DeletesOwned
<1> QED BY <1>2, <1>3

-----------------------------------------------------------------------------
\* Operations in flight.

\* An operation is as new as its document's row, or older.
LEMMA FlightIsAsked ==
    ASSUME VInv, NEW d \in Docs, NEW v \in {1, 2}, InFlight(d, v)
    PROVE  row[d].version >= v
<1>1. row[d].version \in Nat /\ row[d].version = CASE row[d].status = "absent"  -> 0
                                                  [] row[d].status = "deleted" -> 2
                                                  [] OTHER                     -> 1
  BY DEF VInv, TypeOK, Row, Versions, RowVersions
<1>2. ASSUME NEW o, o.kind \in {"index", "delete"}, o.version = v, Sound(d, o)
      PROVE  row[d].version >= v
  BY <1>1, <1>2 DEF Sound
<1>3. ASSUME NEW w \in Workers, op[w][d].kind # "none", op[w][d].version = v
      PROVE  row[d].version >= v
  <2>1. op[w][d].kind \in {"index", "delete"} /\ Sound(d, op[w][d])
    BY <1>3 DEF VInv, TypeOK, Operation, Versions, Operational
  <2> QED BY <1>2, <1>3, <2>1
<1>4. ASSUME NEW o \in late, o.doc = d, o.version = v
      PROVE  row[d].version >= v
  <2>1. o.kind \in {"index", "delete"} /\ Sound(d, o)
    BY <1>4 DEF VInv, TypeOK, Versions, Operational
  <2> QED BY <1>2, <1>4, <2>1
<1> QED BY <1>3, <1>4 DEF InFlight

\* Late items are those of a bulk call that raised, or was sent again.
LEMMA LateFromBulk ==
    ASSUME TypeOK, [Next]_vars, NEW o \in late', o \notin late
    PROVE  \E w \in Workers : /\ BulkAnswers(w) \/ BulkRaises(w)
                              /\ o.doc \in Docs
                              /\ op[w][o.doc].kind # "none"
                              /\ op[w][o.doc].version = o.version
<1>1. ASSUME late' \subseteq late PROVE FALSE
  BY <1>1
<1>2. ASSUME NEW r \in Reqs, NEW d \in Docs, CreateCommit(r, d) \/ DeleteRead(r, d) PROVE late' = late
  BY <1>2 DEF CreateCommit, DeleteRead, engine
<1>3. ASSUME NEW r \in Reqs, RequestStep(r) \/ RequestCrash(r) PROVE late' = late
  BY <1>3 DEF RequestStep, CreatePublish, CreateInvalidate, DeleteCommit, DeleteInvalidate,
              DeletePublish, RequestCrash, engine
<1>4. ASSUME NEW b \in BadIds, ForeignPublish(b) PROVE late' = late
  BY <1>4 DEF ForeignPublish, engine
<1>5. ASSUME NEW w \in Workers, NEW m \in MsgIds,
             Receive(w, m) \/ Discard(w, m) \/ Ack(w, m) \/ Nack(w, m) \/ DeadLetter(w, m)
      PROVE  late' = late
  BY <1>5 DEF Receive, Discard, Ack, Nack, DeadLetter, engine
<1>6. ASSUME NEW w \in Workers, Flushes(w) \/ Disconnect(w), ~BulkAnswers(w), ~BulkRaises(w)
      PROVE  late' = late
  BY <1>6 DEF Flushes, FlushRead, MarkIndexed, Announce, EndFlush, Crash, Disconnect, engine
<1>7. ASSUME NEW w \in Workers, ReconcilerStep(w) PROVE late' = late
  BY <1>7 DEF ReconcilerStep, SweepRead, SweepPublish, engine
<1>8. ASSUME NEW x \in late, LateArrival(x) PROVE late' \subseteq late
  BY <1>8 DEF LateArrival
<1>9. ASSUME NEW m \in MsgIds, RetryExpire(m) PROVE late' = late
  BY <1>9 DEF RetryExpire, engine
<1>10. ASSUME Tick \/ UNCHANGED vars PROVE late' = late
  BY <1>10 DEF Tick, vars, engine
<1>11. \E w \in Workers : BulkAnswers(w) \/ BulkRaises(w)
  BY <1>1, <1>2, <1>3, <1>4, <1>5, <1>6, <1>7, <1>8, <1>9, <1>10 DEF Next, WorkerStep, Flushes
<1>12. PICK w \in Workers : BulkAnswers(w) \/ BulkRaises(w)
  BY <1>11
<1>13. PICK d \in Acceptable(w) :
          o = [doc |-> d, kind |-> op[w][d].kind, version |-> op[w][d].version]
  BY <1>12 DEF BulkAnswers, BulkRaises, Items
<1> QED BY <1>12, <1>13 DEF Acceptable, OpDocs

\* An operation is in flight because it was, or because its row was just read.
LEMMA FlightBegins ==
    ASSUME Tombstones, VInv, [Next]_vars, NEW d \in Docs, NEW v \in {1, 2}, InFlight(d, v)'
    PROVE  \/ InFlight(d, v)
           \/ \E w \in Workers : /\ FlushRead(w)
                                 /\ op'[w][d].kind # "none"
                                 /\ op'[w][d].version = v
<1> USE DEF VInv
<1>1. v > index[d].version
  BY EntriesAdvance DEF InFlight
<1>2. ASSUME NEW w \in Workers, pc'[w] = "bulk", op'[w][d].kind # "none", op'[w][d].version = v
      PROVE  InFlight(d, v) \/ FlushRead(w)
  <2>1. CASE pc'[w] = pc[w] /\ op'[w] = op[w]
    BY <1>1, <1>2, <2>1 DEF InFlight
  <2>2. CASE Flushes(w)
    BY <1>2, <2>2 DEF Flushes, BulkAnswers, BulkRaises, MarkIndexed, Announce, EndFlush, Crash, TypeOK
  <2> QED BY <2>1, <2>2, FlushOrNot, FlushIsLocal
<1>3. ASSUME NEW o \in late', o.doc = d, o.version = v
      PROVE  InFlight(d, v)
  <2>1. CASE o \in late
    BY <1>1, <1>3, <2>1 DEF InFlight
  <2>2. CASE o \notin late
    <3>1. PICK w \in Workers : /\ BulkAnswers(w) \/ BulkRaises(w)
                               /\ op[w][d].kind # "none" /\ op[w][d].version = v
      BY <1>3, <2>2, LateFromBulk
    <3> QED BY <1>1, <3>1 DEF InFlight, BulkAnswers, BulkRaises
  <2> QED BY <2>1, <2>2
<1> QED BY <1>2, <1>3 DEF InFlight

\* An operation that would still change its entry keeps its message.
LEMMA FlightsCarriedStep ==
    ASSUME Tombstones, VInv, FlightsCarried, [Next]_vars
    PROVE  FlightsCarried'
<1> SUFFICES ASSUME NEW d \in Docs, NEW v \in {1, 2}, InFlight(d, v)'
             PROVE  Carried(d, v)'
  BY DEF FlightsCarried
<1>1. CASE InFlight(d, v)
  <2>1. Carried(d, v) /\ row[d].version >= v
    BY <1>1, FlightIsAsked DEF FlightsCarried
  <2>2. Carried(d, v)' \/ index'[d].version >= v
    BY <2>1, CarriedStep
  <2>3. ~(index'[d].version >= v)
    BY EntriesAdvance DEF InFlight
  <2> QED BY <2>2, <2>3
<1>2. ASSUME NEW w \in Workers, FlushRead(w), op'[w][d].kind # "none", op'[w][d].version = v
      PROVE  Carried(d, v)'
  <2>1. op'[w] = Operations(w) /\ msg' = msg
    BY <1>2 DEF FlushRead, VInv, TypeOK
  <2>2. d \in BatchIds(w)
    BY <1>2, <2>1 DEF Operations
  <2>3. PICK m \in MsgIds : msg[m].at = w /\ msg[m].id = d
    BY <2>2 DEF BatchIds, Batch
  <2>4. pc'[w] = "bulk"
    <3>1. Operations(w) # NoOps
      BY <1>2, <2>1 DEF NoOps
    <3> QED BY <1>2, <3>1 DEF FlushRead, VInv, TypeOK
  <2>5. Carries(m, d, v)'
    BY <1>2, <2>1, <2>3, <2>4 DEF Carries
  <2> QED BY <2>5 DEF Carried
<1> QED BY <1>1, <1>2, FlightBegins

-----------------------------------------------------------------------------
\* Bumps.

\* A worker with an answer has every operation of its batch done or failed.
LEMMA AnsweredStep ==
    ASSUME TypeOK, Answered, [Next]_vars
    PROVE  Answered'
<1> SUFFICES ASSUME NEW v \in Workers, pc'[v] \in {"mark", "announce"}
             PROVE  OpDocs(v)' \subseteq done'[v] \cup failed'[v]
  BY DEF Answered
<1>1. CASE pc'[v] = pc[v] /\ op'[v] = op[v] /\ done'[v] = done[v] /\ failed'[v] = failed[v]
  BY <1>1 DEF Answered, OpDocs
<1>2. CASE Flushes(v)
  <2>1. CASE BulkAnswers(v)
    BY <2>1 DEF BulkAnswers, FailedItems, OpDocs, TypeOK
  <2>2. CASE MarkIndexed(v)
    BY <2>2 DEF MarkIndexed, Answered, OpDocs
  <2>3. CASE FlushRead(v) \/ BulkRaises(v) \/ Announce(v) \/ EndFlush(v) \/ Crash(v)
    BY <2>3 DEF FlushRead, BulkRaises, Announce, EndFlush, Crash, TypeOK
  <2> QED BY <1>2, <2>1, <2>2, <2>3 DEF Flushes
<1> QED BY <1>1, <1>2, FlushOrNot, FlushIsLocal

\* A bump becomes owed when an answer or a late item shows or hides an entry.
LEMMA OwedByChange ==
    ASSUME TypeOK, [Next]_vars, NEW d \in Docs, announce[d] # "owed", announce'[d] = "owed"
    PROVE  /\ index'[d].present # index[d].present
           /\ (\E w \in Workers : BulkAnswers(w)) \/ (\E o \in late : LateArrival(o))
<1>1. ASSUME announce' = announce PROVE FALSE
  BY <1>1
<1>2. ASSUME NEW t, InvalidateTenant(t) PROVE FALSE
  BY <1>2 DEF InvalidateTenant, Bumped
<1>3. ASSUME NEW r \in Reqs, NEW e \in Docs, CreateCommit(r, e) \/ DeleteRead(r, e) PROVE FALSE
  BY <1>1, <1>3 DEF CreateCommit, DeleteRead
<1>4. ASSUME NEW r \in Reqs, RequestStep(r) \/ RequestCrash(r) PROVE FALSE
  BY <1>1, <1>2, <1>4 DEF RequestStep, CreatePublish, CreateInvalidate, DeleteCommit, DeleteInvalidate,
                          DeletePublish, RequestCrash
<1>5. ASSUME NEW b \in BadIds, ForeignPublish(b) PROVE FALSE
  BY <1>1, <1>5 DEF ForeignPublish
<1>6. ASSUME NEW w \in Workers, NEW m \in MsgIds,
             Receive(w, m) \/ Discard(w, m) \/ Ack(w, m) \/ Nack(w, m) \/ DeadLetter(w, m)
      PROVE  FALSE
  BY <1>1, <1>6 DEF Receive, Discard, Ack, Nack, DeadLetter
<1>7. ASSUME NEW w \in Workers, FlushRead(w) \/ BulkRaises(w) \/ MarkIndexed(w) \/ EndFlush(w)
                                \/ Crash(w) \/ Disconnect(w)
      PROVE  FALSE
  BY <1>1, <1>7 DEF FlushRead, BulkRaises, MarkIndexed, EndFlush, Crash, Disconnect
<1>8. ASSUME NEW w \in Workers, Announce(w) PROVE FALSE
  BY <1>8 DEF Announce
<1>9. ASSUME NEW w \in Workers, ReconcilerStep(w) PROVE FALSE
  BY <1>1, <1>9 DEF ReconcilerStep, SweepRead, SweepPublish
<1>10. ASSUME NEW m \in MsgIds, RetryExpire(m) PROVE FALSE
  BY <1>1, <1>10 DEF RetryExpire
<1>11. CASE Tick \/ UNCHANGED vars
  BY <1>1, <1>11 DEF Tick, vars
<1>12. (\E w \in Workers : BulkAnswers(w)) \/ (\E o \in late : LateArrival(o))
  BY <1>3, <1>4, <1>5, <1>6, <1>7, <1>8, <1>9, <1>10, <1>11 DEF Next, WorkerStep
<1>13. announce' = Owed(index')
  BY <1>12 DEF BulkAnswers, LateArrival
<1> QED BY <1>12, <1>13 DEF Owed

\* The operation that shows or hides an entry was in flight, so it is carried.
LEMMA ChangeIsCarried ==
    ASSUME VInv, FlightsCarried, NEW d \in Docs, index'[d].present # index[d].present,
           (\E w \in Workers : BulkAnswers(w)) \/ (\E o \in late : LateArrival(o))
    PROVE  \E v \in {1, 2} : Carried(d, v)
<1> USE DEF VInv
<1>1. index[d].version \in Nat
  BY DEF TypeOK
<1>2. ASSUME NEW o, o.kind \in {"index", "delete"}, o.version \in Nat, Sound(d, o),
             index'[d] = ApplyOp(index[d], o)
      PROVE  o.version \in {1, 2} /\ o.version > index[d].version
  <2>1. o.version \in {1, 2}
    BY <1>2 DEF Sound
  <2>2. o.version <= index[d].version => ApplyOp(index[d], o) = index[d]
    BY <1>1, <1>2 DEF ApplyOp
  <2>3. ~(o.version <= index[d].version)
    BY <1>2, <2>2
  <2> QED BY <1>1, <1>2, <2>1, <2>3
<1>3. ASSUME NEW w \in Workers, BulkAnswers(w) PROVE \E v \in {1, 2} : Carried(d, v)
  <2>1. PICK ok \in SUBSET Acceptable(w) : index' = Applied(op[w], ok)
    BY <1>3 DEF BulkAnswers
  <2>2. d \in ok /\ index'[d] = ApplyOp(index[d], op[w][d])
    BY <2>1 DEF Applied
  <2>3. op[w][d].kind \in {"index", "delete"} /\ op[w][d].version \in Nat /\ Sound(d, op[w][d])
    BY <2>2 DEF Acceptable, OpDocs, TypeOK, Operation, Versions, Operational
  <2>4. op[w][d].version \in {1, 2} /\ op[w][d].version > index[d].version
    BY <1>2, <2>2, <2>3
  <2>5. InFlight(d, op[w][d].version)
    BY <1>3, <2>3, <2>4 DEF InFlight, BulkAnswers
  <2> QED BY <2>4, <2>5 DEF FlightsCarried
<1>4. ASSUME NEW o \in late, LateArrival(o) PROVE \E v \in {1, 2} : Carried(d, v)
  <2>1. o.doc = d /\ index'[d] = ApplyOp(index[d], o)
    BY <1>4 DEF LateArrival, TypeOK
  <2>2. o.kind \in {"index", "delete"} /\ o.version \in Nat /\ Sound(d, o)
    BY <2>1 DEF TypeOK, Versions, Operational
  <2>3. o.version \in {1, 2} /\ o.version > index[d].version
    BY <1>2, <2>1, <2>2
  <2>4. InFlight(d, o.version)
    BY <2>1, <2>3 DEF InFlight
  <2> QED BY <2>3, <2>4 DEF FlightsCarried
<1> QED BY <1>3, <1>4

\* While a change is applied, the message that carries it is one that announces
\* it, in the worker that applied it or in any other.
LEMMA CarrierAnnounces ==
    ASSUME VInv, NEW d \in Docs, NEW v \in {1, 2}, Carried(d, v),
           (\E w \in Workers : BulkAnswers(w)) \/ (\E o \in late : LateArrival(o))
    PROVE  d \in dlq' \/ \E m \in MsgIds : Announces(m, d)'
<1> USE DEF VInv
<1>1. msg' = msg /\ dlq' = dlq
  BY DEF BulkAnswers, LateArrival
<1>2. CASE d \in dlq
  BY <1>1, <1>2
<1>3. ASSUME NEW m \in MsgIds, Carries(m, d, v) PROVE Announces(m, d)'
  <2>1. ASSUME msg[m].at \in Workers =>
                 pc'[msg[m].at] = pc[msg[m].at] /\ op'[msg[m].at] = op[msg[m].at]
                   /\ failed'[msg[m].at] = failed[msg[m].at]
        PROVE  Announces(m, d)'
    BY <1>1, <1>3, <2>1 DEF Carries, Announces, Unread, Failing
  <2>2. ASSUME NEW o \in late, LateArrival(o) PROVE Announces(m, d)'
    BY <2>1, <2>2 DEF LateArrival, worker
  <2>3. ASSUME NEW w \in Workers, BulkAnswers(w) PROVE Announces(m, d)'
    <3>1. CASE msg[m].at = w
      <4>1. pc[w] = "bulk" /\ failed[w] = {} /\ pc'[w] = "mark" /\ op' = op
        BY <2>3 DEF BulkAnswers, Fresh, TypeOK
      <4>2. op[w][d].kind # "none"
        BY <1>3, <3>1, <4>1, WorkerAssumption DEF Carries, Unread, Failing, Places
      <4> QED BY <1>1, <1>3, <3>1, <4>1, <4>2 DEF Announces, Carries
    <3>2. CASE msg[m].at # w
      BY <2>1, <2>3, <3>2, FlushIsLocal DEF Flushes
    <3> QED BY <3>1, <3>2
  <2> QED BY <2>2, <2>3
<1> QED BY <1>2, <1>3 DEF Carried

\* A bump that stays owed keeps its message.
LEMMA AnnouncedStep ==
    ASSUME VInv, Answered, [Next]_vars, NEW d \in Docs, row[d].status # "absent",
           announce[d] = "owed", announce'[d] = "owed", NEW m \in MsgIds, Announces(m, d)
    PROVE  d \in dlq' \/ Announces(m, d)'
<1> USE DEF VInv
<1>1. msg[m].id = d /\ Alive(m)
  BY DEF Announces, Alive
<1>2. CASE d \in dlq' \/ (msg'[m].id = msg[m].id /\ Unread(m)')
  BY <1>1, <1>2 DEF Announces
<1>3. CASE msg'[m] = msg[m]
  <2>1. CASE \/ msg[m].at \notin Workers
             \/ msg[m].at \in Workers /\ pc'[msg[m].at] = pc[msg[m].at]
                /\ op'[msg[m].at] = op[msg[m].at] /\ failed'[msg[m].at] = failed[msg[m].at]
    BY <1>3, <2>1 DEF Announces, Unread, Failing
  <2>2. ASSUME NEW w \in Workers, Flushes(w), msg[m].at = w PROVE Announces(m, d)'
    <3>1. CASE FlushRead(w)
      BY <1>1, <1>3, <2>2, <3>1, ReadIsCurrent DEF Announces
    <3>2. CASE BulkAnswers(w)
      <4>1. pc[w] = "bulk" /\ failed[w] = {} /\ pc'[w] = "mark" /\ op' = op
        BY <3>2 DEF BulkAnswers, Fresh, TypeOK
      <4>2. op[w][d].kind # "none"
        BY <2>2, <4>1, WorkerAssumption DEF Announces, Unread, Failing, Places
      <4> QED BY <1>1, <1>3, <2>2, <4>1, <4>2 DEF Announces
    <3>3. CASE BulkRaises(w)
      <4>1. d \in failed'[w]
        BY <1>1, <2>2, <3>3 DEF BulkRaises, FailedOnRaise, BatchIds, Batch, TypeOK
      <4> QED BY <1>1, <1>3, <2>2, <4>1 DEF Announces, Failing
    <3>4. CASE MarkIndexed(w)
      <4>1. pc[w] = "mark" /\ pc'[w] = "announce" /\ op' = op /\ failed' = failed
        BY <3>4 DEF MarkIndexed, TypeOK
      <4> QED BY <1>3, <2>2, <4>1, WorkerAssumption DEF Announces, Unread, Failing, Places
    <3>5. CASE Announce(w)
      <4>1. pc[w] = "announce" /\ failed' = failed
        BY <3>5 DEF Announce
      <4>2. TenantOf[d] \notin ChangedTenants(w)
        BY <3>5 DEF Announce
      <4>3. d \notin done[w]
        BY <4>2 DEF ChangedTenants
      <4>4. d \in failed[w]
        <5>1. op[w][d].kind # "none" \/ d \in failed[w]
          BY <2>2, <4>1, WorkerAssumption DEF Announces, Unread, Failing, Places
        <5> QED BY <4>1, <4>3, <5>1 DEF Answered, OpDocs
      <4> QED BY <1>1, <1>3, <2>2, <4>1, <4>4 DEF Announces, Failing
    <3>6. CASE EndFlush(w)
      BY <2>2, <3>6 DEF EndFlush, Batch
    <3>7. CASE Crash(w)
      <4>1. msg[m] \in Message /\ msg'[m] = [msg[m] EXCEPT !.at = "main"]
        BY <2>2, <3>7 DEF Crash, TypeOK
      <4>2. msg'[m].id = d /\ Unread(m)'
        BY <1>1, <4>1 DEF Message, Unread
      <4> QED BY <4>2 DEF Announces
    <3> QED BY <2>2, <3>1, <3>2, <3>3, <3>4, <3>5, <3>6, <3>7 DEF Flushes
  <2> QED BY <2>1, <2>2, FlushOrNot, FlushIsLocal
<1> QED BY <1>1, <1>2, <1>3, MessageKept DEF Kept

\* A bump that is owed, now or already before, has its message.
LEMMA BumpsOwnedStep ==
    ASSUME Tombstones, OwnerInv, [Next]_vars
    PROVE  BumpsOwned'
<1> USE DEF OwnerInv
<1> SUFFICES ASSUME NEW d \in Docs, announce'[d] = "owed"
             PROVE  /\ d \in dlq' \/ \E m \in MsgIds : Announces(m, d)'
                    /\ index'[d].version # 0
  BY DEF BumpsOwned
<1>1. CASE announce[d] = "owed"
  <2>1. index[d].version # 0 /\ row[d].status # "absent"
    BY <1>1 DEF BumpsOwned, VInv, Versions, Entries
  <2>2. index'[d].version # 0
    BY <2>1, EntriesAdvance
  <2>3. d \in dlq \/ \E m \in MsgIds : Announces(m, d)
    BY <1>1 DEF BumpsOwned
  <2>4. CASE d \in dlq
    BY <2>2, <2>4, FlushOrNot DEF VInv
  <2>5. ASSUME NEW m \in MsgIds, Announces(m, d) PROVE d \in dlq' \/ Announces(m, d)'
    BY <1>1, <2>1, <2>5, AnnouncedStep
  <2> QED BY <2>2, <2>3, <2>4, <2>5
<1>2. CASE announce[d] # "owed"
  <2>1. /\ index'[d].present # index[d].present
        /\ (\E w \in Workers : BulkAnswers(w)) \/ (\E o \in late : LateArrival(o))
    BY <1>2, OwedByChange DEF VInv
  <2>2. index'[d].version # 0
    <3> SUFFICES ASSUME index'[d].version = 0 PROVE FALSE
      OBVIOUS
    <3>1. index[d].version = 0
      BY EntriesAdvance
    <3>2. ~index[d].present /\ ~index'[d].present
      BY <3>1, EntriesAdvance
    <3>3. index[d].present \in BOOLEAN /\ index'[d].present \in BOOLEAN
      BY TypeStep DEF VInv, TypeOK
    <3> QED BY <2>1, <3>2, <3>3, Zenon
  <2>3. d \in dlq' \/ \E m \in MsgIds : Announces(m, d)'
    BY <2>1, ChangeIsCarried, CarrierAnnounces
  <2> QED BY <2>2, <2>3
<1> QED BY <1>1, <1>2

-----------------------------------------------------------------------------
\* In every reachable state each deletion, operation in flight and bump that is
\* still to come has its owner.
THEOREM OwnersHold == ASSUME Tombstones PROVE Spec => []OwnerInv
<1>1. Init => OwnerInv
  <2> SUFFICES ASSUME Init PROVE OwnerInv
    OBVIOUS
  <2>1. VInv
    BY TypeInit, VersionsInit DEF VInv, Init, Fresh
  <2>2. DeletesOwned /\ BumpsOwned /\ Answered
    BY DEF Init, DeletesOwned, BumpsOwned, Answered, NoRow
  <2>3. FlightsCarried
    BY DEF Init, FlightsCarried, InFlight
  <2> QED BY <2>1, <2>2, <2>3 DEF OwnerInv
<1>2. OwnerInv /\ [Next]_vars => OwnerInv'
  <2> SUFFICES ASSUME OwnerInv, [Next]_vars PROVE OwnerInv'
    OBVIOUS
  <2>1. VInv'
    BY TypeStep, FreshStep, VersionsStep DEF VInv, OwnerInv
  <2>2. DeletesOwned' /\ FlightsCarried' /\ BumpsOwned' /\ Answered'
    BY DeletesOwnedStep, FlightsCarriedStep, BumpsOwnedStep, AnsweredStep DEF OwnerInv, VInv
  <2> QED BY <2>1, <2>2 DEF OwnerInv
<1> QED BY <1>1, <1>2, PTL DEF Spec

\* A document that is deleted and still searchable has a request or a message
\* that will remove it, unless its event was lost or dead-lettered, whatever
\* the order of reads, bulk calls, redeliveries, crashes and settlements.
THEOREM DeletedEntryHasOwnerHolds == ASSUME Tombstones PROVE Spec => []DeletedEntryHasOwner
<1>1. OwnerInv => DeletedEntryHasOwner
  <2> SUFFICES ASSUME OwnerInv, NEW d \in Docs, row[d].status = "deleted", index[d].present
               PROVE  \/ d \in lost \cup dlq
                      \/ \E r \in Reqs : Deleting(r, d)
                      \/ \E m \in MsgIds : Removes(m, d)
    BY DEF DeletedEntryHasOwner
  <2>1. index[d].version # 2
    BY DEF OwnerInv, VInv, Versions, Entries
  <2>2. ASSUME NEW m \in MsgIds, Carries(m, d, 2) PROVE Removes(m, d)
    <3>1. CASE Unread(m) \/ Failing(m)
      BY <2>2, <3>1 DEF Carries, Removes
    <3>2. CASE /\ msg[m].at \in Workers
               /\ pc[msg[m].at] = "bulk"
               /\ op[msg[m].at][d].kind # "none"
               /\ op[msg[m].at][d].version >= 2
      <4>1. op[msg[m].at][d] \in Operation /\ Sound(d, op[msg[m].at][d])
        BY <3>2 DEF OwnerInv, VInv, TypeOK, Versions, Operational
      <4>2. op[msg[m].at][d].kind = "delete"
        BY <3>2, <4>1 DEF Sound, Operation
      <4> QED BY <2>2, <3>2, <4>2 DEF Carries, Removes
    <3> QED BY <2>2, <3>1, <3>2 DEF Carries
  <2> QED BY <2>1, <2>2 DEF OwnerInv, DeletesOwned, Carried
<1> QED BY <1>1, OwnersHold, PTL

\* A change of the searchable corpus that the tenant's generation does not
\* cover yet has a message that will try to bump it, even when the change arrives
\* from a call that raised or from a worker that lost its messages.  There are
\* two exceptions: a worker tried, its INCR failed and nobody tries again
\* (_invalidate swallows the error and the message is acknowledged), or the
\* message was dead-lettered.
THEOREM OwedBumpHasOwnerHolds == ASSUME Tombstones PROVE Spec => []OwedBumpHasOwner
<1>1. OwnerInv => OwedBumpHasOwner
  <2> SUFFICES ASSUME OwnerInv, NEW d \in Docs, announce[d] # "done", announce[d] # "skipped"
               PROVE  d \in dlq \/ \E m \in MsgIds : Announces(m, d)
    BY DEF OwedBumpHasOwner
  <2>1. announce[d] = "owed"
    BY DEF OwnerInv, VInv, TypeOK
  <2> QED BY <2>1 DEF OwnerInv, BumpsOwned
<1> QED BY <1>1, OwnersHold, PTL
=============================================================================
