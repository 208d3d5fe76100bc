------------------------- MODULE DocumentCacheProofs -------------------------
(***************************************************************************)
(* Proofs about the document cache: type correctness, and that a deleted   *)
(* document is found in the cache only in one of the two excused ways, for *)
(* any number of concurrent GETs and DELETEs and whichever calls to Redis  *)
(* fail.                                                                   *)
(***************************************************************************)
EXTENDS DocumentCache, TLAPS

\* A DELETE that has committed leaves a deleted row behind, and rows are not
\* undeleted.
CommittedIsDeleted ==
    \A d \in Deleters : deleter[d] \in {"drop", "done"} => row = "deleted"

\* A GET that is marked as settled began after a DELETE was answered.
SettledIsAnswered == \A r \in Readers : reader[r].settled => DeleteAnswered

\* Unless excused, a GET that began after that never gets as far as a payload.
SettledFindsNothing ==
    excused = {} => \A r \in Readers : reader[r].settled => reader[r].pc \notin {"store", "found"}

AnsweredIsDropped == excused = {} => (DeleteAnswered => cache = None)

CacheInv ==
    /\ TypeOK
    /\ CommittedIsDeleted
    /\ SettledIsAnswered
    /\ SettledFindsNothing
    /\ AnsweredIsDropped

-----------------------------------------------------------------------------
\* No entry, no request: the base of the induction.
LEMMA CacheInit == Init => CacheInv
  BY CacheAssumption DEF Init, CacheInv, TypeOK, Status, NoGet, CommittedIsDeleted,
     SettledIsAnswered, SettledFindsNothing, AnsweredIsDropped, DeleteAnswered

\* An answered DELETE means a deleted row.
LEMMA AnsweredMeansDeleted == CommittedIsDeleted /\ DeleteAnswered => row = "deleted"
  BY DEF CommittedIsDeleted, DeleteAnswered

\* Every step of a GET, a DELETE or Redis keeps the types.
LEMMA TypeStep == TypeOK /\ [Next]_vars => TypeOK'
<1> SUFFICES ASSUME TypeOK, [Next]_vars PROVE TypeOK'
  OBVIOUS
<1> USE CacheAssumption DEF TypeOK, Status
<1>1. ASSUME NEW r \in Readers, Hit(r) PROVE TypeOK'
  <2>1. DeleteAnswered \in BOOLEAN
    BY DEF DeleteAnswered
  <2>. QED BY <1>1, <2>1 DEF Hit
<1>2. ASSUME NEW r \in Readers, Miss(r) PROVE TypeOK'
  <2>1. DeleteAnswered \in BOOLEAN
    BY DEF DeleteAnswered
  <2>. QED BY <1>2, <2>1 DEF Miss
<1>3. ASSUME NEW r \in Readers, ReadRow(r) PROVE TypeOK'
  BY <1>3 DEF ReadRow
<1>4. ASSUME NEW r \in Readers, StoreEntry(r) PROVE TypeOK'
  BY <1>4 DEF StoreEntry
<1>5. ASSUME NEW r \in Readers, Again(r) PROVE TypeOK'
  BY <1>5 DEF Again, NoGet
<1>6. ASSUME NEW d \in Deleters, DeleteRead(d) PROVE TypeOK'
  BY <1>6 DEF DeleteRead
<1>7. ASSUME NEW d \in Deleters, DeleteCommit(d) PROVE TypeOK'
  BY <1>7 DEF DeleteCommit
<1>8. ASSUME NEW d \in Deleters, DeleteDrop(d) PROVE TypeOK'
  BY <1>8 DEF DeleteDrop
<1>9. CASE MarkIndexed
  BY <1>9 DEF MarkIndexed
<1>10. CASE Expire
  BY <1>10 DEF Expire
<1>11. CASE UNCHANGED vars
  BY <1>11 DEF vars
<1>. QED
  BY <1>1, <1>2, <1>3, <1>4, <1>5, <1>6, <1>7, <1>8, <1>9, <1>10, <1>11
     DEF Next, GetStep, DeleteStep

\* One step per action, and under it one per part that the action can disturb.
LEMMA CacheStep == CacheInv /\ [Next]_vars => CacheInv'
<1> SUFFICES ASSUME CacheInv, [Next]_vars PROVE CacheInv'
  OBVIOUS
<1> USE DEF CacheInv
<1>0. TypeOK'
  BY TypeStep
<1>1. ASSUME NEW r \in Readers, Hit(r) PROVE CacheInv'
  <2>1. DeleteAnswered' = DeleteAnswered
    BY <1>1 DEF Hit, DeleteAnswered
  <2>2. \A q \in Readers : reader'[q] = IF q = r
            THEN [pc |-> "found", payload |-> cache, settled |-> DeleteAnswered] ELSE reader[q]
    BY <1>1 DEF Hit, TypeOK
  <2>3. SettledIsAnswered' /\ SettledFindsNothing'
    BY <1>1, <2>1, <2>2 DEF Hit, SettledIsAnswered, SettledFindsNothing, AnsweredIsDropped
  <2>. QED BY <1>0, <1>1, <2>1, <2>3 DEF Hit, CommittedIsDeleted, AnsweredIsDropped
<1>2. ASSUME NEW r \in Readers, Miss(r) PROVE CacheInv'
  <2>1. DeleteAnswered' = DeleteAnswered
    BY <1>2 DEF Miss, DeleteAnswered
  <2>2. \A q \in Readers : reader'[q] = IF q = r
            THEN [pc |-> "read", payload |-> None, settled |-> DeleteAnswered] ELSE reader[q]
    BY <1>2 DEF Miss, TypeOK
  <2>3. SettledIsAnswered' /\ SettledFindsNothing'
    BY <1>2, <2>1, <2>2 DEF Miss, SettledIsAnswered, SettledFindsNothing
  <2>. QED BY <1>0, <1>2, <2>1, <2>3 DEF Miss, CommittedIsDeleted, AnsweredIsDropped
\* A GET that is settled reads a deleted row, and so never comes to a store.
<1>3. ASSUME NEW r \in Readers, ReadRow(r) PROVE CacheInv'
  <2>1. DeleteAnswered' = DeleteAnswered
    BY <1>3 DEF ReadRow, DeleteAnswered
  <2>2. /\ \A q \in Readers : reader'[q].settled = reader[q].settled
        /\ \A q \in Readers : q # r => reader'[q].pc = reader[q].pc
        /\ row = "deleted" => reader'[r].pc = "not_found"
    BY <1>3 DEF ReadRow, TypeOK
  <2>3. reader[r].settled => row = "deleted"
    BY AnsweredMeansDeleted DEF SettledIsAnswered
  <2>4. SettledIsAnswered' /\ SettledFindsNothing'
    BY <1>3, <2>1, <2>2, <2>3 DEF ReadRow, SettledIsAnswered, SettledFindsNothing
  <2>. QED BY <1>0, <1>3, <2>1, <2>4 DEF ReadRow, CommittedIsDeleted, AnsweredIsDropped
\* Before the commit a store is allowed, after it it is excused.
<1>4. ASSUME NEW r \in Readers, StoreEntry(r) PROVE CacheInv'
  <2>1. DeleteAnswered' = DeleteAnswered
    BY <1>4 DEF StoreEntry, DeleteAnswered
  <2>2. /\ \A q \in Readers : reader'[q].settled = reader[q].settled
        /\ \A q \in Readers : q # r => reader'[q].pc = reader[q].pc
    BY <1>4 DEF StoreEntry, TypeOK
  <2>3. excused' = {} => excused = {} /\ (DeleteAnswered => cache' = cache)
    BY <1>4, AnsweredMeansDeleted DEF StoreEntry
  <2>4. SettledIsAnswered' /\ SettledFindsNothing'
    BY <1>4, <2>1, <2>2, <2>3 DEF StoreEntry, SettledIsAnswered, SettledFindsNothing
  <2>. QED BY <1>0, <1>4, <2>1, <2>3, <2>4 DEF StoreEntry, CommittedIsDeleted, AnsweredIsDropped
<1>5. ASSUME NEW r \in Readers, Again(r) PROVE CacheInv'
  <2>1. DeleteAnswered' = DeleteAnswered
    BY <1>5 DEF Again, DeleteAnswered
  <2>2. \A q \in Readers : reader'[q] = IF q = r THEN NoGet ELSE reader[q]
    BY <1>5 DEF Again, TypeOK
  <2>3. SettledIsAnswered' /\ SettledFindsNothing'
    BY <1>5, <2>1, <2>2 DEF Again, NoGet, SettledIsAnswered, SettledFindsNothing
  <2>. QED BY <1>0, <1>5, <2>1, <2>3 DEF Again, CommittedIsDeleted, AnsweredIsDropped
<1>6. ASSUME NEW d \in Deleters, DeleteRead(d) PROVE CacheInv'
  <2>1. \A x \in Deleters : deleter'[x] \in {"drop", "done"} => deleter'[x] = deleter[x]
    BY <1>6 DEF DeleteRead, TypeOK
  <2>2. \A x \in Deleters : deleter[x] = "done" => deleter'[x] = "done"
    BY <1>6 DEF DeleteRead, TypeOK
  <2>3. DeleteAnswered' = DeleteAnswered
    BY <2>1, <2>2 DEF DeleteAnswered
  <2>4. CommittedIsDeleted'
    BY <1>6, <2>1 DEF DeleteRead, CommittedIsDeleted
  <2>. QED BY <1>0, <1>6, <2>3, <2>4
         DEF DeleteRead, SettledIsAnswered, SettledFindsNothing, AnsweredIsDropped
<1>7. ASSUME NEW d \in Deleters, DeleteCommit(d) PROVE CacheInv'
  <2>1. \A x \in Deleters : deleter'[x] = "done" <=> deleter[x] = "done"
    BY <1>7 DEF DeleteCommit, TypeOK
  <2>2. DeleteAnswered' = DeleteAnswered
    BY <2>1 DEF DeleteAnswered
  <2>. QED BY <1>0, <1>7, <2>2 DEF DeleteCommit, CommittedIsDeleted,
         SettledIsAnswered, SettledFindsNothing, AnsweredIsDropped
<1>8. ASSUME NEW d \in Deleters, DeleteDrop(d) PROVE CacheInv'
  <2>1. /\ \A x \in Deleters : x # d => deleter'[x] = deleter[x]
        /\ deleter'[d] = "done" /\ row = "deleted"
    BY <1>8 DEF DeleteDrop, TypeOK, CommittedIsDeleted
  <2>2. DeleteAnswered'
    BY <2>1 DEF DeleteAnswered
  <2>3. excused' = {} => excused = {} /\ cache' = None
    BY <1>8 DEF DeleteDrop
  <2>. QED BY <1>0, <1>8, <2>1, <2>2, <2>3 DEF DeleteDrop, CommittedIsDeleted,
         SettledIsAnswered, SettledFindsNothing, AnsweredIsDropped
<1>9. CASE MarkIndexed \/ Expire \/ UNCHANGED vars
  <2>1. DeleteAnswered' = DeleteAnswered
    BY <1>9 DEF MarkIndexed, Expire, vars, DeleteAnswered
  <2>2. /\ reader' = reader /\ deleter' = deleter /\ excused' = excused
        /\ cache' \in {cache, None} /\ (row = "deleted" => row' = "deleted")
    BY <1>9 DEF MarkIndexed, Expire, vars
  <2>. QED BY <1>0, <2>1, <2>2 DEF CommittedIsDeleted,
         SettledIsAnswered, SettledFindsNothing, AnsweredIsDropped
<1>. QED
  BY <1>1, <1>2, <1>3, <1>4, <1>5, <1>6, <1>7, <1>8, <1>9 DEF Next, GetStep, DeleteStep

-----------------------------------------------------------------------------
\* The states of the row, the entry, the GETs and the DELETEs are well typed:
\* in particular no payload of a deleted row is ever read or stored.
THEOREM CacheTypeCorrect == Spec => []TypeOK
<1>1. Init => TypeOK
  BY CacheInit DEF CacheInv
<1>. QED BY <1>1, TypeStep, PTL DEF Spec

\* After an answered DELETE the document is in the cache, or found there, only
\* when a slower GET stored it late or Redis refused the drop.
THEOREM DeletedEntryIsExcusedHolds == Spec => []DeletedEntryIsExcused
<1>1. CacheInv => DeletedEntryIsExcused
  BY DEF CacheInv, DeletedEntryIsExcused, SettledFindsNothing, AnsweredIsDropped
<1>. QED BY <1>1, CacheInit, CacheStep, PTL DEF Spec

=============================================================================
