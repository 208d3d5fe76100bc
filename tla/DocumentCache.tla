---------------------------- MODULE DocumentCache ----------------------------
(***************************************************************************)
(* The cache of one document (services/document_service.py, clients/       *)
(* cache.py): GET /documents/{id} is cache-aside, DELETE commits the soft  *)
(* delete and then drops the entry, and the indexing worker confirms the   *)
(* row without touching the cache.  The cache is fail-open: a Redis error  *)
(* is a miss, a store or a drop that did not happen.                       *)
(*                                                                         *)
(* The payload of an entry is the status of the row it was made from; the  *)
(* rest of a document never changes.                                       *)
(***************************************************************************)
EXTENDS Naturals

CONSTANTS
    Readers,    \* concurrent GET requests
    Deleters,   \* concurrent DELETE requests
    None,       \* no entry, no payload
    CanFail     \* the calls to Redis that may fail

Status == {"pending", "indexed", "deleted"}

ASSUME CacheAssumption ==
    /\ None \notin Status
    /\ CanFail \subseteq {"get", "set", "delete"}

VARIABLES
    row,      \* Postgres: the status of the document
    cache,    \* Redis: t:{tenant}:doc:{id}
    reader,   \* per GET: its progress and the payload it read or answers with
    deleter,  \* per DELETE: its progress
    excused   \* history: the ways a deleted document came to stay in the cache

vars == <<row, cache, reader, deleter, excused>>

\* settled is history: had a delete been answered when the GET looked up?
NoGet == [pc |-> "idle", payload |-> None, settled |-> FALSE]

TypeOK ==
    /\ row \in Status
    /\ cache \in {None, "pending", "indexed"}
    /\ reader \in [Readers ->
          [pc : {"idle", "read", "store", "found", "not_found"},
           payload : {None, "pending", "indexed"}, settled : BOOLEAN]]
    /\ deleter \in [Deleters -> {"idle", "commit", "drop", "done", "not_found"}]
    /\ excused \subseteq {"overtaken", "not_dropped"}

Init ==
    /\ row = "pending"
    /\ cache = None
    /\ reader = [r \in Readers |-> NoGet]
    /\ deleter = [d \in Deleters |-> "idle"]
    /\ excused = {}

May(kind) == kind \in CanFail
DeleteAnswered == \E d \in Deleters : deleter[d] = "done"

-----------------------------------------------------------------------------
\* GET: look up, read the row, store.

Hit(r) ==
    /\ reader[r].pc = "idle"
    /\ cache # None
    /\ reader' = [reader EXCEPT ![r] =
          [pc |-> "found", payload |-> cache, settled |-> DeleteAnswered]]
    /\ UNCHANGED <<row, cache, deleter, excused>>

Miss(r) ==
    /\ reader[r].pc = "idle"
    /\ cache = None \/ May("get")
    /\ reader' = [reader EXCEPT ![r] =
          [pc |-> "read", payload |-> None, settled |-> DeleteAnswered]]
    /\ UNCHANGED <<row, cache, deleter, excused>>

\* Variant: deleted rows are read like any other.
ReadRowAnyStatus(r) ==
    /\ reader[r].pc = "read"
    /\ reader' = [reader EXCEPT ![r] =
          [pc |-> "store", payload |-> row, settled |-> reader[r].settled]]
    /\ UNCHANGED <<row, cache, deleter, excused>>

\* repository.get leaves out deleted rows.
ReadRow(r) ==
    /\ reader[r].pc = "read"
    /\ reader' = [reader EXCEPT ![r] =
          IF row = "deleted"
          THEN [pc |-> "not_found", payload |-> None, settled |-> reader[r].settled]
          ELSE [pc |-> "store", payload |-> row, settled |-> reader[r].settled]]
    /\ UNCHANGED <<row, cache, deleter, excused>>

StoreEntry(r) ==
    /\ reader[r].pc = "store"
    /\ \/ /\ cache' = reader[r].payload
          /\ excused' = IF row = "deleted" THEN excused \cup {"overtaken"} ELSE excused
       \/ May("set") /\ UNCHANGED <<cache, excused>>
    /\ reader' = [reader EXCEPT ![r].pc = "found"]
    /\ UNCHANGED <<row, deleter>>

\* The client asks again.
Again(r) ==
    /\ reader[r].pc \in {"found", "not_found"}
    /\ reader' = [reader EXCEPT ![r] = NoGet]
    /\ UNCHANGED <<row, cache, deleter, excused>>

-----------------------------------------------------------------------------
\* DELETE: read the row, soft-delete and commit, drop the entry.

DeleteRead(d) ==
    /\ deleter[d] = "idle"
    /\ deleter' = [deleter EXCEPT ![d] = IF row = "deleted" THEN "not_found" ELSE "commit"]
    /\ UNCHANGED <<row, cache, reader, excused>>

DeleteCommit(d) ==
    /\ deleter[d] = "commit"
    /\ row' = "deleted"
    /\ deleter' = [deleter EXCEPT ![d] = "drop"]
    /\ UNCHANGED <<cache, reader, excused>>

\* Variant: the entry is left to its TTL.
DeleteDropNothing(d) ==
    /\ deleter[d] = "drop"
    /\ deleter' = [deleter EXCEPT ![d] = "done"]
    /\ UNCHANGED <<row, cache, reader, excused>>

DeleteDrop(d) ==
    /\ deleter[d] = "drop"
    /\ \/ cache' = None /\ UNCHANGED excused
       \/ May("delete") /\ excused' = excused \cup {"not_dropped"} /\ UNCHANGED cache
    /\ deleter' = [deleter EXCEPT ![d] = "done"]
    /\ UNCHANGED <<row, reader>>

\* mark_indexed of the worker, which leaves the cache alone.
MarkIndexed ==
    /\ row = "pending"
    /\ row' = "indexed"
    /\ UNCHANGED <<cache, reader, deleter, excused>>

\* The TTL of the entry ends, or Redis evicts it.
Expire ==
    /\ cache # None
    /\ cache' = None
    /\ UNCHANGED <<row, reader, deleter, excused>>

-----------------------------------------------------------------------------
GetStep(r) == ReadRow(r) \/ StoreEntry(r)
DeleteStep(d) == DeleteCommit(d) \/ DeleteDrop(d)

Next ==
    \/ \E r \in Readers : Hit(r) \/ Miss(r) \/ GetStep(r) \/ Again(r)
    \/ \E d \in Deleters : DeleteRead(d) \/ DeleteStep(d)
    \/ MarkIndexed
    \/ Expire

Spec == Init /\ [][Next]_vars

\* Requests that have begun go on, and an entry meets the end of its TTL.
Fairness ==
    /\ \A r \in Readers : WF_vars(GetStep(r))
    /\ \A d \in Deleters : WF_vars(DeleteStep(d))
    /\ WF_vars(Expire)

FairSpec == Spec /\ Fairness

-----------------------------------------------------------------------------
\* After a DELETE was answered the cache holds the document, and a GET that
\* begins then finds it, only if a GET that had read the row before the commit
\* stored it afterwards, or Redis refused the drop: dropping after the commit
\* leaves no other way.
DeletedEntryIsExcused ==
    excused = {} =>
        /\ DeleteAnswered => cache = None
        /\ \A r \in Readers : reader[r].settled => reader[r].pc # "found"

\* However it got there, a deleted document leaves the cache for good, and the
\* answers of GET with it.
DeletedLeavesCache == row = "deleted" ~> [](cache = None)

=============================================================================
