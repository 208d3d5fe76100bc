---------------------------- MODULE DocLifecycle ----------------------------
(***************************************************************************)
(* What the indexing pipeline promises of one document, whatever requests, *)
(* workers, queues and failures do: the life of its row in Postgres and of *)
(* its entry in the search index, and how the two depend on each other.    *)
(*                                                                         *)
(*    row:    absent -> pending -> indexed -> deleted                      *)
(*    entry:  none -> live -> gone                                         *)
(*                                                                         *)
(* An entry goes live only for a stored document and is gone only for a    *)
(* deleted one, a row is confirmed as indexed only while its entry is      *)
(* live, and nothing ever goes back.                                       *)
(***************************************************************************)
CONSTANT Docs

VARIABLES stored, entry

Init ==
    /\ stored = [d \in Docs |-> "absent"]
    /\ entry = [d \in Docs |-> "none"]

Create(d) ==
    /\ stored[d] = "absent"
    /\ stored' = [stored EXCEPT ![d] = "pending"]
    /\ UNCHANGED entry

Delete(d) ==
    /\ stored[d] \notin {"absent", "deleted"}
    /\ stored' = [stored EXCEPT ![d] = "deleted"]
    /\ UNCHANGED entry

\* One UPDATE confirms all the documents of a batch.
Confirm(ds) ==
    /\ \A d \in ds : stored[d] = "pending" /\ entry[d] = "live"
    /\ stored' = [d \in Docs |-> IF d \in ds THEN "indexed" ELSE stored[d]]
    /\ UNCHANGED entry

\* One bulk call shows and hides entries.
Apply(shown, hidden) ==
    /\ \A d \in shown : stored[d] # "absent" /\ entry[d] = "none"
    /\ \A d \in hidden : stored[d] = "deleted" /\ entry[d] # "gone"
    /\ entry' = [d \in Docs |-> CASE d \in hidden -> "gone"
                                  [] d \in shown \ hidden -> "live"
                                  [] OTHER -> entry[d]]
    /\ UNCHANGED stored

Next ==
    \/ \E d \in Docs : Create(d) \/ Delete(d)
    \/ \E ds \in SUBSET Docs : Confirm(ds)
    \/ \E shown \in SUBSET Docs, hidden \in SUBSET Docs : Apply(shown, hidden)

Spec == Init /\ [][Next]_<<stored, entry>>

=============================================================================
