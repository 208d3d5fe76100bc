------------------------ MODULE MCIndexingPipeline ------------------------
(***************************************************************************)
(* Instances of IndexingPipeline for TLC.                                  *)
(***************************************************************************)
EXTENDS IndexingPipeline, TLC

CONSTANTS d1, d2, t1

OneDoc == {d1}
TwoDocs == {d1, d2}
OneTenant == [d \in Docs |-> t1]

\* Clients that never delete a document the cluster refuses: it stays pending
\* and comes back in every sweep.  No fairness is assumed of clients, so this
\* takes nothing from the other steps.
KeepsRefused == \A r \in Reqs : req'[r].pc = "delete_commit" => req'[r].doc \notin Rejected
CrowdedSpec == Init /\ [][Next /\ KeepsRefused]_vars /\ Fairness

\* Requests, workers and message slots are interchangeable.  Used by runs that
\* check safety only.
Symmetry == Permutations(Reqs) \cup Permutations(Workers) \cup Permutations(MsgIds)

=============================================================================
