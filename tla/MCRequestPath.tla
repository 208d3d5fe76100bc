---------------------------- MODULE MCRequestPath ----------------------------
(***************************************************************************)
(* Instances of RequestPath for TLC.                                       *)
(***************************************************************************)
EXTENDS RequestPath, TLC

CONSTANTS t1, t2, k1, k2, d1, d2, d3, e1

\* One tenant gives its key to the other.
TwoConfigs ==
    {<< [tenant |-> t1, key |-> k1] >>,
     << [tenant |-> t1, key |-> k2], [tenant |-> t2, key |-> k1] >>}

Owner == [d \in Docs |-> IF d = e1 THEN t2 ELSE t1]
Ranked == <<d1, e1, d2, d3>>

Ask(t, p, s) == [kind |-> "search", tenant |-> t, page |-> p, size |-> s]

\* Sizes at and beyond the limit, pages in and beyond the window.
Asked ==
    {[kind |-> "get", doc |-> d1], Ask(t1, 1, 9), Ask(None, 3, 2)}

Symmetry == Permutations(Reqs)

=============================================================================
