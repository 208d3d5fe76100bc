---------------------------- MODULE MCSearchCache ----------------------------
(***************************************************************************)
(* Instances of SearchCache for TLC.                                       *)
(***************************************************************************)
EXTENDS SearchCache

CONSTANTS s1, s2, s3, r1, r2

\* Two searches in one process and one in another.
TwoAndOne == [s \in Searches |-> IF s = s3 THEN r2 ELSE r1]

=============================================================================
