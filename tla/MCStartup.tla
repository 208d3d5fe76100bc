------------------------------ MODULE MCStartup ------------------------------
(***************************************************************************)
(* Instances of Startup for TLC: a rollout that gives one tenant a new key *)
(* and its old key to the other.                                           *)
(***************************************************************************)
EXTENDS Startup

CONSTANTS t1, t2, k1, k2, k3

Old == << [tenant |-> t1, key |-> k1], [tenant |-> t2, key |-> k2] >>
New == << [tenant |-> t1, key |-> k3], [tenant |-> t2, key |-> k1] >>

TwoConfigs == {Old, New}
OldThenNew == <<Old, New>>

=============================================================================
