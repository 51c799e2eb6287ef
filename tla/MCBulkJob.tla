------------------------------ MODULE MCBulkJob ------------------------------
(* Replicas a and b, requests h and k, for model checking. *)
EXTENDS BulkJob, TLC

CONSTANTS a, b, h, k

MCRunners == {a, b}
OneHandler == {h}
TwoHandlers == {h, k}
Symmetry == Permutations(MCRunners) \cup Permutations(TwoHandlers)
=============================================================================
