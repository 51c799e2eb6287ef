---------------------------- MODULE MCLeaseFence ----------------------------
(* Small instances of LeaseFence for TLC. *)
EXTENDS LeaseFence, TLC

CONSTANTS a, b, c

MCInstances == {a, b, c}
Symmetry == Permutations(MCInstances)
=============================================================================
