--------------------------- MODULE MCLeasedEngine ---------------------------
(* Two replicas of an engine for TLC. *)
EXTENDS LeasedEngine, TLC

CONSTANTS a, b

MCInstances == {a, b}
\* Stats: one batch of two chunks.  Errsig: the two feeders.  Hygiene: two reports.
MCBatchesOf == [e \in Engines |-> IF e = "stats" THEN 1 ELSE 2]
MCChunksOf == [e \in Engines |-> IF e = "stats" THEN 2 ELSE 1]
\* The sweeper alone meets an error outside a Stop.
MCFaultsOf == [e \in Engines |-> IF e = "stats" THEN 1 ELSE 0]
\* Enough to have a work loop that may stand down.
MCOne == [e \in Engines |-> 1]
Symmetry == Permutations(MCInstances)
=============================================================================
