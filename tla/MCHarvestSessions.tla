------------------------- MODULE MCHarvestSessions -------------------------
(* HarvestSessions for TLC: actors and items are interchangeable. *)
EXTENDS HarvestSessions, TLC

Symmetry == Permutations(Actors) \cup Permutations(Items)
=============================================================================
