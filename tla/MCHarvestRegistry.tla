------------------------- MODULE MCHarvestRegistry -------------------------
(* HarvestRegistry for TLC: identifiers are interchangeable. *)
EXTENDS HarvestRegistry, TLC

Symmetry == Permutations(Ids)
=============================================================================
