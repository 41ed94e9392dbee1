----------------------------- MODULE MCLayerSync -----------------------------
(* LayerSync for TLC: entries are interchangeable. *)
EXTENDS LayerSync, TLC

Symmetry == Permutations(Entries)
=============================================================================
