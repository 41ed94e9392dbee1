------------------------------ MODULE MCDroneMap -------------------------------
(* DroneMap for TLC: two datasets, one of them a habitat with classes and an  *)
(* ML result; filters and moves list the one, the other or both.              *)
EXTENDS DroneMap, TLC

CONSTANTS d1, d2, p1, p2

MCHasMl == {d1}
MCHabitat == {d1}
MCFilters == {{d1}, {d1, d2}}
MCExtents == {{d2}, {d1, d2}}
Symmetry == Permutations(Places)
=============================================================================
