---------------------------- MODULE MCDatasetReplace ----------------------------
(* DatasetReplace for TLC: the dataset roads, and files called roads.v2, whose *)
(* selector is roads too.                                                      *)
EXTENDS DatasetReplace

CONSTANTS roads, roads_v2

MCSafe == [n \in Names |-> roads]
=============================================================================
