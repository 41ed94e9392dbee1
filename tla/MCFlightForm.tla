------------------------------ MODULE MCFlightForm -----------------------------
(* FlightForm for TLC: the one file is the configuration of a mission, which   *)
(* an upload without it empties.                                               *)
EXTENDS FlightForm

CONSTANTS config
=============================================================================
