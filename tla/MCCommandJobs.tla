---------------------------- MODULE MCCommandJobs ----------------------------
(* CommandJobs for TLC.  Actors are interchangeable, but one of the           *)
(* properties is a liveness property, so no symmetry is declared.             *)
EXTENDS CommandJobs
=============================================================================
