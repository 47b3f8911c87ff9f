----------------------------- MODULE MCSchedules ----------------------------
(* Instances of Schedules for TLC.                                         *)
EXTENDS Schedules

ThreeJobs == 1..3
=============================================================================
