---------------------------- MODULE MCSchedules ----------------------------
(* Schedules of each kind over a short clock (Schedules_fire.cfg).            *)
EXTENDS Schedules, TLC
=============================================================================
