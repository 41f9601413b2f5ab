---------------------------- MODULE MCScheduler ----------------------------
(* Scheduler for TLC: the instances share this module.                     *)
EXTENDS Scheduler
=============================================================================
