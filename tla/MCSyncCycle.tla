---------------------------- MODULE MCSyncCycle ----------------------------
(* SyncCycle for TLC.                                                      *)
EXTENDS SyncCycle

\* Two goroutines that are cancelled, and their successor.
MCWorkers == 1..3
=============================================================================
