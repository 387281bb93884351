-------------------------- MODULE MCScheduledRounds --------------------------
(* ScheduledRounds for TLC: every constant has its value in the .cfg.        *)
EXTENDS ScheduledRounds
=============================================================================
