------------------------ MODULE MCScheduledExecutor ------------------------
(* Instances of ScheduledExecutor for TLC: the cfg gives every constant. *)
EXTENDS ScheduledExecutor
=============================================================================
