---------------------------- MODULE MCRunnable ----------------------------
(* Instances of Runnable for TLC: the cfg gives its constant. *)
EXTENDS Runnable
=============================================================================
