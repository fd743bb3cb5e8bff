----------------------------- MODULE MCServer -----------------------------
(* Instances of Server for TLC: the cfg files give every constant. *)
EXTENDS Server
============================================================================
