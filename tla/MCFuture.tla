----------------------------- MODULE MCFuture -----------------------------
(* Instances of Future for TLC: the cfg files give every constant. *)
EXTENDS Future
============================================================================
