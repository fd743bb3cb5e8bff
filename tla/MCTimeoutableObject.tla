------------------------ MODULE MCTimeoutableObject ------------------------
(* Instances of TimeoutableObject for TLC: the cfg gives every constant. *)
EXTENDS TimeoutableObject
=============================================================================
