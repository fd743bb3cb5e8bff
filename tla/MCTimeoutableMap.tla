------------------------- MODULE MCTimeoutableMap -------------------------
(* Instances of TimeoutableMap for TLC: the cfg files give every constant. *)
EXTENDS TimeoutableMap
=============================================================================
