----------------------------- MODULE MCClient -----------------------------
(* Instances of Client for TLC: the cfg files give the other constants. *)
EXTENDS Client

(* -1 stands for "try for ever". *)
NeverAgainOrOnceOrForEver == {-1, 0, 1}
============================================================================
