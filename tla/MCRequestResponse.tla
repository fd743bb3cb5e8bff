------------------------- MODULE MCRequestResponse -------------------------
(* Instances of RequestResponse for TLC. *)
EXTENDS RequestResponse

(* One number, which every request uses again, one for each of two, and    *)
(* the largest number, after which the second request gets a negative one. *)
ShortRanges == {<<1, 1>>, <<1, 2>>, <<MaxInt, MaxInt>>}
============================================================================
