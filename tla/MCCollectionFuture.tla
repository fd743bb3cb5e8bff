------------------------ MODULE MCCollectionFuture ------------------------
(* Instances of CollectionFuture for TLC: the cfg files give N, NoError and *)
(* whether members are cancelled.                                          *)
EXTENDS CollectionFuture
=============================================================================
