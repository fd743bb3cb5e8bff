---------------------------- MODULE MCHeartbeat ----------------------------
(* Instances of Heartbeat for TLC: the orders of handlers, as a cfg file   *)
(* has no sequences.  Users who fail come before, behind and between.      *)
EXTENDS Heartbeat

UsualOrders ==
  { <<"heartbeat", "user">>, <<"user", "enquire">>,
    <<"readTimeout", "user">>, <<"enquire", "readTimeout">>, <<"readTimeout", "heartbeat", "user">> }

=============================================================================
