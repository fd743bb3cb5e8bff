------------------------------ MODULE Promise ------------------------------
(***************************************************************************)
(* What a future promises its users, whoever completes it: it settles at   *)
(* most once, its outcome never changes afterwards, and a listener is told *)
(* only of a settled outcome, and is eventually told of one.               *)
(***************************************************************************)
CONSTANTS
  Outcomes,   (* The ways to settle.                 *)
  Pending,    (* The outcome of an unsettled promise; not in Outcomes. *)
  Listeners   (* Who may ask to be told.             *)

VARIABLES
  outcome,    (* Pending or one of Outcomes.            *)
  waiting,    (* Listeners registered and not told yet. *)
  told        (* Listeners that have been told.         *)

pvars == <<outcome, waiting, told>>

Init ==
  /\ outcome \in Outcomes \cup {Pending}
  /\ waiting = {}
  /\ told = {}

Settle ==
  /\ outcome = Pending
  /\ outcome' \in Outcomes
  /\ UNCHANGED <<waiting, told>>

Register(l) ==
  /\ l \notin waiting \cup told
  /\ waiting' = waiting \cup {l}
  /\ UNCHANGED <<outcome, told>>

Tell(l) ==
  /\ outcome # Pending
  /\ l \in waiting
  /\ waiting' = waiting \ {l}
  /\ told' = told \cup {l}
  /\ UNCHANGED outcome

Next == Settle \/ \E l \in Listeners : Register(l) \/ Tell(l)

Spec == Init /\ [][Next]_pvars

FairSpec == Spec /\ \A l \in Listeners : WF_pvars(Tell(l))
============================================================================
