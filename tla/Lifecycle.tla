----------------------------- MODULE Lifecycle -----------------------------
(***************************************************************************)
(* What Startable promises of a component that serves connections: it is   *)
(* started once and stopped once, serves no connection before it runs, and *)
(* once a Stop has returned it serves none and never will.                 *)
(***************************************************************************)
CONSTANT Conns

VARIABLES
  phase,    (* "ready", "running", "draining" or "stopped". *)
  serving,  (* The connections being served.                *)
  served    (* The connections that were, each only once.   *)

lvars == <<phase, serving, served>>

Init ==
  /\ phase = "ready"
  /\ serving = {}
  /\ served = {}

(* Starting may fail, and is then over. *)
Start ==
  /\ phase = "ready"
  /\ phase' \in {"running", "stopped"}
  /\ UNCHANGED <<serving, served>>

Serve(c) ==
  /\ phase \in {"running", "draining"}
  /\ c \notin serving \cup served
  /\ serving' = serving \cup {c}
  /\ UNCHANGED <<phase, served>>

Finish(c) ==
  /\ c \in serving
  /\ serving' = serving \ {c}
  /\ served' = served \cup {c}
  /\ UNCHANGED phase

StopBegins ==
  /\ phase = "running"
  /\ phase' = "draining"
  /\ UNCHANGED <<serving, served>>

StopReturns ==
  /\ phase = "draining"
  /\ serving = {}
  /\ phase' = "stopped"
  /\ UNCHANGED <<serving, served>>

Next ==
  \/ Start
  \/ StopBegins
  \/ StopReturns
  \/ \E c \in Conns : Serve(c) \/ Finish(c)

Spec == Init /\ [][Next]_lvars
=============================================================================
