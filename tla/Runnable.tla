------------------------------ MODULE Runnable ------------------------------
(***************************************************************************)
(* util.AbstractRunnable (src/util/runnable.go) on AbstractStartable       *)
(* (src/util/startable.go): the goroutine that calls Running until stopCh  *)
(* is closed, a Running that asks IsRunning as long as it works, and       *)
(* goroutines that call Stop, which holds the lifecycle lock while         *)
(* tearDown waits for doneCh.                                              *)
(***************************************************************************)

CONSTANT Stoppers  (* Goroutines that call Stop. *)

VARIABLES
  state,    (* AbstractStartable.state.                                    *)
  stopped,  (* stopCh is closed.                                           *)
  done,     (* doneCh is closed.                                           *)
  pc,       (* Where run is: "none", "looping", "running" (in Running),    *)
            (* "asking" (in State, called by IsRunning), "ended".          *)
  down      (* Where each Stop is; the lock is held from "locked" on.      *)

vars == <<state, stopped, done, pc, down>>

Init ==
  /\ state = "READY"
  /\ stopped = FALSE
  /\ done = FALSE
  /\ pc = "none"
  /\ down = [s \in Stoppers |-> "none"]

Unlocked == \A s \in Stoppers : down[s] \notin {"locked", "waiting"}

-----------------------------------------------------------------------------
(* Start, with setUp: the goroutine is started under the lock. *)
Start ==
  /\ Unlocked
  /\ state = "READY"
  /\ state' = "RUNNING"
  /\ pc' = "looping"
  /\ UNCHANGED <<stopped, done, down>>

(* The select of run, and the deferred close of doneCh. *)
Look ==
  /\ pc = "looping"
  /\ pc' = IF stopped THEN "ended" ELSE "running"
  /\ done' = stopped
  /\ UNCHANGED <<state, stopped, down>>

(* IsRunning: the select on stopCh, and State, which takes the read lock.  *)
IsRunning ==
  /\ pc = "running"
  /\ ~stopped
  /\ pc' = "asking"
  /\ UNCHANGED <<state, stopped, done, down>>

StateReturns ==
  /\ pc = "asking"
  /\ Unlocked
  /\ pc' = "running"
  /\ UNCHANGED <<state, stopped, done, down>>

(* Running returns; an error is only logged. *)
RunningReturns ==
  /\ pc = "running"
  /\ pc' = "looping"
  /\ UNCHANGED <<state, stopped, done, down>>

-----------------------------------------------------------------------------
Stop(s) ==
  /\ down[s] = "none"
  /\ Unlocked
  /\ IF state = "RUNNING"
     THEN state' = "TERMINATED" /\ down' = [down EXCEPT ![s] = "locked"]
     ELSE UNCHANGED state /\ down' = [down EXCEPT ![s] = "returned"]
  /\ UNCHANGED <<stopped, done, pc>>

(* tearDown: close(stopCh), <-doneCh. *)
CloseStop(s) ==
  /\ down[s] = "locked"
  /\ stopped' = TRUE
  /\ down' = [down EXCEPT ![s] = "waiting"]
  /\ UNCHANGED <<state, done, pc>>

SeeDone(s) ==
  /\ down[s] = "waiting"
  /\ done
  /\ down' = [down EXCEPT ![s] = "returned"]
  /\ UNCHANGED <<state, stopped, done, pc>>

-----------------------------------------------------------------------------
Run == Look \/ IsRunning \/ StateReturns \/ RunningReturns

Next == Start \/ Run \/ \E s \in Stoppers : Stop(s) \/ CloseStop(s) \/ SeeDone(s)

Spec == Init /\ [][Next]_vars

(* Goroutines are scheduled, and a Running that is not kept waiting        *)
(* returns, however often it asks before.                                  *)
FairSpec ==
  /\ Spec
  /\ WF_vars(Run)
  /\ SF_vars(RunningReturns)
  /\ \A s \in Stoppers : WF_vars(CloseStop(s) \/ SeeDone(s))

-----------------------------------------------------------------------------
TypeOK ==
  /\ state \in {"READY", "RUNNING", "TERMINATED"}
  /\ stopped \in BOOLEAN
  /\ done \in BOOLEAN
  /\ pc \in {"none", "looping", "running", "asking", "ended"}
  /\ down \in [Stoppers -> {"none", "locked", "waiting", "returned"}]

(* "Stop stops the execution": a Stop that has begun returns.  But State,  *)
(* called by a Running that found stopCh open, waits for the lock that     *)
(* Stop holds while it waits for Running.                                  *)
StopReturns ==
  \A s \in Stoppers : down[s] = "locked" ~> down[s] = "returned"
=============================================================================
