------------------------- MODULE TimeoutableObject -------------------------
(***************************************************************************)
(* util.TimeoutableObject (src/util/timeoutable_object.go): one object     *)
(* under a mutex, with the Timeout (src/util/singleton.go) that takes it   *)
(* out again, and the goroutine of every Timeout that was ever armed.      *)
(*                                                                         *)
(* A section under o.mu is one step, whichever goroutine runs it, and so   *)
(* is one under Timeout.mu.  A value is set once and its Timeout goes by   *)
(* its name.  Contains and Get only read and are left out.                 *)
(***************************************************************************)
EXTENDS Naturals

CONSTANTS Values, NoValue

ASSUME ObjectAssumption == NoValue \notin Values

VARIABLES
  handler,  (* o.handler is set.                                           *)
  value,    (* o.value.                                                    *)
  timeout,  (* o.timeout.                                                  *)
  timer,    (* Where each Timeout and its goroutine are.                   *)
  got,      (* val, the value the callback of each Timeout has taken out.  *)
  fates,    (* History: how often each value was replaced by a Set, given  *)
            (* out by Remove, or taken by a callback.                      *)
  silenced  (* History: the values that were in the object at a Cancel.    *)

ovars == <<handler, value, timeout, timer, got, fates, silenced>>

ObjectInit ==
  /\ handler \in BOOLEAN
  /\ value = NoValue
  /\ timeout = NoValue
  /\ timer = [v \in Values |-> "none"]
  /\ got = [v \in Values |-> NoValue]
  /\ fates = [v \in Values |-> 0]
  /\ silenced = {}

(* A value leaves the object; nothing happens when it holds none. *)
Leaves(v) == fates' = [w \in Values |-> IF w = v THEN fates[w] + 1 ELSE fates[w]]

(* cancel(): the Timeout in the field is cancelled.  One that has passed   *)
(* its check of `cancelled' runs on.                                       *)
Cancelled == [v \in Values |-> IF v = timeout /\ timer[v] = "armed" THEN "cancelled" ELSE timer[v]]

-----------------------------------------------------------------------------
(* SetTimeoutHandler, and SetWithHandler before it sets: without the lock. *)
SetTimeoutHandler ==
  /\ handler' = TRUE
  /\ UNCHANGED <<value, timeout, timer, got, fates, silenced>>

(* SetWithDelay.  Two mutants: one forgets to cancel the old Timeout, one  *)
(* cancels after it has armed the new one.                                 *)
SetKeepsTimer(v) ==
  /\ timer[v] = "none"
  /\ timer' = [timer EXCEPT ![v] = "armed"]
  /\ value' = v
  /\ timeout' = v
  /\ Leaves(value)
  /\ UNCHANGED <<handler, got, silenced>>

SetCancelsLate(v) ==
  /\ timer[v] = "none"
  /\ timer' = [timer EXCEPT ![v] = "cancelled"]
  /\ value' = v
  /\ timeout' = NoValue
  /\ Leaves(value)
  /\ UNCHANGED <<handler, got, silenced>>

SetWithDelay(v) ==
  /\ timer[v] = "none"
  /\ timer' = [Cancelled EXCEPT ![v] = "armed"]
  /\ value' = v
  /\ timeout' = v
  /\ Leaves(value)
  /\ UNCHANGED <<handler, got, silenced>>

(* Cancel: the value stays, with nothing left to take it out in time. *)
ObjectCancel ==
  /\ timeout # NoValue
  /\ timer' = Cancelled
  /\ timeout' = NoValue
  /\ silenced' = silenced \cup {value}
  /\ UNCHANGED <<handler, value, got, fates>>

(* Remove.  A mutant leaves the value in the object. *)
RemoveKeeps ==
  /\ timer' = Cancelled
  /\ timeout' = NoValue
  /\ Leaves(value)
  /\ UNCHANGED <<handler, value, got, silenced>>

Remove ==
  /\ timer' = Cancelled
  /\ timeout' = NoValue
  /\ value' = NoValue
  /\ Leaves(value)
  /\ UNCHANGED <<handler, got, silenced>>

-----------------------------------------------------------------------------
(* The goroutine of time.AfterFunc finds its Timeout not cancelled. *)
RunsOut(v) ==
  /\ timer[v] = "armed"
  /\ timer' = [timer EXCEPT ![v] = "waiting"]
  /\ UNCHANGED <<handler, value, timeout, got, fates, silenced>>

(* The callback has the lock: it takes out whatever is in the object, and  *)
(* drops it when there is no handler.                                      *)
TakeOut(v) ==
  /\ timer[v] = "waiting"
  /\ timer' = [timer EXCEPT ![v] = IF handler /\ value # NoValue THEN "calling" ELSE "done"]
  /\ got' = [got EXCEPT ![v] = value]
  /\ value' = NoValue
  /\ timeout' = NoValue
  /\ Leaves(value)
  /\ UNCHANGED <<handler, silenced>>

(* The call of the handler, outside the lock. *)
Handle(v) ==
  /\ timer[v] = "calling"
  /\ timer' = [timer EXCEPT ![v] = "handled"]
  /\ UNCHANGED <<handler, value, timeout, got, fates, silenced>>

Timeout(v) == RunsOut(v) \/ TakeOut(v) \/ Handle(v)

ObjectNext ==
  \/ SetTimeoutHandler \/ ObjectCancel \/ Remove
  \/ \E v \in Values : SetWithDelay(v) \/ Timeout(v)

ObjectSpec == ObjectInit /\ [][ObjectNext]_ovars

(* Timers run out and their goroutines are scheduled. *)
ObjectFairSpec == ObjectSpec /\ \A v \in Values : WF_ovars(Timeout(v))

-----------------------------------------------------------------------------
ObjectTypeOK ==
  /\ handler \in BOOLEAN
  /\ value \in Values \cup {NoValue}
  /\ timeout \in Values \cup {NoValue}
  /\ timer \in [Values -> {"none", "armed", "cancelled", "waiting", "calling", "handled", "done"}]
  /\ got \in [Values -> Values \cup {NoValue}]
  /\ fates \in [Values -> Nat]
  /\ silenced \subseteq Values

(* However Set, Remove and the callbacks of old and new Timeouts race, a   *)
(* value leaves the object in one way only: what Remove returned or a Set  *)
(* replaced is not handed to the handler too, nor is one value handed to   *)
(* the handler twice, although a callback takes out whatever it finds.     *)
OneFate ==
  /\ \A v \in Values : fates[v] <= 1
  /\ value # NoValue => fates[value] = 0
  /\ \A v, w \in Values :
       timer[v] \in {"calling", "handled"} /\ got[v] = got[w] => v = w

(* Once a Set has replaced a value, or a Remove or a Cancel has returned,  *)
(* the timeout of that value can no longer begin.  What keeps a timeout    *)
(* alive beyond its value is the callback of an older one that was already *)
(* waiting for the lock: it takes the newer value out before its time and  *)
(* leaves its timeout where no one can cancel it.                          *)
OnlyTheCurrentTimesOut ==
  \A v \in Values : timer[v] = "armed" =>
    \/ value = v /\ timeout = v
    \/ \E u \in Values \ {v} : got[u] = v

(* A value that is set does not stay for ever: it is replaced, removed or  *)
(* timed out, unless a Cancel has taken its timeout from it.               *)
EveryValueEnds ==
  \A v \in Values : value = v ~> (value # v \/ v \in silenced)
=============================================================================
