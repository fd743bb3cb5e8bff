-------------------------- MODULE TimeoutableMap --------------------------
(***************************************************************************)
(* util.TimeoutableMap (src/util/timeoutable.go) with the timers of        *)
(* src/util/singleton.go: goroutines that put, remove, cancel and clear,   *)
(* and one timer goroutine per entry, over one sync.Map.                   *)
(*                                                                         *)
(* One sync.Map operation (Swap, LoadOrStore, LoadAndDelete, Load, Delete, *)
(* one visit of Range) is one step, and so is one section under            *)
(* Timeout.mu.  The check of entry.task for nil and the call on it are two *)
(* steps, as the code reads the field twice.  Reads that change nothing    *)
(* (Get, ContainsKey, Size, a Remove of an absent key) are left out.       *)
(***************************************************************************)
EXTENDS Naturals

CONSTANTS
  Keys,
  Entries,    (* The entries ever created, each by one Put or PutIfAbsent. *)
  Timed,      (* Those put with a timeout > 0.                             *)
  Procs,      (* The goroutines that call the map.                         *)
  NoEntry, NoKey

Methods == {"Put", "PutIfAbsent", "Remove", "Cancel", "Clear"}

ASSUME MapAssumption ==
  /\ Timed \subseteq Entries
  /\ NoEntry \notin Entries
  /\ NoKey \notin Keys

VARIABLES
  items,      (* The sync.Map.                                             *)
  keyOf,      (* The key an entry was put under; NoKey before.             *)
  via,        (* The method it was put with.                               *)
  task,       (* The entries whose task field is not nil.                  *)
  timer,      (* Where the timer goroutine of each entry is.               *)
  cancelled,  (* The entries whose Timeout is cancelled.                   *)
  handled,    (* The entries the timeout handler was called with.          *)
  given,      (* How often an entry was returned by Remove or as the       *)
              (* previous value of a Put.                                  *)
  returned,   (* The entries a Remove or a Put has returned.               *)
  silenced,   (* The entries cancelled by Cancel or Clear.                 *)
  pc, op, cur, todo  (* Of each goroutine: where it is, the method, the    *)
              (* entry it holds, the keys Range has still to visit.        *)

evars == <<items, keyOf, via, task, timer, cancelled, handled>>
hvars == <<given, returned, silenced>>
pvars == <<pc, op, cur, todo>>
vars == <<evars, hvars, pvars>>

Init ==
  /\ items = [k \in Keys |-> NoEntry]
  /\ keyOf = [e \in Entries |-> NoKey]
  /\ via = [e \in Entries |-> "none"]
  /\ task = {}
  /\ timer = [e \in Entries |-> "none"]
  /\ cancelled = {}
  /\ handled = {}
  /\ given = [e \in Entries |-> 0]
  /\ returned = {}
  /\ silenced = {}
  /\ pc = [p \in Procs |-> "idle"]
  /\ op = [p \in Procs |-> "none"]
  /\ cur = [p \in Procs |-> NoEntry]
  /\ todo = [p \in Procs |-> {}]

-----------------------------------------------------------------------------
(* A goroutine moves to another place, holding entry e. *)
Goto(p, place, e) ==
  /\ pc' = [pc EXCEPT ![p] = place]
  /\ cur' = [cur EXCEPT ![p] = e]

Finish(p) == Goto(p, "idle", NoEntry) /\ op' = [op EXCEPT ![p] = "none"]

Call(p, method) ==
  /\ pc[p] = "idle"
  /\ op' = [op EXCEPT ![p] = method]

(* newTimeout: time.AfterFunc starts counting, and the entry gets its task. *)
Arm(e) ==
  IF e \in Timed
  THEN /\ timer' = [timer EXCEPT ![e] = "armed"]
       /\ task' = task \cup {e}
  ELSE UNCHANGED <<timer, task>>

(* PutWithTimeout: the timer is armed first, then the entry is swapped in. *)
PutArm(p, k, e) ==
  /\ Call(p, "Put")
  /\ keyOf[e] = NoKey
  /\ keyOf' = [keyOf EXCEPT ![e] = k]
  /\ via' = [via EXCEPT ![e] = "Put"]
  /\ Arm(e)
  /\ Goto(p, "swapping", e)
  /\ UNCHANGED <<items, cancelled, handled, hvars, todo>>

PutSwap(p) ==
  /\ pc[p] = "swapping"
  /\ LET prev == items[keyOf[cur[p]]]
     IN  IF prev = NoEntry
         THEN Finish(p) /\ UNCHANGED given
         ELSE Goto(p, "checking", prev) /\ given' = [given EXCEPT ![prev] = @ + 1] /\ UNCHANGED op
  /\ items' = [items EXCEPT ![keyOf[cur[p]]] = cur[p]]
  /\ UNCHANGED <<keyOf, via, task, timer, cancelled, handled, returned, silenced, todo>>

(* PutIfAbsentWithTimeout: the entry is stored first and armed then. *)
PutIfAbsentStore(p, k, e) ==
  /\ Call(p, "PutIfAbsent")
  /\ items[k] = NoEntry
  /\ keyOf[e] = NoKey
  /\ keyOf' = [keyOf EXCEPT ![e] = k]
  /\ via' = [via EXCEPT ![e] = "PutIfAbsent"]
  /\ items' = [items EXCEPT ![k] = e]
  /\ Goto(p, "arming", e)
  /\ UNCHANGED <<task, timer, cancelled, handled, hvars, todo>>

PutIfAbsentArm(p) ==
  /\ pc[p] = "arming"
  /\ Arm(cur[p])
  /\ Finish(p)
  /\ UNCHANGED <<items, keyOf, via, cancelled, handled, hvars, todo>>

(* Remove: LoadAndDelete, then the previous timer is cancelled.            *)
(* Two mutants: one that loads without deleting, and one that forgets to   *)
(* check that it loaded anything.                                          *)
RemoveLoads(p, k) ==
  /\ Call(p, "Remove")
  /\ items[k] # NoEntry
  /\ given' = [given EXCEPT ![items[k]] = @ + 1]
  /\ Goto(p, "checking", items[k])
  /\ UNCHANGED <<evars, returned, silenced, todo>>

Remove(p, k) ==
  /\ Call(p, "Remove")
  /\ items[k] # NoEntry
  /\ items' = [items EXCEPT ![k] = NoEntry]
  /\ given' = [given EXCEPT ![items[k]] = @ + 1]
  /\ Goto(p, "checking", items[k])
  /\ UNCHANGED <<keyOf, via, task, timer, cancelled, handled, returned, silenced, todo>>

CancelLoad(p, k) ==
  /\ Call(p, "Cancel")
  /\ items[k] # NoEntry
  /\ Goto(p, "checking", items[k])
  /\ UNCHANGED <<evars, hvars, todo>>

(* Clear: Range visits every key once, in any order, and sees the entry    *)
(* that is there at that moment.                                           *)
ClearStart(p) ==
  /\ Call(p, "Clear")
  /\ Goto(p, "ranging", NoEntry)
  /\ todo' = [todo EXCEPT ![p] = Keys]
  /\ UNCHANGED <<evars, hvars>>

ClearVisit(p) ==
  /\ pc[p] = "ranging"
  /\ \E k \in todo[p] :
       /\ todo' = [todo EXCEPT ![p] = @ \ {k}]
       /\ IF items[k] = NoEntry
          THEN Goto(p, "ranging", NoEntry)
          ELSE Goto(p, "checking", items[k])
  /\ UNCHANGED <<evars, hvars, op>>

ClearEnd(p) ==
  /\ pc[p] = "ranging"
  /\ todo[p] = {}
  /\ Finish(p)
  /\ UNCHANGED <<evars, hvars, todo>>

-----------------------------------------------------------------------------
(* What follows `if e.task != nil { e.task.Cancel() }' in each method.  A  *)
(* mutant lets Remove and Put set the field to nil as Cancel does.         *)
ForgetsAlways(p, called) ==
  \/ /\ op[p] \in {"Put", "Remove", "Cancel"}
     /\ IF called THEN Goto(p, "forgetting", cur[p]) /\ UNCHANGED op ELSE Finish(p)
     /\ returned' = IF op[p] = "Cancel" THEN returned ELSE returned \cup {cur[p]}
  \/ /\ op[p] = "Clear"
     /\ Goto(p, "deleting", cur[p])
     /\ UNCHANGED <<op, returned>>

AfterCancel(p, called) ==
  \/ /\ op[p] \in {"Put", "Remove"}
     /\ Finish(p)
     /\ returned' = returned \cup {cur[p]}
  \/ /\ op[p] = "Cancel"
     /\ IF called THEN Goto(p, "forgetting", cur[p]) /\ UNCHANGED op ELSE Finish(p)
     /\ UNCHANGED returned
  \/ /\ op[p] = "Clear"
     /\ Goto(p, "deleting", cur[p])
     /\ UNCHANGED <<op, returned>>

(* The nil check of the task field.  NeverCancels is a mutant that skips   *)
(* the call that follows it.                                               *)
NeverCancels(p) ==
  /\ pc[p] = "checking"
  /\ AfterCancel(p, FALSE)
  /\ UNCHANGED <<evars, given, silenced, todo>>

CheckTask(p) ==
  /\ pc[p] = "checking"
  /\ IF cur[p] \in task
     THEN Goto(p, "cancelling", cur[p]) /\ UNCHANGED <<op, returned>>
     ELSE AfterCancel(p, FALSE)
  /\ UNCHANGED <<evars, given, silenced, todo>>

(* Timeout.Cancel, which also stops the timer; its result is ignored. *)
CancelTimeout(p) ==
  /\ pc[p] = "cancelling"
  /\ cancelled' = cancelled \cup {cur[p]}
  /\ silenced' = IF op[p] \in {"Cancel", "Clear"} THEN silenced \cup {cur[p]} ELSE silenced
  /\ AfterCancel(p, TRUE)
  /\ UNCHANGED <<items, keyOf, via, task, timer, handled, given, todo>>

(* A Cancel of the same key may set the field to nil between the check and *)
(* the call.  The call then dereferences nil, unless the compiler kept the *)
(* pointer it checked: a data race, so either may happen.                  *)
CancelPanics(p) ==
  /\ pc[p] = "cancelling"
  /\ cur[p] \notin task
  /\ Goto(p, "panicked", cur[p])
  /\ UNCHANGED <<evars, hvars, op, todo>>

(* Cancel(key): e.task = nil. *)
CancelForget(p) ==
  /\ pc[p] = "forgetting"
  /\ task' = task \ {cur[p]}
  /\ Finish(p)
  /\ UNCHANGED <<items, keyOf, via, timer, cancelled, handled, hvars, todo>>

(* Clear: items.Delete(key). *)
ClearDelete(p) ==
  /\ pc[p] = "deleting"
  /\ items' = [items EXCEPT ![keyOf[cur[p]]] = NoEntry]
  /\ Goto(p, "ranging", NoEntry)
  /\ UNCHANGED <<keyOf, via, task, timer, cancelled, handled, hvars, op, todo>>

-----------------------------------------------------------------------------
(* The timer goroutine of an entry: the check of cancelled under the lock, *)
(* items.Delete(key), the handler.  A timer that is cancelled in time      *)
(* never runs its task.                                                    *)
TimerFires(e) ==
  /\ timer[e] = "armed"
  /\ e \notin cancelled
  /\ timer' = [timer EXCEPT ![e] = "running"]
  /\ UNCHANGED <<items, keyOf, via, task, cancelled, handled, hvars, pvars>>

(* Two mutants: one that deletes nothing, and one that gives up when       *)
(* another entry is stored under the key.                                  *)
TimerKeeps(e) ==
  /\ timer[e] = "running"
  /\ timer' = [timer EXCEPT ![e] = "deleted"]
  /\ UNCHANGED <<items, keyOf, via, task, cancelled, handled, hvars, pvars>>

TimerGivesUp(e) ==
  /\ timer[e] = "running"
  /\ timer' = [timer EXCEPT ![e] = IF items[keyOf[e]] = e THEN "deleted" ELSE "done"]
  /\ items' = [items EXCEPT ![keyOf[e]] = IF @ = e THEN NoEntry ELSE @]
  /\ UNCHANGED <<keyOf, via, task, cancelled, handled, hvars, pvars>>

TimerDeletes(e) ==
  /\ timer[e] = "running"
  /\ timer' = [timer EXCEPT ![e] = "deleted"]
  /\ items' = [items EXCEPT ![keyOf[e]] = NoEntry]
  /\ UNCHANGED <<keyOf, via, task, cancelled, handled, hvars, pvars>>

TimerHandles(e) ==
  /\ timer[e] = "deleted"
  /\ timer' = [timer EXCEPT ![e] = "done"]
  /\ handled' = handled \cup {e}
  /\ UNCHANGED <<items, keyOf, via, task, cancelled, hvars, pvars>>

-----------------------------------------------------------------------------
Starts(p) ==
  \/ \E k \in Keys :
       \/ \E e \in Entries : PutArm(p, k, e) \/ PutIfAbsentStore(p, k, e)
       \/ Remove(p, k)
       \/ CancelLoad(p, k)
  \/ ClearStart(p)

Continues(p) ==
  \/ PutSwap(p) \/ PutIfAbsentArm(p)
  \/ ClearVisit(p) \/ ClearDelete(p) \/ ClearEnd(p)
  \/ CheckTask(p) \/ CancelTimeout(p) \/ CancelPanics(p) \/ CancelForget(p)

Timer(e) == TimerFires(e) \/ TimerDeletes(e) \/ TimerHandles(e)

Next ==
  \/ \E p \in Procs : Starts(p) \/ Continues(p)
  \/ \E e \in Entries : Timer(e)

Spec == Init /\ [][Next]_vars

(* Goroutines inside a call and timers that are due are scheduled. *)
FairSpec ==
  /\ Spec
  /\ \A p \in Procs : WF_vars(Continues(p))
  /\ \A e \in Entries : WF_vars(Timer(e))

-----------------------------------------------------------------------------
TypeOK ==
  /\ items \in [Keys -> Entries \cup {NoEntry}]
  /\ keyOf \in [Entries -> Keys \cup {NoKey}]
  /\ via \in [Entries -> {"Put", "PutIfAbsent", "none"}]
  /\ task \subseteq Timed
  /\ timer \in [Entries -> {"none", "armed", "running", "deleted", "done"}]
  /\ cancelled \subseteq Entries
  /\ handled \subseteq Entries
  /\ given \in [Entries -> Nat]
  /\ returned \subseteq Entries
  /\ silenced \subseteq Entries
  /\ pc \in [Procs -> {"idle", "swapping", "arming", "ranging", "checking", "cancelling",
                       "forgetting", "deleting", "panicked"}]
  /\ op \in [Procs -> Methods \cup {"none"}]
  /\ cur \in [Procs -> Entries \cup {NoEntry}]
  /\ todo \in [Procs -> SUBSET Keys]

(* However removers, replacing puts, clears and timers race for a key, an  *)
(* entry is handed to at most one of the goroutines that take it out: two  *)
(* responses with one sequence number never complete the same future.      *)
GivenOnce == \A e \in Entries : given[e] <= 1

(* An entry with a timeout never vanishes: until someone has taken it or   *)
(* its handler has run, a live timer will call the handler, also when the  *)
(* timer of an older entry has deleted it from the map.                    *)
NothingForgotten ==
  \A e \in Timed : keyOf[e] # NoKey =>
    \/ given[e] > 0 \/ e \in silenced
    \/ e \in handled \/ timer[e] \in {"running", "deleted"}
    \/ timer[e] = "armed" /\ e \notin cancelled
    \/ \E p \in Procs : pc[p] = "arming" /\ cur[p] = e

(* Hence every such entry ends with its taker, its handler, or a cancel.   *)
EveryEntryEnds ==
  \A e \in Timed :
    keyOf[e] # NoKey ~> (given[e] > 0 \/ e \in handled \/ e \in silenced)

(* Once Remove or Put has returned an entry, its timeout can no longer     *)
(* begin; one that had begun before runs to its end.  This holds for the   *)
(* entries of PutWithTimeout, which arms the timer before anyone can find  *)
(* the entry.  Nobody but a Cancel of its key takes the task away again.   *)
RemoveDisarms ==
  [][\A e \in Entries :
       via[e] = "Put" /\ timer[e] = "armed" /\ timer'[e] = "running" => e \notin returned]_vars

(* The race for the task field of an entry is lost only to a Cancel:       *)
(* however Put, Remove, Clear and the timers meet in one entry, none takes *)
(* the task from under the other's call, so a goroutine that dereferences  *)
(* nil holds an entry that is already silenced, which Put and Remove never *)
(* do.                                                                     *)
OnlyCancelsRace == \A p \in Procs : pc[p] = "panicked" => cur[p] \in silenced

(* When the handler has run, the entry is no longer in the map.  This      *)
(* holds for the entries of PutIfAbsentWithTimeout, which publishes the    *)
(* entry before it arms the timer.                                         *)
TimedOutIsRemoved ==
  \A k \in Keys :
    items[k] # NoEntry /\ via[items[k]] = "PutIfAbsent" => items[k] \notin handled

=============================================================================
