------------------------- MODULE ScheduledExecutor -------------------------
(***************************************************************************)
(* util.ScheduledExecutor (src/util/scheduled.go): the loop goroutine that *)
(* each schedule starts, the map that finds it by its key, and Cancel and  *)
(* Shutdown in any order around them.                                      *)
(*                                                                         *)
(* `due' stands for the channel of time.After or of the ticker, which      *)
(* holds one tick at most.  schedule never looks at isRate: all four ways  *)
(* to schedule are the same.  A select with several ready cases takes any  *)
(* of them.  A panic ends the program.                                     *)
(***************************************************************************)
EXTENDS Naturals

CONSTANTS
  Keys,
  Loops,   (* The calls of schedule, each with a goroutine and a future. *)
  Procs,   (* Goroutines that call Cancel.                               *)
  NoLoop

ASSUME ExecutorAssumption == NoLoop \notin Loops

VARIABLES
  tasks,      (* The sync.Map.                                           *)
  keyOf,      (* The key each loop was scheduled with, once it was.      *)
  pc,         (* Where each loop is.                                     *)
  due,        (* The loops with a tick in their channel.                 *)
  closed,     (* The loops whose own stopCh is closed.                   *)
  shut,       (* e.stopCh is closed.                                     *)
  cur,        (* The loop whose future each Cancel has taken out.        *)
  panicked,   (* A closed channel was closed again.                      *)
  shutdowns,  (* History: the calls of Shutdown, at most two.            *)
  replaced    (* History: the loops whose key was scheduled again.       *)

hvars == <<shutdowns, replaced>>
vars == <<tasks, keyOf, pc, due, closed, shut, cur, panicked, hvars>>

Init ==
  /\ tasks = [k \in Keys |-> NoLoop]
  /\ keyOf \in [Loops -> Keys]
  /\ pc = [l \in Loops |-> "none"]
  /\ due = {}
  /\ closed = {}
  /\ shut = FALSE
  /\ cur = [p \in Procs |-> NoLoop]
  /\ panicked = FALSE
  /\ shutdowns = 0
  /\ replaced = {}

Goto(l, from, to) ==
  /\ pc[l] = from
  /\ pc' = [pc EXCEPT ![l] = to]

Stopped(l) == l \in closed \/ shut

-----------------------------------------------------------------------------
(* schedule: tasks.Store, and the goroutine, which starts with its initial *)
(* delay.  A mutant keeps the future that is there already.                *)
ScheduleIfAbsent(l) ==
  /\ Goto(l, "none", "delaying")
  /\ tasks' = [tasks EXCEPT ![keyOf[l]] = IF @ = NoLoop THEN l ELSE @]
  /\ UNCHANGED <<keyOf, due, closed, shut, cur, panicked, hvars>>

Schedule(l) ==
  /\ Goto(l, "none", "delaying")
  /\ tasks' = [tasks EXCEPT ![keyOf[l]] = l]
  /\ replaced' = replaced \cup ({tasks[keyOf[l]]} \ {NoLoop})
  /\ UNCHANGED <<keyOf, due, closed, shut, cur, panicked, shutdowns>>

(* The initial delay is over, or an interval of the ticker, which runs     *)
(* while the task does and drops the ticks there is no room for.           *)
Tick(l) ==
  /\ pc[l] \in {"delaying", "running", "waiting"}
  /\ l \notin due
  /\ due' = due \cup {l}
  /\ UNCHANGED <<tasks, keyOf, pc, closed, shut, cur, panicked, hvars>>

(* Both selects: a tick, or one of the two stop channels.  A mutant looks  *)
(* at the stop channels during the initial delay only.                     *)
TakeTick(l) ==
  /\ l \in due
  /\ Goto(l, "delaying", "running") \/ Goto(l, "waiting", "running")
  /\ due' = due \ {l}
  /\ UNCHANGED <<tasks, keyOf, closed, shut, cur, panicked, hvars>>

SeeStopEarly(l) ==
  /\ Stopped(l)
  /\ Goto(l, "delaying", "ended")
  /\ UNCHANGED <<tasks, keyOf, due, closed, shut, cur, panicked, hvars>>

SeeStop(l) ==
  /\ Stopped(l)
  /\ Goto(l, "delaying", "ended") \/ Goto(l, "waiting", "ended")
  /\ UNCHANGED <<tasks, keyOf, due, closed, shut, cur, panicked, hvars>>

TaskReturns(l) ==
  /\ Goto(l, "running", "waiting")
  /\ UNCHANGED <<tasks, keyOf, due, closed, shut, cur, panicked, hvars>>

-----------------------------------------------------------------------------
(* Cancel: LoadAndDelete, and then the future's cancel closes its channel. *)
(* A mutant loads without deleting.                                        *)
CancelLoads(p, k) ==
  /\ cur[p] = NoLoop
  /\ tasks[k] # NoLoop
  /\ cur' = [cur EXCEPT ![p] = tasks[k]]
  /\ UNCHANGED <<tasks, keyOf, pc, due, closed, shut, panicked, hvars>>

Cancel(p, k) ==
  /\ cur[p] = NoLoop
  /\ tasks[k] # NoLoop
  /\ cur' = [cur EXCEPT ![p] = tasks[k]]
  /\ tasks' = [tasks EXCEPT ![k] = NoLoop]
  /\ UNCHANGED <<keyOf, pc, due, closed, shut, panicked, hvars>>

CloseStop(p) ==
  /\ cur[p] # NoLoop
  /\ panicked' = (cur[p] \in closed)
  /\ closed' = closed \cup {cur[p]}
  /\ cur' = [cur EXCEPT ![p] = NoLoop]
  /\ UNCHANGED <<tasks, keyOf, pc, due, shut, hvars>>

Shutdown ==
  /\ shutdowns < 2
  /\ shutdowns' = shutdowns + 1
  /\ panicked' = shut
  /\ shut' = TRUE
  /\ UNCHANGED <<tasks, keyOf, pc, due, closed, cur, replaced>>

-----------------------------------------------------------------------------
(* The steps the Go scheduler and its clock take of their own accord. *)
Loop(l) == Tick(l) \/ TakeTick(l) \/ TaskReturns(l)

Next ==
  /\ ~panicked
  /\ \/ \E l \in Loops : Schedule(l) \/ Loop(l) \/ SeeStop(l)
     \/ \E p \in Procs : CloseStop(p) \/ \E k \in Keys : Cancel(p, k)
     \/ Shutdown

Spec == Init /\ [][Next]_vars

(* Goroutines are scheduled, time passes and tasks return.  A loop that    *)
(* comes back to its select again and again while it is told to stop will  *)
(* see it once: of several ready cases the select takes a random one.      *)
FairSpec ==
  /\ Spec
  /\ \A l \in Loops :
       /\ WF_vars(~panicked /\ Tick(l))
       /\ WF_vars(~panicked /\ TakeTick(l))
       /\ WF_vars(~panicked /\ TaskReturns(l))
       /\ SF_vars(~panicked /\ SeeStop(l))
  /\ \A p \in Procs : WF_vars(~panicked /\ CloseStop(p))

-----------------------------------------------------------------------------
TypeOK ==
  /\ tasks \in [Keys -> Loops \cup {NoLoop}]
  /\ keyOf \in [Loops -> Keys]
  /\ pc \in [Loops -> {"none", "delaying", "running", "waiting", "ended"}]
  /\ due \subseteq Loops
  /\ closed \subseteq Loops
  /\ shut \in BOOLEAN
  /\ cur \in [Procs -> Loops \cup {NoLoop}]
  /\ panicked \in BOOLEAN
  /\ shutdowns \in 0..2
  /\ replaced \subseteq Loops

(* However Cancels of one key race with each other, with schedules of the  *)
(* key and with Shutdown, none closes a channel that is closed: only a     *)
(* second Shutdown does, and panics.                                       *)
CancelNeverPanics == panicked => shutdowns = 2

(* A loop that nobody has told to stop can still be cancelled by its key,  *)
(* also when a Cancel of the loop before it is under way.  The exception   *)
(* is a key that was scheduled again: the loop before has lost its future  *)
(* and runs on beside the new one until Shutdown.                          *)
CancelFindsTheLoop ==
  \A l \in Loops : pc[l] # "none" =>
    \/ tasks[keyOf[l]] = l
    \/ Stopped(l) \/ \E p \in Procs : cur[p] = l
    \/ l \in replaced

(* A loop that was cancelled, or belongs to an executor that was shut      *)
(* down, ends, whatever it was doing: waiting for its first tick, running  *)
(* its task, or overtaken by ticks because the task is slow.               *)
StoppedLoopsEnd ==
  \A l \in Loops :
    (pc[l] # "none" /\ (Stopped(l) \/ \E p \in Procs : cur[p] = l))
      ~> (pc[l] = "ended" \/ panicked)
=============================================================================
