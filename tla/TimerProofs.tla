--------------------------- MODULE TimerProofs ---------------------------
(***************************************************************************)
(* What runs on timers keeps its invariants and ends: ScheduledExecutor    *)
(* for any number of keys, schedules and goroutines that cancel;           *)
(* TimeoutableObject for any number of values, each with a timeout that    *)
(* may be late; and Heartbeat for any order of the handlers and any number *)
(* of Timeouts. The provers do not know ENABLED: fairness is written out,  *)
(* with the enabling condition of each action read off its guards.         *)
(***************************************************************************)
EXTENDS ScheduledExecutor, TimeoutableObject, Heartbeat, FiniteSetTheorems, TLAPS

(* A future in the map is that of a loop scheduled with this key, no       *)
(* Cancel holds it and nobody has closed its channel.                      *)
TasksOK ==
  \A k \in Keys : tasks[k] # NoLoop =>
    /\ keyOf[tasks[k]] = k
    /\ pc[tasks[k]] # "none"
    /\ tasks[k] \notin closed
    /\ \A p \in Procs : cur[p] # tasks[k]

(* A Cancel that has taken a future out is the only one that has it, and   *)
(* finds its channel open.                                                 *)
HeldOK ==
  \A p \in Procs : cur[p] # NoLoop =>
    /\ pc[cur[p]] # "none"
    /\ cur[p] \notin closed
    /\ \A q \in Procs \ {p} : cur[q] # cur[p]

ClosedOK == \A l \in closed : pc[l] # "none"

(* The executor's own channel is closed by Shutdown alone. *)
ShutOK == shut => shutdowns \in 1..2

IInv ==
  /\ TypeOK /\ TasksOK /\ HeldOK /\ ClosedOK /\ ShutOK
  /\ CancelNeverPanics /\ CancelFindsTheLoop

-----------------------------------------------------------------------------
LEMMA InitIInv == Init => IInv
<1> SUFFICES ASSUME Init PROVE IInv
  OBVIOUS
<1>1. TypeOK
  <2>1. pc \in [Loops -> {"none", "delaying", "running", "waiting", "ended"}]
    BY DEF Init
  <2>2. tasks \in [Keys -> Loops \cup {NoLoop}] /\ cur \in [Procs -> Loops \cup {NoLoop}]
    BY DEF Init
  <2>3. shut \in BOOLEAN /\ panicked \in BOOLEAN
    BY Zenon DEF Init
  <2>4. shutdowns \in 0..2
    BY DEF Init
  <2>5. keyOf \in [Loops -> Keys] /\ due \subseteq Loops /\ closed \subseteq Loops /\ replaced \subseteq Loops
    BY DEF Init
  <2> QED BY <2>1, <2>2, <2>3, <2>4, <2>5, Zenon DEF TypeOK
<1>2. TasksOK /\ HeldOK /\ ClosedOK /\ ShutOK
  BY DEF Init, TasksOK, HeldOK, ClosedOK, ShutOK
<1>3. CancelNeverPanics /\ CancelFindsTheLoop
  BY DEF Init, CancelNeverPanics, CancelFindsTheLoop
<1> QED BY <1>1, <1>2, <1>3 DEF IInv

(* What a loop does between its schedule and its end touches neither the   *)
(* map nor a channel: it only moves.                                       *)
LEMMA MovingKeepsIInv ==
  ASSUME IInv, TypeOK',
         NEW l \in Loops, pc[l] # "none",
         NEW to, to # "none", pc' = [pc EXCEPT ![l] = to],
         UNCHANGED <<tasks, keyOf, closed, shut, cur, panicked, shutdowns, replaced>>
  PROVE  IInv'
<1> USE ExecutorAssumption
<1>t. TypeOK
  BY DEF IInv
<1>1. \A m \in Loops : pc'[m] = "none" <=> pc[m] = "none"
  BY <1>t DEF TypeOK
<1>2. TasksOK' /\ HeldOK'
  BY <1>t, <1>1 DEF IInv, TypeOK, TasksOK, HeldOK
<1>3. ClosedOK' /\ ShutOK' /\ CancelNeverPanics'
  BY <1>t, <1>1 DEF IInv, TypeOK, ClosedOK, ShutOK, CancelNeverPanics
<1>4. CancelFindsTheLoop'
  BY <1>t, <1>1 DEF IInv, TypeOK, CancelFindsTheLoop, Stopped
<1> QED BY <1>2, <1>3, <1>4 DEF IInv

LEMMA NextIInv == IInv /\ [Next]_vars => IInv'
<1> USE ExecutorAssumption DEF hvars, Goto
<1> SUFFICES ASSUME IInv, [Next]_vars PROVE IInv'
  OBVIOUS
<1>t. TypeOK /\ TasksOK /\ HeldOK /\ ClosedOK /\ ShutOK /\ CancelNeverPanics /\ CancelFindsTheLoop
  BY DEF IInv
<1>1. ASSUME NEW l \in Loops, Schedule(l) PROVE IInv'
  <2>1. TypeOK'
    BY <1>1, <1>t DEF Schedule, TypeOK
  <2>2. TasksOK'
    BY <1>1, <1>t DEF Schedule, TypeOK, TasksOK, HeldOK, ClosedOK
  <2>3. HeldOK' /\ ClosedOK'
    BY <1>1, <1>t DEF Schedule, TypeOK, HeldOK, ClosedOK
  <2>4. ShutOK' /\ CancelNeverPanics'
    BY <1>1, <1>t DEF Schedule, ShutOK, CancelNeverPanics
  <2>5. CancelFindsTheLoop'
    <3> SUFFICES ASSUME NEW m \in Loops, pc'[m] # "none"
                 PROVE  \/ tasks'[keyOf'[m]] = m
                        \/ Stopped(m)' \/ \E p \in Procs : cur'[p] = m
                        \/ m \in replaced'
      BY DEF CancelFindsTheLoop
    <3>1. CASE m = l
      BY <1>1, <1>t, <3>1 DEF Schedule, TypeOK
    <3>2. CASE m # l /\ tasks[keyOf[m]] = m
      BY <1>1, <1>t, <3>2 DEF Schedule, TypeOK
    <3>3. CASE m # l /\ tasks[keyOf[m]] # m
      BY <1>1, <1>t, <3>3 DEF Schedule, TypeOK, CancelFindsTheLoop, Stopped
    <3> QED BY <3>1, <3>2, <3>3
  <2> QED BY <2>1, <2>2, <2>3, <2>4, <2>5 DEF IInv
<1>2. ASSUME NEW l \in Loops, Tick(l) PROVE IInv'
  BY <1>2, <1>t
     DEF Tick, IInv, TypeOK, TasksOK, HeldOK, ClosedOK, ShutOK, CancelNeverPanics, CancelFindsTheLoop, Stopped
<1>3. ASSUME NEW l \in Loops, TakeTick(l) PROVE IInv'
  <2>1. TypeOK'
    BY <1>3, <1>t DEF TakeTick, TypeOK
  <2> QED BY <1>3, <2>1, MovingKeepsIInv DEF TakeTick
<1>4. ASSUME NEW l \in Loops, TaskReturns(l) PROVE IInv'
  <2>1. TypeOK'
    BY <1>4, <1>t DEF TaskReturns, TypeOK
  <2> QED BY <1>4, <2>1, MovingKeepsIInv DEF TaskReturns
<1>5. ASSUME NEW l \in Loops, SeeStop(l) PROVE IInv'
  <2>1. TypeOK'
    BY <1>5, <1>t DEF SeeStop, TypeOK
  <2> QED BY <1>5, <2>1, MovingKeepsIInv DEF SeeStop
<1>6. ASSUME NEW p \in Procs, NEW k \in Keys, Cancel(p, k) PROVE IInv'
  <2>1. TypeOK'
    BY <1>6, <1>t DEF Cancel, TypeOK
  <2>2. TasksOK'
    BY <1>6, <1>t DEF Cancel, TypeOK, TasksOK
  <2>3. HeldOK'
    BY <1>6, <1>t DEF Cancel, TypeOK, TasksOK, HeldOK
  <2>4. ClosedOK' /\ ShutOK' /\ CancelNeverPanics'
    BY <1>6, <1>t DEF Cancel, ClosedOK, ShutOK, CancelNeverPanics
  <2>5. CancelFindsTheLoop'
    BY <1>6, <1>t DEF Cancel, TypeOK, TasksOK, CancelFindsTheLoop, Stopped
  <2> QED BY <2>1, <2>2, <2>3, <2>4, <2>5 DEF IInv
<1>7. ASSUME NEW p \in Procs, CloseStop(p), ~panicked PROVE IInv'
  <2>1. TypeOK'
    BY <1>7, <1>t DEF CloseStop, TypeOK
  <2>2. TasksOK' /\ HeldOK' /\ ClosedOK'
    BY <1>7, <1>t DEF CloseStop, TypeOK, TasksOK, HeldOK, ClosedOK
  <2>3. ShutOK' /\ CancelNeverPanics'
    BY <1>7, <1>t DEF CloseStop, HeldOK, ShutOK, CancelNeverPanics
  <2>4. CancelFindsTheLoop'
    BY <1>7, <1>t DEF CloseStop, TypeOK, CancelFindsTheLoop, Stopped
  <2> QED BY <2>1, <2>2, <2>3, <2>4 DEF IInv
<1>8. CASE Shutdown
  <2>1. TypeOK' /\ ShutOK' /\ CancelNeverPanics'
    BY <1>8, <1>t DEF Shutdown, TypeOK, ShutOK, CancelNeverPanics
  <2>2. TasksOK' /\ HeldOK' /\ ClosedOK'
    BY <1>8, <1>t DEF Shutdown, TasksOK, HeldOK, ClosedOK
  <2>3. CancelFindsTheLoop'
    BY <1>8, <1>t DEF Shutdown, CancelFindsTheLoop, Stopped
  <2> QED BY <2>1, <2>2, <2>3 DEF IInv
<1>9. CASE UNCHANGED vars
  BY <1>9, <1>t
     DEF vars, IInv, TypeOK, TasksOK, HeldOK, ClosedOK, ShutOK, CancelNeverPanics, CancelFindsTheLoop, Stopped
<1> QED BY <1>1, <1>2, <1>3, <1>4, <1>5, <1>6, <1>7, <1>8, <1>9 DEF Next, Loop

LEMMA SpecIInv == Spec => []IInv
  BY InitIInv, NextIInv, PTL DEF Spec

-----------------------------------------------------------------------------
(* The ranges of the variables, as schedule, Cancel and Shutdown keep them. *)
THEOREM TypeCorrect == Spec => []TypeOK
<1>1. IInv => TypeOK
  BY DEF IInv
<1> QED BY <1>1, SpecIInv, PTL

(* Cancels that race with each other, with schedules and with Shutdown     *)
(* never close a channel twice: only a second Shutdown panics.             *)
THEOREM NoCancelPanics == Spec => []CancelNeverPanics
<1>1. IInv => CancelNeverPanics
  BY DEF IInv
<1> QED BY <1>1, SpecIInv, PTL

(* A loop that nobody stops is found by its key, unless the key was        *)
(* scheduled again.                                                        *)
THEOREM LoopsCanBeCancelled == Spec => []CancelFindsTheLoop
<1>1. IInv => CancelFindsTheLoop
  BY DEF IInv
<1> QED BY <1>1, SpecIInv, PTL

-----------------------------------------------------------------------------
(* What eventually happens.  The provers do not know ENABLED, so fairness  *)
(* is written out: these are the WF and SF of FairSpec when Returnable and *)
(* Stoppable and Held are the enabling conditions of their steps, which    *)
(* the first conjuncts of the steps say.                                   *)
Returnable(l) == ~panicked /\ pc[l] = "running"
Stoppable(l) == ~panicked /\ Stopped(l) /\ pc[l] \in {"delaying", "waiting"}
Held(p) == ~panicked /\ cur[p] # NoLoop

LoopsRun ==
  /\ \A l \in Loops :
       /\ []<>~Returnable(l) \/ []<><<~panicked /\ TaskReturns(l)>>_vars
       /\ <>[]~Stoppable(l) \/ []<><<~panicked /\ SeeStop(l)>>_vars
  /\ \A p \in Procs : []<>~Held(p) \/ []<><<~panicked /\ CloseStop(p)>>_vars

(* A loop that is told to stop and has not ended yet. *)
Told(l) == ~panicked /\ Stopped(l) /\ pc[l] \in {"delaying", "running", "waiting"}

LEMMA ToldLoopsEnd ==
  ASSUME NEW l \in Loops
  PROVE  Spec /\ LoopsRun => (Told(l) ~> ~Told(l))
<1> DEFINE R == Told(l) /\ pc[l] = "running"
<1>1. Told(l) => R \/ Stoppable(l)
  BY DEF Told, Stoppable
<1>2. R => Returnable(l)
  BY DEF Told, Returnable
<1>3. Stoppable(l) => Told(l)
  BY DEF Told, Stoppable
<1>4. IInv /\ R /\ <<~panicked /\ TaskReturns(l)>>_vars => Stoppable(l)'
  BY DEF IInv, TypeOK, Told, Stoppable, Stopped, TaskReturns, Goto
<1>5. IInv /\ Told(l) /\ <<~panicked /\ SeeStop(l)>>_vars => ~Told(l)'
  BY DEF IInv, TypeOK, Told, SeeStop, Goto
<1>6. LoopsRun => /\ []<>~Returnable(l) \/ []<><<~panicked /\ TaskReturns(l)>>_vars
                  /\ <>[]~Stoppable(l) \/ []<><<~panicked /\ SeeStop(l)>>_vars
  BY DEF LoopsRun
<1>7. Spec => []IInv /\ [][Next]_vars
  BY SpecIInv, PTL DEF Spec
<1> HIDE DEF R
<1> QED BY <1>1, <1>2, <1>3, <1>4, <1>5, <1>6, <1>7, PTL

(* A Cancel that holds a loop's future closes its channel. *)
LEMMA HeldLoopsAreTold ==
  ASSUME NEW l \in Loops, NEW p \in Procs
  PROVE  Spec /\ LoopsRun => [](cur[p] = l => <>(Stopped(l) \/ panicked))
<1> DEFINE H == cur[p] = l /\ ~panicked
           Done == Stopped(l) \/ panicked
<1>1. H => Held(p)
  BY ExecutorAssumption DEF Held
<1>2. IInv /\ H /\ [Next]_vars => H' \/ Done'
  <2> SUFFICES ASSUME IInv, H, [Next]_vars PROVE H' \/ Done'
    OBVIOUS
  <2> USE ExecutorAssumption DEF IInv, TypeOK, Stopped
  <2>1. ASSUME NEW m \in Loops, Schedule(m) \/ Loop(m) \/ SeeStop(m) PROVE H' \/ Done'
    BY <2>1 DEF Schedule, Loop, Tick, TakeTick, TaskReturns, SeeStop
  <2>2. ASSUME NEW q \in Procs, NEW k \in Keys, Cancel(q, k) PROVE H' \/ Done'
    BY <2>2 DEF Cancel
  <2>3. ASSUME NEW q \in Procs, CloseStop(q) PROVE H' \/ Done'
    BY <2>3 DEF CloseStop
  <2>4. CASE Shutdown
    BY <2>4 DEF Shutdown
  <2>5. CASE UNCHANGED vars
    BY <2>5 DEF vars
  <2> QED BY <2>1, <2>2, <2>3, <2>4, <2>5 DEF Next
<1>3. IInv /\ H /\ <<~panicked /\ CloseStop(p)>>_vars => Done'
  BY DEF IInv, TypeOK, CloseStop, Stopped
<1>4. LoopsRun => ([]<>~Held(p) \/ []<><<~panicked /\ CloseStop(p)>>_vars)
  BY DEF LoopsRun
<1>5. Spec => []IInv /\ [][Next]_vars
  BY SpecIInv, PTL DEF Spec
<1>6. cur[p] = l => H \/ Done
  OBVIOUS
<1> HIDE DEF H, Done
<1>7. Spec /\ LoopsRun => [](cur[p] = l => <>Done)
  BY <1>1, <1>2, <1>3, <1>4, <1>5, <1>6, PTL
<1> QED BY <1>7 DEF Done

(* A loop that was scheduled stays so until it ends, and what it was told  *)
(* is not taken back.                                                      *)
LEMMA ToldStays ==
  ASSUME NEW l \in Loops
  PROVE  /\ IInv /\ pc[l] # "none" /\ [Next]_vars => (pc[l] # "none")'
         /\ Stopped(l) /\ [Next]_vars => Stopped(l)'
<1> SUFFICES ASSUME [Next]_vars
             PROVE  /\ IInv /\ pc[l] # "none" => (pc[l] # "none")'
                    /\ Stopped(l) => Stopped(l)'
  OBVIOUS
<1> USE DEF IInv, TypeOK, Stopped
<1>1. CASE UNCHANGED vars
  BY <1>1 DEF vars
<1>2. ASSUME NEW m \in Loops, Schedule(m) \/ Loop(m) \/ SeeStop(m)
      PROVE  /\ IInv /\ pc[l] # "none" => (pc[l] # "none")'
             /\ Stopped(l) => Stopped(l)'
  BY <1>2 DEF Schedule, Loop, Tick, TakeTick, TaskReturns, SeeStop, Goto
<1>3. ASSUME NEW p \in Procs, CloseStop(p) \/ \E k \in Keys : Cancel(p, k)
      PROVE  /\ IInv /\ pc[l] # "none" => (pc[l] # "none")'
             /\ Stopped(l) => Stopped(l)'
  BY <1>3 DEF CloseStop, Cancel
<1>4. CASE Shutdown
  BY <1>4 DEF Shutdown
<1> QED BY <1>1, <1>2, <1>3, <1>4 DEF Next

(* A loop that was cancelled, or belongs to an executor that was shut      *)
(* down, ends, whatever it was doing and however many ticks are due.       *)
THEOREM EveryStoppedLoopEnds == Spec /\ LoopsRun => StoppedLoopsEnd
<1> DEFINE S(l) == pc[l] # "none"
           Over(l) == pc[l] = "ended" \/ panicked
           C(l) == \E p \in Procs : cur[p] = l
<1>1. ASSUME NEW l \in Loops
      PROVE  Spec /\ LoopsRun => [](C(l) => <>(Stopped(l) \/ panicked))
  <2>1. ASSUME NEW p \in Procs
        PROVE  Spec /\ LoopsRun => [](cur[p] = l => <>(Stopped(l) \/ panicked))
    BY HeldLoopsAreTold
  <2>2. Spec /\ LoopsRun => \A p \in Procs : [](cur[p] = l => <>(Stopped(l) \/ panicked))
    BY <2>1
  <2>3. (\A p \in Procs : [](cur[p] = l => <>(Stopped(l) \/ panicked)))
          => [](\A p \in Procs : (cur[p] = l => <>(Stopped(l) \/ panicked)))
    OBVIOUS
  <2>4. (\A p \in Procs : (cur[p] = l => <>(Stopped(l) \/ panicked)))
          => (C(l) => <>(Stopped(l) \/ panicked))
    OBVIOUS
  <2> QED BY <2>2, <2>3, <2>4, PTL
<1>2. ASSUME NEW l \in Loops
      PROVE  Spec /\ LoopsRun => ((S(l) /\ (Stopped(l) \/ C(l))) ~> Over(l))
  <2>1. Spec /\ LoopsRun => (Told(l) ~> ~Told(l))
    BY ToldLoopsEnd
  <2>2. IInv /\ S(l) /\ Stopped(l) => Told(l) \/ Over(l)
    BY DEF IInv, TypeOK, Told
  <2>3. IInv /\ S(l) /\ [Next]_vars => S(l)'
    BY ToldStays
  <2>4. Stopped(l) /\ [Next]_vars => Stopped(l)'
    BY ToldStays
  <2>5. panicked => Over(l)
    OBVIOUS
  <2>6. Spec => []IInv /\ [][Next]_vars
    BY SpecIInv, PTL DEF Spec
  <2> HIDE DEF S, Over, C
  <2> QED BY <1>1, <2>1, <2>2, <2>3, <2>4, <2>5, <2>6, PTL
<1> QED BY <1>2 DEF StoppedLoopsEnd

-----------------------------------------------------------------------------
(* TimeoutableObject. *)
(* A value that was never set is nowhere and has met no fate. *)
UnsetOK ==
  \A v \in Values : timer[v] = "none" =>
    /\ fates[v] = 0
    /\ value # v

(* A value has at most one fate, and none while it is in the object. *)
FatesOK ==
  /\ \A v \in Values : fates[v] \in 0..1
  /\ value # NoValue => fates[value] = 0

(* A callback has taken out nothing before it had the lock, has something  *)
(* if it calls the handler, and no two have taken out the same value.      *)
TakenOK ==
  \A v \in Values :
    /\ timer[v] \in {"none", "armed", "cancelled", "waiting"} => got[v] = NoValue
    /\ timer[v] \in {"calling", "handled"} => got[v] # NoValue
    /\ got[v] # NoValue =>
         /\ fates[got[v]] = 1
         /\ \A w \in Values : got[w] = got[v] => w = v

(* The timeout in the field is that of the value. *)
CurrentOK == timeout # NoValue => value = timeout

ObjectInv ==
  ObjectTypeOK /\ CurrentOK /\ UnsetOK /\ FatesOK /\ TakenOK /\ OnlyTheCurrentTimesOut

-----------------------------------------------------------------------------
LEMMA InitObjectInv == ObjectInit => ObjectInv
<1> SUFFICES ASSUME ObjectInit PROVE ObjectInv
  OBVIOUS
<1> USE ObjectAssumption
<1>1. ObjectTypeOK
  BY DEF ObjectInit, ObjectTypeOK
<1>2. CurrentOK /\ UnsetOK /\ FatesOK /\ TakenOK /\ OnlyTheCurrentTimesOut
  BY DEF ObjectInit, CurrentOK, UnsetOK, FatesOK, TakenOK, OnlyTheCurrentTimesOut
<1> QED BY <1>1, <1>2 DEF ObjectInv

(* What has no fate yet and leaves the object meets its first. *)
LEMMA LeavingIsOnce ==
  ASSUME ObjectInv, Leaves(value)
  PROVE  /\ fates' \in [Values -> Nat]
         /\ \A v \in Values : fates'[v] \in 0..1
         /\ \A v \in Values : v # value => fates'[v] = fates[v]
         /\ value # NoValue => fates'[value] = 1
  BY ObjectAssumption DEF ObjectInv, ObjectTypeOK, FatesOK, Leaves

(* Cancelling moves an armed timeout only, the current one. *)
LEMMA CancelledTimers ==
  ASSUME ObjectTypeOK
  PROVE  /\ Cancelled \in [Values -> {"none", "armed", "cancelled", "waiting", "calling", "handled", "done"}]
         /\ \A v \in Values :
              \/ Cancelled[v] = timer[v] /\ (timer[v] = "armed" => v # timeout)
              \/ v = timeout /\ timer[v] = "armed" /\ Cancelled[v] = "cancelled"
  BY DEF ObjectTypeOK, Cancelled

LEMMA NextObjectInv == ObjectInv /\ [ObjectNext]_ovars => ObjectInv'
<1> SUFFICES ASSUME ObjectInv, [ObjectNext]_ovars PROVE ObjectInv'
  OBVIOUS
<1> USE ObjectAssumption
<1>t. ObjectTypeOK /\ CurrentOK /\ UnsetOK /\ FatesOK /\ TakenOK /\ OnlyTheCurrentTimesOut
  BY DEF ObjectInv
<1>1. CASE SetTimeoutHandler
  BY <1>1, <1>t
     DEF SetTimeoutHandler, ObjectInv, ObjectTypeOK, CurrentOK, UnsetOK, FatesOK, TakenOK, OnlyTheCurrentTimesOut
<1>2. CASE ObjectCancel
  <2>1. ObjectTypeOK'
    BY <1>2, <1>t, CancelledTimers DEF ObjectCancel, ObjectTypeOK, CurrentOK
  <2>2. CurrentOK' /\ UnsetOK' /\ FatesOK'
    BY <1>2, <1>t, CancelledTimers DEF ObjectCancel, CurrentOK, UnsetOK, FatesOK
  <2>3. TakenOK'
    BY <1>2, <1>t, CancelledTimers DEF ObjectCancel, TakenOK
  <2>4. OnlyTheCurrentTimesOut'
    BY <1>2, <1>t, CancelledTimers DEF ObjectCancel, OnlyTheCurrentTimesOut
  <2> QED BY <2>1, <2>2, <2>3, <2>4 DEF ObjectInv
<1>3. CASE Remove
  <2>l. /\ fates' \in [Values -> Nat]
        /\ \A v \in Values : fates'[v] \in 0..1
        /\ \A v \in Values : v # value => fates'[v] = fates[v]
    BY <1>3, LeavingIsOnce DEF Remove
  <2>1. ObjectTypeOK'
    BY <1>3, <1>t, <2>l, CancelledTimers DEF Remove, ObjectTypeOK
  <2>2. CurrentOK' /\ UnsetOK' /\ FatesOK'
    BY <1>3, <1>t, <2>l, CancelledTimers DEF Remove, CurrentOK, UnsetOK, FatesOK
  <2>3. TakenOK'
    BY <1>3, <1>t, <2>l, CancelledTimers DEF Remove, ObjectTypeOK, FatesOK, TakenOK
  <2>4. OnlyTheCurrentTimesOut'
    BY <1>3, <1>t, CancelledTimers DEF Remove, OnlyTheCurrentTimesOut
  <2> QED BY <2>1, <2>2, <2>3, <2>4 DEF ObjectInv
<1>4. ASSUME NEW v \in Values, SetWithDelay(v) PROVE ObjectInv'
  <2>l. /\ fates' \in [Values -> Nat]
        /\ \A w \in Values : fates'[w] \in 0..1
        /\ \A w \in Values : w # value => fates'[w] = fates[w]
    BY <1>4, LeavingIsOnce DEF SetWithDelay
  <2>m. /\ timer' \in [Values -> {"none", "armed", "cancelled", "waiting", "calling", "handled", "done"}]
        /\ timer'[v] = "armed"
        /\ \A w \in Values \ {v} : timer'[w] = Cancelled[w]
    BY <1>4, <1>t, CancelledTimers DEF SetWithDelay
  <2>1. ObjectTypeOK'
    BY <1>4, <1>t, <2>l, <2>m DEF SetWithDelay, ObjectTypeOK
  <2>2. CurrentOK' /\ UnsetOK' /\ FatesOK'
    BY <1>4, <1>t, <2>l, <2>m, CancelledTimers DEF SetWithDelay, CurrentOK, UnsetOK, FatesOK
  <2>3. TakenOK'
    BY <1>4, <1>t, <2>l, <2>m, CancelledTimers DEF SetWithDelay, ObjectTypeOK, FatesOK, TakenOK
  <2>4. OnlyTheCurrentTimesOut'
    BY <1>4, <1>t, <2>m, CancelledTimers DEF SetWithDelay, OnlyTheCurrentTimesOut
  <2> QED BY <2>1, <2>2, <2>3, <2>4 DEF ObjectInv
<1>5. ASSUME NEW v \in Values, RunsOut(v) PROVE ObjectInv'
  <2>1. ObjectTypeOK' /\ CurrentOK' /\ UnsetOK' /\ FatesOK' /\ TakenOK'
    BY <1>5, <1>t DEF RunsOut, ObjectTypeOK, CurrentOK, UnsetOK, FatesOK, TakenOK
  <2>2. OnlyTheCurrentTimesOut'
    BY <1>5, <1>t DEF RunsOut, ObjectTypeOK, OnlyTheCurrentTimesOut
  <2> QED BY <2>1, <2>2 DEF ObjectInv
<1>6. ASSUME NEW v \in Values, TakeOut(v) PROVE ObjectInv'
  <2>l. /\ fates' \in [Values -> Nat]
        /\ \A w \in Values : fates'[w] \in 0..1
        /\ \A w \in Values : w # value => fates'[w] = fates[w]
        /\ value # NoValue => fates'[value] = 1
    BY <1>6, LeavingIsOnce DEF TakeOut
  <2>m. /\ timer'[v] \in {"calling", "done"} /\ (timer'[v] = "calling" => value # NoValue)
        /\ got'[v] = value
        /\ \A w \in Values \ {v} : timer'[w] = timer[w] /\ got'[w] = got[w]
    BY <1>6, <1>t DEF TakeOut, ObjectTypeOK
  <2>1. ObjectTypeOK'
    BY <1>6, <1>t, <2>l DEF TakeOut, ObjectTypeOK
  <2>2. CurrentOK' /\ UnsetOK' /\ FatesOK'
    BY <1>6, <1>t, <2>l, <2>m DEF TakeOut, CurrentOK, UnsetOK, FatesOK
  <2>3. TakenOK'
    BY <1>6, <1>t, <2>l, <2>m DEF TakeOut, ObjectTypeOK, FatesOK, TakenOK
  <2>4. OnlyTheCurrentTimesOut'
    BY <1>6, <1>t, <2>m DEF TakeOut, TakenOK, OnlyTheCurrentTimesOut
  <2> QED BY <2>1, <2>2, <2>3, <2>4 DEF ObjectInv
<1>7. ASSUME NEW v \in Values, Handle(v) PROVE ObjectInv'
  <2>1. ObjectTypeOK' /\ CurrentOK' /\ UnsetOK' /\ FatesOK' /\ TakenOK'
    BY <1>7, <1>t DEF Handle, ObjectTypeOK, CurrentOK, UnsetOK, FatesOK, TakenOK
  <2>2. OnlyTheCurrentTimesOut'
    BY <1>7, <1>t DEF Handle, ObjectTypeOK, OnlyTheCurrentTimesOut
  <2> QED BY <2>1, <2>2 DEF ObjectInv
<1>8. CASE UNCHANGED ovars
  BY <1>8, <1>t DEF ovars, ObjectInv, ObjectTypeOK, CurrentOK, UnsetOK, FatesOK, TakenOK, OnlyTheCurrentTimesOut
<1> QED BY <1>1, <1>2, <1>3, <1>4, <1>5, <1>6, <1>7, <1>8 DEF ObjectNext, Timeout

LEMMA SpecObjectInv == ObjectSpec => []ObjectInv
  BY InitObjectInv, NextObjectInv, PTL DEF ObjectSpec

-----------------------------------------------------------------------------
(* The ranges of the fields and of what each timeout holds. *)
THEOREM ObjectTypeCorrect == ObjectSpec => []ObjectTypeOK
<1>1. ObjectInv => ObjectTypeOK
  BY DEF ObjectInv
<1> QED BY <1>1, SpecObjectInv, PTL

(* However sets, removes and late callbacks race, no value has two fates   *)
(* and the handler gets none twice.                                        *)
THEOREM ValuesLeaveOnce == ObjectSpec => []OneFate
<1>1. ObjectInv => OneFate
  BY DEF ObjectInv, ObjectTypeOK, FatesOK, TakenOK, OneFate
<1> QED BY <1>1, SpecObjectInv, PTL

(* A timeout that can still begin belongs to the value in the object, or   *)
(* to one that a late callback has taken out before its time.              *)
THEOREM OldTimeoutsAreOver == ObjectSpec => []OnlyTheCurrentTimesOut
<1>1. ObjectInv => OnlyTheCurrentTimesOut
  BY DEF ObjectInv
<1> QED BY <1>1, SpecObjectInv, PTL

-----------------------------------------------------------------------------
(* What eventually happens.  The provers do not know ENABLED, so fairness  *)
(* is written out: it is the WF of ObjectFairSpec when Pending(v) is the   *)
(* enabling condition of Timeout(v), which its first conjuncts say.        *)
Pending(v) == timer[v] \in {"armed", "waiting", "calling"}

TimersRun == \A v \in Values : []<>~Pending(v) \/ []<><<Timeout(v)>>_ovars

(* A value that is in the object and whose timeout nobody has cancelled    *)
(* has one that is armed, or whose callback wants the lock.                *)
Stays(v) == value = v /\ v \notin silenced

StaysOK ==
  \A v \in Values : Stays(v) =>
    \/ timeout = v /\ timer[v] \in {"armed", "waiting"}
    \/ timer[v] = "waiting"

LEMMA SpecStaysOK == ObjectSpec => []StaysOK
<1>1. ObjectInit => StaysOK
  BY ObjectAssumption DEF ObjectInit, StaysOK, Stays
<1>2. ObjectInv /\ StaysOK /\ [ObjectNext]_ovars => StaysOK'
  <2> SUFFICES ASSUME ObjectInv, StaysOK, [ObjectNext]_ovars PROVE StaysOK'
    OBVIOUS
  <2> USE ObjectAssumption DEF StaysOK, Stays, ObjectInv, ObjectTypeOK, CurrentOK
  <2>1. CASE SetTimeoutHandler \/ UNCHANGED ovars
    BY <2>1 DEF SetTimeoutHandler, ovars
  <2>2. CASE ObjectCancel \/ Remove
    BY <2>2, CancelledTimers DEF ObjectCancel, Remove
  <2>3. ASSUME NEW v \in Values, SetWithDelay(v) PROVE StaysOK'
    BY <2>3, CancelledTimers DEF SetWithDelay
  <2>4. ASSUME NEW v \in Values, Timeout(v) PROVE StaysOK'
    BY <2>4 DEF Timeout, RunsOut, TakeOut, Handle
  <2> QED BY <2>1, <2>2, <2>3, <2>4 DEF ObjectNext
<1> QED BY <1>1, <1>2, SpecObjectInv, PTL DEF ObjectSpec

(* A value that is set is replaced, removed or timed out, unless a Cancel  *)
(* has taken its timeout from it: its own callback takes it out if nothing *)
(* else has before.                                                        *)
THEOREM EveryValueLeaves == ObjectSpec /\ TimersRun => EveryValueEnds
<1> DEFINE A(v) == Stays(v) /\ timer[v] = "armed"
           B(v) == Stays(v) /\ timer[v] = "waiting"
<1>1. ASSUME NEW v \in Values PROVE ObjectSpec /\ TimersRun => (Stays(v) ~> ~Stays(v))
  <2>1. StaysOK /\ Stays(v) => A(v) \/ B(v)
    BY DEF StaysOK
  <2>2. A(v) => Pending(v)
    BY DEF Pending
  <2>3. B(v) => Pending(v)
    BY DEF Pending
  <2>4. ObjectInv /\ A(v) /\ [ObjectNext]_ovars => A(v)' \/ B(v)' \/ ~Stays(v)'
    <3> SUFFICES ASSUME ObjectInv, A(v), [ObjectNext]_ovars, Stays(v)' PROVE A(v)' \/ B(v)'
      OBVIOUS
    <3> USE ObjectAssumption DEF Stays, ObjectInv, ObjectTypeOK
    <3>1. CASE SetTimeoutHandler \/ UNCHANGED ovars
      BY <3>1 DEF SetTimeoutHandler, ovars
    <3>2. CASE ObjectCancel \/ Remove
      BY <3>2, CancelledTimers DEF ObjectCancel, Remove
    <3>3. ASSUME NEW w \in Values, SetWithDelay(w) PROVE A(v)' \/ B(v)'
      BY <3>3, CancelledTimers DEF SetWithDelay
    <3>4. ASSUME NEW w \in Values, Timeout(w) PROVE A(v)' \/ B(v)'
      BY <3>4 DEF Timeout, RunsOut, TakeOut, Handle
    <3> QED BY <3>1, <3>2, <3>3, <3>4 DEF ObjectNext
  <2>5. ObjectInv /\ B(v) /\ [ObjectNext]_ovars => B(v)' \/ ~Stays(v)'
    <3> SUFFICES ASSUME ObjectInv, B(v), [ObjectNext]_ovars, Stays(v)' PROVE B(v)'
      OBVIOUS
    <3> USE ObjectAssumption DEF Stays, ObjectInv, ObjectTypeOK
    <3>1. CASE SetTimeoutHandler \/ UNCHANGED ovars
      BY <3>1 DEF SetTimeoutHandler, ovars
    <3>2. CASE ObjectCancel \/ Remove
      BY <3>2, CancelledTimers DEF ObjectCancel, Remove
    <3>3. ASSUME NEW w \in Values, SetWithDelay(w) PROVE B(v)'
      BY <3>3, CancelledTimers DEF SetWithDelay
    <3>4. ASSUME NEW w \in Values, Timeout(w) PROVE B(v)'
      BY <3>4 DEF Timeout, RunsOut, TakeOut, Handle
    <3> QED BY <3>1, <3>2, <3>3, <3>4 DEF ObjectNext
  <2>6. ObjectInv /\ A(v) /\ <<Timeout(v)>>_ovars => B(v)' \/ ~Stays(v)'
    BY DEF ObjectInv, ObjectTypeOK, Timeout, RunsOut, TakeOut, Handle
  <2>7. ObjectInv /\ B(v) /\ <<Timeout(v)>>_ovars => ~Stays(v)'
    BY ObjectAssumption DEF ObjectInv, ObjectTypeOK, Timeout, RunsOut, TakeOut, Handle, Stays
  <2>8. TimersRun => ([]<>~Pending(v) \/ []<><<Timeout(v)>>_ovars)
    BY DEF TimersRun
  <2> HIDE DEF A, B
  <2>9. ObjectSpec => []ObjectInv /\ []StaysOK /\ [][ObjectNext]_ovars
    BY SpecObjectInv, SpecStaysOK, PTL DEF ObjectSpec
  <2> QED BY <2>1, <2>2, <2>3, <2>4, <2>5, <2>6, <2>7, <2>8, <2>9, PTL
<1>2. ASSUME NEW v \in Values PROVE ObjectSpec /\ TimersRun => (value = v ~> (value # v \/ v \in silenced))
  <2>1. (value = v) => Stays(v) \/ (value # v \/ v \in silenced)
    BY DEF Stays
  <2>2. ~Stays(v) => (value # v \/ v \in silenced)
    BY DEF Stays
  <2> QED BY <1>1, <2>1, <2>2, PTL
<1> QED BY <1>2 DEF EveryValueEnds

-----------------------------------------------------------------------------
(* Heartbeat. *)
Alive(t) == beat[t] \in {"armed", "beating", "arming"}

(* The variables that the chains of Timeouts are made of. *)
ChainType ==
  /\ handlers \in Orders
  /\ place \in Places
  /\ at \in 1..(Len(handlers) + 1)
  /\ held \in Timeouts \cup {None}
  /\ entry \in [Beaters -> Timeouts \cup {None}]
  /\ beat \in [Timeouts -> {"armed", "beating", "arming", "storing", "over"}]
  /\ owner \in [Timeouts -> Beaters]
  /\ next \in [Timeouts -> Timeouts \cup {None}]
  /\ ended \subseteq Beaters

(* A Timeout that a map, the connection's goroutine or a callback refers   *)
(* to belongs to the handler on whose behalf they do.                      *)
OwnersOK ==
  /\ \A b \in Beaters : entry[b] # None => owner[entry[b]] = b
  /\ \A t \in Timeouts : beat[t] = "storing" => next[t] \in Timeouts /\ owner[next[t]] = owner[t]
  /\ place \in {"storing", "cancelling"} =>
       /\ held \in Timeouts
       /\ at <= Len(handlers) /\ handlers[at] \in Beaters
       /\ owner[held] = handlers[at]

(* No two Timeouts of a handler are alive. *)
ChainOK ==
  \A t, u \in Timeouts : Alive(t) /\ Alive(u) /\ owner[t] = owner[u] => t = u

(* A handler whose OnConnected is still to come has none. *)
NotStartedOK ==
  \A i \in 1..Len(handlers) :
    (place = "connecting" /\ at <= i) \/ (place = "storing" /\ at < i) =>
      \A t \in Timeouts : Alive(t) => owner[t] # handlers[i]

(* Nor has one whose armed Timeout was cancelled, which OnDisconnected     *)
(* does, when all OnConnected are over.                                    *)
SilencedOK ==
  /\ \A t \in Timeouts : Alive(t) => owner[t] \notin ended
  /\ ended # {} => place \notin {"connecting", "storing"}

ChainInv ==
  ChainType /\ OwnersOK /\ ChainOK /\ NotStartedOK /\ SilencedOK

-----------------------------------------------------------------------------
LEMMA InitChainInv == HeartbeatInit => ChainInv
<1> USE HeartbeatAssumption
<1> SUFFICES ASSUME HeartbeatInit PROVE ChainInv
  OBVIOUS
<1>1. ChainType
  BY DEF HeartbeatInit, ChainType, Places, Beaters
<1>2. OwnersOK /\ ChainOK /\ NotStartedOK /\ SilencedOK
  BY DEF HeartbeatInit, OwnersOK, ChainOK, NotStartedOK, SilencedOK, Alive
<1> QED BY <1>1, <1>2 DEF ChainInv

(* The connection's goroutine goes on to the next handler, or leaves the   *)
(* walk; the chains stay as they are.                                      *)
LEMMA WalkingKeepsChains ==
  ASSUME ChainInv, place' \in Places \ {"storing", "cancelling"}, at' \in 1..(Len(handlers) + 1),
         place' = "connecting" => place = "connecting" /\ at' >= at,
         held' \in Timeouts \cup {None},
         UNCHANGED <<handlers, entry, beat, owner, next, ended>>
  PROVE  ChainInv'
<1> USE HeartbeatAssumption
<1>1. ChainType'
  BY DEF ChainInv, ChainType, Places
<1>2. OwnersOK' /\ ChainOK'
  BY DEF ChainInv, OwnersOK, ChainOK, Alive, Places
<1>3. NotStartedOK'
  BY DEF ChainInv, ChainType, NotStartedOK, Alive, Places
<1>4. SilencedOK'
  BY DEF ChainInv, SilencedOK, Alive, Places
<1> QED BY <1>1, <1>2, <1>3, <1>4 DEF ChainInv

(* A callback that has begun moves on, or a Timeout dies, with the map as  *)
(* it was: nothing comes alive.                                            *)
LEMMA AgeingKeepsChains ==
  ASSUME ChainInv, NEW t \in Timeouts, Alive(t),
         NEW to \in {"beating", "arming", "over"}, beat' = [beat EXCEPT ![t] = to],
         UNCHANGED <<handlers, place, at, held, entry, owner, next, ended>>
  PROVE  ChainInv'
<1> USE HeartbeatAssumption
<1>t. /\ ChainType /\ OwnersOK /\ ChainOK /\ NotStartedOK /\ SilencedOK
  BY DEF ChainInv
<1>1. ChainType'
  BY <1>t DEF ChainType
<1>2. \A u \in Timeouts : (Alive(u)' => Alive(u)) /\ (beat'[u] = "storing" => beat[u] = "storing")
  BY <1>t DEF ChainType, Alive
<1>3. OwnersOK' /\ ChainOK'
  BY <1>t, <1>2 DEF OwnersOK, ChainOK
<1>4. NotStartedOK' /\ SilencedOK'
  BY <1>t, <1>2 DEF NotStartedOK, SilencedOK
<1> QED BY <1>1, <1>3, <1>4 DEF ChainInv

LEMMA NextChainInv == ChainInv /\ [HeartbeatNext]_bvars => ChainInv'
<1> SUFFICES ASSUME ChainInv, [HeartbeatNext]_bvars PROVE ChainInv'
  OBVIOUS
<1> USE HeartbeatAssumption DEF config, conn, beats
<1>t. /\ ChainType /\ OwnersOK /\ ChainOK /\ NotStartedOK /\ SilencedOK
  BY DEF ChainInv
<1>l. handlers \in Seq(Beaters \cup {"readTimeout", "user"}) /\ Len(handlers) \in Nat
  BY <1>t DEF ChainType
<1>1. ASSUME NEW t \in Timeouts, Start(t) PROVE ChainInv'
  <2>1. /\ place = "connecting" /\ at \in 1..Len(handlers) /\ handlers[at] \in Beaters
        /\ owner' = [owner EXCEPT ![t] = handlers[at]]
        /\ beat' = [beat EXCEPT ![t] = "armed"]
        /\ t \in Unused /\ held' = t /\ place' = "storing"
        /\ UNCHANGED <<handlers, at, entry, next, ended>>
    BY <1>1, <1>t, <1>l DEF Start, Calling, ChainType
  <2>2. ChainType'
    BY <2>1, <1>t DEF ChainType, Places
  <2>3. OwnersOK'
    BY <2>1, <1>t DEF ChainType, OwnersOK, Unused
  <2>4. \A u \in Timeouts : Alive(u) => owner[u] # handlers[at]
    BY <2>1, <1>t DEF NotStartedOK
  <2>5. \A u \in Timeouts \ {t} : (Alive(u)' <=> Alive(u)) /\ owner'[u] = owner[u]
    BY <2>1, <1>t DEF ChainType, Alive
  <2>6. Alive(t)' /\ owner'[t] = handlers[at]
    BY <2>1, <1>t DEF ChainType, Alive
  <2>7. ChainOK'
    BY <2>4, <2>5, <2>6, <1>t DEF ChainOK
  <2>8. NotStartedOK'
    <3> SUFFICES ASSUME NEW i \in 1..Len(handlers), at < i, NEW u \in Timeouts, Alive(u)'
                 PROVE  owner'[u] # handlers[i]
      BY <2>1 DEF NotStartedOK
    <3>1. CASE u = t
      BY <2>1, <2>6, <3>1, <1>t DEF ChainType
    <3>2. CASE u # t
      BY <2>1, <2>5, <3>2, <1>t DEF ChainType, NotStartedOK
    <3> QED BY <3>1, <3>2
  <2>9. SilencedOK'
    BY <2>1, <2>5, <2>6, <1>t DEF SilencedOK
  <2> QED BY <2>2, <2>3, <2>7, <2>8, <2>9 DEF ChainInv
<1>2. CASE StoreFirst
  <2>1. ChainType'
    BY <1>2, <1>t DEF StoreFirst, ChainType, OwnersOK, Places
  <2>2. OwnersOK'
    BY <1>2, <1>t DEF StoreFirst, ChainType, OwnersOK
  <2>3. NotStartedOK'
    BY <1>2, <1>t, <1>l DEF StoreFirst, ChainType, NotStartedOK, Alive
  <2>4. ChainOK' /\ SilencedOK'
    BY <1>2, <1>t DEF StoreFirst, ChainOK, SilencedOK, Alive
  <2> QED BY <2>1, <2>2, <2>3, <2>4 DEF ChainInv
<1>3. CASE SetReadDeadline
  BY <1>3, <1>t, WalkingKeepsChains DEF SetReadDeadline, Calling, Passes, Stops, ChainType, Places
<1>4. CASE UserHandler
  BY <1>4, <1>t, WalkingKeepsChains DEF UserHandler, Calling, Passes, Stops, ChainType, Places
<1>5. CASE EndOfHandlers
  BY <1>5, <1>t, WalkingKeepsChains DEF EndOfHandlers, ChainType, Places
<1>6. CASE HandlerReturns
  BY <1>6, <1>t, WalkingKeepsChains DEF HandlerReturns, ChainType, Places
<1>7. CASE ReadTimesOut
  BY <1>7, <1>t DEF ReadTimesOut, ChainInv, ChainType, OwnersOK, ChainOK, NotStartedOK, SilencedOK, Alive
<1>8. CASE TakeTask
  <2>1. /\ place = "disconnecting" /\ at \in 1..Len(handlers) /\ handlers[at] \in Beaters
        /\ held' = entry[handlers[at]]
        /\ entry' = [entry EXCEPT ![handlers[at]] = None]
        /\ UNCHANGED <<handlers, beat, owner, next, ended>>
        /\ \/ entry[handlers[at]] = None /\ at' = at + 1 /\ place' = place
           \/ entry[handlers[at]] # None /\ place' = "cancelling" /\ at' = at
    BY <1>8, <1>t, <1>l DEF TakeTask, Calling, Passes, ChainType
  <2>2. ChainType'
    BY <2>1, <1>t DEF ChainType, Places
  <2>3. OwnersOK'
    BY <2>1, <1>t DEF ChainType, OwnersOK
  <2>4. ChainOK' /\ NotStartedOK' /\ SilencedOK'
    BY <2>1, <1>t DEF ChainOK, NotStartedOK, SilencedOK, Alive
  <2> QED BY <2>2, <2>3, <2>4 DEF ChainInv
<1>9. CASE CancelTask
  <2>1. /\ place = "cancelling" /\ held \in Timeouts /\ owner[held] = handlers[at] /\ handlers[at] \in Beaters
        /\ at <= Len(handlers) /\ place' = "disconnecting" /\ at' = at + 1 /\ held' = None
        /\ UNCHANGED <<handlers, entry, owner, next>>
    BY <1>9, <1>t DEF CancelTask, OwnersOK
  <2>2. CASE beat[held] = "armed"
    <3>1. beat' = [beat EXCEPT ![held] = "over"] /\ ended' = ended \cup {handlers[at]}
      BY <1>9, <2>2 DEF CancelTask
    <3>2. \A u \in Timeouts : /\ Alive(u)' => Alive(u) /\ u # held
                              /\ beat'[u] = "storing" => beat[u] = "storing"
      BY <3>1, <1>t, <2>1 DEF ChainType, Alive
    <3>3. ChainType'
      BY <2>1, <3>1, <1>t, <1>l DEF ChainType, Places
    <3>4. OwnersOK' /\ ChainOK' /\ NotStartedOK'
      BY <2>1, <3>2, <1>t DEF OwnersOK, ChainOK, NotStartedOK
    <3>5. Alive(held)
      BY <2>2 DEF Alive
    <3>6. SilencedOK'
      BY <2>1, <3>1, <3>2, <3>5, <1>t DEF ChainOK, SilencedOK
    <3> QED BY <3>3, <3>4, <3>6 DEF ChainInv
  <2>3. CASE beat[held] # "armed"
    <3>1. UNCHANGED <<beat, ended>>
      BY <1>9, <2>3 DEF CancelTask
    <3> QED BY <2>1, <3>1, <1>t, <1>l, WalkingKeepsChains DEF ChainType, Places
  <2> QED BY <2>2, <2>3
<1>10. CASE NothingToUndo
  BY <1>10, <1>t, WalkingKeepsChains DEF NothingToUndo, Calling, Passes, ChainType, Places
<1>11. CASE CloseConn
  BY <1>11, <1>t, WalkingKeepsChains DEF CloseConn, ChainType, Places
<1>12. ASSUME NEW t \in Timeouts, Fires(t) PROVE ChainInv'
  BY <1>12, AgeingKeepsChains DEF Fires, MoveTimer, Alive
<1>13. ASSUME NEW t \in Timeouts, Beat(t) PROVE ChainInv'
  BY <1>13, AgeingKeepsChains DEF Beat, MoveTimer, Alive
<1>14. ASSUME NEW t \in Timeouts, BeatFails(t) PROVE ChainInv'
  BY <1>14, AgeingKeepsChains DEF BeatFails, MoveTimer, Alive
<1>15. ASSUME NEW t \in Timeouts, ArmNext(t) PROVE ChainInv'
  <2>1. PICK u \in Unused :
          /\ beat' = [beat EXCEPT ![t] = "storing", ![u] = "armed"]
          /\ owner' = [owner EXCEPT ![u] = owner[t]]
          /\ next' = [next EXCEPT ![t] = u]
    BY <1>15 DEF ArmNext
  <2>2. /\ beat[t] = "arming" /\ u \in Timeouts /\ beat[u] = "over" /\ u # t
        /\ \A b \in Beaters : entry[b] # u
        /\ held # u
        /\ \A v \in Timeouts : next[v] # u
        /\ UNCHANGED <<handlers, place, at, held, entry, ended>>
    BY <1>15, <2>1 DEF ArmNext, Unused
  <2>3. ChainType'
    BY <2>1, <2>2, <1>t DEF ChainType
  <2>4. OwnersOK'
    BY <2>1, <2>2, <1>t DEF ChainType, OwnersOK
  <2>5. Alive(t) /\ ~Alive(t)' /\ owner'[u] = owner[t] /\ owner'[t] = owner[t]
    BY <2>1, <2>2, <1>t DEF ChainType, Alive
  <2>6. \A v \in Timeouts \ {t, u} : (Alive(v)' <=> Alive(v)) /\ owner'[v] = owner[v]
    BY <2>1, <2>2, <1>t DEF ChainType, Alive
  <2>7. ChainOK'
    BY <2>2, <2>5, <2>6, <1>t DEF ChainOK
  <2>8. NotStartedOK' /\ SilencedOK'
    BY <2>2, <2>5, <2>6, <1>t DEF NotStartedOK, SilencedOK
  <2> QED BY <2>3, <2>4, <2>7, <2>8 DEF ChainInv
<1>16. ASSUME NEW t \in Timeouts, StoreNext(t) PROVE ChainInv'
  <2>1. /\ beat[t] = "storing" /\ beat' = [beat EXCEPT ![t] = "over"]
        /\ entry' = [entry EXCEPT ![owner[t]] = next[t]]
        /\ next' = [next EXCEPT ![t] = None]
        /\ UNCHANGED <<handlers, place, at, held, owner, ended>>
    BY <1>16 DEF StoreNext, MoveTimer
  <2>2. ChainType'
    BY <2>1, <1>t DEF ChainType
  <2>3. OwnersOK'
    BY <2>1, <1>t DEF ChainType, OwnersOK
  <2>4. \A u \in Timeouts : Alive(u)' => Alive(u)
    BY <2>1, <1>t DEF ChainType, Alive
  <2>5. ChainOK' /\ NotStartedOK' /\ SilencedOK'
    BY <2>1, <2>4, <1>t DEF ChainOK, NotStartedOK, SilencedOK
  <2> QED BY <2>2, <2>3, <2>5 DEF ChainInv
<1>17. CASE PeerGoes \/ ClosedElsewhere \/ UNCHANGED bvars
  BY <1>17, <1>t
     DEF PeerGoes, ClosedElsewhere, bvars, ChainInv, ChainType, OwnersOK, ChainOK, NotStartedOK, SilencedOK, Alive
<1>18. ReadEnds => HandlerReturns
  BY DEF ReadEnds
<1> QED
  BY <1>1, <1>2, <1>3, <1>4, <1>5, <1>6, <1>7, <1>8, <1>9, <1>10, <1>11, <1>12, <1>13, <1>14,
     <1>15, <1>16, <1>17, <1>18 DEF HeartbeatNext, ConnSteps, Callback

LEMMA SpecChainInv == HeartbeatSpec => []ChainInv
  BY InitChainInv, NextChainInv, PTL DEF HeartbeatSpec

-----------------------------------------------------------------------------
(* What the chains do not depend on keeps its ranges too. *)
WorldType ==
  /\ writing \in BOOLEAN
  /\ peer \in {"alive", "left", "dead"}
  /\ connClosed \in BOOLEAN
  /\ deadline \in BOOLEAN

LEMMA SpecWorldType == HeartbeatSpec => []WorldType
<1>1. HeartbeatInit => WorldType
  BY Zenon DEF HeartbeatInit, WorldType
<1>2. WorldType /\ [HeartbeatNext]_bvars => WorldType'
  <2> SUFFICES ASSUME WorldType, [HeartbeatNext]_bvars PROVE WorldType'
    OBVIOUS
  <2>1. UNCHANGED writing
    BY DEF HeartbeatNext, ConnSteps, Callback, Start, StoreFirst, SetReadDeadline, UserHandler,
           EndOfHandlers, HandlerReturns, ReadEnds, ReadTimesOut, TakeTask, CancelTask, NothingToUndo,
           CloseConn, Fires, Beat, BeatFails, ArmNext, StoreNext, PeerGoes, ClosedElsewhere, bvars, config
  <2>2. UNCHANGED peer \/ peer' \in {"left", "dead"}
    BY DEF HeartbeatNext, ConnSteps, Callback, Start, StoreFirst, SetReadDeadline, UserHandler,
           EndOfHandlers, HandlerReturns, ReadEnds, ReadTimesOut, TakeTask, CancelTask, NothingToUndo,
           CloseConn, Fires, Beat, BeatFails, ArmNext, StoreNext, PeerGoes, ClosedElsewhere, bvars
  <2>3. UNCHANGED connClosed \/ connClosed' = TRUE
    BY DEF HeartbeatNext, ConnSteps, Callback, Start, StoreFirst, SetReadDeadline, UserHandler,
           EndOfHandlers, HandlerReturns, ReadEnds, ReadTimesOut, TakeTask, CancelTask, NothingToUndo,
           CloseConn, Fires, Beat, BeatFails, ArmNext, StoreNext, PeerGoes, ClosedElsewhere, bvars
  <2>4. UNCHANGED deadline \/ deadline' = TRUE
    BY DEF HeartbeatNext, ConnSteps, Callback, Start, StoreFirst, SetReadDeadline, UserHandler,
           EndOfHandlers, HandlerReturns, ReadEnds, ReadTimesOut, TakeTask, CancelTask, NothingToUndo,
           CloseConn, Fires, Beat, BeatFails, ArmNext, StoreNext, PeerGoes, ClosedElsewhere, bvars
  <2> QED BY <2>1, <2>2, <2>3, <2>4, Zenon DEF WorldType
<1> QED BY <1>1, <1>2, PTL DEF HeartbeatSpec

(* The variables of the heartbeats keep their ranges, the walk stays among *)
(* the handlers.                                                           *)
THEOREM HeartbeatTypeCorrect == HeartbeatSpec => []HeartbeatTypeOK
<1>1. ChainInv /\ WorldType => HeartbeatTypeOK
  BY DEF ChainInv, ChainType, WorldType, HeartbeatTypeOK
<1> QED BY <1>1, SpecChainInv, SpecWorldType, PTL

(* Whatever callbacks and their successors, OnDisconnected and a closing   *)
(* connection do in between: a handler never has two heartbeats under way, *)
(* and a Cancel in time ends them.                                         *)
THEOREM ChainsNeverFork == HeartbeatSpec => []NeverTwoChains
<1>1. ASSUME ChainInv PROVE NeverTwoChains
  <2> SUFFICES ASSUME NEW b \in Beaters
               PROVE  Cardinality(Live(b)) <= 1 /\ (b \in ended => Live(b) = {})
    BY DEF NeverTwoChains
  <2>1. \A t, u \in Live(b) : t = u
    BY <1>1 DEF ChainInv, ChainOK, Live, Alive
  <2>2. CASE Live(b) = {}
    BY <2>2, FS_EmptySet
  <2>3. CASE Live(b) # {}
    <3>1. PICK t : t \in Live(b)
      BY <2>3
    <3>2. Live(b) = {t}
      BY <2>1, <3>1
    <3>3. Cardinality(Live(b)) = 1
      BY <3>2, FS_Singleton
    <3>4. b \notin ended
      BY <1>1, <3>1 DEF ChainInv, SilencedOK, Live, Alive
    <3> QED BY <3>3, <3>4
  <2> QED BY <2>2, <2>3
<1> QED BY <1>1, SpecChainInv, PTL

-----------------------------------------------------------------------------
(* A handler that has been connected has a live Timeout until a write      *)
(* fails, which closes the connection, or the walk of OnDisconnected.      *)
Begun(i) ==
  \/ place = "serving"
  \/ place = "connecting" /\ i < at
  \/ place = "storing" /\ i <= at

HoldOK ==
  ~connClosed =>
    \A i \in 1..Len(handlers) : handlers[i] \in Beaters /\ Begun(i) =>
      \E t \in Timeouts : Alive(t) /\ owner[t] = handlers[i]

(* Who was alive stays so, and no other handler has begun.                 *)
LEMMA LivingKeepsHold ==
  ASSUME HoldOK, connClosed => connClosed', UNCHANGED handlers,
         connClosed' \/ \A t \in Timeouts : Alive(t) =>
           \E u \in Timeouts : Alive(u)' /\ owner'[u] = owner[t],
         \A i \in 1..Len(handlers) : Begun(i)' => Begun(i)
  PROVE  HoldOK'
<1> SUFFICES ASSUME ~connClosed', NEW i \in 1..Len(handlers), handlers[i] \in Beaters, Begun(i)'
             PROVE  \E u \in Timeouts : Alive(u)' /\ owner'[u] = handlers[i]
  BY DEF HoldOK
<1>1. PICK t \in Timeouts : Alive(t) /\ owner[t] = handlers[i]
  BY DEF HoldOK
<1> QED BY <1>1

LEMMA NextHoldOK == ChainInv /\ HoldOK /\ [HeartbeatNext]_bvars => HoldOK'
<1> SUFFICES ASSUME ChainInv, HoldOK, [HeartbeatNext]_bvars PROVE HoldOK'
  OBVIOUS
<1> USE HeartbeatAssumption DEF config, conn, beats
<1>t. ChainType /\ OwnersOK
  BY DEF ChainInv
<1>l. handlers \in Seq(Beaters \cup {"readTimeout", "user"}) /\ Len(handlers) \in Nat
  BY <1>t DEF ChainType
<1>1. ASSUME NEW t \in Timeouts, Start(t) PROVE HoldOK'
  <2>1. /\ place = "connecting" /\ at \in 1..Len(handlers)
        /\ owner' = [owner EXCEPT ![t] = handlers[at]]
        /\ beat' = [beat EXCEPT ![t] = "armed"]
        /\ t \in Unused /\ place' = "storing"
        /\ UNCHANGED <<handlers, connClosed, at>>
    BY <1>1, <1>t, <1>l DEF Start, Calling, ChainType
  <2>2. Alive(t)' /\ owner'[t] = handlers[at] /\ ~Alive(t)
    BY <2>1, <1>t DEF ChainType, Alive, Unused
  <2>3. \A u \in Timeouts \ {t} : (Alive(u)' <=> Alive(u)) /\ owner'[u] = owner[u]
    BY <2>1, <1>t DEF ChainType, Alive
  <2> SUFFICES ASSUME ~connClosed, NEW i \in 1..Len(handlers), handlers[i] \in Beaters, i <= at
               PROVE  \E u \in Timeouts : Alive(u)' /\ owner'[u] = handlers[i]
    BY <2>1 DEF HoldOK, Begun
  <2>4. CASE i = at
    BY <2>2, <2>4
  <2>5. CASE i # at
    <3>1. i < at
      BY <2>1, <2>5
    <3>2. PICK u \in Timeouts : Alive(u) /\ owner[u] = handlers[i]
      BY <2>1, <3>1 DEF HoldOK, Begun
    <3> QED BY <2>2, <2>3, <3>2
  <2> QED BY <2>4, <2>5
<1>2. CASE StoreFirst
  <2>1. \A i \in 1..Len(handlers) : Begun(i)' => Begun(i)
    BY <1>2, <1>t DEF StoreFirst, Begun, ChainType
  <2> QED BY <1>2, <2>1, LivingKeepsHold DEF StoreFirst, Alive
<1>3. CASE EndOfHandlers
  <2>1. \A i \in 1..Len(handlers) : Begun(i)' => Begun(i)
    BY <1>3, <1>l, <1>t DEF EndOfHandlers, Begun, ChainType
  <2> QED BY <1>3, <2>1, LivingKeepsHold DEF EndOfHandlers, Alive
<1>4. CASE SetReadDeadline \/ UserHandler
  <2>1. /\ UNCHANGED <<handlers, connClosed, beat, owner>>
        /\ place \in {"connecting", "disconnecting"}
        /\ \/ at' = at /\ place' = "closing"
           \/ at' = at + 1 /\ place' = place /\ handlers[at] \in {"readTimeout", "user"}
    BY <1>4 DEF SetReadDeadline, UserHandler, Calling, Passes, Stops
  <2>2. \A i \in 1..Len(handlers) : handlers[i] \in Beaters /\ Begun(i)' => Begun(i)
    BY <2>1, <1>t, <1>l DEF Begun, ChainType, Beaters
  <2> QED BY <2>1, <2>2 DEF HoldOK, Alive
<1>5. CASE HandlerReturns \/ TakeTask \/ NothingToUndo \/ CancelTask
  <2>1. place' \in {"disconnecting", "cancelling"}
    BY <1>5 DEF HandlerReturns, TakeTask, NothingToUndo, CancelTask, Passes, Calling
  <2> QED BY <2>1 DEF HoldOK, Begun
<1>6. CASE ReadTimesOut \/ CloseConn \/ ClosedElsewhere
  BY <1>6 DEF ReadTimesOut, CloseConn, ClosedElsewhere, HoldOK
<1>7. CASE PeerGoes \/ UNCHANGED bvars
  BY <1>7, LivingKeepsHold DEF PeerGoes, bvars, Begun, Alive
<1>8. ASSUME NEW t \in Timeouts, Fires(t) \/ Beat(t) PROVE HoldOK'
  <2>1. \A u \in Timeouts : Alive(u) => Alive(u)'
    BY <1>8, <1>t DEF Fires, Beat, MoveTimer, Alive, ChainType
  <2> QED BY <1>8, <2>1, LivingKeepsHold DEF Fires, Beat, Begun
<1>9. ASSUME NEW t \in Timeouts, BeatFails(t) PROVE HoldOK'
  BY <1>9 DEF BeatFails, HoldOK
<1>10. ASSUME NEW t \in Timeouts, ArmNext(t) PROVE HoldOK'
  <2>1. PICK u \in Unused :
          /\ beat' = [beat EXCEPT ![t] = "storing", ![u] = "armed"]
          /\ owner' = [owner EXCEPT ![u] = owner[t]]
    BY <1>10 DEF ArmNext
  <2>2. u \in Timeouts /\ beat[u] = "over" /\ beat[t] = "arming" /\ u # t
    BY <1>10, <2>1 DEF ArmNext, Unused
  <2>3. Alive(u)' /\ owner'[u] = owner[t]
    BY <2>1, <2>2, <1>t DEF Alive, ChainType
  <2>4. \A v \in Timeouts \ {t} : Alive(v) => Alive(v)' /\ owner'[v] = owner[v]
    BY <2>1, <2>2, <1>t DEF Alive, ChainType
  <2>5. \A v \in Timeouts : Alive(v) => \E w \in Timeouts : Alive(w)' /\ owner'[w] = owner[v]
    BY <2>2, <2>3, <2>4
  <2>6. UNCHANGED <<handlers, connClosed, place, at>>
    BY <1>10 DEF ArmNext
  <2> QED BY <2>5, <2>6, LivingKeepsHold DEF Begun
<1>11. ASSUME NEW t \in Timeouts, StoreNext(t) PROVE HoldOK'
  <2>1. \A u \in Timeouts : Alive(u) => Alive(u)'
    BY <1>11, <1>t DEF StoreNext, MoveTimer, Alive, ChainType
  <2> QED BY <1>11, <2>1, LivingKeepsHold DEF StoreNext, Begun
<1>12. ReadEnds => HandlerReturns
  BY DEF ReadEnds
<1> QED
  BY <1>1, <1>2, <1>3, <1>4, <1>5, <1>6, <1>7, <1>8, <1>9, <1>10, <1>11, <1>12
     DEF HeartbeatNext, ConnSteps, Callback

(* No beater falls silent on an open connection: there is always a Timeout *)
(* whose write may notice that the peer is dead.                           *)
THEOREM BeatersGoOn == HeartbeatSpec => []ChainHolds
<1>1. HeartbeatInit => HoldOK
  BY DEF HeartbeatInit, HoldOK, Begun
<1>2. ASSUME ChainInv, HoldOK PROVE ChainHolds
  <2> SUFFICES ASSUME place = "serving", ~connClosed, NEW b \in Added \cap Beaters
               PROVE  \E t \in Timeouts : Alive(t) /\ owner[t] = b
    BY DEF ChainHolds, Live, Alive
  <2> QED BY <1>2 DEF HoldOK, Begun, Added
<1> QED BY <1>1, <1>2, NextHoldOK, SpecChainInv, PTL DEF HeartbeatSpec

(* Each handler that beats has exactly one chain on an open connection, in *)
(* whatever order callbacks arm, store and are cancelled.                  *)
THEOREM OneChainOfBeats == HeartbeatSpec => []OneChain
  BY ChainsNeverFork, BeatersGoOn, PTL DEF OneChain

-----------------------------------------------------------------------------
(* What eventually happens to heartbeats.  Fairness is that of             *)
(* HeartbeatFairSpec written out, with the enabling conditions of          *)
(* Callback(t), of ReadEnds among ConnSteps, of ReadTimesOut and of        *)
(* BeatFails.  The code makes a new Timeout whenever it needs one: a bound *)
(* of Timeouts must not stop it.                                           *)
Going(t) == beat[t] \in {"armed", "beating", "storing"} \/ (beat[t] = "arming" /\ Unused # {})
Ending == place = "serving" /\ (connClosed \/ peer = "left")
Overdue == peer = "dead" /\ place = "serving" /\ deadline /\ ~connClosed
Failing == \E t \in Timeouts : writing /\ (connClosed \/ peer # "alive") /\ beat[t] = "beating"

HeartbeatsRun ==
  /\ \A t \in Timeouts : []<>~Going(t) \/ []<><<Callback(t)>>_bvars
  /\ []<>~Ending \/ []<><<ConnSteps>>_bvars
  /\ []<>~Overdue \/ []<><<peer = "dead" /\ ReadTimesOut>>_bvars
  /\ <>[]~Failing \/ []<><<\E t \in Timeouts : BeatFails(t)>>_bvars

TimeoutsSuffice == [](Unused # {})

(* A served connection with a dead peer that a beater writes to. *)
Written == place = "serving" /\ peer = "dead" /\ ~connClosed /\ writing /\ Added \cap Beaters # {}

(* What steps do to it: it stays so until its connection is closed or the  *)
(* handler returns.                                                        *)
LEMMA WrittenMoves ==
  ASSUME ChainInv, [HeartbeatNext]_bvars
  PROVE  /\ Written => Written' \/ (place = "serving" /\ connClosed)' \/ place' # "serving"
         /\ Overdue => Overdue' \/ (place = "serving" /\ connClosed)' \/ place' # "serving"
         /\ place = "serving" /\ connClosed => connClosed'
         /\ place = "serving" => \A t \in Timeouts :
              /\ beat[t] = "armed" => beat'[t] \in {"armed", "beating"}
              /\ beat[t] = "arming" => beat'[t] = "arming" \/ \E u \in Timeouts : beat'[u] = "armed"
              /\ beat[t] = "beating" => beat'[t] = "beating" \/ connClosed' \/ beat'[t] = "arming"
<1> DEFINE Still == /\ UNCHANGED <<handlers, writing>>
                    /\ peer = "dead" => peer' = "dead"
                    /\ connClosed => connClosed'
                    /\ deadline => deadline'
           Timers == place = "serving" => \A t \in Timeouts :
              /\ beat[t] = "armed" => beat'[t] \in {"armed", "beating"}
              /\ beat[t] = "arming" => beat'[t] = "arming" \/ \E u \in Timeouts : beat'[u] = "armed"
              /\ beat[t] = "beating" => beat'[t] = "beating" \/ connClosed' \/ beat'[t] = "arming"
<1> USE DEF config, conn, beats
<1>t. beat \in [Timeouts -> {"armed", "beating", "arming", "storing", "over"}]
  BY DEF ChainInv, ChainType
<1>1. ASSUME NEW t \in Timeouts, Start(t) PROVE Still /\ Timers
  BY <1>1 DEF Start, Calling
<1>2. ASSUME StoreFirst \/ SetReadDeadline \/ UserHandler \/ EndOfHandlers PROVE Still /\ Timers
  BY <1>2 DEF StoreFirst, SetReadDeadline, UserHandler, EndOfHandlers, Calling
<1>3. ASSUME HandlerReturns \/ TakeTask \/ CancelTask \/ NothingToUndo \/ CloseConn \/ ReadTimesOut
      PROVE  Still /\ Timers
  BY <1>3 DEF HandlerReturns, TakeTask, CancelTask, NothingToUndo, CloseConn, ReadTimesOut, Calling
<1>4. ASSUME PeerGoes \/ ClosedElsewhere \/ UNCHANGED bvars PROVE Still /\ Timers
  BY <1>4 DEF PeerGoes, ClosedElsewhere, bvars
<1>5. ASSUME NEW t \in Timeouts, Fires(t) \/ Beat(t) \/ BeatFails(t) \/ StoreNext(t) PROVE Still /\ Timers
  BY <1>5, <1>t DEF Fires, Beat, BeatFails, StoreNext, MoveTimer
<1>6. ASSUME NEW t \in Timeouts, ArmNext(t) PROVE Still /\ Timers
  <2>1. PICK u \in Unused : beat' = [beat EXCEPT ![t] = "storing", ![u] = "armed"]
    BY <1>6 DEF ArmNext
  <2>2. u \in Timeouts /\ beat[u] = "over" /\ beat[t] = "arming" /\ beat'[u] = "armed"
    BY <1>6, <1>t, <2>1 DEF ArmNext, Unused
  <2>3. \A v \in Timeouts \ {t, u} : beat'[v] = beat[v]
    BY <1>t, <2>1
  <2> QED BY <1>6, <2>2, <2>3 DEF ArmNext
<1>7. ReadEnds => HandlerReturns
  BY DEF ReadEnds
<1>8. Still /\ Timers
  BY <1>1, <1>2, <1>3, <1>4, <1>5, <1>6, <1>7 DEF HeartbeatNext, ConnSteps, Callback
<1> QED BY <1>8 DEF Written, Overdue, Added

(* While its peer is written to, a handler that waits for its Timeout or   *)
(* arms the next one comes to its write.                                   *)
LEMMA WritesComeUp ==
  HeartbeatSpec /\ HeartbeatsRun /\ TimeoutsSuffice => (Written ~> (Failing \/ ~Written))
<1> DEFINE Goal == Failing \/ ~Written
           Armed(t) == Written /\ beat[t] = "armed"
           Arming(t) == Written /\ beat[t] = "arming"
           Fair == HeartbeatSpec /\ HeartbeatsRun /\ TimeoutsSuffice
<1>1. HeartbeatSpec => []ChainInv /\ []ChainHolds /\ [][HeartbeatNext]_bvars
  BY SpecChainInv, BeatersGoOn, PTL DEF HeartbeatSpec
<1>2. ASSUME NEW t \in Timeouts PROVE Fair => [](Armed(t) => <>Goal)
  <2>1. ChainInv /\ [HeartbeatNext]_bvars => (Armed(t) => Armed(t)' \/ Goal')
    BY WrittenMoves DEF Failing, Written
  <2>2. ChainInv /\ <<Callback(t)>>_bvars => (Armed(t) => ~Armed(t)')
    BY DEF Callback, Fires, Beat, BeatFails, ArmNext, StoreNext, MoveTimer, ChainInv, ChainType
  <2>3. Armed(t) => Going(t)
    BY DEF Going
  <2>4. HeartbeatsRun => []<>~Going(t) \/ []<><<Callback(t)>>_bvars
    BY DEF HeartbeatsRun
  <2> HIDE DEF Armed, Goal
  <2> QED BY <1>1, <2>1, <2>2, <2>3, <2>4, PTL
<1>3. ASSUME NEW t \in Timeouts PROVE Fair => [](Arming(t) => <>(Goal \/ \E u \in Timeouts : Armed(u)))
  <2> DEFINE Later == \E u \in Timeouts : Armed(u)
  <2>1. ChainInv /\ [HeartbeatNext]_bvars => (Arming(t) => Arming(t)' \/ Later' \/ Goal')
    BY WrittenMoves DEF Failing, Written
  <2>2. ChainInv /\ <<Callback(t)>>_bvars => (Arming(t) => ~Arming(t)')
    BY DEF Callback, Fires, Beat, BeatFails, ArmNext, StoreNext, MoveTimer, ChainInv, ChainType, Unused
  <2>3. Arming(t) /\ Unused # {} => Going(t)
    BY DEF Going
  <2>4. HeartbeatsRun => []<>~Going(t) \/ []<><<Callback(t)>>_bvars
    BY DEF HeartbeatsRun
  <2>5. TimeoutsSuffice => [](Unused # {})
    BY DEF TimeoutsSuffice
  <2> HIDE DEF Arming, Goal, Later
  <2>6. Fair => [](Arming(t) => <>(Goal \/ Later))
    BY <1>1, <2>1, <2>2, <2>3, <2>4, <2>5, PTL
  <2> QED BY <2>6 DEF Later
<1> DEFINE AnyArmed == \E u \in Timeouts : Armed(u)
           AnyArming == \E u \in Timeouts : Arming(u)
<1>4. ChainHolds /\ Written => AnyArmed \/ AnyArming \/ Goal
  BY DEF ChainHolds, Written, Live, Failing
<1> HIDE DEF Armed, Arming, Goal
<1>5. Fair => [](AnyArmed => <>Goal)
  <2>1. Fair => \A t \in Timeouts : [](Armed(t) => <>Goal)
    BY <1>2
  <2>2. (\A t \in Timeouts : [](Armed(t) => <>Goal)) => [](\A t \in Timeouts : (Armed(t) => <>Goal))
    OBVIOUS
  <2>3. (\A t \in Timeouts : (Armed(t) => <>Goal)) => (AnyArmed => <>Goal)
    OBVIOUS
  <2> HIDE DEF AnyArmed
  <2> QED BY <2>1, <2>2, <2>3, PTL
<1>6. Fair => [](AnyArming => <>(Goal \/ AnyArmed))
  <2>1. Fair => \A t \in Timeouts : [](Arming(t) => <>(Goal \/ AnyArmed))
    BY <1>3
  <2> HIDE DEF AnyArmed
  <2>2. (\A t \in Timeouts : [](Arming(t) => <>(Goal \/ AnyArmed)))
          => [](\A t \in Timeouts : (Arming(t) => <>(Goal \/ AnyArmed)))
    OBVIOUS
  <2>3. (\A t \in Timeouts : (Arming(t) => <>(Goal \/ AnyArmed))) => (AnyArming => <>(Goal \/ AnyArmed))
    OBVIOUS
  <2> HIDE DEF AnyArming
  <2> QED BY <2>1, <2>2, <2>3, PTL
<1> HIDE DEF AnyArmed, AnyArming
<1>7. Fair => (Written ~> Goal)
  BY <1>1, <1>4, <1>5, <1>6, PTL
<1> QED BY <1>7 DEF Goal

(* A peer that dies without a word is noticed, in whatever order the       *)
(* handlers were added.                                                    *)
THEOREM DeadPeersAreNoticed ==
  HeartbeatSpec /\ HeartbeatsRun /\ TimeoutsSuffice => DeadPeerIsNoticed
<1> DEFINE Closed == place = "serving" /\ connClosed
           Goal == place # "serving"
           Dead == place = "serving" /\ peer = "dead" /\ (deadline \/ (writing /\ Added \cap Beaters # {}))
<1>1. HeartbeatSpec => []ChainInv /\ [][HeartbeatNext]_bvars
  BY SpecChainInv, PTL DEF HeartbeatSpec
<1>2. ChainInv /\ [HeartbeatNext]_bvars =>
        /\ Written => Written' \/ Closed' \/ Goal'
        /\ Overdue => Overdue' \/ Closed' \/ Goal'
        /\ Closed => Closed' \/ Goal'
  BY WrittenMoves
<1>3. Dead => Overdue \/ Written \/ Closed
  BY DEF Overdue, Written
<1>4. <<ConnSteps>>_bvars => (Closed => Goal')
  BY DEF ConnSteps, Start, StoreFirst, SetReadDeadline, UserHandler, EndOfHandlers, ReadEnds, HandlerReturns,
         TakeTask, CancelTask, NothingToUndo, CloseConn, Calling
<1>5. <<peer = "dead" /\ ReadTimesOut>>_bvars => (Overdue => ~Overdue')
  BY DEF ReadTimesOut, Overdue
<1>6. <<\E t \in Timeouts : BeatFails(t)>>_bvars => ~Written'
  BY DEF BeatFails, Written
<1>7. Closed => Ending
  BY DEF Ending
<1>8. HeartbeatsRun => /\ []<>~Ending \/ []<><<ConnSteps>>_bvars
                       /\ []<>~Overdue \/ []<><<peer = "dead" /\ ReadTimesOut>>_bvars
                       /\ <>[]~Failing \/ []<><<\E t \in Timeouts : BeatFails(t)>>_bvars
  BY DEF HeartbeatsRun
<1> HIDE DEF Closed, Goal, Dead
<1>9. HeartbeatSpec /\ HeartbeatsRun /\ TimeoutsSuffice => (Closed ~> Goal)
  BY <1>1, <1>2, <1>4, <1>7, <1>8, PTL
<1>10. HeartbeatSpec /\ HeartbeatsRun /\ TimeoutsSuffice => (Overdue ~> Goal)
  BY <1>1, <1>2, <1>5, <1>8, <1>9, PTL
<1>11. HeartbeatSpec /\ HeartbeatsRun /\ TimeoutsSuffice => (Written ~> ~Written)
  BY <1>1, <1>6, <1>8, WritesComeUp, PTL
<1>12. HeartbeatSpec /\ HeartbeatsRun /\ TimeoutsSuffice => (Written ~> Goal)
  BY <1>1, <1>2, <1>9, <1>11, PTL
<1>13. HeartbeatSpec /\ HeartbeatsRun /\ TimeoutsSuffice => (Dead ~> Goal)
  BY <1>3, <1>9, <1>10, <1>12, PTL
<1> QED BY <1>13 DEF Dead, Goal, DeadPeerIsNoticed

-----------------------------------------------------------------------------
(* The end of the heartbeats of b.  Its OnConnected may still come.        *)
MayStart(b) ==
  \E i \in 1..Len(handlers) :
    /\ handlers[i] = b
    /\ (place = "connecting" /\ at <= i) \/ (place = "storing" /\ at < i)

Quiet(b) == \A t \in Timeouts : Alive(t) => owner[t] # b
At(t, b, where) == owner[t] = b /\ beat[t] = where

(* What a step does to the heartbeats of a handler whose writes fail.      *)
LEMMA ClosedMoves ==
  ASSUME ChainInv, [HeartbeatNext]_bvars, connClosed, writing, NEW b \in Beaters
  PROVE  /\ connClosed' /\ writing'
         /\ MayStart(b)' => MayStart(b)
         /\ Quiet(b) /\ ~MayStart(b) => Quiet(b)'
         /\ \A t \in Timeouts :
              /\ At(t, b, "armed") => (At(t, b, "armed") \/ At(t, b, "beating") \/ Quiet(b))'
              /\ At(t, b, "beating") => (At(t, b, "beating") \/ Quiet(b))'
              /\ At(t, b, "arming") => At(t, b, "arming")' \/ \E u \in Timeouts : At(u, b, "armed")'
<1> DEFINE Walk == /\ connClosed' /\ writing'
                   /\ MayStart(b)' => MayStart(b)
           Chain == /\ Quiet(b) /\ ~MayStart(b) => Quiet(b)'
                    /\ \A t \in Timeouts :
                         /\ At(t, b, "armed") => (At(t, b, "armed") \/ At(t, b, "beating") \/ Quiet(b))'
                         /\ At(t, b, "beating") => (At(t, b, "beating") \/ Quiet(b))'
                         /\ At(t, b, "arming") =>
                              At(t, b, "arming")' \/ \E u \in Timeouts : At(u, b, "armed")'
<1> USE DEF config, conn, beats
<1>t. /\ ChainType /\ OwnersOK /\ ChainOK /\ NotStartedOK
      /\ beat \in [Timeouts -> {"armed", "beating", "arming", "storing", "over"}]
      /\ at \in Nat /\ owner \in [Timeouts -> Beaters]
  BY DEF ChainInv, ChainType
<1>a. (UNCHANGED <<beat, owner>>) => Chain
  BY DEF Quiet, At, Alive
<1>b. (UNCHANGED <<handlers, writing, place, at>> /\ connClosed') => Walk
  BY DEF MayStart
<1>1. ASSUME NEW t \in Timeouts, Start(t) PROVE Walk /\ Chain
  <2>1. PICK c \in Beaters : Calling("connecting", c) /\ owner' = [owner EXCEPT ![t] = c]
    BY <1>1 DEF Start
  <2>2. /\ t \in Unused /\ beat[t] = "over" /\ beat' = [beat EXCEPT ![t] = "armed"]
        /\ place = "connecting" /\ place' = "storing" /\ at' = at
        /\ at \in 1..Len(handlers) /\ handlers[at] = c
        /\ UNCHANGED <<handlers, writing, connClosed>>
    BY <1>1, <1>t, <2>1 DEF Start, Calling, Unused, ChainType
  <2>3. Walk
    BY <2>2, <1>t DEF MayStart
  <2>4. \A u \in Timeouts \ {t} : beat'[u] = beat[u] /\ owner'[u] = owner[u]
    BY <1>t, <2>1, <2>2
  <2>5. CASE b = c
    <3>1. Quiet(b) /\ MayStart(b)
      BY <2>2, <2>5, <1>t DEF NotStartedOK, Quiet, MayStart
    <3>2. \A u \in Timeouts : ~At(u, b, "armed") /\ ~At(u, b, "beating") /\ ~At(u, b, "arming")
      BY <3>1 DEF Quiet, At, Alive
    <3> QED BY <2>3, <3>1, <3>2
  <2>6. CASE b # c
    <3>1. \A u \in Timeouts : /\ owner'[u] = b => u # t /\ owner[u] = b
                              /\ Alive(u) => u # t
      BY <1>t, <2>1, <2>2, <2>4, <2>6 DEF Alive
    <3> QED BY <2>3, <2>4, <3>1, <2>2 DEF Quiet, At, Alive
  <2> QED BY <2>5, <2>6
<1>2. ASSUME StoreFirst PROVE Walk /\ Chain
  BY <1>2, <1>a, <1>t DEF StoreFirst, MayStart
<1>3. ASSUME SetReadDeadline \/ UserHandler \/ EndOfHandlers PROVE Walk /\ Chain
  <2>1. /\ UNCHANGED <<handlers, writing, connClosed, beat, owner>>
        /\ \/ at' = at + 1 /\ place' = place
           \/ at' = at /\ place' \in {"serving", "closing"}
    BY <1>3 DEF SetReadDeadline, UserHandler, EndOfHandlers, Calling, Passes, Stops
  <2>2. MayStart(b)' => MayStart(b)
    BY <2>1, <1>t DEF MayStart
  <2> QED BY <1>a, <2>1, <2>2
<1>4. ASSUME HandlerReturns \/ TakeTask \/ NothingToUndo \/ CloseConn \/ ReadTimesOut PROVE Walk /\ Chain
  BY <1>4, <1>a DEF HandlerReturns, TakeTask, NothingToUndo, CloseConn, ReadTimesOut, Calling, Passes, MayStart
<1>5. ASSUME CancelTask PROVE Walk /\ Chain
  <2>1. Walk
    BY <1>5 DEF CancelTask, MayStart
  <2>2. CASE beat' = [beat EXCEPT ![held] = "over"] /\ beat[held] = "armed" /\ UNCHANGED owner
    <3>1. held \in Timeouts
      BY <1>5, <1>t DEF CancelTask, OwnersOK
    <3>2. /\ beat'[held] = "over" /\ Alive(held)
          /\ \A u \in Timeouts \ {held} : beat'[u] = beat[u]
      BY <1>t, <2>2, <3>1 DEF Alive
    <3>3. owner[held] = b => Quiet(b)'
      BY <1>t, <2>2, <3>1, <3>2 DEF Quiet, Alive, ChainOK
    <3> QED BY <2>1, <2>2, <3>2, <3>3 DEF Quiet, At, Alive
  <2> QED BY <1>5, <1>a, <2>1, <2>2 DEF CancelTask
<1>6. ASSUME PeerGoes \/ ClosedElsewhere \/ UNCHANGED bvars PROVE Walk /\ Chain
  BY <1>6, <1>a, <1>b DEF PeerGoes, ClosedElsewhere, bvars
<1>7. ASSUME NEW t \in Timeouts, Fires(t) \/ Beat(t) \/ BeatFails(t) \/ StoreNext(t) PROVE Walk /\ Chain
  <2>1. /\ Walk /\ UNCHANGED owner
        /\ \A u \in Timeouts \ {t} : beat'[u] = beat[u]
        /\ \/ beat[t] = "armed" /\ beat'[t] = "beating"
           \/ beat[t] = "beating" /\ beat'[t] = "over"
           \/ beat[t] = "storing" /\ beat'[t] = "over"
    BY <1>7, <1>b, <1>t DEF Fires, Beat, BeatFails, StoreNext, MoveTimer
  <2>2. beat[t] = "beating" /\ owner[t] = b => \A u \in Timeouts \ {t} : Alive(u) => owner[u] # b
    BY <1>t DEF ChainOK, Alive
  <2> QED BY <2>1, <2>2 DEF Quiet, At, Alive
<1>8. ASSUME NEW t \in Timeouts, ArmNext(t) PROVE Walk /\ Chain
  <2>1. PICK u \in Unused : /\ beat' = [beat EXCEPT ![t] = "storing", ![u] = "armed"]
                            /\ owner' = [owner EXCEPT ![u] = owner[t]]
    BY <1>8 DEF ArmNext
  <2>2. /\ u \in Timeouts /\ beat[u] = "over" /\ beat[t] = "arming" /\ u # t
        /\ beat'[u] = "armed" /\ beat'[t] = "storing" /\ owner'[u] = owner[t] /\ owner'[t] = owner[t]
        /\ \A v \in Timeouts \ {t, u} : beat'[v] = beat[v] /\ owner'[v] = owner[v]
    BY <1>8, <1>t, <2>1 DEF ArmNext, Unused
  <2>3. Walk
    BY <1>8, <1>b DEF ArmNext
  <2> QED BY <2>2, <2>3 DEF Quiet, At, Alive
<1>9. ReadEnds => HandlerReturns
  BY DEF ReadEnds
<1>10. Walk /\ Chain
  BY <1>1, <1>2, <1>3, <1>4, <1>5, <1>6, <1>7, <1>8, <1>9 DEF HeartbeatNext, ConnSteps, Callback
<1> QED BY <1>10

(* One step of a chain: who is fair to every Timeout gets on with it.      *)
LEMMA ChainsRunOut ==
  ASSUME NEW b \in Beaters
  PROVE  HeartbeatSpec /\ HeartbeatsRun /\ TimeoutsSuffice => ((connClosed /\ writing) ~> Quiet(b))
<1> DEFINE Over == connClosed /\ writing
           Fair == HeartbeatSpec /\ HeartbeatsRun /\ TimeoutsSuffice
           Armed(t) == Over /\ At(t, b, "armed")
           Beating(t) == Over /\ At(t, b, "beating")
           Arming(t) == Over /\ At(t, b, "arming")
           AnyArmed == \E t \in Timeouts : Armed(t)
           AnyArming == \E t \in Timeouts : Arming(t)
           AnyBeating == \E t \in Timeouts : Beating(t)
           Goal == Quiet(b)
<1>1. HeartbeatSpec => []ChainInv /\ [][HeartbeatNext]_bvars
  BY SpecChainInv, PTL DEF HeartbeatSpec
<1>2. ASSUME NEW t \in Timeouts
      PROVE  /\ Fair => [](Beating(t) => <>Goal)
             /\ Fair => [](Armed(t) => <>(Beating(t) \/ Goal))
             /\ Fair => [](Arming(t) => <>AnyArmed)
  <2>1. ChainInv /\ [HeartbeatNext]_bvars =>
          /\ Beating(t) => Beating(t)' \/ Goal'
          /\ Armed(t) => Armed(t)' \/ Beating(t)' \/ Goal'
          /\ Arming(t) => Arming(t)' \/ AnyArmed'
    BY ClosedMoves
  <2>2. ChainInv /\ <<Callback(t)>>_bvars =>
          /\ Beating(t) => ~Beating(t)'
          /\ Armed(t) => ~Armed(t)'
          /\ Arming(t) => ~Arming(t)'
    BY DEF Callback, Fires, Beat, BeatFails, ArmNext, StoreNext, MoveTimer, ChainInv, ChainType, At, Unused
  <2>3. /\ Beating(t) \/ Armed(t) => Going(t)
        /\ Arming(t) /\ Unused # {} => Going(t)
    BY DEF Going, At
  <2>4. HeartbeatsRun => []<>~Going(t) \/ []<><<Callback(t)>>_bvars
    BY DEF HeartbeatsRun
  <2>5. TimeoutsSuffice => [](Unused # {})
    BY DEF TimeoutsSuffice
  <2> HIDE DEF Armed, Beating, Arming, AnyArmed, Goal
  <2> QED BY <1>1, <2>1, <2>2, <2>3, <2>4, <2>5, PTL
<1>3. Over => AnyArmed \/ AnyArming \/ AnyBeating \/ Goal
  BY DEF Quiet, Alive, At
<1> HIDE DEF Over, Armed, Beating, Arming, Goal
<1>4. Fair => [](AnyBeating => <>Goal)
  <2>1. Fair => \A t \in Timeouts : [](Beating(t) => <>Goal)
    BY <1>2
  <2>2. (\A t \in Timeouts : [](Beating(t) => <>Goal)) => [](\A t \in Timeouts : (Beating(t) => <>Goal))
    OBVIOUS
  <2>3. (\A t \in Timeouts : (Beating(t) => <>Goal)) => (AnyBeating => <>Goal)
    OBVIOUS
  <2> HIDE DEF AnyBeating
  <2> QED BY <2>1, <2>2, <2>3, PTL
<1>5. Fair => [](AnyArmed => <>(AnyBeating \/ Goal))
  <2>1. ASSUME NEW t \in Timeouts PROVE Fair => [](Armed(t) => <>(AnyBeating \/ Goal))
    <3>1. Beating(t) => AnyBeating
      OBVIOUS
    <3>2. Fair => [](Armed(t) => <>(Beating(t) \/ Goal))
      BY <1>2
    <3> HIDE DEF AnyBeating
    <3> QED BY <3>1, <3>2, PTL
  <2> HIDE DEF AnyBeating
  <2>2. Fair => \A t \in Timeouts : [](Armed(t) => <>(AnyBeating \/ Goal))
    BY <2>1
  <2>3. (\A t \in Timeouts : [](Armed(t) => <>(AnyBeating \/ Goal)))
          => [](\A t \in Timeouts : (Armed(t) => <>(AnyBeating \/ Goal)))
    OBVIOUS
  <2>4. (\A t \in Timeouts : (Armed(t) => <>(AnyBeating \/ Goal))) => (AnyArmed => <>(AnyBeating \/ Goal))
    OBVIOUS
  <2> HIDE DEF AnyArmed
  <2> QED BY <2>2, <2>3, <2>4, PTL
<1>6. Fair => [](AnyArming => <>AnyArmed)
  <2>1. Fair => \A t \in Timeouts : [](Arming(t) => <>AnyArmed)
    BY <1>2
  <2> HIDE DEF AnyArmed
  <2>2. (\A t \in Timeouts : [](Arming(t) => <>AnyArmed)) => [](\A t \in Timeouts : (Arming(t) => <>AnyArmed))
    OBVIOUS
  <2>3. (\A t \in Timeouts : (Arming(t) => <>AnyArmed)) => (AnyArming => <>AnyArmed)
    OBVIOUS
  <2> HIDE DEF AnyArming
  <2> QED BY <2>1, <2>2, <2>3, PTL
<1> HIDE DEF AnyArmed, AnyArming, AnyBeating
<1>7. Fair => (Over ~> Goal)
  BY <1>3, <1>4, <1>5, <1>6, PTL
<1> QED BY <1>7 DEF Over, Goal

(* Once a chain of a closed connection is over it stays so.                *)
LEMMA ChainsStayOver ==
  ASSUME NEW b \in Beaters
  PROVE  HeartbeatSpec /\ HeartbeatsRun /\ TimeoutsSuffice => ((connClosed /\ writing) ~> []Quiet(b))
<1> DEFINE Over == connClosed /\ writing
           Fair == HeartbeatSpec /\ HeartbeatsRun /\ TimeoutsSuffice
<1>1. HeartbeatSpec => []ChainInv /\ [][HeartbeatNext]_bvars
  BY SpecChainInv, PTL DEF HeartbeatSpec
<1>2. ChainInv /\ [HeartbeatNext]_bvars /\ Over =>
        /\ Over'
        /\ MayStart(b)' => MayStart(b)
        /\ Quiet(b) /\ ~MayStart(b) => Quiet(b)'
  BY ClosedMoves
<1>3. ChainInv /\ MayStart(b) => Quiet(b)
  BY DEF ChainInv, NotStartedOK, MayStart, Quiet
<1>4. Fair => (Over ~> Quiet(b))
  BY ChainsRunOut
<1> HIDE DEF Over
<1>5. Fair => (Over ~> []Quiet(b))
  BY <1>1, <1>2, <1>3, <1>4, PTL
<1> QED BY <1>5 DEF Over

(* When the connection is closed, heartbeats with a write function end for *)
(* good, also those whose entry OnDisconnected did not find.               *)
THEOREM HeartbeatsEnd == HeartbeatSpec /\ HeartbeatsRun /\ TimeoutsSuffice => BeatsEnd
<1> DEFINE Over == connClosed /\ writing
           Fair == HeartbeatSpec /\ HeartbeatsRun /\ TimeoutsSuffice
           NoBeats == Live("heartbeat") = {}
           NoEnquiries == Live("enquire") = {}
           Silent == \A b \in Beaters : Live(b) = {}
<1>1. Fair => (Over ~> []NoBeats)
  <2>1. PICK b \in Beaters : b = "heartbeat"
    BY DEF Beaters
  <2>2. Fair => (Over ~> []Quiet(b))
    BY ChainsStayOver
  <2>3. Quiet(b) => NoBeats
    BY <2>1 DEF Quiet, Alive, Live
  <2> HIDE DEF Fair, Over, NoBeats
  <2> QED BY <2>2, <2>3, PTL
<1>2. Fair => (Over ~> []NoEnquiries)
  <2>1. PICK b \in Beaters : b = "enquire"
    BY DEF Beaters
  <2>2. Fair => (Over ~> []Quiet(b))
    BY ChainsStayOver
  <2>3. Quiet(b) => NoEnquiries
    BY <2>1 DEF Quiet, Alive, Live
  <2> HIDE DEF Fair, Over, NoEnquiries
  <2> QED BY <2>2, <2>3, PTL
<1>3. NoBeats /\ NoEnquiries => Silent
  BY DEF Beaters
<1> HIDE DEF Silent, Fair, Over, NoBeats, NoEnquiries
<1>4. Fair => (Over ~> []Silent)
  BY <1>1, <1>2, <1>3, PTL
<1> QED BY <1>4 DEF Fair, Over, Silent, BeatsEnd
============================================================================
