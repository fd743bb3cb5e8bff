----------------------- MODULE TimeoutableMapProofs -----------------------
(***************************************************************************)
(* The invariants of TimeoutableMap, and the end of every entry, for any   *)
(* number of keys, entries and goroutines. The provers do not know         *)
(* ENABLED: fairness is written out, with the enabling condition of each   *)
(* action read off its guards.                                             *)
(***************************************************************************)
EXTENDS TimeoutableMap, TLAPS

(* The goroutines that hold an entry they work on. *)
Holding == {"swapping", "arming", "checking", "cancelling", "forgetting", "deleting"}

(* An entry in the map is stored under its own key and given to nobody. *)
StoredOK ==
  \A k \in Keys : items[k] # NoEntry => keyOf[items[k]] = k /\ given[items[k]] = 0

(* What a goroutine inside a call knows of the entry it holds. *)
HeldOK ==
  \A p \in Procs :
    /\ pc[p] \in Holding => cur[p] \in Entries /\ keyOf[cur[p]] \in Keys
    /\ pc[p] = "swapping" =>
         /\ op[p] = "Put"
         /\ given[cur[p]] = 0
         /\ items[keyOf[cur[p]]] # cur[p]
         /\ \A q \in Procs \ {p} : pc[q] = "swapping" => cur[q] # cur[p]
    /\ pc[p] \in {"checking", "cancelling"} =>
         /\ op[p] \in {"Put", "Remove", "Cancel", "Clear"}
         /\ op[p] \in {"Put", "Remove"} => given[cur[p]] > 0
    /\ pc[p] \in {"ranging", "deleting"} => op[p] = "Clear"

(* How the timer, the cancellation and the handler of an entry relate. *)
TimersOK ==
  \A e \in Entries :
    /\ keyOf[e] = NoKey => given[e] = 0 /\ timer[e] = "none" /\ e \notin cancelled
    /\ e \in cancelled => given[e] > 0 \/ e \in silenced
    /\ timer[e] = "done" => e \in handled
    /\ e \in Timed /\ keyOf[e] # NoKey /\ timer[e] = "none" =>
         \E p \in Procs : pc[p] = "arming" /\ cur[p] = e

IInv == TypeOK /\ GivenOnce /\ StoredOK /\ HeldOK /\ TimersOK

-----------------------------------------------------------------------------
LEMMA InitIInv == Init => IInv
  BY MapAssumption DEF Init, IInv, TypeOK, GivenOnce, StoredOK, HeldOK, TimersOK, Holding

LEMMA NextIInv == IInv /\ [Next]_vars => IInv'
<1> USE MapAssumption DEF evars, hvars, pvars, Goto, Finish, Call
<1> SUFFICES ASSUME IInv, [Next]_vars PROVE IInv'
  OBVIOUS
<1>t. TypeOK /\ GivenOnce /\ StoredOK /\ HeldOK /\ TimersOK
  BY DEF IInv
<1>1. ASSUME NEW p \in Procs, NEW k \in Keys, NEW e \in Entries, PutArm(p, k, e) PROVE IInv'
  <2>1. TypeOK'
    BY <1>1, <1>t DEF PutArm, Arm, TypeOK, Methods
  <2>2. GivenOnce' /\ StoredOK'
    BY <1>1, <1>t DEF PutArm, TypeOK, GivenOnce, StoredOK, TimersOK
  <2>3. HeldOK'
    BY <1>1, <1>t DEF PutArm, TypeOK, StoredOK, HeldOK, TimersOK, Holding
  <2>4. TimersOK'
    BY <1>1, <1>t DEF PutArm, Arm, TypeOK, TimersOK
  <2> QED BY <2>1, <2>2, <2>3, <2>4 DEF IInv
<1>2. ASSUME NEW p \in Procs, PutSwap(p) PROVE IInv'
  <2>1. TypeOK'
    BY <1>2, <1>t DEF PutSwap, TypeOK, HeldOK, Holding
  <2>2. GivenOnce' /\ StoredOK'
    BY <1>2, <1>t DEF PutSwap, TypeOK, GivenOnce, StoredOK, HeldOK, Holding
  <2>3. HeldOK'
    <3> DEFINE prev == items[keyOf[cur[p]]]
    <3>1. /\ cur[p] \in Entries /\ keyOf[cur[p]] \in Keys /\ prev # cur[p]
          /\ prev \in Entries \cup {NoEntry}
      BY <1>2, <1>t DEF PutSwap, TypeOK, HeldOK, Holding
    (* The previous entry is in the map, so nobody else is about to swap it in. *)
    <3>2. \A q \in Procs \ {p} : pc[q] = "swapping" => cur[q] # prev /\ cur[q] # cur[p]
      BY <1>2, <1>t, <3>1 DEF PutSwap, TypeOK, StoredOK, HeldOK, Holding
    <3>3. CASE prev = NoEntry
      BY <1>2, <1>t, <3>1, <3>2, <3>3 DEF PutSwap, TypeOK, HeldOK, Holding
    <3>4. CASE prev # NoEntry
      <4>1. /\ pc' = [pc EXCEPT ![p] = "checking"] /\ cur' = [cur EXCEPT ![p] = prev]
            /\ given' = [given EXCEPT ![prev] = @ + 1]
            /\ op' = op
        BY <1>2, <3>4 DEF PutSwap
      <4> HIDE DEF prev
      <4>2. given'[prev] > 0 /\ \A e \in Entries \ {prev} : given'[e] = given[e]
        BY <4>1, <3>1, <3>4, <1>t DEF TypeOK
      <4>3. /\ \A e \in Entries : given'[e] >= given[e]
            /\ \A e \in Entries : given[e] \in Nat /\ given'[e] \in Nat
        BY <4>1, <3>1, <3>4, <1>t DEF TypeOK
      <4>4. keyOf[prev] \in Keys
        BY <3>1, <3>4, <1>t DEF StoredOK, prev
      <4>5. /\ \A q \in Procs \ {p} : pc'[q] = pc[q] /\ cur'[q] = cur[q]
            /\ pc'[p] = "checking" /\ cur'[p] = prev
            /\ UNCHANGED <<keyOf, op>>
            /\ \A k \in Keys \ {keyOf[cur[p]]} : items'[k] = items[k]
            /\ items'[keyOf[cur[p]]] = cur[p]
            /\ op[p] = "Put"
        BY <1>2, <1>t, <3>1, <4>1 DEF PutSwap, TypeOK, HeldOK
      <4>6. ASSUME NEW q \in Procs \ {p}
            PROVE  /\ pc[q] = "swapping" =>
                        /\ given'[cur[q]] = 0
                        /\ items'[keyOf[cur[q]]] # cur[q]
                        /\ \A r \in Procs \ {q} : pc'[r] = "swapping" => cur'[r] # cur[q]
                   /\ pc[q] \in {"checking", "cancelling"} /\ op[q] \in {"Put", "Remove"} =>
                        given'[cur[q]] > 0
        BY <1>t, <3>1, <3>2, <4>2, <4>3, <4>5 DEF HeldOK, Holding
      <4> QED BY <1>t, <3>1, <3>4, <4>2, <4>4, <4>5, <4>6 DEF HeldOK, Holding
    <3> QED BY <3>3, <3>4
  <2>4. TimersOK'
    BY <1>2, <1>t DEF PutSwap, TypeOK, StoredOK, HeldOK, TimersOK, Holding
  <2> QED BY <2>1, <2>2, <2>3, <2>4 DEF IInv
<1>3. ASSUME NEW p \in Procs, NEW k \in Keys, NEW e \in Entries, PutIfAbsentStore(p, k, e)
      PROVE  IInv'
  <2>1. TypeOK'
    BY <1>3, <1>t DEF PutIfAbsentStore, TypeOK, Methods
  <2>2. GivenOnce' /\ StoredOK'
    BY <1>3, <1>t DEF PutIfAbsentStore, TypeOK, GivenOnce, StoredOK, TimersOK
  <2>3. HeldOK'
    BY <1>3, <1>t DEF PutIfAbsentStore, TypeOK, StoredOK, HeldOK, TimersOK, Holding
  <2>4. TimersOK'
    BY <1>3, <1>t DEF PutIfAbsentStore, TypeOK, TimersOK
  <2> QED BY <2>1, <2>2, <2>3, <2>4 DEF IInv
<1>4. ASSUME NEW p \in Procs, PutIfAbsentArm(p) PROVE IInv'
  <2>1. TypeOK'
    BY <1>4, <1>t DEF PutIfAbsentArm, Arm, TypeOK
  <2>2. GivenOnce' /\ StoredOK'
    BY <1>4, <1>t DEF PutIfAbsentArm, GivenOnce, StoredOK
  <2>3. HeldOK'
    BY <1>4, <1>t DEF PutIfAbsentArm, TypeOK, HeldOK, Holding
  <2>4. TimersOK'
    BY <1>4, <1>t DEF PutIfAbsentArm, Arm, TypeOK, HeldOK, TimersOK, Holding
  <2> QED BY <2>1, <2>2, <2>3, <2>4 DEF IInv
<1>5. ASSUME NEW p \in Procs, NEW k \in Keys, Remove(p, k) PROVE IInv'
  <2>1. TypeOK'
    BY <1>5, <1>t DEF Remove, TypeOK, Methods
  <2>2. GivenOnce' /\ StoredOK'
    BY <1>5, <1>t DEF Remove, TypeOK, GivenOnce, StoredOK
  <2>3. HeldOK'
    BY <1>5, <1>t DEF Remove, TypeOK, StoredOK, HeldOK, Holding
  <2>4. TimersOK'
    BY <1>5, <1>t DEF Remove, TypeOK, StoredOK, TimersOK
  <2> QED BY <2>1, <2>2, <2>3, <2>4 DEF IInv
<1>6. ASSUME NEW p \in Procs, NEW k \in Keys, CancelLoad(p, k) PROVE IInv'
  BY <1>6, <1>t DEF CancelLoad, IInv, TypeOK, GivenOnce, StoredOK, HeldOK, TimersOK, Holding, Methods
<1>7. ASSUME NEW p \in Procs, ClearStart(p) \/ ClearEnd(p) PROVE IInv'
  BY <1>7, <1>t, SMTT(20) DEF ClearStart, ClearEnd, IInv, TypeOK, GivenOnce, StoredOK, HeldOK, TimersOK,
                    Holding, Methods
<1>8. ASSUME NEW p \in Procs, ClearVisit(p) PROVE IInv'
  <2>1. PICK k \in todo[p] :
          /\ todo' = [todo EXCEPT ![p] = @ \ {k}]
          /\ IF items[k] = NoEntry
             THEN Goto(p, "ranging", NoEntry)
             ELSE Goto(p, "checking", items[k])
    BY <1>8 DEF ClearVisit
  <2>2. k \in Keys /\ pc[p] = "ranging" /\ op[p] = "Clear"
    BY <1>8, <1>t DEF ClearVisit, TypeOK, HeldOK
  <2>3. TypeOK' /\ GivenOnce' /\ StoredOK'
    BY <1>8, <1>t, <2>1, <2>2 DEF ClearVisit, TypeOK, GivenOnce, StoredOK
  <2>4. HeldOK' /\ TimersOK'
    BY <1>8, <1>t, <2>1, <2>2 DEF ClearVisit, TypeOK, StoredOK, HeldOK, TimersOK, Holding
  <2> QED BY <2>3, <2>4 DEF IInv
<1>9. ASSUME NEW p \in Procs, pc[p] \in {"checking", "cancelling"},
             AfterCancel(p, TRUE) \/ AfterCancel(p, FALSE)
      PROVE  /\ pc' \in [Procs -> {"idle", "swapping", "arming", "ranging", "checking",
                                   "cancelling", "forgetting", "deleting", "panicked"}]
             /\ cur' \in [Procs -> Entries \cup {NoEntry}] /\ returned' \subseteq Entries
             /\ op' \in [Procs -> Methods \cup {"none"}]
             /\ \A q \in Procs \ {p} : pc'[q] = pc[q] /\ cur'[q] = cur[q] /\ op'[q] = op[q]
             /\ pc'[p] \in {"idle", "forgetting", "deleting"}
             /\ pc'[p] # "idle" => cur'[p] = cur[p]
             /\ pc'[p] = "deleting" => op'[p] = "Clear"
  BY <1>9, <1>t DEF AfterCancel, TypeOK, HeldOK, Holding
<1>10. ASSUME NEW p \in Procs, CheckTask(p) PROVE IInv'
  <2>1. CASE cur[p] \in task
    BY <1>10, <1>t, <2>1, SMTT(20) DEF CheckTask, IInv, TypeOK, GivenOnce, StoredOK, HeldOK, TimersOK, Holding
  <2>2. CASE cur[p] \notin task
    <3>1. pc[p] = "checking" /\ AfterCancel(p, FALSE) /\ UNCHANGED <<evars, given, silenced, todo>>
      BY <1>10, <2>2 DEF CheckTask
    <3>2. TypeOK' /\ GivenOnce' /\ StoredOK'
      BY <1>t, <3>1, <1>9 DEF TypeOK, GivenOnce, StoredOK
    <3>a. /\ \A q \in Procs \ {p} : pc'[q] = pc[q] /\ cur'[q] = cur[q] /\ op'[q] = op[q]
          /\ pc'[p] \in {"idle", "forgetting", "deleting"}
          /\ pc'[p] # "idle" => cur'[p] = cur[p]
          /\ pc'[p] = "deleting" => op'[p] = "Clear"
          /\ pc[p] = "checking"
      BY <3>1, <1>9
    <3>b. UNCHANGED <<items, keyOf, timer, cancelled, handled, given, silenced>>
      BY <3>1
    <3>3. HeldOK'
      BY <1>t, <3>a, <3>b DEF HeldOK, Holding
    <3>4. TimersOK'
      BY <1>t, <3>a, <3>b DEF TimersOK
    <3> QED BY <3>2, <3>3, <3>4 DEF IInv
  <2> QED BY <2>1, <2>2
<1>11. ASSUME NEW p \in Procs, CancelTimeout(p) PROVE IInv'
  <2>1. /\ pc[p] = "cancelling" /\ AfterCancel(p, TRUE) /\ UNCHANGED todo
        /\ cancelled' = cancelled \cup {cur[p]}
        /\ silenced' = IF op[p] \in {"Cancel", "Clear"} THEN silenced \cup {cur[p]} ELSE silenced
        /\ UNCHANGED <<items, keyOf, via, task, timer, handled, given>>
    BY <1>11 DEF CancelTimeout
  <2>2. /\ cur[p] \in Entries /\ keyOf[cur[p]] \in Keys
        /\ given[cur[p]] > 0 \/ cur[p] \in silenced'
    BY <2>1, <1>t DEF HeldOK, Holding
  <2>3. TypeOK' /\ GivenOnce' /\ StoredOK'
    <3>1. /\ pc' \in [Procs -> {"idle", "swapping", "arming", "ranging", "checking",
                                "cancelling", "forgetting", "deleting", "panicked"}]
          /\ cur' \in [Procs -> Entries \cup {NoEntry}] /\ returned' \subseteq Entries
          /\ op' \in [Procs -> Methods \cup {"none"}]
      BY <2>1, <1>9
    <3>2. cancelled' \subseteq Entries /\ silenced' \subseteq Entries
      BY <1>t, <2>1, <2>2 DEF TypeOK
    <3>3. TypeOK'
      BY <1>t, <2>1, <3>1, <3>2 DEF TypeOK
    <3>4. GivenOnce' /\ StoredOK'
      BY <1>t, <2>1 DEF GivenOnce, StoredOK
    <3> QED BY <3>3, <3>4
  <2>a. /\ \A q \in Procs \ {p} : pc'[q] = pc[q] /\ cur'[q] = cur[q] /\ op'[q] = op[q]
        /\ pc'[p] \in {"idle", "forgetting", "deleting"}
        /\ pc'[p] # "idle" => cur'[p] = cur[p]
        /\ pc'[p] = "deleting" => op'[p] = "Clear"
    BY <2>1, <1>9
  <2>4. HeldOK'
    BY <1>t, <2>1, <2>a DEF HeldOK, Holding
  <2>5. TimersOK'
    BY <1>t, <2>1, <2>2, <2>a DEF TimersOK
  <2> QED BY <2>3, <2>4, <2>5 DEF IInv
<1>12. ASSUME NEW p \in Procs, CancelPanics(p) \/ CancelForget(p) PROVE IInv'
  BY <1>12, <1>t, SMTT(20) DEF CancelPanics, CancelForget, IInv, TypeOK, GivenOnce, StoredOK, HeldOK, TimersOK,
                     Holding
<1>13. ASSUME NEW p \in Procs, ClearDelete(p) PROVE IInv'
  BY <1>13, <1>t DEF ClearDelete, IInv, TypeOK, GivenOnce, StoredOK, HeldOK, TimersOK, Holding
<1>14. ASSUME NEW e \in Entries, TimerFires(e) \/ TimerHandles(e) PROVE IInv'
  BY <1>14, <1>t DEF TimerFires, TimerHandles, IInv, TypeOK, GivenOnce, StoredOK, HeldOK, TimersOK,
                     Holding
<1>15. ASSUME NEW e \in Entries, TimerDeletes(e) PROVE IInv'
  BY <1>15, <1>t, SMTT(20) DEF TimerDeletes, IInv, TypeOK, GivenOnce, StoredOK, HeldOK, TimersOK, Holding
<1>16. CASE UNCHANGED vars
  BY <1>16, <1>t DEF vars, IInv, TypeOK, GivenOnce, StoredOK, HeldOK, TimersOK
<1> QED BY <1>1, <1>2, <1>3, <1>4, <1>5, <1>6, <1>7, <1>8, <1>10, <1>11, <1>12, <1>13, <1>14,
           <1>15, <1>16 DEF Next, Starts, Continues, Timer

LEMMA SpecIInv == Spec => []IInv
  BY InitIInv, NextIInv, PTL DEF Spec

-----------------------------------------------------------------------------
(* The variables of the map always hold values of their types. *)
THEOREM TypeCorrect == Spec => []TypeOK
<1>1. IInv => TypeOK
  BY DEF IInv
<1> QED BY <1>1, SpecIInv, PTL

(* No entry is handed to two goroutines, whatever methods they call. *)
THEOREM EntriesGivenOnce == Spec => []GivenOnce
<1>1. IInv => GivenOnce
  BY DEF IInv
<1> QED BY <1>1, SpecIInv, PTL

(* An entry with a timeout is never forgotten: as long as it has not been  *)
(* taken, handled or cancelled, its handler is still going to run.         *)
THEOREM NoEntryForgotten == Spec => []NothingForgotten
<1>1. IInv => NothingForgotten
  BY MapAssumption DEF IInv, TypeOK, TimersOK, NothingForgotten
<1> QED BY <1>1, SpecIInv, PTL

-----------------------------------------------------------------------------
(* An entry of Put is armed before anyone can find it, so whoever takes it *)
(* out finds a task to cancel, or a cancelled one.                         *)
DisarmOK ==
  /\ \A p \in Procs :
       /\ pc[p] = "arming" => via[cur[p]] = "PutIfAbsent"
       /\ pc[p] = "forgetting" => cur[p] \in cancelled
  /\ \A e \in Entries :
       /\ e \in returned => keyOf[e] # NoKey
       /\ via[e] = "Put" =>
            /\ e \in returned /\ timer[e] = "armed" => e \in cancelled
            /\ timer[e] # "none" => e \in task \/ e \in cancelled

LEMMA InitDisarmOK == Init => DisarmOK
  BY DEF Init, DisarmOK

LEMMA NextDisarmOK ==
  ASSUME IInv, DisarmOK, [Next]_vars
  PROVE  DisarmOK'
<1> USE MapAssumption DEF evars, hvars, pvars, Goto, Finish, Call
<1>t. TypeOK /\ HeldOK /\ TimersOK /\ DisarmOK
  BY DEF IInv
<1>1. ASSUME NEW p \in Procs, NEW k \in Keys, NEW e \in Entries, PutArm(p, k, e)
      PROVE  DisarmOK'
  <2>1. \A q \in Procs : pc[q] \in Holding => cur[q] # e
    BY <1>1, <1>t DEF PutArm, HeldOK
  <2> QED BY <1>1, <1>t, <2>1 DEF PutArm, Arm, TypeOK, TimersOK, DisarmOK, Holding
<1>2. ASSUME NEW p \in Procs, PutSwap(p) PROVE DisarmOK'
  BY <1>2, <1>t DEF PutSwap, TypeOK, DisarmOK
<1>3. ASSUME NEW p \in Procs, NEW k \in Keys,
             Remove(p, k) \/ CancelLoad(p, k)
      PROVE  DisarmOK'
  BY <1>3, <1>t DEF Remove, CancelLoad, TypeOK, DisarmOK
<1>4. ASSUME NEW p \in Procs, CheckTask(p) PROVE DisarmOK'
  <2>1. cur[p] \in Entries /\ keyOf[cur[p]] \in Keys
    BY <1>4, <1>t DEF CheckTask, HeldOK, Holding
  <2>2. CASE cur[p] \in task
    BY <1>4, <1>t, <2>2 DEF CheckTask, TypeOK, DisarmOK
  <2>3. CASE cur[p] \notin task
    BY <1>4, <1>t, <2>1, <2>3 DEF CheckTask, AfterCancel, TypeOK, DisarmOK
  <2> QED BY <2>2, <2>3
<1>5. ASSUME NEW p \in Procs, CancelTimeout(p) PROVE DisarmOK'
  <2>1. cur[p] \in Entries /\ keyOf[cur[p]] \in Keys
    BY <1>5, <1>t DEF CancelTimeout, HeldOK, Holding
  <2> QED BY <1>5, <1>t, <2>1 DEF CancelTimeout, AfterCancel, TypeOK, DisarmOK
<1>6. ASSUME NEW p \in Procs, CancelPanics(p) \/ CancelForget(p) \/ ClearDelete(p) PROVE DisarmOK'
  BY <1>6, <1>t DEF CancelPanics, CancelForget, ClearDelete, TypeOK, DisarmOK
<1>7. ASSUME NEW e \in Entries, Timer(e) PROVE DisarmOK'
  BY <1>7, <1>t DEF Timer, TimerFires, TimerDeletes, TimerHandles, TypeOK, DisarmOK
<1>8. CASE UNCHANGED vars
  BY <1>8, <1>t DEF vars, DisarmOK
<1>9. ASSUME NEW p \in Procs, NEW k \in Keys, NEW e \in Entries, PutIfAbsentStore(p, k, e)
      PROVE  DisarmOK'
  <2>1. \A q \in Procs : pc[q] \in Holding => cur[q] # e
    BY <1>9, <1>t DEF PutIfAbsentStore, HeldOK
  <2> QED BY <1>9, <1>t, <2>1 DEF PutIfAbsentStore, TypeOK, TimersOK, DisarmOK, Holding
<1>10. ASSUME NEW p \in Procs, PutIfAbsentArm(p) PROVE DisarmOK'
  <2>1. cur[p] \in Entries /\ via[cur[p]] = "PutIfAbsent"
    BY <1>10, <1>t DEF PutIfAbsentArm, HeldOK, DisarmOK, Holding
  <2> QED BY <1>10, <1>t, <2>1 DEF PutIfAbsentArm, Arm, TypeOK, DisarmOK
<1>11. ASSUME NEW p \in Procs, ClearStart(p) \/ ClearVisit(p) \/ ClearEnd(p) PROVE DisarmOK'
  BY <1>11, <1>t DEF ClearStart, ClearVisit, ClearEnd, TypeOK, DisarmOK
<1> QED BY <1>1, <1>2, <1>3, <1>4, <1>5, <1>6, <1>7, <1>8, <1>9, <1>10, <1>11 DEF Next, Starts, Continues

(* For an entry of Put, as the request/response code uses it: once Remove  *)
(* has returned the entry, its timeout can no longer begin.                *)
THEOREM TakenIsDisarmed == Spec => RemoveDisarms
<1>1. ASSUME IInv, DisarmOK, [Next]_vars
      PROVE  \A e \in Entries :
               via[e] = "Put" /\ timer[e] = "armed" /\ timer'[e] = "running" => e \notin returned
  <2> SUFFICES ASSUME NEW e \in Entries, via[e] = "Put", timer[e] = "armed", timer'[e] = "running"
               PROVE  e \notin cancelled
    BY <1>1 DEF DisarmOK
  <2>t. timer \in [Entries -> {"none", "armed", "running", "deleted", "done"}]
    BY <1>1 DEF IInv, TypeOK
  <2>1. ASSUME NEW f \in Entries, Timer(f) PROVE e \notin cancelled
    BY <2>1, <2>t DEF Timer, TimerFires, TimerDeletes, TimerHandles
  <2>2. ASSUME NEW p \in Procs, NEW k \in Keys, NEW f \in Entries,
               PutArm(p, k, f) \/ PutIfAbsentArm(p)
        PROVE  FALSE
    BY <2>2, <2>t DEF PutArm, PutIfAbsentArm, Arm
  <2>3. ASSUME NEW p \in Procs, PutIfAbsentArm(p) PROVE FALSE
    BY <2>3, <2>t DEF PutIfAbsentArm, Arm
  <2>4. timer' # timer
    OBVIOUS
  <2> QED BY <1>1, <2>1, <2>2, <2>3, <2>4, ZenonT(30) DEF Next, Starts, Continues, PutSwap, PutIfAbsentStore,
             Remove, CancelLoad, ClearStart, ClearVisit, ClearEnd, CheckTask, CancelTimeout,
             CancelPanics, CancelForget, ClearDelete, vars, evars
<1>2. IInv /\ DisarmOK /\ [Next]_vars => DisarmOK'
  BY NextDisarmOK
<1> QED BY <1>1, <1>2, InitDisarmOK, SpecIInv, PTL DEF Spec, RemoveDisarms

-----------------------------------------------------------------------------
(* An entry of PutIfAbsent is published before its timer is armed, so its  *)
(* own Delete always comes after its only store.                           *)
RemovedOK ==
  /\ \A p \in Procs : pc[p] = "swapping" => via[cur[p]] = "Put"
  /\ \A p \in Procs : pc[p] = "arming" =>
       timer[cur[p]] = "none" /\ \A q \in Procs \ {p} : pc[q] = "arming" => cur[q] # cur[p]
  /\ \A e \in handled : timer[e] = "done"
  /\ \A k \in Keys :
       items[k] # NoEntry /\ via[items[k]] = "PutIfAbsent" => timer[items[k]] \notin {"deleted", "done"}

LEMMA NextRemovedOK ==
  ASSUME IInv, RemovedOK, [Next]_vars
  PROVE  RemovedOK'
<1> USE MapAssumption DEF evars, hvars, pvars, Goto, Finish, Call
<1>t. TypeOK /\ StoredOK /\ HeldOK /\ TimersOK /\ RemovedOK
  BY DEF IInv
<1>1. ASSUME NEW p \in Procs, NEW k \in Keys, NEW e \in Entries, PutIfAbsentStore(p, k, e)
      PROVE  RemovedOK'
  <2>1. /\ \A q \in Procs : pc[q] \in Holding => cur[q] # e
        /\ \A j \in Keys : items[j] # e
    BY <1>1, <1>t DEF PutIfAbsentStore, HeldOK, StoredOK, TypeOK
  <2> QED BY <1>1, <1>t, <2>1 DEF PutIfAbsentStore, TypeOK, TimersOK, RemovedOK, Holding
<1>2. ASSUME NEW p \in Procs, PutIfAbsentArm(p) PROVE RemovedOK'
  <2>1. cur[p] \in Entries /\ pc[p] = "arming"
    BY <1>2, <1>t DEF PutIfAbsentArm, HeldOK, Holding
  <2>2. /\ UNCHANGED <<items, via, handled>>
        /\ timer' = timer \/ timer' = [timer EXCEPT ![cur[p]] = "armed"]
        /\ \A q \in Procs \ {p} : pc'[q] = pc[q] /\ cur'[q] = cur[q]
        /\ pc'[p] = "idle"
    BY <1>2, <1>t DEF PutIfAbsentArm, Arm, TypeOK, RemovedOK
  <2>3. \A e \in Entries : timer'[e] # timer[e] => e = cur[p] /\ timer[e] = "none" /\ timer'[e] = "armed"
    BY <2>1, <2>2, <1>t DEF TypeOK, RemovedOK
  <2>4. cur[p] \notin handled
    BY <2>1, <1>t DEF RemovedOK
  <2>5. \A q \in Procs \ {p} : pc[q] = "arming" => cur[q] \in Entries /\ cur[q] # cur[p]
    BY <2>1, <1>t DEF RemovedOK, HeldOK, Holding
  <2>6. handled \subseteq Entries /\ \A k \in Keys : items[k] # NoEntry => items[k] \in Entries
    BY <1>t DEF TypeOK
  <2> QED BY <2>2, <2>3, <2>4, <2>5, <2>6, <1>t DEF RemovedOK
<1>3. ASSUME NEW p \in Procs, NEW k \in Keys, Remove(p, k) \/ CancelLoad(p, k) PROVE RemovedOK'
  BY <1>3, <1>t DEF Remove, CancelLoad, TypeOK, RemovedOK
<1>4. ASSUME NEW p \in Procs, ClearStart(p) \/ ClearVisit(p) \/ ClearEnd(p) \/ ClearDelete(p)
      PROVE  RemovedOK'
  BY <1>4, <1>t DEF ClearStart, ClearVisit, ClearEnd, ClearDelete, TypeOK, RemovedOK
<1>5. ASSUME NEW p \in Procs, CheckTask(p) \/ CancelTimeout(p) \/ CancelPanics(p) \/ CancelForget(p)
      PROVE  RemovedOK'
  BY <1>5, <1>t DEF CheckTask, CancelTimeout, CancelPanics, CancelForget, AfterCancel, TypeOK, RemovedOK
<1>6. ASSUME NEW e \in Entries, Timer(e) PROVE RemovedOK'
  <2>1. \A p \in Procs : pc[p] = "arming" => cur[p] # e
    BY <1>6, <1>t DEF Timer, TimerFires, TimerDeletes, TimerHandles, RemovedOK
  <2> QED BY <1>6, <1>t, <2>1 DEF Timer, TimerFires, TimerDeletes, TimerHandles, TypeOK, StoredOK,
             HeldOK, TimersOK, RemovedOK, Holding
<1>7. CASE UNCHANGED vars
  BY <1>7, <1>t DEF vars, RemovedOK
<1>8. ASSUME NEW p \in Procs, NEW k \in Keys, NEW e \in Entries, PutArm(p, k, e) PROVE RemovedOK'
  <2>1. /\ \A q \in Procs : pc[q] \in Holding => cur[q] # e
        /\ \A j \in Keys : items[j] # e
    BY <1>8, <1>t DEF PutArm, HeldOK, StoredOK, TypeOK
  <2>2. /\ timer[e] = "none" /\ via' = [via EXCEPT ![e] = "Put"]
        /\ timer' = timer \/ timer' = [timer EXCEPT ![e] = "armed"]
        /\ pc' = [pc EXCEPT ![p] = "swapping"] /\ cur' = [cur EXCEPT ![p] = e]
        /\ UNCHANGED <<items, handled>>
    BY <1>8, <1>t DEF PutArm, Arm, TimersOK
  <2>3. /\ \A f \in Entries \ {e} : timer'[f] = timer[f] /\ via'[f] = via[f]
        /\ via'[e] = "Put"
    BY <2>2, <1>t DEF TypeOK
  <2>4. \A q \in Procs \ {p} : pc'[q] = pc[q] /\ cur'[q] = cur[q]
    BY <2>2, <1>t DEF TypeOK
  <2>5. pc'[p] = "swapping" /\ cur'[p] = e
    BY <2>2, <1>t DEF TypeOK
  <2>6. \A q \in Procs : pc[q] \in Holding => cur[q] \in Entries \ {e}
    BY <2>1, <1>t DEF HeldOK
  <2>7. handled \subseteq Entries \ {e}
    BY <2>2, <1>t DEF TypeOK, RemovedOK
  <2>8. \A j \in Keys : items[j] # NoEntry => items[j] \in Entries \ {e}
    BY <2>1, <1>t DEF TypeOK
  <2> QED BY <2>2, <2>3, <2>4, <2>5, <2>6, <2>7, <2>8, <1>t DEF RemovedOK, Holding
<1>9. ASSUME NEW p \in Procs, PutSwap(p) PROVE RemovedOK'
  <2>1. via[cur[p]] = "Put" /\ cur[p] \in Entries /\ keyOf[cur[p]] \in Keys
    BY <1>9, <1>t DEF PutSwap, RemovedOK, HeldOK, Holding
  <2> QED BY <1>9, <1>t, <2>1 DEF PutSwap, TypeOK, RemovedOK
<1> QED BY <1>1, <1>2, <1>3, <1>4, <1>5, <1>6, <1>7, <1>8, <1>9 DEF Next, Starts, Continues

LEMMA SpecRemovedOK == Spec => []RemovedOK
<1>1. Init => RemovedOK
  BY DEF Init, RemovedOK
<1>2. IInv /\ RemovedOK /\ [Next]_vars => RemovedOK'
  BY NextRemovedOK
<1> QED BY <1>1, <1>2, SpecIInv, PTL DEF Spec

(* An entry of PutIfAbsent whose handler has run is not in the map.        *)
THEOREM TimedOutEntriesLeave == Spec => []TimedOutIsRemoved
<1>1. RemovedOK => TimedOutIsRemoved
  BY DEF RemovedOK, TimedOutIsRemoved
<1> QED BY <1>1, SpecRemovedOK, PTL

-----------------------------------------------------------------------------
(* A goroutine that is about to call a task finds it there, unless a       *)
(* Cancel that has silenced the entry was faster.                          *)
TaskOK ==
  \A p \in Procs :
    /\ pc[p] = "cancelling" => cur[p] \in task \cup silenced
    /\ pc[p] \in {"forgetting", "panicked"} => cur[p] \in silenced

LEMMA NextTaskOK ==
  ASSUME IInv, TaskOK, [Next]_vars
  PROVE  TaskOK'
<1> USE DEF evars, hvars, pvars, Goto, Finish, Call
<1>t. TypeOK /\ HeldOK /\ TaskOK
  BY DEF IInv
<1>1. ASSUME NEW p \in Procs, NEW k \in Keys,
             \/ \E e \in Entries : PutArm(p, k, e) \/ PutIfAbsentStore(p, k, e)
             \/ Remove(p, k) \/ CancelLoad(p, k)
      PROVE  TaskOK'
  BY <1>1, <1>t DEF PutArm, PutIfAbsentStore, Remove, CancelLoad, Arm, TypeOK, TaskOK
<1>2. ASSUME NEW p \in Procs, PutSwap(p) \/ PutIfAbsentArm(p) PROVE TaskOK'
  BY <1>2, <1>t DEF PutSwap, PutIfAbsentArm, Arm, TypeOK, TaskOK
<1>3. ASSUME NEW p \in Procs, ClearStart(p) \/ ClearVisit(p) \/ ClearEnd(p) \/ ClearDelete(p)
      PROVE  TaskOK'
  BY <1>3, <1>t DEF ClearStart, ClearVisit, ClearEnd, ClearDelete, TypeOK, TaskOK
<1>4. ASSUME NEW p \in Procs, CheckTask(p) PROVE TaskOK'
  BY <1>4, <1>t DEF CheckTask, AfterCancel, TypeOK, TaskOK
<1>5. ASSUME NEW p \in Procs, CancelTimeout(p) PROVE TaskOK'
  BY <1>5, <1>t DEF CancelTimeout, AfterCancel, TypeOK, TaskOK
<1>6. ASSUME NEW p \in Procs, CancelPanics(p) \/ CancelForget(p) PROVE TaskOK'
  BY <1>6, <1>t DEF CancelPanics, CancelForget, TypeOK, TaskOK
<1>7. ASSUME NEW e \in Entries, Timer(e) PROVE TaskOK'
  BY <1>7, <1>t DEF Timer, TimerFires, TimerDeletes, TimerHandles, TaskOK
<1>8. CASE UNCHANGED vars
  BY <1>8, <1>t DEF vars, TaskOK
<1> QED BY <1>1, <1>2, <1>3, <1>4, <1>5, <1>6, <1>7, <1>8 DEF Next, Starts, Continues

(* Nobody dereferences a task of nil but in an entry that was silenced.    *)
THEOREM OnlyCancelsLeaveNil == Spec => []OnlyCancelsRace
<1>1. Init => TaskOK
  BY DEF Init, TaskOK
<1>2. IInv /\ TaskOK /\ [Next]_vars => TaskOK'
  BY NextTaskOK
<1>3. TaskOK => OnlyCancelsRace
  BY DEF TaskOK, OnlyCancelsRace
<1> QED BY <1>1, <1>2, <1>3, SpecIInv, PTL DEF Spec

-----------------------------------------------------------------------------
(* What eventually happens.  The provers do not know ENABLED, so fairness  *)
(* is written out: it is the WF of FairSpec when Inside(p) and Due(e) are  *)
(* the enabling conditions of Continues(p) and Timer(e).  A goroutine in   *)
(* a call that has not panicked always has a step, as HeldOK says of `op'. *)
Inside(p) == pc[p] \notin {"idle", "panicked"}
Due(e) ==
  \/ timer[e] \in {"running", "deleted"}
  \/ timer[e] = "armed" /\ e \notin cancelled

CallsAndTimersRun ==
  /\ \A p \in Procs : []<>~Inside(p) \/ []<><<Continues(p)>>_vars
  /\ \A e \in Entries : []<>~Due(e) \/ []<><<Timer(e)>>_vars

Ends(e) == given[e] > 0 \/ e \in handled \/ e \in silenced
Open(e, place) == keyOf[e] # NoKey /\ ~Ends(e) /\ timer[e] = place

(* An entry that was put stays put, with its end behind it or ahead.       *)
LEMMA EntriesStay ==
  ASSUME IInv, [Next]_vars, NEW e \in Entries, keyOf[e] # NoKey
  PROVE  /\ keyOf'[e] = keyOf[e]
         /\ Ends(e) => Ends(e)'
<1> USE DEF IInv, TypeOK, Ends, evars, hvars
<1>1. ASSUME NEW p \in Procs, Starts(p)
      PROVE  keyOf'[e] = keyOf[e] /\ (Ends(e) => Ends(e)')
  BY <1>1 DEF Starts, PutArm, PutIfAbsentStore, Remove, CancelLoad, ClearStart
<1>2. ASSUME NEW p \in Procs, Continues(p)
      PROVE  keyOf'[e] = keyOf[e] /\ (Ends(e) => Ends(e)')
  <2>1. CASE PutSwap(p)
    <3>1. /\ UNCHANGED <<keyOf, handled, silenced>>
          /\ given' = given \/ given' = [given EXCEPT ![items[keyOf[cur[p]]]] = @ + 1]
      BY <2>1 DEF PutSwap
    <3>2. given[e] \in Nat /\ (given'[e] = given[e] \/ given'[e] = given[e] + 1)
      BY <3>1
    <3> QED BY <3>1, <3>2
  <2>2. CASE PutIfAbsentArm(p) \/ ClearVisit(p) \/ ClearDelete(p) \/ ClearEnd(p)
    BY <2>2 DEF PutIfAbsentArm, ClearVisit, ClearDelete, ClearEnd
  <2>3. CASE CheckTask(p) \/ CancelPanics(p) \/ CancelForget(p)
    BY <2>3 DEF CheckTask, CancelPanics, CancelForget
  <2>4. CASE CancelTimeout(p)
    BY <2>4 DEF CancelTimeout
  <2> QED BY <1>2, <2>1, <2>2, <2>3, <2>4 DEF Continues
<1>3. ASSUME NEW f \in Entries, Timer(f)
      PROVE  keyOf'[e] = keyOf[e] /\ (Ends(e) => Ends(e)')
  BY <1>3 DEF Timer, TimerFires, TimerDeletes, TimerHandles
<1>4. CASE UNCHANGED vars
  BY <1>4 DEF vars
<1> QED BY <1>1, <1>2, <1>3, <1>4 DEF Next

(* The timer of an entry moves forward only, and none is armed twice.      *)
LEMMA TimersMoveOn ==
  ASSUME IInv, RemovedOK, [Next]_vars, NEW e \in Entries, keyOf[e] # NoKey
  PROVE  \/ timer'[e] = timer[e]
         \/ timer[e] = "none" /\ timer'[e] = "armed"
         \/ timer[e] = "armed" /\ timer'[e] = "running"
         \/ timer[e] = "running" /\ timer'[e] = "deleted"
         \/ timer[e] = "deleted" /\ timer'[e] = "done"
<1> DEFINE Moves ==
      \/ timer'[e] = timer[e]
      \/ timer[e] = "none" /\ timer'[e] = "armed"
      \/ timer[e] = "armed" /\ timer'[e] = "running"
      \/ timer[e] = "running" /\ timer'[e] = "deleted"
      \/ timer[e] = "deleted" /\ timer'[e] = "done"
<1> USE DEF IInv, TypeOK, evars, hvars
<1>1. ASSUME NEW p \in Procs, Starts(p) PROVE Moves
  BY <1>1 DEF Starts, PutArm, Arm, PutIfAbsentStore, Remove, CancelLoad, ClearStart
<1>2. ASSUME NEW p \in Procs, Continues(p) PROVE Moves
  <2>1. CASE PutIfAbsentArm(p)
    BY <2>1 DEF PutIfAbsentArm, Arm, RemovedOK
  <2>2. CASE PutSwap(p) \/ ClearVisit(p) \/ ClearDelete(p) \/ ClearEnd(p)
    BY <2>2 DEF PutSwap, ClearVisit, ClearDelete, ClearEnd
  <2>3. CASE CheckTask(p) \/ CancelTimeout(p) \/ CancelPanics(p) \/ CancelForget(p)
    BY <2>3 DEF CheckTask, CancelTimeout, CancelPanics, CancelForget
  <2> QED BY <1>2, <2>1, <2>2, <2>3 DEF Continues
<1>3. ASSUME NEW f \in Entries, Timer(f) PROVE Moves
  BY <1>3 DEF Timer, TimerFires, TimerDeletes, TimerHandles
<1>4. CASE UNCHANGED vars
  BY <1>4 DEF vars
<1> QED BY <1>1, <1>2, <1>3, <1>4 DEF Next

(* An entry of PutIfAbsent that is in the map and has no timer yet gets    *)
(* one from the goroutine that stored it.                                  *)
LEMMA ArmingEnds ==
  ASSUME NEW e \in Timed, NEW p \in Procs
  PROVE  Spec /\ CallsAndTimersRun =>
           []((pc[p] = "arming" /\ cur[p] = e) => <>(timer[e] # "none"))
<1> DEFINE H == pc[p] = "arming" /\ cur[p] = e
           Armed == timer[e] # "none"
<1>e. e \in Entries
  BY MapAssumption
<1>1. H => Inside(p)
  BY DEF Inside
<1>2. IInv /\ H /\ Continues(p) => Armed'
  <2> SUFFICES ASSUME IInv, H, Continues(p) PROVE Armed'
    OBVIOUS
  <2>1. PutIfAbsentArm(p)
    BY DEF Continues, PutSwap, ClearVisit, ClearDelete, ClearEnd, CheckTask, CancelTimeout, CancelPanics,
           CancelForget
  <2> QED BY <2>1, <1>e DEF PutIfAbsentArm, Arm, IInv, TypeOK
<1>3. IInv /\ H /\ [Next]_vars => H' \/ Armed'
  <2> SUFFICES ASSUME IInv, H, [Next]_vars, ~Continues(p) PROVE H'
    BY <1>2
  <2> USE DEF IInv, TypeOK, Goto, Finish, pvars
  <2>1. ASSUME NEW q \in Procs, Starts(q) PROVE H'
    BY <2>1 DEF Starts, Call, PutArm, PutIfAbsentStore, Remove, CancelLoad, ClearStart
  <2>2. ASSUME NEW q \in Procs \ {p}, Continues(q) PROVE H'
    <3>1. CASE PutSwap(q) \/ PutIfAbsentArm(q) \/ ClearVisit(q) \/ ClearDelete(q) \/ ClearEnd(q)
      BY <3>1 DEF PutSwap, PutIfAbsentArm, ClearVisit, ClearDelete, ClearEnd
    <3>2. CASE CheckTask(q) \/ CancelTimeout(q) \/ CancelPanics(q) \/ CancelForget(q)
      BY <3>2 DEF CheckTask, CancelTimeout, CancelPanics, CancelForget, AfterCancel
    <3> QED BY <2>2, <3>1, <3>2 DEF Continues
  <2>3. ASSUME NEW f \in Entries, Timer(f) PROVE H'
    BY <2>3 DEF Timer, TimerFires, TimerDeletes, TimerHandles
  <2>4. CASE UNCHANGED vars
    BY <2>4 DEF vars
  <2> QED BY <2>1, <2>2, <2>3, <2>4 DEF Next
<1>4. CallsAndTimersRun => ([]<>~Inside(p) \/ []<><<Continues(p)>>_vars)
  BY DEF CallsAndTimersRun
<1>5. Spec => []IInv /\ [][Next]_vars
  BY SpecIInv, PTL DEF Spec
<1>6. IInv /\ H /\ <<Continues(p)>>_vars => Armed'
  BY <1>2
<1> HIDE DEF H, Armed
<1>7. Spec /\ CallsAndTimersRun => [](H => <>Armed)
  BY <1>1, <1>3, <1>4, <1>5, <1>6, PTL
<1> QED BY <1>7 DEF H, Armed

(* Every entry with a timeout ends with its taker, its handler, or a       *)
(* cancel: its timer is armed, fires, deletes and handles, each step of    *)
(* which is due until the entry is taken.                                  *)
THEOREM EntriesEnd == Spec /\ CallsAndTimersRun => EveryEntryEnds
<1>1. ASSUME NEW e \in Timed
      PROVE  Spec /\ CallsAndTimersRun => (keyOf[e] # NoKey ~> Ends(e))
  <2> DEFINE P == keyOf[e] # NoKey
             N == Open(e, "none")
             A == Open(e, "armed")
             R == Open(e, "running")
             D == Open(e, "deleted")
             Armed == timer[e] # "none"
             H == \E p \in Procs : pc[p] = "arming" /\ cur[p] = e
  <2>e. e \in Entries
    BY MapAssumption
  <2>1. IInv /\ P => Ends(e) \/ N \/ A \/ R \/ D
    BY <2>e DEF IInv, TypeOK, TimersOK, Open, Ends
  <2>2. IInv /\ N => H
    BY <2>e DEF IInv, TimersOK, Open
  <2>3. IInv /\ A => Due(e)
    <3> SUFFICES ASSUME IInv, A PROVE Due(e)
      OBVIOUS
    <3> QED BY <2>e DEF IInv, TimersOK, Open, Due, Ends
  <2>4. (R => Due(e)) /\ (D => Due(e))
    BY DEF Open, Due
  <2>5. IInv /\ RemovedOK /\ IInv' /\ [Next]_vars /\ P =>
          /\ P'
          /\ N => N' \/ A' \/ Ends(e)'
          /\ A => A' \/ R' \/ Ends(e)'
          /\ R => R' \/ D' \/ Ends(e)'
          /\ D => D' \/ Ends(e)'
    <3> SUFFICES ASSUME IInv, RemovedOK, IInv', [Next]_vars, P
                 PROVE  /\ P'
                        /\ N => N' \/ A' \/ Ends(e)'
                        /\ A => A' \/ R' \/ Ends(e)'
                        /\ R => R' \/ D' \/ Ends(e)'
                        /\ D => D' \/ Ends(e)'
      OBVIOUS
    <3>1. P'
      BY <2>e, EntriesStay
    <3>2. \/ timer'[e] = timer[e]
          \/ timer[e] = "none" /\ timer'[e] = "armed"
          \/ timer[e] = "armed" /\ timer'[e] = "running"
          \/ timer[e] = "running" /\ timer'[e] = "deleted"
          \/ timer[e] = "deleted" /\ timer'[e] = "done"
      BY <2>e, TimersMoveOn
    <3>3. timer'[e] = "done" => Ends(e)'
      BY <2>e DEF IInv, TimersOK, Ends
    <3> QED BY <3>1, <3>2, <3>3 DEF Open
  <2>6. N \/ A \/ R \/ D => P
    BY DEF Open
  <2>7. IInv /\ <<Timer(e)>>_vars => (A => ~A') /\ (R => ~R') /\ (D => ~D')
    BY <2>e DEF Open, Timer, TimerFires, TimerDeletes, TimerHandles, IInv, TypeOK
  <2>8. CallsAndTimersRun => ([]<>~Due(e) \/ []<><<Timer(e)>>_vars)
    BY <2>e DEF CallsAndTimersRun
  <2>9. Spec => []IInv /\ []RemovedOK /\ [][Next]_vars
    BY SpecIInv, SpecRemovedOK, PTL DEF Spec
  <2>10. Spec /\ CallsAndTimersRun => [](H => <>Armed)
    <3>1. ASSUME NEW p \in Procs
          PROVE  Spec /\ CallsAndTimersRun => [](pc[p] = "arming" /\ cur[p] = e => <>Armed)
      BY ArmingEnds
    <3>2. Spec /\ CallsAndTimersRun => \A p \in Procs : [](pc[p] = "arming" /\ cur[p] = e => <>Armed)
      BY <3>1
    <3>3. (\A p \in Procs : [](pc[p] = "arming" /\ cur[p] = e => <>Armed))
            => [](\A p \in Procs : (pc[p] = "arming" /\ cur[p] = e => <>Armed))
      OBVIOUS
    <3>4. (\A p \in Procs : (pc[p] = "arming" /\ cur[p] = e => <>Armed)) => (H => <>Armed)
      OBVIOUS
    <3> QED BY <3>2, <3>3, <3>4, PTL
  <2>11. Armed => ~N
    BY DEF Open
  <2> HIDE DEF P, N, A, R, D, H, Armed
  <2>12. Spec /\ CallsAndTimersRun => (P ~> Ends(e))
    BY <2>1, <2>2, <2>3, <2>4, <2>5, <2>6, <2>7, <2>8, <2>9, <2>10, <2>11, PTL
  <2> QED BY <2>12 DEF P
<1> QED BY <1>1 DEF EveryEntryEnds, Ends
=============================================================================
