----------------------- MODULE RequestResponseProofs -----------------------
(***************************************************************************)
(* RequestResponse for any number of requests and of messages of the peer, *)
(* any range of the sequencer and any width of its numbers: what a future  *)
(* gets, what stays in the map, and that requests end. The provers do not  *)
(* know ENABLED: fairness is written out, with the enabling condition of   *)
(* each action read off its guards.                                        *)
(***************************************************************************)
EXTENDS RequestResponse, FiniteSetTheorems, TLAPS

Cells == Cell!FutureCells(Errors)

(* Calls whose Put has swapped the entry in. *)
Entered == {"replacing", "writing", "returned"}

Numbered == {q \in Requests : pc[q] # "idle"}

(* The sequencer runs through Lo..max; d numbers after n comes After(n, d). *)
Lo == IF max = MaxInt THEN MinInt ELSE min
After(n, d) == IF n + d <= max THEN n + d ELSE n + d - Period

(* The sequencer is as far behind the number of a request as requests      *)
(* were numbered since, and so are later requests, until it comes round.   *)
NumbersOK ==
  /\ IsFiniteSet(Numbered)
  /\ sequencer \in Lo..max
  /\ \A r \in Numbered :
       /\ number[r] \in Lo..max
       /\ turn[r] \in 0..Cardinality(Numbered) - 1
       /\ Cardinality(Numbered) - turn[r] <= Period =>
            sequencer = After(number[r], Cardinality(Numbered) - turn[r])
  /\ \A r, q \in Numbered : r # q =>
       /\ turn[q] # turn[r]
       /\ turn[q] - turn[r] \in 1..Period => number[q] = After(number[r], turn[q] - turn[r])

(* An entry is stored under its number, by a call that is past its Put. *)
ItemsOK ==
  \A n \in Numbers : items[n] # None => number[items[n]] = n /\ pc[items[n]] \in Entered

CallsOK ==
  \A r \in Requests :
    /\ write[r] # "none" => pc[r] = "returned"
    /\ pc[r] \in {"idle", "arming"} => timer[r] = "none"
    /\ pc[r] = "idle" => value[r] = None

(* Only the timer's handler lets a request time out, a cancelled timer has *)
(* no handler, and nothing else completes a future before its Put.         *)
TimersOK ==
  \A r \in Requests :
    /\ r \in inTime => timer[r] = "cancelled"
    /\ fut[r].err = "timeout" => timer[r] = "done"
    /\ fut[r].done => pc[r] \in Entered \/ timer[r] = "done"

(* Whose entry is not in the map any more. *)
LeftOK ==
  \A r \in Requests :
    /\ r \in stored => pc[r] \in Entered
    /\ r \in stored /\ timer[r] \in {"deleted", "done"} => items[number[r]] # r
    /\ write[r] \in {"cancelling", "failing", "ended"} => items[number[r]] # r

(* What the reading goroutine has taken bears the number of what it read. *)
ReaderOK ==
  reader # "reading" =>
    /\ taken \in Requests /\ response \in Messages
    /\ Seq(response) = number[taken] /\ Seq(response) > 0
    /\ pc[taken] \in Entered /\ items[number[taken]] # taken
    /\ response \in Requests => pc[response] # "idle"
    /\ reader = "succeeding" => value[taken] # None

(* No other request has the number of r; in time only ever less so. *)
Alone(r) == \A q \in Numbered \ {r} : number[q] # number[r]

ValuesOK ==
  \A r \in Requests :
    /\ pc[r] # "idle" /\ Alone(r) => value[r] \in {r, None} \cup {n \in Asks : n = number[r] /\ n > 0}
    /\ Cell!IsSuccess(fut[r]) => value[r] # None

IInv ==
  /\ TypeOK /\ NumbersOK /\ ItemsOK /\ CallsOK /\ TimersOK /\ LeftOK /\ ReaderOK /\ ValuesOK
  /\ DoneLeavesTheMap

-----------------------------------------------------------------------------
(* The sequencer: RoundRobinInteger.Next, overflow included, goes round    *)
(* the numbers from Lo to max.                                             *)
LEMMA RangeFacts ==
  ASSUME TypeOK
  PROVE  /\ MaxInt \in Nat /\ min \in Int /\ max \in Int /\ Lo \in Int /\ Period \in Nat
         /\ Lo <= min /\ min <= max /\ max <= MaxInt /\ MinInt <= Lo
         /\ Period = max - Lo + 1
         /\ \A n \in Lo..max : n \in Numbers
<1>1. /\ MaxInt \in Nat /\ min \in Numbers /\ max \in Numbers
      /\ 0 < min /\ min <= max
  <2>1. /\ <<min, max>> \in Numbers \X Numbers
        /\ 0 < <<min, max>>[1] /\ <<min, max>>[1] <= <<min, max>>[2]
    BY RequestAssumption DEF TypeOK
  <2> QED BY <2>1, RequestAssumption
<1> QED BY <1>1 DEF Numbers, MinInt, Lo, Period

LEMMA FollowingIsAfter ==
  ASSUME TypeOK, NEW n \in Lo..max
  PROVE  /\ Following(n) \in Lo..max
         /\ Following(n) = After(n, 1)
         /\ After(n, 1) = IF n = max THEN Lo ELSE n + 1
  BY RangeFacts DEF Following, Wrapped, After, Lo, MinInt

LEMMA AfterAgain ==
  ASSUME TypeOK, NEW n \in Lo..max, NEW d \in 1..Period - 1
  PROVE  /\ After(n, d) \in Lo..max
         /\ After(n, d) # n
         /\ After(After(n, d), 1) = After(n, d + 1)
  BY RangeFacts DEF After

-----------------------------------------------------------------------------
(* The fields of a future after each of its sections. *)
LEMMA Launched ==
  ASSUME NEW f \in Cells
  PROVE  /\ Cell!Launch(f, f.listeners) \in Cells
         /\ Cell!Launch(f, f.listeners).done = f.done
         /\ Cell!Launch(f, f.listeners).err = f.err
         /\ Cell!Launch(f, f.listeners).cancelled = f.cancelled
<1> DEFINE S == [l \in {} |-> IF l \in f.listeners THEN f.started[l] + 1 ELSE f.started[l]]
<1>1. S \in [{} -> Nat]
  OBVIOUS
<1>2. Cell!Launch(f, f.listeners) = [f EXCEPT !.started = S]
  BY DEF Cell!Launch
<1> HIDE DEF S
<1> QED BY <1>1, <1>2 DEF Cells, Cell!FutureCells

LEMMA FailedFields ==
  ASSUME NEW f \in Cells, NEW e \in Errors
  PROVE  /\ Cell!Failed(f, e) \in Cells
         /\ Cell!Failed(f, e).done
         /\ f.done => Cell!Failed(f, e) = f
         /\ ~ f.done => Cell!Failed(f, e).err = e
<1>1. CASE f.done
  BY <1>1 DEF Cell!Failed
<1>2. CASE ~ f.done
  <2> DEFINE h == [[f EXCEPT !.err = e] EXCEPT !.done = TRUE]
  <2>1. /\ h \in Cells /\ h.done /\ h.err = e
        /\ h.listeners = f.listeners
        /\ [f EXCEPT !.err = e].listeners = f.listeners
    BY DEF Cells, Cell!FutureCells
  <2>2. Cell!Failed(f, e) = Cell!Launch(h, h.listeners)
    BY <1>2, <2>1 DEF Cell!Failed, Cell!CloseDone
  <2> HIDE DEF h
  <2> QED BY <1>2, <2>1, <2>2, Launched
<1> QED BY <1>1, <1>2

LEMMA SucceededFields ==
  ASSUME NEW f \in Cells
  PROVE  /\ Cell!Succeeded(f) \in Cells
         /\ Cell!Succeeded(f).done
         /\ Cell!Succeeded(f).err = f.err
<1>1. CASE f.done
  BY <1>1 DEF Cell!Succeeded
<1>2. CASE ~ f.done
  <2> DEFINE k == [f EXCEPT !.done = TRUE]
  <2>1. k \in Cells /\ k.done /\ k.err = f.err /\ k.listeners = f.listeners
    BY DEF Cells, Cell!FutureCells
  <2>2. Cell!Succeeded(f) = Cell!Launch(k, k.listeners)
    BY <1>2, <2>1 DEF Cell!Succeeded, Cell!CloseDone
  <2> HIDE DEF k
  <2> QED BY <1>2, <2>1, <2>2, Launched
<1> QED BY <1>1, <1>2

-----------------------------------------------------------------------------
LEMMA InitIInv == Init => IInv
<1> USE RequestAssumption
<1> SUFFICES ASSUME Init PROVE IInv
  OBVIOUS
<1>1. TypeOK
  <2>1. <<min, max>> \in Ranges /\ min \in Numbers
    <3> PICK range \in Ranges : min = range[1] /\ max = range[2]
      BY DEF Init
    <3>1. range \in Numbers \X Numbers /\ range = <<range[1], range[2]>>
      OBVIOUS
    <3> QED BY <3>1
  <2>2. 0 \in Numbers /\ Cell!NewFuture \in Cells
    BY DEF Numbers, MinInt, Cells, Cell!FutureCells, Cell!NewFuture
  <2> QED BY <2>1, <2>2 DEF Init, TypeOK, Cells
<1>2. Numbered = {}
  BY DEF Init, Numbered
<1>3. NumbersOK
  BY <1>1, <1>2, FS_EmptySet, RangeFacts DEF Init, NumbersOK, Lo
<1>4. ItemsOK /\ CallsOK /\ LeftOK /\ ReaderOK
  BY DEF Init, ItemsOK, CallsOK, LeftOK, ReaderOK
<1>5. /\ Cell!NewFuture.done = FALSE
      /\ Cell!NewFuture.err = None
  BY DEF Cell!NewFuture
<1>6. TimersOK /\ ValuesOK /\ DoneLeavesTheMap
  BY <1>5 DEF Init, TimersOK, ValuesOK, DoneLeavesTheMap, Cell!IsSuccess, Errors
<1> QED BY <1>1, <1>3, <1>4, <1>6 DEF IInv

LEMMA NextTypeOK == IInv /\ [Next]_vars => TypeOK'
<1> USE RequestAssumption
    DEF sequence, calls, writes, futures, reading, Goto, WriteStep, TimerStep, ReaderStep, CancelTimeout
<1> SUFFICES ASSUME IInv, [Next]_vars PROVE TypeOK'
  OBVIOUS
<1>t. TypeOK
  BY DEF IInv
<1>1. ASSUME NEW r \in Requests, TakeNumber(r) PROVE TypeOK'
  <2>1. Following(sequencer) \in Numbers
    BY <1>t, FollowingIsAfter, RangeFacts DEF IInv, NumbersOK
  <2>2. Cardinality(Numbered) \in Nat
    BY FS_CardinalityType DEF IInv, NumbersOK
  <2> QED BY <1>1, <1>t, <2>1, <2>2 DEF TakeNumber, TypeOK, Numbered
<1>2. ASSUME NEW r \in Requests, Request(r) PROVE TypeOK'
  <2>1. CASE Arm(r)
    BY <2>1, <1>t DEF Arm, TypeOK
  <2>2. CASE Store(r)
    BY <2>2, <1>t DEF Store, TypeOK
  <2>3. CASE CancelReplaced(r) \/ Send(r)
    BY <2>3, <1>t DEF CancelReplaced, Send, TypeOK
  <2> QED BY <1>2, <2>1, <2>2, <2>3 DEF Request
<1>3. ASSUME NEW r \in Requests, Writer(r) PROVE TypeOK'
  <2>1. CASE WriteSucceeds(r) \/ WriteFails(r)
    BY <2>1, <1>t DEF WriteSucceeds, WriteFails, TypeOK
  <2>2. CASE RemoveUnsent(r)
    BY <2>2, <1>t DEF RemoveUnsent, TypeOK
  <2>3. CASE CancelUnsent(r)
    BY <2>3, <1>t DEF CancelUnsent, TypeOK
  <2>4. CASE FailUnsent(r)
    <3>1. fut[r] \in Cells /\ "write" \in Errors
      BY <1>t DEF TypeOK, Cells, Errors
    <3>2. Cell!Failed(fut[r], "write") \in Cells
      BY <3>1, FailedFields
    <3> QED BY <2>4, <1>t, <3>2 DEF FailUnsent, TypeOK, Cells
  <2> QED BY <1>3, <2>1, <2>2, <2>3, <2>4 DEF Writer
<1>4. ASSUME NEW r \in Requests, Timer(r) PROVE TypeOK'
  <2>1. CASE TimerFires(r) \/ TimerDeletes(r)
    BY <2>1, <1>t DEF TimerFires, TimerDeletes, TypeOK
  <2>2. CASE TimerHandles(r)
    <3>1. fut[r] \in Cells /\ "timeout" \in Errors
      BY <1>t DEF TypeOK, Cells, Errors
    <3>2. Cell!Failed(fut[r], "timeout") \in Cells
      BY <3>1, FailedFields
    <3> QED BY <2>2, <1>t, <3>2 DEF TimerHandles, TypeOK, Cells
  <2> QED BY <1>4, <2>1, <2>2 DEF Timer
<1>5. ASSUME NEW m \in Messages, Match(m) \/ PassOn(m) PROVE TypeOK'
  <2>1. Seq(m) \in Numbers
    <3>1. CASE m \in Requests
      BY <1>t, <3>1 DEF TypeOK, Seq
    <3>2. CASE m \notin Requests
      <4>1. m \in 0..MaxInt /\ MaxInt \in Nat /\ Seq(m) = m
        BY <3>2 DEF Seq, Messages
      <4> QED BY <4>1 DEF Numbers, MinInt
    <3> QED BY <3>1, <3>2
  <2>2. CASE Match(m)
    BY <2>1, <2>2, <1>t DEF Match, Arrives, TypeOK
  <2>3. CASE PassOn(m)
    BY <2>3, <1>t DEF PassOn, Arrives, TypeOK
  <2> QED BY <1>5, <2>2, <2>3
<1>6. CASE Reader
  <2>1. taken \in Requests /\ response \in Messages
    BY <1>6 DEF Reader, CancelTaken, StoreValue, Succeed, IInv, ReaderOK
  <2>2. CASE CancelTaken
    BY <2>1, <2>2, <1>t DEF CancelTaken, TypeOK
  <2>3. CASE StoreValue
    BY <2>1, <2>3, <1>t DEF StoreValue, TypeOK
  <2>4. CASE Succeed
    <3>1. Cell!Succeeded(fut[taken]) \in Cells
      BY <2>1, <1>t, SucceededFields DEF TypeOK, Cells
    <3> QED BY <2>1, <2>4, <1>t, <3>1 DEF Succeed, TypeOK, Cells
  <2> QED BY <1>6, <2>2, <2>3, <2>4 DEF Reader
<1>7. CASE UNCHANGED vars
  BY <1>7, <1>t DEF vars, TypeOK
<1> QED BY <1>1, <1>2, <1>3, <1>4, <1>5, <1>6, <1>7 DEF Next

-----------------------------------------------------------------------------
(* What every step keeps of the calls: none goes back, and only TakeNumber *)
(* changes the sequencer or gives a number.                                *)
LEMMA CallsGoOn ==
  ASSUME TypeOK, [Next]_vars
  PROVE  /\ \A q \in Requests :
              /\ pc[q] # "idle" => pc'[q] # "idle" /\ number'[q] = number[q]
              /\ pc[q] \in Entered => pc'[q] \in Entered
              /\ pc[q] = "returned" => pc'[q] = "returned"
         /\ \/ \E r \in Requests : TakeNumber(r)
            \/ sequence' = sequence /\ \A q \in Requests : pc'[q] = "idle" <=> pc[q] = "idle"
<1> USE DEF Goto
<1>1. ASSUME NEW r \in Requests, TakeNumber(r)
      PROVE  \A q \in Requests :
              /\ pc[q] # "idle" => pc'[q] # "idle" /\ number'[q] = number[q]
              /\ pc[q] \in Entered => pc'[q] \in Entered
              /\ pc[q] = "returned" => pc'[q] = "returned"
  BY <1>1 DEF TakeNumber, TypeOK, Entered
<1>2. ASSUME NEW r \in Requests, Request(r)
      PROVE  /\ sequence' = sequence /\ \A q \in Requests : pc'[q] = "idle" <=> pc[q] = "idle"
             /\ \A q \in Requests :
                  /\ pc[q] \in Entered => pc'[q] \in Entered
                  /\ pc[q] = "returned" => pc'[q] = "returned"
  BY <1>2 DEF Request, Arm, Store, CancelReplaced, Send, TypeOK, Entered
<1>3. ASSUME NEW r \in Requests, Writer(r) \/ Timer(r)
      PROVE  sequence' = sequence /\ pc' = pc
  BY <1>3 DEF Writer, WriteSucceeds, WriteFails, RemoveUnsent, CancelUnsent, FailUnsent, WriteStep,
     Timer, TimerFires, TimerDeletes, TimerHandles, TimerStep, calls
<1>4. ASSUME Reader \/ \E m \in Messages : Match(m) \/ PassOn(m)
      PROVE  sequence' = sequence /\ pc' = pc
  BY <1>4 DEF Reader, CancelTaken, StoreValue, Succeed, Match, PassOn, ReaderStep, calls
<1>5. CASE UNCHANGED vars
  BY <1>5 DEF vars, calls, sequence
<1> QED BY <1>1, <1>2, <1>3, <1>4, <1>5 DEF Next, sequence

LEMMA NextNumbersOK == IInv /\ [Next]_vars => NumbersOK'
<1> SUFFICES ASSUME IInv, [Next]_vars PROVE NumbersOK'
  OBVIOUS
<1>t. TypeOK /\ NumbersOK
  BY DEF IInv
<1>c. Cardinality(Numbered) \in Nat
  BY <1>t, FS_CardinalityType DEF NumbersOK
<1>1. ASSUME NEW q \in Requests, TakeNumber(q) PROVE NumbersOK'
  <2> DEFINE k == Cardinality(Numbered)
  <2>1. /\ q \notin Numbered /\ Numbered' = Numbered \cup {q}
        /\ \A r \in Numbered : number'[r] = number[r] /\ turn'[r] = turn[r]
        /\ number'[q] = sequencer /\ turn'[q] = k
        /\ sequencer' = Following(sequencer)
        /\ UNCHANGED <<min, max>>
    BY <1>1, <1>t DEF TakeNumber, Goto, TypeOK, Numbered
  <2>2. IsFiniteSet(Numbered') /\ Cardinality(Numbered') = k + 1
    BY <2>1, <1>t, FS_AddElement DEF NumbersOK
  <2>3. Lo' = Lo /\ Period' = Period /\ \A n, d : After(n, d)' = After(n, d)
    BY <2>1 DEF Lo, Period, After
  <2>4. sequencer' \in Lo'..max' /\ sequencer' = After(sequencer, 1)
    BY <2>1, <2>3, <1>t, FollowingIsAfter DEF NumbersOK
  <2>5. ASSUME NEW r \in Numbered
        PROVE  /\ number[r] \in Lo..max
               /\ turn[r] \in 0..k - 1
               /\ k - turn[r] <= Period => sequencer = After(number[r], k - turn[r])
               /\ k + 1 - turn[r] <= Period => sequencer' = After(number[r], k + 1 - turn[r])
    <3>1. /\ number[r] \in Lo..max
          /\ turn[r] \in 0..k - 1
          /\ k - turn[r] <= Period => sequencer = After(number[r], k - turn[r])
      BY <1>t DEF NumbersOK
    <3>2. CASE k + 1 - turn[r] <= Period
      <4>1. k - turn[r] \in 1..Period - 1 /\ (k - turn[r]) + 1 = k + 1 - turn[r]
        BY <1>c, <1>t, <3>1, <3>2, RangeFacts
      <4> QED BY <2>4, <3>1, <4>1, <1>t, AfterAgain, RangeFacts
    <3> QED BY <3>1, <3>2
  <2>6. ASSUME NEW r \in Numbered'
        PROVE  /\ number'[r] \in Lo..max
               /\ turn'[r] \in 0..k
               /\ k + 1 - turn'[r] <= Period => sequencer' = After(number'[r], k + 1 - turn'[r])
    <3>1. CASE r = q
      BY <1>c, <1>t, <2>1, <2>4, <3>1 DEF NumbersOK
    <3>2. CASE r # q
      BY <1>c, <2>1, <2>5, <3>2
    <3> QED BY <3>1, <3>2
  <2>7. ASSUME NEW r \in Numbered', NEW p \in Numbered', r # p
        PROVE  /\ turn'[p] # turn'[r]
               /\ turn'[p] - turn'[r] \in 1..Period => number'[p] = After(number'[r], turn'[p] - turn'[r])
    <3>1. CASE r \in Numbered /\ p \in Numbered
      BY <1>t, <2>1, <2>7, <3>1 DEF NumbersOK
    <3>2. CASE r \in Numbered /\ p = q
      BY <1>c, <1>t, <2>1, <2>5, <3>2, RangeFacts
    <3>3. CASE r = q /\ p \in Numbered
      BY <1>c, <1>t, <2>1, <2>5, <3>3, RangeFacts
    <3> QED BY <2>1, <2>7, <3>1, <3>2, <3>3
  <2>8. ASSUME NEW r \in Numbered'
        PROVE  /\ number'[r] \in Lo'..max'
               /\ turn'[r] \in 0..Cardinality(Numbered') - 1
               /\ Cardinality(Numbered') - turn'[r] <= Period' =>
                    sequencer' = After(number[r], Cardinality(Numbered) - turn[r])'
    <3>1. k + 1 - 1 = k
      BY <1>c
    <3> QED BY <2>1, <2>2, <2>3, <2>6, <3>1 DEF After
  <2>9. ASSUME NEW r \in Numbered', NEW p \in Numbered', r # p
        PROVE  /\ turn'[p] # turn'[r]
               /\ turn'[p] - turn'[r] \in 1..Period' => number'[p] = After(number[r], turn[p] - turn[r])'
    BY <2>1, <2>3, <2>7, <2>9 DEF After
  <2> HIDE DEF k
  <2> QED BY <2>2, <2>4, <2>8, <2>9 DEF NumbersOK
<1>2. CASE sequence' = sequence /\ \A q \in Requests : pc'[q] = "idle" <=> pc[q] = "idle"
  <2>1. Numbered' = Numbered
    BY <1>2 DEF Numbered
  <2>2. Lo' = Lo /\ Period' = Period /\ \A n, d : After(n, d)' = After(n, d)
    BY <1>2 DEF sequence, Lo, Period, After
  <2> QED BY <1>2, <1>t, <2>1, <2>2 DEF NumbersOK, sequence
<1> QED BY <1>t, <1>1, <1>2, CallsGoOn

-----------------------------------------------------------------------------
(* Who changes the map, the timers, the writes and the futures, and how.   *)
LEMMA ItemsMove ==
  ASSUME TypeOK, [Next]_vars
  PROVE  \A n \in Numbers :
           \/ items'[n] \in {items[n], None}
           \/ \E r \in Requests : Store(r) /\ n = number[r] /\ items'[n] = r
<1>1. ASSUME NEW r \in Requests, Store(r)
      PROVE  \A n \in Numbers : items'[n] = items[n] \/ (n = number[r] /\ items'[n] = r)
  BY <1>1 DEF Store, TypeOK
<1>2. ASSUME NEW r \in Requests, RemoveUnsent(r) \/ TimerDeletes(r)
      PROVE  \A n \in Numbers : items'[n] \in {items[n], None}
  BY <1>2 DEF RemoveUnsent, TimerDeletes, TypeOK
<1>3. ASSUME NEW m \in Messages, Match(m)
      PROVE  \A n \in Numbers : items'[n] \in {items[n], None}
  BY <1>3 DEF Match, TypeOK
<1>4. ASSUME NEW r \in Requests,
             \/ TakeNumber(r) \/ Arm(r) \/ CancelReplaced(r) \/ Send(r)
             \/ WriteSucceeds(r) \/ WriteFails(r) \/ CancelUnsent(r) \/ FailUnsent(r)
             \/ TimerFires(r) \/ TimerHandles(r)
      PROVE  items' = items
  BY <1>4 DEF TakeNumber, Arm, CancelReplaced, Send, WriteSucceeds, WriteFails, CancelUnsent, FailUnsent,
     TimerFires, TimerHandles
<1>5. ASSUME Reader \/ (\E m \in Messages : PassOn(m)) \/ UNCHANGED vars
      PROVE  items' = items
  BY <1>5 DEF Reader, CancelTaken, StoreValue, Succeed, PassOn, vars
<1> QED BY <1>1, <1>2, <1>3, <1>4, <1>5 DEF Next, Request, Writer, Timer

LEMMA TimersMove ==
  ASSUME TypeOK, CallsOK, [Next]_vars, NEW q \in Requests
  PROVE  \/ timer'[q] = timer[q]
         \/ timer[q] = "none" /\ timer'[q] = "armed" /\ Arm(q)
         \/ timer[q] = "armed" /\ timer'[q] \in {"running", "cancelled"}
         \/ timer[q] = "running" /\ timer'[q] = "deleted" /\ TimerDeletes(q)
         \/ timer[q] = "deleted" /\ timer'[q] = "done" /\ TimerHandles(q)
<1>1. ASSUME NEW r \in Requests, Arm(r)
      PROVE  timer'[q] = timer[q] \/ (timer[q] = "none" /\ timer'[q] = "armed" /\ Arm(q))
  BY <1>1 DEF Arm, Goto, TypeOK, CallsOK
<1>2. ASSUME NEW e, CancelTimeout(e)
      PROVE  timer'[q] = timer[q] \/ (timer[q] = "armed" /\ timer'[q] = "cancelled")
  BY <1>2 DEF CancelTimeout, TypeOK
<1>3. ASSUME NEW r \in Requests, Timer(r)
      PROVE  \/ timer'[q] = timer[q]
             \/ timer[q] = "armed" /\ timer'[q] = "running"
             \/ timer[q] = "running" /\ timer'[q] = "deleted" /\ TimerDeletes(q)
             \/ timer[q] = "deleted" /\ timer'[q] = "done" /\ TimerHandles(q)
  BY <1>3 DEF Timer, TimerFires, TimerDeletes, TimerHandles, TimerStep, TypeOK
<1>4. ASSUME NEW r \in Requests,
             \/ TakeNumber(r) \/ Store(r) \/ Send(r)
             \/ WriteSucceeds(r) \/ WriteFails(r) \/ RemoveUnsent(r) \/ FailUnsent(r)
      PROVE  timer' = timer
  BY <1>4 DEF TakeNumber, Store, Send, WriteSucceeds, WriteFails, RemoveUnsent, FailUnsent
<1>5. ASSUME \/ \E r \in Requests : CancelReplaced(r) \/ CancelUnsent(r)
             \/ CancelTaken
      PROVE  \E e : CancelTimeout(e)
  BY <1>5 DEF CancelReplaced, CancelUnsent, CancelTaken
<1>6. ASSUME StoreValue \/ Succeed \/ (\E m \in Messages : Match(m) \/ PassOn(m)) \/ UNCHANGED vars
      PROVE  timer' = timer
  BY <1>6 DEF StoreValue, Succeed, Match, PassOn, vars
<1> QED BY <1>1, <1>2, <1>3, <1>4, <1>5, <1>6 DEF Next, Request, Writer, Reader

LEMMA FuturesMove ==
  ASSUME TypeOK, ReaderOK, [Next]_vars, NEW q \in Requests
  PROVE  /\ \/ fut'[q] = fut[q]
            \/ FailUnsent(q) /\ fut'[q] = Cell!Failed(fut[q], "write")
            \/ TimerHandles(q) /\ fut'[q] = Cell!Failed(fut[q], "timeout")
            \/ Succeed /\ taken = q /\ fut'[q] = Cell!Succeeded(fut[q])
         /\ \/ value'[q] = value[q]
            \/ StoreValue /\ taken = q /\ value'[q] = response
<1>1. ASSUME NEW r \in Requests, FailUnsent(r) \/ TimerHandles(r)
      PROVE  /\ \/ fut'[q] = fut[q]
                \/ FailUnsent(q) /\ fut'[q] = Cell!Failed(fut[q], "write")
                \/ TimerHandles(q) /\ fut'[q] = Cell!Failed(fut[q], "timeout")
             /\ value' = value
  BY <1>1 DEF FailUnsent, TimerHandles, WriteStep, TimerStep, TypeOK
<1>2. CASE Succeed
  <2>1. value' = value
    BY <1>2 DEF Succeed
  <2>2. fut'[q] = fut[q] \/ (taken = q /\ fut'[q] = Cell!Succeeded(fut[q]))
    BY <1>2 DEF Succeed, TypeOK
  <2> QED BY <1>2, <2>1, <2>2
<1>3. CASE StoreValue
  BY <1>3 DEF StoreValue, TypeOK
<1>4. ASSUME NEW r \in Requests,
             TakeNumber(r) \/ Request(r) \/ WriteSucceeds(r) \/ WriteFails(r) \/ RemoveUnsent(r)
             \/ CancelUnsent(r) \/ TimerFires(r) \/ TimerDeletes(r)
      PROVE  UNCHANGED <<fut, value>>
  BY <1>4 DEF TakeNumber, Request, Arm, Store, CancelReplaced, Send, WriteSucceeds, WriteFails,
     RemoveUnsent, CancelUnsent, WriteStep, TimerFires, TimerDeletes, TimerStep, futures
<1>5. ASSUME CancelTaken \/ (\E m \in Messages : Match(m) \/ PassOn(m)) \/ UNCHANGED vars
      PROVE  UNCHANGED <<fut, value>>
  BY <1>5 DEF CancelTaken, Match, PassOn, vars, futures
<1> QED BY <1>1, <1>2, <1>3, <1>4, <1>5 DEF Next, Writer, Timer, Reader

LEMMA WritesMove ==
  ASSUME TypeOK, [Next]_vars, NEW q \in Requests
  PROVE  \/ write'[q] = write[q]
         \/ write'[q] = "writing" /\ Send(q)
         \/ write[q] = "writing" /\ write'[q] \in {"sent", "failed"}
         \/ write[q] = "failed" /\ write'[q] \in {"cancelling", "failing"} /\ RemoveUnsent(q)
         \/ write[q] \in {"cancelling", "failing"} /\ write'[q] \in {"failing", "ended"}
<1>1. ASSUME NEW r \in Requests, Send(r)
      PROVE  write'[q] = write[q] \/ (write'[q] = "writing" /\ Send(q))
  BY <1>1 DEF Send, TypeOK
<1>2. ASSUME NEW r \in Requests, Writer(r)
      PROVE  \/ write'[q] = write[q]
             \/ write[q] = "writing" /\ write'[q] \in {"sent", "failed"}
             \/ write[q] = "failed" /\ write'[q] \in {"cancelling", "failing"} /\ RemoveUnsent(q)
             \/ write[q] \in {"cancelling", "failing"} /\ write'[q] \in {"failing", "ended"}
  BY <1>2 DEF Writer, WriteSucceeds, WriteFails, RemoveUnsent, CancelUnsent, FailUnsent, WriteStep, TypeOK
<1>3. ASSUME NEW r \in Requests, TakeNumber(r) \/ Arm(r) \/ Store(r) \/ CancelReplaced(r) \/ Timer(r)
      PROVE  write' = write
  BY <1>3 DEF TakeNumber, Arm, Store, CancelReplaced, Timer, TimerFires, TimerDeletes, TimerHandles,
     TimerStep, writes
<1>4. ASSUME Reader \/ (\E m \in Messages : Match(m) \/ PassOn(m)) \/ UNCHANGED vars
      PROVE  write' = write
  BY <1>4 DEF Reader, CancelTaken, StoreValue, Succeed, Match, PassOn, ReaderStep, vars, writes
<1> QED BY <1>1, <1>2, <1>3, <1>4 DEF Next, Request

LEMMA HistoryMoves ==
  ASSUME TypeOK, [Next]_vars, NEW q \in Requests
  PROVE  /\ q \in stored' => q \in stored \/ (Store(q) /\ timer[q] \in {"armed", "running"})
         /\ q \in inTime' => q \in inTime \/ (CancelTaken /\ taken = q /\ timer[q] = "armed")
<1>1. ASSUME NEW r \in Requests, Store(r)
      PROVE  /\ q \in stored' => q \in stored \/ (Store(q) /\ timer[q] \in {"armed", "running"})
             /\ inTime' = inTime
  <2>1. /\ stored' = IF timer[r] \in {"armed", "running"} THEN stored \cup {r} ELSE stored
        /\ inTime' = inTime
    BY <1>1 DEF Store, reading
  <2>2. CASE q = r
    BY <1>1, <2>1, <2>2
  <2>3. CASE q # r
    BY <2>1, <2>3
  <2> QED BY <2>2, <2>3
<1>2. ASSUME CancelTaken
      PROVE  /\ stored' = stored
             /\ q \in inTime' => q \in inTime \/ (CancelTaken /\ taken = q /\ timer[q] = "armed")
  <2>1. /\ stored' = stored
        /\ inTime' = IF timer[taken] = "armed" THEN inTime \cup {taken} ELSE inTime
    BY <1>2 DEF CancelTaken, ReaderStep
  <2> QED BY <1>2, <2>1
<1>3. ASSUME NEW r \in Requests,
             TakeNumber(r) \/ Arm(r) \/ CancelReplaced(r) \/ Send(r) \/ Writer(r) \/ Timer(r)
      PROVE  UNCHANGED <<stored, inTime>>
  BY <1>3 DEF TakeNumber, Arm, CancelReplaced, Send, Writer, WriteSucceeds, WriteFails, RemoveUnsent,
     CancelUnsent, FailUnsent, WriteStep, Timer, TimerFires, TimerDeletes, TimerHandles, TimerStep, reading
<1>4. ASSUME StoreValue \/ Succeed \/ (\E m \in Messages : Match(m) \/ PassOn(m)) \/ UNCHANGED vars
      PROVE  UNCHANGED <<stored, inTime>>
  BY <1>4 DEF StoreValue, Succeed, Match, PassOn, ReaderStep, vars, reading
<1> QED BY <1>1, <1>2, <1>3, <1>4 DEF Next, Request, Reader

(* An entry that is not in the map after its Put does not come back. *)
LEMMA OutStaysOut ==
  ASSUME TypeOK, [Next]_vars,
         NEW r \in Requests, pc[r] \in Entered, items[number[r]] # r
  PROVE  items'[number'[r]] # r
<1>1. number[r] \in Numbers /\ number'[r] = number[r]
  BY CallsGoOn DEF TypeOK, Entered
<1>2. \A q \in Requests : Store(q) => q # r
  BY DEF Store, Goto, Entered
<1>3. r # None
  BY RequestAssumption
<1> QED BY <1>1, <1>2, <1>3, ItemsMove

-----------------------------------------------------------------------------
LEMMA NextItemsOK == IInv /\ [Next]_vars => ItemsOK'
<1> SUFFICES ASSUME IInv, [Next]_vars, NEW n \in Numbers, items'[n] # None
             PROVE  number'[items'[n]] = n /\ pc'[items'[n]] \in Entered
  BY DEF ItemsOK
<1>t. TypeOK /\ ItemsOK
  BY DEF IInv
<1>1. CASE items'[n] = items[n]
  <2>1. items[n] \in Requests /\ number[items[n]] = n /\ pc[items[n]] \in Entered
    BY <1>1, <1>t DEF TypeOK, ItemsOK
  <2> QED BY <1>1, <1>t, <2>1, CallsGoOn DEF Entered
<1>2. ASSUME NEW r \in Requests, Store(r), n = number[r], items'[n] = r
      PROVE  number'[items'[n]] = n /\ pc'[items'[n]] \in Entered
  BY <1>2, <1>t DEF Store, Goto, sequence, TypeOK, Entered
<1> QED BY <1>t, <1>1, <1>2, ItemsMove

LEMMA NextCallsOK == IInv /\ [Next]_vars => CallsOK'
<1> SUFFICES ASSUME IInv, [Next]_vars, NEW r \in Requests
             PROVE  /\ write'[r] # "none" => pc'[r] = "returned"
                    /\ pc'[r] \in {"idle", "arming"} => timer'[r] = "none"
                    /\ pc'[r] = "idle" => value'[r] = None
  BY DEF CallsOK
<1>t. TypeOK /\ CallsOK /\ ReaderOK
  BY DEF IInv
<1>1. write'[r] # "none" => pc'[r] = "returned"
  <2>1. Send(r) => pc'[r] = "returned"
    BY <1>t DEF Send, Goto, TypeOK
  <2> QED BY <1>t, <2>1, WritesMove, CallsGoOn DEF CallsOK
<1>2. pc'[r] \in {"idle", "arming"} => timer'[r] = "none"
  <2>1. Arm(r) => pc'[r] = "storing"
    BY <1>t DEF Arm, Goto, TypeOK
  <2>2. pc'[r] = "idle" => pc[r] = "idle"
    BY <1>t, CallsGoOn
  <2>3. pc'[r] = "arming" => pc[r] \in {"idle", "arming"}
    <3>1. ASSUME NEW q \in Requests, TakeNumber(q) \/ Request(q)
          PROVE  pc'[r] = "arming" => pc[r] \in {"idle", "arming"}
      BY <3>1, <1>t DEF TakeNumber, Request, Arm, Store, CancelReplaced, Send, Goto, TypeOK
    <3>2. ASSUME NEW q \in Requests, Writer(q) \/ Timer(q)
          PROVE  pc' = pc
      BY <3>2 DEF Writer, WriteSucceeds, WriteFails, RemoveUnsent, CancelUnsent, FailUnsent, WriteStep,
         Timer, TimerFires, TimerDeletes, TimerHandles, TimerStep, calls
    <3>3. ASSUME Reader \/ (\E m \in Messages : Match(m) \/ PassOn(m)) \/ UNCHANGED vars
          PROVE  pc' = pc
      BY <3>3 DEF Reader, CancelTaken, StoreValue, Succeed, Match, PassOn, ReaderStep, calls, vars
    <3> QED BY <3>1, <3>2, <3>3 DEF Next
  <2> QED BY <1>t, <2>1, <2>2, <2>3, TimersMove DEF CallsOK
<1>3. pc'[r] = "idle" => value'[r] = None
  <2>1. StoreValue /\ taken = r => pc[r] # "idle"
    BY <1>t DEF StoreValue, ReaderStep, ReaderOK, Entered
  <2> QED BY <1>t, <2>1, FuturesMove, CallsGoOn DEF CallsOK
<1> QED BY <1>1, <1>2, <1>3

LEMMA NextTimersOK == IInv /\ [Next]_vars => TimersOK'
<1> SUFFICES ASSUME IInv, [Next]_vars, NEW r \in Requests
             PROVE  /\ r \in inTime' => timer'[r] = "cancelled"
                    /\ fut'[r].err = "timeout" => timer'[r] = "done"
                    /\ fut'[r].done => pc'[r] \in Entered \/ timer'[r] = "done"
  BY DEF TimersOK
<1>t. TypeOK /\ CallsOK /\ TimersOK /\ ReaderOK
  BY DEF IInv
<1>f. fut[r] \in Cells /\ "write" \in Errors /\ "timeout" \in Errors
  BY <1>t DEF TypeOK, Cells, Errors
<1>1. r \in inTime' => timer'[r] = "cancelled"
  <2>1. CASE r \in inTime
    BY <1>t, <2>1, TimersMove DEF TimersOK
  <2>2. CASE CancelTaken /\ taken = r /\ timer[r] = "armed"
    BY <1>t, <2>2 DEF CancelTaken, CancelTimeout, TypeOK
  <2> QED BY <1>t, <2>1, <2>2, HistoryMoves
<1>2. FailUnsent(r) => pc[r] \in Entered
  BY <1>t DEF FailUnsent, WriteStep, CallsOK, Entered
<1>3. TimerHandles(r) => timer'[r] = "done"
  BY <1>t DEF TimerHandles, TimerStep, TypeOK
<1>4. Succeed /\ taken = r => pc[r] \in Entered
  BY <1>t DEF Succeed, ReaderStep, ReaderOK
<1>5. timer[r] = "done" => timer'[r] = "done"
  BY <1>t, TimersMove
<1>6. pc[r] \in Entered => pc'[r] \in Entered
  BY <1>t, CallsGoOn
<1>7. CASE fut'[r] = fut[r]
  BY <1>t, <1>1, <1>5, <1>6, <1>7 DEF TimersOK
<1>8. CASE FailUnsent(r) /\ fut'[r] = Cell!Failed(fut[r], "write")
  BY <1>t, <1>f, <1>1, <1>2, <1>5, <1>6, <1>8, FailedFields DEF TimersOK
<1>9. CASE TimerHandles(r)
  BY <1>1, <1>3, <1>9
<1>10. CASE Succeed /\ taken = r /\ fut'[r] = Cell!Succeeded(fut[r])
  BY <1>t, <1>f, <1>1, <1>4, <1>5, <1>6, <1>10, SucceededFields DEF TimersOK
<1> QED BY <1>t, <1>7, <1>8, <1>9, <1>10, FuturesMove

LEMMA NextLeftOK == IInv /\ [Next]_vars => LeftOK'
<1> SUFFICES ASSUME IInv, [Next]_vars, NEW r \in Requests
             PROVE  /\ r \in stored' => pc'[r] \in Entered
                    /\ r \in stored' /\ timer'[r] \in {"deleted", "done"} => items'[number'[r]] # r
                    /\ write'[r] \in {"cancelling", "failing", "ended"} => items'[number'[r]] # r
  BY DEF LeftOK
<1>t. TypeOK /\ CallsOK /\ LeftOK
  BY DEF IInv
<1>n. r # None /\ number[r] \in Numbers /\ items \in [Numbers -> Requests \cup {None}]
  BY <1>t, RequestAssumption DEF TypeOK
<1>s. Store(r) => pc'[r] \in Entered /\ timer'[r] = timer[r]
  BY <1>t DEF Store, Goto, TypeOK, Entered
<1>1. r \in stored' => pc'[r] \in Entered
  BY <1>t, <1>s, HistoryMoves, CallsGoOn DEF LeftOK
<1>2. ASSUME r \in stored', timer'[r] \in {"deleted", "done"}
      PROVE  items'[number'[r]] # r
  <2>1. r \in stored /\ pc[r] \in Entered
    <3>1. CASE r \in stored
      BY <1>t, <3>1 DEF LeftOK
    <3>2. CASE Store(r) /\ timer[r] \in {"armed", "running"}
      BY <1>2, <1>s, <3>2
    <3> QED BY <1>t, <1>2, <3>1, <3>2, HistoryMoves
  <2>2. CASE TimerDeletes(r)
    BY <1>n, <2>2 DEF TimerDeletes, TimerStep, sequence
  <2>3. CASE timer[r] \in {"deleted", "done"}
    BY <1>t, <2>1, <2>3, OutStaysOut DEF LeftOK
  <2> QED BY <1>t, <1>2, <2>2, <2>3, TimersMove
<1>3. ASSUME write'[r] \in {"cancelling", "failing", "ended"}
      PROVE  items'[number'[r]] # r
  <2>1. CASE RemoveUnsent(r)
    BY <1>n, <2>1 DEF RemoveUnsent, WriteStep, sequence
  <2>2. CASE write[r] \in {"cancelling", "failing", "ended"}
    BY <1>t, <2>2, OutStaysOut DEF LeftOK, CallsOK, Entered
  <2> QED BY <1>t, <1>3, <2>1, <2>2, WritesMove
<1> QED BY <1>1, <1>2, <1>3

LEMMA NextDoneLeaves == IInv /\ [Next]_vars => DoneLeavesTheMap'
<1> SUFFICES ASSUME IInv, [Next]_vars, NEW r \in stored', fut'[r].done
             PROVE  items'[number'[r]] # r
  BY DEF DoneLeavesTheMap
<1>t. TypeOK /\ TimersOK /\ LeftOK /\ ReaderOK /\ DoneLeavesTheMap
  BY DEF IInv
<1>r. r \in Requests
  BY NextTypeOK DEF TypeOK
<1>1. CASE r \in stored
  <2>1. pc[r] \in Entered
    BY <1>t, <1>r, <1>1 DEF LeftOK
  <2>2. CASE fut'[r] = fut[r]
    BY <1>t, <1>r, <1>1, <2>1, <2>2, OutStaysOut DEF DoneLeavesTheMap
  <2>3. CASE FailUnsent(r)
    BY <1>t, <1>r, <2>1, <2>3, OutStaysOut DEF FailUnsent, WriteStep, LeftOK
  <2>4. CASE TimerHandles(r)
    BY <1>t, <1>r, <1>1, <2>1, <2>4, OutStaysOut DEF TimerHandles, TimerStep, LeftOK
  <2>5. CASE Succeed /\ taken = r
    BY <1>t, <1>r, <2>1, <2>5, OutStaysOut DEF Succeed, ReaderStep, ReaderOK
  <2> QED BY <1>t, <1>r, <2>2, <2>3, <2>4, <2>5, FuturesMove
<1>2. CASE Store(r) /\ timer[r] \in {"armed", "running"}
  <2>1. fut'[r] = fut[r] /\ pc[r] = "storing"
    BY <1>2 DEF Store, Goto, futures
  <2> QED BY <1>t, <1>r, <1>2, <2>1 DEF TimersOK, Entered
<1> QED BY <1>t, <1>r, <1>1, <1>2, HistoryMoves

LEMMA NextReaderOK == IInv /\ [Next]_vars => ReaderOK'
<1> SUFFICES ASSUME IInv, [Next]_vars, reader' # "reading" PROVE ReaderOK'
  BY DEF ReaderOK
<1>t. TypeOK /\ ItemsOK /\ CallsOK /\ ReaderOK
  BY DEF IInv
<1>1. ASSUME NEW m \in Messages, Match(m) PROVE ReaderOK'
  <2>1. /\ taken' = items[Seq(m)] /\ items[Seq(m)] # None
        /\ items' = [items EXCEPT ![Seq(m)] = None]
        /\ response' = m /\ Seq(m) > 0 /\ reader' = "cancelling"
        /\ pc' = pc /\ number' = number
        /\ m \in Requests => write[m] = "sent"
    BY <1>1 DEF Match, Arrives, ReaderStep, calls, sequence
  <2>2. Seq(m) \in Numbers
    <3>1. CASE m \in Requests
      BY <1>t, <3>1 DEF TypeOK, Seq
    <3>2. CASE m \notin Requests
      <4>1. m \in 0..MaxInt /\ MaxInt \in Nat /\ Seq(m) = m
        BY <3>2, RequestAssumption DEF Seq, Messages
      <4> QED BY <4>1 DEF Numbers, MinInt
    <3> QED BY <3>1, <3>2
  <2>3. taken' \in Requests /\ number[taken'] = Seq(m) /\ pc[taken'] \in Entered
    BY <1>t, <2>1, <2>2 DEF TypeOK, ItemsOK
  <2>4. items'[number'[taken']] # taken'
    BY <1>t, <2>1, <2>2, <2>3, RequestAssumption DEF TypeOK
  <2>5. Seq(response)' = Seq(m)
    BY <2>1 DEF Seq
  <2>6. m \in Requests => pc'[m] # "idle"
    BY <1>t, <2>1 DEF CallsOK
  <2> QED BY <2>1, <2>3, <2>4, <2>5, <2>6 DEF ReaderOK
<1>2. ASSUME reader # "reading", UNCHANGED <<taken, response>>,
             reader' = "succeeding" => value'[taken] # None
      PROVE  ReaderOK'
  <2>1. /\ taken \in Requests /\ response \in Messages
        /\ Seq(response) = number[taken] /\ Seq(response) > 0
        /\ pc[taken] \in Entered /\ items[number[taken]] # taken
        /\ response \in Requests => pc[response] # "idle"
    BY <1>t, <1>2 DEF ReaderOK
  <2>2. /\ pc'[taken] \in Entered /\ items'[number'[taken]] # taken /\ number'[taken] = number[taken]
        /\ response \in Requests => pc'[response] # "idle" /\ number'[response] = number[response]
    BY <1>t, <2>1, CallsGoOn, OutStaysOut DEF Entered
  <2>3. Seq(response)' = Seq(response)
    BY <1>2, <2>2 DEF Seq
  <2> QED BY <1>2, <2>1, <2>2, <2>3 DEF ReaderOK
<1>3. CASE CancelTaken
  BY <1>2, <1>3 DEF CancelTaken, ReaderStep
<1>4. CASE StoreValue
  <2>1. response # None /\ taken \in Requests
    BY <1>t, <1>4, RequestAssumption DEF StoreValue, ReaderStep, ReaderOK, Messages
  <2> QED BY <1>t, <1>2, <1>4, <2>1 DEF StoreValue, ReaderStep, TypeOK
<1>5. CASE Succeed
  BY <1>5 DEF Succeed, ReaderStep
<1>6. CASE UNCHANGED <<reader, taken, response, value>>
  BY <1>t, <1>2, <1>6 DEF ReaderOK
<1>7. ASSUME NEW r \in Requests, TakeNumber(r) \/ Request(r)
      PROVE  UNCHANGED <<reader, taken, response, value>>
  BY <1>7 DEF TakeNumber, Request, Arm, Store, CancelReplaced, Send, futures, reading
<1>8. ASSUME NEW r \in Requests, Writer(r) \/ Timer(r)
      PROVE  UNCHANGED <<reader, taken, response, value>>
  BY <1>8 DEF Writer, WriteSucceeds, WriteFails, RemoveUnsent, CancelUnsent, FailUnsent, WriteStep,
     Timer, TimerFires, TimerDeletes, TimerHandles, TimerStep, reading
<1>9. ASSUME NEW m \in Messages, PassOn(m)
      PROVE  reader' = "reading"
  BY <1>9 DEF PassOn, ReaderStep
<1>10. CASE UNCHANGED vars
  BY <1>6, <1>10 DEF vars, futures, reading
<1> QED BY <1>1, <1>3, <1>4, <1>5, <1>6, <1>7, <1>8, <1>9, <1>10 DEF Next, Reader

LEMMA NextValuesOK == IInv /\ [Next]_vars => ValuesOK'
<1> SUFFICES ASSUME IInv, [Next]_vars, NEW r \in Requests
             PROVE  /\ pc'[r] # "idle" /\ Alone(r)' =>
                         value'[r] \in {r, None} \cup {n \in Asks : n = number'[r] /\ n > 0}
                    /\ Cell!IsSuccess(fut'[r]) => value'[r] # None
  BY DEF ValuesOK
<1>t. TypeOK /\ CallsOK /\ ReaderOK /\ ValuesOK
  BY DEF IInv
<1>f. fut[r] \in Cells /\ "write" \in Errors /\ "timeout" \in Errors
  BY <1>t DEF TypeOK, Cells, Errors
<1>1. ASSUME StoreValue, taken = r, value'[r] = response
      PROVE  /\ pc[r] # "idle" /\ response # None
             /\ Alone(r) => response \in {r} \cup {n \in Asks : n = number[r] /\ n > 0}
  <2>1. /\ pc[r] # "idle" /\ response \in Messages
        /\ Seq(response) = number[r] /\ Seq(response) > 0
        /\ response \in Requests => response \in Numbered
    BY <1>t, <1>1 DEF StoreValue, ReaderStep, ReaderOK, Entered, Numbered
  <2>2. response # None
    BY <2>1, RequestAssumption DEF Messages
  <2>3. CASE response \in Requests
    BY <2>1, <2>2, <2>3 DEF Seq, Alone
  <2>4. CASE response \notin Requests
    BY <2>1, <2>2, <2>4 DEF Seq, Messages
  <2> QED BY <2>3, <2>4
<1>2. ASSUME pc[r] # "idle", Alone(r)'
      PROVE  Alone(r) /\ number'[r] = number[r]
  BY <1>t, <1>2, CallsGoOn DEF Alone, Numbered
<1>3. ASSUME pc'[r] # "idle", Alone(r)'
      PROVE  value'[r] \in {r, None} \cup {n \in Asks : n = number'[r] /\ n > 0}
  <2>1. CASE pc[r] = "idle"
    BY <1>t, <1>1, <2>1, FuturesMove DEF CallsOK
  <2>2. CASE pc[r] # "idle"
    BY <1>t, <1>1, <1>2, <1>3, <2>2, FuturesMove DEF ValuesOK
  <2> QED BY <2>1, <2>2
<1>4. ASSUME Cell!IsSuccess(fut'[r]) PROVE value'[r] # None
  <2>1. CASE value'[r] = value[r]
    <3>e. None \notin Errors
      BY RequestAssumption
    <3>1. CASE fut'[r] = fut[r]
      BY <1>t, <1>4, <2>1, <3>1 DEF ValuesOK
    <3>2. ASSUME NEW e \in Errors, fut'[r] = Cell!Failed(fut[r], e) PROVE value'[r] # None
      <4>1. fut[r].done /\ fut'[r] = fut[r]
        BY <1>f, <1>4, <3>e, <3>2, FailedFields DEF Cell!IsSuccess
      <4> QED BY <3>1, <4>1
    <3>3. CASE Succeed /\ taken = r
      BY <1>t, <2>1, <3>3 DEF Succeed, ReaderStep, ReaderOK
    <3> QED BY <1>t, <1>f, <3>1, <3>2, <3>3, FuturesMove
  <2> QED BY <1>t, <1>1, <2>1, FuturesMove
<1> QED BY <1>3, <1>4

LEMMA NextIInv == IInv /\ [Next]_vars => IInv'
  BY NextTypeOK, NextNumbersOK, NextItemsOK, NextCallsOK, NextTimersOK, NextLeftOK, NextReaderOK,
     NextValuesOK, NextDoneLeaves DEF IInv

LEMMA SpecIInv == Spec => []IInv
  BY InitIInv, NextIInv, PTL DEF Spec

-----------------------------------------------------------------------------
(* While the sequencer has not come round, a number is used once.          *)
LEMMA FreshIsAlone ==
  ASSUME IInv, NEW r \in Requests, pc[r] # "idle", Fresh(r)
  PROVE  Alone(r)
<1> SUFFICES ASSUME NEW q \in Numbered, q # r PROVE number[q] # number[r]
  BY DEF Alone
<1>t. TypeOK /\ NumbersOK
  BY DEF IInv
<1>r. r \in Numbered
  BY DEF Numbered
<1>q. q \in Requests /\ pc[q] # "idle"
  BY DEF Numbered
<1>1. /\ turn[q] \in Int /\ turn[r] \in Int /\ turn[q] # turn[r]
      /\ turn[q] - turn[r] \in 1 - Period..Period - 1
      /\ number[q] \in Lo..max /\ number[r] \in Lo..max /\ Period \in Nat
  <2>1. turn[q] \in Int /\ turn[r] \in Int /\ Period \in Nat
    BY <1>t, <1>q, RangeFacts DEF TypeOK
  <2>2. turn[q] # turn[r] /\ number[q] \in Lo..max /\ number[r] \in Lo..max
    BY <1>t, <1>r DEF NumbersOK
  <2>3. turn[q] - turn[r] \in 1 - Period..Period - 1
    BY <1>q DEF Fresh
  <2> QED BY <2>1, <2>2, <2>3
<1>2. CASE turn[q] > turn[r]
  <2>1. turn[q] - turn[r] \in 1..Period - 1
    BY <1>1, <1>2
  <2>2. number[q] = After(number[r], turn[q] - turn[r])
    BY <1>t, <1>r, <1>1, <2>1 DEF NumbersOK
  <2> QED BY <1>t, <1>1, <2>1, <2>2, AfterAgain
<1>3. CASE turn[q] < turn[r]
  <2>1. turn[r] - turn[q] \in 1..Period - 1
    BY <1>1, <1>3
  <2>2. number[r] = After(number[q], turn[r] - turn[q])
    BY <1>t, <1>r, <1>1, <2>1 DEF NumbersOK
  <2> QED BY <1>t, <1>1, <2>1, <2>2, AfterAgain
<1> QED BY <1>1, <1>2, <1>3

(* The ranges of the variables, the overflowing sequencer included. *)
THEOREM TypeCorrect == Spec => []TypeOK
<1>1. IInv => TypeOK
  BY DEF IInv
<1> QED BY <1>1, SpecIInv, PTL

(* Whatever calls, writes, timers, answers and requests of the peer do in  *)
(* between, a future whose number is not used again gets its own response  *)
(* or the peer's request of that number, never nothing, and no timeout     *)
(* after it was answered in time.                                          *)
THEOREM ResponsesMatch == Spec => []AnsweredByItsResponse
<1>1. IInv => AnsweredByItsResponse
  BY FreshIsAlone, RequestAssumption
     DEF IInv, ValuesOK, TimersOK, AnsweredByItsResponse, Errors
<1> QED BY <1>1, SpecIInv, PTL

(* A request that is done, in whatever way, has left the map. *)
THEOREM DoneHaveLeft == Spec => []DoneLeavesTheMap
<1>1. IInv => DoneLeavesTheMap
  BY DEF IInv
<1> QED BY <1>1, SpecIInv, PTL

-----------------------------------------------------------------------------
(* Whose timeout a Put or a failed Write is about to cancel: that of an    *)
(* entry with its own number.                                              *)
TargetsOK ==
  \A r \in Requests :
    /\ pc[r] = "replacing" =>
         replaced[r] \in Numbered \ {r} /\ number[replaced[r]] = number[r]
    /\ write[r] = "cancelling" =>
         unsent[r] \in Numbered /\ number[unsent[r]] = number[r]

LEMMA NextTargetsOK == IInv /\ TargetsOK /\ [Next]_vars => TargetsOK'
<1> SUFFICES ASSUME IInv, TargetsOK, [Next]_vars, NEW r \in Requests
             PROVE  /\ pc'[r] = "replacing" =>
                         replaced'[r] \in Numbered' \ {r} /\ number'[replaced'[r]] = number'[r]
                    /\ write'[r] = "cancelling" =>
                         unsent'[r] \in Numbered' /\ number'[unsent'[r]] = number'[r]
  BY DEF TargetsOK
<1>t. TypeOK /\ ItemsOK /\ CallsOK
  BY DEF IInv
<1>g. \A q \in Numbered : q \in Numbered' /\ number'[q] = number[q]
  BY <1>t, CallsGoOn DEF Numbered
<1>1. ASSUME pc'[r] = "replacing"
      PROVE  replaced'[r] \in Numbered' \ {r} /\ number'[replaced'[r]] = number'[r]
  <2>1. CASE Store(r)
    <3>1. /\ pc[r] = "storing" /\ items[number[r]] # None /\ number[r] \in Numbers
          /\ replaced'[r] = items[number[r]] /\ number' = number
      BY <1>1, <1>t, <2>1 DEF Store, Goto, TypeOK, sequence
    <3>2. items[number[r]] \in Numbered \ {r} /\ number[items[number[r]]] = number[r]
      BY <1>t, <3>1 DEF ItemsOK, Entered, Numbered, TypeOK
    <3> QED BY <1>g, <3>1, <3>2
  <2>2. CASE ~Store(r)
    <3>1. pc[r] = "replacing" /\ replaced'[r] = replaced[r]
      <4>1. ASSUME NEW q \in Requests, TakeNumber(q) \/ Request(q)
            PROVE  pc[r] = "replacing" /\ replaced'[r] = replaced[r]
        BY <1>1, <1>t, <2>2, <4>1
           DEF TakeNumber, Request, Arm, Store, CancelReplaced, Send, Goto, TypeOK
      <4>2. ASSUME NEW q \in Requests, Writer(q) \/ Timer(q) PROVE UNCHANGED calls
        BY <4>2 DEF Writer, WriteSucceeds, WriteFails, RemoveUnsent, CancelUnsent, FailUnsent, WriteStep,
           Timer, TimerFires, TimerDeletes, TimerHandles, TimerStep
      <4>3. ASSUME Reader \/ (\E m \in Messages : Match(m) \/ PassOn(m)) \/ UNCHANGED vars
            PROVE  UNCHANGED calls
        BY <4>3 DEF Reader, CancelTaken, StoreValue, Succeed, Match, PassOn, ReaderStep, vars
      <4> QED BY <1>1, <4>1, <4>2, <4>3 DEF Next, calls
    <3>2. r \in Numbered
      BY <3>1 DEF Numbered
    <3> QED BY <1>g, <3>1, <3>2 DEF TargetsOK
  <2> QED BY <2>1, <2>2
<1>2. ASSUME write'[r] = "cancelling"
      PROVE  unsent'[r] \in Numbered' /\ number'[unsent'[r]] = number'[r]
  <2>1. CASE RemoveUnsent(r)
    <3>1. /\ items[number[r]] # None /\ number[r] \in Numbers
          /\ unsent'[r] = items[number[r]] /\ number' = number
      BY <1>2, <1>t, <2>1 DEF RemoveUnsent, WriteStep, TypeOK, sequence
    <3>2. items[number[r]] \in Numbered /\ number[items[number[r]]] = number[r]
      BY <1>t, <3>1 DEF ItemsOK, Entered, Numbered, TypeOK
    <3> QED BY <1>g, <3>1, <3>2
  <2>2. CASE ~RemoveUnsent(r)
    <3>1. write[r] = "cancelling" /\ unsent'[r] = unsent[r]
      <4>1. ASSUME NEW q \in Requests, Writer(q)
            PROVE  write[r] = "cancelling" /\ unsent'[r] = unsent[r]
        BY <1>2, <1>t, <2>2, <4>1
           DEF Writer, WriteSucceeds, WriteFails, RemoveUnsent, CancelUnsent, FailUnsent, WriteStep, TypeOK
      <4>2. ASSUME NEW q \in Requests, TakeNumber(q) \/ Request(q) \/ Timer(q)
            PROVE  write[r] = "cancelling" /\ unsent'[r] = unsent[r]
        BY <1>2, <1>t, <4>2
           DEF TakeNumber, Request, Arm, Store, CancelReplaced, Send, Timer, TimerFires, TimerDeletes,
               TimerHandles, TimerStep, TypeOK, writes
      <4>3. ASSUME Reader \/ (\E m \in Messages : Match(m) \/ PassOn(m)) \/ UNCHANGED vars
            PROVE  UNCHANGED writes
        BY <4>3 DEF Reader, CancelTaken, StoreValue, Succeed, Match, PassOn, ReaderStep, vars
      <4> QED BY <1>2, <4>1, <4>2, <4>3 DEF Next, writes
    <3>2. r \in Numbered
      BY <1>t, <3>1 DEF CallsOK, Numbered
    <3> QED BY <1>g, <3>1, <3>2 DEF TargetsOK
  <2> QED BY <2>1, <2>2
<1> QED BY <1>1, <1>2

(* Who is about to complete a request whose timeout was cancelled: the     *)
(* reader, or the listener of its failed Write.                            *)
InHand(r) ==
  \/ reader \in {"valuing", "succeeding"} /\ taken = r
  \/ write[r] = "failing"

AwaitedOK ==
  \A r \in Requests :
    /\ pc[r] \notin {"idle", "arming"} => timer[r] # "none"
    /\ timer[r] = "done" => fut[r].done
    /\ timer[r] = "cancelled" /\ Alone(r) => fut[r].done \/ InHand(r)

(* A future that is done stays done, and each of three steps makes it so.  *)
LEMMA DoneStays ==
  ASSUME IInv, [Next]_vars, NEW r \in Requests
  PROVE  /\ fut[r].done => fut'[r].done
         /\ (taken = r /\ Succeed) \/ FailUnsent(r) \/ TimerHandles(r) => fut'[r].done
<1>t. TypeOK /\ ReaderOK
  BY DEF IInv
<1>f. fut[r].done \in BOOLEAN /\ fut[r] \in Cells /\ "write" \in Errors /\ "timeout" \in Errors
  BY <1>t DEF TypeOK, Cells, Errors, Cell!FutureCells
<1>1. fut[r].done => fut'[r].done
  <2>1. CASE fut'[r] = fut[r]
    BY <2>1
  <2>2. ASSUME NEW e \in Errors, fut'[r] = Cell!Failed(fut[r], e) PROVE fut'[r].done
    BY <2>2, <1>f, FailedFields
  <2>3. CASE fut'[r] = Cell!Succeeded(fut[r])
    BY <2>3, <1>f, SucceededFields
  <2> QED BY <1>t, <1>f, <2>1, <2>2, <2>3, FuturesMove
<1>2. ASSUME taken = r, Succeed PROVE fut'[r].done
  <2>1. fut'[r] = Cell!Succeeded(fut[r])
    BY <1>t, <1>2 DEF Succeed, TypeOK
  <2> QED BY <2>1, <1>f, SucceededFields
<1>3. ASSUME FailUnsent(r) PROVE fut'[r].done
  <2>1. fut'[r] = Cell!Failed(fut[r], "write")
    BY <1>t, <1>3 DEF FailUnsent, TypeOK
  <2> QED BY <2>1, <1>f, FailedFields
<1>4. ASSUME TimerHandles(r) PROVE fut'[r].done
  <2>1. fut'[r] = Cell!Failed(fut[r], "timeout")
    BY <1>t, <1>4 DEF TimerHandles, TypeOK
  <2> QED BY <2>1, <1>f, FailedFields
<1> QED BY <1>1, <1>2, <1>3, <1>4

(* What has a request in hand goes on until it has completed it.           *)
LEMMA HandsKeep ==
  ASSUME IInv, [Next]_vars, NEW r \in Requests, ~fut'[r].done
  PROVE  /\ reader \in {"valuing", "succeeding"} /\ taken = r =>
              /\ taken' = r
              /\ reader' = reader \/ (reader = "valuing" /\ reader' = "succeeding")
         /\ write[r] = "failing" => write'[r] = "failing"
<1>t. TypeOK
  BY DEF IInv
<1>1. ASSUME reader \in {"valuing", "succeeding"}, taken = r
      PROVE  /\ taken' = r
             /\ reader' = reader \/ (reader = "valuing" /\ reader' = "succeeding")
  <2>1. CASE Reader
    BY <1>1, <2>1, DoneStays DEF Reader, CancelTaken, StoreValue, Succeed, ReaderStep
  <2>2. ASSUME NEW m \in Messages, Match(m) \/ PassOn(m) PROVE FALSE
    BY <1>1, <2>2 DEF Match, PassOn, ReaderStep
  <2>3. ASSUME NEW q \in Requests, TakeNumber(q) \/ Request(q) \/ Writer(q) \/ Timer(q)
        PROVE  UNCHANGED reading
    BY <2>3 DEF TakeNumber, Request, Arm, Store, CancelReplaced, Send, Writer, WriteSucceeds, WriteFails,
       RemoveUnsent, CancelUnsent, FailUnsent, WriteStep, Timer, TimerFires, TimerDeletes, TimerHandles,
       TimerStep
  <2> QED BY <1>1, <2>1, <2>2, <2>3 DEF Next, vars, reading
<1>2. ASSUME write[r] = "failing" PROVE write'[r] = "failing"
  <2>1. ASSUME NEW q \in Requests, Writer(q) PROVE write'[r] = "failing" \/ FailUnsent(r)
    BY <1>t, <1>2, <2>1 DEF Writer, WriteSucceeds, WriteFails, RemoveUnsent, CancelUnsent, FailUnsent,
       WriteStep, TypeOK
  <2>2. ASSUME NEW q \in Requests, Request(q) PROVE write'[r] = "failing" \/ Send(r)
    BY <1>t, <1>2, <2>2 DEF Request, Arm, Store, CancelReplaced, Send, TypeOK, writes
  <2>3. CallsOK => ~Send(r)
    BY <1>2 DEF CallsOK, Send, Goto
  <2>4. ASSUME NEW q \in Requests, TakeNumber(q) \/ Timer(q) PROVE UNCHANGED writes
    BY <2>4 DEF TakeNumber, Timer, TimerFires, TimerDeletes, TimerHandles, TimerStep
  <2>5. ASSUME Reader \/ (\E m \in Messages : Match(m) \/ PassOn(m)) \/ UNCHANGED vars
        PROVE  UNCHANGED writes
    BY <2>5 DEF Reader, CancelTaken, StoreValue, Succeed, Match, PassOn, ReaderStep, vars
  <2> QED BY DoneStays, <1>2, <2>1, <2>2, <2>3, <2>4, <2>5 DEF Next, writes, IInv
<1> QED BY <1>1, <1>2

(* While a number is not used again, only those cancel a timeout who then  *)
(* have the request in hand.                                               *)
LEMMA CancelsAreInHand ==
  ASSUME IInv, TargetsOK, [Next]_vars, NEW r \in Requests, Alone(r),
         timer[r] = "armed", timer'[r] = "cancelled"
  PROVE  InHand(r)'
<1>t. TypeOK /\ CallsOK /\ ReaderOK
  BY DEF IInv
<1>1. ASSUME NEW e, CancelTimeout(e) PROVE e = r
  BY <1>1, <1>t DEF CancelTimeout, TypeOK
<1>2. ASSUME NEW q \in Requests, CancelReplaced(q) PROVE FALSE
  <2>1. replaced[q] = r /\ pc[q] = "replacing"
    BY <1>1, <1>2 DEF CancelReplaced, Goto
  <2>2. q \in Numbered \ {r} /\ number[q] = number[r]
    BY <2>1 DEF TargetsOK, Numbered
  <2> QED BY <2>2 DEF Alone
<1>3. ASSUME NEW q \in Requests, CancelUnsent(q) PROVE InHand(r)'
  <2>1. unsent[q] = r /\ write[q] = "cancelling" /\ write'[q] = "failing"
    BY <1>t, <1>1, <1>3 DEF CancelUnsent, WriteStep, TypeOK
  <2>2. q \in Numbered /\ number[q] = number[r]
    BY <1>t, <2>1 DEF TargetsOK, CallsOK, Numbered
  <2>3. q = r
    BY <2>2 DEF Alone
  <2> QED BY <2>1, <2>3 DEF InHand
<1>4. CASE CancelTaken
  <2>1. taken = r /\ taken' = taken /\ reader' = "valuing"
    BY <1>1, <1>4 DEF CancelTaken, ReaderStep
  <2> QED BY <2>1 DEF InHand
<1>5. ASSUME NEW q \in Requests,
             \/ TakeNumber(q) \/ Arm(q) \/ Store(q) \/ Send(q) \/ Timer(q)
             \/ WriteSucceeds(q) \/ WriteFails(q) \/ RemoveUnsent(q) \/ FailUnsent(q)
      PROVE  timer'[r] # "cancelled"
  BY <1>t, <1>5 DEF TakeNumber, Arm, Store, Send, Timer, TimerFires, TimerDeletes, TimerHandles, TimerStep,
     WriteSucceeds, WriteFails, RemoveUnsent, FailUnsent, TypeOK
<1>6. ASSUME StoreValue \/ Succeed \/ (\E m \in Messages : Match(m) \/ PassOn(m)) \/ UNCHANGED vars
      PROVE  timer' = timer
  BY <1>6 DEF StoreValue, Succeed, Match, PassOn, vars
<1> QED BY <1>2, <1>3, <1>4, <1>5, <1>6 DEF Next, Request, Writer, Reader

LEMMA NextAwaitedOK == IInv /\ TargetsOK /\ AwaitedOK /\ [Next]_vars => AwaitedOK'
<1> SUFFICES ASSUME IInv, TargetsOK, AwaitedOK, [Next]_vars, NEW r \in Requests
             PROVE  /\ pc'[r] \notin {"idle", "arming"} => timer'[r] # "none"
                    /\ timer'[r] = "done" => fut'[r].done
                    /\ timer'[r] = "cancelled" /\ Alone(r)' => fut'[r].done \/ InHand(r)'
  BY DEF AwaitedOK
<1>t. TypeOK /\ CallsOK
  BY DEF IInv
<1>1. pc'[r] \notin {"idle", "arming"} => timer'[r] # "none"
  <2>1. CASE pc[r] \notin {"idle", "arming"}
    BY <1>t, <2>1, TimersMove DEF AwaitedOK
  <2>2. CASE pc[r] \in {"idle", "arming"}
    <3>1. ASSUME NEW q \in Requests, TakeNumber(q) \/ Request(q)
          PROVE  pc'[r] \notin {"idle", "arming"} => timer'[r] # "none"
      BY <1>t, <2>2, <3>1 DEF TakeNumber, Request, Arm, Store, CancelReplaced, Send, Goto, TypeOK
    <3>2. ASSUME NEW q \in Requests, Writer(q) \/ Timer(q) PROVE pc' = pc
      BY <3>2 DEF Writer, WriteSucceeds, WriteFails, RemoveUnsent, CancelUnsent, FailUnsent, WriteStep,
         Timer, TimerFires, TimerDeletes, TimerHandles, TimerStep, calls
    <3>3. ASSUME Reader \/ (\E m \in Messages : Match(m) \/ PassOn(m)) \/ UNCHANGED vars
          PROVE  pc' = pc
      BY <3>3 DEF Reader, CancelTaken, StoreValue, Succeed, Match, PassOn, ReaderStep, vars, calls
    <3> QED BY <2>2, <3>1, <3>2, <3>3 DEF Next
  <2> QED BY <2>1, <2>2
<1>2. timer'[r] = "done" => fut'[r].done
  <2>1. timer[r] = "done" => fut'[r].done
    BY DoneStays DEF AwaitedOK
  <2>2. TimerHandles(r) => fut'[r].done
    BY DoneStays
  <2> QED BY <1>t, <2>1, <2>2, TimersMove
<1>3. ASSUME timer'[r] = "cancelled", Alone(r)' PROVE fut'[r].done \/ InHand(r)'
  <2>1. timer[r] \in {"armed", "cancelled"}
    BY <1>t, <1>3, TimersMove
  <2>2. Alone(r)
    <3>1. pc[r] # "idle"
      BY <1>t, <2>1 DEF CallsOK
    <3> QED BY <1>t, <1>3, <3>1, CallsGoOn DEF Alone, Numbered
  <2>3. CASE timer[r] = "armed"
    BY <1>3, <2>2, <2>3, CancelsAreInHand
  <2>4. CASE timer[r] = "cancelled"
    BY <2>2, <2>4, DoneStays, HandsKeep DEF AwaitedOK, InHand
  <2> QED BY <2>1, <2>3, <2>4
<1> QED BY <1>1, <1>2, <1>3

LEMMA SpecAwaitedOK == Spec => []AwaitedOK
<1>1. Init => TargetsOK /\ AwaitedOK
  BY DEF Init, TargetsOK, AwaitedOK
<1> QED BY <1>1, NextTargetsOK, NextAwaitedOK, SpecIInv, PTL DEF Spec

-----------------------------------------------------------------------------
(* What eventually happens.  The provers do not know ENABLED, so fairness  *)
(* is written out: it is that of Fairness when Ticking(r), Completing(r)   *)
(* and Handling are the enabling conditions of Timer(r), of Writer(r) and  *)
(* of Reader.                                                              *)
Ticking(r) == timer[r] \in {"armed", "running", "deleted"}
Completing(r) == write[r] \in {"writing", "failed", "cancelling", "failing"}
Handling == reader # "reading"

AllRun ==
  /\ []<>~Handling \/ []<><<Reader>>_vars
  /\ \A r \in Requests :
       /\ []<>~Ticking(r) \/ []<><<Timer(r)>>_vars
       /\ []<>~Completing(r) \/ []<><<Writer(r)>>_vars

(* Every request ends with a response, the error of its Write or a         *)
(* timeout, as long as its number is not used again: its timer goes on, or *)
(* who has cancelled it completes it.                                      *)
THEOREM RequestsEnd == Spec /\ AllRun => EveryRequestEnds
<1>1. ASSUME NEW r \in Requests
      PROVE  Spec /\ AllRun => (pc[r] = "returned" ~> fut[r].done \/ ~Fresh(r))
  <2> DEFINE Returned == pc[r] = "returned"
             Goal == fut[r].done \/ ~Fresh(r)
             Waits == Returned /\ ~Goal
             A == Waits /\ timer[r] = "armed"
             R == Waits /\ timer[r] = "running"
             D == Waits /\ timer[r] = "deleted"
             C == Waits /\ timer[r] = "cancelled"
             V == Waits /\ taken = r /\ reader = "valuing"
             S == Waits /\ taken = r /\ reader = "succeeding"
             F == Waits /\ write[r] = "failing"
  <2>1. IInv /\ AwaitedOK /\ Waits => A \/ R \/ D \/ C
    <3> SUFFICES ASSUME IInv, AwaitedOK, Waits PROVE A \/ R \/ D \/ C
      OBVIOUS
    <3>1. timer[r] \in {"none", "armed", "cancelled", "running", "deleted", "done"}
      BY DEF IInv, TypeOK
    <3> QED BY <3>1 DEF AwaitedOK
  <2>a. IInv /\ AwaitedOK /\ C => V \/ S \/ F
    <3> SUFFICES ASSUME IInv, AwaitedOK, C PROVE V \/ S \/ F
      OBVIOUS
    <3>1. Alone(r)
      BY FreshIsAlone
    <3> QED BY <3>1 DEF AwaitedOK, InHand
  <2>2. IInv /\ [Next]_vars =>
          /\ Returned => Returned'
          /\ A => A' \/ R' \/ C' \/ Goal'
          /\ R => R' \/ D' \/ Goal'
          /\ D => D' \/ Goal'
          /\ V => V' \/ S' \/ Goal'
          /\ S => S' \/ Goal'
          /\ F => F' \/ Goal'
    <3> SUFFICES ASSUME IInv, [Next]_vars
                 PROVE  /\ Returned => Returned'
                        /\ A => A' \/ R' \/ C' \/ Goal'
                        /\ R => R' \/ D' \/ Goal'
                        /\ D => D' \/ Goal'
                        /\ V => V' \/ S' \/ Goal'
                        /\ S => S' \/ Goal'
                        /\ F => F' \/ Goal'
      OBVIOUS
    <3>1. Returned => Returned'
      BY CallsGoOn DEF IInv
    <3>2. ASSUME Returned, ~fut'[r].done
          PROVE  /\ timer[r] = "armed" => timer'[r] \in {"armed", "running", "cancelled"}
                 /\ timer[r] = "running" => timer'[r] \in {"running", "deleted"}
                 /\ timer[r] = "deleted" => timer'[r] = "deleted"
      BY <3>2, TimersMove, DoneStays DEF IInv
    <3>3. ASSUME ~fut'[r].done, taken = r, reader \in {"valuing", "succeeding"}
          PROVE  \/ taken' = r /\ reader' = reader
                 \/ taken' = r /\ reader = "valuing" /\ reader' = "succeeding"
      BY <3>3, HandsKeep
    <3>4. ASSUME ~fut'[r].done, write[r] = "failing"
          PROVE  write'[r] = "failing"
      BY <3>4, HandsKeep
    <3>5. Returned /\ ~Goal' => Waits' /\ ~fut'[r].done
      BY <3>1
    <3>6. /\ A => A' \/ R' \/ C' \/ Goal'
          /\ R => R' \/ D' \/ Goal'
          /\ D => D' \/ Goal'
      BY <3>2, <3>5
    <3>7. /\ V => V' \/ S' \/ Goal'
          /\ S => S' \/ Goal'
      BY <3>3, <3>5
    <3>8. F => F' \/ Goal'
      BY <3>4, <3>5
    <3> QED BY <3>1, <3>6, <3>7, <3>8
  <2>3. IInv /\ <<Timer(r)>>_vars => (A => ~A') /\ (R => ~R') /\ (D => ~D')
    BY DEF Timer, TimerFires, TimerDeletes, TimerHandles, TimerStep, IInv, TypeOK
  <2>4. IInv /\ [Next]_vars /\ <<Reader>>_vars => (V => ~V') /\ (S => ~S')
    BY DEF Reader, CancelTaken, StoreValue, Succeed, ReaderStep
  <2>5. IInv /\ [Next]_vars /\ <<Writer(r)>>_vars => (F => ~F')
    BY DEF Writer, WriteSucceeds, WriteFails, RemoveUnsent, CancelUnsent, FailUnsent, WriteStep, IInv, TypeOK
  <2>6. /\ A \/ R \/ D => Ticking(r)
        /\ V \/ S => Handling
        /\ F => Completing(r)
    BY DEF Ticking, Handling, Completing
  <2>7. AllRun => /\ []<>~Handling \/ []<><<Reader>>_vars
                  /\ []<>~Ticking(r) \/ []<><<Timer(r)>>_vars
                  /\ []<>~Completing(r) \/ []<><<Writer(r)>>_vars
    BY DEF AllRun
  <2>8. Spec => []IInv /\ []AwaitedOK /\ [][Next]_vars
    BY SpecIInv, SpecAwaitedOK, PTL DEF Spec
  <2>9. Waits => Returned
    OBVIOUS
  <2>10. Returned => Waits \/ Goal
    OBVIOUS
  <2> HIDE DEF Returned, Goal, Waits, A, R, D, C, V, S, F
  <2>11. Spec /\ AllRun => (Returned ~> Goal)
    BY <2>1, <2>a, <2>2, <2>3, <2>4, <2>5, <2>6, <2>7, <2>8, <2>9, <2>10, PTL
  <2> QED BY <2>11 DEF Returned, Goal
<1> QED BY <1>1 DEF EveryRequestEnds
============================================================================
