---------------------------- MODULE ClientProofs ----------------------------
(***************************************************************************)
(* The safety properties of Client, and what calls come to, for any number *)
(* of calls and any numbers of attempts. The provers do not know ENABLED:  *)
(* fairness is written out, with the enabling condition of each action     *)
(* read off its guards.                                                    *)
(***************************************************************************)
EXTENDS Client, TLAPS

(* Goroutines between the claim of the address and its release. *)
InLoop == Connecting \cup {"checking", "waiting"}

(* Goroutines that have a connection. *)
Having == {"joining", "connected", "counting", "reading"}

(* Until stopCh is closed the claim of the address admits one loop; the    *)
(* loops that get in when claims are released find stopCh closed and never *)
(* dial.                                                                   *)
ClaimOK ==
  /\ persistent /\ ~stopped =>
       /\ \A p, q \in Calls : pc[p] \in InLoop /\ pc[q] \in InLoop => p = q
       /\ \A p \in Calls : pc[p] \in InLoop => claimed
  /\ \A p \in Calls : pc[p] \in {"releasing", "deferred"} => stopped
  /\ OneConnectionPerAddress

(* What the calls were answered while they run. *)
AnswersOK ==
  /\ \A p \in Calls : pc[p] \in InLoop \cup {"claiming"} => future[p] \in {"pending", "succeeded"}
  /\ \A p \in open \cup members \cup wg : pc[p] \in Having
  /\ ErrorsLeaveNothingOpen

(* Every dial that failed has used up one attempt. *)
BudgetOK ==
  /\ \A p \in Calls : pc[p] \in {"claiming", "releasing", "deferred"} => persistent
  /\ \A p \in Calls : future[p] = "failed" => pc[p] = "done"
  /\ ~persistent /\ reconnCount >= 0 /\ reconnCount < MaxDials =>
       \A p \in Calls :
         /\ pc[p] = "idle" => dials[p] = 0
         /\ pc[p] \in {"checking", "waiting"} => left[p] >= 0 /\ dials[p] = reconnCount - left[p]
         /\ pc[p] = "dialing" => left[p] >= 0 /\ dials[p] = reconnCount + 1 - left[p]
  /\ RetryBudgetIsKept

IInv == TypeOK /\ ClaimOK /\ AnswersOK /\ BudgetOK

-----------------------------------------------------------------------------
LEMMA InitIInv == Init => IInv
<1> SUFFICES ASSUME Init PROVE IInv
  OBVIOUS
<1> USE ClientAssumption DEF Init
<1>1. TypeOK
  <2>1. /\ persistent \in BOOLEAN /\ grouped \in BOOLEAN /\ pipeline \in BOOLEAN
        /\ stopped \in BOOLEAN /\ claimed \in BOOLEAN
    BY Zenon
  <2>2. /\ reconnCount \in ReconnCounts
        /\ state \in {"READY", "RUNNING", "TERMINATED"}
        /\ down \in {"none", "signalling", "grouping", "ranging", "waiting", "returned"}
    OBVIOUS
  <2>3. /\ wg \subseteq Calls /\ open \subseteq Calls /\ members \subseteq Calls /\ early \subseteq Calls
    OBVIOUS
  <2>4. pc \in [Calls -> {"idle", "claiming", "checking", "waiting", "releasing", "deferred", "done"}
                          \cup Connecting]
    OBVIOUS
  <2>5. future \in [Calls -> {"none", "pending", "succeeded", "invalid", "already", "failed",
                              "timeout", "stopped"}]
    OBVIOUS
  <2>6. left \in [Calls -> ReconnCounts \cup Nat] /\ dials \in [Calls -> Nat]
    OBVIOUS
  <2> QED BY <2>1, <2>2, <2>3, <2>4, <2>5, <2>6, Zenon DEF TypeOK
<1>2. ClaimOK
  BY DEF ClaimOK, OneConnectionPerAddress, InLoop, Connecting
<1>3. AnswersOK
  BY DEF AnswersOK, ErrorsLeaveNothingOpen, InLoop, Connecting
<1>4. BudgetOK
  <2>1. \A p \in Calls : dials[p] = 0 /\ future[p] = "none" /\ pc[p] = "idle"
    OBVIOUS
  <2>2. reconnCount \in Int
    OBVIOUS
  <2> QED BY <2>1, <2>2 DEF BudgetOK, RetryBudgetIsKept
<1> QED BY <1>1, <1>2, <1>3, <1>4 DEF IInv

LEMMA NextIInv == IInv /\ [Next]_vars => IInv'
<1> USE ClientAssumption DEF config, stopping, Goto, Answer, TearDown, Handle
<1> SUFFICES ASSUME IInv, [Next]_vars PROVE IInv'
  OBVIOUS
<1>i. \A q \in Calls : dials[q] \in Nat /\ left[q] \in Int
  <2>1. ReconnCounts \cup Nat \subseteq Int
    OBVIOUS
  <2>2. \A q \in Calls : dials[q] \in Nat /\ left[q] \in ReconnCounts \cup Nat
    BY DEF IInv, TypeOK
  <2> QED BY <2>1, <2>2
<1>t. TypeOK /\ ClaimOK /\ AnswersOK /\ BudgetOK
  BY DEF IInv
<1>1. ASSUME NEW p \in Calls, ConnectOnce(p) PROVE IInv'
  <2>1. TypeOK'
    BY <1>1, <1>t DEF ConnectOnce, TypeOK, Connecting
  <2>2. ClaimOK'
    BY <1>1, <1>t DEF ConnectOnce, TypeOK, ClaimOK, OneConnectionPerAddress, InLoop, Connecting
  <2>3. AnswersOK'
    BY <1>1, <1>t DEF ConnectOnce, TypeOK, AnswersOK, ErrorsLeaveNothingOpen, InLoop, Connecting, Having
  <2>4. BudgetOK'
    BY <1>1, <1>t DEF ConnectOnce, TypeOK, BudgetOK, RetryBudgetIsKept, Connecting
  <2> QED BY <2>1, <2>2, <2>3, <2>4 DEF IInv
<1>2. ASSUME NEW p \in Calls, ConnectPersistently(p) PROVE IInv'
  <2>1. TypeOK'
    BY <1>2, <1>t DEF ConnectPersistently, TypeOK, Connecting
  <2>2. ClaimOK'
    BY <1>2, <1>t DEF ConnectPersistently, TypeOK, ClaimOK, OneConnectionPerAddress, InLoop, Connecting
  <2>3. AnswersOK'
    BY <1>2, <1>t DEF ConnectPersistently, TypeOK, AnswersOK, ErrorsLeaveNothingOpen, InLoop, Connecting, Having
  <2>4. BudgetOK'
    BY <1>2, <1>t DEF ConnectPersistently, TypeOK, BudgetOK, RetryBudgetIsKept, Connecting
  <2> QED BY <2>1, <2>2, <2>3, <2>4 DEF IInv
<1>3. ASSUME NEW p \in Calls, Claim(p) PROVE IInv'
  <2>1. TypeOK'
    BY <1>3, <1>t DEF Claim, TypeOK, Connecting
  <2>2. ClaimOK'
    BY <1>3, <1>t DEF Claim, TypeOK, ClaimOK, OneConnectionPerAddress, InLoop, Connecting
  <2>3. AnswersOK'
    BY <1>3, <1>t DEF Claim, TypeOK, AnswersOK, ErrorsLeaveNothingOpen, InLoop, Connecting, Having
  <2>4. BudgetOK'
    BY <1>3, <1>t DEF Claim, TypeOK, BudgetOK, RetryBudgetIsKept, Connecting
  <2> QED BY <2>1, <2>2, <2>3, <2>4 DEF IInv
<1>4. ASSUME NEW p \in Calls, Dial(p) PROVE IInv'
  <2>1. TypeOK'
    BY <1>4, <1>t DEF Dial, TypeOK, Connecting
  <2>2. ClaimOK'
    BY <1>4, <1>t DEF Dial, TypeOK, ClaimOK, OneConnectionPerAddress, InLoop, Connecting
  <2>3. AnswersOK'
    BY <1>4, <1>t DEF Dial, TypeOK, AnswersOK, ErrorsLeaveNothingOpen, InLoop, Connecting, Having
  <2>4. BudgetOK'
    <3>1. /\ pc[p] = "checking" /\ pc'[p] = "dialing"
          /\ dials'[p] = IF dials[p] < MaxDials THEN dials[p] + 1 ELSE dials[p]
          /\ \A q \in Calls \ {p} : pc'[q] = pc[q] /\ dials'[q] = dials[q]
          /\ UNCHANGED <<config, future, left>>
      BY <1>4, <1>t DEF Dial, TypeOK
    <3>3. reconnCount \in Int
      BY <1>t DEF TypeOK
    <3>4. ~persistent /\ reconnCount >= 0 /\ reconnCount < MaxDials =>
            left[p] >= 0 /\ dials[p] = reconnCount - left[p] /\ dials'[p] = dials[p] + 1
      BY <3>1, <1>i, <3>3, <1>t DEF BudgetOK
    <3> QED BY <3>1, <1>i, <3>3, <3>4, <1>t DEF BudgetOK, RetryBudgetIsKept
  <2> QED BY <2>1, <2>2, <2>3, <2>4 DEF IInv
<1>5. ASSUME NEW p \in Calls, DialFails(p) PROVE IInv'
  <2>1. TypeOK'
    <3>1. left' \in [Calls -> ReconnCounts \cup Nat]
      <4>1. left[p] \in Int
        BY <1>5, <1>i
      <4>2. (IF left[p] > 0 THEN left[p] - 1 ELSE left[p]) \in ReconnCounts \cup Nat
        BY <4>1, <1>5, <1>t DEF TypeOK
      <4> QED BY <4>2, <1>5, <1>t DEF DialFails, TypeOK
    <3>2. /\ pc' \in [Calls -> {"idle", "claiming", "checking", "waiting", "releasing", "deferred",
                                "done"} \cup Connecting]
          /\ future' \in [Calls -> {"none", "pending", "succeeded", "invalid", "already", "failed",
                                    "timeout", "stopped"}]
      BY <1>5, <1>t DEF DialFails, TypeOK
    <3> QED BY <3>1, <3>2, <1>5, <1>t DEF DialFails, TypeOK
  <2>2. ClaimOK'
    BY <1>5, <1>t DEF DialFails, TypeOK, ClaimOK, OneConnectionPerAddress, InLoop, Connecting
  <2>3. AnswersOK'
    BY <1>5, <1>t DEF DialFails, TypeOK, AnswersOK, ErrorsLeaveNothingOpen, InLoop, Connecting, Having
  <2>4. BudgetOK'
    <3>3. reconnCount \in Int
      BY <1>t DEF TypeOK
    <3>4. CASE ~persistent /\ left[p] = 0
      <4>1. /\ pc[p] = "dialing" /\ pc'[p] = "done" /\ future'[p] = "failed" /\ left'[p] = left[p]
            /\ \A q \in Calls \ {p} : pc'[q] = pc[q] /\ future'[q] = future[q] /\ left'[q] = left[q]
            /\ UNCHANGED <<config, dials>>
        BY <1>5, <1>t, <3>4 DEF DialFails, TypeOK
      <4> QED BY <4>1, <1>i, <3>3, <3>4, <1>t DEF BudgetOK, RetryBudgetIsKept
    <3>5. CASE ~(~persistent /\ left[p] = 0)
      <4>1. /\ pc[p] = "dialing" /\ pc'[p] = "waiting"
            /\ left'[p] = IF left[p] > 0 THEN left[p] - 1 ELSE left[p]
            /\ \A q \in Calls \ {p} : pc'[q] = pc[q] /\ left'[q] = left[q]
            /\ UNCHANGED <<config, dials, future>>
        BY <1>5, <1>t, <3>5 DEF DialFails, TypeOK
      <4> QED BY <4>1, <1>i, <3>3, <3>5, <1>t DEF BudgetOK, RetryBudgetIsKept
    <3> QED BY <3>4, <3>5
  <2> QED BY <2>1, <2>2, <2>3, <2>4 DEF IInv
<1>6. ASSUME NEW p \in Calls, DialTimesOut(p) PROVE IInv'
  <2>1. TypeOK'
    BY <1>6, <1>t DEF DialTimesOut, TypeOK, Connecting
  <2>2. ClaimOK'
    BY <1>6, <1>t DEF DialTimesOut, TypeOK, ClaimOK, OneConnectionPerAddress, InLoop, Connecting
  <2>3. AnswersOK'
    BY <1>6, <1>t DEF DialTimesOut, TypeOK, AnswersOK, ErrorsLeaveNothingOpen, InLoop, Connecting, Having
  <2>4. BudgetOK'
    BY <1>6, <1>t DEF DialTimesOut, TypeOK, BudgetOK, RetryBudgetIsKept, Connecting
  <2> QED BY <2>1, <2>2, <2>3, <2>4 DEF IInv
<1>7. ASSUME NEW p \in Calls, Dialled(p) PROVE IInv'
  <2>1. TypeOK'
    BY <1>7, <1>t DEF Dialled, TypeOK, Connecting
  <2>2. ClaimOK'
    BY <1>7, <1>t DEF Dialled, TypeOK, ClaimOK, OneConnectionPerAddress, InLoop, Connecting
  <2>3. AnswersOK'
    BY <1>7, <1>t DEF Dialled, TypeOK, AnswersOK, ErrorsLeaveNothingOpen, InLoop, Connecting, Having
  <2>4. BudgetOK'
    BY <1>7, <1>t DEF Dialled, TypeOK, BudgetOK, RetryBudgetIsKept, Connecting
  <2> QED BY <2>1, <2>2, <2>3, <2>4 DEF IInv
<1>8. ASSUME NEW p \in Calls, Join(p) PROVE IInv'
  <2>1. TypeOK'
    BY <1>8, <1>t DEF Join, TypeOK, Connecting
  <2>2. ClaimOK'
    BY <1>8, <1>t DEF Join, TypeOK, ClaimOK, OneConnectionPerAddress, InLoop, Connecting
  <2>3. AnswersOK'
    BY <1>8, <1>t DEF Join, TypeOK, AnswersOK, ErrorsLeaveNothingOpen, InLoop, Connecting, Having
  <2>4. BudgetOK'
    BY <1>8, <1>t DEF Join, TypeOK, BudgetOK, RetryBudgetIsKept, Connecting
  <2> QED BY <2>1, <2>2, <2>3, <2>4 DEF IInv
<1>9. ASSUME NEW p \in Calls, Connected(p) PROVE IInv'
  <2>1. TypeOK'
    BY <1>9, <1>t DEF Connected, TypeOK, Connecting
  <2>2. ClaimOK'
    BY <1>9, <1>t DEF Connected, TypeOK, ClaimOK, OneConnectionPerAddress, InLoop, Connecting
  <2>3. AnswersOK'
    BY <1>9, <1>t DEF Connected, TypeOK, AnswersOK, ErrorsLeaveNothingOpen, InLoop, Connecting, Having
  <2>4. BudgetOK'
    BY <1>9, <1>t DEF Connected, TypeOK, BudgetOK, RetryBudgetIsKept, Connecting
  <2> QED BY <2>1, <2>2, <2>3, <2>4 DEF IInv
<1>10. ASSUME NEW p \in Calls, Count(p) PROVE IInv'
  <2>1. TypeOK'
    BY <1>10, <1>t DEF Count, TypeOK, Connecting
  <2>2. ClaimOK'
    BY <1>10, <1>t DEF Count, TypeOK, ClaimOK, OneConnectionPerAddress, InLoop, Connecting
  <2>3. AnswersOK'
    BY <1>10, <1>t DEF Count, TypeOK, AnswersOK, ErrorsLeaveNothingOpen, InLoop, Connecting, Having
  <2>4. BudgetOK'
    BY <1>10, <1>t DEF Count, TypeOK, BudgetOK, RetryBudgetIsKept, Connecting
  <2> QED BY <2>1, <2>2, <2>3, <2>4 DEF IInv
<1>11. ASSUME NEW p \in Calls, End(p) PROVE IInv'
  <2>1. TypeOK'
    BY <1>11, <1>t DEF End, TypeOK, Connecting
  <2>2. ClaimOK'
    BY <1>11, <1>t DEF End, TypeOK, ClaimOK, OneConnectionPerAddress, InLoop, Connecting
  <2>3. AnswersOK'
    BY <1>11, <1>t DEF End, TypeOK, AnswersOK, ErrorsLeaveNothingOpen, InLoop, Connecting, Having
  <2>4. BudgetOK'
    BY <1>11, <1>t DEF End, TypeOK, BudgetOK, RetryBudgetIsKept, Connecting
  <2> QED BY <2>1, <2>2, <2>3, <2>4 DEF IInv
<1>12. ASSUME NEW p \in Calls, Retry(p) PROVE IInv'
  <2>1. TypeOK'
    BY <1>12, <1>t DEF Retry, TypeOK, Connecting
  <2>2. ClaimOK'
    BY <1>12, <1>t DEF Retry, TypeOK, ClaimOK, OneConnectionPerAddress, InLoop, Connecting
  <2>3. AnswersOK'
    BY <1>12, <1>t DEF Retry, TypeOK, AnswersOK, ErrorsLeaveNothingOpen, InLoop, Connecting, Having
  <2>4. BudgetOK'
    BY <1>12, <1>t DEF Retry, TypeOK, BudgetOK, RetryBudgetIsKept, Connecting
  <2> QED BY <2>1, <2>2, <2>3, <2>4 DEF IInv
<1>13. ASSUME NEW p \in Calls, SeeStop(p) PROVE IInv'
  <2>1. TypeOK'
    BY <1>13, <1>t DEF SeeStop, TypeOK, Connecting
  <2>2. ClaimOK'
    BY <1>13, <1>t DEF SeeStop, TypeOK, ClaimOK, OneConnectionPerAddress, InLoop, Connecting
  <2>3. AnswersOK'
    BY <1>13, <1>t DEF SeeStop, TypeOK, AnswersOK, ErrorsLeaveNothingOpen, InLoop, Connecting, Having
  <2>4. BudgetOK'
    BY <1>13, <1>t DEF SeeStop, TypeOK, BudgetOK, RetryBudgetIsKept, Connecting
  <2> QED BY <2>1, <2>2, <2>3, <2>4 DEF IInv
<1>14. ASSUME NEW p \in Calls, Release(p) PROVE IInv'
  <2>1. TypeOK'
    BY <1>14, <1>t DEF Release, TypeOK, Connecting
  <2>2. ClaimOK'
    BY <1>14, <1>t DEF Release, TypeOK, ClaimOK, OneConnectionPerAddress, InLoop, Connecting
  <2>3. AnswersOK'
    BY <1>14, <1>t DEF Release, TypeOK, AnswersOK, ErrorsLeaveNothingOpen, InLoop, Connecting, Having
  <2>4. BudgetOK'
    BY <1>14, <1>t DEF Release, TypeOK, BudgetOK, RetryBudgetIsKept, Connecting
  <2> QED BY <2>1, <2>2, <2>3, <2>4 DEF IInv
<1>15. ASSUME NEW p \in Calls, ReleaseAgain(p) PROVE IInv'
  <2>1. TypeOK'
    BY <1>15, <1>t DEF ReleaseAgain, TypeOK, Connecting
  <2>2. ClaimOK'
    BY <1>15, <1>t DEF ReleaseAgain, TypeOK, ClaimOK, OneConnectionPerAddress, InLoop, Connecting
  <2>3. AnswersOK'
    BY <1>15, <1>t DEF ReleaseAgain, TypeOK, AnswersOK, ErrorsLeaveNothingOpen, InLoop, Connecting, Having
  <2>4. BudgetOK'
    BY <1>15, <1>t DEF ReleaseAgain, TypeOK, BudgetOK, RetryBudgetIsKept, Connecting
  <2> QED BY <2>1, <2>2, <2>3, <2>4 DEF IInv
<1>16. ASSUME Start PROVE IInv'
  <2>1. TypeOK'
    BY <1>16, <1>t DEF Start, TypeOK, Connecting
  <2>2. ClaimOK'
    BY <1>16, <1>t DEF Start, TypeOK, ClaimOK, OneConnectionPerAddress, InLoop, Connecting
  <2>3. AnswersOK'
    BY <1>16, <1>t DEF Start, TypeOK, AnswersOK, ErrorsLeaveNothingOpen, InLoop, Connecting, Having
  <2>4. BudgetOK'
    BY <1>16, <1>t DEF Start, TypeOK, BudgetOK, RetryBudgetIsKept, Connecting
  <2> QED BY <2>1, <2>2, <2>3, <2>4 DEF IInv
<1>17. ASSUME Stop PROVE IInv'
  <2>1. TypeOK'
    BY <1>17, <1>t DEF Stop, TypeOK, Connecting
  <2>2. ClaimOK'
    BY <1>17, <1>t DEF Stop, TypeOK, ClaimOK, OneConnectionPerAddress, InLoop, Connecting
  <2>3. AnswersOK'
    BY <1>17, <1>t DEF Stop, TypeOK, AnswersOK, ErrorsLeaveNothingOpen, InLoop, Connecting, Having
  <2>4. BudgetOK'
    BY <1>17, <1>t DEF Stop, TypeOK, BudgetOK, RetryBudgetIsKept, Connecting
  <2> QED BY <2>1, <2>2, <2>3, <2>4 DEF IInv
<1>18. ASSUME CloseStopCh PROVE IInv'
  <2>1. TypeOK'
    BY <1>18, <1>t DEF CloseStopCh, TypeOK, Connecting
  <2>2. ClaimOK'
    BY <1>18, <1>t DEF CloseStopCh, TypeOK, ClaimOK, OneConnectionPerAddress, InLoop, Connecting
  <2>3. AnswersOK'
    BY <1>18, <1>t DEF CloseStopCh, TypeOK, AnswersOK, ErrorsLeaveNothingOpen, InLoop, Connecting, Having
  <2>4. BudgetOK'
    BY <1>18, <1>t DEF CloseStopCh, TypeOK, BudgetOK, RetryBudgetIsKept, Connecting
  <2> QED BY <2>1, <2>2, <2>3, <2>4 DEF IInv
<1>19. ASSUME CloseBegins PROVE IInv'
  <2>1. TypeOK'
    BY <1>19, <1>t DEF CloseBegins, TypeOK, Connecting
  <2>2. ClaimOK'
    BY <1>19, <1>t DEF CloseBegins, TypeOK, ClaimOK, OneConnectionPerAddress, InLoop, Connecting
  <2>3. AnswersOK'
    BY <1>19, <1>t DEF CloseBegins, TypeOK, AnswersOK, ErrorsLeaveNothingOpen, InLoop, Connecting, Having
  <2>4. BudgetOK'
    BY <1>19, <1>t DEF CloseBegins, TypeOK, BudgetOK, RetryBudgetIsKept, Connecting
  <2> QED BY <2>1, <2>2, <2>3, <2>4 DEF IInv
<1>20. ASSUME NEW p \in Calls, CloseConn(p) PROVE IInv'
  <2>1. TypeOK'
    BY <1>20, <1>t DEF CloseConn, TypeOK, Connecting
  <2>2. ClaimOK'
    BY <1>20, <1>t DEF CloseConn, TypeOK, ClaimOK, OneConnectionPerAddress, InLoop, Connecting
  <2>3. AnswersOK'
    BY <1>20, <1>t DEF CloseConn, TypeOK, AnswersOK, ErrorsLeaveNothingOpen, InLoop, Connecting, Having
  <2>4. BudgetOK'
    BY <1>20, <1>t DEF CloseConn, TypeOK, BudgetOK, RetryBudgetIsKept, Connecting
  <2> QED BY <2>1, <2>2, <2>3, <2>4 DEF IInv
<1>21. ASSUME CloseEnds PROVE IInv'
  <2>1. TypeOK'
    BY <1>21, <1>t DEF CloseEnds, TypeOK, Connecting
  <2>2. ClaimOK'
    BY <1>21, <1>t DEF CloseEnds, TypeOK, ClaimOK, OneConnectionPerAddress, InLoop, Connecting
  <2>3. AnswersOK'
    BY <1>21, <1>t DEF CloseEnds, TypeOK, AnswersOK, ErrorsLeaveNothingOpen, InLoop, Connecting, Having
  <2>4. BudgetOK'
    BY <1>21, <1>t DEF CloseEnds, TypeOK, BudgetOK, RetryBudgetIsKept, Connecting
  <2> QED BY <2>1, <2>2, <2>3, <2>4 DEF IInv
<1>22. ASSUME Wait PROVE IInv'
  <2>1. TypeOK'
    BY <1>22, <1>t DEF Wait, TypeOK, Connecting
  <2>2. ClaimOK'
    BY <1>22, <1>t DEF Wait, TypeOK, ClaimOK, OneConnectionPerAddress, InLoop, Connecting
  <2>3. AnswersOK'
    BY <1>22, <1>t DEF Wait, TypeOK, AnswersOK, ErrorsLeaveNothingOpen, InLoop, Connecting, Having
  <2>4. BudgetOK'
    BY <1>22, <1>t DEF Wait, TypeOK, BudgetOK, RetryBudgetIsKept, Connecting
  <2> QED BY <2>1, <2>2, <2>3, <2>4 DEF IInv
<1>23. CASE UNCHANGED vars
  BY <1>23, <1>t DEF vars, IInv, TypeOK, ClaimOK, AnswersOK, BudgetOK,
     OneConnectionPerAddress, ErrorsLeaveNothingOpen, RetryBudgetIsKept
<1> QED
  BY <1>1, <1>2, <1>3, <1>4, <1>5, <1>6, <1>7, <1>8, <1>9, <1>10, <1>11, <1>12, <1>13, <1>14, <1>15, <1>16, <1>17, <1>18, <1>19, <1>20, <1>21, <1>22, <1>23 DEF Next, Connect, Run, Teardown

LEMMA Invariance == Spec => []IInv
  BY InitIInv, NextIInv, PTL DEF Spec

-----------------------------------------------------------------------------
(* The variables of the client hold values of their types. *)
THEOREM TypeCorrect == Spec => []TypeOK
<1>1. IInv => TypeOK
  BY DEF IInv
<1> QED BY <1>1, Invariance, PTL

(* A persistent client never has two loops that dial or serve an address,  *)
(* whatever the double release of the claim lets in after a Stop.          *)
THEOREM OneConnection == Spec => []OneConnectionPerAddress
<1>1. IInv => OneConnectionPerAddress
  BY DEF IInv, ClaimOK
<1> QED BY <1>1, Invariance, PTL

(* A call dials once and reconnCount times again, no more, and no less     *)
(* before it fails with the dialer's error.                                *)
THEOREM BudgetKept == Spec => []RetryBudgetIsKept
<1>1. IInv => RetryBudgetIsKept
  BY DEF IInv, BudgetOK
<1> QED BY <1>1, Invariance, PTL

(* A call that was answered with an error leaves no connection behind. *)
THEOREM NothingLeftByErrors == Spec => []ErrorsLeaveNothingOpen
<1>1. IInv => ErrorsLeaveNothingOpen
  BY DEF IInv, AnswersOK
<1> QED BY <1>1, Invariance, PTL

-----------------------------------------------------------------------------
(* What eventually happens.  The provers do not know ENABLED, so fairness  *)
(* is written out: it is the WF_vars(Run(p)) of Fairness when Runnable(p)  *)
(* is the enabling condition of Run(p).                                    *)
Runnable(p) ==
  \/ pc[p] \notin {"idle", "done", "reading"}
  \/ pc[p] = "reading" /\ p \notin open

CallsRun == \A p \in Calls : []<>~Runnable(p) \/ []<><<Run(p)>>_vars

(* What the client was configured for stays so. *)
LEMMA ConfigStays == [Next]_vars => UNCHANGED config
  BY DEF Next, vars, config, Start, Stop, Teardown, TearDown, CloseStopCh, CloseBegins, CloseConn, CloseEnds,
         Wait, Connect, ConnectOnce, ConnectPersistently, Run, Claim, Dial, DialFails, DialTimesOut, Dialled,
         Join, Connected, Count, End, Retry, SeeStop, Release, ReleaseAgain

(* A call that neither starts nor serves a connection is moved by its own  *)
(* goroutine alone, and stopCh stays closed.                               *)
LEMMA OthersLeaveItAlone ==
  ASSUME IInv, [Next]_vars, NEW p \in Calls, ~Run(p),
         pc[p] \notin {"idle", "reading"}, ~(pc[p] = "joining" /\ pipeline)
  PROVE  /\ pc'[p] = pc[p] /\ future'[p] = future[p] /\ left'[p] = left[p]
         /\ UNCHANGED config /\ (stopped => stopped')
<1> DEFINE Same == /\ pc'[p] = pc[p] /\ future'[p] = future[p] /\ left'[p] = left[p]
                   /\ UNCHANGED config /\ (stopped => stopped')
<1> USE DEF IInv, TypeOK, config, stopping, Goto, Answer
<1>1. CASE Start \/ Stop \/ UNCHANGED vars
  BY <1>1 DEF Start, Stop, vars
<1>2. CASE Teardown
  BY <1>2 DEF Teardown, CloseStopCh, CloseBegins, CloseConn, CloseEnds, Wait, TearDown
<1>3. ASSUME NEW q \in Calls, Connect(q) PROVE Same
  BY <1>3 DEF Connect, ConnectOnce, ConnectPersistently
<1>4. ASSUME NEW q \in Calls, End(q) PROVE Same
  BY <1>4 DEF End
<1>5. ASSUME NEW q \in Calls \ {p}, Run(q) PROVE Same
  <2>1. CASE Claim(q) \/ Dial(q)
    BY <2>1 DEF Claim, Dial
  <2>2. CASE DialFails(q) \/ DialTimesOut(q) \/ Dialled(q)
    BY <2>2 DEF DialFails, DialTimesOut, Dialled
  <2>3. CASE Join(q) \/ Connected(q) \/ Count(q) \/ Retry(q)
    BY <2>3 DEF Join, Connected, Count, Retry
  <2>4. CASE SeeStop(q) \/ Release(q) \/ ReleaseAgain(q)
    BY <2>4 DEF SeeStop, Release, ReleaseAgain
  <2> QED BY <1>5, <1>4, <2>1, <2>2, <2>3, <2>4 DEF Run
<1> QED BY <1>1, <1>2, <1>3, <1>4, <1>5 DEF Next

(* Where a goroutine that waits, dials or releases its claim goes next.    *)
LEMMA RunMoves ==
  ASSUME IInv, NEW p \in Calls, Run(p)
  PROVE  /\ UNCHANGED <<config, stopped>>
         /\ pc[p] = "waiting" => pc'[p] = "checking" \/ (persistent /\ pc'[p] = "releasing")
                                 \/ (~persistent /\ pc'[p] = "done" /\ future'[p] # "pending")
         /\ pc[p] = "checking" => (~stopped /\ pc'[p] = "dialing")
                                  \/ (pc'[p] = IF persistent THEN "releasing" ELSE "done")
         /\ pc[p] = "releasing" => pc'[p] \in {"deferred", "done"}
         /\ pc[p] = "deferred" => pc'[p] = "done"
<1> USE DEF IInv, TypeOK, config, stopping, Goto, Answer
<1>1. UNCHANGED <<config, stopped>>
  BY DEF Run, Claim, Dial, DialFails, DialTimesOut, Dialled, Join, Connected, Count, End, Retry, SeeStop,
         Release, ReleaseAgain
<1>2. pc[p] \in {"waiting", "checking"} => Dial(p) \/ Retry(p) \/ SeeStop(p)
  BY DEF Run, Claim, DialFails, DialTimesOut, Dialled, Join, Connected, Count, End, Release, ReleaseAgain
<1>3. pc[p] \in {"releasing", "deferred"} => Release(p) \/ ReleaseAgain(p)
  BY DEF Run, Claim, Dial, DialFails, DialTimesOut, Dialled, Join, Connected, Count, End, Retry, SeeStop
<1>4. pc[p] \in {"waiting", "checking"} =>
        /\ pc[p] = "waiting" => pc'[p] = "checking" \/ (persistent /\ pc'[p] = "releasing")
                                \/ (~persistent /\ pc'[p] = "done" /\ future'[p] # "pending")
        /\ pc[p] = "checking" => (~stopped /\ pc'[p] = "dialing")
                                 \/ (pc'[p] = IF persistent THEN "releasing" ELSE "done")
  BY <1>2 DEF Dial, Retry, SeeStop
<1>5. pc[p] \in {"releasing", "deferred"} =>
        /\ pc[p] = "releasing" => pc'[p] \in {"deferred", "done"}
        /\ pc[p] = "deferred" => pc'[p] = "done"
  BY <1>3 DEF Release, ReleaseAgain
<1> QED BY <1>1, <1>4, <1>5

(* A persistent client whose connection was lost dials again, or its loop  *)
(* releases the address and ends.                                          *)
THEOREM ReconnectsOrEnds == Spec /\ CallsRun => ReconnectsUntilStopped
<1>1. ASSUME NEW p \in Calls
      PROVE  Spec /\ CallsRun /\ persistent => (pc[p] = "waiting" ~> pc[p] \in {"dialing", "done"})
  <2> DEFINE At(place) == persistent /\ pc[p] = place
             Goal == pc[p] \in {"dialing", "done"}
  <2>1. IInv /\ [Next]_vars =>
          /\ persistent => persistent'
          /\ At("waiting") => (At("waiting") \/ At("checking") \/ At("releasing"))'
          /\ At("checking") => (At("checking") \/ At("releasing") \/ Goal)'
          /\ At("releasing") => (At("releasing") \/ At("deferred") \/ Goal)'
          /\ At("deferred") => (At("deferred") \/ Goal)'
    <3> SUFFICES ASSUME IInv, [Next]_vars
                 PROVE  /\ persistent => persistent'
                        /\ At("waiting") => (At("waiting") \/ At("checking") \/ At("releasing"))'
                        /\ At("checking") => (At("checking") \/ At("releasing") \/ Goal)'
                        /\ At("releasing") => (At("releasing") \/ At("deferred") \/ Goal)'
                        /\ At("deferred") => (At("deferred") \/ Goal)'
      OBVIOUS
    <3>1. UNCHANGED config
      BY ConfigStays
    <3>2. CASE Run(p)
      BY <3>1, <3>2, RunMoves DEF config
    <3>3. CASE ~Run(p) /\ pc[p] \notin {"idle", "joining", "reading"}
      BY <3>1, <3>3, OthersLeaveItAlone DEF config
    <3>4. CASE pc[p] \in {"idle", "joining", "reading"}
      BY <3>1, <3>4 DEF config
    <3> QED BY <3>2, <3>3, <3>4
  <2>2. IInv /\ <<Run(p)>>_vars =>
          /\ At("waiting") => ~At("waiting")'
          /\ At("checking") => ~At("checking")'
          /\ At("releasing") => ~At("releasing")'
          /\ At("deferred") => ~At("deferred")'
    BY RunMoves DEF config
  <2>3. At("waiting") \/ At("checking") \/ At("releasing") \/ At("deferred") => Runnable(p)
    BY DEF Runnable
  <2>4. CallsRun => ([]<>~Runnable(p) \/ []<><<Run(p)>>_vars)
    BY DEF CallsRun
  <2>5. persistent /\ pc[p] = "waiting" => At("waiting")
    OBVIOUS
  <2>6. Spec => []IInv /\ [][Next]_vars
    BY Invariance, PTL DEF Spec
  <2> HIDE DEF At, Goal
  <2>7. Spec /\ CallsRun /\ persistent => (pc[p] = "waiting" ~> Goal)
    BY <2>1, <2>2, <2>3, <2>4, <2>5, <2>6, PTL
  <2> QED BY <2>7 DEF Goal
<1> QED BY <1>1 DEF ReconnectsUntilStopped

-----------------------------------------------------------------------------
(* A call without an answer is on its way to one: it has not begun to      *)
(* serve its connection, nor does it release its claim.                    *)
PendingOK ==
  \A p \in Calls : future[p] = "pending" =>
    /\ pc[p] \in {"claiming", "checking", "waiting", "dialing", "joining", "connected"}
    /\ pc[p] = "joining" => ~pipeline

LEMMA NextPendingOK == IInv /\ PendingOK /\ [Next]_vars => PendingOK'
<1> SUFFICES ASSUME IInv, PendingOK, [Next]_vars PROVE PendingOK'
  OBVIOUS
<1> USE DEF PendingOK, IInv, TypeOK, config, stopping, Goto, Answer, Handle
<1>1. CASE Start \/ Stop \/ UNCHANGED vars
  BY <1>1 DEF Start, Stop, vars
<1>2. CASE Teardown
  BY <1>2 DEF Teardown, CloseStopCh, CloseBegins, CloseConn, CloseEnds, Wait, TearDown
<1>3. ASSUME NEW q \in Calls, Connect(q) \/ End(q) PROVE PendingOK'
  BY <1>3 DEF Connect, ConnectOnce, ConnectPersistently, End
<1>4. ASSUME NEW q \in Calls, Run(q) PROVE PendingOK'
  <2>1. CASE Claim(q) \/ Dial(q)
    BY <2>1 DEF Claim, Dial
  <2>2. CASE DialFails(q) \/ DialTimesOut(q) \/ Dialled(q)
    BY <2>2 DEF DialFails, DialTimesOut, Dialled
  <2>3. CASE Join(q) \/ Connected(q) \/ Count(q) \/ Retry(q)
    BY <2>3 DEF Join, Connected, Count, Retry
  <2>4. CASE SeeStop(q) \/ Release(q) \/ ReleaseAgain(q)
    BY <2>4 DEF SeeStop, Release, ReleaseAgain
  <2> QED BY <1>4, <1>3, <2>1, <2>2, <2>3, <2>4 DEF Run
<1> QED BY <1>1, <1>2, <1>3, <1>4 DEF Next

LEMMA SpecPendingOK == Spec => []PendingOK
<1>1. Init => PendingOK
  BY DEF Init, PendingOK
<1> QED BY <1>1, NextPendingOK, Invariance, PTL DEF Spec

(* Where its own goroutine takes a call without an answer, once stopCh is  *)
(* closed: never back to a dial.                                           *)
LEMMA PendingMoves ==
  ASSUME IInv, PendingOK, NEW p \in Calls, future[p] = "pending", stopped, Run(p)
  PROVE  \/ future'[p] # "pending"
         \/ pc[p] = "claiming" /\ pc'[p] = "checking"
         \/ pc[p] = "dialing" /\ pc'[p] \in {"waiting", "joining", "connected"}
         \/ pc[p] = "waiting" /\ pc'[p] = "checking"
         \/ pc[p] = "joining" /\ pc'[p] = "connected"
<1> USE DEF PendingOK, IInv, TypeOK, config, stopping, Goto, Answer, Handle
<1>1. CASE Claim(p) \/ Dial(p) \/ End(p)
  BY <1>1 DEF Claim, Dial, End
<1>2. CASE DialFails(p) \/ DialTimesOut(p) \/ Dialled(p)
  BY <1>2 DEF DialFails, DialTimesOut, Dialled
<1>3. CASE Join(p) \/ Connected(p) \/ Count(p) \/ Retry(p)
  BY <1>3 DEF Join, Connected, Count, Retry
<1>4. CASE SeeStop(p) \/ Release(p) \/ ReleaseAgain(p)
  BY <1>4 DEF SeeStop, Release, ReleaseAgain
<1> QED BY <1>1, <1>2, <1>3, <1>4 DEF Run

(* Once stopCh is closed every call is answered, however many attempts it  *)
(* has left: the half of EveryCallIsAnswered that does not count them.     *)
THEOREM StoppedCallsAreAnswered ==
  Spec /\ CallsRun => \A p \in Calls : (future[p] = "pending" /\ stopped) ~> future[p] # "pending"
<1>1. ASSUME NEW p \in Calls
      PROVE  Spec /\ CallsRun => ((future[p] = "pending" /\ stopped) ~> future[p] # "pending")
  <2> DEFINE At(place) == future[p] = "pending" /\ stopped /\ pc[p] = place
             Asked == future[p] = "pending" /\ stopped
             Goal == future[p] # "pending"
  <2>1. IInv /\ PendingOK /\ [Next]_vars =>
          /\ At("claiming") => (At("claiming") \/ At("checking") \/ Goal)'
          /\ At("dialing") => (At("dialing") \/ At("waiting") \/ At("joining") \/ At("connected") \/ Goal)'
          /\ At("waiting") => (At("waiting") \/ At("checking") \/ Goal)'
          /\ At("joining") => (At("joining") \/ At("connected") \/ Goal)'
          /\ At("checking") => (At("checking") \/ Goal)'
          /\ At("connected") => (At("connected") \/ Goal)'
    <3> SUFFICES ASSUME IInv, PendingOK, [Next]_vars, Asked, ~Goal'
                 PROVE  /\ stopped'
                        /\ \/ pc'[p] = pc[p]
                           \/ pc[p] = "claiming" /\ pc'[p] = "checking"
                           \/ pc[p] = "dialing" /\ pc'[p] \in {"waiting", "joining", "connected"}
                           \/ pc[p] = "waiting" /\ pc'[p] = "checking"
                           \/ pc[p] = "joining" /\ pc'[p] = "connected"
      OBVIOUS
    <3>1. CASE Run(p)
      <4>1. stopped'
        BY <3>1, RunMoves
      <4> QED BY <3>1, <4>1, PendingMoves
    <3>2. CASE ~Run(p)
      <4>1. pc[p] \notin {"idle", "reading"} /\ ~(pc[p] = "joining" /\ pipeline)
        BY DEF PendingOK
      <4> QED BY <3>2, <4>1, OthersLeaveItAlone
    <3> QED BY <3>1, <3>2
  <2>2. IInv /\ PendingOK /\ <<Run(p)>>_vars =>
          /\ At("claiming") => ~At("claiming")'
          /\ At("dialing") => ~At("dialing")'
          /\ At("waiting") => ~At("waiting")'
          /\ At("joining") => ~At("joining")'
          /\ At("checking") => ~At("checking")'
          /\ At("connected") => ~At("connected")'
    BY PendingMoves
  <2>3. /\ At("claiming") \/ At("dialing") \/ At("waiting") => Runnable(p)
        /\ At("joining") \/ At("checking") \/ At("connected") => Runnable(p)
    BY DEF Runnable
  <2>4. CallsRun => ([]<>~Runnable(p) \/ []<><<Run(p)>>_vars)
    BY DEF CallsRun
  <2>5. PendingOK /\ Asked =>
          \/ At("claiming") \/ At("dialing") \/ At("waiting")
          \/ At("joining") \/ At("checking") \/ At("connected")
    BY DEF PendingOK
  <2>6. Spec => []IInv /\ []PendingOK /\ [][Next]_vars
    BY Invariance, SpecPendingOK, PTL DEF Spec
  <2> HIDE DEF At, Asked, Goal
  <2>7. Spec /\ CallsRun => (Asked ~> Goal)
    BY <2>1, <2>2, <2>3, <2>4, <2>5, <2>6, PTL
  <2> QED BY <2>7 DEF Asked, Goal
<1> QED BY <1>1

-----------------------------------------------------------------------------
(* Where its own goroutine takes a call without an answer that counts its  *)
(* attempts: dial by dial there is one less.                               *)
LEMMA AttemptMoves ==
  ASSUME IInv, PendingOK, NEW p \in Calls, future[p] = "pending", ~persistent, left[p] \in Nat, Run(p)
  PROVE  \/ future'[p] # "pending"
         \/ pc[p] = "dialing" /\ left[p] > 0 /\ left'[p] = left[p] - 1
         \/ /\ left'[p] = left[p]
            /\ \/ pc[p] \in {"claiming", "waiting"} /\ pc'[p] = "checking"
               \/ pc[p] = "checking" /\ pc'[p] = "dialing"
               \/ pc[p] = "dialing" /\ pc'[p] \in {"joining", "connected"}
               \/ pc[p] = "joining" /\ pc'[p] = "connected"
<1> USE DEF PendingOK, IInv, TypeOK, config, stopping, Goto, Answer, Handle
<1>1. CASE Claim(p) \/ Dial(p) \/ End(p)
  BY <1>1 DEF Claim, Dial, End
<1>2. CASE DialFails(p) \/ DialTimesOut(p) \/ Dialled(p)
  BY <1>2 DEF DialFails, DialTimesOut, Dialled
<1>3. CASE Join(p) \/ Connected(p) \/ Count(p) \/ Retry(p)
  BY <1>3 DEF Join, Connected, Count, Retry
<1>4. CASE SeeStop(p) \/ Release(p) \/ ReleaseAgain(p)
  BY <1>4 DEF SeeStop, Release, ReleaseAgain
<1> QED BY <1>1, <1>2, <1>3, <1>4 DEF Run

(* Every attempt ends: a call that has n attempts left is answered or has  *)
(* n - 1 left some day, and one that has none left is answered.  It is the *)
(* step of the induction over n that leads to the other half of            *)
(* EveryCallIsAnswered, for a client that is never stopped.                *)
THEOREM AttemptsAreUsedUp ==
  Spec /\ CallsRun =>
    \A p \in Calls, n \in Nat :
      (future[p] = "pending" /\ ~persistent /\ left[p] = n)
        ~> (future[p] # "pending" \/ (n > 0 /\ left[p] = n - 1))
<1>1. ASSUME NEW p \in Calls, NEW n \in Nat
      PROVE  Spec /\ CallsRun => ((future[p] = "pending" /\ ~persistent /\ left[p] = n)
                                    ~> (future[p] # "pending" \/ (n > 0 /\ left[p] = n - 1)))
  <2> DEFINE Trying == future[p] = "pending" /\ ~persistent /\ left[p] = n
             At(place) == Trying /\ pc[p] = place
             Goal == future[p] # "pending" \/ (n > 0 /\ left[p] = n - 1)
  <2>1. IInv /\ PendingOK /\ [Next]_vars =>
          /\ At("claiming") => (At("claiming") \/ At("checking") \/ Goal)'
          /\ At("waiting") => (At("waiting") \/ At("checking") \/ Goal)'
          /\ At("checking") => (At("checking") \/ At("dialing") \/ Goal)'
          /\ At("dialing") => (At("dialing") \/ At("joining") \/ At("connected") \/ Goal)'
          /\ At("joining") => (At("joining") \/ At("connected") \/ Goal)'
          /\ At("connected") => (At("connected") \/ Goal)'
    <3> SUFFICES ASSUME IInv, PendingOK, [Next]_vars, Trying, ~Goal'
                 PROVE  /\ Trying'
                        /\ \/ pc'[p] = pc[p]
                           \/ pc[p] \in {"claiming", "waiting"} /\ pc'[p] = "checking"
                           \/ pc[p] = "checking" /\ pc'[p] = "dialing"
                           \/ pc[p] = "dialing" /\ pc'[p] \in {"joining", "connected"}
                           \/ pc[p] = "joining" /\ pc'[p] = "connected"
      OBVIOUS
    <3>1. ~persistent'
      BY ConfigStays DEF config
    <3>2. CASE Run(p)
      BY <3>1, <3>2, AttemptMoves
    <3>3. CASE ~Run(p)
      <4>1. pc[p] \notin {"idle", "reading"} /\ ~(pc[p] = "joining" /\ pipeline)
        BY DEF PendingOK
      <4> QED BY <3>1, <3>3, <4>1, OthersLeaveItAlone
    <3> QED BY <3>2, <3>3
  <2>2. IInv /\ PendingOK /\ <<Run(p)>>_vars =>
          /\ At("claiming") => ~At("claiming")'
          /\ At("waiting") => ~At("waiting")'
          /\ At("checking") => ~At("checking")'
          /\ At("dialing") => ~At("dialing")'
          /\ At("joining") => ~At("joining")'
          /\ At("connected") => ~At("connected")'
    BY AttemptMoves
  <2>3. /\ At("claiming") \/ At("waiting") \/ At("checking") => Runnable(p)
        /\ At("dialing") \/ At("joining") \/ At("connected") => Runnable(p)
    BY DEF Runnable
  <2>4. CallsRun => ([]<>~Runnable(p) \/ []<><<Run(p)>>_vars)
    BY DEF CallsRun
  <2>5. PendingOK /\ Trying =>
          \/ At("claiming") \/ At("waiting") \/ At("checking")
          \/ At("dialing") \/ At("joining") \/ At("connected")
    BY DEF PendingOK
  <2>6. Spec => []IInv /\ []PendingOK /\ [][Next]_vars
    BY Invariance, SpecPendingOK, PTL DEF Spec
  <2> HIDE DEF Trying, At, Goal
  <2>7. Spec /\ CallsRun => (Trying ~> Goal)
    BY <2>1, <2>2, <2>3, <2>4, <2>5, <2>6, PTL
  <2> QED BY <2>7 DEF Trying, Goal
<1> QED BY <1>1
============================================================================
