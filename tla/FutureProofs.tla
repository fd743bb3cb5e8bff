--------------------------- MODULE FutureProofs ---------------------------
(***************************************************************************)
(* The invariants of Future hold for any number of callers, listeners and  *)
(* readers, and Future implements Promise, with the fairness to its        *)
(* listeners; the invariants of CollectionFuture hold for any number of    *)
(* members.                                                                *)
(***************************************************************************)
EXTENDS Future, CollectionFuture, FiniteSetTheorems, TLAPS

(* Who is inside which call, and what that says of the future. *)
CallsOK ==
  \A c \in Callers :
    /\ pc[c] = "stored" => call[c] = "value"
    /\ pc[c] = "flagged" => call[c] = "cancel"
    /\ c \in ret => pc[c] = "returned"
    /\ pc[c] # "idle" /\ call[c] = "value" => value # NoValue
    /\ pc[c] # "idle" /\ call[c] = "cancel" => fut.cancelled

(* An unsettled future has no error, has started nobody and still holds    *)
(* every listener; a listener goroutine exists before it runs; only a      *)
(* settled future answers.                                                 *)
SettlingOK ==
  /\ ~ fut.done => fut.err = NoErr /\ fut.listeners = added
  /\ \A l \in Listeners : ran[l] <= fut.started[l]
  /\ pleased # {} => fut.done
  /\ \A r \in Readers : rpc[r] = "answered" => fut.done

IInv ==
  /\ TypeOK
  /\ SettledByOneCall
  /\ NotifiedOnce
  /\ CancelIsSeen
  /\ GetFindsAValue
  /\ CallsOK
  /\ SettlingOK

-----------------------------------------------------------------------------
LEMMA LaunchFields ==
  ASSUME NEW f \in FutureCells(Errors), NEW L \in SUBSET Listeners
  PROVE  /\ Launch(f, L) \in FutureCells(Errors)
         /\ Launch(f, L).done = f.done
         /\ Launch(f, L).err = f.err
         /\ Launch(f, L).cancelled = f.cancelled
         /\ Launch(f, L).listeners = f.listeners
         /\ \A l \in Listeners : Launch(f, L).started[l] =
              IF l \in L THEN f.started[l] + 1 ELSE f.started[l]
<1> DEFINE S == [l \in Listeners |-> IF l \in L THEN f.started[l] + 1 ELSE f.started[l]]
<1>1. S \in [Listeners -> Nat]
  BY DEF FutureCells
<1>2. Launch(f, L) = [f EXCEPT !.started = S]
  BY DEF Launch
<1> HIDE DEF S
<1>3. /\ Launch(f, L) \in FutureCells(Errors)
      /\ Launch(f, L).done = f.done
      /\ Launch(f, L).err = f.err
      /\ Launch(f, L).cancelled = f.cancelled
      /\ Launch(f, L).listeners = f.listeners
      /\ Launch(f, L).started = S
  BY <1>1, <1>2 DEF FutureCells
<1> QED BY <1>3 DEF S

(* What a completing section does to the fields of the future. *)
LEMMA FailedFields ==
  ASSUME NEW f \in FutureCells(Errors), NEW e \in Errors \cup {NoErr}
  PROVE  /\ Failed(f, e) \in FutureCells(Errors)
         /\ Failed(f, e).done
         /\ Failed(f, e).err = IF f.done THEN f.err ELSE e
         /\ Failed(f, e).cancelled = f.cancelled
         /\ Failed(f, e).listeners = f.listeners
         /\ \A l \in Listeners : Failed(f, e).started[l] =
              IF ~ f.done /\ l \in f.listeners THEN f.started[l] + 1 ELSE f.started[l]
<1> DEFINE g == [f EXCEPT !.err = e]
           h == [g EXCEPT !.done = TRUE]
<1>1. CASE f.done
  BY <1>1 DEF Failed
<1>2. CASE ~ f.done
  <2>1. /\ h \in FutureCells(Errors) /\ h.done /\ h.err = e
        /\ h.cancelled = f.cancelled /\ h.listeners = f.listeners /\ h.started = f.started
        /\ g.listeners = f.listeners /\ f.listeners \in SUBSET Listeners
    BY DEF FutureCells
  <2>2. Failed(f, e) = Launch(h, f.listeners)
    BY <1>2, <2>1 DEF Failed, CloseDone
  <2> HIDE DEF g, h
  <2> QED BY <1>2, <2>1, <2>2, LaunchFields
<1> QED BY <1>1, <1>2

(* A section that passes no error leaves the error alone. *)
LEMMA SucceededIsFailed ==
  ASSUME NEW f \in FutureCells(Errors), ~ f.done => f.err = NoErr
  PROVE  /\ Succeeded(f) = Failed(f, NoErr)
         /\ CancelledNow(f) = Failed(f, NoErr)
  BY DEF FutureCells, Succeeded, CancelledNow, Failed, CloseDone, Launch

LEMMA ListeningFields ==
  ASSUME NEW f \in FutureCells(Errors), NEW k \in Listeners
  PROVE  /\ Listening(f, k) \in FutureCells(Errors)
         /\ Listening(f, k).done = f.done
         /\ Listening(f, k).err = f.err
         /\ Listening(f, k).cancelled = f.cancelled
         /\ ~ f.done => Listening(f, k).listeners = f.listeners \cup {k}
         /\ \A l \in Listeners : Listening(f, k).started[l] =
              IF f.done /\ l = k THEN f.started[l] + 1 ELSE f.started[l]
<1>1. CASE f.done
  <2>1. {k} \in SUBSET Listeners /\ Listening(f, k) = Launch(f, {k})
    BY <1>1 DEF Listening
  <2> DEFINE g == Launch(f, {k})
  <2>2. /\ g \in FutureCells(Errors)
        /\ g.done = f.done /\ g.err = f.err /\ g.cancelled = f.cancelled
        /\ g.listeners = f.listeners
        /\ \A l \in Listeners : g.started[l] =
             IF l \in {k} THEN f.started[l] + 1 ELSE f.started[l]
    BY <2>1, LaunchFields
  <2> HIDE DEF g
  <2> QED BY <1>1, <2>1, <2>2 DEF g
<1>2. CASE ~ f.done
  BY <1>2 DEF Listening, FutureCells
<1> QED BY <1>1, <1>2

(* Once a call completes the future, whichever it is, the invariant holds. *)
(* The four completing steps only differ in the error and in what they     *)
(* know of the call.                                                       *)
LEMMA CompletingKeepsIInv ==
  ASSUME IInv,
         NEW c \in Callers, NEW e \in {c, NoErr},
         pc[c] # "returned",
         fut' = Failed(fut, e),
         Return(c),
         call' \in [Callers -> {"none", "success", "value", "failure", "failure(nil)", "cancel"}],
         \A d \in Callers \ {c} : call'[d] = call[d],
         call'[c] = "failure" <=> e = c,
         call'[c] = "value" => value # NoValue,
         call'[c] = "cancel" => fut.cancelled,
         UNCHANGED <<value, lvars, rvars>>
  PROVE  IInv'
<1> USE FutureAssumption
<1> USE DEF lvars, rvars
<1>t. TypeOK /\ c \in Errors /\ e \in Errors \cup {NoErr} /\ fut \in FutureCells(Errors)
  BY DEF IInv, TypeOK, Errors
<1>f. /\ fut' \in FutureCells(Errors)
      /\ fut'.done
      /\ fut'.err = IF fut.done THEN fut.err ELSE e
      /\ fut'.cancelled = fut.cancelled
      /\ fut'.listeners = fut.listeners
      /\ \A l \in Listeners : fut'.started[l] =
           IF ~ fut.done /\ l \in fut.listeners THEN fut.started[l] + 1 ELSE fut.started[l]
  BY <1>t, FailedFields
<1>n. \A l \in Listeners : fut.started[l] \in Nat /\ fut'.started[l] \in Nat /\ ran[l] \in Nat
  BY <1>t, <1>f DEF TypeOK, FutureCells
<1>1. TypeOK'
  BY <1>t, <1>f DEF TypeOK, Return
(* A caller that has won has returned, so it is not c. *)
<1>w. \A d \in ret : d # c /\ d \in Callers /\ call'[d] = call[d]
  BY <1>t DEF IInv, CallsOK, TypeOK
<1>2. SettledByOneCall'
  <2>1. CASE fut.done
    BY <2>1, <1>f, <1>w DEF IInv, SettledByOneCall, Return
  <2>2. CASE ~ fut.done
    <3>1. ret = {} /\ ret' = {c}
      BY <2>2 DEF IInv, SettledByOneCall, Return
    <3> QED BY <3>1, <2>2, <1>f DEF SettledByOneCall, Errors
  <2> QED BY <2>1, <2>2
<1>3. NotifiedOnce'
  BY <1>f, <1>n DEF IInv, NotifiedOnce, SettlingOK
<1>4. SettlingOK'
  BY <1>f, <1>n DEF IInv, SettlingOK
<1>5. CallsOK'
  BY <1>f, <1>t DEF IInv, CallsOK, Return, TypeOK
<1>6. CancelIsSeen' /\ GetFindsAValue'
  <2>1. CASE fut.done
    BY <2>1, <1>w DEF IInv, CancelIsSeen, GetFindsAValue, Return
  <2>2. CASE ~ fut.done
    BY <2>2 DEF IInv, CancelIsSeen, GetFindsAValue, SettlingOK
  <2> QED BY <2>1, <2>2
<1> QED BY <1>1, <1>2, <1>3, <1>4, <1>5, <1>6 DEF IInv

LEMMA NewFields ==
  ASSUME NEW f \in {NewFuture, NewFailedFuture(InitErr)}
  PROVE  /\ f \in FutureCells(Errors)
         /\ f.done <=> f.err = InitErr
         /\ ~ f.done => f.err = NoErr
         /\ f.listeners = {}
         /\ \A l \in Listeners : f.started[l] = 0
<1>1. /\ NewFuture \in FutureCells(Errors)
      /\ ~ NewFuture.done /\ NewFuture.err = NoErr /\ NewFuture.listeners = {}
      /\ \A l \in Listeners : NewFuture.started[l] = 0
  BY DEF NewFuture, FutureCells
<1>2. LET g == NewFailedFuture(InitErr)
      IN  /\ g \in FutureCells(Errors)
          /\ g.done /\ g.err = InitErr /\ g.listeners = {}
          /\ g.started = NewFuture.started
  BY <1>1 DEF NewFailedFuture, FutureCells, Errors
<1> QED BY <1>1, <1>2, FutureAssumption DEF Errors

LEMMA InitIInv == Init => IInv
<1> SUFFICES ASSUME Init PROVE IInv
  OBVIOUS
<1>f. /\ fut \in FutureCells(Errors)
      /\ fut.done <=> fut.err = InitErr
      /\ ~ fut.done => fut.err = NoErr
      /\ fut.listeners = {}
      /\ \A l \in Listeners : fut.started[l] = 0
  BY NewFields DEF Init
<1>1. TypeOK
  BY <1>f DEF Init, TypeOK
<1>2. SettledByOneCall /\ NotifiedOnce /\ CancelIsSeen /\ GetFindsAValue
  BY <1>f DEF Init, SettledByOneCall, NotifiedOnce, CancelIsSeen, GetFindsAValue
<1>3. CallsOK /\ SettlingOK
  BY <1>f DEF Init, CallsOK, SettlingOK
<1> QED BY <1>1, <1>2, <1>3 DEF IInv

LEMMA NextIInv == IInv /\ [Next]_vars => IInv'
<1> USE FutureAssumption DEF lvars, rvars
<1> SUFFICES ASSUME IInv, [Next]_vars PROVE IInv'
  OBVIOUS
<1>t. TypeOK /\ fut \in FutureCells(Errors)
  BY DEF IInv, TypeOK
<1>n. \A l \in Listeners : fut.started[l] \in Nat /\ ran[l] \in Nat
  BY <1>t DEF TypeOK, FutureCells
<1>w. \A c \in ret : c \in Callers /\ pc[c] = "returned"
  BY <1>t DEF IInv, CallsOK, TypeOK
<1>u. CASE UNCHANGED vars
  BY <1>u DEF vars, IInv, TypeOK, SettledByOneCall, NotifiedOnce, CancelIsSeen,
              GetFindsAValue, CallsOK, SettlingOK
<1>s. Succeeded(fut) = Failed(fut, NoErr) /\ CancelledNow(fut) = Failed(fut, NoErr)
  BY <1>t, SucceededIsFailed DEF IInv, SettlingOK
<1>1. ASSUME NEW c \in Callers, SetSuccess(c) PROVE IInv'
  BY <1>1, <1>s, <1>t, CompletingKeepsIInv DEF SetSuccess, TypeOK, Errors
<1>2. ASSUME NEW c \in Callers, SetFailure(c) PROVE IInv'
  <2>1. PICK e \in {c, NoErr} :
          /\ call' = [call EXCEPT ![c] = IF e = NoErr THEN "failure(nil)" ELSE "failure"]
          /\ fut' = Failed(fut, e)
    BY <1>2 DEF SetFailure
  <2> QED BY <1>2, <2>1, <1>t, CompletingKeepsIInv DEF SetFailure, TypeOK, Errors
<1>3. ASSUME NEW c \in Callers, StoreValue(c) PROVE IInv'
  <2>1. TypeOK'
    BY <1>3, <1>t DEF StoreValue, TypeOK
  <2>2. SettledByOneCall' /\ CancelIsSeen' /\ GetFindsAValue'
    BY <1>3, <1>t, <1>w DEF StoreValue, IInv, TypeOK, SettledByOneCall, CancelIsSeen,
                            GetFindsAValue
  <2>3. NotifiedOnce' /\ SettlingOK'
    BY <1>3 DEF StoreValue, IInv, NotifiedOnce, SettlingOK
  <2>4. CallsOK'
    BY <1>3, <1>t DEF StoreValue, IInv, CallsOK, TypeOK
  <2> QED BY <2>1, <2>2, <2>3, <2>4 DEF IInv
<1>4. ASSUME NEW c \in Callers, SetSuccessStored(c) PROVE IInv'
  <2>1. call[c] = "value" /\ value # NoValue
    BY <1>4 DEF SetSuccessStored, IInv, CallsOK
  <2> QED BY <1>4, <2>1, <1>s, <1>t, CompletingKeepsIInv DEF SetSuccessStored, TypeOK, Errors
<1>5. ASSUME NEW c \in Callers, CancelFlag(c) PROVE IInv'
  <2>1. /\ fut' \in FutureCells(Errors)
        /\ fut'.done = fut.done /\ fut'.err = fut.err /\ fut'.cancelled
        /\ fut'.listeners = fut.listeners /\ fut'.started = fut.started
    BY <1>5, <1>t DEF CancelFlag, FutureCells
  <2>2. TypeOK'
    BY <1>5, <1>t, <2>1 DEF CancelFlag, TypeOK
  <2>3. SettledByOneCall' /\ CancelIsSeen' /\ GetFindsAValue'
    BY <1>5, <1>t, <1>w, <2>1 DEF CancelFlag, IInv, TypeOK, SettledByOneCall, CancelIsSeen,
                                  GetFindsAValue
  <2>4. NotifiedOnce' /\ SettlingOK'
    BY <1>5, <2>1 DEF CancelFlag, IInv, NotifiedOnce, SettlingOK
  <2>5. CallsOK'
    BY <1>5, <1>t, <1>w, <2>1 DEF CancelFlag, IInv, CallsOK, TypeOK
  <2> QED BY <2>2, <2>3, <2>4, <2>5 DEF IInv
<1>6. ASSUME NEW c \in Callers, CancelLocked(c) PROVE IInv'
  <2>1. call[c] = "cancel" /\ fut.cancelled
    BY <1>6 DEF CancelLocked, IInv, CallsOK
  <2> QED BY <1>6, <2>1, <1>s, <1>t, CompletingKeepsIInv DEF CancelLocked, TypeOK, Errors
<1>7. ASSUME NEW l \in Listeners, AddListener(l) PROVE IInv'
  <2>1. /\ fut' \in FutureCells(Errors)
        /\ fut'.done = fut.done /\ fut'.err = fut.err /\ fut'.cancelled = fut.cancelled
        /\ ~ fut.done => fut'.listeners = fut.listeners \cup {l}
        /\ \A k \in Listeners : fut'.started[k] =
             IF fut.done /\ k = l THEN fut.started[k] + 1 ELSE fut.started[k]
    BY <1>7, <1>t, ListeningFields DEF AddListener
  <2>3. TypeOK' /\ CallsOK'
    BY <1>7, <2>1 DEF AddListener, IInv, TypeOK, CallsOK
  <2>4. NotifiedOnce'
    BY <1>7, <2>1, <1>n DEF AddListener, IInv, NotifiedOnce
  <2>5. SettlingOK'
    BY <1>7, <2>1, <1>n DEF AddListener, IInv, SettlingOK
  <2>6. SettledByOneCall' /\ CancelIsSeen' /\ GetFindsAValue'
    BY <1>7, <2>1 DEF AddListener, IInv, SettledByOneCall, CancelIsSeen, GetFindsAValue
  <2> QED BY <2>3, <2>4, <2>5, <2>6 DEF IInv
<1>8. ASSUME NEW l \in Listeners, RunListener(l) PROVE IInv'
  <2>1. TypeOK' /\ SettledByOneCall' /\ NotifiedOnce' /\ GetFindsAValue' /\ CallsOK'
    BY <1>8 DEF RunListener, IInv, TypeOK, SettledByOneCall, NotifiedOnce, GetFindsAValue, CallsOK
  <2>2. SettlingOK'
    BY <1>8, <1>n, <1>t DEF RunListener, IInv, SettlingOK, TypeOK, IsSuccess
  <2>3. CancelIsSeen'
    BY <1>8, <1>w DEF RunListener, IInv, CancelIsSeen, CallsOK, IsSuccess
  <2> QED BY <2>1, <2>2, <2>3 DEF IInv
<1>9. ASSUME NEW r \in Readers, Get(r) PROVE IInv'
  <2>1. TypeOK' /\ SettlingOK'
    BY <1>9 DEF Get, IInv, TypeOK, SettlingOK
  <2>2. GetFindsAValue'
    BY <1>9, <1>t, <1>w DEF Get, IInv, GetFindsAValue, CallsOK, TypeOK
  <2>3. SettledByOneCall' /\ NotifiedOnce' /\ CancelIsSeen' /\ CallsOK'
    BY <1>9 DEF Get, IInv, SettledByOneCall, NotifiedOnce, CancelIsSeen, CallsOK
  <2> QED BY <2>1, <2>2, <2>3 DEF IInv
<1>10. ASSUME NEW r \in Readers, GetTimesOut(r) PROVE IInv'
  BY <1>10 DEF GetTimesOut, IInv, TypeOK, SettlingOK, SettledByOneCall, NotifiedOnce,
               CancelIsSeen, GetFindsAValue, CallsOK
<1> QED BY <1>u, <1>1, <1>2, <1>3, <1>4, <1>5, <1>6, <1>7, <1>8, <1>9, <1>10 DEF Next, Continue

LEMMA SpecIInv == Spec => []IInv
  BY InitIInv, NextIInv, PTL DEF Spec

-----------------------------------------------------------------------------
(* The variables of a future always hold values of their types. *)
THEOREM TypeCorrect == Spec => []TypeOK
<1>1. IInv => TypeOK
  BY DEF IInv
<1> QED BY <1>1, SpecIInv, PTL

(* Whatever the number of concurrent SetSuccess, SetSuccessWithValue,      *)
(* SetFailure and Cancel calls, exactly one of them completes the future   *)
(* and returns true, and the cause is the one it passed.                   *)
THEOREM OneCallSettles == Spec => []SettledByOneCall
<1>1. IInv => SettledByOneCall
  BY DEF IInv
<1> QED BY <1>1, SpecIInv, PTL

(* No listener is lost or started twice, however its AddListener races     *)
(* with the completion.                                                    *)
THEOREM ListenersNotifiedOnce == Spec => []NotifiedOnce
<1>1. IInv => NotifiedOnce
  BY DEF IInv
<1> QED BY <1>1, SpecIInv, PTL

(* A successful Cancel is seen by every listener, and Get never returns    *)
(* the zero value of a future completed with a value.                      *)
THEOREM CompletionIsVisible == Spec => []OutcomeIsVisible
<1>1. IInv => OutcomeIsVisible
  BY DEF IInv, OutcomeIsVisible
<1> QED BY <1>1, SpecIInv, PTL

-----------------------------------------------------------------------------
LEMMA InitImplementsPromise == Init => P!Init
<1> SUFFICES ASSUME Init PROVE P!Init
  OBVIOUS
<1>1. fut \in FutureCells(Errors)
  BY NewFields DEF Init
<1> QED BY <1>1 DEF Init, P!Init, FutureCells

LEMMA NextImplementsPromise ==
  IInv /\ IInv' /\ [Next]_vars => [P!Next]_(P!pvars)
<1> USE FutureAssumption DEF lvars, rvars
<1> SUFFICES ASSUME IInv, IInv', [Next]_vars PROVE [P!Next]_(P!pvars)
  OBVIOUS
<1>t. /\ fut \in FutureCells(Errors)
      /\ \A l \in Listeners : fut.started[l] \in Nat /\ ran[l] \in Nat
  BY DEF IInv, TypeOK, FutureCells
<1>c. ASSUME NEW e \in Errors \cup {NoErr}, fut' = Failed(fut, e), UNCHANGED lvars
      PROVE  [P!Next]_(P!pvars)
  <2>1. CASE fut.done
    <3>1. fut'.done /\ fut'.err = fut.err
      BY <1>c, <1>t, <2>1, FailedFields
    <3> QED BY <3>1, <2>1, <1>c DEF P!pvars
  <2>2. CASE ~ fut.done
    <3>1. fut'.done /\ fut'.err = e
      BY <1>c, <1>t, <2>2, FailedFields
    <3>2. P!Settle
      BY <3>1, <2>2, <1>c DEF P!Settle
    <3> QED BY <3>2 DEF P!Next
  <2> QED BY <2>1, <2>2
<1>s. Succeeded(fut) = Failed(fut, NoErr) /\ CancelledNow(fut) = Failed(fut, NoErr)
  BY <1>t, SucceededIsFailed DEF IInv, SettlingOK
<1>1. ASSUME NEW c \in Callers, SetSuccess(c) \/ SetSuccessStored(c) \/ CancelLocked(c)
      PROVE  [P!Next]_(P!pvars)
  BY <1>1, <1>s, <1>c DEF SetSuccess, SetSuccessStored, CancelLocked
<1>2. ASSUME NEW c \in Callers, SetFailure(c) PROVE [P!Next]_(P!pvars)
  BY <1>2, <1>c DEF SetFailure, Errors
<1>3. ASSUME NEW c \in Callers, StoreValue(c) PROVE [P!Next]_(P!pvars)
  BY <1>3 DEF StoreValue, P!pvars
<1>4. ASSUME NEW c \in Callers, CancelFlag(c) PROVE [P!Next]_(P!pvars)
  <2>1. fut'.done = fut.done /\ fut'.err = fut.err
    BY <1>4, <1>t DEF CancelFlag, FutureCells
  <2> QED BY <1>4, <2>1 DEF CancelFlag, P!pvars
<1>5. ASSUME NEW l \in Listeners, AddListener(l) PROVE [P!Next]_(P!pvars)
  <2>1. fut'.done = fut.done /\ fut'.err = fut.err
    BY <1>5, <1>t, ListeningFields DEF AddListener
  <2>2. ran[l] = 0
    BY <1>5, <1>t DEF AddListener, IInv, NotifiedOnce, SettlingOK
  <2>3. P!Register(l)
    BY <1>5, <2>1, <2>2 DEF AddListener, P!Register
  <2> QED BY <2>3 DEF P!Next
<1>6. ASSUME NEW l \in Listeners, RunListener(l) PROVE [P!Next]_(P!pvars)
  <2>1. ran[l] = 0 /\ l \in added /\ fut.done
    BY <1>6, <1>t DEF RunListener, IInv, NotifiedOnce
  <2>2. ran'[l] = 1 /\ \A k \in Listeners \ {l} : ran'[k] = ran[k]
    BY <1>6, <2>1 DEF RunListener, IInv, TypeOK
  <2>3. P!Tell(l)
    BY <1>6, <2>1, <2>2 DEF RunListener, P!Tell, IInv, TypeOK
  <2> QED BY <2>3 DEF P!Next
<1>7. ASSUME NEW r \in Readers, Get(r) \/ GetTimesOut(r) PROVE [P!Next]_(P!pvars)
  BY <1>7 DEF Get, GetTimesOut, P!pvars
<1>8. CASE UNCHANGED vars
  BY <1>8 DEF vars, P!pvars
<1> QED BY <1>1, <1>2, <1>3, <1>4, <1>5, <1>6, <1>7, <1>8 DEF Next, Continue

(* A future keeps its promise: it settles at most once, never changes its  *)
(* outcome afterwards, and tells a listener of nothing else.               *)
THEOREM FutureImplementsPromise == Spec => KeepsPromise
<1>1. Spec => P!Init
  BY InitImplementsPromise DEF Spec
<1>2. Spec => [][P!Next]_(P!pvars)
  BY SpecIInv, NextImplementsPromise, PTL DEF Spec
<1> QED BY <1>1, <1>2, PTL DEF KeepsPromise, P!Spec

(* And every listener that was added is told.  The provers do not know     *)
(* ENABLED, so the fairness of the two specifications is written out, with *)
(* the enabling condition of RunListener(l) and of the abstract Tell(l).   *)
Launched(l) == ran[l] < fut.started[l]
Due(l) == fut.done /\ l \in added /\ ran[l] = 0

ListenersRun == \A l \in Listeners : []<>~Launched(l) \/ []<><<RunListener(l)>>_vars
ListenersAreTold == \A l \in Listeners : []<>~Due(l) \/ []<><<P!Tell(l)>>_(P!pvars)

(* A step of a listener's goroutine is a Tell, and one can run exactly     *)
(* when the promise owes its listener.                                     *)
LEMMA RunIsTell ==
  ASSUME IInv, NEW l \in Listeners
  PROVE  /\ Due(l) => Launched(l)
         /\ RunListener(l) => <<P!Tell(l)>>_(P!pvars)
<1>t. fut.started[l] \in Nat /\ ran \in [Listeners -> Nat]
  BY DEF IInv, TypeOK, FutureCells
<1>1. Due(l) => Launched(l)
  BY <1>t DEF Due, Launched, IInv, NotifiedOnce
<1>2. ASSUME RunListener(l) PROVE <<P!Tell(l)>>_(P!pvars)
  <2>1. ran[l] = 0 /\ l \in added /\ fut.done
    BY <1>2, <1>t DEF RunListener, IInv, NotifiedOnce
  <2>2. ran'[l] = 1 /\ \A k \in Listeners \ {l} : ran'[k] = ran[k]
    BY <1>2, <1>t, <2>1 DEF RunListener
  <2>3. P!Tell(l)
    BY <1>2, <2>1, <2>2 DEF RunListener, P!Tell, IInv, TypeOK
  <2>4. P!pvars' # P!pvars
    BY <2>1, <2>2 DEF P!pvars
  <2> QED BY <2>3, <2>4
<1> QED BY <1>1, <1>2

(* With goroutines that are scheduled the future implements all of         *)
(* Promise: a listener is told of the outcome, whether it was added        *)
(* before, during or after the completion.                                 *)
THEOREM FutureTellsListeners == Spec /\ ListenersRun => KeepsPromise /\ ListenersAreTold
<1>1. ASSUME NEW l \in Listeners
      PROVE  Spec /\ ListenersRun => []<>~Due(l) \/ []<><<P!Tell(l)>>_(P!pvars)
  <2>1. IInv => (Due(l) => Launched(l))
    BY RunIsTell
  <2>2. IInv /\ <<RunListener(l)>>_vars => <<P!Tell(l)>>_(P!pvars)
    BY RunIsTell
  <2>3. ListenersRun => []<>~Launched(l) \/ []<><<RunListener(l)>>_vars
    BY DEF ListenersRun
  <2> QED BY <2>1, <2>2, <2>3, SpecIInv, PTL
<1>2. Spec /\ ListenersRun => ListenersAreTold
  BY <1>1 DEF ListenersAreTold
<1> QED BY <1>2, FutureImplementsPromise, PTL

-----------------------------------------------------------------------------
(* CollectionFuture. *)
MemberCells == MemberCell!FutureCells(Members)

(* The members that have not been counted: their listener has not come to  *)
(* it, or never will because they failed.                                  *)
Left == {m \in Members : lpc[m] \in {"idle", "counting", "failing"} \/ member[m].err # NoError}

(* A listener exists only when its member is done, and none before the     *)
(* constructor has stored the counter.                                     *)
StartedOK ==
  /\ \A m \in Members : member[m].started[m] > 0 => member[m].done
  /\ \A m \in Members : ~ member[m].done => member[m].err = NoError
  /\ next = 0 => /\ cf.done = FALSE
                 /\ \A m \in Members : member[m].listeners = {} /\ member[m].started[m] = 0

(* What a listener has found of its member, which stays as it is. *)
ListenersOK ==
  \A m \in Members :
    /\ lpc[m] # "idle" => member[m].done /\ next # 0
    /\ lpc[m] \in {"counting", "succeeding"} => member[m].err = NoError
    /\ lpc[m] # "idle" /\ member[m].err # NoError => lpc[m] \in {"failing", "finished"}

(* The counter never falls below the number of the members not counted, so *)
(* who finds it at zero is the last.                                       *)
CounterOK ==
  /\ next # 0 => Cardinality(Left) <= counter
  /\ (\E m \in Members : lpc[m] = "succeeding") \/ (cf.done /\ failedBy = {}) => Left = {}

(* One failure at most has completed the collection. *)
FailureOK ==
  /\ \A m \in failedBy : cf.done /\ cf.err = member[m].err /\ failedBy = {m} /\ member[m].done
  /\ ~ cf.done => cf.err = NoError

CollectionInv ==
  CollectionTypeOK /\ StartedOK /\ ListenersOK /\ CounterOK /\ FailureOK

-----------------------------------------------------------------------------
LEMMA MemberLaunchFields ==
  ASSUME NEW f \in MemberCells, NEW L \in SUBSET Members
  PROVE  /\ MemberCell!Launch(f, L) \in MemberCells
         /\ MemberCell!Launch(f, L).done = f.done
         /\ MemberCell!Launch(f, L).err = f.err
         /\ MemberCell!Launch(f, L).cancelled = f.cancelled
         /\ MemberCell!Launch(f, L).listeners = f.listeners
         /\ \A l \in Members : MemberCell!Launch(f, L).started[l] =
              IF l \in L THEN f.started[l] + 1 ELSE f.started[l]
<1> DEFINE S == [l \in Members |-> IF l \in L THEN f.started[l] + 1 ELSE f.started[l]]
<1>1. S \in [Members -> Nat]
  BY DEF MemberCells, MemberCell!FutureCells
<1>2. MemberCell!Launch(f, L) = [f EXCEPT !.started = S]
  BY DEF MemberCell!Launch
<1> HIDE DEF S
<1>3. /\ MemberCell!Launch(f, L) \in MemberCells
      /\ MemberCell!Launch(f, L).done = f.done
      /\ MemberCell!Launch(f, L).err = f.err
      /\ MemberCell!Launch(f, L).cancelled = f.cancelled
      /\ MemberCell!Launch(f, L).listeners = f.listeners
      /\ MemberCell!Launch(f, L).started = S
  BY <1>1, <1>2 DEF MemberCells, MemberCell!FutureCells
<1> QED BY <1>3 DEF S

(* The three completing sections differ in the error they set. *)
LEMMA CompletedFields ==
  ASSUME NEW f \in MemberCells, NEW e \in Members \cup {NoError}, NEW g,
         \/ g = MemberCell!Failed(f, e)
         \/ e = NoError /\ g \in {MemberCell!Succeeded(f), MemberCell!CancelledNow(f)},
         ~ f.done => f.err = NoError
  PROVE  /\ g \in MemberCells
         /\ g.done
         /\ g.err = IF f.done THEN f.err ELSE e
         /\ f.listeners = {} => g.listeners = {} /\ \A l \in Members : g.started[l] = f.started[l]
         /\ f.done => g = f
         /\ ~ f.done => \A l \in f.listeners : g.started[l] > 0
<1>1. CASE f.done
  BY <1>1 DEF MemberCell!Failed, MemberCell!Succeeded, MemberCell!CancelledNow
<1>2. CASE ~ f.done
  <2> DEFINE a == [f EXCEPT !.err = e]
             h == [a EXCEPT !.done = TRUE]
             k == [f EXCEPT !.done = TRUE]
  <2>1. /\ h \in MemberCells /\ h.done /\ h.err = e /\ a.listeners = f.listeners
        /\ k \in MemberCells /\ k.done /\ k.err = f.err
        /\ h.listeners = f.listeners /\ h.started = f.started
        /\ k.listeners = f.listeners /\ k.started = f.started
        /\ f.listeners \in SUBSET Members
        /\ \A l \in Members : f.started[l] \in Nat
    BY DEF MemberCells, MemberCell!FutureCells
  <2>2. \/ g = MemberCell!Launch(h, f.listeners)
        \/ e = NoError /\ g = MemberCell!Launch(k, f.listeners)
    BY <1>2, <2>1 DEF MemberCell!Failed, MemberCell!Succeeded, MemberCell!CancelledNow, MemberCell!CloseDone
  <2> HIDE DEF a, h, k
  <2> QED BY <1>2, <2>1, <2>2, MemberLaunchFields
<1> QED BY <1>1, <1>2

LEMMA CompletionIsDone ==
  ASSUME NEW f \in MemberCells, NEW e \in Members \cup {NoError},
         ~ f.done => f.err = NoError
  PROVE  MemberCell!Failed(f, e).done /\ MemberCell!Succeeded(f).done
<1>1. MemberCell!Failed(f, e).done
  BY CompletedFields
<1>2. NoError \in Members \cup {NoError}
  OBVIOUS
<1>3. MemberCell!Succeeded(f).done
  BY <1>2, CompletedFields
<1> QED BY <1>1, <1>3

LEMMA MemberListeningFields ==
  ASSUME NEW f \in MemberCells, NEW k \in Members
  PROVE  /\ MemberCell!Listening(f, k) \in MemberCells
         /\ MemberCell!Listening(f, k).done = f.done
         /\ MemberCell!Listening(f, k).err = f.err
         /\ ~ f.done => MemberCell!Listening(f, k).started = f.started
         /\ MemberCell!Listening(f, k).cancelled = f.cancelled
         /\ f.done => MemberCell!Listening(f, k).started[k] > 0
         /\ ~ f.done => k \in MemberCell!Listening(f, k).listeners
<1>1. CASE f.done
  <2>1. {k} \in SUBSET Members /\ MemberCell!Listening(f, k) = MemberCell!Launch(f, {k})
    BY <1>1 DEF MemberCell!Listening
  <2>2. /\ MemberCell!Launch(f, {k}) \in MemberCells
        /\ MemberCell!Launch(f, {k}).done = f.done
        /\ MemberCell!Launch(f, {k}).err = f.err
        /\ MemberCell!Launch(f, {k}).cancelled = f.cancelled
        /\ MemberCell!Launch(f, {k}).started[k] = f.started[k] + 1
    BY <2>1, MemberLaunchFields
  <2>3. f.started[k] + 1 > 0
    BY DEF MemberCells, MemberCell!FutureCells
  <2> QED BY <1>1, <2>1, <2>2, <2>3
<1>2. CASE ~ f.done
  <2>1. MemberCell!Listening(f, k) = [f EXCEPT !.listeners = f.listeners \cup {k}]
    BY <1>2 DEF MemberCell!Listening
  <2>2. f.listeners \cup {k} \in SUBSET Members
    BY DEF MemberCells, MemberCell!FutureCells
  <2> DEFINE L == f.listeners \cup {k}
             g == [f EXCEPT !.listeners = L]
  <2>3. L \in SUBSET Members /\ k \in L /\ MemberCell!Listening(f, k) = g
    BY <2>1, <2>2
  <2> HIDE DEF L
  <2>4. /\ g \in MemberCells /\ g.done = f.done /\ g.err = f.err /\ g.listeners = L
        /\ g.started = f.started /\ g.cancelled = f.cancelled
    BY <2>3 DEF MemberCells, MemberCell!FutureCells
  <2> QED BY <1>2, <2>3, <2>4
<1> QED BY <1>1, <1>2

LEMMA MemberNewFields ==
  /\ MemberCell!NewFuture \in MemberCells
  /\ MemberCell!NewFuture.done = FALSE
  /\ MemberCell!NewFuture.err = NoError
  /\ MemberCell!NewFuture.listeners = {}
  /\ \A m \in Members : MemberCell!NewFuture.started[m] = 0
  BY DEF MemberCell!NewFuture, MemberCells, MemberCell!FutureCells

LEMMA LeftIsFinite ==
  /\ IsFiniteSet(Left)
  /\ Cardinality(Left) \in Nat
  /\ Cardinality(Left) <= N
<1>1. IsFiniteSet(Members) /\ Cardinality(Members) = N
  BY FS_Interval, CollectionAssumption DEF Members
<1>2. Left \in SUBSET Members
  BY DEF Left
<1> QED BY <1>1, <1>2, FS_Subset, FS_CardinalityType

-----------------------------------------------------------------------------
LEMMA InitCollectionInv == CollectionInit => CollectionInv
<1> SUFFICES ASSUME CollectionInit PROVE CollectionInv
  OBVIOUS
<1>1. CollectionTypeOK
  BY MemberNewFields, CollectionAssumption DEF CollectionInit, CollectionTypeOK, MemberCells
<1>2. StartedOK /\ ListenersOK /\ FailureOK
  BY MemberNewFields DEF CollectionInit, StartedOK, ListenersOK, FailureOK
<1>3. CounterOK
  BY MemberNewFields DEF CollectionInit, CounterOK
<1> QED BY <1>1, <1>2, <1>3 DEF CollectionInv

(* A step of a member that is completed or gets a flag or a listener: what *)
(* its listener has found stays, and nobody is counted.                    *)
LEMMA MemberStep ==
  ASSUME CollectionInv, NEW m \in Members, NEW g \in MemberCells,
         member' = [member EXCEPT ![m] = g],
         member[m].done => g.done /\ g.err = member[m].err,
         ~ g.done => g.err = NoError,
         g.started[m] > 0 => g.done,
         next' = 0 => g.listeners = {} /\ g.started[m] = 0,
         next' \in 0..N + 1, next' = 0 <=> next = 0,
         flagging' \subseteq Members,
         UNCHANGED <<cf, counter, lpc, failedBy>>
  PROVE  CollectionInv'
<1> USE CollectionAssumption
<1>t. CollectionTypeOK /\ StartedOK /\ ListenersOK /\ CounterOK /\ FailureOK
  BY DEF CollectionInv
<1>1. CollectionTypeOK'
  BY <1>t DEF CollectionTypeOK, MemberCells
<1>2. member'[m] = g /\ \A k \in Members \ {m} : member'[k] = member[k]
  BY <1>t DEF CollectionTypeOK
<1>3. StartedOK'
  BY <1>2, <1>t DEF StartedOK
<1>4. ListenersOK'
  BY <1>2, <1>t DEF ListenersOK
<1>5. Left' = Left
  BY <1>2, <1>t DEF Left, ListenersOK, StartedOK
<1>6. CounterOK'
  BY <1>5, <1>t DEF CounterOK
<1>7. FailureOK'
  BY <1>2, <1>t DEF FailureOK
<1> QED BY <1>1, <1>3, <1>4, <1>6, <1>7 DEF CollectionInv

(* A step of the listener of m, which leaves the members alone. *)
LEMMA ListenerTypes ==
  ASSUME CollectionInv, NEW m \in Members, NEW to, lpc' = [lpc EXCEPT ![m] = to],
         to \in {"counting", "succeeding", "failing", "finished"},
         UNCHANGED <<member, next, flagging>>
  PROVE  /\ lpc' \in [Members -> {"idle", "counting", "succeeding", "failing", "finished"}]
         /\ lpc'[m] = to
         /\ \A k \in Members \ {m} : lpc'[k] = lpc[k]
  BY DEF CollectionInv, CollectionTypeOK

LEMMA NextCollectionInv == CollectionInv /\ [CollectionNext]_cvars => CollectionInv'
<1> SUFFICES ASSUME CollectionInv, [CollectionNext]_cvars PROVE CollectionInv'
  OBVIOUS
<1>t. CollectionTypeOK /\ StartedOK /\ ListenersOK /\ CounterOK /\ FailureOK
  BY DEF CollectionInv
<1>a. N \in Nat /\ NoError \notin Members
  BY CollectionAssumption DEF Members
<1>f. IsFiniteSet(Left) /\ Cardinality(Left) \in Nat /\ Cardinality(Left) <= N
  BY LeftIsFinite
<1> USE <1>a
<1>c. member \in [Members -> MemberCells] /\ cf \in MemberCells
  BY <1>t DEF CollectionTypeOK, MemberCells
<1>n. next \in 0..N + 1 /\ flagging \subseteq Members
  BY <1>t DEF CollectionTypeOK
<1>s. \A m \in Members :
        /\ ~ member[m].done => member[m].err = NoError
        /\ member[m].started[m] > 0 => member[m].done
        /\ next = 0 => member[m].listeners = {} /\ member[m].started[m] = 0
  BY <1>t DEF StartedOK
<1>1. ASSUME NEW m \in Members, MemberSucceeds(m) \/ MemberFails(m) \/ MemberCancelLocked(m)
      PROVE  CollectionInv'
  <2> DEFINE f == member[m]
             g == member'[m]
  <2>1. PICK e \in Members \cup {NoError} :
          /\ \/ g = MemberCell!Failed(f, e)
             \/ e = NoError /\ g \in {MemberCell!Succeeded(f), MemberCell!CancelledNow(f)}
          /\ member' = [member EXCEPT ![m] = g]
    BY <1>1, <1>c DEF MemberSucceeds, MemberFails, MemberCancelLocked
  <2>2. UNCHANGED <<cf, counter, next, lpc, failedBy>> /\ flagging' \subseteq Members
    BY <1>1, <1>n DEF MemberSucceeds, MemberFails, MemberCancelLocked
  <2>3. f \in MemberCells /\ (~ f.done => f.err = NoError)
    BY <1>c, <1>s
  <2>4. /\ g \in MemberCells
        /\ g.done
        /\ g.err = IF f.done THEN f.err ELSE e
        /\ f.listeners = {} => g.listeners = {} /\ \A l \in Members : g.started[l] = f.started[l]
    BY <2>1, <2>3, CompletedFields
  <2> QED BY <2>1, <2>2, <2>4, <1>s, <1>n, MemberStep
<1>2. ASSUME NEW m \in Members, MemberCancelFlag(m) PROVE CollectionInv'
  <2> DEFINE g == [member[m] EXCEPT !.cancelled = TRUE]
  <2>1. /\ g \in MemberCells /\ g.done = member[m].done /\ g.err = member[m].err
        /\ g.listeners = member[m].listeners /\ g.started = member[m].started
    BY <1>c DEF MemberCells, MemberCell!FutureCells
  <2>2. /\ member' = [member EXCEPT ![m] = g]
        /\ UNCHANGED <<cf, counter, next, lpc, failedBy>> /\ flagging' \subseteq Members
    BY <1>2, <1>n DEF MemberCancelFlag
  <2> HIDE DEF g
  <2> QED BY <2>1, <2>2, <1>s, <1>n, MemberStep
<1>3. CASE ListenToNext
  <2> DEFINE g == MemberCell!Listening(member[next], next)
  <2>1. next \in Members
    BY <1>3 DEF ListenToNext
  <2>2. /\ g \in MemberCells /\ g.done = member[next].done /\ g.err = member[next].err
        /\ ~ member[next].done => g.started = member[next].started
    BY <2>1, <1>c, MemberListeningFields
  <2>3. /\ member' = [member EXCEPT ![next] = g]
        /\ next' = next + 1
        /\ UNCHANGED <<cf, counter, lpc, failedBy, flagging>>
    BY <1>3 DEF ListenToNext
  <2>4. next' \in 0..N + 1 /\ next' # 0 /\ next # 0
    BY <2>1, <2>3 DEF Members
  <2> HIDE DEF g
  <2> QED BY <2>1, <2>2, <2>3, <2>4, <1>s, <1>n, MemberStep
<1>4. CASE StoreCounter
  <2>1. /\ next = 0 /\ next' = 1 /\ counter' = N
        /\ cf' = IF N = 0 THEN MemberCell!Succeeded(cf) ELSE cf
        /\ UNCHANGED <<member, lpc, failedBy, flagging>>
    BY <1>4 DEF StoreCounter
  <2>2. cf' \in MemberCells /\ cf'.err = NoError /\ (N # 0 => cf'.done = FALSE)
    BY <2>1, <1>c, <1>t, CompletedFields DEF StartedOK, FailureOK
  <2>3. \A m \in Members : lpc[m] = "idle"
    BY <2>1, <1>t DEF ListenersOK
  <2>4. failedBy = {}
    BY <2>1, <1>t DEF StartedOK, FailureOK, CollectionTypeOK
  <2>5. Left' = Left /\ (N = 0 => Left = {})
    BY <2>1 DEF Left, Members
  <2>6. CollectionTypeOK'
    BY <2>1, <2>2, <1>t DEF CollectionTypeOK, MemberCells
  <2>7. StartedOK' /\ ListenersOK' /\ FailureOK'
    BY <2>1, <2>2, <2>3, <2>4, <1>t DEF StartedOK, ListenersOK, FailureOK
  <2>8. CounterOK'
    BY <2>1, <2>2, <2>3, <2>5, <1>f DEF CounterOK
  <2> QED BY <2>6, <2>7, <2>8 DEF CollectionInv
<1>5. ASSUME NEW m \in Members, Look(m) PROVE CollectionInv'
  <2>1. /\ lpc[m] = "idle" /\ member[m].started[m] > 0
        /\ UNCHANGED <<member, cf, counter, next, failedBy, flagging>>
    BY <1>5 DEF Look
  <2>2. member[m].done /\ next # 0
    BY <2>1, <1>s
  <2>3. PICK to \in {"counting", "failing"} :
          /\ lpc' = [lpc EXCEPT ![m] = to]
          /\ to = "counting" => member[m].err = NoError
    BY <1>5 DEF Look, MemberCell!IsSuccess
  <2>4. /\ lpc' \in [Members -> {"idle", "counting", "succeeding", "failing", "finished"}]
        /\ lpc'[m] = to
        /\ \A k \in Members \ {m} : lpc'[k] = lpc[k]
    BY <2>1, <2>3, ListenerTypes
  <2>5. Left' = Left
    BY <2>1, <2>4 DEF Left
  <2>6. CollectionTypeOK' /\ StartedOK' /\ FailureOK'
    BY <2>1, <2>4, <1>t DEF CollectionTypeOK, StartedOK, FailureOK
  <2>7. ListenersOK'
    BY <2>1, <2>2, <2>3, <2>4, <1>t DEF ListenersOK
  <2>8. CounterOK'
    BY <2>1, <2>4, <2>5, <1>t DEF CounterOK
  <2> QED BY <2>6, <2>7, <2>8 DEF CollectionInv
<1>6. ASSUME NEW m \in Members, CountDown(m) PROVE CollectionInv'
  <2>1. /\ lpc[m] = "counting" /\ counter' = counter - 1
        /\ UNCHANGED <<member, cf, next, failedBy, flagging>>
    BY <1>6 DEF CountDown
  <2>2. PICK to \in {"succeeding", "finished"} :
          lpc' = [lpc EXCEPT ![m] = to] /\ (to = "succeeding" <=> counter' = 0)
    BY <1>6 DEF CountDown
  <2>3. /\ lpc' \in [Members -> {"idle", "counting", "succeeding", "failing", "finished"}]
        /\ lpc'[m] = to
        /\ \A k \in Members \ {m} : lpc'[k] = lpc[k]
    BY <2>1, <2>2, ListenerTypes
  <2>4. member[m].err = NoError /\ member[m].done /\ next # 0
    BY <2>1, <1>t DEF ListenersOK
  <2>5. m \in Left /\ Left' = Left \ {m}
    BY <2>1, <2>3, <2>4 DEF Left
  <2>6. /\ Cardinality(Left') = Cardinality(Left) - 1 /\ IsFiniteSet(Left')
        /\ Cardinality(Left') \in Nat
    BY <2>5, <1>f, FS_RemoveElement, FS_CardinalityType
  <2>7. counter \in 0..N /\ Cardinality(Left) <= counter
    BY <2>4, <1>t DEF CollectionTypeOK, CounterOK
  <2>8. counter' \in 0..N /\ Cardinality(Left') <= counter'
    BY <2>1, <2>6, <2>7, <1>f
  <2>9. counter' = 0 => Left' = {}
    BY <2>6, <2>8, FS_EmptySet
  <2>10. ~ ((\E k \in Members : lpc[k] = "succeeding") \/ (cf.done /\ failedBy = {}))
    BY <2>5, <1>t DEF CounterOK
  <2>11. CollectionTypeOK' /\ StartedOK' /\ FailureOK'
    BY <2>1, <2>3, <2>8, <1>t DEF CollectionTypeOK, StartedOK, FailureOK
  <2>12. ListenersOK'
    BY <2>1, <2>3, <2>4, <1>t DEF ListenersOK
  <2>13. CounterOK'
    BY <2>1, <2>2, <2>3, <2>8, <2>9, <2>10 DEF CounterOK
  <2> QED BY <2>11, <2>12, <2>13 DEF CollectionInv
<1>7. ASSUME NEW m \in Members, CollectionSucceeds(m) PROVE CollectionInv'
  <2>1. /\ lpc[m] = "succeeding" /\ cf' = MemberCell!Succeeded(cf)
        /\ lpc' = [lpc EXCEPT ![m] = "finished"]
        /\ UNCHANGED <<member, counter, next, failedBy, flagging>>
    BY <1>7 DEF CollectionSucceeds
  <2>2. /\ lpc' \in [Members -> {"idle", "counting", "succeeding", "failing", "finished"}]
        /\ lpc'[m] = "finished"
        /\ \A k \in Members \ {m} : lpc'[k] = lpc[k]
    BY <2>1, ListenerTypes
  <2>3. cf' \in MemberCells /\ cf'.done /\ cf'.err = IF cf.done THEN cf.err ELSE NoError
    <3>1. ~ cf.done => cf.err = NoError
      BY <1>t DEF FailureOK
    <3>2. cf' \in {MemberCell!Succeeded(cf), MemberCell!CancelledNow(cf)} /\ NoError \in Members \cup {NoError}
      BY <2>1
    <3> QED BY <3>1, <3>2, <1>c, CompletedFields
  <2>4. next # 0 /\ Left = {}
    BY <2>1, <1>t DEF ListenersOK, CounterOK
  <2>5. Left' = {}
    BY <2>1, <2>2, <2>4 DEF Left
  <2>6. CollectionTypeOK' /\ StartedOK' /\ FailureOK'
    BY <2>1, <2>2, <2>3, <2>4, <1>t DEF CollectionTypeOK, StartedOK, FailureOK, MemberCells
  <2>7. ListenersOK'
    BY <2>1, <2>2, <1>t DEF ListenersOK
  <2>8. CounterOK'
    BY <2>1, <2>4, <2>5, <1>t DEF CounterOK
  <2> QED BY <2>6, <2>7, <2>8 DEF CollectionInv
<1>8. ASSUME NEW m \in Members, CollectionFails(m) PROVE CollectionInv'
  <2>1. /\ lpc[m] = "failing" /\ cf' = MemberCell!Failed(cf, member[m].err)
        /\ failedBy' = IF cf.done THEN failedBy ELSE failedBy \cup {m}
        /\ lpc' = [lpc EXCEPT ![m] = "finished"]
        /\ UNCHANGED <<member, counter, next, flagging>>
    BY <1>8 DEF CollectionFails
  <2>2. /\ lpc' \in [Members -> {"idle", "counting", "succeeding", "failing", "finished"}]
        /\ lpc'[m] = "finished"
        /\ \A k \in Members \ {m} : lpc'[k] = lpc[k]
    BY <2>1, ListenerTypes
  <2>3. member[m].err \in Members \cup {NoError}
    BY <1>c DEF MemberCells, MemberCell!FutureCells
  <2>4. cf' \in MemberCells /\ cf'.done /\ cf'.err = IF cf.done THEN cf.err ELSE member[m].err
    BY <2>1, <2>3, <1>c, <1>t, CompletedFields DEF FailureOK
  <2>5. next # 0 /\ member[m].done /\ m \in Left
    BY <2>1, <1>t DEF ListenersOK, Left
  <2>6. ~ ((\E k \in Members : lpc[k] = "succeeding") \/ (cf.done /\ failedBy = {}))
    BY <2>5, <1>t DEF CounterOK
  <2>7. failedBy' # {} /\ (~ cf.done => failedBy' = {m}) /\ (cf.done => failedBy' = failedBy)
    BY <2>1, <2>6, <1>t DEF FailureOK
  <2>8. Left' \in SUBSET Left
    BY <2>1, <2>2 DEF Left
  <2>9. Cardinality(Left') <= Cardinality(Left) /\ Cardinality(Left') \in Nat
    BY <2>8, <1>f, FS_Subset, FS_CardinalityType
  <2>10. CollectionTypeOK'
    BY <2>1, <2>2, <2>4, <1>t DEF CollectionTypeOK, MemberCells
  <2>11. StartedOK' /\ ListenersOK'
    BY <2>1, <2>2, <2>5, <1>t DEF StartedOK, ListenersOK
  <2>12. FailureOK'
    BY <2>1, <2>4, <2>5, <2>7, <1>t DEF FailureOK
  <2>13. CounterOK'
    BY <2>1, <2>2, <2>5, <2>6, <2>7, <2>9, <1>t, <1>f DEF CounterOK, CollectionTypeOK
  <2> QED BY <2>10, <2>11, <2>12, <2>13 DEF CollectionInv
<1>9. CASE UNCHANGED cvars
  BY <1>9, <1>t
     DEF cvars, CollectionInv, CollectionTypeOK, StartedOK, ListenersOK, CounterOK, FailureOK, Left
<1>10. CASE CollectionNext
  BY <1>1, <1>2, <1>3, <1>4, <1>5, <1>6, <1>7, <1>8, <1>10 DEF CollectionNext, Constructor, Owner, Listener
<1> QED BY <1>9, <1>10

LEMMA SpecCollectionInv == CollectionSpec => []CollectionInv
  BY InitCollectionInv, NextCollectionInv, PTL DEF CollectionSpec

-----------------------------------------------------------------------------
(* The ranges of the futures, of the counter and of the listeners' states. *)
THEOREM CollectionTypeCorrect == CollectionSpec => []CollectionTypeOK
<1>1. CollectionInv => CollectionTypeOK
  BY DEF CollectionInv
<1> QED BY <1>1, SpecCollectionInv, PTL

(* Who fails without an error has been cancelled, and only a failure that  *)
(* completed the collection leaves an error in it.                         *)
NilOK ==
  /\ \A m \in Members :
       (lpc[m] = "failing" \/ m \in failedBy) /\ member[m].err = NoError => member[m].cancelled
  /\ cf.err # NoError => failedBy # {}

LEMMA InitNilOK == CollectionInit => NilOK
  BY MemberNewFields DEF CollectionInit, NilOK

LEMMA NextNilOK == CollectionInv /\ NilOK /\ [CollectionNext]_cvars => NilOK'
<1> SUFFICES ASSUME CollectionInv, NilOK, [CollectionNext]_cvars PROVE NilOK'
  OBVIOUS
<1> USE CollectionAssumption
<1>t. /\ member \in [Members -> MemberCells] /\ cf \in MemberCells
      /\ lpc \in [Members -> {"idle", "counting", "succeeding", "failing", "finished"}]
      /\ failedBy \subseteq Members
  BY DEF CollectionInv, CollectionTypeOK, MemberCells
<1>s. \A m \in Members :
        /\ ~ member[m].done => member[m].err = NoError
        /\ member[m].started[m] > 0 => member[m].done
        /\ lpc[m] = "failing" \/ m \in failedBy => member[m].done
  BY DEF CollectionInv, StartedOK, ListenersOK, FailureOK
<1>c. ~ cf.done => cf.err = NoError
  BY DEF CollectionInv, FailureOK
<1>1. ASSUME NEW m \in Members, MemberSucceeds(m) \/ MemberFails(m) \/ MemberCancelLocked(m)
      PROVE  NilOK'
  <2> DEFINE f == member[m]
             g == member'[m]
  <2>1. PICK e \in Members \cup {NoError} :
          \/ g = MemberCell!Failed(f, e)
          \/ e = NoError /\ g \in {MemberCell!Succeeded(f), MemberCell!CancelledNow(f)}
    BY <1>1, <1>t DEF MemberSucceeds, MemberFails, MemberCancelLocked
  <2>2. f.done => g = f
    <3>1. f \in MemberCells /\ (~ f.done => f.err = NoError)
      BY <1>t, <1>s
    <3> QED BY <2>1, <3>1, CompletedFields
  <2>3. /\ \A k \in Members \ {m} : member'[k] = member[k]
        /\ UNCHANGED <<cf, lpc, failedBy>>
    BY <1>1, <1>t DEF MemberSucceeds, MemberFails, MemberCancelLocked
  <2> QED BY <2>2, <2>3, <1>s DEF NilOK
<1>2. ASSUME NEW m \in Members, MemberCancelFlag(m) PROVE NilOK'
  <2>1. /\ member'[m].err = member[m].err /\ member'[m].cancelled
        /\ \A k \in Members \ {m} : member'[k] = member[k]
        /\ UNCHANGED <<cf, lpc, failedBy>>
    BY <1>2, <1>t DEF MemberCancelFlag, MemberCells, MemberCell!FutureCells
  <2> QED BY <2>1 DEF NilOK
<1>3. CASE ListenToNext
  <2> DEFINE g == MemberCell!Listening(member[next], next)
  <2>1. /\ next \in Members /\ member'[next] = g
        /\ \A k \in Members \ {next} : member'[k] = member[k]
        /\ UNCHANGED <<cf, lpc, failedBy>>
    BY <1>3, <1>t DEF ListenToNext
  <2>2. g.err = member[next].err /\ g.cancelled = member[next].cancelled
    BY <2>1, <1>t, MemberListeningFields
  <2> HIDE DEF g
  <2> QED BY <2>1, <2>2 DEF NilOK
<1>4. CASE StoreCounter
  <2>1. /\ cf' = IF N = 0 THEN MemberCell!Succeeded(cf) ELSE cf
        /\ next = 0
        /\ UNCHANGED <<member, lpc, failedBy>>
    BY <1>4 DEF StoreCounter
  <2>2. cf'.err = cf.err
    BY <2>1, <1>t, <1>c, CompletedFields
  <2> QED BY <2>1, <2>2 DEF NilOK
(* The listener that does not find a success has found an error or a flag. *)
<1>5. ASSUME NEW m \in Members, Look(m) PROVE NilOK'
  <2>1. member[m].done
    BY <1>5, <1>s DEF Look
  <2>2. /\ \A k \in Members \ {m} : lpc'[k] = lpc[k]
        /\ lpc'[m] = "failing" => ~ MemberCell!IsSuccess(member[m])
        /\ UNCHANGED <<member, cf, failedBy>>
    BY <1>5, <1>t DEF Look
  <2>3. lpc'[m] = "failing" /\ member[m].err = NoError => member[m].cancelled
    BY <2>1, <2>2 DEF MemberCell!IsSuccess
  <2> QED BY <2>2, <2>3 DEF NilOK
<1>6. ASSUME NEW m \in Members, CountDown(m) PROVE NilOK'
  <2>1. /\ lpc'[m] # "failing" /\ \A k \in Members \ {m} : lpc'[k] = lpc[k]
        /\ UNCHANGED <<member, cf, failedBy>>
    BY <1>6, <1>t DEF CountDown
  <2> QED BY <2>1 DEF NilOK
<1>7. ASSUME NEW m \in Members, CollectionSucceeds(m) PROVE NilOK'
  <2>1. /\ lpc'[m] # "failing" /\ \A k \in Members \ {m} : lpc'[k] = lpc[k]
        /\ cf' = MemberCell!Succeeded(cf)
        /\ UNCHANGED <<member, failedBy>>
    BY <1>7, <1>t DEF CollectionSucceeds
  <2>2. cf'.err = cf.err
    BY <2>1, <1>t, <1>c, CompletedFields
  <2> QED BY <2>1, <2>2 DEF NilOK
<1>8. ASSUME NEW m \in Members, CollectionFails(m) PROVE NilOK'
  <2>1. /\ lpc[m] = "failing" /\ lpc'[m] # "failing"
        /\ \A k \in Members \ {m} : lpc'[k] = lpc[k]
        /\ cf' = MemberCell!Failed(cf, member[m].err)
        /\ failedBy' = IF cf.done THEN failedBy ELSE failedBy \cup {m}
        /\ UNCHANGED member
    BY <1>8, <1>t DEF CollectionFails
  <2>2. member[m].err \in Members \cup {NoError}
    BY <1>t DEF MemberCells, MemberCell!FutureCells
  <2>3. cf.done => cf' = cf
    <3>1. cf' = MemberCell!Failed(cf, member[m].err)
      BY <2>1
    <3> QED BY <2>2, <3>1, <1>t, <1>c, CompletedFields
  <2> QED BY <2>1, <2>3 DEF NilOK
<1>9. CASE UNCHANGED cvars
  BY <1>9 DEF cvars, NilOK
<1>10. CASE CollectionNext
  BY <1>1, <1>2, <1>3, <1>4, <1>5, <1>6, <1>7, <1>8, <1>10 DEF CollectionNext, Constructor, Owner, Listener
<1> QED BY <1>9, <1>10

(* What IsSuccess() and Cause() say of a collection is true of its         *)
(* members, whoever completes it and however many listeners run while the  *)
(* constructor adds others: IsSuccess() that every member has succeeded,   *)
(* unless a cancelled one completed the collection (future.go:241), and    *)
(* Cause() what the first member to fail failed with.                      *)
THEOREM OutcomeIsThatOfMembers == CollectionSpec => []OutcomeIsTheMembers
<1>1. CollectionInv /\ NilOK => OutcomeIsTheMembers
  <2> SUFFICES ASSUME CollectionInv, NilOK PROVE OutcomeIsTheMembers
    OBVIOUS
  <2>f. /\ \A m \in failedBy : cf.done /\ cf.err = member[m].err /\ failedBy = {m} /\ member[m].done
        /\ failedBy \subseteq Members
    BY DEF CollectionInv, CollectionTypeOK, FailureOK
  <2>1. CASE failedBy = {}
    <3>1. cf.err = NoError
      BY <2>1 DEF NilOK
    <3>2. ASSUME cf.done, NEW m \in Members PROVE member[m].done /\ member[m].err = NoError
      <4>1. Left = {}
        BY <2>1, <3>2 DEF CollectionInv, CounterOK
      <4>2. lpc[m] \in {"succeeding", "finished"} /\ member[m].err = NoError
        BY <4>1 DEF CollectionInv, CollectionTypeOK, Left
      <4> QED BY <4>2 DEF CollectionInv, ListenersOK
    <3> QED BY <2>1, <3>1, <3>2 DEF OutcomeIsTheMembers, MemberCell!IsSuccess
  <2>2. ASSUME NEW m \in failedBy PROVE OutcomeIsTheMembers
    <3>1. m \in Members /\ member[m].done /\ cf.err = member[m].err
      BY <2>f
    <3>2. cf.err = NoError => member[m].cancelled
      BY <3>1 DEF NilOK
    <3> QED BY <2>f, <3>1, <3>2 DEF OutcomeIsTheMembers, MemberCell!IsSuccess
  <2> QED BY <2>1, <2>2
<1>2. CollectionSpec => []NilOK
  BY InitNilOK, NextNilOK, SpecCollectionInv, PTL DEF CollectionSpec
<1> QED BY <1>1, <1>2, SpecCollectionInv, PTL

-----------------------------------------------------------------------------
(* Why nobody is left waiting.  The constructor has left a listener with   *)
(* every member it has passed, started if the member is done; who sees a   *)
(* flag before the end of its Cancel sees the Cancel; and a failure that   *)
(* was passed on has completed the collection.                             *)
MembersOK ==
  \A m \in Members :
    /\ m < next /\ ~ member[m].done => m \in member[m].listeners
    /\ m < next /\ member[m].done /\ lpc[m] = "idle" => member[m].started[m] > 0
    /\ member[m].cancelled /\ ~ member[m].done => m \in flagging
    /\ lpc[m] = "finished" /\ member[m].err # NoError => cf.done

(* Until the collection is done the counter is exact, and who finds it at  *)
(* zero is on the way to complete the collection.                          *)
Uncounted == {m \in Members : lpc[m] \in {"idle", "counting", "failing"}}

WaitingOK ==
  ~ cf.done /\ next # 0 =>
    /\ counter = Cardinality(Uncounted)
    /\ counter = 0 => \E m \in Members : lpc[m] = "succeeding"

LEMMA UncountedIsFinite == IsFiniteSet(Uncounted) /\ Cardinality(Uncounted) \in Nat
<1>1. IsFiniteSet(Members)
  BY FS_Interval, CollectionAssumption DEF Members
<1>2. Uncounted \in SUBSET Members
  BY DEF Uncounted
<1> QED BY <1>1, <1>2, FS_Subset, FS_CardinalityType

LEMMA NextMembersOK == CollectionInv /\ MembersOK /\ [CollectionNext]_cvars => MembersOK'
<1> SUFFICES ASSUME CollectionInv, MembersOK, [CollectionNext]_cvars PROVE MembersOK'
  OBVIOUS
<1> USE CollectionAssumption
<1>t. /\ member \in [Members -> MemberCells] /\ cf \in MemberCells
      /\ lpc \in [Members -> {"idle", "counting", "succeeding", "failing", "finished"}]
      /\ next \in 0..N + 1
  BY DEF CollectionInv, CollectionTypeOK, MemberCells
<1>s. \A m \in Members :
        /\ ~ member[m].done => member[m].err = NoError
        /\ lpc[m] # "idle" => member[m].done
        /\ lpc[m] \in {"counting", "succeeding"} => member[m].err = NoError
  BY DEF CollectionInv, StartedOK, ListenersOK
<1>1. ASSUME NEW m \in Members, MemberSucceeds(m) \/ MemberFails(m) \/ MemberCancelLocked(m)
      PROVE  MembersOK'
  <2> DEFINE f == member[m]
             g == member'[m]
  <2>1. PICK e \in Members \cup {NoError} :
          \/ g = MemberCell!Failed(f, e)
          \/ e = NoError /\ g \in {MemberCell!Succeeded(f), MemberCell!CancelledNow(f)}
    BY <1>1, <1>t DEF MemberSucceeds, MemberFails, MemberCancelLocked
  <2>2. /\ \A k \in Members \ {m} : member'[k] = member[k]
        /\ \A k \in Members \ {m} : k \in flagging => k \in flagging'
        /\ UNCHANGED <<cf, counter, next, lpc, failedBy>>
    BY <1>1, <1>t DEF MemberSucceeds, MemberFails, MemberCancelLocked
  <2>3. f \in MemberCells /\ (~ f.done => f.err = NoError)
    BY <1>t, <1>s
  <2>4. /\ g.done
        /\ f.done => g = f
        /\ ~ f.done => \A l \in f.listeners : g.started[l] > 0
    BY <2>1, <2>3, CompletedFields
  <2> QED BY <2>2, <2>4, <1>s DEF MembersOK
<1>2. ASSUME NEW m \in Members, MemberCancelFlag(m) PROVE MembersOK'
  <2>1. /\ member'[m].done = member[m].done /\ member'[m].err = member[m].err
        /\ member'[m].listeners = member[m].listeners /\ member'[m].started = member[m].started
        /\ \A k \in Members \ {m} : member'[k] = member[k]
    BY <1>2, <1>t DEF MemberCancelFlag, MemberCells, MemberCell!FutureCells
  <2> QED BY <1>2, <2>1 DEF MemberCancelFlag, MembersOK
<1>3. CASE ListenToNext
  <2> DEFINE g == MemberCell!Listening(member[next], next)
  <2>1. /\ next \in Members /\ member'[next] = g
        /\ \A k \in Members \ {next} : member'[k] = member[k]
        /\ next' = next + 1
        /\ UNCHANGED <<cf, counter, lpc, failedBy, flagging>>
    BY <1>3, <1>t DEF ListenToNext
  <2>2. /\ g.done = member[next].done /\ g.err = member[next].err
        /\ g.cancelled = member[next].cancelled
        /\ member[next].done => g.started[next] > 0
        /\ ~ member[next].done => next \in g.listeners
    BY <2>1, <1>t, MemberListeningFields
  <2> HIDE DEF g
  <2>3. \A k \in Members : k < next' /\ k # next => k < next
    BY <2>1 DEF Members
  <2> QED BY <2>1, <2>2, <2>3 DEF MembersOK
<1>4. CASE StoreCounter
  <2>1. next' = 1 /\ UNCHANGED <<member, lpc, flagging>> /\ next = 0
    BY <1>4 DEF StoreCounter
  <2>2. \A m \in Members : ~ (m < next') /\ lpc[m] = "idle"
    BY <2>1 DEF CollectionInv, ListenersOK, Members
  <2> QED BY <2>1, <2>2 DEF MembersOK
<1>5. ASSUME NEW m \in Members, Look(m) PROVE MembersOK'
  <2>1. lpc'[m] \in {"counting", "failing"} /\ \A k \in Members \ {m} : lpc'[k] = lpc[k]
    BY <1>5, <1>t DEF Look
  <2> QED BY <1>5, <2>1 DEF Look, MembersOK
<1>6. ASSUME NEW m \in Members, CountDown(m) PROVE MembersOK'
  <2>1. /\ lpc'[m] \in {"succeeding", "finished"} /\ \A k \in Members \ {m} : lpc'[k] = lpc[k]
        /\ member[m].err = NoError
    BY <1>6, <1>s, <1>t DEF CountDown
  <2> QED BY <1>6, <2>1 DEF CountDown, MembersOK
<1>7. ASSUME NEW m \in Members, CollectionSucceeds(m) \/ CollectionFails(m) PROVE MembersOK'
  <2>1. /\ lpc'[m] = "finished" /\ \A k \in Members \ {m} : lpc'[k] = lpc[k]
        /\ UNCHANGED <<member, next, flagging>>
    BY <1>7, <1>t DEF CollectionSucceeds, CollectionFails
  <2>2. /\ ~ cf.done => cf.err = NoError
        /\ member[m].err \in Members \cup {NoError}
    BY <1>t DEF CollectionInv, FailureOK, MemberCells, MemberCell!FutureCells
  <2>3. cf' \in {MemberCell!Failed(cf, member[m].err), MemberCell!Succeeded(cf)}
    BY <1>7 DEF CollectionSucceeds, CollectionFails
  <2>4. cf'.done
    BY <2>2, <2>3, <1>t, CompletionIsDone
  <2> QED BY <2>1, <2>4 DEF MembersOK
<1>8. CASE UNCHANGED cvars
  BY <1>8 DEF cvars, MembersOK
<1>9. CASE CollectionNext
  BY <1>1, <1>2, <1>3, <1>4, <1>5, <1>6, <1>7, <1>9 DEF CollectionNext, Constructor, Owner, Listener
<1> QED BY <1>8, <1>9

LEMMA NextWaitingOK == CollectionInv /\ WaitingOK /\ [CollectionNext]_cvars => WaitingOK'
<1> SUFFICES ASSUME CollectionInv, WaitingOK, [CollectionNext]_cvars, ~ cf'.done, next' # 0
             PROVE  /\ counter' = Cardinality(Uncounted')
                    /\ counter' = 0 => \E m \in Members : lpc'[m] = "succeeding"
  BY DEF WaitingOK
<1> USE CollectionAssumption
<1>t. /\ cf \in MemberCells /\ member \in [Members -> MemberCells] /\ counter \in 0..N
      /\ lpc \in [Members -> {"idle", "counting", "succeeding", "failing", "finished"}]
  BY DEF CollectionInv, CollectionTypeOK, MemberCells
<1>e. /\ ~ cf.done => cf.err = NoError
      /\ \A m \in Members : member[m].err \in Members \cup {NoError}
  BY <1>t DEF CollectionInv, FailureOK, MemberCells, MemberCell!FutureCells
<1>1. CASE UNCHANGED <<cf, counter, lpc>> /\ next # 0
  BY <1>1 DEF WaitingOK, Uncounted
<1>2. CASE StoreCounter
  <2>1. /\ next = 0 /\ counter' = N /\ UNCHANGED lpc
        /\ cf' = IF N = 0 THEN MemberCell!Succeeded(cf) ELSE cf
    BY <1>2 DEF StoreCounter
  <2>2. \A m \in Members : lpc[m] = "idle"
    BY <2>1 DEF CollectionInv, ListenersOK
  <2>3. Uncounted' = Members
    BY <2>1, <2>2 DEF Uncounted
  <2>4. Cardinality(Members) = N
    BY FS_Interval, CollectionAssumption DEF Members
  <2>5. N # 0
    BY <2>1, <1>t, <1>e, CompletionIsDone
  <2> QED BY <2>1, <2>3, <2>4, <2>5
<1>3. ASSUME NEW m \in Members, Look(m)
      PROVE  /\ counter' = Cardinality(Uncounted')
             /\ counter' = 0 => \E k \in Members : lpc'[k] = "succeeding"
  <2>1. /\ lpc[m] = "idle" /\ lpc'[m] \in {"counting", "failing"}
        /\ \A k \in Members \ {m} : lpc'[k] = lpc[k]
        /\ UNCHANGED <<cf, counter, next>>
    BY <1>3, <1>t DEF Look
  <2>2. Uncounted' = Uncounted
    BY <2>1 DEF Uncounted
  <2> QED BY <2>1, <2>2 DEF WaitingOK
<1>4. ASSUME NEW m \in Members, CountDown(m)
      PROVE  /\ counter' = Cardinality(Uncounted')
             /\ counter' = 0 => \E k \in Members : lpc'[k] = "succeeding"
  <2>1. /\ lpc[m] = "counting" /\ lpc'[m] = IF counter' = 0 THEN "succeeding" ELSE "finished"
        /\ \A k \in Members \ {m} : lpc'[k] = lpc[k]
        /\ counter' = counter - 1
        /\ UNCHANGED <<cf, next>>
    BY <1>4, <1>t DEF CountDown
  <2>2. m \in Uncounted /\ Uncounted' = Uncounted \ {m}
    BY <2>1 DEF Uncounted
  <2>3. Cardinality(Uncounted') = Cardinality(Uncounted) - 1
    BY <2>2, UncountedIsFinite, FS_RemoveElement
  <2> QED BY <2>1, <2>3 DEF WaitingOK
<1>5. ASSUME NEW m \in Members, CollectionSucceeds(m) \/ CollectionFails(m) PROVE FALSE
  <2>1. cf' \in {MemberCell!Failed(cf, member[m].err), MemberCell!Succeeded(cf)}
    BY <1>5 DEF CollectionSucceeds, CollectionFails
  <2> QED BY <2>1, <1>t, <1>e, CompletionIsDone
<1>6. ASSUME NEW m \in Members, Owner(m) \/ MemberCancelLocked(m)
      PROVE  UNCHANGED <<cf, counter, lpc, next>>
  BY <1>6 DEF Owner, MemberSucceeds, MemberFails, MemberCancelFlag, MemberCancelLocked
<1>7. CASE ListenToNext
  BY <1>1, <1>7 DEF ListenToNext, Members
<1>8. CASE UNCHANGED cvars
  BY <1>1, <1>8 DEF cvars
<1>9. CASE CollectionNext
  BY <1>1, <1>2, <1>3, <1>4, <1>5, <1>6, <1>7, <1>9 DEF CollectionNext, Constructor, Listener
<1> QED BY <1>8, <1>9

(* Nobody is left waiting: with the constructor at its end, no listener    *)
(* left to run and no Cancel half done, a collection that is not done has  *)
(* a member that is not, and none that failed or was cancelled in time.    *)
AtRest ==
  /\ next = N + 1 /\ flagging = {}
  /\ \A m \in Members : lpc[m] = "finished" \/ (lpc[m] = "idle" /\ member[m].started[m] = 0)

DoneAtRest ==
  AtRest /\ ~ cf.done =>
    /\ \E m \in Members : ~ member[m].done
    /\ \A m \in Members : member[m].err = NoError /\ (member[m].cancelled => member[m].done)

(* No interleaving of the counter, of late listeners and of cancellations  *)
(* leaves a waiter of the collection behind.                               *)
THEOREM NobodyIsLeftWaiting == CollectionSpec => []DoneAtRest
<1>1. CollectionInit => MembersOK /\ WaitingOK
  BY MemberNewFields DEF CollectionInit, MembersOK, WaitingOK, Members, MemberCell!NewFuture
<1>2. CollectionInv /\ MembersOK /\ WaitingOK => DoneAtRest
  <2> SUFFICES ASSUME CollectionInv, MembersOK, WaitingOK, AtRest, ~ cf.done
               PROVE  /\ \E m \in Members : ~ member[m].done
                      /\ \A m \in Members : /\ member[m].err = NoError
                                            /\ member[m].cancelled => member[m].done
    BY DEF DoneAtRest
  <2> USE CollectionAssumption
  <2>1. \A m \in Members : m < next /\ next # 0
    BY DEF AtRest, Members
  <2>2. ASSUME NEW m \in Members, member[m].done
        PROVE  lpc[m] = "finished" /\ member[m].err = NoError
    <3>1. member[m].started[m] \in Nat
      BY DEF CollectionInv, CollectionTypeOK, MemberCell!FutureCells
    <3> QED BY <2>1, <2>2, <3>1 DEF AtRest, MembersOK
  <2>3. ASSUME \A m \in Members : member[m].done PROVE FALSE
    <3>1. \A m \in Members : lpc[m] = "finished"
      BY <2>2, <2>3
    <3>2. Uncounted = {} /\ next # 0
      BY <3>1 DEF Uncounted, AtRest
    <3>3. counter = 0
      BY <3>2, FS_EmptySet DEF WaitingOK
    <3> QED BY <3>1, <3>2, <3>3 DEF WaitingOK
  <2>4. \A m \in Members : ~ member[m].done => member[m].err = NoError /\ ~ member[m].cancelled
    BY DEF AtRest, MembersOK, CollectionInv, StartedOK
  <2> QED BY <2>2, <2>3, <2>4
<1> QED BY <1>1, <1>2, NextMembersOK, NextWaitingOK, SpecCollectionInv, PTL DEF CollectionSpec
============================================================================
