------------------------------ MODULE Future ------------------------------
(***************************************************************************)
(* channel.Future and channel.CallableFuture (src/channel/future.go): one  *)
(* future shared by goroutines that complete it, goroutines that listen to *)
(* it and goroutines that wait for it.                                     *)
(*                                                                         *)
(* A section between f.mu.Lock and its deferred Unlock is one step.  What  *)
(* the code does outside the lock is a step of its own: the store of       *)
(* SetSuccessWithValue and the compare-and-swap of Cancel both come before *)
(* the lock is taken, so other goroutines run between them and the rest of *)
(* the call.  Each caller makes one call; its name is also the error or    *)
(* the value it passes.                                                    *)
(***************************************************************************)
EXTENDS FutureCell

CONSTANTS
  Callers,    (* Goroutines that complete or cancel the future.   *)
  Readers,    (* Goroutines that call Get or GetTimeout.          *)
  InitErr,    (* The error of a future made by NewFailedFuture.   *)
  NoValue     (* The zero value of T.                             *)

Errors == Callers \cup {InitErr}

ASSUME FutureAssumption ==
  /\ NoErr \notin Errors
  /\ InitErr \notin Callers
  /\ NoValue \notin Callers

VARIABLES
  fut,        (* The future.                                               *)
  value,      (* CallableFuture.value.                                     *)
  pc,         (* Where each caller is.                                     *)
  call,       (* The method each caller called.                            *)
  ret,        (* The callers whose call returned true.                     *)
  added,      (* The listeners passed to AddListener.                      *)
  ran,        (* How many goroutines of each listener have run.            *)
  pleased,    (* The listeners that found IsSuccess() when they ran.       *)
  rpc,        (* Where each reader is.                                     *)
  got         (* The value each reader got.                                *)

vars == <<fut, value, pc, call, ret, added, ran, pleased, rpc, got>>
lvars == <<added, ran, pleased>>
rvars == <<rpc, got>>

-----------------------------------------------------------------------------
Init ==
  /\ fut \in {NewFuture, NewFailedFuture(InitErr)}
  /\ value = NoValue
  /\ pc = [c \in Callers |-> "idle"]
  /\ call = [c \in Callers |-> "none"]
  /\ ret = {}
  /\ added = {}
  /\ ran = [l \in Listeners |-> 0]
  /\ pleased = {}
  /\ rpc = [r \in Readers |-> "waiting"]
  /\ got = [r \in Readers |-> NoValue]

-----------------------------------------------------------------------------
(* A caller's call ends by returning true iff the future was not done. *)
Return(c) ==
  /\ pc' = [pc EXCEPT ![c] = "returned"]
  /\ ret' = IF fut.done THEN ret ELSE ret \cup {c}

SetSuccess(c) ==
  /\ pc[c] = "idle"
  /\ call' = [call EXCEPT ![c] = "success"]
  /\ fut' = Succeeded(fut)
  /\ Return(c)
  /\ UNCHANGED <<value, lvars, rvars>>

(* SetFailure(nil) is legal and happens: see CollectionFuture. *)
SetFailure(c) ==
  /\ pc[c] = "idle"
  /\ \E e \in {c, NoErr} :
       /\ call' = [call EXCEPT ![c] = IF e = NoErr THEN "failure(nil)" ELSE "failure"]
       /\ fut' = Failed(fut, e)
  /\ Return(c)
  /\ UNCHANGED <<value, lvars, rvars>>

(* SetSuccessWithValue: `f.value = value', then SetSuccess.                *)
(* ValueForgotten is a mutant that does not store.                         *)
ValueForgotten(c) ==
  /\ pc[c] = "idle"
  /\ pc' = [pc EXCEPT ![c] = "stored"]
  /\ call' = [call EXCEPT ![c] = "value"]
  /\ UNCHANGED <<fut, value, ret, lvars, rvars>>

StoreValue(c) ==
  /\ pc[c] = "idle"
  /\ pc' = [pc EXCEPT ![c] = "stored"]
  /\ call' = [call EXCEPT ![c] = "value"]
  /\ value' = c
  /\ UNCHANGED <<fut, ret, lvars, rvars>>

SetSuccessStored(c) ==
  /\ pc[c] = "stored"
  /\ fut' = Succeeded(fut)
  /\ Return(c)
  /\ UNCHANGED <<value, call, lvars, rvars>>

(* Cancel: cancelled.CompareAndSwap(false, true), and the locked section   *)
(* only when it swapped.  CancelFlagLost is a mutant that sets no flag.    *)
CancelFlagLost(c) ==
  /\ pc[c] = "idle"
  /\ call' = [call EXCEPT ![c] = "cancel"]
  /\ pc' = [pc EXCEPT ![c] = "flagged"]
  /\ UNCHANGED <<fut, value, ret, lvars, rvars>>

CancelFlag(c) ==
  /\ pc[c] = "idle"
  /\ call' = [call EXCEPT ![c] = "cancel"]
  /\ pc' = [pc EXCEPT ![c] = IF fut.cancelled THEN "returned" ELSE "flagged"]
  /\ fut' = [fut EXCEPT !.cancelled = TRUE]
  /\ UNCHANGED <<value, ret, lvars, rvars>>

CancelLocked(c) ==
  /\ pc[c] = "flagged"
  /\ fut' = CancelledNow(fut)
  /\ Return(c)
  /\ UNCHANGED <<value, call, lvars, rvars>>

-----------------------------------------------------------------------------
AddListener(l) ==
  /\ l \notin added
  /\ added' = added \cup {l}
  /\ fut' = Listening(fut, l)
  /\ UNCHANGED <<value, pc, call, ret, ran, pleased, rvars>>

(* One of the goroutines started for l runs: it looks at the future. *)
RunListener(l) ==
  /\ ran[l] < fut.started[l]
  /\ ran' = [ran EXCEPT ![l] = @ + 1]
  /\ pleased' = IF IsSuccess(fut) THEN pleased \cup {l} ELSE pleased
  /\ UNCHANGED <<fut, value, pc, call, ret, added, rvars>>

(* <-f.done stays readable once it is closed, so the wait and the read of  *)
(* the value that follows it are one step, taken when the value is read.   *)
Get(r) ==
  /\ rpc[r] = "waiting"
  /\ fut.done
  /\ rpc' = [rpc EXCEPT ![r] = "answered"]
  /\ got' = [got EXCEPT ![r] = value]
  /\ UNCHANGED <<fut, value, pc, call, ret, lvars>>

(* The timeout branch of AwaitTimeout: GetTimeout returns the zero value.  *)
(* time.After may be ready together with f.done; select then picks either. *)
GetTimesOut(r) ==
  /\ rpc[r] = "waiting"
  /\ rpc' = [rpc EXCEPT ![r] = "timedOut"]
  /\ UNCHANGED <<fut, value, pc, call, ret, lvars, got>>

-----------------------------------------------------------------------------
Continue(c) == SetSuccessStored(c) \/ CancelLocked(c)

Next ==
  \/ \E c \in Callers :
       SetSuccess(c) \/ SetFailure(c) \/ StoreValue(c) \/ CancelFlag(c) \/ Continue(c)
  \/ \E l \in Listeners : AddListener(l) \/ RunListener(l)
  \/ \E r \in Readers : Get(r) \/ GetTimesOut(r)

Spec == Init /\ [][Next]_vars

(* A goroutine that can run is eventually scheduled; nobody is obliged to  *)
(* start a call.                                                           *)
Fairness ==
  /\ \A c \in Callers : WF_vars(Continue(c))
  /\ \A l \in Listeners : WF_vars(RunListener(l))
  /\ \A r \in Readers : WF_vars(Get(r))

FairSpec == Spec /\ Fairness

-----------------------------------------------------------------------------
TypeOK ==
  /\ fut \in FutureCells(Errors)
  /\ value \in Callers \cup {NoValue}
  /\ pc \in [Callers -> {"idle", "stored", "flagged", "returned"}]
  /\ call \in [Callers -> {"none", "success", "value", "failure", "failure(nil)", "cancel"}]
  /\ ret \subseteq Callers
  /\ added \subseteq Listeners
  /\ ran \in [Listeners -> Nat]
  /\ pleased \subseteq Listeners
  /\ rpc \in [Readers -> {"waiting", "answered", "timedOut"}]
  /\ got \in [Readers -> Callers \cup {NoValue}]

(* However the five completing methods interleave, exactly one call        *)
(* returns true, the future is done from then on and not before (unless it *)
(* was made failed), and Cause() is what that one call passed.             *)
SettledByOneCall ==
  /\ \A c, d \in ret : c = d
  /\ fut.done <=> (ret # {} \/ fut.err = InitErr)
  /\ \A c \in ret : fut.err = IF call[c] = "failure" THEN c ELSE NoErr

(* A listener added before, during or after the completion is started once *)
(* for it: the check and the append of AddListener cannot miss the close   *)
(* of SetSuccess, SetFailure and Cancel, nor be served by both.            *)
NotifiedOnce ==
  \A l \in Listeners : fut.started[l] = IF l \in added /\ fut.done THEN 1 ELSE 0

(* Cancel sets the flag before it closes the channel, so nobody who was    *)
(* woken by a Cancel that returned true can take it for a success.         *)
CancelIsSeen ==
  \A c \in ret : call[c] = "cancel" => pleased = {}

(* The value is stored before the channel is closed, so Get never returns  *)
(* the zero value of a future that SetSuccessWithValue completed.          *)
GetFindsAValue ==
  \A c \in ret, r \in Readers :
    call[c] = "value" /\ rpc[r] = "answered" => got[r] # NoValue

(* Whoever is woken by the call that completes the future sees all that    *)
(* the call has done, although part of it is done outside the lock.        *)
OutcomeIsVisible == CancelIsSeen /\ GetFindsAValue

(* What the future promises, whichever method completes it.  The outcome   *)
(* is <<>> until it settles and <<Cause()>> from then on.                  *)
P == INSTANCE Promise
       WITH Outcomes <- { <<e>> : e \in Errors \cup {NoErr} },
            Pending <- <<>>,
            outcome <- IF fut.done THEN <<fut.err>> ELSE <<>>,
            waiting <- {l \in added : ran[l] = 0},
            told    <- {l \in Listeners : ran[l] > 0}

(* No interleaving changes an outcome once it is settled, and a listener   *)
(* runs only when it is: the safety part, for the proof.                   *)
KeepsPromise == P!Spec

(* And every listener that was added runs once the future settles.  Nobody *)
(* is obliged to complete a future, hence the fairness of Tell alone.      *)
KeepsPromiseFairly == P!FairSpec
=============================================================================
