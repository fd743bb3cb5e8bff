---------------------------- MODULE FutureCell ----------------------------
(***************************************************************************)
(* The data of channel.Future: the fields of the struct as a record, and   *)
(* the effect of each critical section of future.go as an operator from    *)
(* records to records.  Future, CollectionFuture and the components that   *)
(* complete futures share these operators.                                 *)
(*                                                                         *)
(* started[l] counts the goroutines launched with `go listener(f)' for the *)
(* listener l.  The order of the listeners slice is abstracted to a set:   *)
(* every listener runs in a goroutine of its own, so the order in which    *)
(* they are launched is not observable.                                    *)
(***************************************************************************)
EXTENDS Naturals

CONSTANTS
  Listeners,  (* The callbacks that are ever registered.            *)
  NoErr       (* The nil error.                                     *)

NewFuture ==
  [ done      |-> FALSE,
    err       |-> NoErr,
    cancelled |-> FALSE,
    listeners |-> {},
    started   |-> [l \in Listeners |-> 0] ]

NewFailedFuture(e) == [NewFuture EXCEPT !.done = TRUE, !.err = e]

FutureCells(Errors) ==
  [ done      : BOOLEAN,
    err       : Errors \cup {NoErr},
    cancelled : BOOLEAN,
    listeners : SUBSET Listeners,
    started   : [Listeners -> Nat] ]

IsSuccess(f) == f.done /\ f.err = NoErr /\ ~ f.cancelled

Launch(f, L) ==
  [f EXCEPT !.started = [l \in Listeners |->
                           IF l \in L THEN f.started[l] + 1 ELSE f.started[l]]]

(* close(f.done) followed by notifyListeners, under f.mu. *)
CloseNoNotify(f) == [f EXCEPT !.done = TRUE]
CloseDone(f) == Launch([f EXCEPT !.done = TRUE], f.listeners)

(* The critical sections.  Each returns TRUE to its caller iff ~ f.done. *)
SucceededTwice(f) == CloseDone(f)
Succeeded(f) == IF f.done THEN f ELSE CloseDone(f)

FailedAnyway(f, e) == CloseDone([f EXCEPT !.err = e])
Failed(f, e) == IF f.done THEN f ELSE CloseDone([f EXCEPT !.err = e])

CancelledNow(f) == IF f.done THEN f ELSE CloseDone(f)

ListeningLost(f, l) == [f EXCEPT !.listeners = @ \cup {l}]
Listening(f, l) ==
  IF f.done THEN Launch(f, {l}) ELSE [f EXCEPT !.listeners = @ \cup {l}]
===========================================================================
