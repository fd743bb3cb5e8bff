------------------------- MODULE CollectionFuture -------------------------
(***************************************************************************)
(* channel.CollectionFuture (src/channel/future.go): the goroutine that    *)
(* builds it, the goroutines of the listeners it adds to its members, and  *)
(* whoever completes the members.  The members are the futures 1 .. N in   *)
(* the order of the slice; member m fails with the error m.                *)
(***************************************************************************)
EXTENDS Integers, FiniteSets

CONSTANTS
  N,          (* The number of members.                                *)
  NoError,    (* The nil error.                                        *)
  CanCancel   (* Whether members are ever cancelled.                   *)

ASSUME CollectionAssumption ==
  /\ N \in Nat
  /\ NoError \notin 1 .. N
  /\ CanCancel \in BOOLEAN

Members == 1 .. N

MemberCell == INSTANCE FutureCell WITH Listeners <- Members, NoErr <- NoError

VARIABLES
  member,     (* The futures that are aggregated.                           *)
  cf,         (* The embedded future of the collection.                     *)
  counter,    (* The atomic counter of members still to succeed.            *)
  next,       (* The member the constructor adds its listener to next; 0    *)
              (* before counter.Store.                                      *)
  lpc,        (* Where the listener goroutine of each member is.            *)
  failedBy,   (* The listeners whose SetFailure returned true.              *)
  flagging    (* The members with a Cancel between its swap and its lock.   *)

cvars == <<member, cf, counter, next, lpc, failedBy, flagging>>

CollectionInit ==
  /\ member = [m \in Members |-> MemberCell!NewFuture]
  /\ cf = MemberCell!NewFuture
  /\ counter = 0
  /\ next = 0
  /\ lpc = [m \in Members |-> "idle"]
  /\ failedBy = {}
  /\ flagging = {}

-----------------------------------------------------------------------------
(* The members are completed by their owners, before, during and after the *)
(* construction of the collection.                                         *)
MemberSucceeds(m) ==
  /\ ~ member[m].done
  /\ member' = [member EXCEPT ![m] = MemberCell!Succeeded(@)]
  /\ UNCHANGED <<cf, counter, next, lpc, failedBy, flagging>>

MemberFails(m) ==
  /\ ~ member[m].done
  /\ member' = [member EXCEPT ![m] = MemberCell!Failed(@, m)]
  /\ UNCHANGED <<cf, counter, next, lpc, failedBy, flagging>>

MemberCancelFlag(m) ==
  /\ CanCancel
  /\ ~ member[m].cancelled
  /\ member' = [member EXCEPT ![m].cancelled = TRUE]
  /\ flagging' = flagging \cup {m}
  /\ UNCHANGED <<cf, counter, next, lpc, failedBy>>

MemberCancelLocked(m) ==
  /\ m \in flagging
  /\ member' = [member EXCEPT ![m] = MemberCell!CancelledNow(@)]
  /\ flagging' = flagging \ {m}
  /\ UNCHANGED <<cf, counter, next, lpc, failedBy>>

-----------------------------------------------------------------------------
(* NewCollectionFuture: counter.Store, then one AddListener per member.    *)
(* StoreTooSmall is a mutant that counts one member too few.               *)
StoreTooSmall ==
  /\ next = 0
  /\ next' = 1
  /\ counter' = N - 1
  /\ UNCHANGED <<member, cf, lpc, failedBy, flagging>>

StoreCounter ==
  /\ next = 0
  /\ next' = 1
  /\ counter' = N
  /\ cf' = IF N = 0 THEN MemberCell!Succeeded(cf) ELSE cf
  /\ UNCHANGED <<member, lpc, failedBy, flagging>>

ListenToNext ==
  /\ next \in Members
  /\ member' = [member EXCEPT ![next] = MemberCell!Listening(@, next)]
  /\ next' = next + 1
  /\ UNCHANGED <<cf, counter, lpc, failedBy, flagging>>

(* The listener of member m: future.IsSuccess(), then the counter and      *)
(* SetSuccess, or SetFailure(future.Cause()).                              *)
Look(m) ==
  /\ lpc[m] = "idle"
  /\ member[m].started[m] > 0
  /\ lpc' = [lpc EXCEPT ![m] = IF MemberCell!IsSuccess(member[m]) THEN "counting" ELSE "failing"]
  /\ UNCHANGED <<member, cf, counter, next, failedBy, flagging>>

CountDown(m) ==
  /\ lpc[m] = "counting"
  /\ counter' = counter - 1
  /\ lpc' = [lpc EXCEPT ![m] = IF counter' = 0 THEN "succeeding" ELSE "finished"]
  /\ UNCHANGED <<member, cf, next, failedBy, flagging>>

CollectionSucceeds(m) ==
  /\ lpc[m] = "succeeding"
  /\ cf' = MemberCell!Succeeded(cf)
  /\ lpc' = [lpc EXCEPT ![m] = "finished"]
  /\ UNCHANGED <<member, counter, next, failedBy, flagging>>

(* A mutant that ignores the failure of a member. *)
FailureIgnored(m) ==
  /\ lpc[m] = "failing"
  /\ lpc' = [lpc EXCEPT ![m] = "finished"]
  /\ UNCHANGED <<member, cf, counter, next, failedBy, flagging>>

CollectionFails(m) ==
  /\ lpc[m] = "failing"
  /\ cf' = MemberCell!Failed(cf, member[m].err)
  /\ failedBy' = IF cf.done THEN failedBy ELSE failedBy \cup {m}
  /\ lpc' = [lpc EXCEPT ![m] = "finished"]
  /\ UNCHANGED <<member, counter, next, flagging>>

-----------------------------------------------------------------------------
Owner(m) == MemberSucceeds(m) \/ MemberFails(m) \/ MemberCancelFlag(m)
Constructor == StoreCounter \/ ListenToNext
Listener(m) == Look(m) \/ CountDown(m) \/ CollectionSucceeds(m) \/ CollectionFails(m)

CollectionNext ==
  \/ Constructor
  \/ \E m \in Members : Owner(m) \/ MemberCancelLocked(m) \/ Listener(m)

CollectionSpec == CollectionInit /\ [][CollectionNext]_cvars

(* Goroutines that can run are scheduled; the owners owe nothing. *)
CollectionFairness ==
  /\ WF_cvars(Constructor)
  /\ \A m \in Members : WF_cvars(MemberCancelLocked(m)) /\ WF_cvars(Listener(m))

CollectionFairSpec == CollectionSpec /\ CollectionFairness

-----------------------------------------------------------------------------
CollectionTypeOK ==
  /\ member \in [Members -> MemberCell!FutureCells(Members)]
  /\ cf \in MemberCell!FutureCells(Members)
  /\ counter \in 0 .. N
  /\ next \in 0 .. N + 1
  /\ lpc \in [Members -> {"idle", "counting", "succeeding", "failing", "finished"}]
  /\ failedBy \subseteq Members
  /\ flagging \subseteq Members

(* What a caller of the collection sees is true of its members.  Listeners *)
(* may run while the constructor is still adding others, so the counter is *)
(* stored before the first is added: a collection whose IsSuccess() is     *)
(* true has seen every member succeed, or was completed by the listener of *)
(* a member that was cancelled, which hands the nil Cause() of its member  *)
(* to SetFailure.  A Cause() that is not nil is that of a member, and the  *)
(* first failure stays: none replaces it, nor a success counted at the     *)
(* same time.                                                              *)
OutcomeIsTheMembers ==
  /\ MemberCell!IsSuccess(cf) =>
       \/ \A m \in Members : member[m].done /\ member[m].err = NoError
       \/ \E m \in failedBy : member[m].cancelled /\ member[m].err = NoError
  /\ cf.err # NoError => \E m \in Members : member[m].done /\ member[m].err = cf.err
  /\ \A m \in failedBy : cf.done /\ cf.err = member[m].err /\ failedBy = {m}

(* The collection completes once every member has, and as soon as one of   *)
(* them fails or is cancelled before it is done: no interleaving of the    *)
(* counter, of the late listeners and of the cancellations leaves a waiter *)
(* behind.                                                                 *)
CollectionCompletes ==
  (\/ \A m \in Members : member[m].done
   \/ \E m \in Members : member[m].err # NoError \/ (member[m].cancelled /\ ~ member[m].done))
  ~> cf.done
=============================================================================
