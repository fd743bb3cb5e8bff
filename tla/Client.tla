------------------------------- MODULE Client -------------------------------
(***************************************************************************)
(* ClientChannelManager (src/channel/client.go) and the manager built on   *)
(* it that reconnects, PersistentClientChannelManager                      *)
(* (src/channel/persistent_client.go): concurrent calls of ConnectAddr,    *)
(* all to one address, with the goroutine each starts, and one Stop.       *)
(*                                                                         *)
(* A call has at most one connection at a time, so the connection goes by  *)
(* the name of its call.  What the dialer and the handlers return is       *)
(* chosen freely.  The counter of the group, which Server models, is left  *)
(* out, and so are OnDisconnected handlers that fail.                      *)
(***************************************************************************)
EXTENDS Integers

CONSTANTS
  Calls,        (* Calls of ConnectAddr.                            *)
  ReconnCounts, (* The values given to SetReconnCount.              *)
  MaxDials      (* The bound of the history variable dials.         *)

ASSUME ClientAssumption == ReconnCounts \subseteq Int /\ MaxDials \in Nat

VARIABLES
  persistent,  (* The manager is a PersistentClientChannelManager.       *)
  grouped,     (* UseChannelGroup(true).                                 *)
  pipeline,    (* UsePipeline(true).                                     *)
  reconnCount, (* reconnCount.                                           *)
  state,       (* AbstractStartable.state.                               *)
  down,        (* Where Stop is; it holds the lifecycle lock meanwhile.  *)
  stopped,     (* stopCh is closed.                                      *)
  wg,          (* Those wg.Add has counted and wg.Done has not.          *)
  claimed,     (* The address is in activeConns.                         *)
  pc,          (* Where the goroutine of each call is.                   *)
  future,      (* The future each call returned.                         *)
  left,        (* attemptsLeft.                                          *)
  open,        (* Sockets that are connected and not closed here.        *)
  members,     (* The connections in the group.                          *)
  early,       (* History: the members when the group's Close began.     *)
  dials        (* History: how often each call has dialled, to MaxDials. *)

config == <<persistent, grouped, pipeline, reconnCount>>
stopping == <<state, down, early>>
vars == <<config, stopping, stopped, wg, claimed, pc, future, left, open, members, dials>>

(* Goroutines that dial or have a connection. *)
Connecting == {"dialing", "joining", "connected", "counting", "reading"}

Init ==
  /\ persistent \in BOOLEAN
  /\ grouped \in BOOLEAN
  /\ pipeline \in BOOLEAN
  /\ reconnCount \in ReconnCounts
  /\ persistent => reconnCount = -1
  /\ state = "READY"
  /\ down = "none"
  /\ stopped = FALSE
  /\ wg = {}
  /\ claimed = FALSE
  /\ pc = [p \in Calls |-> "idle"]
  /\ future = [p \in Calls |-> "none"]
  /\ left = [p \in Calls |-> 0]
  /\ open = {}
  /\ members = {}
  /\ early = {}
  /\ dials = [p \in Calls |-> 0]

Goto(p, from, to) ==
  /\ pc[p] = from
  /\ pc' = [pc EXCEPT ![p] = to]

Answer(p, with) == future' = [future EXCEPT ![p] = with]

-----------------------------------------------------------------------------
Start ==
  /\ state = "READY"
  /\ state' = "RUNNING"
  /\ UNCHANGED <<config, down, early, stopped, wg, claimed, pc, future, left, open, members, dials>>

(* ClientChannelManager.ConnectAddr looks at the state, which waits for a  *)
(* Stop that is under way, and starts the goroutine afterwards.            *)
ConnectOnce(p) ==
  /\ ~persistent
  /\ down \in {"none", "returned"}
  /\ IF state = "RUNNING"
     THEN Goto(p, "idle", "checking") /\ Answer(p, "pending")
     ELSE Goto(p, "idle", "done") /\ Answer(p, "invalid")
  /\ left' = [left EXCEPT ![p] = reconnCount]
  /\ UNCHANGED <<config, stopping, stopped, wg, claimed, open, members, dials>>

(* PersistentClientChannelManager.ConnectAddr does not look at the state.  *)
ConnectPersistently(p) ==
  /\ persistent
  /\ Goto(p, "idle", "claiming")
  /\ Answer(p, "pending")
  /\ UNCHANGED <<config, stopping, stopped, wg, claimed, left, open, members, dials>>

(* activeConns.LoadOrStore.  ClaimAnyway is a mutant that does not give up *)
(* when the address was there.                                             *)
ClaimAnyway(p) ==
  /\ Goto(p, "claiming", "checking")
  /\ future' = future
  /\ claimed' = TRUE
  /\ UNCHANGED <<config, stopping, stopped, wg, left, open, members, dials>>

Claim(p) ==
  /\ IF claimed
     THEN Goto(p, "claiming", "done") /\ Answer(p, "already")
     ELSE Goto(p, "claiming", "checking") /\ future' = future
  /\ claimed' = TRUE
  /\ UNCHANGED <<config, stopping, stopped, wg, left, open, members, dials>>

-----------------------------------------------------------------------------
(* The check of stopCh finds it open, and dial is called.                  *)
Dial(p) ==
  /\ ~stopped
  /\ Goto(p, "checking", "dialing")
  /\ dials' = [dials EXCEPT ![p] = IF @ < MaxDials THEN @ + 1 ELSE @]
  /\ UNCHANGED <<config, stopping, stopped, wg, claimed, future, left, open, members>>

(* dial returned an error: no connection, or one that was closed again     *)
(* because a socket option, the handshake or OnConnected failed.           *)
(* DialFailsOften is a mutant that tries once more than it was told.       *)
DialFailsOften(p) ==
  /\ IF ~persistent /\ left[p] = -1
     THEN Goto(p, "dialing", "done") /\ Answer(p, "failed")
     ELSE Goto(p, "dialing", "waiting") /\ future' = future
  /\ left' = [left EXCEPT ![p] = @ - 1]
  /\ UNCHANGED <<config, stopping, stopped, wg, claimed, open, members, dials>>

DialFails(p) ==
  /\ IF ~persistent /\ left[p] = 0
     THEN Goto(p, "dialing", "done") /\ Answer(p, "failed")
     ELSE Goto(p, "dialing", "waiting") /\ future' = future
  /\ left' = [left EXCEPT ![p] = IF @ > 0 THEN @ - 1 ELSE @]
  /\ UNCHANGED <<config, stopping, stopped, wg, claimed, open, members, dials>>

DialTimesOut(p) ==
  /\ IF persistent
     THEN Goto(p, "dialing", "waiting") /\ future' = future
     ELSE Goto(p, "dialing", "done") /\ Answer(p, "timeout")
  /\ UNCHANGED <<config, stopping, stopped, wg, claimed, left, open, members, dials>>

(* The connection is there.  In legacy mode dial also calls OnConnected,   *)
(* last of all the group's.                                                *)
Dialled(p) ==
  /\ Goto(p, "dialing", IF grouped /\ ~pipeline THEN "joining" ELSE "connected")
  /\ open' = open \cup {p}
  /\ UNCHANGED <<config, stopping, stopped, wg, claimed, future, left, members, dials>>

Join(p) ==
  /\ Goto(p, "joining", IF pipeline THEN "reading" ELSE "connected")
  /\ members' = members \cup {p}
  /\ UNCHANGED <<config, stopping, stopped, wg, claimed, future, left, open, dials>>

Handle == IF grouped /\ pipeline THEN "joining" ELSE "reading"

(* SetConn and SetSuccess, at the first connection of the call.            *)
(* ConnectedTooLate is a mutant that answers with an error after a Stop    *)
(* but keeps the connection.                                               *)
ConnectedTooLate(p) ==
  /\ Goto(p, "connected", IF persistent THEN Handle ELSE "counting")
  /\ Answer(p, IF stopped THEN "stopped" ELSE "succeeded")
  /\ UNCHANGED <<config, stopping, stopped, wg, claimed, left, open, members, dials>>

Connected(p) ==
  /\ Goto(p, "connected", IF persistent THEN Handle ELSE "counting")
  /\ Answer(p, "succeeded")
  /\ UNCHANGED <<config, stopping, stopped, wg, claimed, left, open, members, dials>>

(* wg.Add and the goroutine of handleConnection; the persistent manager    *)
(* has neither.                                                            *)
Count(p) ==
  /\ Goto(p, "counting", Handle)
  /\ wg' = wg \cup {p}
  /\ UNCHANGED <<config, stopping, stopped, claimed, future, left, open, members, dials>>

(* The connection ends: OnDisconnected, last the group's, then Close and   *)
(* wg.Done.  In pipeline mode OnConnected may have failed.                 *)
(* EndUncounted is a mutant that forgets wg.Done.                          *)
EndUncounted(p) ==
  /\ pc[p] = "reading" \/ (pc[p] = "joining" /\ pipeline)
  /\ pc' = [pc EXCEPT ![p] = IF persistent THEN "waiting" ELSE "done"]
  /\ members' = members \ {p}
  /\ open' = open \ {p}
  /\ UNCHANGED <<config, stopping, stopped, wg, claimed, future, left, dials>>

End(p) ==
  /\ pc[p] = "reading" \/ (pc[p] = "joining" /\ pipeline)
  /\ pc' = [pc EXCEPT ![p] = IF persistent THEN "waiting" ELSE "done"]
  /\ members' = members \ {p}
  /\ open' = open \ {p}
  /\ wg' = wg \ {p}
  /\ UNCHANGED <<config, stopping, stopped, claimed, future, left, dials>>

(* The interval before the next attempt is over.                           *)
(* RetryUntilConnected is a mutant that does not reconnect.                *)
RetryUntilConnected(p) ==
  /\ future[p] = "pending"
  /\ Goto(p, "waiting", "checking")
  /\ UNCHANGED <<config, stopping, stopped, wg, claimed, future, left, open, members, dials>>

Retry(p) ==
  /\ Goto(p, "waiting", "checking")
  /\ UNCHANGED <<config, stopping, stopped, wg, claimed, future, left, open, members, dials>>

(* One of the checks of stopCh finds it closed.                            *)
(* SeeStopSilently is a mutant that does not answer the call.              *)
SeeStopSilently(p) ==
  /\ stopped
  /\ pc[p] \in {"checking", "waiting"}
  /\ pc' = [pc EXCEPT ![p] = IF persistent THEN "releasing" ELSE "done"]
  /\ UNCHANGED <<config, stopping, stopped, wg, claimed, future, left, open, members, dials>>

SeeStop(p) ==
  /\ stopped
  /\ pc[p] \in {"checking", "waiting"}
  /\ pc' = [pc EXCEPT ![p] = IF persistent THEN "releasing" ELSE "done"]
  /\ future' = [future EXCEPT ![p] = IF @ = "pending" THEN "stopped" ELSE @]
  /\ UNCHANGED <<config, stopping, stopped, wg, claimed, left, open, members, dials>>

(* activeConns.Delete, and once more by the deferred call when isInitial   *)
(* was reset.                                                              *)
Release(p) ==
  /\ Goto(p, "releasing", IF future[p] = "succeeded" THEN "deferred" ELSE "done")
  /\ claimed' = FALSE
  /\ UNCHANGED <<config, stopping, stopped, wg, future, left, open, members, dials>>

ReleaseAgain(p) ==
  /\ Goto(p, "deferred", "done")
  /\ claimed' = FALSE
  /\ UNCHANGED <<config, stopping, stopped, wg, future, left, open, members, dials>>

-----------------------------------------------------------------------------
Stop ==
  /\ state = "RUNNING"
  /\ state' = "TERMINATED"
  /\ down' = "signalling"
  /\ UNCHANGED <<config, early, stopped, wg, claimed, pc, future, left, open, members, dials>>

TearDown(from, to) ==
  /\ down = from
  /\ down' = to
  /\ UNCHANGED <<config, state, wg, claimed, pc, future, left, dials>>

CloseStopCh ==
  /\ TearDown("signalling", IF grouped THEN "grouping" ELSE "waiting")
  /\ stopped' = TRUE
  /\ UNCHANGED <<early, open, members>>

(* ChannelGroup.Close; see Server.                                         *)
CloseBegins ==
  /\ TearDown("grouping", "ranging")
  /\ early' = members
  /\ UNCHANGED <<stopped, open, members>>

CloseConn(p) ==
  /\ TearDown("ranging", "ranging")
  /\ p \in members
  /\ open' = open \ {p}
  /\ members' = members \ {p}
  /\ UNCHANGED <<stopped, early>>

CloseEnds ==
  /\ members \cap early = {}
  /\ TearDown("ranging", "waiting")
  /\ UNCHANGED <<stopped, early, open, members>>

Wait ==
  /\ wg = {}
  /\ TearDown("waiting", "returned")
  /\ UNCHANGED <<stopped, early, open, members>>

-----------------------------------------------------------------------------
Connect(p) == ConnectOnce(p) \/ ConnectPersistently(p)

(* What a goroutine does that is not waiting for its peer. *)
Run(p) ==
  \/ Claim(p) \/ Dial(p)
  \/ DialFails(p) \/ DialTimesOut(p) \/ Dialled(p)
  \/ Join(p) \/ Connected(p) \/ Count(p)
  \/ (p \notin open /\ End(p))
  \/ Retry(p) \/ SeeStop(p) \/ Release(p) \/ ReleaseAgain(p)

Teardown ==
  CloseStopCh \/ CloseBegins \/ (\E p \in Calls : CloseConn(p)) \/ CloseEnds \/ Wait

Next ==
  \/ Start \/ Stop \/ Teardown
  \/ \E p \in Calls : Connect(p) \/ Run(p) \/ End(p)

Spec == Init /\ [][Next]_vars

(* Goroutines are scheduled, intervals pass, and dial, its handshake and   *)
(* the handlers return.  A connection need not end unless it is closed.    *)
Fairness == WF_vars(Teardown) /\ \A p \in Calls : WF_vars(Run(p))

FairSpec == Spec /\ Fairness

-----------------------------------------------------------------------------
TypeOK ==
  /\ persistent \in BOOLEAN
  /\ grouped \in BOOLEAN
  /\ pipeline \in BOOLEAN
  /\ reconnCount \in ReconnCounts
  /\ state \in {"READY", "RUNNING", "TERMINATED"}
  /\ down \in {"none", "signalling", "grouping", "ranging", "waiting", "returned"}
  /\ stopped \in BOOLEAN
  /\ wg \subseteq Calls
  /\ claimed \in BOOLEAN
  /\ pc \in [Calls -> {"idle", "claiming", "checking", "waiting", "releasing", "deferred", "done"}
                        \cup Connecting]
  /\ future \in [Calls -> {"none", "pending", "succeeded", "invalid", "already", "failed",
                           "timeout", "stopped"}]
  /\ left \in [Calls -> ReconnCounts \cup Nat]
  /\ open \subseteq Calls
  /\ members \subseteq Calls
  /\ early \subseteq Calls
  /\ dials \in [Calls -> Nat]

(* activeConns keeps the connections of a persistent client to an address  *)
(* to one: never do two loops dial it or serve a connection, although the  *)
(* second Delete of a loop that ends may release the claim of another one. *)
(* The calls are its own Connect and ConnectAddr: ConnectSync is that of   *)
(* the plain client, which asks no activeConns.                            *)
OneConnectionPerAddress ==
  persistent => \A p, q \in Calls : pc[p] \in Connecting /\ pc[q] \in Connecting => p = q

(* The number of attempts is exactly what SetReconnCount asks for: a call  *)
(* never dials more than once and reconnCount times again, and fails with  *)
(* the dialer's error only after as many, whatever Stop does meanwhile.    *)
RetryBudgetIsKept ==
  ~persistent /\ reconnCount >= 0 /\ reconnCount < MaxDials =>
    \A p \in Calls :
      /\ dials[p] <= reconnCount + 1
      /\ future[p] = "failed" => dials[p] = reconnCount + 1

(* A call that was answered with an error has left no connection open and  *)
(* none in the group, and a call that succeeded was never refused.         *)
ErrorsLeaveNothingOpen ==
  \A p \in Calls :
    future[p] \notin {"pending", "succeeded"} => p \notin open \cup members \cup wg

(* A ConnectAddr is answered: always when its attempts are limited, and    *)
(* once stopCh is closed in any case.                                      *)
EveryCallIsAnswered ==
  \A p \in Calls :
    future[p] = "pending" /\ (stopped \/ (~persistent /\ reconnCount >= 0))
      ~> future[p] # "pending"

(* A persistent client whose connection was lost dials again until it is   *)
(* stopped, and then its loop ends.                                        *)
ReconnectsUntilStopped ==
  persistent => \A p \in Calls : pc[p] = "waiting" ~> pc[p] \in {"dialing", "done"}

(* Stop settles, if every connection ends some day: it returns, and from   *)
(* some moment on nothing is open or dialled any more.  The group's Close  *)
(* and the goroutines that finish meanwhile do not hold it up; a call that *)
(* is dialing when stopCh is closed may still connect and be served after  *)
(* Stop has returned, as wg does not count it yet, but is not dialled      *)
(* again.                                                                  *)
StopSettles ==
  (\A p \in Calls : pc[p] = "reading" ~> pc[p] # "reading")
  => (down = "signalling" ~>
        (down = "returned" /\ [](open = {} /\ \A p \in Calls : pc[p] \notin Connecting)))
=============================================================================
