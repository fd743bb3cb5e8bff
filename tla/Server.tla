------------------------------- MODULE Server -------------------------------
(***************************************************************************)
(* ServerChannelManager (src/channel/server.go) with the lifecycle it      *)
(* inherits from AbstractStartable (src/util/startable.go) and the group   *)
(* its connections join (src/channel/handler/channel_group.go).            *)
(*                                                                         *)
(* The goroutines are the accept loop, one handler goroutine for every     *)
(* accepted connection and the callers of Start and Stop.  A step is one   *)
(* access to what they share: the lifecycle lock, the listener, the stop   *)
(* channel, the wait group, and every single operation of the group, whose *)
(* map and counter are updated one after the other.  What a user's handler *)
(* returns is chosen freely; it is assumed to return.                      *)
(***************************************************************************)
EXTENDS Integers, FiniteSets

CONSTANTS
  Conns,      (* The connections that peers may make.      *)
  Stoppers,   (* The goroutines that call Stop, each once. *)
  None        (* No stopper, or no connection.             *)

AcceptLoop == "acceptLoop"

ASSUME ServerAssumption ==
  /\ None \notin Conns \cup Stoppers
  /\ AcceptLoop \notin Conns

VARIABLES
  grouped,    (* UseChannelGroup(true).                                     *)
  pipeline,   (* UsePipeline(true): ReadLoop, not the legacy handler.       *)
  state,      (* AbstractStartable.state.                                   *)
  mu,         (* The stopper that holds AbstractStartable.mu over a step.   *)
  ret,        (* What each Stop found: the state at which it returned.      *)
  down,       (* Where tearDown is.                                         *)
  signalled,  (* stopCh is closed.                                          *)
  listening,  (* The listener is open.                                      *)
  acceptor,   (* Where the accept loop is.                                  *)
  wg,         (* Those wg.Add has counted and wg.Done has not.              *)
  pc,         (* Where the goroutine of each connection is.                 *)
  open,       (* The sockets the server has not closed.                     *)
  members,    (* ChannelGroup.connections.                                  *)
  count,      (* ChannelGroup.count.                                        *)
  visiting,   (* The connection that Close's Range is at.                   *)
  early,      (* History: the members when Close began.                     *)
  refused     (* History: those whose OnDisconnected failed in a handler.   *)

config == <<grouped, pipeline>>
lifecycle == <<state, mu, ret>>
stopping == <<down, signalled, listening, visiting, early>>
accepting == <<acceptor, wg>>
group == <<members, count>>
vars == <<config, lifecycle, stopping, accepting, pc, open, group, refused>>

(* Goroutines that run handleConnection. *)
Handling ==
  {"new", "joining", "counting", "reading", "leaving", "removing", "uncounting", "closing"}

Init ==
  /\ grouped \in BOOLEAN
  /\ pipeline \in BOOLEAN
  /\ state = "READY"
  /\ mu = None
  /\ ret = [s \in Stoppers |-> "none"]
  /\ down = "none"
  /\ signalled = FALSE
  /\ listening = FALSE
  /\ acceptor = "none"
  /\ wg = {}
  /\ pc = [c \in Conns |-> "away"]
  /\ open = {}
  /\ members = {}
  /\ count = 0
  /\ visiting = None
  /\ early = {}
  /\ refused = {}

-----------------------------------------------------------------------------
(* Start, with setUp under the lock.  A second Start panics.               *)
StartFails ==
  /\ mu = None
  /\ state = "READY"
  /\ state' = "TERMINATED"
  /\ UNCHANGED <<config, mu, ret, stopping, accepting, pc, open, group, refused>>

Start ==
  /\ mu = None
  /\ state = "READY"
  /\ state' = "RUNNING"
  /\ listening' = TRUE
  /\ wg' = wg \cup {AcceptLoop}
  /\ acceptor' = "accepting"
  /\ UNCHANGED <<config, mu, ret, down, signalled, visiting, early, pc, open, group, refused>>

-----------------------------------------------------------------------------
(* A peer connects: the kernel queues the connection. *)
Arrive(c) ==
  /\ listening
  /\ pc[c] = "away"
  /\ pc' = [pc EXCEPT ![c] = "queued"]
  /\ UNCHANGED <<config, lifecycle, stopping, accepting, open, group, refused>>

Accept(c) ==
  /\ acceptor = "accepting"
  /\ listening
  /\ pc[c] = "queued"
  /\ acceptor' = "spawning"
  /\ pc' = [pc EXCEPT ![c] = "accepted"]
  /\ open' = open \cup {c}
  /\ UNCHANGED <<config, lifecycle, stopping, wg, group, refused>>

(* wg.Add, then go handleConnection.                                       *)
(* SpawnUncounted is a mutant that leaves the Add to the new goroutine.    *)
SpawnUncounted(c) ==
  /\ acceptor = "spawning"
  /\ pc[c] = "accepted"
  /\ acceptor' = "accepting"
  /\ pc' = [pc EXCEPT ![c] = "new"]
  /\ UNCHANGED <<config, lifecycle, stopping, wg, open, group, refused>>

Spawn(c) ==
  /\ acceptor = "spawning"
  /\ pc[c] = "accepted"
  /\ wg' = wg \cup {c}
  /\ acceptor' = "accepting"
  /\ pc' = [pc EXCEPT ![c] = "new"]
  /\ UNCHANGED <<config, lifecycle, stopping, open, group, refused>>

(* Accept returned an error.  Before stopCh is closed the loop goes on. *)
AcceptFails ==
  /\ acceptor = "accepting"
  /\ signalled
  /\ acceptor' = "exited"
  /\ wg' = wg \ {AcceptLoop}
  /\ UNCHANGED <<config, lifecycle, stopping, pc, open, group, refused>>

-----------------------------------------------------------------------------
Go(c, from, to) ==
  /\ pc[c] = from
  /\ pc' = [pc EXCEPT ![c] = to]
  /\ UNCHANGED <<config, lifecycle, stopping, accepting>>

HandshakeFails(c) == Go(c, "new", "closing") /\ UNCHANGED <<open, group, refused>>

(* A user's OnConnected, which runs before CHANNEL_GROUP's, returned an    *)
(* error.  The deferred call of ReadLoop fires OnDisconnected all the      *)
(* same; the legacy path does not.                                         *)
ConnectedFails(c) ==
  /\ Go(c, "new", IF pipeline THEN "leaving" ELSE "closing")
  /\ UNCHANGED <<open, group, refused>>

Connected(c) ==
  /\ Go(c, "new", IF grouped THEN "joining" ELSE "reading")
  /\ UNCHANGED <<open, group, refused>>

(* ChannelGroup.Add: LoadOrStore, then the counter. *)
Join(c) ==
  /\ Go(c, "joining", "counting")
  /\ members' = members \cup {c}
  /\ UNCHANGED <<open, count, refused>>

CountUp(c) ==
  /\ Go(c, "counting", "reading")
  /\ count' = count + 1
  /\ UNCHANGED <<open, members, refused>>

(* Read fails at once when the server has closed the socket.  It also ends *)
(* when the peer leaves or the connection breaks, a decoder or a handler   *)
(* fails, or the legacy ConnHandler returns: any time, or never.           *)
ReadFails(c) ==
  /\ c \notin open
  /\ Go(c, "reading", "leaving")
  /\ UNCHANGED <<open, group, refused>>

ReadEnds(c) == Go(c, "reading", "leaving") /\ UNCHANGED <<open, group, refused>>

(* The users' OnDisconnected handlers come before CHANNEL_GROUP's.         *)
(* DisconnectedStops is a mutant that does not get to it.                  *)
DisconnectedStops(c) ==
  /\ Go(c, "leaving", "closing")
  /\ UNCHANGED <<open, group, refused>>

Disconnected(c) ==
  /\ Go(c, "leaving", IF grouped THEN "removing" ELSE "closing")
  /\ UNCHANGED <<open, group, refused>>

DisconnectedFails(c) ==
  /\ Go(c, "leaving", "closing")
  /\ refused' = refused \cup {c}
  /\ UNCHANGED <<open, group>>

(* ChannelGroup.Remove: LoadAndDelete, then the counter if it was there.   *)
(* RemoveUnchecked is a mutant that always counts down.                    *)
RemoveUnchecked(c) ==
  /\ Go(c, "removing", "uncounting")
  /\ members' = members \ {c}
  /\ UNCHANGED <<open, count, refused>>

Remove(c) ==
  /\ Go(c, "removing", IF c \in members THEN "uncounting" ELSE "closing")
  /\ members' = members \ {c}
  /\ UNCHANGED <<open, count, refused>>

CountDown(c) ==
  /\ Go(c, "uncounting", "closing")
  /\ count' = count - 1
  /\ UNCHANGED <<open, members, refused>>

(* The socket is closed, and the deferred wg.Done runs.                    *)
Done(c) ==
  /\ pc[c] = "closing"
  /\ pc' = [pc EXCEPT ![c] = "done"]
  /\ open' = open \ {c}
  /\ wg' = wg \ {c}
  /\ UNCHANGED <<config, lifecycle, stopping, acceptor, group, refused>>

-----------------------------------------------------------------------------
(* Stop takes the lock and holds it until tearDown is over.                *)
(* StopUnlocked is a mutant that lets go of it before tearDown.            *)
StopUnlocked(s) ==
  /\ mu = None
  /\ ret[s] = "none"
  /\ IF state = "RUNNING"
     THEN /\ state' = "TERMINATED"
          /\ down' = "signalling"
          /\ ret' = ret
     ELSE /\ ret' = [ret EXCEPT ![s] = state]
          /\ UNCHANGED <<state, down>>
  /\ UNCHANGED <<config, mu, signalled, listening, visiting, early, accepting, pc, open, group, refused>>

Stop(s) ==
  /\ mu = None
  /\ ret[s] = "none"
  /\ IF state = "RUNNING"
     THEN /\ state' = "TERMINATED"
          /\ mu' = s
          /\ down' = "signalling"
          /\ ret' = ret
     ELSE /\ ret' = [ret EXCEPT ![s] = state]
          /\ UNCHANGED <<state, mu, down>>
  /\ UNCHANGED <<config, signalled, listening, visiting, early, accepting, pc, open, group, refused>>

TearDown(from, to) ==
  /\ down = from
  /\ down' = to
  /\ UNCHANGED <<config, accepting, pc, refused>>

CloseStopCh ==
  /\ TearDown("signalling", "closing")
  /\ signalled' = TRUE
  /\ UNCHANGED <<lifecycle, listening, visiting, early, open, group>>

(* The connections still queued in the kernel are reset with the listener. *)
CloseListener ==
  /\ TearDown("closing", IF grouped THEN "grouping" ELSE "waiting")
  /\ listening' = FALSE
  /\ UNCHANGED <<lifecycle, signalled, visiting, early, open, group>>

(* ChannelGroup.Close: Range visits every connection that is in the map    *)
(* from the start to the end of it, and may visit those that join          *)
(* meanwhile; it closes and deletes them one by one, then sets the counter *)
(* to zero.  CloseSkips is a mutant that forgets to close.                 *)
CloseBegins ==
  /\ TearDown("grouping", "ranging")
  /\ early' = members
  /\ UNCHANGED <<lifecycle, signalled, listening, visiting, open, group>>

CloseSkips(c) ==
  /\ TearDown("ranging", "ranging")
  /\ visiting = None
  /\ c \in members
  /\ visiting' = c
  /\ UNCHANGED <<lifecycle, signalled, listening, early, open, group>>

CloseConn(c) ==
  /\ TearDown("ranging", "ranging")
  /\ visiting = None
  /\ c \in members
  /\ visiting' = c
  /\ open' = open \ {c}
  /\ UNCHANGED <<lifecycle, signalled, listening, early, group>>

DeleteConn ==
  /\ TearDown("ranging", "ranging")
  /\ visiting # None
  /\ visiting' = None
  /\ members' = members \ {visiting}
  /\ UNCHANGED <<lifecycle, signalled, listening, early, open, count>>

CloseEnds ==
  /\ TearDown("ranging", "waiting")
  /\ visiting = None
  /\ members \cap early = {}
  /\ count' = 0
  /\ UNCHANGED <<lifecycle, signalled, listening, visiting, early, open, members>>

(* wg.Wait returns and the deferred Unlock of Stop runs. *)
Wait ==
  /\ wg = {}
  /\ TearDown("waiting", "done")
  /\ mu' = None
  /\ ret' = [s \in Stoppers |-> IF s = mu THEN "RUNNING" ELSE ret[s]]
  /\ UNCHANGED <<state, signalled, listening, visiting, early, open, group>>

-----------------------------------------------------------------------------
Handler(c) ==
  \/ HandshakeFails(c) \/ ConnectedFails(c) \/ Connected(c)
  \/ Join(c) \/ CountUp(c) \/ ReadFails(c)
  \/ Disconnected(c) \/ DisconnectedFails(c) \/ Remove(c) \/ CountDown(c) \/ Done(c)

Teardown ==
  \/ CloseStopCh \/ CloseListener
  \/ CloseBegins \/ (\E c \in Conns : CloseConn(c)) \/ DeleteConn \/ CloseEnds
  \/ Wait

Next ==
  \/ StartFails \/ Start
  \/ AcceptFails
  \/ \E c \in Conns : Arrive(c) \/ Accept(c) \/ Spawn(c) \/ Handler(c) \/ ReadEnds(c)
  \/ \E s \in Stoppers : Stop(s)
  \/ Teardown

Spec == Init /\ [][Next]_vars

(* A goroutine that can run is eventually scheduled, and a TLS handshake   *)
(* has a deadline.  Nobody is obliged to call Start or Stop, no peer to    *)
(* connect or to leave.                                                    *)
Fairness ==
  /\ WF_vars(AcceptFails)
  /\ WF_vars(Teardown)
  /\ \A c \in Conns : WF_vars(Spawn(c)) /\ WF_vars(Handler(c))

FairSpec == Spec /\ Fairness

-----------------------------------------------------------------------------
TypeOK ==
  /\ grouped \in BOOLEAN
  /\ pipeline \in BOOLEAN
  /\ state \in {"READY", "RUNNING", "TERMINATED"}
  /\ mu \in Stoppers \cup {None}
  /\ ret \in [Stoppers -> {"none", "READY", "RUNNING", "TERMINATED"}]
  /\ down \in {"none", "signalling", "closing", "grouping", "ranging", "waiting", "done"}
  /\ signalled \in BOOLEAN
  /\ listening \in BOOLEAN
  /\ acceptor \in {"none", "accepting", "spawning", "exited"}
  /\ wg \subseteq Conns \cup {AcceptLoop}
  /\ pc \in [Conns -> {"away", "queued", "accepted", "done"} \cup Handling]
  /\ open \subseteq Conns
  /\ members \subseteq Conns
  /\ count \in Int
  /\ visiting \in Conns \cup {None}
  /\ early \subseteq Conns
  /\ refused \subseteq Conns

(* Whatever was accepted while Stop was already under way: once a Stop has *)
(* returned that ran tearDown, or that found it done by another goroutine, *)
(* no goroutine of the server is left, no socket is open and no connection *)
(* can be accepted any more.  (A Stop before Start returns at once and     *)
(* promises nothing.)                                                      *)
StopLeavesNothing ==
  (\E s \in Stoppers : ret[s] \in {"RUNNING", "TERMINATED"}) =>
    /\ ~listening
    /\ acceptor \in {"none", "exited"}
    /\ open = {}
    /\ \A c \in Conns : pc[c] \notin Handling

(* When the group's Close is over, no connection that was in the group     *)
(* when it began and is still being read has its socket open: Range misses *)
(* no member, however many leave or are deleted under it.                  *)
CloseMissesNoMember ==
  grouped /\ down \in {"waiting", "done"} =>
    \A c \in early \cap open : pc[c] \notin {"counting", "reading"}

SizeIsExact ==
  /\ down \notin {"ranging", "waiting", "done"}
  /\ \A c \in Conns : pc[c] \notin {"counting", "uncounting"}
  => count = Cardinality(members)

EndedLeaveTheGroup ==
  \A c \in members : pc[c] \in {"closing", "done"} => c \in refused

(* The group's books are right: Size() is the number of connections in its *)
(* map whenever no Add or Remove is half done, whichever handlers failed,  *)
(* until Close begins; and a connection whose goroutine has ended stays in *)
(* the map only when an OnDisconnected handler before CHANNEL_GROUP        *)
(* returned an error.                                                      *)
GroupIsExact == SizeIsExact /\ EndedLeaveTheGroup

(* What a user sees of the server's lifecycle.                             *)
Phase ==
  CASE state = "READY" -> "ready"
    [] state = "RUNNING" -> "running"
    [] state = "TERMINATED" /\ mu # None -> "draining"
    [] state = "TERMINATED" /\ mu = None -> "stopped"

Serving == {c \in Conns : pc[c] \in Handling}
Served == {c \in Conns : pc[c] = "done"}

L == INSTANCE Lifecycle WITH phase <- Phase, serving <- Serving, served <- Served

(* No interleaving of accepts, handlers and stops breaks the lifecycle:    *)
(* a server serves only between Start and the return of Stop.              *)
KeepsLifecycle == L!Spec

(* Stop waits for nothing but peers: a tearDown that has begun ends, or    *)
(* waits for ever for a connection that Close did not reach and whose peer *)
(* does not leave.                                                         *)
StopWaitsOnlyForPeers ==
  mu # None ~>
    mu = None \/ \E c \in open \ early : pc[c] = "reading"

=============================================================================
