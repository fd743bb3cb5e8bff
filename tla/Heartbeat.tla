----------------------------- MODULE Heartbeat -----------------------------
(***************************************************************************)
(* The handlers of src/channel/handler/heartbeat.go on one connection of   *)
(* the legacy mode: HeartbeatHandler and EnquireLinkHandler, whose code is *)
(* the same but for the message, each with a Timeout that arms its         *)
(* successor, and ReadTimeoutHandler; NotifyConnected, NotifyDisconnected  *)
(* and NotifyError of src/channel/manager.go, which walk through them; the *)
(* goroutine of src/channel/server.go that calls these around the user's   *)
(* ConnHandler; and a peer that may leave or die without a word.           *)
(*                                                                         *)
(* One operation of a sync.Map and one section under Timeout.mu is a step. *)
(* A Timeout that is over and that nothing refers to is used again.        *)
(* Messages of the peer move the read deadline; the model lets it pass at  *)
(* any time instead, so they are left out.                                 *)
(***************************************************************************)
EXTENDS Naturals, Sequences, FiniteSets

CONSTANTS
  Orders,    (* Orders in which handlers may have been added, a beater   *)
             (* once at most.                                            *)
  Timeouts,  (* The bound of the Timeouts in use at a time.              *)
  None

Beaters == {"heartbeat", "enquire"}

ASSUME HeartbeatAssumption ==
  /\ Orders \subseteq Seq(Beaters \cup {"readTimeout", "user"})
  /\ \A o \in Orders : \A i, j \in 1..Len(o) : o[i] = o[j] /\ o[i] \in Beaters => i = j
  /\ None \notin Timeouts

VARIABLES
  handlers,  (* GetHandlers().                                           *)
  writing,   (* SetWriteFunc was called.                                 *)
  peer,      (* "alive", "left" (closed its end) or "dead" (silent).     *)
  connClosed, (* conn.Close was called.                                  *)
  deadline,  (* A read deadline is set.                                  *)
  place, at, (* Of the connection's goroutine: where it is, the handler. *)
  held,      (* The Timeout it is about to store or to cancel.           *)
  entry,     (* The entry of conn in the map of each beater.             *)
  beat,      (* Where each Timeout and its goroutine are.                *)
  owner,     (* The beater it belongs to.                                *)
  next,      (* The Timeout its callback has armed, and is to store.     *)
  ended      (* History: beaters whose armed Timeout was cancelled.      *)

config == <<handlers, writing>>
conn == <<place, at, held>>
beats == <<entry, beat, owner, next>>
bvars == <<config, peer, connClosed, deadline, conn, beats, ended>>

HeartbeatInit ==
  /\ handlers \in Orders
  /\ writing \in BOOLEAN
  /\ peer = "alive"
  /\ connClosed = FALSE
  /\ deadline = FALSE
  /\ place = "connecting"
  /\ at = 1
  /\ held = None
  /\ entry = [b \in Beaters |-> None]
  /\ beat = [t \in Timeouts |-> "over"]
  /\ owner \in [Timeouts -> {"heartbeat"}]
  /\ next = [t \in Timeouts |-> None]
  /\ ended = {}

Unused == {t \in Timeouts : /\ beat[t] = "over"
                            /\ \A b \in Beaters : entry[b] # t
                            /\ held # t
                            /\ \A u \in Timeouts : next[u] # t}

-----------------------------------------------------------------------------
(* The walk through the handlers: the call returns nil, or an error that   *)
(* ends the walk.  An error of OnConnected skips OnDisconnected too.       *)
Calling(event, h) ==
  /\ place = event
  /\ at <= Len(handlers)
  /\ handlers[at] = h

Passes == at' = at + 1 /\ UNCHANGED place
Stops == place' = "closing" /\ UNCHANGED at

(* OnConnected of a beater: scheduleNext arms a Timeout, then stores it. *)
Start(t) ==
  /\ \E b \in Beaters :
       /\ Calling("connecting", b)
       /\ owner' = [owner EXCEPT ![t] = b]
  /\ t \in Unused
  /\ beat' = [beat EXCEPT ![t] = "armed"]
  /\ held' = t
  /\ place' = "storing"
  /\ UNCHANGED <<config, peer, connClosed, deadline, at, entry, next, ended>>

StoreFirst ==
  /\ place = "storing"
  /\ entry' = [entry EXCEPT ![handlers[at]] = held]
  /\ held' = None
  /\ place' = "connecting"
  /\ at' = at + 1
  /\ UNCHANGED <<config, peer, connClosed, deadline, beat, owner, next, ended>>

(* ReadTimeoutHandler.OnConnected: SetReadDeadline fails on a closed conn. *)
SetReadDeadline ==
  /\ Calling("connecting", "readTimeout")
  /\ IF connClosed THEN Stops /\ UNCHANGED deadline ELSE Passes /\ deadline' = TRUE
  /\ UNCHANGED <<config, peer, connClosed, held, beats, ended>>

(* A user's handler may fail in OnConnected and in OnDisconnected. *)
UserHandler ==
  /\ Calling("connecting", "user") \/ Calling("disconnecting", "user")
  /\ Passes \/ Stops
  /\ UNCHANGED <<config, peer, connClosed, deadline, held, beats, ended>>

EndOfHandlers ==
  /\ at > Len(handlers)
  /\ \/ place = "connecting" /\ place' = "serving" /\ UNCHANGED at
     \/ place = "disconnecting" /\ place' = "closing" /\ UNCHANGED at
  /\ UNCHANGED <<config, peer, connClosed, deadline, held, beats, ended>>

-----------------------------------------------------------------------------
(* ConnHandler, the user's: it reads until an error or the end of the      *)
(* stream, reports errors with NotifyError, or returns when it likes to.   *)
HandlerReturns ==
  /\ place = "serving"
  /\ place' = "disconnecting"
  /\ at' = 1
  /\ UNCHANGED <<config, peer, connClosed, deadline, held, beats, ended>>

ReadEnds == (connClosed \/ peer = "left") /\ HandlerReturns

(* The deadline passes: OnError closes the connection, and the next Read   *)
(* fails.                                                                  *)
ReadTimesOut ==
  /\ place = "serving"
  /\ deadline
  /\ ~connClosed
  /\ connClosed' = TRUE
  /\ UNCHANGED <<config, peer, deadline, conn, beats, ended>>

(* OnDisconnected of a beater: LoadAndDelete, then Cancel. *)
TakeTask ==
  /\ \E b \in Beaters :
       /\ Calling("disconnecting", b)
       /\ held' = entry[b]
       /\ entry' = [entry EXCEPT ![b] = None]
       /\ IF entry[b] = None THEN Passes ELSE place' = "cancelling" /\ UNCHANGED at
  /\ UNCHANGED <<config, peer, connClosed, deadline, beat, owner, next, ended>>

(* Timeout.Cancel: in vain when the callback has begun.  A mutant stops    *)
(* nothing at all.                                                         *)
CancelInVain ==
  /\ place = "cancelling"
  /\ ended' = IF beat[held] = "armed" THEN ended \cup {handlers[at]} ELSE ended
  /\ held' = None
  /\ place' = "disconnecting"
  /\ at' = at + 1
  /\ UNCHANGED <<config, peer, connClosed, deadline, beats>>

CancelTask ==
  /\ place = "cancelling"
  /\ IF beat[held] = "armed"
     THEN /\ beat' = [beat EXCEPT ![held] = "over"]
          /\ ended' = ended \cup {handlers[at]}
     ELSE UNCHANGED <<beat, ended>>
  /\ held' = None
  /\ place' = "disconnecting"
  /\ at' = at + 1
  /\ UNCHANGED <<config, peer, connClosed, deadline, entry, owner, next>>

(* ReadTimeoutHandler.OnDisconnected does nothing. *)
NothingToUndo ==
  /\ Calling("disconnecting", "readTimeout")
  /\ Passes
  /\ UNCHANGED <<config, peer, connClosed, deadline, held, beats, ended>>

(* The deferred conn.Close. *)
CloseConn ==
  /\ place = "closing"
  /\ place' = "done"
  /\ connClosed' = TRUE
  /\ UNCHANGED <<config, peer, deadline, at, held, beats, ended>>

-----------------------------------------------------------------------------
(* The callback: the check of cancelled, the write, the successor. *)
MoveTimer(t, from, to) ==
  /\ beat[t] = from
  /\ beat' = [beat EXCEPT ![t] = to]

Fires(t) ==
  /\ MoveTimer(t, "armed", "beating")
  /\ UNCHANGED <<config, peer, connClosed, deadline, conn, entry, owner, next, ended>>

(* The write succeeds, also when the peer is gone and nobody noticed yet;  *)
(* without a write function there is none.                                 *)
Beat(t) ==
  /\ writing => ~connClosed
  /\ MoveTimer(t, "beating", "arming")
  /\ UNCHANGED <<config, peer, connClosed, deadline, conn, entry, owner, next, ended>>

(* The write fails: the connection is closed and the entry stays behind.   *)
(* Two mutants: one leaves the connection open, one goes on beating.       *)
BeatFailsQuietly(t) ==
  /\ writing
  /\ connClosed \/ peer # "alive"
  /\ MoveTimer(t, "beating", "over")
  /\ UNCHANGED <<config, peer, connClosed, deadline, conn, entry, owner, next, ended>>

BeatGoesOn(t) ==
  /\ writing
  /\ connClosed \/ peer # "alive"
  /\ MoveTimer(t, "beating", "arming")
  /\ connClosed' = TRUE
  /\ UNCHANGED <<config, peer, deadline, conn, entry, owner, next, ended>>

BeatFails(t) ==
  /\ writing
  /\ connClosed \/ peer # "alive"
  /\ MoveTimer(t, "beating", "over")
  /\ connClosed' = TRUE
  /\ UNCHANGED <<config, peer, deadline, conn, entry, owner, next, ended>>

(* scheduleNext in the callback; the new Timeout may fire before it is     *)
(* stored, and then be stored over its own successor.                      *)
ArmNext(t) ==
  /\ beat[t] = "arming"
  /\ \E u \in Unused :
       /\ beat' = [beat EXCEPT ![t] = "storing", ![u] = "armed"]
       /\ owner' = [owner EXCEPT ![u] = owner[t]]
       /\ next' = [next EXCEPT ![t] = u]
  /\ UNCHANGED <<config, peer, connClosed, deadline, conn, entry, ended>>

StoreNext(t) ==
  /\ MoveTimer(t, "storing", "over")
  /\ entry' = [entry EXCEPT ![owner[t]] = next[t]]
  /\ next' = [next EXCEPT ![t] = None]
  /\ UNCHANGED <<config, peer, connClosed, deadline, conn, owner, ended>>

-----------------------------------------------------------------------------
(* The world: the peer goes; the group's Close, or the user, closes conn. *)
PeerGoes ==
  /\ peer = "alive"
  /\ peer' \in {"left", "dead"}
  /\ UNCHANGED <<config, connClosed, deadline, conn, beats, ended>>

ClosedElsewhere ==
  /\ ~connClosed
  /\ connClosed' = TRUE
  /\ UNCHANGED <<config, peer, deadline, conn, beats, ended>>

ConnSteps ==
  \/ \E t \in Timeouts : Start(t)
  \/ StoreFirst \/ SetReadDeadline \/ UserHandler \/ EndOfHandlers
  \/ ReadEnds \/ TakeTask \/ CancelTask \/ NothingToUndo \/ CloseConn

Callback(t) == Fires(t) \/ Beat(t) \/ BeatFails(t) \/ ArmNext(t) \/ StoreNext(t)

HeartbeatNext ==
  \/ ConnSteps \/ HandlerReturns \/ ReadTimesOut
  \/ \E t \in Timeouts : Callback(t)
  \/ PeerGoes \/ ClosedElsewhere

HeartbeatSpec == HeartbeatInit /\ [][HeartbeatNext]_bvars

(* Goroutines are scheduled, timers and deadlines run out, a Read at the   *)
(* end of the stream or of a closed connection returns.  Writing again and *)
(* again to a peer that is gone fails in the end: TCP gives it up.         *)
HeartbeatFairSpec ==
  /\ HeartbeatSpec
  /\ WF_bvars(ConnSteps)
  /\ WF_bvars(peer = "dead" /\ ReadTimesOut)
  /\ \A t \in Timeouts : WF_bvars(Callback(t))
  /\ SF_bvars(\E t \in Timeouts : BeatFails(t))

-----------------------------------------------------------------------------
Places == {"connecting", "storing", "serving", "disconnecting", "cancelling", "closing", "done"}

HeartbeatTypeOK ==
  /\ handlers \in Orders
  /\ writing \in BOOLEAN
  /\ peer \in {"alive", "left", "dead"}
  /\ connClosed \in BOOLEAN
  /\ deadline \in BOOLEAN
  /\ place \in Places
  /\ at \in 1..(Len(handlers) + 1)
  /\ held \in Timeouts \cup {None}
  /\ entry \in [Beaters -> Timeouts \cup {None}]
  /\ beat \in [Timeouts -> {"armed", "beating", "arming", "storing", "over"}]
  /\ owner \in [Timeouts -> Beaters]
  /\ next \in [Timeouts -> Timeouts \cup {None}]
  /\ ended \subseteq Beaters

(* The Timeouts of a beater that will beat, or will arm one that does. *)
Live(b) == {t \in Timeouts : owner[t] = b /\ beat[t] \in {"armed", "beating", "arming"}}

Added == {handlers[i] : i \in 1..Len(handlers)}

NeverTwoChains ==
  \A b \in Beaters :
    /\ Cardinality(Live(b)) <= 1
    /\ b \in ended => Live(b) = {}

ChainHolds ==
  place = "serving" /\ ~connClosed => \A b \in Added \cap Beaters : Live(b) # {}

(* However a callback and its successor overlap, and whatever stale entry  *)
(* they leave in the map, a connection has one chain of heartbeats: never  *)
(* two, none after a Cancel that came before its Timeout has begun, and    *)
(* never none while the connection is open and served: a chain that a      *)
(* failed write has cut leaves the connection closed.                      *)
OneChain == NeverTwoChains /\ ChainHolds

(* A peer that dies without a word is noticed, and its connection does not *)
(* wait in Read for ever, if heartbeats are written or a read deadline is  *)
(* set, in whatever order the handlers were added.                         *)
DeadPeerIsNoticed ==
  (place = "serving" /\ peer = "dead" /\ (deadline \/ (writing /\ Added \cap Beaters # {})))
    ~> place # "serving"

(* When the connection is closed, heartbeats end for good: also when       *)
(* OnDisconnected found a stale entry in the map, or was never called      *)
(* because an OnConnected failed.  This rests on the write that fails; a   *)
(* handler without a write function beats on for ever in these cases.      *)
BeatsEnd ==
  (connClosed /\ writing) ~> [](\A b \in Beaters : Live(b) = {})
=============================================================================
