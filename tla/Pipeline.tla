------------------------------ MODULE Pipeline ------------------------------
(***************************************************************************)
(* channel.Pipeline (src/channel/pipeline.go): a list of named handlers    *)
(* that goroutines edit while the events of one connection                 *)
(* (src/channel/context.go) walk through it, those of its ReadLoop and     *)
(* those of a Write.                                                       *)
(*                                                                         *)
(* An edit holds the lock from its first check to its end, so it is one    *)
(* step; the editor may be a handler that an event has called.  An edit    *)
(* that panics changes nothing and is left out.  An event takes a snapshot *)
(* of the handlers that have the role it needs and calls one after the     *)
(* other.  Every handler object is added at most once.                     *)
(***************************************************************************)
EXTENDS Integers, Sequences, SequencesExt

CONSTANTS
  Names,      (* The names of handlers.                                *)
  Handlers,   (* The handler objects.                                  *)
  Roles,      (* Which interfaces each of them implements.             *)
  Bases,      (* The pipelines of users, to which GetPipeline adds.    *)
  Logger,     (* The entry IO_LOGGER.                                  *)
  Group,      (* The entry CHANNEL_GROUP.                              *)
  MaxEdits    (* The bound of edits.                                   *)

Entry(n, h) == [name |-> n, handler |-> h]
Entries == [name : Names, handler : Handlers]

Objects(s) == [i \in DOMAIN s |-> s[i].handler]

(* AddFirst and AddLast of GetPipeline, on a clone of the base pipeline.   *)
GetPipeline(base, grouped) ==
  <<Logger>> \o base \o (IF grouped THEN <<Group>> ELSE <<>>)

ASSUME PipelineAssumption ==
  /\ Roles \in [Handlers -> SUBSET {"lifecycle", "inbound", "outbound", "encoder"}]
  /\ Bases \subseteq Seq(Entries)
  /\ Logger \in Entries /\ Group \in Entries
  /\ \A base \in Bases : IsInjective(Objects(GetPipeline(base, TRUE)))
  /\ MaxEdits \in Nat

VARIABLES
  handlers,   (* Pipeline.handlers.                                        *)
  edits,      (* How many edits there were.                                *)
  used,       (* The handler objects that were ever in the pipeline.       *)
  stage,      (* Where ReadLoop and Write are between their events,        *)
  event,      (* the event each of them fires,                             *)
  todo,       (* the handlers it has still to call,                        *)
  seen,       (* and those that it has called.                             *)
  present,    (* History: the handlers it started with and that no edit    *)
              (* has taken out since.                                      *)
  connected,  (* History: those whose OnConnected has returned nil.        *)
  told,       (* History: those whose OnDisconnected was called.           *)
  refused     (* History: an OnDisconnected has failed.                    *)

Walkers == {"reader", "writer"}

list == <<handlers, edits, used>>
walk == <<stage, event, todo, seen>>
notices == <<connected, told, refused>>
vars == <<list, walk, present, notices>>

Position(n) == {i \in DOMAIN handlers : handlers[i].name = n}

Init ==
  /\ \E base \in Bases, grouped \in BOOLEAN : handlers = GetPipeline(base, grouped)
  /\ edits = 0
  /\ used = ToSet(Objects(handlers)) \cup {Group.handler}
  /\ stage = [w \in Walkers |-> "new"]
  /\ event = [w \in Walkers |-> "none"]
  /\ todo = [w \in Walkers |-> <<>>]
  /\ seen = [w \in Walkers |-> <<>>]
  /\ present = [w \in Walkers |-> {}]
  /\ connected = {}
  /\ told = {}
  /\ refused = FALSE

-----------------------------------------------------------------------------
Edit(to) ==
  /\ edits < MaxEdits
  /\ edits' = edits + 1
  /\ handlers' = to
  /\ used' = used \cup ToSet(Objects(to))
  /\ present' = [w \in Walkers |-> present[w] \cap ToSet(Objects(to))]
  /\ UNCHANGED <<walk, notices>>

(* A new handler under a name that is not taken. *)
New(n, h) == Position(n) = {} /\ h \notin used

AddLast(n, h) == New(n, h) /\ Edit(Append(handlers, Entry(n, h)))
AddFirst(n, h) == New(n, h) /\ Edit(<<Entry(n, h)>> \o handlers)

(* AddBefore puts a copy of the tail behind the new entry. *)
AddBefore(b, n, h) ==
  /\ New(n, h)
  /\ \E i \in Position(b) : Edit(InsertAt(handlers, i, Entry(n, h)))

AddAfter(b, n, h) ==
  /\ New(n, h)
  /\ \E i \in Position(b) : Edit(InsertAt(handlers, i + 1, Entry(n, h)))

Replace(o, n, h) ==
  /\ o = n \/ Position(n) = {}
  /\ h \notin used
  /\ \E i \in Position(o) : Edit(ReplaceAt(handlers, i, Entry(n, h)))

RemoveNamed(n) == \E i \in Position(n) : Edit(RemoveAt(handlers, i))

-----------------------------------------------------------------------------
RoleOf(e) ==
  CASE e \in {"connected", "disconnected"} -> "lifecycle"
    [] e = "message" -> "inbound"
    [] e = "write" -> "outbound"
    [] e = "encode" -> "encoder"

(* The loop of LifecycleHandlers, InboundHandlers, OutboundHandlers and    *)
(* Encoders over the handlers hs, for those that have the role.            *)
Matching(hs, role) ==
  LET kept[n \in 0..Len(hs)] ==
        IF n = 0 THEN <<>>
        ELSE IF role \in Roles[hs[n]] THEN Append(kept[n - 1], hs[n])
        ELSE kept[n - 1]
  IN kept[Len(hs)]

(* What an event goes through: a Write takes its handlers from their end. *)
Snapshot(e) ==
  LET matching == Matching(Objects(handlers), RoleOf(e))
  IN IF e \in {"write", "encode"} THEN Reverse(matching) ELSE matching

(* Goroutine w fires event e when it is at a stage. *)
Fire(w, at, e) ==
  /\ stage[w] = at
  /\ event[w] = "none"
  /\ event' = [event EXCEPT ![w] = e]
  /\ todo' = [todo EXCEPT ![w] = Snapshot(e)]
  /\ seen' = [seen EXCEPT ![w] = <<>>]
  /\ present' = [present EXCEPT ![w] = ToSet(Snapshot(e))]
  /\ UNCHANGED <<list, stage, notices>>

FireConnected == Fire("reader", "new", "connected")
FireMessage == Fire("reader", "open", "message")
FireDisconnected == Fire("reader", "ending", "disconnected")
FireWrite == Fire("writer", "new", "write")
FireEncode == Fire("writer", "open", "encode")

(* The next handler is called and returns no error, and a message.         *)
(* CallLive is a mutant that goes on in the list as it is now.             *)
CallLive(w) ==
  /\ event[w] # "none"
  /\ todo[w] # <<>>
  /\ seen' = [seen EXCEPT ![w] = Append(@, Head(todo[w]))]
  /\ todo' = [todo EXCEPT ![w] = SubSeq(Snapshot(event[w]), Len(seen[w]) + 2, Len(Snapshot(event[w])))]
  /\ connected' = IF event[w] = "connected" THEN connected \cup {Head(todo[w])} ELSE connected
  /\ told' = IF event[w] = "disconnected" THEN told \cup {Head(todo[w])} ELSE told
  /\ UNCHANGED <<list, stage, event, present, refused>>

Call(w) ==
  /\ event[w] # "none"
  /\ todo[w] # <<>>
  /\ seen' = [seen EXCEPT ![w] = Append(@, Head(todo[w]))]
  /\ todo' = [todo EXCEPT ![w] = Tail(@)]
  /\ connected' = IF event[w] = "connected" THEN connected \cup {Head(todo[w])} ELSE connected
  /\ told' = IF event[w] = "disconnected" THEN told \cup {Head(todo[w])} ELSE told
  /\ UNCHANGED <<list, stage, event, present, refused>>

Return(w, to) ==
  /\ event[w] # "none"
  /\ event' = [event EXCEPT ![w] = "none"]
  /\ stage' = [stage EXCEPT ![w] = to]
  /\ todo' = [todo EXCEPT ![w] = <<>>]
  /\ seen' = [seen EXCEPT ![w] = <<>>]
  /\ present' = [present EXCEPT ![w] = {}]
  /\ UNCHANGED <<list, connected>>

(* All handlers were called, or the one for a message has consumed it.     *)
Passed(w) ==
  /\ todo[w] = <<>> \/ event[w] \in {"message", "write"}
  /\ Return(w, IF event[w] = "disconnected" \/ event[w] = "encode" THEN "closed"
               ELSE IF event[w] = "write" /\ todo[w] # <<>> THEN "closed" ELSE "open")
  /\ UNCHANGED <<told, refused>>

(* The next handler returns an error: for ReadLoop this ends the reading,  *)
(* and its deferred call fires OnDisconnected whatever has failed.         *)
(* FailsAtOnce is a mutant that defers the call after OnConnected only.    *)
FailsAtOnce(w) ==
  /\ todo[w] # <<>>
  /\ Return(w, IF event[w] = "message" THEN "ending" ELSE "closed")
  /\ refused' = (refused \/ event[w] = "disconnected")
  /\ told' = IF event[w] = "disconnected" THEN told \cup {Head(todo[w])} ELSE told

Fails(w) ==
  /\ todo[w] # <<>>
  /\ Return(w, IF event[w] \in {"connected", "message"} THEN "ending" ELSE "closed")
  /\ refused' = (refused \/ event[w] = "disconnected")
  /\ told' = IF event[w] = "disconnected" THEN told \cup {Head(todo[w])} ELSE told

(* The connection has ended, or a decoder failed. *)
ReadEnds ==
  /\ stage["reader"] = "open"
  /\ event["reader"] = "none"
  /\ stage' = [stage EXCEPT !["reader"] = "ending"]
  /\ UNCHANGED <<list, event, todo, seen, present, notices>>

-----------------------------------------------------------------------------
Editing ==
  \E n \in Names :
    \/ RemoveNamed(n)
    \/ \E h \in Handlers :
         \/ AddFirst(n, h) \/ AddLast(n, h)
         \/ \E b \in Names : AddBefore(b, n, h) \/ AddAfter(b, n, h) \/ Replace(b, n, h)

Firing ==
  \/ FireConnected \/ FireMessage \/ FireDisconnected \/ FireWrite \/ FireEncode
  \/ \E w \in Walkers : Call(w) \/ Passed(w) \/ Fails(w)
  \/ ReadEnds

Next == Editing \/ Firing

Spec == Init /\ [][Next]_vars

-----------------------------------------------------------------------------
TypeOK ==
  /\ handlers \in Seq(Entries)
  /\ edits \in 0..MaxEdits
  /\ used \subseteq Handlers
  /\ stage \in [Walkers -> {"new", "open", "ending", "closed"}]
  /\ event \in [Walkers -> {"none", "connected", "message", "disconnected", "write", "encode"}]
  /\ todo \in [Walkers -> Seq(Handlers)]
  /\ seen \in [Walkers -> Seq(Handlers)]
  /\ present \in [Walkers -> SUBSET Handlers]
  /\ connected \subseteq Handlers
  /\ told \subseteq Handlers
  /\ refused \in BOOLEAN

Before(s, g, h) == \E i, j \in DOMAIN s : i < j /\ s[i] = g /\ s[j] = h

(* An event calls every handler that stays in the pipeline meanwhile,      *)
(* once and in the order of the pipeline, however it is edited under it.   *)
EventsMissNobody ==
  \A w \in Walkers : event[w] # "none" =>
    LET path == seen[w] \o todo[w]
        order == IF w = "writer" THEN Reverse(Objects(handlers)) ELSE Objects(handlers)
    IN /\ IsInjective(path)
       /\ present[w] \subseteq ToSet(path)
       /\ \A g, h \in present[w] : Before(path, g, h) <=> Before(order, g, h)

(* A handler whose OnConnected has succeeded and that was not taken out    *)
(* of the pipeline gets its OnDisconnected when ReadLoop ends, whoever     *)
(* has failed before, unless an OnDisconnected in front of it fails.       *)
ConnectedAreDisconnected ==
  stage["reader"] = "closed" =>
    \A h \in connected \cap ToSet(Objects(handlers)) : h \in told \/ refused
=============================================================================
