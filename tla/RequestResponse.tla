-------------------------- MODULE RequestResponse --------------------------
(***************************************************************************)
(* The request/response pattern the library is built for                   *)
(* (src/example/request_response.go): concurrent calls of Request, each    *)
(* with a number of a RoundRobinInteger (src/util/container.go) and a      *)
(* CallableFuture in a TimeoutableMap, against the goroutines of Write and *)
(* its listener, the timers of the map and the reading goroutine that      *)
(* matches responses.  The steps of the futures and of the map are those   *)
(* of FutureCell and TimeoutableMap.                                       *)
(*                                                                         *)
(* There is one connection and resTimeout is positive.  The peer, a        *)
(* PersistentClient (src/example/persistent_client.go), answers each       *)
(* request it got at most once, with the number of the request, and makes  *)
(* requests of its own, with the numbers of its own sequencer, at any time *)
(* and in any order.  The entry, the future and the timer of a request go  *)
(* by its name, a message of the peer's own by its number.                 *)
(***************************************************************************)
EXTENDS Integers, FiniteSets

CONSTANTS
  Requests,   (* The calls of Request.                             *)
  Ranges,     (* The pairs <<min, max>> of the sequencer.          *)
  MaxInt,     (* The largest number: that of int32 in the code.    *)
  Asks,       (* The numbers of the peer's own messages: 0 for one *)
              (* of Send, which wants no response.                 *)
  None        (* No request.                                       *)

MinInt == -MaxInt - 1
Numbers == MinInt..MaxInt
Errors == {"timeout", "write"}

ASSUME RequestAssumption ==
  /\ MaxInt \in Nat
  /\ Ranges \subseteq Numbers \X Numbers
  /\ \A r \in Ranges : 0 < r[1] /\ r[1] <= r[2]
  /\ Asks \subseteq 0..MaxInt
  /\ None \notin Requests \cup Asks /\ None \notin Errors
  /\ Requests \cap Asks = {}

Messages == Requests \cup Asks

Cell == INSTANCE FutureCell WITH Listeners <- {}, NoErr <- None

VARIABLES
  min, max,   (* Of the sequencer.                                         *)
  sequencer,  (* Its value.                                                *)
  number,     (* The number of each request.                               *)
  pc,         (* Where each call of Request is.                            *)
  replaced,   (* The entry its Put has replaced.                           *)
  items,      (* futureMap.items.                                          *)
  timer,      (* The timeout task of each entry.                           *)
  write,      (* Where the goroutine of each Write, then its listener, is. *)
  unsent,     (* The entry the listener of a failed Write has taken.       *)
  fut, value, (* The future of each request.                               *)
  reader,     (* Where the reading goroutine is,                           *)
  response,   (* the message it handles: the request it answers or its     *)
              (* number,                                                   *)
  taken,      (* and the entry it has taken.                               *)
  answered,   (* The messages that were read.                              *)
  turn,       (* History: how many numbers each request found taken.       *)
  inTime,     (* History: entries whose timer the reader has cancelled.    *)
  stored      (* History: entries whose timer had not yet deleted anything *)
              (* when they were stored.                                    *)

sequence == <<min, max, sequencer, number, turn>>
calls == <<pc, replaced>>
writes == <<write, unsent>>
futures == <<fut, value>>
reading == <<reader, response, taken, answered, inTime>>
vars == <<sequence, calls, items, stored, timer, writes, futures, reading>>

Init ==
  /\ \E range \in Ranges : min = range[1] /\ max = range[2]
  /\ sequencer = min
  /\ number = [r \in Requests |-> 0]
  /\ turn = [r \in Requests |-> 0]
  /\ pc = [r \in Requests |-> "idle"]
  /\ replaced = [r \in Requests |-> None]
  /\ items = [n \in Numbers |-> None]
  /\ stored = {}
  /\ timer = [r \in Requests |-> "none"]
  /\ write = [r \in Requests |-> "none"]
  /\ unsent = [r \in Requests |-> None]
  /\ fut = [r \in Requests |-> Cell!NewFuture]
  /\ value = [r \in Requests |-> None]
  /\ reader = "reading"
  /\ response = None
  /\ taken = None
  /\ answered = {}
  /\ inTime = {}

Goto(r, from, to) ==
  /\ pc[r] = from
  /\ pc' = [pc EXCEPT ![r] = to]

-----------------------------------------------------------------------------
(* RoundRobinInteger.Next adds before it compares.  Its compare-and-swap   *)
(* loop is one step: the one that swaps.                                   *)
Wrapped(n) == IF n > MaxInt THEN n - 2 * (MaxInt + 1) ELSE n
Following(n) == IF Wrapped(n + 1) > max THEN min ELSE Wrapped(n + 1)

(* NextUnswapped is a mutant that may lose an update to another call.      *)
NextUnswapped(r) ==
  /\ Goto(r, "idle", "arming")
  /\ number' = [number EXCEPT ![r] = sequencer]
  /\ sequencer' \in {sequencer, Following(sequencer)}
  /\ turn' = [turn EXCEPT ![r] = Cardinality({q \in Requests : pc[q] # "idle"})]
  /\ UNCHANGED <<min, max, replaced, items, stored, timer, writes, futures, reading>>

TakeNumber(r) ==
  /\ Goto(r, "idle", "arming")
  /\ number' = [number EXCEPT ![r] = sequencer]
  /\ sequencer' = Following(sequencer)
  /\ turn' = [turn EXCEPT ![r] = Cardinality({q \in Requests : pc[q] # "idle"})]
  /\ UNCHANGED <<min, max, replaced, items, stored, timer, writes, futures, reading>>

(* futureMap.Put: the timer is armed, the entry swapped in, and the timer  *)
(* of a replaced entry cancelled; its future is dropped.                   *)
Arm(r) ==
  /\ Goto(r, "arming", "storing")
  /\ timer' = [timer EXCEPT ![r] = "armed"]
  /\ UNCHANGED <<sequence, replaced, items, stored, writes, futures, reading>>

Store(r) ==
  LET previous == items[number[r]]
  IN /\ Goto(r, "storing", IF previous = None THEN "writing" ELSE "replacing")
     /\ replaced' = [replaced EXCEPT ![r] = previous]
     /\ items' = [items EXCEPT ![number[r]] = r]
     /\ stored' = IF timer[r] \in {"armed", "running"} THEN stored \cup {r} ELSE stored
     /\ UNCHANGED <<sequence, timer, writes, futures, reading>>

(* Timeout.Cancel, which a running task does not notice.                   *)
(* NotCancelled is a mutant that does nothing.                             *)
NotCancelled(e) == timer' = timer
CancelTimeout(e) == timer' = [timer EXCEPT ![e] = IF @ = "armed" THEN "cancelled" ELSE @]

CancelReplaced(r) ==
  /\ Goto(r, "replacing", "writing")
  /\ CancelTimeout(replaced[r])
  /\ UNCHANGED <<sequence, replaced, items, stored, writes, futures, reading>>

(* ctx.Write starts its goroutine, and AddListener cannot miss its end.    *)
Send(r) ==
  /\ Goto(r, "writing", "returned")
  /\ write' = [write EXCEPT ![r] = "writing"]
  /\ UNCHANGED <<sequence, replaced, items, stored, timer, unsent, futures, reading>>

-----------------------------------------------------------------------------
WriteStep(r, from, to) ==
  /\ write[r] = from
  /\ write' = [write EXCEPT ![r] = to]
  /\ UNCHANGED <<sequence, calls, value, reading>>

WriteSucceeds(r) ==
  /\ WriteStep(r, "writing", "sent")
  /\ UNCHANGED <<items, stored, timer, unsent, fut>>

WriteFails(r) ==
  /\ WriteStep(r, "writing", "failed")
  /\ UNCHANGED <<items, stored, timer, unsent, fut>>

(* The listener of a failed Write: futureMap.Remove, then SetFailure.      *)
(* KeepUnsent is a mutant that leaves the entry to its timer.              *)
KeepUnsent(r) ==
  /\ WriteStep(r, "failed", "failing")
  /\ UNCHANGED <<items, stored, timer, unsent, fut>>

RemoveUnsent(r) ==
  LET entry == items[number[r]]
  IN /\ WriteStep(r, "failed", IF entry = None THEN "failing" ELSE "cancelling")
     /\ unsent' = [unsent EXCEPT ![r] = entry]
     /\ items' = [items EXCEPT ![number[r]] = None]
     /\ UNCHANGED <<stored, timer, fut>>

CancelUnsent(r) ==
  /\ WriteStep(r, "cancelling", "failing")
  /\ CancelTimeout(unsent[r])
  /\ UNCHANGED <<items, stored, unsent, fut>>

FailUnsent(r) ==
  /\ WriteStep(r, "failing", "ended")
  /\ fut' = [fut EXCEPT ![r] = Cell!Failed(@, "write")]
  /\ UNCHANGED <<items, stored, timer, unsent>>

-----------------------------------------------------------------------------
TimerStep(r, from, to) ==
  /\ timer[r] = from
  /\ timer' = [timer EXCEPT ![r] = to]
  /\ UNCHANGED <<sequence, calls, stored, writes, value, reading>>

TimerFires(r) == TimerStep(r, "armed", "running") /\ UNCHANGED <<items, fut>>

TimerDeletes(r) ==
  /\ TimerStep(r, "running", "deleted")
  /\ items' = [items EXCEPT ![number[r]] = None]
  /\ UNCHANGED fut

(* The handler of NewRequestResponseServer.                                *)
(* HandlerSilent is a mutant that does not fail the future.                *)
HandlerSilent(r) == TimerStep(r, "deleted", "done") /\ UNCHANGED <<items, fut>>

TimerHandles(r) ==
  /\ TimerStep(r, "deleted", "done")
  /\ fut' = [fut EXCEPT ![r] = Cell!Failed(@, "timeout")]
  /\ UNCHANGED items

-----------------------------------------------------------------------------
ReaderStep(from, to) ==
  /\ reader = from
  /\ reader' = to
  /\ UNCHANGED <<sequence, calls, stored, writes>>

(* What the peer may have sent: the answer to a request it got, or a       *)
(* message of its own.                                                     *)
Arrives(m) ==
  /\ m \notin answered
  /\ m \in Requests => write[m] = "sent"
  /\ answered' = answered \cup {m}

Seq(m) == IF m \in Requests THEN number[m] ELSE m

(* OnMessage takes the entry of the message's number for what it answers.  *)
Match(m) ==
  /\ ReaderStep("reading", "cancelling")
  /\ Arrives(m)
  /\ Seq(m) > 0 /\ items[Seq(m)] # None
  /\ taken' = items[Seq(m)]
  /\ items' = [items EXCEPT ![Seq(m)] = None]
  /\ response' = m
  /\ UNCHANGED <<timer, futures, inTime>>

(* Nothing waits for it: it goes on to the next handler as a new request.  *)
PassOn(m) ==
  /\ ReaderStep("reading", "reading")
  /\ Arrives(m)
  /\ Seq(m) <= 0 \/ items[Seq(m)] = None
  /\ UNCHANGED <<items, timer, futures, response, taken, inTime>>

CancelTaken ==
  /\ ReaderStep("cancelling", "valuing")
  /\ CancelTimeout(taken)
  /\ inTime' = IF timer[taken] = "armed" THEN inTime \cup {taken} ELSE inTime
  /\ UNCHANGED <<items, futures, response, taken, answered>>

(* SetSuccessWithValue, in two steps; see Future.                          *)
StoreValue ==
  /\ ReaderStep("valuing", "succeeding")
  /\ value' = [value EXCEPT ![taken] = response]
  /\ UNCHANGED <<items, timer, fut, response, taken, answered, inTime>>

Succeed ==
  /\ ReaderStep("succeeding", "reading")
  /\ fut' = [fut EXCEPT ![taken] = Cell!Succeeded(@)]
  /\ taken' = None
  /\ response' = None
  /\ UNCHANGED <<items, timer, value, answered, inTime>>

-----------------------------------------------------------------------------
Request(r) == Arm(r) \/ Store(r) \/ CancelReplaced(r) \/ Send(r)
Writer(r) ==
  WriteSucceeds(r) \/ WriteFails(r) \/ RemoveUnsent(r) \/ CancelUnsent(r) \/ FailUnsent(r)
Timer(r) == TimerFires(r) \/ TimerDeletes(r) \/ TimerHandles(r)
Reader == CancelTaken \/ StoreValue \/ Succeed

Next ==
  \/ \E r \in Requests :
       TakeNumber(r) \/ Request(r) \/ Writer(r) \/ Timer(r)
  \/ \E m \in Messages : Match(m) \/ PassOn(m)
  \/ Reader

Spec == Init /\ [][Next]_vars

(* Goroutines are scheduled, timers fire, and Write does not block for     *)
(* ever.  Nobody has to make a request, and the peer need not answer.      *)
Fairness ==
  /\ WF_vars(Reader)
  /\ \A r \in Requests : WF_vars(Request(r)) /\ WF_vars(Writer(r)) /\ WF_vars(Timer(r))

FairSpec == Spec /\ Fairness

-----------------------------------------------------------------------------
TypeOK ==
  /\ <<min, max>> \in Ranges
  /\ sequencer \in Numbers
  /\ number \in [Requests -> Numbers]
  /\ turn \in [Requests -> Nat]
  /\ pc \in [Requests -> {"idle", "arming", "storing", "replacing", "writing", "returned"}]
  /\ replaced \in [Requests -> Requests \cup {None}]
  /\ items \in [Numbers -> Requests \cup {None}]
  /\ stored \subseteq Requests
  /\ timer \in [Requests -> {"none", "armed", "cancelled", "running", "deleted", "done"}]
  /\ write \in [Requests -> {"none", "writing", "sent", "failed", "cancelling", "failing", "ended"}]
  /\ unsent \in [Requests -> Requests \cup {None}]
  /\ fut \in [Requests -> Cell!FutureCells(Errors)]
  /\ value \in [Requests -> Messages \cup {None}]
  /\ reader \in {"reading", "cancelling", "valuing", "succeeding"}
  /\ response \in Messages \cup {None}
  /\ taken \in Requests \cup {None}
  /\ answered \subseteq Messages
  /\ inTime \subseteq Requests

(* How many numbers the sequencer gives before one of them comes again,    *)
(* and that it has not come round between r and any other request.         *)
Period == IF max = MaxInt THEN 2 * (MaxInt + 1) ELSE max - min + 1
Fresh(r) ==
  \A q \in Requests \ {r} :
    pc[q] # "idle" => turn[q] - turn[r] \in 1 - Period..Period - 1

(* A future never gets a response to another request, as long as its       *)
(* number is not used again: whichever of the reader, the timers, the      *)
(* failed writes and the other requests are in between.  What it gets is   *)
(* its own response, or a request the peer made with the same number,      *)
(* which OnMessage cannot tell from it.  Whatever the numbers are, it      *)
(* never succeeds with nothing, and a request whose entry the reader has   *)
(* taken out of the map and whose timer it has cancelled in time does not  *)
(* time out any more; it can still fail with its Write, when what was read *)
(* was the peer's request.                                                 *)
AnsweredByItsResponse ==
  \A r \in Requests :
    /\ pc[r] # "idle" /\ Fresh(r) =>
         value[r] \in {r, None} \cup {n \in Asks : n = number[r] /\ n > 0}
    /\ Cell!IsSuccess(fut[r]) => value[r] # None
    /\ r \in inTime => fut[r].err # "timeout"

(* When the future of a request is done its entry is not in the map, be it *)
(* answered, failed or timed out, unless the timer was over before the     *)
(* entry had even been stored.                                             *)
DoneLeavesTheMap ==
  \A r \in stored : fut[r].done => items[number[r]] # r

(* Every request ends, with a response, the error of its Write or a        *)
(* timeout, also when the peer never answers.                              *)
EveryRequestEnds ==
  \A r \in Requests : pc[r] = "returned" ~> fut[r].done \/ ~Fresh(r)

============================================================================
