# A verification of nettix-go

This directory holds TLA+ models of nettix-go, a small Netty-style networking
library (`src/channel`, `src/util`, `src/ssl`, `src/log`), the TLC
configurations that check them on small instances, and proofs checked by TLAPS.
`PROJECT.json` is the machine-readable index: components, runs, mutants, the
source lines each definition stands for, findings, hazards and theorems.

Run `tlc -config MCFuture_keeps.cfg MCFuture` (and so on) for a run and
`tlapm FutureProofs.tla` for a proof.

## 1. Inventory

| part | state it keeps | operations | talks to |
|---|---|---|---|
| Future, CallableFuture (`channel/future.go`) | done channel, err, cancelled flag, listeners, value | SetSuccess, SetFailure, SetSuccessWithValue, Cancel, AddListener, Await, Get, GetTimeout | completed by connection goroutines, timeout handlers and users |
| CollectionFuture (`channel/future.go`) | an embedded future, an atomic counter | NewCollectionFuture, a listener per member | its member futures |
| TimeoutableMap, Timer of Singleton (`util/`) | entries, one `time.AfterFunc` timer per entry | Put, PutIfAbsent, Get, Remove, Cancel, Clear | the request/response examples keep pending futures in one |
| TimeoutableObject (`util/timeoutable_object.go`) | one value, the Timeout that takes it out, a handler | SetWithDelay, SetWithHandler, Cancel, Remove, the callback | timers |
| AbstractStartable (`util/startable.go`) | running flag, stop channel, wait group, a mutex held across SetUp and TearDown | Start, Stop, State | Server and Client embed it |
| Server (`channel/server.go`) | listener, a goroutine per accepted connection | SetUp, TearDown, acceptLoop, handleConnection, Broadcast | Startable, Manager, ChannelGroup, Context |
| Client, PersistentClient (`channel/client.go`, `persistent_client.go`) | futures of pending connects, activeConns | Connect, ConnectSync, the retry loop, the reconnect loop | Startable, Manager, Future, Context |
| Manager (`channel/manager.go`) | pipeline factory, channel group, TLS | GetPipeline, WrapWithTLS, NotifyConnected, NotifyDisconnected | Pipeline, ChannelGroup, handlers |
| ChannelGroup (`channel/handler/channel_group.go`) | a sync.Map of members and an atomic count | Add, Remove, Contains, Size, Close, Broadcast | Server and Client close it in TearDown |
| Pipeline (`channel/pipeline.go`) | an ordered list of named handlers under a RWMutex | AddLast, AddFirst, AddBefore, AddAfter, Replace, Remove, Get, Clone | Context takes snapshots of it |
| Context (`channel/context.go`) | the connection, a closed flag, the read buffer | ReadLoop, decodeAndFire, Write, WriteSync, Fire..., Close | Pipeline, codecs, handlers |
| Codecs (`channel/codec.go`) | Buffer with two indexes; per-decoder state | LengthField, Line, Delimiter and Replaying decoders and encoders | called by the read loop |
| Heartbeat handlers (`channel/handler/heartbeat.go`) | one scheduled task per connection and handler | OnConnected, OnDisconnected, the task that arms its successor; ReadTimeoutHandler | timers, the connection, Manager's Notify calls |
| ScheduledExecutor (`util/scheduled.go`) | keyed futures, each with a stop channel; a goroutine per schedule | schedule, Cancel, Shutdown | timers |
| AbstractRunnable, AbstractStoppable (`util/`) | a stop and a done channel | run, IsRunning, tearDown | Startable, whose lock it shares |
| CacheableMap, RoundRobin containers (`util/`) | entries with last-access times; an atomic index | Get, Put, Delete; Next | the timeoutable map; examples number requests with a RoundRobinInteger |
| TLS (`ssl/`), logging (`log/`), config, net, file, string and char helpers (`util/`) | none that lasts | pure functions and I/O | used by all |

### What makes each part correct

* Future: one of the concurrent completing calls wins and its outcome stays;
  every listener is told once; a value is there when `Get` says so.
* CollectionFuture: a success only when every member is (a cancelled member breaks
  this, see section 6, and nothing else does), fails with the error of the first
  member to fail, always completes.
* TimeoutableMap: an entry is handed out once, is never forgotten without its
  handler, and a returned entry no longer times out.
* Server, Client: after `Stop` nothing runs and nothing is open; `Stop` returns
  once the peers let it; every `Connect` is answered; a persistent client holds
  one connection per address and keeps its retry budget.
* ChannelGroup: its Close reaches every member that joined before it, its size is
  exact, and who has ended has left.
* Pipeline: an event reaches everyone who stays, whoever was
  connected is disconnected.
* Context and codecs: what was written is what the peer's handlers get, in order
  and at once, wherever the stream is cut.
* Request/response: a future gets the response to its own request, a response in
  time wins, and nothing stays in the map.
* TimeoutableObject: a value leaves in one way only, times out with its own
  timeout and does not stay for ever.
* Heartbeat: one chain of beats per connection, which notices a dead peer and ends
  with the connection.
* ScheduledExecutor, AbstractRunnable: what was told to stop stops, and telling it
  neither panics nor hangs.

### How the parts interact

A Server or Client is a Startable. Its goroutines (the accept loop, one goroutine
per connection, one per pending connect) run `handleConnection`: TLS
handshake, a pipeline from the Manager's factory, `FireConnected`, the
`ReadLoop`, `FireDisconnected`. The ChannelGroup is the last lifecycle handler of
every pipeline and so learns of each connection; `TearDown` closes
the listener and then whatever is in the group, and `Stop` waits for every
goroutine through the wait group. Requests are matched to responses by putting
a CallableFuture into a TimeoutableMap under a sequence number: the connection's
goroutine removes and completes it, the entry's timer fails it.

### What is hard in it

* steps of two goroutines in an order nobody tests: completion against
  cancellation, a timer against Remove, TearDown against a connection that is
  just being accepted, Add/Remove of the group against its Close;
* state checked and used later: the CAS of `Cancel` before the lock, an entry
  deleted by key rather than by identity, `State()` read before a goroutine is
  counted in the wait group;
* waiting: `Stop` waits for goroutines that wait for their peers, under a mutex
  other goroutines want;
* timers that fire while they are cancelled or before they are stored: a heartbeat
  that arms its successor while its connection ends, a timeout that takes out a
  value that was set after it fired;
* two sequencers that number from 1, one at each end of a connection;
* numeric edges: length fields that are truncated, a sequencer that wraps;
* streams cut at arbitrary places, which decoders must not notice.

`PROJECT.json` lists each hazard at its line with the properties that cover it.

## 2. Plan

In the order of what the library's users rely on. All steps are done.

1. `FutureCell`, `Future` against the abstract `Promise`; `CollectionFuture` over
   the same cells.
2. `TimeoutableMap` with its timers.
3. `Server` with Startable and ChannelGroup, against the abstract `Lifecycle`.
4. `Client`, plain and persistent.
5. `Codec` (pure operators) and `Connection`, which composes them with the
   stream and ReadLoop.
6. `RequestResponse`, which composes the steps of `FutureCell` and of the map,
   against a peer that makes requests as well.
7. `Pipeline`, edited while events walk through it.
8. `TimeoutableObject`, with the goroutine of every timeout.
9. `ScheduledExecutor`: loops, Cancel, Shutdown.
10. `Heartbeat`: the handlers that use timers on one connection, between the
    Manager's Notify calls, the server's goroutine and the peer.
11. `Runnable` on the lock of AbstractStartable.
12. Proofs: the inductive invariants and refinements of section 5, then what
    eventually happens. What would come next is the parts of the library that
    section 7 lists.

Every module declares its parameters as CONSTANTS with a named assumption, has
one action per atomic step of the code, and no module uses a RECURSIVE operator,
so that each of them can be proved about. Loops over data are recursive
functions: the provers cannot instantiate the library's induction theorems, but a
set of counterexamples has a least one, which is induction for the sets a proof
names (`LeastNumber` of PipelineProofs, `NatInduct` of ConnectionProofs).

## 3. The modules

Steps are as large as the code's atomicity allows: a section under a mutex, one
operation on an atomic or a `sync.Map`, one send, close or receive on a channel.
Whatever the code does between two of these is a step of its own, and a variable
`pc` (or `stage`, `place`, `acceptor`, `down`) says where each goroutine is. Data are
model values: an error is the name of the call that passed it, a connection is
the name of the call or peer that made it.

| module | models | state ↔ code | steps ↔ code |
|---|---|---|---|
| `Promise` | the abstract future | outcome, who waits, who was told | Settle, Register, Tell |
| `FutureCell` | the fields of Future and its locked sections, as operators on a record | `done`, `err`, `cancelled`, `listeners`; `started` counts listener goroutines | Succeeded, Failed, CancelledNow, Listening |
| `Future` | one future and its callers, listeners, readers | `fut` the record, `value` the stored value, `pc`/`call`/`ret` the calls | SetSuccess, SetFailure, StoreValue then SetSuccessStored, CancelFlag then CancelLocked, AddListener, RunListener, Get, GetTimesOut |
| `CollectionFuture` | NewCollectionFuture and its listeners | `member` and `cf` are cells, `counter` the atomic, `next` the loop index | StoreCounter, ListenToNext; Look, CountDown, CollectionSucceeds, CollectionFails; the members' calls |
| `TimeoutableMap` | the map, its timers, concurrent calls | `items` the sync.Map, `task` entry.task, `timer` and `cancelled` the Timeout | one step per map operation of each method; TimerFires, TimerDeletes, TimerHandles |
| `Lifecycle` | the abstract Startable | phase, who is served | Start, Serve, Finish, StopBegins, StopReturns |
| `Server` | server.go, startable.go, channel_group.go | `state`, `mu`, `down` of Stop; `acceptor`; `pc` of each connection; `wg`, `members`, `count`, `open` | setUp, the accept loop, handleConnection in both modes, Add/Remove with map and counter apart, Close, tearDown |
| `Client` | client.go, persistent_client.go | `pc` of each call, `left` the remaining tries, `claimed` activeConns, `wg`, `open`, `members` | ConnectAddr, the claim, dial and retry, handleConnection, reconnect, tearDown |
| `Codec` | codec.go, the Message codec of request_response.go | none: operators on byte sequences | Encode and Decode of each kind |
| `Connection` | Write, ReadLoop, decodeAndFire | `stream` the socket, `buffer` data and readIndex, `reader` | Write, Read of any chunk, DecodeAndFire |
| `RequestResponse` | request_response.go, persistent_client.go (examples), RoundRobinInteger | the number, the entry with its timer and the future of each request, three program counters | Request, the write's listener, the timer, OnMessage; what arrives is an answer or a message of the peer's own |
| `Pipeline` | pipeline.go, the Fire methods and Write of context.go | `handlers`; per goroutine the event it fires, the rest of its snapshot and who was called | the five edits and Remove; a snapshot (Fire), a call, a handler that consumes or fails |
| `TimeoutableObject` | timeoutable_object.go, Timeout of singleton.go | `value`, `timeout`, `handler` the fields; `timer` and `got` the goroutine of each Timeout | SetWithDelay, ObjectCancel, Remove; RunsOut (the check of cancelled), TakeOut (under the lock), Handle |
| `ScheduledExecutor` | scheduled.go | `tasks` the sync.Map, `pc` each loop, `due` the tick in its channel, `closed`/`shut` the stop channels, `cur` the future a Cancel holds | Schedule, Tick, TakeTick, TaskReturns, SeeStop; Cancel then CloseStop; Shutdown |
| `Heartbeat` | heartbeat.go, the Notify calls of manager.go, the legacy handleConnection of server.go | `entry` the map of each beater, `beat`/`owner`/`next` its Timeouts, `place`/`at`/`held` the connection's goroutine, `peer`, `connClosed`, `deadline` | Start then StoreFirst, TakeTask then CancelTask; Fires, Beat or BeatFails, ArmNext, StoreNext; SetReadDeadline, ReadTimesOut; what the peer and others do |
| `Runnable` | runnable.go on startable.go | `state` and `down` with the lock, `stopped`/`done` the channels, `pc` the goroutine | Start, Look, IsRunning then StateReturns, RunningReturns; Stop, CloseStop, SeeDone |

`MC<module>` instantiates each component's module for TLC (`Codec` through
`MCConnection`; `Promise`, `Lifecycle` and `FutureCell` through the modules that
use them). Several definitions in the modules are
not used by the specification: the faulty variants that `PROJECT.json` lists as
mutants, each beside the definition it varies and introduced as one.

What the models assume and do not check: the handlers, dialers and listeners of
users return (a handler that blocks for ever blocks its goroutine, and Stop with
it), and so do the tasks of the executor; the peer of RequestResponse answers a
request at most once; a future's
listeners are counted but their order is left free, as the code starts a
goroutine for each. Undefined behaviour is kept: the unsynchronised read of
`entry.task` between its check and its use may panic (`CancelPanics`).

## 4. The runs

| run | instance | shows |
|---|---|---|
| `future_keeps` | 3 completing calls of any kind, 2 listeners, 1 reader; also futures born failed | one call settles the future, listeners start once, a cancellation that returned true is visible and `Get` finds the value (`OutcomeIsVisible`), and the future implements `Promise`, safety and liveness |
| `collection_join` | 3 members that succeed, fail or are cancelled around the constructor | what `IsSuccess()` and `Cause()` of the collection say is true of its members, unless a cancelled one completed it (`OutcomeIsTheMembers`); the collection completes |
| `map_races` | 1 key, 2 timed entries, 2 goroutines with any method | nothing is given twice or forgotten; a returned entry of Put is disarmed, a timed-out one of PutIfAbsent is gone; a nil task field is met only where a Cancel or Clear races (`OnlyCancelsRace`); every entry ends |
| `server_stops` | 2 connections, 2 Stops, with and without group, both modes | what a returned Stop guarantees, what Close reaches, the group's size and members (`GroupIsExact`), refinement of `Lifecycle`, and that Stop waits for peers only |
| `client_connects` | 2 calls, reconnect counts -1, 0 and 1, at most 3 dials recorded | one connection per address, the exact retry budget, no connection left by an error; every call is answered, a lost connection is dialled again, Stop returns and nothing is left in the end (`StopSettles`) |
| `connection_codecs` | 5 messages of 0 to 6 bytes in any order, 6 pipelines of codecs and an empty one | delivered as sent and at once; the connection fails only on what is too large; the buffer keeps only the unread rest |
| `request_ends` | 2 requests; numbers shared, separate and overflowing beyond a largest integer of 3; a request of the peer with the number 1 | a future gets its own response, or the peer's request that bears its number, and nothing else, as long as its number is not used again; whatever the numbers, success means a value, in time means no timeout, done means out of the map, every request ends |
| `pipeline_edits` | 3 handlers, 2 that can be added, 2 edits | events that miss nobody, disconnect after connect |
| `object` | 3 values, Set, Cancel and Remove in any order | a value leaves once; whose timeout can still begin; every value ends |
| `executor` | 3 schedules of one key, 2 concurrent Cancels, 2 Shutdowns | no Cancel closes a channel twice; Cancel finds every loop whose key was not scheduled again; what is stopped ends |
| `heartbeat` | 5 orders of handlers, 3 Timeouts in use, with and without a write function | one chain of beats, never two and none only when it was cancelled or the connection closed; a peer that dies is noticed; beats end with the connection |
| `runnable_stop` (violation) | 2 Stops | a Running that calls IsRunning and the Stop that waits for it wait for each other |

**Why the bounds are enough.** The races of a future are between two completing
calls and a third that loses to both; a listener is added before, between or
after them. The races of the map are between the entry that is stored and one
that replaces it, each with a timer and a goroutine; keys do not interact, so
one suffices. The server's group needs one connection that is a member and one
that is still joining, and Stop a second caller that finds the first at work.
`Client` needs two calls to compete for one address, and the counts -1, 0 and
1 are for ever, never and the boundary; addresses do not interact. The codecs
need a message that ends within a chunk, one that ends at its boundary, one
that is empty and one beyond the limit. Two requests are one that is overtaken
and one that overtakes; a largest integer of 3 makes a sequencer
overflow at once, as 2^31 - 1 does in the code after as many requests. One message of the peer's own is
enough to meet a pending request, one that is already answered and none. A
codec's numbers have one and two digits to base 16 instead of four to base 256.
Three values of a TimeoutableObject are the one whose timeout is late, the one it
takes out and the one after that. Three loops of a key are the one cancelled, the
one that overwrites it and one more; a second Shutdown is what panics. A
connection has at most two beaters, and a chain uses three Timeouts at once: one
that stores, its successor that has fired, and that one's successor. For the
pipeline an edit that adds
a handler and one that removes it, or two at one place, are what a snapshot can
get wrong. Bounds that cut behaviours off are named: `MaxDials`
bounds a history variable only, `MaxEdits` the edits, and `Timeouts` of Heartbeat
the Timeouts in use at a time (one that is over is used again).

**Deadlock.** All runs say CHECK_DEADLOCK FALSE: every model ends when all its
calls have been made and answered, and a stopped server has nothing to do. That
nothing stops too early is what the liveness properties say: `KeepsPromiseFairly`,
`CollectionCompletes`, `EveryEntryEnds`, `StopWaitsOnlyForPeers`, `StopReturns`,
`EveryCallIsAnswered`, `ReconnectsUntilStopped`, `StopSettles`, `EveryRequestEnds`,
`EveryValueEnds`, `StoppedLoopsEnd`, `DeadPeerIsNoticed` and `BeatsEnd`. Connection
and Pipeline have no liveness property; `NothingHeldBack` says that a reader
that waits for more bytes has decoded all it could.

**Fairness.** A goroutine that can run is run in the end (the Go scheduler
preempts), so each goroutine that is in the middle of a call has weak
fairness; a mutex of Go is handed over to a waiter that has starved, and the
code's waits on channels and wait groups stay enabled once they are, so weak
fairness is enough for them. Strong fairness is assumed at three places where a
goroutine comes back to a choice again and again: the select of a scheduled loop
takes a random one of its ready cases, so it sees its stop in the end
(`SeeStop`); TCP gives up a peer that does not acknowledge, so writing to it again
and again fails in the end (`BeatFails`); and a Running that asks IsRunning in a
loop returns if it is not kept waiting (`RunningReturns`, which makes the
counterexample of `runnable_stop` a real deadlock). An armed timer fires, by the contract of
`time.AfterFunc`. Nothing is assumed of the environment: no user has to make a
call, no peer has to connect, answer or leave. Where a property needs a peer
to leave (`StopSettles`), it says so as a hypothesis.

**Type invariants.** Every component has a `TypeOK`. The modules with proofs have
theirs proved; that of Runnable only
states the ranges of its variables. The runs spend their properties on more.

**Symmetry** is used for the two handlers that can be added to a pipeline,
which have the same roles and are named by no property, in a run without liveness.

## 5. The proofs

Checked by TLAPS for every value of the constants that satisfies the module's
assumption, and with no bound on goroutines, entries or connections.

* `FutureProofs`. The inductive invariant is the conjunction of the properties,
  `CallsOK` (which call is between its two steps, and what it has stored or
  flagged by then) and `SettlingOK` (an unsettled future has no error and has
  started no listener). The properties alone are not inductive: what a call did
  before it took the lock has to be known when it completes the future. All
  completing sections are reduced to one operator (`Failed`) and one lemma,
  `CompletingKeepsIInv`. From it: `TypeCorrect`, `OneCallSettles`,
  `ListenersNotifiedOnce`, `CompletionIsVisible` and the safety refinement
  `FutureImplementsPromise`; with the fairness of the listeners' goroutines,
  `FutureTellsListeners`: a step of such a goroutine is a Tell, and one can run
  whenever the promise owes its listener (`RunIsTell`).
  For CollectionFuture, the counter is at least the number of members that are
  not counted yet or have failed (`CounterOK`, by the library's facts on
  cardinalities), so the listener that finds it at zero is the last; `StartedOK` and
  `ListenersOK` say that a listener runs only for a member that is done and that
  what it found stays, and `NilOK` that who fails without an error has been
  cancelled. From them `CollectionTypeCorrect` and `OutcomeIsThatOfMembers`, which
  is about the collection's `IsSuccess()` and `Cause()` as `OutcomeIsTheMembers` is.
  All steps of a member go through one lemma, `MemberStep`. That the counter is exact until
  the collection is done, and whoever finds it at zero completes it (`WaitingOK`), gives
  `NobodyIsLeftWaiting`: when no goroutine of the collection has a step left and it
  is not done, a member is not.
* `TimeoutableMapProofs`. `StoredOK` ties what is stored to the key it was put
  under and to its not being handed out, `HeldOK` what each goroutine holds
  between two of its steps, `TimersOK` the stage of a timer to its cancellation,
  its handler and who is about to arm it. On top of it two more invariants,
  `DisarmOK` and `RemovedOK`, for the theorems on returned and on timed-out
  entries: `TypeCorrect`, `EntriesGivenOnce`, `NoEntryForgotten`,
  `TakenIsDisarmed` (an action property), `TimedOutEntriesLeave`. Which goroutines
  can find a task field of nil is `OnlyCancelsLeaveNil`, and `EntriesEnd` says that
  every entry with a timeout ends.
* `ServerProofs`. `PhaseOK` ties the lock holder, the lifecycle state, the
  listener and the accept loop together, `CountedOK` says who is in the wait
  group (so that `wg.Wait` means that nobody is left), `MembersOK` where the
  members of the group are in their handling, `RangeOK` whom Close has still to
  visit. From it `TypeCorrect`, `NothingIsLeft`, `NoMemberIsMissed`,
  `EndedAreRemoved` and `ServerImplementsLifecycle`, step by step. The group's
  counter is the number of its members plus the Adds and minus the Removes that
  have changed the map and not yet the counter (`CountOK`, by cardinalities of
  finite sets); from it `SizeIsThatOfTheMap` and, with the members that have ended,
  `GroupKeepsItsBooks`. `StoppingOK` (what tearDown has closed, whom it saw in the
  group and that an accept loop that spawns has a connection to spawn) leads to
  `StopIsHeldUpByPeers`: when nothing can move, a Stop that has not returned waits
  for a connection that Close did not reach and whose peer has not left.
* `ClientProofs`. `ClaimOK` (until stopCh is closed the claim of the address
  admits one loop; a loop that gets in later never dials), `AnswersOK` (how a
  call that runs was answered, and where a call with a connection is),
  `BudgetOK` (dials made and tries left add up). From it `TypeCorrect`,
  `OneConnection`, `BudgetKept`, `NothingLeftByErrors`. From the steps of a call
  alone follow `ReconnectsOrEnds`, `StoppedCallsAreAnswered` and, for a client that
  is not stopped, `AttemptsAreUsedUp`: a call with n attempts left is answered or has
  n - 1 left some day.
* `RequestResponseProofs`. `NumbersOK` says where the sequencer stands after so many
  turns, so that two requests whose turns differ by less than its period have
  different numbers (`AfterAgain`), also when the integers wrap around; `ItemsOK`
  ties an entry of the map to the request that stored it, `TimersOK` the stage of
  a timer to what its goroutine has done, `LeftOK` the futures that are done to
  who is about to take their entries out, `ReaderOK` what OnMessage holds to what
  it has taken out and cancelled, `ValuesOK` a stored value to the message it
  came from. From it `TypeCorrect`, `ResponsesMatch` and `DoneHaveLeft`. The
  proof has shown that only the value depends on fresh numbers: the other
  parts of `AnsweredByItsResponse`, and `DoneLeavesTheMap`, hold for reused
  ones too, and are stated so. `RequestsEnd` follows a request from its Write to
  its timer: what has cancelled the timer completes the future, or the timer does.
* `PipelineProofs`. The loop that collects the handlers of a role is shown, by
  induction on the list, to pick exactly those that have it, in their order
  (`MatchingSelects`). An edit is described by the position each handler comes
  from (`ComesFrom`), so that all six keep the order of those that stay
  (`EditKeepsIInv`); `ListOK` says that no handler is in the list twice,
  `ConnectedOK` and `DisconnectingOK` that who is connected has a place in the
  snapshot of OnDisconnected. From it `TypeCorrect`, `EventsReachWhoStays` and
  `ConnectedHearOfTheEnd`. They rest on the assumption that a handler object is
  added once, in the base pipeline as by the edits.
* `TimerProofs`. ScheduledExecutor: a future in the map is held by no Cancel and
  its channel is open (`TasksOK`), and a Cancel that has taken one out is alone
  with it (`HeldOK`). From it `TypeCorrect`, `NoCancelPanics`,
  `LoopsCanBeCancelled`, and `EveryStoppedLoopEnds`.
  TimeoutableObject: a value in the object has no
  fate yet (`FatesOK`), callbacks that took values out took different ones
  (`TakenOK`), and the timeout in the field is the value's (`CurrentOK`). From
  it `ObjectTypeCorrect`, `ValuesLeaveOnce`, `OldTimeoutsAreOver`; a value that
  stays has a timeout that is armed or waits for the lock (`StaysOK`), hence
  `EveryValueLeaves`.
  Heartbeat: whatever refers to a Timeout does so
  for the handler that owns it (`OwnersOK`), so that a Cancel hits a beat of its
  own; a handler before its OnConnected has no live Timeout (`NotStartedOK`); and
  one that is armed replaces the one whose callback arms it (`ChainOK`). It rests
  on the assumption that a handler is added to a connection once. From it
  `HeartbeatTypeCorrect` and `ChainsNeverFork`; with `HoldOK` (a handler that has
  begun has a live Timeout while the connection is open) `BeatersGoOn`, and so
  `OneChainOfBeats`.
  `DeadPeersAreNoticed`: while the peer is dead and the connection open, a beat
  comes to its write again and again (`WritesComeUp`), until one fails.
  `HeartbeatsEnd`: each live Timeout of a closed connection comes to a write that
  fails (`ChainsRunOut`), and a handler that is quiet then stays so.
* `ConnectionProofs`. In three layers. First the codecs, one by one: a number
  survives its digits for every base and width (`NumberOfDigits`, by induction on
  the digits read; `NaturalRoundTrip`, `SignedRoundTrip` with negative numbers),
  and each decoder takes apart what the encoder of the other end made, whatever
  bytes follow, and asks for more, or fails on a message beyond the limit, when
  some are missing (`Frames`: `LengthFieldFrames`, `DelimiterFrames`,
  `LineFrames`; `MessageRoundTrip`). Then the chain of any number of them, by
  induction on the pipeline (`ChainDecodesFrame`, `ChainDecodesPart`). Then the
  reader: what was written is the bytes of the messages given to the handlers,
  then the unread ones of the buffer, then those of the stream (`Decoded`), and
  when ReadLoop waits the unread ones are too few for the next message
  (`TooFew`). The properties alone are not inductive, as they do not say what the
  bytes are. From it `TypeCorrect`, `ExactlyWhatWasSent`, `NothingWaits` and
  `OnlyTooLargeOnesFail`. They rest on `ConnectionAssumption`, which says what
  the two ends have to agree on: a length that fits its field, lines without a
  line feed, delimited messages without the delimiter, an adjustment that
  undoes what the encoder includes. `connection_codecs` evaluates it.

**What eventually happens.** The theorems `EntriesEnd`, `RequestsEnd`,
`ReconnectsOrEnds`, `StoppedCallsAreAnswered`, `AttemptsAreUsedUp`, `EveryValueLeaves`,
`EveryStoppedLoopEnds`, `DeadPeersAreNoticed`, `HeartbeatsEnd` and
`FutureTellsListeners` have fairness as a hypothesis. TLAPS does not reason
about ENABLED, so a WF or SF of the specification is written out as the temporal
formula it stands for, with the enabling condition of the action read off its
guards and named (`Due`, `Runnable`, `Going` and so on, each beside the
theorem). That the condition is the right one is not proved. TLC has been made to
compare them with ENABLED of their steps in all states of the runs'
instances, where they are equal (`Ending` implies it, which is what the
proof needs); the same properties are checked by the runs under WF and SF
themselves. The two theorems on Heartbeat assume besides that
a Timeout is always free (`TimeoutsSuffice`), because `Timeouts` is a bound of the
model and none of the code. The argument is everywhere the one of a goroutine that
moves on: an invariant says where it can be, each of its steps leads on, and
no other goroutine moves it. Where a property is about a set of them (the Timeouts
of a chain), the step is proved for one, and the set follows because each of its
members leads to the same goal.

**Model-checked only.** What needs an induction over time with a count or a
finite set of unknown size, as such a set of numbers would have to be defined by a
temporal formula: `CollectionCompletes` (all listeners must have run),
`StopWaitsOnlyForPeers` (all connections must have ended), `StopSettles`, and
the half of `EveryCallIsAnswered` in which attempts are used up. What is proved
instead is that these systems do not come to rest too early or that each single
step is made: `NobodyIsLeftWaiting`, `StopIsHeldUpByPeers`, `AttemptsAreUsedUp`.
`KeepsPromiseFairly` is the refinement with WF on both sides;
`FutureTellsListeners` is its proved form. Runnable, whose run shows a violation.

## 6. Findings

One is a run that TLC ends with a counterexample, quoted in `PROJECT.json`:
`runnable_stop`, where a Running that calls IsRunning and the Stop that waits for it
wait for each other (`runnable.go:68`).

Others were met while modelling and have no run of their own; the code's behaviour is
in the model, and the property named says what holds in spite of it. The first four
go against a comment or the repository's README:

* `Cancel` of a future that comes too late returns false and yet turns
  `IsSuccess()` of a successful future to false (`future.go:114` sets the flag
  before it takes the lock), against the comment at `future.go:66`.
  `OutcomeIsVisible` speaks of cancellations that returned true.
* A collection one of whose members is cancelled completes with a nil error, and its
  `IsSuccess()` is true though that member never succeeded (`future.go:241` passes
  the nil `Cause()` of the member), against the same comment. `OutcomeIsTheMembers`
  has this as its one exception: `IsSuccess()` is true only if every member has
  succeeded or the listener of a member whose flag was set completed the collection.
  A Cancel that comes too late to a member and returns false counts as well, since
  the listener looks at the same flag.
* An entry of Put whose timer is faster than its Swap stays in the map after its
  handler has run (`timeoutable.go:67`), against `README.md:365`, "automatically
  removed". `TimedOutIsRemoved` says that PutIfAbsent is free of it.
* The sequencer of the example, whose maximum is the largest int32, gives negative
  numbers after it (`container.go:69`) and does not roll over to its minimum as the
  comment at `container.go:65` says. `AnsweredByItsResponse` and `EveryRequestEnds`
  hold for such numbers too.
* The timer of a map entry deletes by key, and so an entry that is not its own
  (`timeoutable.go:106`; `TimerDeletes`). `NothingForgotten` and
  `EveryEntryEnds` hold all the same.
* A connection that joins the group after its Close stays open and keeps Stop
  waiting (`server.go:104`). `StopWaitsOnlyForPeers` names exactly this wait.
* A dial that is under way when a client stops still becomes a connection, after
  Stop has returned (`client.go:154`). `StopSettles` says when it is gone.
* Without decoders, bytes are passed on again with every read (`context.go:296`).
  `NothingHeldBack` says what the handlers get then.
* A request of the peer that bears the number of a pending request is taken for its
  response (`request_response.go:179`). `AnsweredByItsResponse` admits this and no
  other confusion.
* A Set while the callback of the old timeout waits for the lock hands the new
  value out before its time (`timeoutable_object.go:57`; `TakeOut`).
* A heartbeat that fires while its connection ends goes on until a write fails, and
  for ever without a write function (`heartbeat.go:90`; `BeatsEnd`).
* `schedule` never looks at `isRate`: fixed delay and fixed rate are one
  (`scheduled.go:49`); a cancelled task may begin once more, and a second Shutdown
  panics (`CancelNeverPanics`). `AbstractRunnable.Sleep` does not sleep.

## 7. What is not modelled

CacheableMap: its access times are stored and never read, so it behaves as the
TimeoutableMap it wraps; `PROJECT.json` keeps the hazard's reason with the
component. ReplayingDecoder and the wrappers of user functions
(ByteToMessageDecoder, MessageToByteEncoder): nothing in the repository derives
from them. AbstractStoppable, handler interfaces, options, TLS, logging,
configuration and the string, file, network and character helpers: no state that
interacts, or I/O only. ConnectSync: that of a plain client is ConnectAddr and a
wait. A persistent client has no other, so that its ConnectSync makes a plain
connection past `activeConns` (`client.go:128`); `OneConnectionPerAddress` is about
the persistent client's own Connect and ConnectAddr. Legacy ContextHandlers, Broadcast, Close and the attributes
of a context: user code, writes to sockets and a plain map. OnMessage of
ReadTimeoutHandler: it moves the deadline, which the model lets pass at any time.
The examples besides request_response.go and persistent_client.go: an echo, or the
same pattern.
