# QuantXecute in TLA+

QuantXecute keeps a live copy of an exchange's order book and simulates trades
against it. This directory models the part of it that is hard to get right by
testing: how the copy stays correct while messages are lost, repeated,
reordered or damaged, sessions drop and come back, and several threads share
the state; how it reaches, through a server, the page that shows it; and the
algorithms whose boundaries decide what it contains. TLC checks the models on
small instances; TLAPS proves the central properties for all instances.

## 1. The system

| component | state | operations | talks to |
|---|---|---|---|
| **Book** `core/src/Book.cpp` | two price-ordered sides, `lastSequence_` | `applySnapshot`, `applyDelta`, `clear`, quotes | owned by FeedClient, by replay and by ApiServer (a copy) |
| **SequenceValidator** `core/src/SequenceValidator.cpp` | `hasBaseline_`, `lastSeqId_`, `arrivalCounter_`, tallies | `validate`, `verifyChecksum`, `reset` | owned by FeedClient and by replay |
| **Decoder** `core/src/Decoder.cpp` | none | `decodeFrame`: a MarketEvent, or Malformed | called by FeedClient |
| **ReconnectPolicy** `feed/src/ReconnectPolicy.cpp` | jitter seed | `delayForAttempt` | called by FeedClient |
| **FeedClient** `feed/src/FeedClient.cpp` | book, validator, `health_`, `phase_`, reconnect and staleness timers, one mutex | host thread: `start`, `tick`, `stop`; callback thread: `handleState`, `handleFrame`; readers: `book`, `health`, `simulate` | drives a FeedSource, which calls it back |
| **OkxWebSocketSource** `feed/src/OkxWebSocketSource.cpp` | session flags, socket handle, worker thread, two mutexes, a condition variable | `connect`, `disconnect`, `resubscribe`, liveness worker, socket callback | the venue; calls FeedClient back |
| **Engine main loop** `server/src/main.cpp` | shutdown flag | feed thread: tick, copy book and health, publish; main thread: start, wait, stop | FeedClient, ApiServer, HttpServer |
| **ApiServer** `server/src/ApiServer.cpp` | published view, a book of its own, one mutex | `updateEngineState`, `handleRequest`, `runEventStream` | fed by the main loop, called by HttpServer's threads |
| **HttpServer, WebSocket** `server/src` | listening socket, accept thread, detached connection threads | `start`, `stop`, `acceptLoop`, `handleConnection` | clients; ApiServer's handlers |
| **Recorder, EventLogReader** `core/src/Recorder.cpp` | a file | `record`, `next` | replay |
| **Replay** `core/src/Replay.cpp` | a validator and its caller's book | `replayInto` | EventLogReader |
| **ExecutionSimulator** `core/src/ExecutionSimulator.cpp` | none | `execute` | FeedClient, ApiServer |
| **Metrics** `core/src/Metrics.cpp` | samples | `observe`, `percentile` | benchmarks |
| **Dashboard** `dashboard/` | event socket, polled and pushed state | `connectEventSocket`, `pollBook`, `pollHealth`, status rules | ApiServer, over HTTP |
| **Legacy console** `console/`, `src/models` | latest book, a flag | socket callback, UI loop | a proxy feed |

What is hard here, and what correctness means:

* **The copy of the book.** The client sees a snapshot and then increments.
  Nothing in an increment says what the result should be, so one update
  applied wrongly, twice or not at all makes every later book wrong, silently.
  Correct: the book shown is one the venue had, exactly, or nothing; versions
  are never skipped, repeated or taken back; and after any fault the client
  gets back to the venue's current book.
* **Three objects that must move together.** Book, validator and health are
  reset on a reconnect, a gap and a checksum failure, by different code.
* **Threads.** The host thread and the callback thread share FeedClient under
  a mutex, and every call from FeedClient into the source happens after the
  unlock. The source joins threads that call back into the client.
* **Sessions.** A drop may come in any phase, before, during or after a
  callback. Exactly one reconnect must follow, unless the host has stopped.
* **Readers.** They see book and health through two reads and a second copy;
  the page sees two kinds of message about them, in any order.
* **Shutdown.** Five kinds of threads end, or do not, when main() returns.
* **Boundaries.** Integers pass through three widths on their way from a frame
  into an event and back from a log; an order may end exactly with a level.
* **Alarms.** Gap, stale and checksum counters are what operators look at: a
  fault must not be counted for every message it causes to be dropped, and
  legal keepalives, seqId jumps and resets must not count as faults.

`PROJECT.json` lists each hazard at its line with the properties that cover it.

## 2. Modules

| module | models |
|---|---|
| `Book` | a book as a value; `applyLevels`, `applySnapshot`, `applyDelta`, `clear`; the ladder a checksum covers |
| `BookLevels` | the loop inside `applyLevels`, one level per step |
| `SequenceValidator` | `validate`, `verifyChecksum`, `reset` over a record of the validator's members |
| `ReconnectPolicy` | the delays `delayForAttempt` may return |
| `FeedClient` | FeedClient's members as variables, one action per critical section |
| `LiveFeed` | FeedClient on its source, with the session, the network and the venue; the system that is checked |
| `SettledFeed` | `LiveFeed` with what the client has been told of the venue's current book, for `Converges` |
| `OrderBookSync` | the abstract specification: what a synchronised copy of a book promises |
| `OkxWebSocketSource` | the source's threads: callers, liveness worker, message callback, both locks |
| `FeedSource` | the abstract specification of a source: what its client may rely on |
| `Parity` | `replayInto` fed with what the live client of `LiveFeed` records |
| `EngineServer` | main(), the feed thread and the HTTP server's threads around one client |
| `PublishedView` | the abstract specification: what a published view promises |
| `EventsSocket` | the dashboard's event socket: callbacks, timer, disposer |
| `Dashboard` | the page on top of it: polls, pushed events, status rules |
| `Decoder` | `decodeFrame` in both formats |
| `EventLog` | `record` and `next`, and the file between them |
| `ExecutionSimulator` | the walk of a market order through a book |
| `MCLiveFeed`, `MCSettledFeed`, `MCParity`, `MCDashboard`, `MCAlgorithms` | values of the constants for TLC; the last puts the pure modules side by side |
| `Book_proofs`, `Algorithms_proofs`, `LiveFeed_proofs`, `Pipeline_proofs`, `OkxWebSocketSource_proofs`, `Parity_proofs`, `EngineServer_proofs`, `Dashboard_proofs` | lemmas and theorems |

`LiveFeed` EXTENDS `FeedClient`, which EXTENDS `SequenceValidator` (which
EXTENDS `Book`) and `ReconnectPolicy`. `Parity` and `SettledFeed` EXTEND
`LiveFeed`, `Dashboard` EXTENDS `EventsSocket`, `EventLog` EXTENDS `Decoder`, and
`BookLevels` and `ExecutionSimulator` EXTEND `Book`.
`EngineServer` takes the client as `LiveFeed` shows it from outside, and
`Dashboard` takes the engine as `EngineServer` does.

### Correspondence

*Book.* A side is a function from quoted prices to sizes. A message's side is
the function from the prices it mentions to the last size given to each;
`BookLevels` justifies that, since `LoopIsOverlay` holds after every iteration
of the code's loop. Numbers are exact: the book only stores, compares and
erases on zero. The CRC32 is represented by the ladder it is computed over.

*SequenceValidator.* `verdict` is the chain of returns of `validate`, in their
order; `Accepting` and `effectiveSequence` are what it writes and returns when
it accepts. `Mode` and `Policy` are constants, as they are for one client.

*FeedClient.* Each variable is a member. Times are kept as distances from now:
`untilDue` for `reconnectDueAtNs_`, `sinceMessage` for `lastMessageNs_` (the
empty set is the value 0, "no message yet"). `reconnectAttempt` saturates at
`ExponentCap`, beyond which `delayForAttempt` does not distinguish attempts.
`handleFrame` is one critical section with five outcomes: HandleMalformed,
HandleStale, HandleGap, HandleAccepted, HandleMismatch. The call of
`resubscribe()` that may follow the unlock is a step of its own
(`callback = "resubscribe"`), and so is each `connect()` or `disconnect()` of
the host thread (`host`). Between them the other thread may run. `CallsHoldingMutex`
names the calls into the source that the host makes inside the scope of its lock.
There are none; were `disconnect()` one, the callback that it waits for would wait
for the mutex (`MutexFree`), which is the mutant of `StopCompletes`.

*LiveFeed.* `link` is the source's session, `Open` its Open callback (which
subscribes by itself before it emits Connected, so each session subscribes
twice), `EndSession` its Close or Error callback, `Connect` and `Disconnected`
the joins that `connect()` and `disconnect()` wait for, `Abandon` a handshake
that `disconnect()` gives up without a callback. The venue has a
history of books, answers every subscription with a snapshot, sends one delta
for each change, and may add keepalives; `wire` is what is in flight. A
disturbance is a refused handshake, a dropped session, or a message that is
lost, duplicated, reordered, undecodable, wrongly linked, repeated under its
seqId or altered. `seen` is a history variable, read by no action.

*SettledFeed.* Two more history variables, about the venue's current book and the
current session: `told`, that the client has read a message which names its seqId,
and `missed`, that such a message was lost or became undecodable.

*OkxWebSocketSource.* `pc` says where each thread is: any number of host threads,
the worker and the library's thread ("none" when there is no such thread;
"exited" for a worker that has returned and can be joined). `flags` are the six
booleans that `mutex_` guards, `handle` whether `handle_` is set. A critical
section that calls nothing is one step, taken when `mutex` is free; `sendText`
is two, `Send` and `Sent`, and holds `mutex` between them, since it calls the
socket under it. `resubscribe` is `Resubscribe` and then a `sendText`: the lock
is free in between. The members of `lifecycle` hold `lifecycleMutex_` from
`LockLifecycle` until they return. `wait_for` may return at any time, so the
worker needs no notification to move; a round that finds nothing to do is no
step. `silence` is the time since `lastActivityNs_`. The client's handler is a
point of the callback thread (`"handler"`), from which it may re-enter
`resubscribe()`. `reported`, the last state emitted, is a history variable.

*Parity.* `Deliver` also feeds the replay if the frame decodes, which is when a
recorder would get it. `ReplayAccepted`, `ReplayStale` and `ReplayGap` are the
three cases of the loop's switch.

*EngineServer.* `worker` is the feed thread: `loop`, the two reads, `publish`,
`stop`. `feed` logs what the client showed, oldest first, and `reads` and `view`
are positions in it, so that "older" has a meaning; the client moves by itself,
in the four ways `LiveFeed` moves what book() and health() return. `main` is
main(), with `http.stop()` in its three parts. `conn` is where each detached
connection thread is. A signal may come at any time, and so may the end of the
process (`Terminate`), when a thread cannot parse a Content-Length.

*EventsSocket, Dashboard.* An action is one callback of the browser's event loop.
Sockets and timers are numbered and reused, two at a time, which is one more
than the code means to have. The engine has a sequence of views; an answer or
an event carries the view served when it was made, and arrives whenever it
likes. A book on the page is a pair of views, that of its depth and that of its
label, since a pushed event replaces only the latter. Ages are counted in polls,
and the two limits of `status.mjs` are 3 and 4 of them.

*Decoder, EventLog.* A JSON value is its kind and, if it is an integer or a
numeral, that integer. `MaxInt` stands for the largest `std::int64_t` and every
integer keeps its width: a literal is stored as unsigned, signed or double, and
`ToSigned` wraps. A line of the log is a record of its fields. A write may be cut
short, anywhere or just before the end of the line, or write nothing. `stream` is
then failed, as it is when the file could not be opened, and this Recorder writes
nothing more; what the next one (`NewRecorder`) writes first runs on.
A behaviour decodes and records frames, then reads the file line by line
(`ReadLine` is an iteration of the loop in `next()`). `attempts`, and the `line`
of each event read, are history: they tell which event came from where.

*ExecutionSimulator.* `WalkLevel` is an iteration of the loop of `execute`, and
`Result` what it returns. Amounts are exact, in 1/`Scale` of a unit, so that a
notional divides by every price; the relative epsilon of the code becomes equality
with zero. `trail` keeps the running totals after every level walked, of which the
code has the last. `SpendTheSame` executes a second order on the same book, for
what the first one cost; `earlier` is the first one.

External, modelled from what the code assumes of them: the WebSocket library
(one callback at a time; stop waits for the callback; no automatic redial, which
the code disables), the browser, the network and the venue. Of the vendored JSON
library the model has the storage and the conversion of integers, from its source.

## 3. What is checked

Properties of `LiveFeed`, all defined with a comment in the module:

* `SyncSpec`: refinement. `OrderBookSync` has no messages or threads: the copy
  is unavailable and shows nothing, or shows a book of the venue exactly; it
  comes to be at a book no older than any it has shown, or is given up. The
  mapping takes the version from the validator's `lastSeqId_` and the content
  from the book, so a step that changes one and not the other is neither a step
  nor a stutter of the abstract machine. It holds as long as snapshots are not
  disturbed: when an old one is replayed after a newer one, the client goes back
  in time, to a book that is nevertheless exact. OKX snapshots carry nothing to
  detect that with.
* `BookIsTruth`: the state part of that promise, which holds for disturbed
  snapshots too.
* `SequenceMirrorsValidator`, `InvalidatedIsEmpty`: book, validator and health
  move together on every path.
* `RecoveryInFlight`: dropping unanchored deltas silently is safe because a
  snapshot is on its way.
* `AlarmsAreEarned`, `NoFalseAlarm`: the counters. `AlarmsAreEarned` compares the
  alarms with all disturbances so far, drops and keepalives included, which raise
  none; that these alone raise none is what `NoFalseAlarm` adds.
* `TopOfBookVerified`: what a checksum buys when levels are altered.
* `PhaseTracksLink`: the reconnect state machine, from start to stop.
* `Resynchronises`, `Redials`, `StopCompletes`: liveness. `StopCompletes` is also
  the absence of a deadlock between the host and the callback thread it waits for.
* `Converges` (in `SettledFeed`): once the venue and the network have settled, a
  connected client shows the venue's current book for good. There is one exception,
  which the code cannot avoid: every message of this session that named the current
  seqId was lost or undecodable (`missed /\ ~told`). Any one that is read brings the
  book up to date, a keepalive without levels included: it does not connect, the gap
  is noticed and a snapshot asked for. The mutant takes such a keepalive for no news.

| run | question | bounds |
|---|---|---|
| Lossy | is the copy right, and honest, on a lossy stream? | 3 books, 3 in flight, 2 disturbances of deltas |
| Reconnect | do sessions, resets and stop interleave well, and silently? | 2 books (the second with a lower seqId), 4 drops, refusals and keepalives |
| Checksum | are altered levels caught? | SequenceAndChecksum; keepalives, losses, reorderings, alterations, misanchored snapshots |
| Arrival | the local counter, resets and failures | Arrival mode with checksums |
| Liveness | does it recover, catch up, redial and stop? | 3 books, 2 in flight, 2 disturbances: drops, refusals, keepalives, repetitions; deltas lost, undecodable, reordered |
| Parity | does a replay meet the live client again? | SequenceAndChecksum, 3 books, 2 in flight, 2 drops, losses, repetitions or alterations of any message |
| ReadyMeansAnchored, DownIsNotReady | two sentences of the documentation (section 6) | smallest instance |

Why the bounds are enough. Three books give a jump of seqId forward and a
maintenance reset to a lower one (seqIds 5, 9, 2), and a version that can be
skipped in between. The two changes of `MCChanges` do not commute and one
deletes a level, so that order, repetition and omission all show in the book.
A wire of three holds a snapshot, a delta behind it and one more to overtake
them. Two disturbances give a fault during the recovery from another one.
`Reconnect` has four, for drops in successive phases and backoff up to
truncation. `Liveness` leaves duplicates to `Lossy` (to the client they are stale or a gap, which
repetitions and losses also are) and has the shortest staleness, of which none of
its properties speaks. A depth of 1 with three prices puts levels both inside and outside
the part a checksum covers. Sequence ids are unique per book
(`SeqIdsAreUnique`); see section 7.

Properties of `OkxWebSocketSource`:

* `Contract`: refinement of `FeedSource`. Connecting, Connected and Disconnected
  are each emitted once a session, in that order, frames only in between, no
  handler while another runs, and no Connecting before the last handler of the
  previous session has returned. A session that was established never goes
  without its Disconnected. These are the assumptions `LiveFeed` makes of its
  source (one callback at a time, `Connect` only with the callback idle).
* `SocketOutlivesItsUsers`, `ReapingIsExclusive`, `QuietAfterDisconnect`: the
  lifetime of sockets and threads.
* `ConnectIsNotSwallowed`: the early return of `connect()` never leaves a client
  that was told Disconnected without a new session.
* `CallsReturn`, `DeadSessionRetires`, `UpgradeReconnects`,
  `SilentPeerIsDropped`: liveness.

| run | question | bounds |
|---|---|---|
| Source | do the threads keep the promise, whoever calls, and does every call return? | 2 host threads, timeouts of 1 |

Two host threads are one more than the program has: the header promises that
reaping and spawning are atomic "even if a future caller violates the
single-host-thread convention". Timeouts of 1 give the three cases the worker
distinguishes: no ping due, ping due, deadline passed. Sessions, messages and
calls are unbounded; the state space is finite without bounds on them.

Properties of `Parity`: `ReplayIsLive`. A replay knows nothing of drops, failed
checksums and resubscriptions, and may keep a book where the live client has
none; whenever the live client has a baseline, the two have the same book and
the same validator. The mutant replays a snapshot as a delta.

Properties of `EngineServer`:

* `ViewSpec`: refinement of `PublishedView`. A view served pairs a book with a
  health that is no older, and is itself no older than any view served before.
  So what a request sees may be torn, but in one direction only: a book of one
  moment with the readiness of a later one. A book discarded since is not shown
  as ready on the word of an older health; an empty one may be, on that of a
  newer (section 6).
* `ClientOutlivesItsUsers`: thread lifetimes on every path out of main(), the
  taken port included. It covers the client and not `api` and `http`, which are on
  main()'s stack too (section 6).
* `ShutdownCompletes`: a signal or a taken port ends the process whatever the
  peers do. It does not say that the server keeps accepting: an accept loop that
  has ended for lack of descriptors does not start again.
* `ViewCatchesUp`: a settled client is served, book and health, unless a signal, a
  taken port or a request has ended the process.

Properties of `Dashboard`:

* `OneStreamWhileMounted`: exactly one of stream and retry while mounted, in
  whatever order sockets fail; neither afterwards.
* `DepthNeverGoesBack`: no answer replaces a newer depth. It rests on the
  in-flight flag, since the page compares no sequence numbers.
* `PageConverges`: depth, label, health and stream of a reachable engine all
  become current.
* `OutageShows`: an engine that is lost makes the book stale and the API
  unavailable, or never known.

Properties of the pure modules, over every small input:

* `LoopIsOverlay`: the level loop amounts to the last size for each price.
* `FillsBestFirst`, `SizingsAgree`, `SlippageIsACost`: the walk equals a definition
  without a loop (each level gives what all better ones leave over); spending
  what a quantity cost buys it again; the absolute value hides no gain.
* `DecodeIsExact`: a frame decodes iff its integers lie in their domains, and to
  exactly those.
* `LogReadsBack`: what was decoded comes back from the log unchanged, in order,
  but for lines cut short, what the failed stream was given afterwards, and the first
  line of the next Recorder.

| run | question | bounds |
|---|---|---|
| Server | startup, publication and shutdown in every interleaving | 5 states of the client, 1 connection at a time, live and replay |
| Dashboard | the page against an engine that changes, fails and is lost | 2 views, 1 failure before the loss, any number after, 2 sockets, 2 requests a path |
| Algorithms | the pure modules | see below |

Five client states hold a baseline, an invalidation, a drop and a reconnect. One
connection thread is enough because they share nothing the properties are
about; the theorems are for any number. In `Dashboard` one failure that the
page survives precedes the loss, after which every request and connection
fails. `Algorithms` has 3 prices, sizes 0..2, messages of 3 levels on every
starting side, and on each of the books so built, orders of both sides,
sizings and several sizes. Its integers are small stand-ins (`MaxInt` in the
cfg) and every field takes every kind and every value from just below the
lowest to just above the highest of both types, two fields at a time; logs have
one such frame or several ordinary ones with a torn write between any two.

Deadlock is checked in Source, Server and every LiveFeed run: a client that is
not stopped can always go on, and the ends of the others are steps of their own.
It is off in Algorithms, where a computation ends, and in Dashboard, where an
unmounted page may have nothing left to do.

Every property of a passing run is paired in `PROJECT.json` with a mutant (the
`Bug_` operators) that a plausible bug would amount to, and that TLC must
detect. Several runs answer several questions of one scenario, to keep their
number small.

### Fairness

`Fairness` gives weak fairness to the host's `start`, to its reconnecting tick
(the feed thread ticks every 100 ms for as long as it runs,
`server/src/main.cpp:149-159`), to the returns of `connect()` and
`disconnect()`, to each callback finishing and the socket being read
(the library's thread does nothing else), to handshakes completing (with
success: a failure is a disturbance, and they are finitely many), to the venue
answering subscriptions, and to time. There is none for `stop`, for drops, for
faults, for a change of the venue's book or for keepalives. Weak fairness is
enough throughout: each of these actions stays enabled until it is taken or its
session ends, and sessions end finitely often.

In `OkxWebSocketSource` every thread has strong fairness: a thread waiting for a
lock that is free again and again gets it. `std::mutex` does not promise that,
but every critical section is short, and no thread takes a lock in a loop
without waiting in between. `Send` is followed by `Sent`: the library's `send`
returns. A socket being stopped closes or gives up its handshake. Nothing
obliges the host to call or the venue to send, answer or close.

In `EngineServer` main(), the feed thread and the accept thread are scheduled
(weak fairness: none of them waits for a lock that another holds for long), the
client's stop() returns, which is `StopCompletes`, and accept() returns once its
socket is closed, which `HttpServer::stop` brings about with shutdown(). No peer
has to connect, send or leave, and no signal has to come.

In `Dashboard` the browser's interval and timers fire, and a fetch or a closing
socket ends one way or another. The last is the browser's doing: the page has no
timeout of its own, and a fetch that never ended would stop its path's polls.
An engine that can be reached completes handshakes, answers and pushes.

## 4. What is proved

| theorem | for every value of the constants |
|---|---|
| `LoopImplementsOverlay` (Algorithms_proofs) | `Spec => []LoopIsOverlay` |
| `FillIsBestFirst`, `SizingsAlwaysAgree`, `SlippageCosts` (same) | `SpecSimulator => []` of FillsBestFirst, SizingsAgree, SlippageIsACost |
| `DecoderIsExact`, `LogRoundTrip` (same) | `SpecLog => []` of DecodeIsExact, LogReadsBack |
| `TypeCorrect` (LiveFeed_proofs) | `Spec => []TypeOK` |
| `BookIntegrity` (same) | in OkxSequenced mode and without altered levels, `Spec => []BookIsTruth` |
| `ClientImplementsSync` (Pipeline_proofs) | in OkxSequenced mode, without altered levels and with snapshots undisturbed, `Spec => SyncSpec`, the refinement of OrderBookSync |
| `RecoveryIsComing` (same) | in OkxSequenced mode, with snapshots undisturbed, `Spec => []RecoveryInFlight` |
| `ChecksumProtects` (same) | under SequenceAndChecksum, `Spec => []TopOfBookVerified` |
| `DropsAreQuiet` (same) | in OkxSequenced mode, where sessions drop but no stream is disturbed, `Spec => []NoFalseAlarm` |
| `OneAlarmPerFault` (same) | in OkxSequenced mode, `Spec => []AlarmsAreEarned` |
| `PhaseIsRight`, `PublishedSequence`, `NothingLeftBehind` (same) | `Spec => []` of PhaseTracksLink, SequenceMirrorsValidator, InvalidatedIsEmpty |
| `ReplayParity` (Parity_proofs) | in OkxSequenced mode, `ParitySpec => []ReplayIsLive` |
| `SourceTypeCorrect` (OkxWebSocketSource_proofs) | `Spec => []TypeOK` |
| `SocketSafe`, `ReapingSafe`, `DisconnectIsQuiet` (same) | `Spec => []` of SocketOutlivesItsUsers, ReapingIsExclusive, QuietAfterDisconnect |
| `SourceImplementsContract` (same) | `Spec => Contract`, the refinement of FeedSource |
| `ClientLifetime` (EngineServer_proofs) | `Spec => []ClientOutlivesItsUsers` |
| `ViewRefinement` (same) | `Spec => ViewSpec`, the refinement of PublishedView |
| `OneStream` (Dashboard_proofs) | `Spec => []OneStreamWhileMounted` |
| `DepthIsMonotonic` (same) | `Spec => DepthNeverGoesBack` |

So integrity holds for any number of prices, books, messages in flight, faults
and sessions, and for both integrity policies; a replay agrees with the client
under the same generality and altered levels too; the threads of the source are
safe for any number of host threads, and those of the server for any number of
connections. An order is filled rightly on every book, an event survives the log
whatever its numbers and however wide the integers, and the page never shows
an older depth however many requests and sockets there are.

*Assumptions* are those of the modules: prices and sizes are naturals (prices
positive), and constants are in range (`BookAssumption`,
`ValidatorAssumption`, `PolicyAssumption`, `ClientAssumption`,
`VenueAssumption`, `TimeoutAssumption`), threads and the free lock's owner are
distinct (`ThreadAssumption`), a page can have a socket (`SocketAssumption`),
every price divides `Scale` (`SimulatorAssumption`), the frames that arrive are JSON
values of the shapes `decodeFrame` reads (`DecoderAssumption`, `LogAssumption`),
and no seqId belongs to two books (`SeqIdsAreUnique`).
TLC evaluates each of them in the runs.

*Argument for BookIntegrity.* `BookIsTruth` is not inductive: accepting a delta
keeps it only if the delta is what it claims to be. `IntegrityInv` adds
`AllHonest`: every message in flight is undecodable, or a snapshot that wrongly
names a predecessor, or the exact snapshot of some version, or a delta that
names the version it was computed from and leads to the next one or repeats
its seqId; and `Synced`, which says with a witness what `BookIsTruth` says with
`CHOOSE`. Faults keep `AllHonest` because it speaks of each message by itself
and never of their order. An accepted delta names `lastSeqId_` as its
predecessor; seqIds being unique, that is the version the book is at; so the
result is the next version. If it repeats the seqId it is accepted only without
levels, and changes nothing. The lemmas of `Book_proofs` say that applying a
snapshot restores its content, and that applying no levels changes nothing.

*Arguments for the pipeline.* The refinement adds the order of what is in flight
(`OrderInv`): nothing on the wire is ahead of the venue or, before a snapshot,
ahead of that snapshot, and no snapshot is older than what has been shown. Faults
that touch deltas alone keep it, since they cannot carry a delta across a
snapshot. An accepted delta leads to the version the client has shown last or to
the next one, so accepting is always a step forward of the abstract machine.
`RecoveryInv` follows the one request the client makes: it is about to be sent,
unanswered, or answered by a snapshot on the wire, and no step removes the last of
these without an anchor or a new request. For the checksum, `AllChecked` says that
a message in flight names a version and carries that version's checksum, which no
fault alters; an event is kept only if the book after it has that checksum. For
the absence of false alarms, `Chain` says that the messages in flight lead from
where the client is to where the venue is; then the invariants of integrity and
checksum exclude a mismatch.

*Argument for the alarms.* A fault and its alarm are apart in time: the message that
follows a lost one may be in flight for long. So `AlarmsAreEarned` needs a bound on the alarms
that are still to come, and these depend on where the client is when it reads on: its
base, which is `lastSeqId_` or nothing. A *table* says for every base how many alarms
reading the rest of the wire raises at most. It is even: having a base costs at most one
alarm more than having none, since the alarm that is raised takes the base away. Reading
a message first (`Preceded`) gives the next table, and what it does depends on no more than
the message's kind: undecodable, a repetition, altered, a snapshot, an update. `BudgetInv` says
that there is a table for each suffix of the wire, and that the alarms so far and those the
first table promises the client are covered by the disturbances so far. The venue's own
messages add nothing to any table; a fault adds one to the tables before it, because tables
are even (loss), monotonic (damage), and change by at most one when two messages change
places (`PrecededSwapped`). Reading pays what the table promised. A client whose
copy an altered message has spoilt unnoticed (`Tainted`) is granted one alarm from any base.

`PhaseInv` extends `PhaseTracksLink` to the moments
in which a call or a callback is in progress.

*Argument for the source.* None of the three invariants is inductive: that no
socket is destroyed in use depends on who holds `mutex`, on which part of
`runWorker` the worker is in, and on that part being the only one in which a
callback thread exists. `IInv` says so: `LocksHeld` (a lock is held by the thread
that is where the code holds it), `HandleHeld` (the handle is there from
`Install` to `Cleanup`, the callback thread from `StartSocket` to the end of the
last `stop()`), `SlotHeld` (no worker between the join and the spawn) and
`StopHeld` (a worker asked to stop is being joined). For the refinement
`ReportedFits` adds what the client was last told at each point of the callback
thread; with it each action is one step of `FeedSource`, or none.

*Argument for parity.* The live client and the replay judge with the same
operator, but the live one resets more often. The invariant says that they agree
whenever the live client has a baseline. Without one the live client accepts
nothing but an anchoring snapshot, which every validator accepts, whatever the
replay believes at that moment, and which replaces any book. With one they are
in the same state and take the same step, up to a checksum failure, which
leaves the live client without a baseline.

*Argument for the server.* `ClientOutlivesItsUsers` becomes inductive with where
main() is when it destroys the client. The refinement adds the order of the
positions: what is being read is no older than what is published, and nothing
is beyond the end of `feed`.

*Argument for the simulator.* The invariant (`SimulatorInv`, `IsWalk`) says of
the whole trail what one iteration adds: each step takes the best level not passed
yet, and takes all of it or exactly what is left. For `FillsBestFirst` the levels
passed before a level are then the better ones, and the totals are sums over the
levels passed. Those sums are folds, which the provers cannot unfold: an
inductive definition is available only through a table. `SumIsTable` shows that
the sum over a finite set does not depend on the order in which a fold picks its
elements, from which follows what a proof wants, that taking an element out of a
set takes its value out of the sum. Inductions are written as arguments by the least
element or the smallest set (`LeastElement`, `SmallestSet`). For `SizingsAgree` the
second walk is compared with the first level by level (`InStep`): as long as the
notional left is the cost of what the first still took, both take the same from the
next level. Slippage follows because no level is better than the best quote.

*Argument for the log.* Every number of a decoded event is one that a line holds
and `next` reads as itself, and levels that parsed once parse again. `FileInv` maps
attempts to lines in order: a line that one event has to itself holds exactly its
record, and every other line is junk. `ReaderInv` says that what has been returned
is those events, in the order of their lines.

*Argument for the dashboard.* One stream (`SocketInv`): until the disposal the only
socket in use is the one stored last, or there is none and the only timer is the one
stored last, so the disposer, which knows no others, silences whatever there is.
Depth (`PollInv`): a path has at most one request under way, since it is marked in
flight until it ends, and an answer under way was served after whatever is on the
page.

*Only model-checked:* everything temporal but the refinements and
`DepthNeverGoesBack`: TLAPS has neither fairness nor ENABLED within its reach. Every
invariant that a run checks is a theorem, under the hypotheses of the table.

## 5. Bounds and abstractions that matter

* A version number stands for nothing in the code; it exists to state
  properties.
* In `LiveFeed` frames that cannot be decoded are one status; `Decoder` says which
  they are.
* Disturbances are finitely many in a behaviour, so liveness is about what
  happens once the world behaves.
* A `timestamp_ns` that was stored as a double is malformed in `EventLog`, where
  `next()` truncates it. A Recorder writes integers only.
* The snapshot that answers a request is not lost in `Lossy` and `Liveness`
  (`Targets = {"Delta"}`): the code asks once and has no timeout for a baseline
  that does not come, so nothing but a dropped session heals that.
* Altered levels (`Corrupt`) are left out where no checksum is verified: no
  sequence rule can detect them.

## 6. Where the code and the documentation differ

* `ReadyMeansAnchored`. `FeedClient.h:73-75` says simulations are refused while
  there is "no snapshot yet". `resetPipelineLocked`, on every Connected, clears
  book and baseline but not `bookReady`: after a reconnect, until the snapshot
  arrives, the client is ready with an empty book.
* `DownIsNotReady`. `README.md:89-90` says that a live engine that cannot
  connect reports `bookReady: false`. That holds before the first snapshot; after a
  drop the Disconnected branch leaves `bookReady` true with the old book.

* `OkxWebSocketSource.h:88-89` says that every access to `handle_` holds
  `mutex_`, "no exceptions". `runWorker` reads it without the lock at 255, 287
  and 297 (actions `StartSocket` and `Stop`). `SocketSafe` shows why nothing
  comes of it: only the worker itself replaces the handle.
* `OkxWebSocketSource.h:102` says `resubscribe()` is driven by the host thread;
  `FeedClient.cpp:92` and `:219` call it on the callback thread. The model
  allows both.
* `Replay.h:23-25` says a replay is judged "exactly like the live stream", and
  `parity_test.cpp:35-36` that the test "Mirrors FeedClient::handleFrame exactly".
  Neither verifies checksums, stamps arrival numbers or resets on a reconnect,
  so a replay may show a book where the live client had discarded it, until the
  next snapshot. `ReplayIsLive` is what does hold. (In Arrival mode the replay
  keeps the sequence numbers of the log and nothing of the kind is claimed.)
* `ApiServer.cpp:213` says "Never simulate against an unavailable or invalidated
  book". The gate is `bookReady` alone, which is true with an empty book after a
  reconnect (`ReadyMeansAnchored`), after a torn read (`main.cpp:152-156`), or in
  replay mode when the log ends in a gap (`main.cpp:170`).
* `main.cpp:211` prints "clean exit" and `docs/deployment.md:22` promises one, but
  connection threads are detached (`HttpServer.cpp:262`) and may still be using
  `api` and `http`, which are locals of main(). `ClientOutlivesItsUsers` is about
  the client, which they do not touch.
* `ApiServer.cpp:102-103` says CORS grants are "never a blanket "*"";
  `HttpServer.cpp:352` sends one with every answer.
* `page.tsx:119` says the last health is kept "until it expires". It never does;
  the freshness of the book is what withdraws "verified" (`OutageShows`).
* `TradeSimPanel.tsx:12` takes the book's sequence number for that of its depth; a
  pushed event replaces the number and keeps the depth (`page.tsx:48-53`).
* `Recorder::record` returns true for a line that continues a torn one of an
  earlier process and is unreadable (`LogReadsBack` allows for it).

## 7. Not modelled

`SeqIdsAreUnique` excludes a venue that reuses a seqId for another book after a
maintenance reset. With the single rule `prevSeqId == lastSeqId_` no client
could tell a delta on the old book from one on the new.

Of the source, the tallies of `health()` and the wording of requests are left
out. In `LiveFeed` a `resubscribe()` fails to send only if there is no session: a
send that fails on an open socket means a session about to end, which is a drop. The socket library is taken to deliver every message on its own thread: if
its `send` reported a failure by calling back on the sending thread, `sendText`
would wait for the `mutex_` it holds; the repository does not say that it does.

Of the server, `stop()` writes `listenFd_` while the accept thread reads it. Every
value the thread can read makes accept() fail, unless the number has meanwhile
been given to another listening socket, which the process does not have.

Of the simulation, fees, rates in basis points and depth bands: linear functions
of the modelled fill. Rounding of doubles is out of reach throughout.

Not modelled at all, and why: HTTP, JSON and CORS text handling, SHA-1, base64
and WebSocket frame headers, configuration and rendering transform text and keep
no state; `Metrics` is read by benchmarks alone; the legacy console
(`src/console`, `src/src/models`) is a superseded demo in which one mutex guards
one copy of a book. The vendored Dear ImGui makes up some 55 of the repository's
59 thousand lines of implementation; it is third-party code without a part in
the engine, and the reason why the mapped lines are so small a share of all.

Left to check: `LiveFeed` and `EngineServer` composed action by action, rather than
through what the former shows of itself.

## 8. Running

    tlc -workers 2 -config Lossy.cfg MCLiveFeed.tla
    tlc -workers 2 -config Algorithms.cfg MCAlgorithms.tla
    tlc -workers 2 -config Source.cfg OkxWebSocketSource.tla
    tlc -workers 2 -config Server.cfg EngineServer.tla
    tlapm LiveFeed_proofs.tla
    tlapm Pipeline_proofs.tla
    tlapm Algorithms_proofs.tla
