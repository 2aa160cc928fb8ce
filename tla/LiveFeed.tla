------------------------------ MODULE LiveFeed ------------------------------
(***************************************************************************)
(* The live pipeline end to end: FeedClient on top of a FeedSource, the    *)
(* connection to the venue, and the venue's own book, the truth that the   *)
(* client's copy is compared with.                                         *)
(*                                                                         *)
(* The source is OkxWebSocketSource seen from the client: which calls      *)
(* return when, and which callbacks arrive in which order.  Its socket,    *)
(* the network and the venue are external.  The venue streams a snapshot   *)
(* for every subscription request, then one delta per change of its book,  *)
(* chained by prevSeqId, and no-change keepalives (core/src/Decoder.cpp    *)
(* and the sequence rule of core/src/SequenceValidator.cpp are all the     *)
(* client assumes about it).                                               *)
(*                                                                         *)
(* Disturbances, at most MaxDisturbances of them, are everything the venue *)
(* and the network may do to the stream besides delivering it.             *)
(***************************************************************************)
EXTENDS FeedClient, Sequences

CONSTANTS
    OpeningBook,        \* the venue's first book
    Changes,            \* the changes the venue may make to its book
    MaxVersion,         \* bound: how many books the venue has in a behaviour
    SeqId,              \* SeqId[v] is the seqId of the venue's v-th book; it
                        \* may jump forward or move lower (maintenance reset)
    MaxWire,            \* bound: messages in flight
    MaxDisturbances,    \* bound: disturbances in a behaviour
    Disturbances,       \* the kinds of disturbance that happen
    Targets             \* the types of message that are disturbed in flight

DisturbanceKinds ==
    {"close", "refuse", "keepalive", "repeat",
     "lose", "duplicate", "reorder", "garble", "unanchor", "corrupt"}

ASSUME VenueAssumption ==
    /\ MaxVersion \in Nat \ {0}
    /\ MaxWire \in Nat \ {0}
    /\ MaxDisturbances \in Nat
    /\ Disturbances \subseteq DisturbanceKinds
    /\ Targets \subseteq {"Snapshot", "Delta"}
    /\ OpeningBook \in Content
    /\ Changes \subseteq [bids : Levels, asks : Levels]

\* No seqId is ever used for two different books.
ASSUME SeqIdsAreUnique ==
    /\ SeqId \in [1..MaxVersion -> Nat]
    /\ \A v, w \in 1..MaxVersion : SeqId[v] = SeqId[w] => v = w

VARIABLES
    link,           \* the source's session: "down", "opening" or "up"
    requests,       \* subscription requests the venue has yet to answer
    subscribed,     \* the venue is streaming on this session
    wire,           \* messages from the venue, oldest first
    history,        \* the venue's books, oldest first
    disturbances,   \* disturbances so far
    seen            \* history variable: the newest version the client held

venueVars == <<link, requests, subscribed, wire, history, disturbances>>
vars == <<clientVars, venueVars, seen>>

-----------------------------------------------------------------------------
(***************************************************************************)
(* Messages.                                                               *)
(***************************************************************************)

\* The venue's current version, and its book.
Latest == Len(history)
Current == history[Latest]

\* SequenceOnly venues send the deprecated checksum 0, which is also the
\* checksum of an empty book.
ChecksumFor(content) ==
    IF Policy = "SequenceOnly"
    THEN {computeTopOfBookChecksum(EmptyContent)}
    ELSE {computeTopOfBookChecksum(content)}

SnapshotMessage ==
    [status |-> "Ok", type |-> "Snapshot",
     sequence |-> SeqId[Latest], prevSequence |-> {-1},
     bids |-> Current.bids, asks |-> Current.asks,
     checksum |-> ChecksumFor(Current)]

DeltaMessage(change, prev, seq, content) ==
    [status |-> "Ok", type |-> "Delta",
     sequence |-> seq, prevSequence |-> {prev},
     bids |-> change.bids, asks |-> change.asks,
     checksum |-> ChecksumFor(content)]

NoChange == EmptyContent

KeepaliveMessage == DeltaMessage(NoChange, SeqId[Latest], SeqId[Latest], Current)

SeqIds == {SeqId[v] : v \in 1..MaxVersion}

Message ==
    [status : {"Ok", "Malformed"}, type : {"Snapshot", "Delta"},
     sequence : SeqIds, prevSequence : SUBSET (SeqIds \cup {-1}),
     bids : Levels, asks : Levels, checksum : SUBSET Content]

-----------------------------------------------------------------------------
(***************************************************************************)
(* The source.                                                             *)
(***************************************************************************)

InitVenue ==
    /\ link = "down"
    /\ requests = 0
    /\ subscribed = FALSE
    /\ wire = <<>>
    /\ history = <<OpeningBook>>
    /\ disturbances = 0
    /\ seen = 0

Init == InitClient /\ InitVenue

Disturb(kind) ==
    /\ kind \in Disturbances
    /\ disturbances < MaxDisturbances
    /\ disturbances' = disturbances + 1

\* connect(): the previous session's threads have been joined, so its last
\* callback has returned; then Connecting is emitted and a session starts.
Connect ==
    /\ host = "connect"
    /\ callback = "idle"
    /\ link = "down"
    /\ host' = "running"
    /\ link' = "opening"
    /\ HandleConnecting
    /\ UNCHANGED <<callback, requests, subscribed, wire, history, disturbances, seen>>

\* The Open callback subscribes by itself before it emits Connected.
Open ==
    /\ link = "opening"
    /\ callback = "idle"
    /\ link' = "up"
    /\ requests' = 1
    /\ callback' = "opened"
    /\ UNCHANGED <<connection, pipeline, health, host,
                   subscribed, wire, history, disturbances, seen>>

\* resubscribe(), at the end of a handler that asked for it.  The socket refuses
\* to send only when it is no longer open: a request that fails is one of a
\* session that ends.
Resubscribe ==
    /\ callback = "resubscribe"
    /\ callback' = "idle"
    /\ requests' = IF link = "up" THEN requests + 1 ELSE requests
    /\ UNCHANGED <<connection, pipeline, health, host,
                   link, subscribed, wire, history, disturbances, seen>>

\* The session ends: nothing in flight on it will be delivered, and its Close
\* or Error callback is about to emit Disconnected.
EndSession ==
    /\ callback = "idle"
    /\ link' = "down"
    /\ requests' = 0
    /\ subscribed' = FALSE
    /\ wire' = <<>>
    /\ callback' = "closed"
    /\ UNCHANGED <<connection, pipeline, health, host, history, seen>>

\* The handshake fails.
Refuse ==
    /\ link = "opening"
    /\ Disturb("refuse")
    /\ EndSession

\* The venue or the network closes the session, or the liveness worker does
\* (missed pong, service-upgrade notice).
Close ==
    /\ link = "up"
    /\ Disturb("close")
    /\ EndSession

\* disconnect(): the worker stops the socket ...
StopSocket ==
    /\ host = "disconnect"
    /\ link # "down"
    /\ EndSession
    /\ UNCHANGED disturbances

\* ... which gives up a handshake without a callback, if it can, ...
Abandon ==
    /\ host = "disconnect"
    /\ link = "opening"
    /\ callback = "idle"
    /\ link' = "down"
    /\ UNCHANGED <<connection, pipeline, health, host, callback,
                   requests, subscribed, wire, history, disturbances, seen>>

\* ... and the host thread joins it, after the last callback has returned.
Disconnected ==
    /\ host = "disconnect"
    /\ link = "down"
    /\ callback = "idle"
    /\ host' = "stopped"
    /\ UNCHANGED <<connection, pipeline, health, callback, venueVars, seen>>

EmitConnected == HandleConnected /\ UNCHANGED <<venueVars, seen>>

EmitDisconnected == HandleDisconnected /\ UNCHANGED <<venueVars, seen>>

-----------------------------------------------------------------------------
(***************************************************************************)
(* The venue and the network.                                              *)
(***************************************************************************)

Versions == 1..Latest

\* The version the client's copy is at: 0 without a baseline.
VersionOf(v) ==
    IF v.hasBaseline
    THEN CHOOSE w \in 1..MaxVersion : SeqId[w] = v.lastSeqId
    ELSE 0

Larger(a, b) == IF a > b THEN a ELSE b

Deliver ==
    /\ link = "up"
    /\ wire # <<>>
    /\ handleFrame(Head(wire))
    /\ wire' = Tail(wire)
    /\ seen' = Larger(seen, VersionOf(validator'))
    /\ UNCHANGED <<link, requests, subscribed, history, disturbances>>

AnswerRequest ==
    /\ link = "up"
    /\ requests > 0
    /\ Len(wire) < MaxWire
    /\ requests' = requests - 1
    /\ subscribed' = TRUE
    /\ wire' = Append(wire, SnapshotMessage)
    /\ UNCHANGED <<clientVars, link, history, disturbances, seen>>

Publish(change) ==
    LET next == [bids |-> applyLevels(Current.bids, change.bids),
                 asks |-> applyLevels(Current.asks, change.asks)]
    IN  /\ Latest < MaxVersion
        /\ Len(wire) < MaxWire
        /\ history' = Append(history, next)
        /\ wire' = IF subscribed
                   THEN Append(wire, DeltaMessage(change, SeqId[Latest],
                                                  SeqId[Latest + 1], next))
                   ELSE wire
        /\ UNCHANGED <<clientVars, link, requests, subscribed, disturbances, seen>>

\* An extra message while streaming: a no-change keepalive, or a change
\* under the current seqId again.
SendExtra(kind, message) ==
    /\ subscribed
    /\ Disturb(kind)
    /\ Len(wire) < MaxWire
    /\ wire' = Append(wire, message)
    /\ UNCHANGED <<clientVars, link, requests, subscribed, history, seen>>

Keepalive == SendExtra("keepalive", KeepaliveMessage)

Repeat(change) ==
    SendExtra("repeat", DeltaMessage(change, SeqId[Latest], SeqId[Latest], Current))

Touchable == {i \in 1..Len(wire) : wire[i].type \in Targets}

Tamper(kind) ==
    /\ Disturb(kind)
    /\ UNCHANGED <<clientVars, link, requests, subscribed, history, seen>>

Lose ==
    /\ 1 \in Touchable
    /\ Tamper("lose")
    /\ wire' = Tail(wire)

\* A copy of a message arrives after everything now in flight.
Duplicate(i) ==
    /\ i \in Touchable
    /\ Len(wire) < MaxWire
    /\ Tamper("duplicate")
    /\ wire' = Append(wire, wire[i])

Reorder(i) ==
    /\ {i, i + 1} \subseteq Touchable
    /\ Tamper("reorder")
    /\ wire' = [wire EXCEPT ![i] = wire[i + 1], ![i + 1] = wire[i]]

\* The message cannot be decoded: it is not JSON, or a level or a sequence
\* number is missing or out of range.
Garble(i) ==
    /\ i \in Touchable
    /\ Tamper("garble")
    /\ wire' = [wire EXCEPT ![i].status = "Malformed"]

\* A snapshot names a predecessor, instead of carrying prevSeqId -1.
Unanchor(i) ==
    /\ i \in Touchable
    /\ AnchoringSnapshot(wire[i])
    /\ Tamper("unanchor")
    /\ wire' = [wire EXCEPT ![i].prevSequence = {wire[i].sequence}]

\* The message carries other levels than the venue meant.
Corrupt(i, change) ==
    /\ i \in Touchable
    /\ Tamper("corrupt")
    /\ wire' = [wire EXCEPT ![i].bids = change.bids, ![i].asks = change.asks]

-----------------------------------------------------------------------------

HostStep ==
    \/ Start /\ UNCHANGED <<venueVars, seen>>
    \/ Stop /\ UNCHANGED <<venueVars, seen>>
    \/ TickReconnect /\ UNCHANGED <<venueVars, seen>>
    \/ TickStale /\ UNCHANGED <<venueVars, seen>>
    \/ Connect
    \/ Disconnected

SessionStep ==
    \/ Open
    \/ Refuse
    \/ Close
    \/ StopSocket
    \/ Abandon
    \/ EmitConnected
    \/ EmitDisconnected
    \/ Resubscribe

SourceStep == SessionStep \/ Deliver

VenueStep ==
    \/ AnswerRequest
    \/ \E change \in Changes : Publish(change)
    \/ Keepalive
    \/ \E change \in Changes : Repeat(change)

NetworkStep ==
    \/ Lose
    \/ \E i \in 1..Len(wire) :
        \/ Duplicate(i)
        \/ Reorder(i)
        \/ Garble(i)
        \/ Unanchor(i)
        \/ \E change \in Changes : Corrupt(i, change)

TimePasses == Elapse /\ UNCHANGED <<venueVars, seen>>

\* The host has stopped the client: nothing else need happen.
Terminated == host = "stopped" /\ UNCHANGED vars

Next ==
    \/ HostStep
    \/ SourceStep
    \/ VenueStep
    \/ NetworkStep
    \/ TimePasses
    \/ Terminated

Spec == Init /\ [][Next]_vars

(***************************************************************************)
(* Fairness: the host keeps ticking its client and every call it makes     *)
(* returns; the callback thread finishes its handlers and reads the socket *)
(* until the session ends; a handshake succeeds or fails; the venue        *)
(* answers subscription requests; time passes.  Nothing obliges the host   *)
(* to stop, the venue's book to change, or a disturbance to happen.        *)
(***************************************************************************)
Fairness ==
    /\ WF_vars(Start /\ UNCHANGED <<venueVars, seen>>)
    /\ WF_vars(TickReconnect /\ UNCHANGED <<venueVars, seen>>)
    /\ WF_vars(Connect)
    /\ WF_vars(Disconnected)
    /\ WF_vars(Open)
    /\ WF_vars(StopSocket)
    /\ WF_vars(EmitConnected)
    /\ WF_vars(EmitDisconnected)
    /\ WF_vars(Resubscribe)
    /\ WF_vars(Deliver)
    /\ WF_vars(AnswerRequest)
    /\ WF_vars(TimePasses)

-----------------------------------------------------------------------------
(***************************************************************************)
(* Properties.                                                             *)
(***************************************************************************)

\* Every variable has its type.
TypeOK ==
    /\ phase \in {"Idle", "WaitingReconnect", "Connecting", "Connected"}
    /\ everConnected \in BOOLEAN
    /\ reconnectAttempt \in 0..ExponentCap
    /\ untilDue \in 0..MaxDelay
    /\ sinceMessage \in SUBSET (0..Staleness + 1)
    /\ health \in [state : {"Disconnected", "Connecting", "Connected"},
                   reconnects : Nat, sequenceGaps : Nat, malformedMessages : Nat,
                   staleRejected : Nat, checksumFailures : Nat,
                   messagesAccepted : Nat, stale : BOOLEAN, bookReady : BOOLEAN]
    /\ book \in [bids : Side, asks : Side, lastSequence : Nat]
    /\ validator \in [hasBaseline : BOOLEAN, lastSeqId : SeqIds \cup {-1},
                      arrivalCounter : Nat]
    /\ validator.hasBaseline => validator.lastSeqId \in SeqIds
    /\ host \in {"new", "connect", "running", "disconnect", "stopped"}
    /\ callback \in {"idle", "opened", "closed", "resubscribe"}
    /\ link \in {"down", "opening", "up"}
    /\ requests \in Nat
    /\ subscribed \in BOOLEAN
    /\ wire \in Seq(Message)
    /\ history \in Seq(Content)
    /\ Len(history) \in 1..MaxVersion
    /\ disturbances \in 0..MaxDisturbances
    /\ seen \in 0..MaxVersion

\* What book() shows is never a mixture: with a baseline it is exactly the book
\* the venue had at the accepted seqId, and without one it is empty, whatever
\* was lost, repeated, reordered or undecodable on the way (the README's "the
\* bad update is never applied").
BookIsTruth ==
    IF validator.hasBaseline
    THEN /\ VersionOf(validator) \in Versions
         /\ ContentOf(book) = history[VersionOf(validator)]
    ELSE ContentOf(book) = EmptyContent

\* The sequence number published with the book is the validator's: the
\* two are written by different objects on every accept, reset and invalidation.
SequenceMirrorsValidator ==
    book.lastSequence = IF Mode = "Arrival" THEN validator.arrivalCounter
                        ELSE IF validator.hasBaseline THEN validator.lastSeqId
                        ELSE 0

\* A book that is not ready is empty: no failure path leaves a usable
\* book behind (invalidateBookLocked).
InvalidatedIsEmpty == ~health.bookReady => ContentOf(book) = EmptyContent

\* A client without a baseline on a live session has a snapshot on its way: the
\* silent drop of unanchored updates in handleFrame can rely on a request made
\* earlier and not lost since.
RecoveryInFlight ==
    link = "up" /\ callback = "idle" /\ ~validator.hasBaseline =>
        \/ requests > 0
        \/ \E i \in 1..Len(wire) : wire[i].status = "Ok" /\ AnchoringSnapshot(wire[i])

\* When no call is in progress the reconnect state machine agrees with the
\* session of the source and with the state reported to /health: a dropped
\* session is always waited for, and none is waited for while one is live.
PhaseTracksLink ==
    /\ host = "running" /\ callback = "idle" =>
        CASE link = "up"      -> phase = "Connected" /\ health.state = "Connected"
          [] link = "opening" -> phase = "Connecting" /\ health.state = "Connecting"
          [] link = "down"    -> phase = "WaitingReconnect"
                                 /\ health.state = "Disconnected"
    /\ host = "stopped" => link = "down" /\ health.state = "Disconnected"

Alarms == health.sequenceGaps + health.staleRejected + health.checksumFailures

\* One fault raises at most one alarm: a discontinuity is counted once,
\* however many messages are dropped until the snapshot that heals it.  (An
\* undecodable message is counted as such as well; drops and keepalives, which
\* earn no alarm, are among the disturbances too, and NoFalseAlarm is about them.)
AlarmsAreEarned == Alarms <= disturbances

\* Without faults on the stream there are no alarms: drops and reconnects, the
\* two subscriptions of every session and keepalives break no continuity.
NoFalseAlarm == Alarms + health.malformedMessages = 0

\* With a checksum on every message, the ladder the checksum covers is the
\* venue's, even if levels were altered on the way.
TopOfBookVerified ==
    validator.hasBaseline =>
        computeTopOfBookChecksum(book)
            = computeTopOfBookChecksum(history[VersionOf(validator)])

\* The client implements a synchronised copy of the venue's book: it shows exact
\* books of the venue only, and never goes back to one older than it has shown,
\* however often it had to start afresh, as long as no snapshot is disturbed.
Sync == INSTANCE OrderBookSync WITH
            Books <- Content, Nothing <- EmptyContent,
            version <- VersionOf(validator), shown <- ContentOf(book)

SyncSpec == Sync!Spec

\* A live session without a baseline gets one, unless the session ends.
Resynchronises ==
    (link = "up" /\ ~validator.hasBaseline)
        ~> (link # "up" \/ validator.hasBaseline)

\* A running client that lost its session starts another one.
Redials ==
    (host = "running" /\ phase = "WaitingReconnect")
        ~> (link # "down" \/ host = "disconnect")

\* stop() returns, whatever the callback thread is doing.
StopCompletes == (host = "disconnect") ~> (host = "stopped")

(***************************************************************************)
(* Two things the repository says that the code does not do.               *)
(***************************************************************************)

\* README.md:89-90: a live engine that is not connected reports
\* connected: false and bookReady: false.
DownIsNotReady ==
    host = "running" /\ phase # "Connected" => ~health.bookReady

\* FeedClient.h:73-75: the pipeline is not ready while there has been no
\* snapshot since its last reset.
ReadyMeansAnchored == health.bookReady => validator.hasBaseline

=============================================================================
