----------------------------- MODULE FeedClient -----------------------------
(***************************************************************************)
(* feed/src/FeedClient.cpp: the live pipeline.  It owns the book, the      *)
(* sequence validator, the feed's health and the reconnect state machine,  *)
(* all guarded by one mutex, and drives a FeedSource.                      *)
(*                                                                         *)
(* Two threads run its code.  The host thread calls start(), tick() and    *)
(* stop(); the callback thread of the source calls handleState() and       *)
(* handleFrame().  A critical section is one action.  Every call into the  *)
(* source comes after the unlock, so it is a later step of the same        *)
(* thread, and other threads' steps come between: the variables host and   *)
(* callback say where each thread is, and a handler waits for the mutex    *)
(* while the host is inside a call for which it keeps it.                  *)
(*                                                                         *)
(* Times are kept as distances from now (untilDue, sinceMessage) instead   *)
(* of as absolute nanoseconds, so that the clock needs no bound.           *)
(***************************************************************************)
EXTENDS SequenceValidator, ReconnectPolicy

CONSTANT Staleness      \* config_.stalenessThreshold

ASSUME ClientAssumption == Staleness \in Nat

VARIABLES
    phase,              \* phase_
    everConnected,      \* everConnected_
    reconnectAttempt,   \* reconnectAttempt_, counted up to ExponentCap only:
                        \* delayForAttempt cannot tell larger values apart
    untilDue,           \* max(0, reconnectDueAtNs_ - now)
    sinceMessage,       \* {now - lastMessageNs_}, {} while lastMessageNs_ = 0;
                        \* past the threshold it stops at Staleness + 1
    health,             \* health_
    book,               \* book_
    validator,          \* validator_
    host,               \* program counter of the host thread
    callback            \* program counter of the source's callback thread

connection == <<phase, everConnected, reconnectAttempt, untilDue>>
pipeline == <<book, validator, sinceMessage>>
clientVars == <<connection, pipeline, health, host, callback>>

NewHealth ==
    [state |-> "Disconnected", reconnects |-> 0, sequenceGaps |-> 0,
     malformedMessages |-> 0, staleRejected |-> 0, checksumFailures |-> 0,
     messagesAccepted |-> 0, stale |-> FALSE, bookReady |-> FALSE]

InitClient ==
    /\ phase = "Idle"
    /\ everConnected = FALSE
    /\ reconnectAttempt = 0
    /\ untilDue = 0
    /\ sinceMessage = {}
    /\ health = NewHealth
    /\ book = clear
    /\ validator = NewValidator
    /\ host = "new"
    /\ callback = "idle"

-----------------------------------------------------------------------------
(***************************************************************************)
(* The host thread.  "connect" and "disconnect" are the points after the   *)
(* unlock at which it is about to call, or is inside, source_.connect()    *)
(* and source_.disconnect().                                               *)
(***************************************************************************)

\* Mutant: stop() calls the source inside the scope of its lock.
Bug_DisconnectUnderMutex == {"disconnect"}

\* The calls for which the host keeps mutex_: none, every lock's scope ends
\* before the call.
CallsHoldingMutex == {}

MutexFree == host \notin CallsHoldingMutex

Start ==
    /\ host = "new"
    /\ host' = "connect"
    /\ phase' = "Connecting"
    /\ health' = [health EXCEPT !.state = "Connecting"]
    /\ UNCHANGED <<everConnected, reconnectAttempt, untilDue, pipeline, callback>>

Stop ==
    /\ host = "running"
    /\ host' = "disconnect"
    /\ phase' = "Idle"
    /\ health' = [health EXCEPT !.state = "Disconnected"]
    /\ UNCHANGED <<everConnected, reconnectAttempt, untilDue, pipeline, callback>>

\* Mutant: reconnecting is given up after ExponentCap failures in a row.
Bug_GiveUp ==
    /\ host = "running"
    /\ phase = "WaitingReconnect"
    /\ untilDue = 0
    /\ reconnectAttempt < ExponentCap
    /\ host' = "connect"
    /\ phase' = "Connecting"
    /\ health' = [health EXCEPT !.state = "Connecting"]
    /\ UNCHANGED <<everConnected, reconnectAttempt, untilDue, pipeline, callback>>

TickReconnect ==
    /\ host = "running"
    /\ phase = "WaitingReconnect"
    /\ untilDue = 0
    /\ host' = "connect"
    /\ phase' = "Connecting"
    /\ health' = [health EXCEPT !.state = "Connecting"]
    /\ UNCHANGED <<everConnected, reconnectAttempt, untilDue, pipeline, callback>>

TickStale ==
    /\ host = "running"
    /\ phase = "Connected"
    /\ \E age \in sinceMessage : age > Staleness
    /\ ~health.stale
    /\ health' = [health EXCEPT !.stale = TRUE]
    /\ UNCHANGED <<connection, pipeline, host, callback>>

\* handleState(Connecting), which connect() calls on the host thread.
HandleConnecting ==
    /\ MutexFree
    /\ phase' = "Connecting"
    /\ health' = [health EXCEPT !.state = "Connecting"]
    /\ UNCHANGED <<everConnected, reconnectAttempt, untilDue, pipeline>>

-----------------------------------------------------------------------------
(***************************************************************************)
(* The callback thread: state changes.                                     *)
(***************************************************************************)

resetPipelineLocked ==
    /\ book' = clear
    /\ validator' = reset(validator)

\* handleState(Connected)
HandleConnected ==
    /\ callback = "opened"
    /\ MutexFree
    /\ callback' = "resubscribe"
    /\ phase' = "Connected"
    /\ health' = [health EXCEPT !.state = "Connected",
                                !.reconnects = IF everConnected THEN @ + 1 ELSE @]
    /\ everConnected' = TRUE
    /\ reconnectAttempt' = 0
    /\ resetPipelineLocked
    /\ UNCHANGED <<untilDue, sinceMessage, host>>

\* The Disconnected branch of handleState, without its phase test.
ScheduleReconnect ==
    /\ phase' = "WaitingReconnect"
    /\ untilDue' \in delayForAttempt(reconnectAttempt)
    /\ reconnectAttempt' = Smaller(reconnectAttempt + 1, ExponentCap)

\* Mutant: a drop while the connection is still being set up is ignored.
Bug_ScheduleOnlyWhenConnected ==
    IF phase = "Connected"
    THEN ScheduleReconnect
    ELSE UNCHANGED <<phase, untilDue, reconnectAttempt>>

DisconnectedPhase ==
    IF phase \in {"Connected", "Connecting"}
    THEN ScheduleReconnect
    ELSE UNCHANGED <<phase, untilDue, reconnectAttempt>>

\* handleState(Disconnected)
HandleDisconnected ==
    /\ callback = "closed"
    /\ MutexFree
    /\ callback' = "idle"
    /\ health' = [health EXCEPT !.state = "Disconnected"]
    /\ DisconnectedPhase
    /\ UNCHANGED <<everConnected, pipeline, host>>

-----------------------------------------------------------------------------
(***************************************************************************)
(* The callback thread: frames.  handleFrame is one critical section with  *)
(* five outcomes, an action each.                                          *)
(***************************************************************************)

\* decodeFrame failed: counted, nothing else.
HandleMalformed(frame) ==
    /\ frame.status # "Ok"
    /\ health' = [health EXCEPT !.malformedMessages = @ + 1]
    /\ UNCHANGED <<connection, pipeline, host, callback>>

HandleStale(frame) ==
    /\ frame.status = "Ok"
    /\ verdict(validator, frame) = "StaleReject"
    /\ health' = [health EXCEPT !.staleRejected = @ + 1]
    /\ UNCHANGED <<connection, pipeline, host, callback>>

\* Mutant: a gap asks for a snapshot but the old book stays in service.
Bug_GapKeepsBook(frame) ==
    /\ frame.status = "Ok"
    /\ verdict(validator, frame) = "GapResync"
    /\ callback' = IF validator.hasBaseline THEN "resubscribe" ELSE callback
    /\ health' = [health EXCEPT
                    !.bookReady = FALSE,
                    !.sequenceGaps = IF validator.hasBaseline THEN @ + 1 ELSE @]
    /\ validator' = reset(validator)
    /\ UNCHANGED <<connection, book, sinceMessage, host>>

\* Mutant: the gap is detected but no fresh snapshot is requested.
Bug_GapNoResubscribe(frame) ==
    /\ frame.status = "Ok"
    /\ verdict(validator, frame) = "GapResync"
    /\ health' = [health EXCEPT
                    !.bookReady = FALSE,
                    !.sequenceGaps = IF validator.hasBaseline THEN @ + 1 ELSE @]
    /\ book' = clear
    /\ validator' = reset(validator)
    /\ UNCHANGED <<connection, sinceMessage, host, callback>>

\* Mutant: every update that cannot be anchored counts as a gap.
Bug_CountChurn(frame) ==
    /\ frame.status = "Ok"
    /\ verdict(validator, frame) = "GapResync"
    /\ callback' = IF validator.hasBaseline THEN "resubscribe" ELSE callback
    /\ health' = [health EXCEPT !.bookReady = FALSE, !.sequenceGaps = @ + 1]
    /\ book' = clear
    /\ validator' = reset(validator)
    /\ UNCHANGED <<connection, sinceMessage, host>>

\* invalidateBookLocked always; the gap is counted, and a fresh snapshot
\* requested after the unlock, only if there was a baseline to lose.
HandleGap(frame) ==
    /\ frame.status = "Ok"
    /\ verdict(validator, frame) = "GapResync"
    /\ callback' = IF validator.hasBaseline THEN "resubscribe" ELSE callback
    /\ health' = [health EXCEPT
                    !.bookReady = FALSE,
                    !.sequenceGaps = IF validator.hasBaseline THEN @ + 1 ELSE @]
    /\ book' = clear
    /\ validator' = reset(validator)
    /\ UNCHANGED <<connection, sinceMessage, host>>

\* The book after an accepted event, stamped with its effective sequence.
Applied(frame) ==
    LET event == [frame EXCEPT !.sequence = effectiveSequence(validator, frame)]
    IN  IF frame.type = "Snapshot"
        THEN applySnapshot(book, event)
        ELSE applyDelta(book, event)

HandleAccepted(frame) ==
    /\ frame.status = "Ok"
    /\ verdict(validator, frame) = "Accept"
    /\ verifyChecksum(Applied(frame), frame) # "Mismatch"
    /\ book' = Applied(frame)
    /\ validator' = Accepting(validator, frame)
    /\ sinceMessage' = {0}
    /\ health' = [health EXCEPT !.stale = FALSE, !.bookReady = TRUE,
                                !.messagesAccepted = @ + 1]
    /\ UNCHANGED <<connection, host, callback>>

\* Mutant: the update that failed its checksum stays in the book.
Bug_MismatchKeepsBook(frame) ==
    /\ frame.status = "Ok"
    /\ verdict(validator, frame) = "Accept"
    /\ verifyChecksum(Applied(frame), frame) = "Mismatch"
    /\ callback' = "resubscribe"
    /\ book' = Applied(frame)
    /\ validator' = reset(Accepting(validator, frame))
    /\ sinceMessage' = {0}
    /\ health' = [health EXCEPT !.stale = FALSE, !.bookReady = FALSE,
                                !.messagesAccepted = @ + 1,
                                !.checksumFailures = @ + 1]
    /\ UNCHANGED <<connection, host>>

\* The event was applied, its checksum does not match the resulting book, and
\* invalidateBookLocked undoes everything before the unlock.
HandleMismatch(frame) ==
    /\ frame.status = "Ok"
    /\ verdict(validator, frame) = "Accept"
    /\ verifyChecksum(Applied(frame), frame) = "Mismatch"
    /\ callback' = "resubscribe"
    /\ book' = clear
    /\ validator' = reset(Accepting(validator, frame))
    /\ sinceMessage' = {0}
    /\ health' = [health EXCEPT !.stale = FALSE, !.bookReady = FALSE,
                                !.messagesAccepted = @ + 1,
                                !.checksumFailures = @ + 1]
    /\ UNCHANGED <<connection, host>>

handleFrame(frame) ==
    /\ callback = "idle"
    /\ MutexFree
    /\ \/ HandleMalformed(frame)
       \/ HandleStale(frame)
       \/ HandleGap(frame)
       \/ HandleAccepted(frame)
       \/ HandleMismatch(frame)

-----------------------------------------------------------------------------
\* One unit of time, while there is a timer it makes a difference to.
Elapse ==
    /\ untilDue > 0 \/ \E age \in sinceMessage : age <= Staleness
    /\ untilDue' = IF untilDue > 0 THEN untilDue - 1 ELSE 0
    /\ sinceMessage' = {Smaller(age + 1, Staleness + 1) : age \in sinceMessage}
    /\ UNCHANGED <<phase, everConnected, reconnectAttempt, book, validator,
                   health, host, callback>>

=============================================================================
