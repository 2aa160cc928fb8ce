------------------------------- MODULE Parity -------------------------------
(***************************************************************************)
(* core/src/Replay.cpp next to the live pipeline of LiveFeed: every event  *)
(* that the live client decodes is recorded, and a replay reads it back.   *)
(* EventLog shows that what is read is the event that was written, so a    *)
(* replay is fed the delivered events themselves, each as it is written;   *)
(* pacing delays it and changes nothing.                                   *)
(*                                                                         *)
(* A replay knows nothing else of the session: not its drops, not the      *)
(* checksums, and not the arrival numbers the live client stamps.          *)
(***************************************************************************)
EXTENDS LiveFeed

VARIABLES
    replayBook,         \* the book that replayInto is given
    replayValidator,    \* its validator
    stats               \* its ReplayStats

replayVars == <<replayBook, replayValidator, stats>>

InitReplay ==
    /\ replayBook = clear
    /\ replayValidator = NewValidator
    /\ stats = [eventsApplied |-> 0, staleRejected |-> 0, gapResyncs |-> 0]

\* Mutant: a snapshot is applied like a delta, over whatever book there is.
Bug_ReplayMergesSnapshot(event) ==
    /\ verdict(replayValidator, event) = "Accept"
    /\ replayBook' = applyDelta(replayBook, event)
    /\ replayValidator' = Accepting(replayValidator, event)
    /\ stats' = [stats EXCEPT !.eventsApplied = @ + 1]

ReplayAccepted(event) ==
    /\ verdict(replayValidator, event) = "Accept"
    /\ replayBook' = IF event.type = "Snapshot"
                     THEN applySnapshot(replayBook, event)
                     ELSE applyDelta(replayBook, event)
    /\ replayValidator' = Accepting(replayValidator, event)
    /\ stats' = [stats EXCEPT !.eventsApplied = @ + 1]

ReplayStale(event) ==
    /\ verdict(replayValidator, event) = "StaleReject"
    /\ stats' = [stats EXCEPT !.staleRejected = @ + 1]
    /\ UNCHANGED <<replayBook, replayValidator>>

ReplayGap(event) ==
    /\ verdict(replayValidator, event) = "GapResync"
    /\ replayBook' = clear
    /\ replayValidator' = reset(replayValidator)
    /\ stats' = [stats EXCEPT !.gapResyncs = @ + 1]

\* One iteration of the loop of replayInto.
replayInto(event) ==
    \/ ReplayAccepted(event)
    \/ ReplayStale(event)
    \/ ReplayGap(event)

\* Only decoded events are recorded.
RecordAndReplay(frame) ==
    IF frame.status = "Ok" THEN replayInto(frame) ELSE UNCHANGED replayVars

ParityInit == Init /\ InitReplay

OtherStep == HostStep \/ SessionStep \/ VenueStep \/ NetworkStep \/ TimePasses \/ Terminated

ParityNext ==
    \/ Deliver /\ RecordAndReplay(Head(wire))
    \/ OtherStep /\ UNCHANGED replayVars

ParitySpec == ParityInit /\ [][ParityNext]_<<vars, replayVars>>

-----------------------------------------------------------------------------

\* Whenever the live client has a baseline, the replay of what was recorded so
\* far shows the same book at the same sequence number: reconnects, gaps and
\* failed checksums, which a replay does not hear of, are all healed by the
\* next snapshot (core/tests/parity_test.cpp, on undisturbed fixtures).
ReplayIsLive ==
    validator.hasBaseline => replayBook = book /\ replayValidator = validator

=============================================================================
