-------------------------- MODULE SequenceValidator --------------------------
(***************************************************************************)
(* core/src/SequenceValidator.cpp: the continuity rule that decides what   *)
(* to do with a decoded event, and the optional checksum test after it has *)
(* been applied.  A validator is a record of its owner's state.            *)
(*                                                                         *)
(* An event is a record with fields type, sequence, prevSequence, bids,    *)
(* asks and checksum; the std::optional fields prevSequence and checksum   *)
(* are sets with at most one element.  The Stats tallies of the validator  *)
(* are left out: the live pipeline never reads them (it keeps its own in   *)
(* FeedHealth).                                                            *)
(***************************************************************************)
EXTENDS Book

CONSTANTS
    Mode,       \* SequenceValidator::Mode
    Policy      \* IntegrityPolicy

ASSUME ValidatorAssumption ==
    /\ Mode \in {"OkxSequenced", "Arrival"}
    /\ Policy \in {"SequenceOnly", "SequenceAndChecksum"}

\* Mutant: the arrival counter survives a reset.
Bug_ResetKeepsCounter(validator) ==
    [hasBaseline |-> FALSE, lastSeqId |-> -1,
     arrivalCounter |-> validator.arrivalCounter]

reset(validator) ==
    [hasBaseline |-> FALSE, lastSeqId |-> -1, arrivalCounter |-> 0]

NewValidator == [hasBaseline |-> FALSE, lastSeqId |-> -1, arrivalCounter |-> 0]

HasLevels(event) == DOMAIN event.bids # {} \/ DOMAIN event.asks # {}

-----------------------------------------------------------------------------
(***************************************************************************)
(* validate: the verdict and, when it is Accept, the validator's new state *)
(* and the sequence number the event is stamped with.                      *)
(***************************************************************************)

AnchoringSnapshot(event) ==
    event.type = "Snapshot" /\ event.prevSequence = {-1}

Connects(validator, event) ==
    /\ event.type = "Delta"
    /\ validator.hasBaseline
    /\ event.prevSequence = {validator.lastSeqId}

RepeatsWithLevels(validator, event) ==
    event.sequence = validator.lastSeqId /\ HasLevels(event)

\* Mutant: a repeated seqId that carries levels is applied again.
Bug_AcceptRepeat(validator, event) ==
    IF Mode = "Arrival" \/ AnchoringSnapshot(event) \/ Connects(validator, event)
    THEN "Accept"
    ELSE "GapResync"

\* Mutant: a no-change keepalive is taken for a repetition.
Bug_KeepaliveIsGap(validator, event) ==
    IF \/ Mode = "Arrival"
       \/ AnchoringSnapshot(event)
       \/ Connects(validator, event) /\ event.sequence # validator.lastSeqId
    THEN "Accept"
    ELSE "GapResync"

\* Mutant: a message without changes is dropped before its predecessor is looked
\* at.
Bug_IgnoreNoChange(validator, event) ==
    IF Mode = "Arrival" \/ AnchoringSnapshot(event)
    THEN "Accept"
    ELSE IF validator.hasBaseline /\ ~HasLevels(event)
         THEN "StaleReject"
         ELSE IF ~Connects(validator, event)
              THEN "GapResync"
              ELSE IF RepeatsWithLevels(validator, event)
                   THEN "StaleReject"
                   ELSE "Accept"

verdict(validator, event) ==
    IF Mode = "Arrival" \/ AnchoringSnapshot(event)
    THEN "Accept"
    ELSE IF ~Connects(validator, event)
         THEN "GapResync"
         ELSE IF RepeatsWithLevels(validator, event)
              THEN "StaleReject"
              ELSE "Accept"

Accepting(validator, event) ==
    IF Mode = "Arrival"
    THEN [validator EXCEPT !.arrivalCounter = @ + 1]
    ELSE [validator EXCEPT !.hasBaseline = TRUE, !.lastSeqId = event.sequence]

effectiveSequence(validator, event) ==
    IF Mode = "Arrival" THEN validator.arrivalCounter + 1 ELSE event.sequence

-----------------------------------------------------------------------------

\* Mutant: the checksum is never verified.
Bug_NeverVerify(book, event) == "NotPresent"

verifyChecksum(book, event) ==
    IF Policy = "SequenceOnly" \/ event.checksum = {} THEN "NotPresent"
    ELSE IF event.checksum = {computeTopOfBookChecksum(book)} THEN "Pass"
    ELSE "Mismatch"

=============================================================================
