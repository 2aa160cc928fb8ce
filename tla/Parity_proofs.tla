---------------------------- MODULE Parity_proofs ----------------------------
(***************************************************************************)
(* ReplayIsLive for every value of the constants, on sequenced feeds:      *)
(* whichever integrity policy, disturbances and bounds.                    *)
(*                                                                         *)
(* The invariant is inductive once the two validators are known to be ones *)
(* that never count arrivals: with a baseline the live client and the      *)
(* replay agree and so take the same step; without one the live client     *)
(* only accepts an anchoring snapshot, which both apply to nothing.        *)
(***************************************************************************)
EXTENDS Parity, LiveFeed_proofs

SequencedValidator ==
    [hasBaseline : BOOLEAN, lastSeqId : SeqIds \cup {-1}, arrivalCounter : {0}]

ParityInv ==
    /\ TypeOK
    /\ validator \in SequencedValidator
    /\ replayValidator \in SequencedValidator
    /\ ReplayIsLive

\* What a sequenced validator becomes depends only on the event accepted.
LEMMA AcceptingForgets ==
    ASSUME Mode = "OkxSequenced", NEW v \in SequencedValidator, NEW m \in Message
    PROVE  /\ Accepting(v, m) = [hasBaseline |-> TRUE, lastSeqId |-> m.sequence,
                                 arrivalCounter |-> 0]
           /\ Accepting(v, m) \in SequencedValidator
           /\ reset(v) \in SequencedValidator
  BY DEF Accepting, reset, SequencedValidator, Message

\* On a sequenced feed the live client stamps an event with its own number.
LEMMA AppliedAsRecorded ==
    ASSUME Mode = "OkxSequenced", NEW m \in Message
    PROVE  Applied(m) = IF m.type = "Snapshot" THEN applySnapshot(book, m)
                                               ELSE applyDelta(book, m)
  BY DEF Applied, effectiveSequence, applySnapshot, applyDelta, Message

\* The replay's part of a step keeps its validator's type.
LEMMA ReplayType ==
    ASSUME Mode = "OkxSequenced", replayValidator \in SequencedValidator,
           NEW m \in Message, RecordAndReplay(m)
    PROVE  replayValidator' \in SequencedValidator
  BY AcceptingForgets
     DEF RecordAndReplay, replayInto, ReplayAccepted, ReplayStale, ReplayGap, replayVars

\* One delivered event, handled live and replayed.
LEMMA DeliveredAlike ==
    ASSUME Mode = "OkxSequenced", ParityInv, NEW m \in Message,
           handleFrame(m), RecordAndReplay(m)
    PROVE  validator' \in SequencedValidator /\ ReplayIsLive'
  <1> USE DEF ParityInv
  <1>1. CASE HandleMalformed(m)
    BY <1>1 DEF HandleMalformed, RecordAndReplay, replayVars, pipeline, ReplayIsLive
  <1>2. CASE HandleStale(m)
    <2>1. validator.hasBaseline
      BY <1>2 DEF HandleStale, verdict, Connects
    <2> QED
      BY <1>2, <2>1 DEF HandleStale, pipeline, ReplayIsLive, RecordAndReplay, replayInto,
                        ReplayAccepted, ReplayStale, ReplayGap
  <1>3. CASE HandleGap(m) \/ HandleMismatch(m)
    <2>1. \E v \in SequencedValidator : validator' = reset(v)
      BY <1>3, AcceptingForgets DEF HandleGap, HandleMismatch
    <2> QED
      BY <2>1, AcceptingForgets DEF reset, ReplayIsLive
  <1>4. CASE HandleAccepted(m)
    <2>1. /\ validator' = Accepting(validator, m)
          /\ book' = IF m.type = "Snapshot" THEN applySnapshot(book, m)
                                            ELSE applyDelta(book, m)
          /\ m.status = "Ok"
          /\ verdict(validator, m) = "Accept"
      BY <1>4, AppliedAsRecorded DEF HandleAccepted
    <2>2. validator' \in SequencedValidator
      BY <2>1, AcceptingForgets
    <2>3. validator.hasBaseline \/ AnchoringSnapshot(m)
      BY <2>1 DEF verdict, Connects
    <2>4. verdict(replayValidator, m) = "Accept"
      BY <2>1, <2>3 DEF verdict, ReplayIsLive
    <2>5. ReplayAccepted(m)
      BY <2>1, <2>4 DEF RecordAndReplay, replayInto, ReplayStale, ReplayGap
    <2>6. replayValidator' = validator'
      BY <2>1, <2>5, AcceptingForgets DEF ReplayAccepted
    <2>7. replayBook' = book'
      BY <2>1, <2>3, <2>5 DEF ReplayAccepted, ReplayIsLive, AnchoringSnapshot, applySnapshot
    <2> QED
      BY <2>2, <2>6, <2>7 DEF ReplayIsLive
  <1> QED
    BY <1>1, <1>2, <1>3, <1>4 DEF handleFrame

LEMMA InitParity == ParityInit => ParityInv
  BY InitTypeOK
     DEF ParityInit, ParityInv, InitReplay, Init, InitClient, NewValidator,
         SequencedValidator, ReplayIsLive

\* No step but Deliver gives the live client a baseline or changes its book and
\* keeps one.
LEMMA OtherStepsKeep ==
    ASSUME OtherStep \/ UNCHANGED vars
    PROVE  UNCHANGED <<book, validator>> \/ resetPipelineLocked
  <1> USE DEF clientVars, pipeline
  <1>1. CASE HostStep \/ TimePasses \/ Terminated \/ UNCHANGED vars
    BY <1>1 DEF HostStep, Start, Stop, TickReconnect, TickStale, Connect, Disconnected,
                HandleConnecting, TimePasses, Elapse, Terminated, vars
  <1>2. CASE SessionStep
    BY <1>2 DEF SessionStep, Open, Refuse, Close, StopSocket, Abandon, EndSession,
                EmitConnected, EmitDisconnected, HandleConnected, HandleDisconnected, Resubscribe
  <1>3. CASE VenueStep
    BY <1>3 DEF VenueStep, AnswerRequest, Publish, Keepalive, Repeat, SendExtra
  <1>4. CASE NetworkStep
    BY <1>4 DEF NetworkStep, Lose, Duplicate, Reorder, Garble, Unanchor, Corrupt, Tamper
  <1> QED
    BY <1>1, <1>2, <1>3, <1>4 DEF OtherStep

LEMMA NextParity ==
    ASSUME Mode = "OkxSequenced", ParityInv, [ParityNext]_<<vars, replayVars>>
    PROVE  ParityInv'
  <1>1. TypeOK'
    <2>1. [Next]_vars
      BY DEF ParityNext, OtherStep, Next, SourceStep
    <2> QED
      BY <2>1, NextTypeOK DEF ParityInv
  <1>2. CASE Deliver /\ RecordAndReplay(Head(wire))
    <2>1. wire \in Seq(Message) /\ wire # <<>>
      BY <1>2 DEF ParityInv, TypeOK, Deliver
    <2>2. Head(wire) \in Message
      BY <2>1
    <2>3. handleFrame(Head(wire)) /\ RecordAndReplay(Head(wire))
      BY <1>2 DEF Deliver
    <2> QED
      BY <1>1, <2>2, <2>3, DeliveredAlike, ReplayType DEF ParityInv
  <1>3. CASE (OtherStep \/ UNCHANGED vars) /\ UNCHANGED replayVars
    <2>1. UNCHANGED <<book, validator>> \/ resetPipelineLocked
      BY <1>3, OtherStepsKeep
    <2>2. CASE UNCHANGED <<book, validator>>
      BY <1>1, <1>3, <2>2 DEF ParityInv, ReplayIsLive, replayVars
    <2>3. CASE resetPipelineLocked
      BY <1>1, <1>3, <2>3, AcceptingForgets
         DEF resetPipelineLocked, reset, ParityInv, ReplayIsLive, replayVars, SequencedValidator
    <2> QED
      BY <2>1, <2>2, <2>3
  <1> QED
    BY <1>2, <1>3 DEF ParityNext

\* On a sequenced feed a replay of the recorded events shows the live book at
\* the live sequence number whenever the live client has a baseline, whatever
\* drops, gaps and failed checksums there were.
THEOREM ReplayParity ==
    ASSUME Mode = "OkxSequenced"
    PROVE  ParitySpec => []ReplayIsLive
  <1>1. ParityInit => ParityInv
    BY InitParity
  <1>2. ParityInv /\ [ParityNext]_<<vars, replayVars>> => ParityInv'
    BY NextParity
  <1>3. ParityInv => ReplayIsLive
    BY DEF ParityInv
  <1> QED
    BY <1>1, <1>2, <1>3, PTL DEF ParitySpec

=============================================================================
