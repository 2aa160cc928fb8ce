--------------------------- MODULE LiveFeed_proofs ---------------------------
(***************************************************************************)
(* Proofs about LiveFeed for every value of its constants: any set of      *)
(* prices, sizes and changes, any number of books and messages, any        *)
(* seqIds that are not reused, and any number of disturbances.             *)
(***************************************************************************)
EXTENDS LiveFeed, Book_proofs

-----------------------------------------------------------------------------
(***************************************************************************)
(* Facts about messages and books.                                         *)
(***************************************************************************)

BookType == [bids : Side, asks : Side, lastSequence : Nat]

ValidatorType ==
    [hasBaseline : BOOLEAN, lastSeqId : SeqIds \cup {-1}, arrivalCounter : Nat]

LEMMA SeqIdsAreNaturals == SeqIds \subseteq Nat
  BY SeqIdsAreUnique DEF SeqIds

LEMMA EmptyContentType == EmptyContent \in Content
  BY EmptySideType DEF EmptyContent, Content

LEMMA ClearType == clear \in BookType
  BY EmptySideType DEF clear, BookType

LEMMA ChecksumForType ==
    ASSUME NEW content \in Content
    PROVE  ChecksumFor(content) \in SUBSET Content
  <1>1. content.bids \in Side /\ content.asks \in Side
    BY DEF Content
  <1>2. EmptyContent.bids \in Side /\ EmptyContent.asks \in Side
    BY EmptyContentType DEF Content
  <1>3. computeTopOfBookChecksum(content) \in Content
    BY <1>1, ChecksumType
  <1>4. computeTopOfBookChecksum(EmptyContent) \in Content
    BY <1>2, ChecksumType
  <1> QED
    BY <1>3, <1>4 DEF ChecksumFor

LEMMA DeltaMessageType ==
    ASSUME NEW change \in [bids : Levels, asks : Levels],
           NEW prev \in SeqIds, NEW seq \in SeqIds, NEW content \in Content
    PROVE  DeltaMessage(change, prev, seq, content) \in Message
  BY ChecksumForType DEF DeltaMessage, Message

\* The venue's books are addressable by version.
LEMMA CurrentType ==
    ASSUME history \in Seq(Content), Len(history) \in 1..MaxVersion
    PROVE  /\ Latest \in 1..MaxVersion
           /\ Current \in Content
           /\ Current \in [bids : Levels, asks : Levels]
           /\ SeqId[Latest] \in SeqIds
  <1>1. Latest \in 1..MaxVersion /\ Latest \in 1..Len(history)
    BY VenueAssumption DEF Latest
  <1>2. Current \in Content
    BY <1>1 DEF Current
  <1> QED
    BY <1>1, <1>2, SideIsLevels DEF Content, SeqIds

LEMMA SnapshotMessageType ==
    ASSUME history \in Seq(Content), Len(history) \in 1..MaxVersion
    PROVE  SnapshotMessage \in Message
  <1>1. ChecksumFor(Current) \in SUBSET Content
    BY CurrentType, ChecksumForType
  <1> QED
    BY <1>1, CurrentType DEF SnapshotMessage, Message

\* Applying an event to a book yields a book (Book::applySnapshot, applyDelta).
LEMMA AppliedType ==
    ASSUME book \in BookType, validator \in ValidatorType, NEW m \in Message
    PROVE  Applied(m) \in BookType
  <1> DEFINE seq == effectiveSequence(validator, m)
             event == [m EXCEPT !.sequence = seq]
  <1>1. m.bids \in Levels /\ m.asks \in Levels /\ m.sequence \in Nat
    BY SeqIdsAreNaturals DEF Message
  <1>2. seq \in Nat
    BY <1>1 DEF effectiveSequence, ValidatorType
  <1>3. event.bids = m.bids /\ event.asks = m.asks /\ event.sequence = seq
    BY DEF Message
  <1>4. book.bids \in Side /\ book.asks \in Side
    BY DEF BookType
  <1>5. applySnapshot(book, event) \in BookType
    BY <1>1, <1>2, <1>3, EmptySideType, ApplyLevelsType DEF applySnapshot, BookType
  <1>6. applyDelta(book, event) \in BookType
    BY <1>1, <1>2, <1>3, <1>4, ApplyLevelsType DEF applyDelta, BookType
  <1> QED
    BY <1>5, <1>6 DEF Applied

LEMMA AcceptingType ==
    ASSUME NEW v \in ValidatorType, NEW m \in Message,
           v.hasBaseline => v.lastSeqId \in SeqIds
    PROVE  /\ Accepting(v, m) \in ValidatorType
           /\ Accepting(v, m).hasBaseline => Accepting(v, m).lastSeqId \in SeqIds
           /\ reset(v) \in ValidatorType
           /\ ~reset(v).hasBaseline
  <1> DEFINE n == v.arrivalCounter + 1
             counted == [v EXCEPT !.arrivalCounter = n]
             based == [v EXCEPT !.hasBaseline = TRUE, !.lastSeqId = m.sequence]
  <1>1. n \in Nat
    BY DEF ValidatorType
  <1>2. /\ counted \in ValidatorType
        /\ counted.hasBaseline = v.hasBaseline /\ counted.lastSeqId = v.lastSeqId
    <2> HIDE DEF n
    <2> QED
      BY <1>1 DEF ValidatorType
  <1>3. m.sequence \in SeqIds
    BY DEF Message
  <1>4. based \in ValidatorType /\ based.lastSeqId \in SeqIds
    BY <1>3 DEF ValidatorType
  <1>5. Accepting(v, m) = counted \/ Accepting(v, m) = based
    BY DEF Accepting
  <1>6. reset(v) \in ValidatorType /\ ~reset(v).hasBaseline
    BY DEF reset, ValidatorType
  <1> HIDE DEF counted, based
  <1> QED
    BY <1>2, <1>4, <1>5, <1>6

LEMMA VersionOfType ==
    ASSUME NEW v \in ValidatorType, v.hasBaseline => v.lastSeqId \in SeqIds
    PROVE  VersionOf(v) \in 0..MaxVersion
  BY VenueAssumption DEF VersionOf, SeqIds

-----------------------------------------------------------------------------
(***************************************************************************)
(* Type correctness.                                                       *)
(***************************************************************************)

HealthType ==
    [state : {"Disconnected", "Connecting", "Connected"},
     reconnects : Nat, sequenceGaps : Nat, malformedMessages : Nat,
     staleRejected : Nat, checksumFailures : Nat,
     messagesAccepted : Nat, stale : BOOLEAN, bookReady : BOOLEAN]

\* The type invariant, grouped by the component that owns the variables.
ConnectionOK ==
    /\ phase \in {"Idle", "WaitingReconnect", "Connecting", "Connected"}
    /\ everConnected \in BOOLEAN
    /\ reconnectAttempt \in 0..ExponentCap
    /\ untilDue \in 0..MaxDelay

PipelineOK ==
    /\ book \in BookType
    /\ validator \in ValidatorType
    /\ validator.hasBaseline => validator.lastSeqId \in SeqIds
    /\ sinceMessage \in SUBSET (0..Staleness + 1)

ThreadsOK ==
    /\ host \in {"new", "connect", "running", "disconnect", "stopped"}
    /\ callback \in {"idle", "opened", "closed", "resubscribe"}

VenueOK ==
    /\ link \in {"down", "opening", "up"}
    /\ requests \in Nat
    /\ subscribed \in BOOLEAN
    /\ wire \in Seq(Message)
    /\ history \in Seq(Content)
    /\ Len(history) \in 1..MaxVersion
    /\ disturbances \in 0..MaxDisturbances

LEMMA TypeOKParts ==
    /\ TypeOK <=> /\ ConnectionOK /\ PipelineOK /\ ThreadsOK /\ VenueOK
                  /\ health \in HealthType /\ seen \in 0..MaxVersion
    /\ TypeOK' <=> /\ ConnectionOK' /\ PipelineOK' /\ ThreadsOK' /\ VenueOK'
                   /\ health' \in HealthType /\ seen' \in 0..MaxVersion
  BY Zenon DEF TypeOK, ConnectionOK, PipelineOK, ThreadsOK, VenueOK, HealthType,
               BookType, ValidatorType

LEMMA InitTypeOK == Init => TypeOK
  <1> SUFFICES ASSUME Init PROVE TypeOK
    OBVIOUS
  <1> USE DEF Init, InitClient, InitVenue
  <1>1. ConnectionOK
    <2>1. everConnected \in BOOLEAN
      BY Zenon
    <2>2. reconnectAttempt \in 0..ExponentCap /\ untilDue \in 0..MaxDelay
      BY PolicyAssumption
    <2> QED
      BY <2>1, <2>2 DEF ConnectionOK
  <1>2. PipelineOK
    BY ClearType DEF PipelineOK, NewValidator, ValidatorType
  <1>3. ThreadsOK
    BY DEF ThreadsOK
  <1>4. VenueOK
    <2>1. subscribed \in BOOLEAN
      BY Zenon
    <2>2. history \in Seq(Content) /\ Len(history) = 1
      BY VenueAssumption
    <2>3. 1 \in 1..MaxVersion /\ 0 \in 0..MaxDisturbances
      BY VenueAssumption
    <2> QED
      BY <2>1, <2>2, <2>3 DEF VenueOK
  <1>5. health \in HealthType
    BY DEF HealthType, NewHealth
  <1>6. seen \in 0..MaxVersion
    BY VenueAssumption
  <1> QED
    BY <1>1, <1>2, <1>3, <1>4, <1>5, <1>6, TypeOKParts

\* Every tally of the health record is written by one handler.
LEMMA HealthUpdates ==
    ASSUME NEW h \in HealthType
    PROVE  /\ \A s \in {"Disconnected", "Connecting", "Connected"} :
                  [h EXCEPT !.state = s] \in HealthType
           /\ \A s \in {"Disconnected", "Connecting", "Connected"}, n \in Nat :
                  [h EXCEPT !.state = s, !.reconnects = n] \in HealthType
           /\ [h EXCEPT !.stale = TRUE] \in HealthType
           /\ \A n \in Nat : [h EXCEPT !.malformedMessages = n] \in HealthType
           /\ \A n \in Nat : [h EXCEPT !.staleRejected = n] \in HealthType
           /\ \A n \in Nat :
                  [h EXCEPT !.bookReady = FALSE, !.sequenceGaps = n] \in HealthType
           /\ \A n \in Nat :
                  [h EXCEPT !.stale = FALSE, !.bookReady = TRUE,
                            !.messagesAccepted = n] \in HealthType
           /\ \A n, k \in Nat :
                  [h EXCEPT !.stale = FALSE, !.bookReady = FALSE,
                            !.messagesAccepted = n,
                            !.checksumFailures = k] \in HealthType
  <1> USE DEF HealthType
  <1>1. \A s \in {"Disconnected", "Connecting", "Connected"} :
            [h EXCEPT !.state = s] \in HealthType
    OBVIOUS
  <1>2. \A s \in {"Disconnected", "Connecting", "Connected"}, n \in Nat :
            [h EXCEPT !.state = s, !.reconnects = n] \in HealthType
    OBVIOUS
  <1>3. [h EXCEPT !.stale = TRUE] \in HealthType
    OBVIOUS
  <1>4. \A n \in Nat : [h EXCEPT !.malformedMessages = n] \in HealthType
    OBVIOUS
  <1>5. \A n \in Nat : [h EXCEPT !.staleRejected = n] \in HealthType
    OBVIOUS
  <1>6. \A n \in Nat :
            [h EXCEPT !.bookReady = FALSE, !.sequenceGaps = n] \in HealthType
    OBVIOUS
  <1>7. \A n \in Nat : [h EXCEPT !.stale = FALSE, !.bookReady = TRUE,
                                 !.messagesAccepted = n] \in HealthType
    OBVIOUS
  <1>8. \A n, k \in Nat : [h EXCEPT !.stale = FALSE, !.bookReady = FALSE,
                                    !.messagesAccepted = n,
                                    !.checksumFailures = k] \in HealthType
    OBVIOUS
  <1> HIDE DEF HealthType
  <1> QED
    BY <1>1, <1>2, <1>3, <1>4, <1>5, <1>6, <1>7, <1>8

LEMMA HealthTallies ==
    ASSUME NEW h \in HealthType
    PROVE  /\ h.reconnects \in Nat /\ h.reconnects + 1 \in Nat
           /\ h.sequenceGaps \in Nat /\ h.sequenceGaps + 1 \in Nat
           /\ h.malformedMessages + 1 \in Nat
           /\ h.staleRejected + 1 \in Nat
           /\ h.messagesAccepted + 1 \in Nat
           /\ h.checksumFailures + 1 \in Nat
  BY DEF HealthType

\* handleFrame keeps the client well-typed, whichever of its five ways it ends.
LEMMA HandleFrameType ==
    ASSUME ConnectionOK, PipelineOK, ThreadsOK, health \in HealthType,
           NEW m \in Message, handleFrame(m)
    PROVE  ConnectionOK' /\ PipelineOK' /\ ThreadsOK' /\ (health \in HealthType)'
  <1> USE DEF connection, pipeline
  <1>1. CASE HandleMalformed(m)
    BY <1>1, HealthUpdates, HealthTallies DEF HandleMalformed, ConnectionOK, PipelineOK, ThreadsOK
  <1>2. CASE HandleStale(m)
    BY <1>2, HealthUpdates, HealthTallies DEF HandleStale, ConnectionOK, PipelineOK, ThreadsOK
  <1>3. CASE HandleGap(m)
    <2>1. PipelineOK'
      BY <1>3, ClearType, AcceptingType DEF HandleGap, PipelineOK
    <2>2. (health \in HealthType)'
      BY <1>3, HealthUpdates, HealthTallies DEF HandleGap
    <2> QED
      BY <1>3, <2>1, <2>2 DEF HandleGap, ConnectionOK, ThreadsOK
  <1>4. CASE HandleAccepted(m)
    <2>1. PipelineOK'
      BY <1>4, AppliedType, AcceptingType, ClientAssumption DEF HandleAccepted, PipelineOK
    <2>2. (health \in HealthType)'
      BY <1>4, HealthUpdates, HealthTallies DEF HandleAccepted
    <2> QED
      BY <1>4, <2>1, <2>2 DEF HandleAccepted, ConnectionOK, ThreadsOK
  <1>5. CASE HandleMismatch(m)
    <2>1. PipelineOK'
      BY <1>5, ClearType, AcceptingType, ClientAssumption DEF HandleMismatch, PipelineOK
    <2>2. (health \in HealthType)'
      BY <1>5, HealthUpdates, HealthTallies DEF HandleMismatch
    <2> QED
      BY <1>5, <2>1, <2>2 DEF HandleMismatch, ConnectionOK, ThreadsOK
  <1> QED
    BY <1>1, <1>2, <1>3, <1>4, <1>5 DEF handleFrame

\* The host thread's steps, and time.
LEMMA HostTypeOK ==
    ASSUME TypeOK, HostStep \/ TimePasses
    PROVE  TypeOK'
  <1> USE TypeOKParts DEF clientVars, connection, pipeline, venueVars
  <1>0. ConnectionOK /\ PipelineOK /\ ThreadsOK /\ VenueOK
        /\ health \in HealthType /\ seen \in 0..MaxVersion
    OBVIOUS
  <1>1. CASE HostStep
    <2>1. UNCHANGED <<everConnected, reconnectAttempt, untilDue, book, validator, sinceMessage>>
      BY <1>1 DEF HostStep, Start, Stop, TickReconnect, TickStale, Connect,
                  Disconnected, HandleConnecting
    <2>2. UNCHANGED <<requests, subscribed, wire, history, disturbances, seen>>
      BY <1>1 DEF HostStep, Connect, Disconnected
    <2>3. phase' \in {"Idle", "WaitingReconnect", "Connecting", "Connected"}
      BY <1>0, <1>1 DEF HostStep, Start, Stop, TickReconnect, TickStale, Connect,
                  Disconnected, HandleConnecting, ConnectionOK
    <2>4. /\ host' \in {"new", "connect", "running", "disconnect", "stopped"}
          /\ callback' = callback
      BY <1>0, <1>1 DEF HostStep, Start, Stop, TickReconnect, TickStale, Connect,
                  Disconnected, HandleConnecting, ThreadsOK
    <2>5. link' \in {"down", "opening", "up"}
      BY <1>0, <1>1 DEF HostStep, Connect, Disconnected, VenueOK
    <2>6. health' \in HealthType
      BY <1>0, <1>1, HealthUpdates DEF HostStep, Start, Stop, TickReconnect, TickStale,
                  Connect, Disconnected, HandleConnecting
    <2>7. ConnectionOK'
      BY <1>0, <2>1, <2>3 DEF ConnectionOK
    <2>8. PipelineOK'
      BY <1>0, <2>1 DEF PipelineOK
    <2>9. ThreadsOK'
      BY <1>0, <2>4 DEF ThreadsOK
    <2>10. VenueOK'
      BY <1>0, <2>2, <2>5 DEF VenueOK
    <2> QED
      BY <1>0, <2>2, <2>6, <2>7, <2>8, <2>9, <2>10
  <1>2. CASE TimePasses
    <2>1. untilDue' \in 0..MaxDelay
      BY <1>0, <1>2, PolicyAssumption DEF TimePasses, Elapse, ConnectionOK
    <2>2. sinceMessage' \in SUBSET (0..Staleness + 1)
      <3>1. \A age \in sinceMessage : Smaller(age + 1, Staleness + 1) \in 0..Staleness + 1
        BY <1>0, ClientAssumption DEF PipelineOK, Smaller
      <3> QED
        BY <1>2, <3>1 DEF TimePasses, Elapse
    <2>3. UNCHANGED <<phase, everConnected, reconnectAttempt, book, validator, health,
                      host, callback, link, requests, subscribed, wire, history,
                      disturbances, seen>>
      BY <1>2 DEF TimePasses, Elapse
    <2>4. ConnectionOK'
      BY <1>0, <2>1, <2>3 DEF ConnectionOK
    <2>5. PipelineOK'
      BY <1>0, <2>2, <2>3 DEF PipelineOK
    <2>6. ThreadsOK' /\ VenueOK'
      BY <1>0, <2>3 DEF ThreadsOK, VenueOK
    <2> QED
      BY <1>0, <2>3, <2>4, <2>5, <2>6
  <1> QED
    BY <1>1, <1>2

\* The source's steps other than delivering a message.
LEMMA SessionTypeOK ==
    ASSUME TypeOK,
           Open \/ Refuse \/ Close \/ StopSocket \/ Abandon \/ EmitConnected
                \/ EmitDisconnected \/ Resubscribe
    PROVE  TypeOK'
  <1> USE TypeOKParts DEF clientVars, connection, pipeline, venueVars
  <1>0. ConnectionOK /\ PipelineOK /\ ThreadsOK /\ VenueOK
        /\ health \in HealthType /\ seen \in 0..MaxVersion
    OBVIOUS
  <1>1. CASE Open \/ Resubscribe \/ Abandon
    <2>1. UNCHANGED <<connection, pipeline, health, host, subscribed, wire,
                      history, disturbances, seen>>
      BY <1>1 DEF Open, Resubscribe, Abandon
    <2>2. /\ callback' \in {"idle", "opened"}
          /\ link' \in {"down", "opening", "up"}
          /\ requests' \in Nat
      BY <1>0, <1>1 DEF Open, Resubscribe, Abandon, VenueOK
    <2>3. ConnectionOK' /\ PipelineOK'
      BY <1>0, <2>1 DEF ConnectionOK, PipelineOK
    <2>4. ThreadsOK' /\ VenueOK'
      BY <1>0, <2>1, <2>2 DEF ThreadsOK, VenueOK
    <2> QED
      BY <1>0, <2>1, <2>3, <2>4
  <1>2. CASE Refuse \/ Close \/ StopSocket
    <2>1. EndSession
      BY <1>2 DEF Refuse, Close, StopSocket
    <2>2. disturbances' \in 0..MaxDisturbances
      BY <1>0, <1>2, VenueAssumption DEF Refuse, Close, StopSocket, Disturb, VenueOK
    <2>3. ConnectionOK' /\ PipelineOK' /\ ThreadsOK'
      BY <1>0, <2>1 DEF EndSession, ConnectionOK, PipelineOK, ThreadsOK
    <2>4. subscribed' \in BOOLEAN
      BY Zenon, <2>1 DEF EndSession
    <2>5. VenueOK'
      BY <1>0, <2>1, <2>2, <2>4 DEF EndSession, VenueOK
    <2> QED
      BY <1>0, <2>1, <2>3, <2>5 DEF EndSession
  <1>3. CASE EmitConnected
    <2>1. everConnected' \in BOOLEAN
      BY Zenon, <1>3 DEF EmitConnected, HandleConnected
    <2>2. ConnectionOK'
      BY <1>0, <1>3, <2>1, PolicyAssumption DEF EmitConnected, HandleConnected, ConnectionOK
    <2>3. PipelineOK'
      BY <1>0, <1>3, ClearType
         DEF EmitConnected, HandleConnected, resetPipelineLocked, reset, PipelineOK,
             ValidatorType
    <2>4. health' \in HealthType
      BY <1>0, <1>3, HealthUpdates, HealthTallies DEF EmitConnected, HandleConnected
    <2>5. ThreadsOK' /\ VenueOK'
      BY <1>0, <1>3 DEF EmitConnected, HandleConnected, ThreadsOK, VenueOK
    <2> QED
      BY <1>0, <1>3, <2>2, <2>3, <2>4, <2>5 DEF EmitConnected
  <1>4. CASE EmitDisconnected
    <2>1. ConnectionOK'
      <3>1. CASE ScheduleReconnect
        <4>1. untilDue' \in 0..MaxDelay
          BY <3>1 DEF ScheduleReconnect, delayForAttempt
        <4>2. reconnectAttempt' \in 0..ExponentCap
          BY <1>0, <3>1, PolicyAssumption DEF ScheduleReconnect, Smaller, ConnectionOK
        <4> QED
          BY <1>0, <1>4, <3>1, <4>1, <4>2
             DEF EmitDisconnected, HandleDisconnected, ScheduleReconnect, ConnectionOK
      <3>2. CASE UNCHANGED <<phase, untilDue, reconnectAttempt>>
        BY <1>0, <1>4, <3>2 DEF EmitDisconnected, HandleDisconnected, ConnectionOK
      <3> QED
        BY <1>4, <3>1, <3>2 DEF EmitDisconnected, HandleDisconnected, DisconnectedPhase
    <2>2. health' \in HealthType
      BY <1>0, <1>4, HealthUpdates DEF EmitDisconnected, HandleDisconnected
    <2>3. PipelineOK' /\ ThreadsOK' /\ VenueOK'
      BY <1>0, <1>4 DEF EmitDisconnected, HandleDisconnected, PipelineOK, ThreadsOK, VenueOK
    <2> QED
      BY <1>0, <1>4, <2>1, <2>2, <2>3 DEF EmitDisconnected
  <1> QED
    BY <1>1, <1>2, <1>3, <1>4

LEMMA DeliverTypeOK ==
    ASSUME TypeOK, Deliver
    PROVE  TypeOK'
  <1>0. ConnectionOK /\ PipelineOK /\ ThreadsOK /\ VenueOK
        /\ health \in HealthType /\ seen \in 0..MaxVersion
    BY TypeOKParts
  <1>1. wire \in Seq(Message) /\ wire # <<>> /\ wire' = Tail(wire)
    BY <1>0 DEF Deliver, VenueOK
  <1>2. Head(wire) \in Message /\ wire' \in Seq(Message)
    BY <1>1
  <1>3. ConnectionOK' /\ PipelineOK' /\ ThreadsOK' /\ (health \in HealthType)'
    BY <1>0, <1>2, HandleFrameType DEF Deliver
  <1>4. VenueOK'
    BY <1>0, <1>2 DEF Deliver, VenueOK
  <1>5. VersionOf(validator') \in 0..MaxVersion
    BY <1>3, VersionOfType DEF PipelineOK
  <1>6. seen' \in 0..MaxVersion
    BY <1>0, <1>5 DEF Deliver, Larger
  <1> QED
    BY <1>3, <1>4, <1>6, TypeOKParts

\* Steps that leave the client alone only have the venue's variables to type.
LEMMA VenueOnly ==
    ASSUME TypeOK, UNCHANGED <<clientVars, seen>>, VenueOK'
    PROVE  TypeOK'
  <1>0. ConnectionOK /\ PipelineOK /\ ThreadsOK
        /\ health \in HealthType /\ seen \in 0..MaxVersion
    BY TypeOKParts
  <1>1. ConnectionOK' /\ PipelineOK' /\ ThreadsOK'
    BY <1>0 DEF clientVars, connection, pipeline, ConnectionOK, PipelineOK, ThreadsOK
  <1>2. health' \in HealthType /\ seen' \in 0..MaxVersion
    BY <1>0 DEF clientVars
  <1> QED
    BY <1>1, <1>2, TypeOKParts

LEMMA VenueTypeOK ==
    ASSUME TypeOK, VenueStep
    PROVE  TypeOK'
  <1>0. VenueOK
    BY TypeOKParts
  <1>1. /\ Latest \in 1..MaxVersion /\ Current \in Content
        /\ SeqId[Latest] \in SeqIds
    BY <1>0, CurrentType DEF VenueOK
  <1>2. CASE AnswerRequest
    <2>1. wire' \in Seq(Message)
      BY <1>0, <1>2, SnapshotMessageType DEF AnswerRequest, VenueOK
    <2>2. requests' \in Nat
      BY <1>0, <1>2 DEF AnswerRequest, VenueOK
    <2>3. subscribed' \in BOOLEAN
      BY Zenon, <1>2 DEF AnswerRequest
    <2>4. VenueOK'
      BY <1>0, <1>2, <2>1, <2>2, <2>3 DEF AnswerRequest, VenueOK
    <2> QED
      BY <1>2, <2>4, VenueOnly DEF AnswerRequest
  <1>3. ASSUME NEW change \in Changes, Publish(change) PROVE TypeOK'
    <2> DEFINE next == [bids |-> applyLevels(Current.bids, change.bids),
                        asks |-> applyLevels(Current.asks, change.asks)]
               delta == DeltaMessage(change, SeqId[Latest], SeqId[Latest + 1], next)
    <2>1. change \in [bids : Levels, asks : Levels]
      BY VenueAssumption
    <2>2. next \in Content
      BY <1>1, <2>1, ApplyLevelsType DEF Content
    <2>3. Latest < MaxVersion /\ history' = Append(history, next)
      BY <1>3 DEF Publish
    <2>4. SeqId[Latest + 1] \in SeqIds
      BY <1>1, <2>3, VenueAssumption DEF SeqIds
    <2>5. delta \in Message
      BY <1>1, <2>1, <2>2, <2>4, DeltaMessageType
    <2>6. wire' \in Seq(Message)
      BY <1>0, <1>3, <2>5 DEF Publish, VenueOK
    <2>7. history' \in Seq(Content) /\ Len(history') = Latest + 1
      BY <1>0, <2>2, <2>3 DEF VenueOK, Latest
    <2>8. Len(history') \in 1..MaxVersion
      BY <1>1, <2>3, <2>7, VenueAssumption
    <2>9. VenueOK'
      BY <1>0, <1>3, <2>6, <2>7, <2>8 DEF Publish, VenueOK
    <2> QED
      BY <1>3, <2>9, VenueOnly DEF Publish
  <1>4. ASSUME NEW kind, NEW m \in Message, SendExtra(kind, m) PROVE TypeOK'
    <2>1. wire' \in Seq(Message)
      BY <1>0, <1>4 DEF SendExtra, VenueOK
    <2>2. disturbances' \in 0..MaxDisturbances
      BY <1>0, <1>4, VenueAssumption DEF SendExtra, Disturb, VenueOK
    <2>3. VenueOK'
      BY <1>0, <1>4, <2>1, <2>2 DEF SendExtra, VenueOK
    <2> QED
      BY <1>4, <2>3, VenueOnly DEF SendExtra
  <1>5. CASE Keepalive
    <2>1. NoChange \in [bids : Levels, asks : Levels]
      BY EmptySideType DEF NoChange, EmptyContent
    <2>2. KeepaliveMessage \in Message
      BY <1>1, <2>1, DeltaMessageType DEF KeepaliveMessage
    <2> QED
      BY <1>4, <1>5, <2>2 DEF Keepalive
  <1>6. ASSUME NEW change \in Changes, Repeat(change) PROVE TypeOK'
    <2>1. DeltaMessage(change, SeqId[Latest], SeqId[Latest], Current) \in Message
      BY <1>1, DeltaMessageType, VenueAssumption
    <2> QED
      BY <1>4, <1>6, <2>1 DEF Repeat
  <1> QED
    BY <1>2, <1>3, <1>5, <1>6 DEF VenueStep

LEMMA NetworkTypeOK ==
    ASSUME TypeOK, NetworkStep
    PROVE  TypeOK'
  <1>0. VenueOK
    BY TypeOKParts
  <1>1. wire \in Seq(Message)
    BY <1>0 DEF VenueOK
  <1>2. ASSUME NEW kind, Tamper(kind), wire' \in Seq(Message) PROVE TypeOK'
    <2>1. disturbances' \in 0..MaxDisturbances
      BY <1>0, <1>2, VenueAssumption DEF Tamper, Disturb, VenueOK
    <2>2. VenueOK'
      BY <1>0, <1>2, <2>1 DEF Tamper, VenueOK
    <2> QED
      BY <1>2, <2>2, VenueOnly DEF Tamper
  <1>3. CASE Lose
    <2>1. wire # <<>>
      BY <1>1, <1>3 DEF Lose, Touchable
    <2> QED
      BY <1>1, <1>2, <1>3, <2>1 DEF Lose
  <1>4. ASSUME NEW i \in 1..Len(wire), Duplicate(i) PROVE TypeOK'
    BY <1>1, <1>2, <1>4 DEF Duplicate
  <1>5. ASSUME NEW i \in 1..Len(wire), Reorder(i) PROVE TypeOK'
    <2>1. i + 1 \in 1..Len(wire)
      BY <1>5 DEF Reorder, Touchable
    <2>2. wire' \in Seq(Message)
      BY <1>1, <1>5, <2>1 DEF Reorder
    <2> QED
      BY <1>2, <1>5, <2>2 DEF Reorder
  <1>6. ASSUME NEW i \in 1..Len(wire), NEW m \in Message, wire' = [wire EXCEPT ![i] = m]
        PROVE  wire' \in Seq(Message)
    BY <1>1, <1>6
  <1>7. ASSUME NEW i \in 1..Len(wire) PROVE wire[i] \in Message
    BY <1>1
  <1>8. ASSUME NEW i \in 1..Len(wire), Garble(i) PROVE TypeOK'
    <2>1. [wire[i] EXCEPT !.status = "Malformed"] \in Message
      BY <1>7 DEF Message
    <2>2. wire' = [wire EXCEPT ![i] = [wire[i] EXCEPT !.status = "Malformed"]]
      BY <1>1, <1>8 DEF Garble
    <2> QED
      BY <1>2, <1>6, <1>8, <2>1, <2>2 DEF Garble
  <1>9. ASSUME NEW i \in 1..Len(wire), Unanchor(i) PROVE TypeOK'
    <2>1. [wire[i] EXCEPT !.prevSequence = {wire[i].sequence}] \in Message
      BY <1>7 DEF Message
    <2>2. wire' = [wire EXCEPT ![i] = [wire[i] EXCEPT !.prevSequence = {wire[i].sequence}]]
      BY <1>1, <1>9 DEF Unanchor
    <2> QED
      BY <1>2, <1>6, <1>9, <2>1, <2>2 DEF Unanchor
  <1>10. ASSUME NEW i \in 1..Len(wire), NEW change \in Changes, Corrupt(i, change)
         PROVE  TypeOK'
    <2> DEFINE m == [wire[i] EXCEPT !.bids = change.bids, !.asks = change.asks]
    <2>1. change.bids \in Levels /\ change.asks \in Levels
      BY VenueAssumption
    <2>2. m \in Message
      BY <1>7, <2>1 DEF Message
    <2>3. wire' = [wire EXCEPT ![i] = m]
      BY <1>1, <1>10 DEF Corrupt
    <2> QED
      BY <1>2, <1>6, <1>10, <2>2, <2>3 DEF Corrupt
  <1> QED
    BY <1>3, <1>4, <1>5, <1>8, <1>9, <1>10 DEF NetworkStep

LEMMA NextTypeOK ==
    ASSUME TypeOK, [Next]_vars
    PROVE  TypeOK'
  <1>1. CASE UNCHANGED vars
    BY <1>1, TypeOKParts
       DEF vars, clientVars, connection, pipeline, venueVars,
           ConnectionOK, PipelineOK, ThreadsOK, VenueOK
  <1>2. CASE SourceStep
    BY <1>2, SessionTypeOK, DeliverTypeOK DEF SourceStep, SessionStep
  <1> QED
    BY <1>1, <1>2, HostTypeOK, VenueTypeOK, NetworkTypeOK DEF Next, Terminated

\* Every variable keeps its type, whatever the constants: in particular the
\* book never holds a level of size zero, the validator's lastSeqId is a
\* seqId of the venue or -1, and the reconnect delay never exceeds maxDelay_.
THEOREM TypeCorrect == Spec => []TypeOK
  <1>1. Init => TypeOK
    BY InitTypeOK
  <1>2. TypeOK /\ [Next]_vars => TypeOK'
    BY NextTypeOK
  <1> QED
    BY <1>1, <1>2, PTL DEF Spec

-----------------------------------------------------------------------------
(***************************************************************************)
(* The integrity of the client's book under the OkxSequenced rule: for any *)
(* loss, repetition, reordering or damage of messages short of altering    *)
(* the levels they carry, the book is exactly one the venue has had.       *)
(***************************************************************************)

(***************************************************************************)
(* The inductive invariant.  BookIsTruth is not inductive by itself: what  *)
(* the client does with a message depends on what messages can say.  An    *)
(* honest message is undecodable, or a snapshot that wrongly names a       *)
(* predecessor, or a snapshot of some version of the venue's book, or a    *)
(* delta that names the version it was made for and either turns it into   *)
(* the next one or repeats its seqId.  All messages in flight are honest,  *)
(* wherever they came from.                                                *)
(***************************************************************************)

HonestSnapshot(m, books) ==
    \E v \in 1..Len(books) :
        /\ m.prevSequence = {-1}
        /\ m.sequence = SeqId[v]
        /\ m.bids = books[v].bids
        /\ m.asks = books[v].asks

Follows(m, v, books) ==
    /\ v + 1 \in 1..Len(books)
    /\ m.sequence = SeqId[v + 1]
    /\ books[v + 1] = [bids |-> applyLevels(books[v].bids, m.bids),
                       asks |-> applyLevels(books[v].asks, m.asks)]

HonestDelta(m, books) ==
    \E v \in 1..Len(books) :
        /\ m.prevSequence = {SeqId[v]}
        /\ m.sequence = SeqId[v] \/ Follows(m, v, books)

Honest(m, books) ==
    \/ m.status # "Ok"
    \/ m.type = "Snapshot" /\ m.prevSequence # {-1}
    \/ m.type = "Snapshot" /\ HonestSnapshot(m, books)
    \/ m.type = "Delta" /\ HonestDelta(m, books)

AllHonest == \A i \in 1..Len(wire) : Honest(wire[i], history)

AtVersion(v) ==
    /\ validator.lastSeqId = SeqId[v]
    /\ ContentOf(book) = history[v]

Synced ==
    IF validator.hasBaseline
    THEN \E v \in Versions : AtVersion(v)
    ELSE ContentOf(book) = EmptyContent

IntegrityInv == TypeOK /\ AllHonest /\ Synced

-----------------------------------------------------------------------------
(***************************************************************************)
(* What the client does with an honest message.                            *)
(***************************************************************************)

LEMMA WithoutLevels ==
    ASSUME NEW levels \in Levels, DOMAIN levels = {}
    PROVE  levels = EmptySide
  <1>1. levels \in [{} -> Size]
    BY SideMembership
  <1>2. levels = [p \in {} |-> levels[p]]
    BY <1>1
  <1> QED
    BY <1>2 DEF EmptySide

\* Two versions with the same seqId are the same version.
LEMMA SameVersion ==
    ASSUME TypeOK, NEW v \in Versions, NEW w \in Versions, SeqId[v] = SeqId[w]
    PROVE  v = w
  <1>1. Versions \subseteq 1..MaxVersion
    BY VenueAssumption DEF TypeOK, Versions, Latest
  <1> QED
    BY <1>1, SeqIdsAreUnique

LEMMA HistoryContent ==
    ASSUME TypeOK, NEW v \in Versions
    PROVE  /\ history[v] \in Content
           /\ history[v] = [bids |-> history[v].bids, asks |-> history[v].asks]
           /\ history[v].bids \in Side /\ history[v].asks \in Side
  <1>1. history[v] \in Content
    BY DEF TypeOK, Versions, Latest
  <1> QED
    BY <1>1 DEF Content

\* In OkxSequenced mode an event is applied under its own seqId.
LEMMA AppliedContent ==
    ASSUME Mode = "OkxSequenced", NEW m \in Message
    PROVE  ContentOf(Applied(m)) =
               IF m.type = "Snapshot"
               THEN [bids |-> applyLevels(EmptySide, m.bids),
                     asks |-> applyLevels(EmptySide, m.asks)]
               ELSE [bids |-> applyLevels(book.bids, m.bids),
                     asks |-> applyLevels(book.asks, m.asks)]
  <1> DEFINE event == [m EXCEPT !.sequence = effectiveSequence(validator, m)]
  <1>1. event.bids = m.bids /\ event.asks = m.asks
    BY DEF Message
  <1>2. Applied(m) = IF m.type = "Snapshot" THEN applySnapshot(book, event)
                                            ELSE applyDelta(book, event)
    BY DEF Applied
  <1> QED
    BY <1>1, <1>2 DEF applySnapshot, applyDelta, ContentOf

\* Accepting records a baseline at the event's seqId.
LEMMA AcceptedBaseline ==
    ASSUME Mode = "OkxSequenced", TypeOK, NEW m \in Message
    PROVE  /\ Accepting(validator, m).hasBaseline
           /\ Accepting(validator, m).lastSeqId = m.sequence
  <1>1. validator \in ValidatorType
    BY DEF TypeOK, ValidatorType
  <1>2. m.sequence \in SeqIds
    BY DEF Message
  <1> QED
    BY <1>1, <1>2 DEF Accepting, ValidatorType

\* An accepted snapshot puts the book at the version it was taken of.
LEMMA SnapshotAnchors ==
    ASSUME Mode = "OkxSequenced", TypeOK, NEW m \in Message,
           m.status = "Ok", Honest(m, history), AnchoringSnapshot(m)
    PROVE  \E v \in Versions : /\ m.sequence = SeqId[v]
                               /\ ContentOf(Applied(m)) = history[v]
  <1>1. m.type = "Snapshot" /\ m.prevSequence = {-1}
    BY DEF AnchoringSnapshot
  <1>2. HonestSnapshot(m, history)
    BY <1>1 DEF Honest
  <1>3. PICK v \in Versions : /\ m.sequence = SeqId[v]
                              /\ m.bids = history[v].bids
                              /\ m.asks = history[v].asks
    BY <1>2 DEF HonestSnapshot, Versions, Latest
  <1>4. history[v].bids \in Side /\ history[v].asks \in Side
    BY HistoryContent
  <1>5. ContentOf(Applied(m)) = [bids |-> history[v].bids, asks |-> history[v].asks]
    BY <1>1, <1>3, <1>4, AppliedContent, SnapshotRestores
  <1> QED
    BY <1>3, <1>5, HistoryContent

\* An accepted delta moves the book to the next version, or is a keepalive.
LEMMA DeltaAdvances ==
    ASSUME Mode = "OkxSequenced", TypeOK, Synced, NEW m \in Message,
           m.status = "Ok", Honest(m, history),
           Connects(validator, m), ~RepeatsWithLevels(validator, m)
    PROVE  \E v \in Versions : /\ m.sequence = SeqId[v]
                               /\ ContentOf(Applied(m)) = history[v]
  <1>1. /\ m.type = "Delta"
        /\ validator.hasBaseline
        /\ m.prevSequence = {validator.lastSeqId}
    BY DEF Connects
  <1>2. PICK v \in Versions : AtVersion(v)
    BY <1>1 DEF Synced
  <1>3. PICK w \in Versions : /\ m.prevSequence = {SeqId[w]}
                              /\ m.sequence = SeqId[w] \/ Follows(m, w, history)
    BY <1>1 DEF Honest, HonestDelta, Versions, Latest
  <1>4. v = w
    BY <1>1, <1>2, <1>3, SameVersion DEF AtVersion
  <1>5. /\ book.bids = history[v].bids /\ book.asks = history[v].asks
        /\ book.bids \in Side /\ book.asks \in Side
    BY <1>2, HistoryContent DEF AtVersion, ContentOf
  <1>6. ContentOf(Applied(m)) = [bids |-> applyLevels(book.bids, m.bids),
                                 asks |-> applyLevels(book.asks, m.asks)]
    BY <1>1, AppliedContent
  <1>7. CASE m.sequence = SeqId[v]
    <2>1. ~HasLevels(m)
      BY <1>2, <1>7 DEF RepeatsWithLevels, AtVersion
    <2>2. m.bids \in Levels /\ m.asks \in Levels
      BY DEF Message
    <2>3. m.bids = EmptySide /\ m.asks = EmptySide
      BY <2>1, <2>2, WithoutLevels DEF HasLevels
    <2>4. ContentOf(Applied(m)) = [bids |-> history[v].bids, asks |-> history[v].asks]
      BY <1>5, <1>6, <2>3, NoLevelsNoChange
    <2> QED
      BY <1>7, <2>4, HistoryContent
  <1>8. CASE Follows(m, v, history)
    <2>1. /\ v + 1 \in Versions
          /\ m.sequence = SeqId[v + 1]
          /\ history[v + 1] = [bids |-> applyLevels(history[v].bids, m.bids),
                               asks |-> applyLevels(history[v].asks, m.asks)]
      BY <1>8 DEF Follows, Versions, Latest
    <2>2. ContentOf(Applied(m)) = history[v + 1]
      BY <1>5, <1>6, <2>1
    <2> QED
      BY <2>1, <2>2
  <1> QED
    BY <1>3, <1>4, <1>7, <1>8

\* However an honest message is handled, the book is synchronised or empty.
LEMMA HandleFrameSynced ==
    ASSUME Mode = "OkxSequenced", TypeOK, Synced, NEW m \in Message, Honest(m, history),
           handleFrame(m), UNCHANGED history
    PROVE  Synced'
  <1>1. Versions' = Versions
    BY DEF Versions, Latest
  <1>2. ASSUME book' = clear, ~validator'.hasBaseline PROVE Synced'
    BY <1>2 DEF Synced, clear, ContentOf, EmptyContent
  <1>3. CASE UNCHANGED <<book, validator>>
    BY <1>1, <1>3 DEF Synced, AtVersion, ContentOf
  <1>4. CASE HandleGap(m) \/ HandleMismatch(m)
    BY <1>2, <1>4 DEF HandleGap, HandleMismatch, reset
  <1>5. CASE HandleAccepted(m)
    <2>1. /\ m.status = "Ok" /\ verdict(validator, m) = "Accept"
          /\ book' = Applied(m) /\ validator' = Accepting(validator, m)
      BY <1>5 DEF HandleAccepted
    <2>2. \/ AnchoringSnapshot(m)
          \/ Connects(validator, m) /\ ~RepeatsWithLevels(validator, m)
      BY <2>1 DEF verdict
    <2>3. PICK v \in Versions : m.sequence = SeqId[v] /\ ContentOf(Applied(m)) = history[v]
      BY <2>1, <2>2, SnapshotAnchors, DeltaAdvances
    <2>4. validator'.hasBaseline /\ validator'.lastSeqId = SeqId[v]
      BY <2>1, <2>3, AcceptedBaseline
    <2>5. ContentOf(book)' = history[v]
      BY <2>1, <2>3 DEF ContentOf
    <2> QED
      BY <1>1, <2>4, <2>5 DEF Synced, AtVersion
  <1> QED
    BY <1>3, <1>4, <1>5 DEF handleFrame, HandleMalformed, HandleStale, pipeline

-----------------------------------------------------------------------------
(***************************************************************************)
(* What the venue sends is honest, and nothing on the way makes it         *)
(* dishonest.                                                              *)
(***************************************************************************)

\* The venue's past does not change: what was honest stays so.
LEMMA HonestPersists ==
    ASSUME NEW books \in Seq(Content), NEW longer, NEW m, Honest(m, books),
           \/ longer = books
           \/ \E next : longer = Append(books, next)
    PROVE  Honest(m, longer)
  <1>1. /\ 1..Len(books) \subseteq 1..Len(longer)
        /\ \A v \in 1..Len(books) : longer[v] = books[v]
    OBVIOUS
  <1>2. ASSUME HonestSnapshot(m, books) PROVE HonestSnapshot(m, longer)
    BY <1>1, <1>2 DEF HonestSnapshot
  <1>3. ASSUME NEW v \in 1..Len(books), Follows(m, v, books)
        PROVE  Follows(m, v, longer)
    BY <1>1, <1>3 DEF Follows
  <1>4. ASSUME HonestDelta(m, books) PROVE HonestDelta(m, longer)
    <2>1. PICK v \in 1..Len(books) :
              /\ m.prevSequence = {SeqId[v]}
              /\ m.sequence = SeqId[v] \/ Follows(m, v, books)
      BY <1>4 DEF HonestDelta
    <2>2. m.sequence = SeqId[v] \/ Follows(m, v, longer)
      BY <1>3, <2>1
    <2> QED
      BY <1>1, <2>1, <2>2 DEF HonestDelta
  <1> QED
    BY <1>2, <1>4 DEF Honest

\* A wire whose messages are each an old one or an honest new one is honest.
LEMMA WirePersists ==
    ASSUME TypeOK, AllHonest,
           \/ history' = history
           \/ \E next : history' = Append(history, next),
           \A j \in 1..Len(wire') :
               \/ \E i \in 1..Len(wire) : wire'[j] = wire[i]
               \/ Honest(wire'[j], history')
    PROVE  AllHonest'
  <1> SUFFICES ASSUME NEW j \in 1..Len(wire') PROVE Honest(wire'[j], history')
    BY DEF AllHonest
  <1>1. ASSUME NEW i \in 1..Len(wire) PROVE Honest(wire[i], history')
    <2>1. Honest(wire[i], history)
      BY DEF AllHonest
    <2>2. history \in Seq(Content)
      BY DEF TypeOK
    <2> QED
      BY <2>1, <2>2, HonestPersists
  <1> QED
    BY <1>1

LEMMA SnapshotIsHonest ==
    ASSUME TypeOK
    PROVE  Honest(SnapshotMessage, history)
  <1>1. Latest \in 1..Len(history)
    BY DEF TypeOK, Latest
  <1>2. /\ SnapshotMessage.type = "Snapshot"
        /\ SnapshotMessage.prevSequence = {-1}
        /\ SnapshotMessage.sequence = SeqId[Latest]
        /\ SnapshotMessage.bids = history[Latest].bids
        /\ SnapshotMessage.asks = history[Latest].asks
    BY DEF SnapshotMessage, Current
  <1> QED
    BY <1>1, <1>2 DEF Honest, HonestSnapshot

\* The delta of a change names the version it starts from; so does an extra
\* message under the current seqId, whatever levels it repeats.
LEMMA DeltaIsHonest ==
    ASSUME TypeOK, NEW change, NEW content
    PROVE  /\ Honest(DeltaMessage(change, SeqId[Latest], SeqId[Latest], content),
                     history)
           /\ LET next == [bids |-> applyLevels(Current.bids, change.bids),
                           asks |-> applyLevels(Current.asks, change.asks)]
              IN  Honest(DeltaMessage(change, SeqId[Latest], SeqId[Latest + 1], content),
                         Append(history, next))
  <1> DEFINE next == [bids |-> applyLevels(Current.bids, change.bids),
                      asks |-> applyLevels(Current.asks, change.asks)]
             longer == Append(history, next)
             repeat == DeltaMessage(change, SeqId[Latest], SeqId[Latest], content)
             delta == DeltaMessage(change, SeqId[Latest], SeqId[Latest + 1], content)
  <1>1. Latest \in 1..Len(history) /\ history \in Seq(Content)
    BY DEF TypeOK, Latest
  <1>2. /\ repeat.type = "Delta" /\ repeat.prevSequence = {SeqId[Latest]}
        /\ repeat.sequence = SeqId[Latest]
    BY DEF DeltaMessage
  <1>3. Honest(repeat, history)
    BY <1>1, <1>2 DEF Honest, HonestDelta
  <1>4. /\ delta.type = "Delta" /\ delta.prevSequence = {SeqId[Latest]}
        /\ delta.sequence = SeqId[Latest + 1]
        /\ delta.bids = change.bids /\ delta.asks = change.asks
    BY DEF DeltaMessage
  <1>5. /\ Len(longer) = Latest + 1
        /\ longer[Latest] = Current
        /\ longer[Latest + 1] = next
    <2> HIDE DEF next
    <2> QED
      BY <1>1 DEF Latest, Current
  <1>6. Latest \in 1..Len(longer) /\ Latest + 1 \in 1..Len(longer)
    BY <1>1, <1>5 DEF Latest
  <1>7. Follows(delta, Latest, longer)
    BY <1>4, <1>5, <1>6 DEF Follows
  <1>8. Honest(delta, longer)
    <2> HIDE DEF delta, longer
    <2> QED
      BY <1>4, <1>6, <1>7 DEF Honest, HonestDelta
  <1> QED
    BY <1>3, <1>8

\* An undecodable message, and a snapshot that names a predecessor, are honest.
LEMMA DamagedIsHonest ==
    ASSUME NEW m \in Message
    PROVE  /\ Honest([m EXCEPT !.status = "Malformed"], history)
           /\ m.type = "Snapshot" =>
                Honest([m EXCEPT !.prevSequence = {m.sequence}], history)
  <1>1. Honest([m EXCEPT !.status = "Malformed"], history)
    BY DEF Message, Honest
  <1>2. ASSUME m.type = "Snapshot"
        PROVE  Honest([m EXCEPT !.prevSequence = {m.sequence}], history)
    <2> DEFINE damaged == [m EXCEPT !.prevSequence = {m.sequence}]
    <2>1. m.sequence \in Nat
      BY SeqIdsAreUnique DEF Message, SeqIds
    <2>2. {m.sequence} # {-1}
      BY <2>1
    <2>3. damaged.type = "Snapshot" /\ damaged.prevSequence = {m.sequence}
      BY <1>2 DEF Message
    <2> QED
      BY <2>2, <2>3 DEF Honest
  <1> QED
    BY <1>1, <1>2

LEMMA VenueHonest ==
    ASSUME TypeOK, AllHonest, VenueStep
    PROVE  AllHonest'
  <1>0. wire \in Seq(Message)
    BY DEF TypeOK
  <1>1. ASSUME NEW m, wire' = Append(wire, m), UNCHANGED history, Honest(m, history)
        PROVE  AllHonest'
    BY <1>0, <1>1, WirePersists
  <1>2. CASE AnswerRequest
    BY <1>1, <1>2, SnapshotIsHonest DEF AnswerRequest
  <1>3. ASSUME NEW change \in Changes, Publish(change) PROVE AllHonest'
    <2> DEFINE next == [bids |-> applyLevels(Current.bids, change.bids),
                        asks |-> applyLevels(Current.asks, change.asks)]
               delta == DeltaMessage(change, SeqId[Latest], SeqId[Latest + 1], next)
    <2>1. /\ history' = Append(history, next)
          /\ wire' = wire \/ wire' = Append(wire, delta)
      BY <1>3 DEF Publish
    <2>2. Honest(delta, history')
      BY <2>1, DeltaIsHonest
    <2> HIDE DEF next, delta
    <2>3. \A j \in 1..Len(wire') :
              \/ \E i \in 1..Len(wire) : wire'[j] = wire[i]
              \/ Honest(wire'[j], history')
      BY <1>0, <2>1, <2>2
    <2> QED
      BY <2>1, <2>3, WirePersists
  <1>4. CASE Keepalive
    BY <1>1, <1>4, DeltaIsHonest DEF Keepalive, KeepaliveMessage, SendExtra
  <1>5. ASSUME NEW change \in Changes, Repeat(change) PROVE AllHonest'
    BY <1>1, <1>5, DeltaIsHonest DEF Repeat, SendExtra
  <1> QED
    BY <1>2, <1>3, <1>4, <1>5 DEF VenueStep

LEMMA NetworkHonest ==
    ASSUME "corrupt" \notin Disturbances, TypeOK, AllHonest, NetworkStep
    PROVE  AllHonest'
  <1>0. wire \in Seq(Message)
    BY DEF TypeOK
  <1>1. UNCHANGED history
    BY DEF NetworkStep, Lose, Duplicate, Reorder, Garble, Unanchor, Corrupt, Tamper
  <1>2. CASE Lose
    <2>1. wire # <<>> /\ wire' = Tail(wire)
      BY <1>0, <1>2 DEF Lose, Touchable
    <2>2. \A j \in 1..Len(wire') : \E i \in 1..Len(wire) : wire'[j] = wire[i]
      <3> SUFFICES ASSUME NEW j \in 1..Len(wire')
                   PROVE  \E i \in 1..Len(wire) : wire'[j] = wire[i]
        OBVIOUS
      <3>1. j + 1 \in 1..Len(wire) /\ wire'[j] = wire[j + 1]
        BY <1>0, <2>1
      <3> QED
        BY <3>1
    <2> QED
      BY <1>1, <2>2, WirePersists
  <1>3. ASSUME NEW k \in 1..Len(wire), Duplicate(k) PROVE AllHonest'
    <2>1. wire' = Append(wire, wire[k])
      BY <1>3 DEF Duplicate
    <2>2. \A j \in 1..Len(wire') : \E i \in 1..Len(wire) : wire'[j] = wire[i]
      BY <1>0, <2>1
    <2> QED
      BY <1>1, <2>2, WirePersists
  <1>4. ASSUME NEW k \in 1..Len(wire), Reorder(k) PROVE AllHonest'
    <2>1. k + 1 \in 1..Len(wire)
      BY <1>4 DEF Reorder, Touchable
    <2>2. wire' = [wire EXCEPT ![k] = wire[k + 1], ![k + 1] = wire[k]]
      BY <1>4 DEF Reorder
    <2>3. \A j \in 1..Len(wire') : \E i \in 1..Len(wire) : wire'[j] = wire[i]
      BY <1>0, <2>1, <2>2
    <2> QED
      BY <1>1, <2>3, WirePersists
  <1>5. ASSUME NEW k \in 1..Len(wire), NEW m, wire' = [wire EXCEPT ![k] = m],
               Honest(m, history)
        PROVE  AllHonest'
    <2>1. \A j \in 1..Len(wire') :
              \/ \E i \in 1..Len(wire) : wire'[j] = wire[i]
              \/ Honest(wire'[j], history')
      BY <1>0, <1>1, <1>5
    <2> QED
      BY <1>1, <2>1, WirePersists
  <1>6. ASSUME NEW k \in 1..Len(wire), Garble(k) PROVE AllHonest'
    <2> DEFINE m == [wire[k] EXCEPT !.status = "Malformed"]
    <2>1. wire' = [wire EXCEPT ![k] = m]
      BY <1>0, <1>6 DEF Garble
    <2>2. wire[k] \in Message
      BY <1>0
    <2>3. Honest(m, history)
      BY <2>2, DamagedIsHonest
    <2> HIDE DEF m
    <2> QED
      BY <1>5, <2>1, <2>3
  <1>7. ASSUME NEW k \in 1..Len(wire), Unanchor(k) PROVE AllHonest'
    <2> DEFINE m == [wire[k] EXCEPT !.prevSequence = {wire[k].sequence}]
    <2>1. wire' = [wire EXCEPT ![k] = m]
      BY <1>0, <1>7 DEF Unanchor
    <2>2. wire[k] \in Message /\ wire[k].type = "Snapshot"
      BY <1>0, <1>7 DEF Unanchor, AnchoringSnapshot
    <2>3. Honest(m, history)
      BY <2>2, DamagedIsHonest
    <2> HIDE DEF m
    <2> QED
      BY <1>5, <2>1, <2>3
  <1>8. ASSUME NEW k \in 1..Len(wire), NEW change \in Changes, Corrupt(k, change)
        PROVE  FALSE
    BY <1>8 DEF Corrupt, Tamper, Disturb
  <1> QED
    BY <1>2, <1>3, <1>4, <1>6, <1>7, <1>8 DEF NetworkStep

-----------------------------------------------------------------------------
(***************************************************************************)
(* The invariant and the theorem.                                          *)
(***************************************************************************)

LEMMA InitIntegrity == Init => IntegrityInv
  <1> SUFFICES ASSUME Init PROVE IntegrityInv
    OBVIOUS
  <1>1. AllHonest
    BY DEF Init, InitVenue, AllHonest
  <1>2. Synced
    BY DEF Init, InitClient, NewValidator, clear, Synced, ContentOf, EmptyContent
  <1> QED
    BY <1>1, <1>2, InitTypeOK DEF IntegrityInv

\* Steps that leave the book and the validator alone keep them in step: the
\* versions the venue has had are not rewritten.
LEMMA SyncedPersists ==
    ASSUME TypeOK, Synced, UNCHANGED <<book, validator>>,
           \/ history' = history
           \/ \E next : history' = Append(history, next)
    PROVE  Synced'
  <1>1. /\ Versions \subseteq Versions'
        /\ \A v \in Versions : history'[v] = history[v]
    <2>1. history \in Seq(Content)
      BY DEF TypeOK
    <2>2. ASSUME NEW next, history' = Append(history, next)
          PROVE  /\ Len(history') = Len(history) + 1
                 /\ \A v \in 1..Len(history) : history'[v] = history[v]
      BY <2>1, <2>2
    <2>3. /\ Len(history) \in Nat
          /\ Len(history') \in {Len(history), Len(history) + 1}
          /\ \A v \in 1..Len(history) : history'[v] = history[v]
      BY <2>1, <2>2
    <2> QED
      BY <2>3 DEF Versions, Latest
  <1>2. ASSUME NEW v \in Versions, AtVersion(v) PROVE AtVersion(v)'
    BY <1>1, <1>2 DEF AtVersion, ContentOf
  <1> QED
    BY <1>1, <1>2 DEF Synced, ContentOf

LEMMA DeliverIntegrity ==
    ASSUME Mode = "OkxSequenced", IntegrityInv, Deliver
    PROVE  AllHonest' /\ Synced'
  <1>1. wire \in Seq(Message) /\ wire # <<>> /\ wire' = Tail(wire) /\ UNCHANGED history
    BY DEF IntegrityInv, TypeOK, Deliver
  <1>2. 1 \in 1..Len(wire) /\ Head(wire) = wire[1] /\ wire[1] \in Message
    BY <1>1
  <1>3. Honest(Head(wire), history)
    BY <1>2 DEF IntegrityInv, AllHonest
  <1>4. Synced'
    BY <1>1, <1>2, <1>3, HandleFrameSynced DEF IntegrityInv, Deliver
  <1>5. \A j \in 1..Len(wire') : \E i \in 1..Len(wire) : wire'[j] = wire[i]
    <2> SUFFICES ASSUME NEW j \in 1..Len(wire')
                 PROVE  \E i \in 1..Len(wire) : wire'[j] = wire[i]
      OBVIOUS
    <2>1. j + 1 \in 1..Len(wire) /\ wire'[j] = wire[j + 1]
      BY <1>1
    <2> QED
      BY <2>1
  <1>6. AllHonest'
    BY <1>1, <1>5, WirePersists DEF IntegrityInv
  <1> QED
    BY <1>4, <1>6

LEMMA NextIntegrity ==
    ASSUME Mode = "OkxSequenced", "corrupt" \notin Disturbances,
           IntegrityInv, [Next]_vars
    PROVE  IntegrityInv'
  <1> USE DEF IntegrityInv, clientVars, pipeline, venueVars
  <1>1. TypeOK'
    BY NextTypeOK
  <1>2. ASSUME UNCHANGED <<wire, history, book, validator>>
        PROVE  AllHonest' /\ Synced'
    BY <1>2, SyncedPersists DEF AllHonest
  <1>3. CASE HostStep
    BY <1>1, <1>2, <1>3 DEF HostStep, Start, Stop, TickReconnect, TickStale, Connect,
                            HandleConnecting, Disconnected
  <1>4. CASE Open \/ Resubscribe \/ Abandon
    BY <1>1, <1>2, <1>4 DEF Open, Resubscribe, Abandon
  <1>5. CASE EmitDisconnected
    BY <1>1, <1>2, <1>5 DEF EmitDisconnected, HandleDisconnected
  <1>6. CASE TimePasses
    BY <1>1, <1>2, <1>6 DEF TimePasses, Elapse
  <1>7. CASE Terminated \/ UNCHANGED vars
    BY <1>1, <1>2, <1>7 DEF Terminated, vars
  <1>8. CASE Refuse \/ Close \/ StopSocket
    <2>1. wire' = <<>> /\ UNCHANGED <<history, book, validator>>
      BY <1>8 DEF Refuse, Close, StopSocket, EndSession
    <2>2. AllHonest'
      BY <2>1 DEF AllHonest
    <2> QED
      BY <1>1, <2>1, <2>2, SyncedPersists
  <1>9. CASE EmitConnected
    <2>1. UNCHANGED <<wire, history>>
      BY <1>9 DEF EmitConnected
    <2>2. book' = clear /\ ~validator'.hasBaseline
      BY <1>9 DEF EmitConnected, HandleConnected, resetPipelineLocked, reset
    <2>3. Synced'
      BY <2>2 DEF Synced, clear, ContentOf, EmptyContent
    <2>4. AllHonest'
      BY <2>1 DEF AllHonest
    <2> QED
      BY <1>1, <2>3, <2>4
  <1>10. CASE Deliver
    BY <1>1, <1>10, DeliverIntegrity
  <1>11. CASE VenueStep
    <2>1. /\ UNCHANGED <<book, validator>>
          /\ \/ history' = history
             \/ \E next : history' = Append(history, next)
      BY <1>11 DEF VenueStep, AnswerRequest, Publish, Keepalive, Repeat, SendExtra
    <2> QED
      BY <1>1, <1>11, <2>1, VenueHonest, SyncedPersists
  <1>12. CASE NetworkStep
    <2>1. UNCHANGED <<book, validator, history>>
      BY <1>12 DEF NetworkStep, Lose, Duplicate, Reorder, Garble, Unanchor, Corrupt, Tamper
    <2> QED
      BY <1>1, <1>12, <2>1, NetworkHonest, SyncedPersists
  <1> QED
    BY <1>3, <1>4, <1>5, <1>6, <1>7, <1>8, <1>9, <1>10, <1>11, <1>12
       DEF Next, SourceStep, SessionStep

\* A synchronised book is the venue's book at the version the validator is at.
LEMMA SyncedIsTruth == TypeOK /\ Synced => BookIsTruth
  <1> SUFFICES ASSUME TypeOK, Synced PROVE BookIsTruth
    OBVIOUS
  <1>1. CASE ~validator.hasBaseline
    BY <1>1 DEF Synced, BookIsTruth
  <1>2. CASE validator.hasBaseline
    <2>1. PICK v \in Versions : AtVersion(v)
      BY <1>2 DEF Synced
    <2>2. v \in 1..MaxVersion
      BY VenueAssumption DEF TypeOK, Versions, Latest
    <2>3. VersionOf(validator) = v
      BY <1>2, <2>1, <2>2, SeqIdsAreUnique DEF VersionOf, AtVersion
    <2> QED
      BY <1>2, <2>1, <2>3 DEF BookIsTruth, AtVersion
  <1> QED
    BY <1>1, <1>2

\* The book is never a mixture.  In OkxSequenced mode, whatever messages are
\* lost, repeated, reordered, undecodable or wrongly linked, over any number of
\* sessions, the client's book is the venue's book at the last
\* accepted seqId, or empty (FeedClient.cpp, handleFrame and handleState).
THEOREM BookIntegrity ==
    ASSUME Mode = "OkxSequenced", "corrupt" \notin Disturbances
    PROVE  Spec => []BookIsTruth
  <1>1. Init => IntegrityInv
    BY InitIntegrity
  <1>2. IntegrityInv /\ [Next]_vars => IntegrityInv'
    BY NextIntegrity
  <1>3. IntegrityInv => BookIsTruth
    BY SyncedIsTruth DEF IntegrityInv
  <1> QED
    BY <1>1, <1>2, <1>3, PTL DEF Spec

=============================================================================
