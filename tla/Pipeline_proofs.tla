--------------------------- MODULE Pipeline_proofs ---------------------------
(***************************************************************************)
(* More about LiveFeed for every value of its constants: the client's      *)
(* variables agree with each other and with the session, recovery is on    *)
(* its way, the checksum does its work, the copy of the venue's book       *)
(* implements OrderBookSync, and one fault raises at most one alarm.       *)
(***************************************************************************)
EXTENDS LiveFeed_proofs

-----------------------------------------------------------------------------
(***************************************************************************)
(* The published sequence number and readiness.                            *)
(***************************************************************************)

\* Each of the two needs only the types to be inductive.
Mirrors ==
    /\ SequenceMirrorsValidator
    /\ InvalidatedIsEmpty

MirrorInv == TypeOK /\ Mirrors

\* Applying an event stamps the book with the event's effective sequence.
LEMMA AppliedSequence ==
    ASSUME NEW m \in Message
    PROVE  Applied(m).lastSequence = effectiveSequence(validator, m)
  <1> DEFINE seq == effectiveSequence(validator, m)
             event == [m EXCEPT !.sequence = seq]
  <1>1. event.sequence = seq
    <2> HIDE DEF seq
    <2> QED
      BY DEF Message
  <1> HIDE DEF seq
  <1> QED
    BY <1>1 DEF Applied, applySnapshot, applyDelta, seq

LEMMA ClearedMirrors ==
    ASSUME book' = clear, validator' = reset(validator) \/ validator' = NewValidator
    PROVE  SequenceMirrorsValidator'
  BY DEF SequenceMirrorsValidator, clear, reset, NewValidator

LEMMA HandleFrameMirrors ==
    ASSUME MirrorInv, NEW m \in Message, handleFrame(m)
    PROVE  Mirrors'
  <1>0. health \in HealthType /\ validator \in ValidatorType
    BY DEF MirrorInv, TypeOK, HealthType, ValidatorType
  <1>1. CASE HandleMalformed(m) \/ HandleStale(m)
    <2>1. UNCHANGED <<book, validator>> /\ health'.bookReady = health.bookReady
      BY <1>0, <1>1 DEF HandleMalformed, HandleStale, pipeline, HealthType
    <2> QED
      BY <2>1 DEF MirrorInv, Mirrors, SequenceMirrorsValidator, InvalidatedIsEmpty, ContentOf
  <1>2. CASE HandleGap(m)
    BY <1>2, ClearedMirrors
       DEF HandleGap, Mirrors, InvalidatedIsEmpty, ContentOf, EmptyContent, clear
  <1>3. CASE HandleMismatch(m)
    <2>1. book' = clear /\ validator' = NewValidator
      BY <1>3 DEF HandleMismatch, reset, NewValidator
    <2> QED
      BY <2>1, ClearedMirrors DEF Mirrors, InvalidatedIsEmpty, ContentOf, EmptyContent, clear
  <1>4. CASE HandleAccepted(m)
    <2>1. book' = Applied(m) /\ validator' = Accepting(validator, m)
      BY <1>4 DEF HandleAccepted
    <2>2. health'.bookReady
      BY <1>0, <1>4 DEF HandleAccepted, HealthType
    <2>3. book'.lastSequence = effectiveSequence(validator, m)
      BY <2>1, AppliedSequence
    <2>4. CASE Mode = "Arrival"
      <3>1. validator'.arrivalCounter = validator.arrivalCounter + 1
        BY <1>0, <2>1, <2>4 DEF Accepting, ValidatorType
      <3> QED
        BY <2>2, <2>3, <2>4, <3>1
           DEF Mirrors, SequenceMirrorsValidator, InvalidatedIsEmpty, effectiveSequence
    <2>5. CASE Mode = "OkxSequenced"
      <3>1. validator'.hasBaseline /\ validator'.lastSeqId = m.sequence
        BY <2>1, <2>5, AcceptedBaseline DEF MirrorInv
      <3> QED
        BY <2>2, <2>3, <2>5, <3>1
           DEF Mirrors, SequenceMirrorsValidator, InvalidatedIsEmpty, effectiveSequence
    <2> QED
      BY <2>4, <2>5, ValidatorAssumption
  <1> QED
    BY <1>1, <1>2, <1>3, <1>4 DEF handleFrame

LEMMA InitMirrors == Init => MirrorInv
  BY InitTypeOK
     DEF MirrorInv, Mirrors, SequenceMirrorsValidator, InvalidatedIsEmpty,
         Init, InitClient, NewValidator, clear, ContentOf, EmptyContent

LEMMA NextMirrors ==
    ASSUME MirrorInv, [Next]_vars
    PROVE  MirrorInv'
  <1>0. TypeOK' /\ health \in HealthType
    BY NextTypeOK DEF MirrorInv, TypeOK, HealthType
  <1>1. ASSUME UNCHANGED <<book, validator>>, health'.bookReady = health.bookReady
        PROVE  Mirrors'
    BY <1>1 DEF MirrorInv, Mirrors, SequenceMirrorsValidator, InvalidatedIsEmpty, ContentOf
  <1> USE DEF clientVars, pipeline
  <1>2. CASE HostStep
    <2>1. UNCHANGED <<book, validator>>
      BY <1>2 DEF HostStep, Start, Stop, TickReconnect, TickStale, Connect,
                  HandleConnecting, Disconnected
    <2>2. health'.bookReady = health.bookReady
      BY <1>0, <1>2 DEF HostStep, Start, Stop, TickReconnect, TickStale, Connect,
                        HandleConnecting, Disconnected, HealthType
    <2> QED
      BY <1>0, <1>1, <2>1, <2>2 DEF MirrorInv
  <1>3. CASE Open \/ Resubscribe \/ Abandon \/ Refuse \/ Close \/ StopSocket
    <2>1. UNCHANGED <<book, validator, health>>
      BY <1>3 DEF Open, Resubscribe, Abandon, Refuse, Close, StopSocket, EndSession
    <2> QED
      BY <1>0, <1>1, <2>1 DEF MirrorInv
  <1>4. CASE EmitDisconnected
    <2>1. UNCHANGED <<book, validator>> /\ health'.bookReady = health.bookReady
      BY <1>0, <1>4 DEF EmitDisconnected, HandleDisconnected, HealthType
    <2> QED
      BY <1>0, <1>1, <2>1 DEF MirrorInv
  <1>5. CASE EmitConnected
    <2>1. book' = clear /\ validator' = reset(validator)
      BY <1>5 DEF EmitConnected, HandleConnected, resetPipelineLocked
    <2> QED
      BY <1>0, <2>1, ClearedMirrors
         DEF MirrorInv, Mirrors, InvalidatedIsEmpty, ContentOf, EmptyContent, clear
  <1>6. CASE Deliver
    <2>1. Head(wire) \in Message /\ handleFrame(Head(wire))
      BY <1>6 DEF Deliver, MirrorInv, TypeOK
    <2> QED
      BY <1>0, <2>1, HandleFrameMirrors DEF MirrorInv
  <1>7. CASE VenueStep
    <2>1. UNCHANGED <<book, validator, health>>
      BY <1>7 DEF VenueStep, AnswerRequest, Publish, Keepalive, Repeat, SendExtra
    <2> QED
      BY <1>0, <1>1, <2>1 DEF MirrorInv
  <1>8. CASE NetworkStep
    <2>1. UNCHANGED <<book, validator, health>>
      BY <1>8 DEF NetworkStep, Lose, Duplicate, Reorder, Garble, Unanchor, Corrupt, Tamper
    <2> QED
      BY <1>0, <1>1, <2>1 DEF MirrorInv
  <1>9. CASE TimePasses \/ Terminated \/ UNCHANGED vars
    <2>1. UNCHANGED <<book, validator, health>>
      BY <1>9 DEF TimePasses, Elapse, Terminated, vars
    <2> QED
      BY <1>0, <1>1, <2>1 DEF MirrorInv
  <1> QED
    BY <1>2, <1>3, <1>4, <1>5, <1>6, <1>7, <1>8, <1>9 DEF Next, SourceStep, SessionStep

\* In both modes the sequence number published with the book is the one its
\* validator is at, through every accept, gap, failed checksum and reconnect
\* (FeedClient.cpp, handleFrame and resetPipelineLocked).
THEOREM PublishedSequence == Spec => []SequenceMirrorsValidator
  <1>1. Init => MirrorInv
    BY InitMirrors
  <1>2. MirrorInv /\ [Next]_vars => MirrorInv'
    BY NextMirrors
  <1>3. MirrorInv => SequenceMirrorsValidator
    BY DEF MirrorInv, Mirrors
  <1> QED
    BY <1>1, <1>2, <1>3, PTL DEF Spec

\* A book that is not ready is empty, whichever failure made it so
\* (FeedClient.cpp, invalidateBookLocked).
THEOREM NothingLeftBehind == Spec => []InvalidatedIsEmpty
  <1>1. Init => MirrorInv
    BY InitMirrors
  <1>2. MirrorInv /\ [Next]_vars => MirrorInv'
    BY NextMirrors
  <1>3. MirrorInv => InvalidatedIsEmpty
    BY DEF MirrorInv, Mirrors
  <1> QED
    BY <1>1, <1>2, <1>3, PTL DEF Spec

-----------------------------------------------------------------------------
(***************************************************************************)
(* The reconnect state machine and the session.                            *)
(***************************************************************************)

\* Where the callback thread is says what the session is, ...
CallbackFitsLink ==
    /\ callback \in {"opened", "resubscribe"} => link = "up"
    /\ callback = "closed" => link = "down"

\* ... and so does the phase, while the client runs, ...
RunningPhase ==
    /\ callback = "opened" => phase = "Connecting"
    /\ callback = "closed" => phase \in {"Connecting", "Connected"}
    /\ callback \in {"idle", "resubscribe"} =>
        /\ link = "up" => phase = "Connected" /\ health.state = "Connected"
        /\ link = "opening" => phase = "Connecting" /\ health.state = "Connecting"
        /\ link = "down" => phase = "WaitingReconnect" /\ health.state = "Disconnected"

\* ... while the host thread is inside connect() or disconnect(), and after.
PhaseInv ==
    /\ CallbackFitsLink
    /\ host \in {"new", "connect"} => link = "down" /\ callback = "idle"
    /\ host = "running" => RunningPhase
    /\ host = "disconnect" /\ link # "up" /\ callback = "idle" =>
        health.state = "Disconnected"
    /\ host = "stopped" =>
        link = "down" /\ callback = "idle" /\ health.state = "Disconnected"

LEMMA InitPhase == Init => PhaseInv
  BY DEF Init, InitClient, InitVenue, PhaseInv, CallbackFitsLink, NewHealth

\* No message changes the state of the connection.
LEMMA HandleFrameState ==
    ASSUME TypeOK, NEW m, handleFrame(m)
    PROVE  /\ UNCHANGED <<phase, host>>
           /\ health'.state = health.state
           /\ callback' \in {"idle", "resubscribe"}
  <1>0. health \in HealthType
    BY DEF TypeOK, HealthType
  <1> USE DEF HealthType, connection, handleFrame
  <1>1. CASE HandleMalformed(m)
    BY <1>0, <1>1 DEF HandleMalformed
  <1>2. CASE HandleStale(m)
    BY <1>0, <1>2 DEF HandleStale
  <1>3. CASE HandleGap(m)
    BY <1>0, <1>3 DEF HandleGap
  <1>4. CASE HandleAccepted(m)
    BY <1>0, <1>4 DEF HandleAccepted
  <1>5. CASE HandleMismatch(m)
    BY <1>0, <1>5 DEF HandleMismatch
  <1> QED
    BY <1>1, <1>2, <1>3, <1>4, <1>5

LEMMA NextPhase ==
    ASSUME TypeOK, PhaseInv, [Next]_vars
    PROVE  PhaseInv'
  <1>0. /\ health \in HealthType
        /\ host \in {"new", "connect", "running", "disconnect", "stopped"}
        /\ callback \in {"idle", "opened", "closed", "resubscribe"}
        /\ link \in {"down", "opening", "up"}
    BY DEF TypeOK, HealthType
  <1> USE DEF PhaseInv, CallbackFitsLink, RunningPhase
  <1>1. ASSUME UNCHANGED <<phase, host, callback, link>>, health'.state = health.state
        PROVE  PhaseInv'
    BY <1>1
  <1>2. CASE HostStep
    <2>1. CASE Start /\ UNCHANGED venueVars
      BY <1>0, <2>1 DEF Start, venueVars
    <2>2. CASE Stop /\ UNCHANGED venueVars
      BY <1>0, <2>2 DEF Stop, venueVars, HealthType
    <2>3. CASE TickReconnect /\ UNCHANGED venueVars
      BY <1>0, <2>3 DEF TickReconnect, venueVars
    <2>4. CASE TickStale /\ UNCHANGED venueVars
      BY <1>0, <1>1, <2>4 DEF TickStale, connection, venueVars, HealthType
    <2>5. CASE Connect
      BY <1>0, <2>5 DEF Connect, HandleConnecting, HealthType
    <2>6. CASE Disconnected
      BY <1>0, <2>6 DEF Disconnected, connection, venueVars
    <2> QED
      BY <1>2, <2>1, <2>2, <2>3, <2>4, <2>5, <2>6 DEF HostStep
  <1>3. CASE Open
    BY <1>0, <1>3 DEF Open, connection
  <1>4. CASE Refuse \/ Close \/ StopSocket
    <2>1. /\ EndSession /\ link # "down"
      BY <1>4 DEF Refuse, Close, StopSocket
    <2> QED
      BY <1>0, <2>1 DEF EndSession, connection
  <1>5. CASE Abandon
    BY <1>0, <1>5 DEF Abandon, connection
  <1>6. CASE Resubscribe
    BY <1>0, <1>6 DEF Resubscribe, connection
  <1>7. CASE EmitConnected
    BY <1>0, <1>7 DEF EmitConnected, HandleConnected, venueVars, HealthType
  <1>8. CASE EmitDisconnected
    <2>1. /\ callback = "closed" /\ callback' = "idle" /\ link' = link /\ host' = host
          /\ health'.state = "Disconnected"
          /\ phase \in {"Connecting", "Connected"} => phase' = "WaitingReconnect"
      BY <1>0, <1>8 DEF EmitDisconnected, HandleDisconnected, DisconnectedPhase,
                        ScheduleReconnect, venueVars, HealthType
    <2> QED
      BY <1>0, <2>1
  <1>9. CASE Deliver
    <2>1. /\ UNCHANGED <<phase, host, link>> /\ health'.state = health.state
          /\ callback = "idle" /\ callback' \in {"idle", "resubscribe"}
          /\ link = "up"
      BY <1>9, HandleFrameState DEF Deliver, handleFrame
    <2> QED
      BY <1>0, <2>1
  <1>10. CASE VenueStep
    BY <1>1, <1>10 DEF VenueStep, AnswerRequest, Publish, Keepalive, Repeat, SendExtra,
                       clientVars, connection
  <1>11. CASE NetworkStep
    BY <1>1, <1>11 DEF NetworkStep, Lose, Duplicate, Reorder, Garble, Unanchor, Corrupt,
                       Tamper, clientVars, connection
  <1>12. CASE TimePasses \/ Terminated \/ UNCHANGED vars
    BY <1>1, <1>12 DEF TimePasses, Elapse, Terminated, vars, clientVars, connection, venueVars
  <1> QED
    BY <1>2, <1>3, <1>4, <1>5, <1>6, <1>7, <1>8, <1>9, <1>10, <1>11, <1>12
       DEF Next, SourceStep, SessionStep

\* The reconnect state machine and the reported state agree with the session
\* whenever no call is in progress, over any number of sessions and whatever
\* the interleaving of the host's calls with the callbacks (FeedClient.cpp).
THEOREM PhaseIsRight == Spec => []PhaseTracksLink
  <1>1. Init => TypeOK /\ PhaseInv
    BY InitTypeOK, InitPhase
  <1>2. TypeOK /\ PhaseInv /\ [Next]_vars => TypeOK' /\ PhaseInv'
    BY NextTypeOK, NextPhase
  <1>3. TypeOK /\ PhaseInv => PhaseTracksLink
    BY DEF TypeOK, PhaseInv, RunningPhase, PhaseTracksLink
  <1> QED
    BY <1>1, <1>2, <1>3, PTL DEF Spec

-----------------------------------------------------------------------------
(***************************************************************************)
(* Recovery.  The client asks for a snapshot once and never again, so a    *)
(* client without a baseline depends on a request or a snapshot that is    *)
(* still under way, or is about to ask.                                    *)
(***************************************************************************)

Answers(m) == m.status = "Ok" /\ AnchoringSnapshot(m)

SnapshotInFlight == \E i \in 1..Len(wire) : Answers(wire[i])

RecoveryInv ==
    link = "up" /\ ~validator.hasBaseline /\ callback # "resubscribe" =>
        requests > 0 \/ SnapshotInFlight

\* A snapshot stays in flight where every message of the wire is kept, or
\* nothing but a delta is touched.
LEMMA SnapshotStays ==
    ASSUME SnapshotInFlight,
           \A i \in 1..Len(wire) : Answers(wire[i]) =>
               \E j \in 1..Len(wire') : wire'[j] = wire[i]
    PROVE  SnapshotInFlight'
  <1>1. PICK i \in 1..Len(wire) : Answers(wire[i])
    BY DEF SnapshotInFlight
  <1>2. PICK j \in 1..Len(wire') : wire'[j] = wire[i]
    BY <1>1
  <1> QED
    BY <1>1, <1>2 DEF SnapshotInFlight, Answers

\* A message that leaves the client without a baseline makes it ask for a
\* snapshot, or was not the snapshot it is waiting for.
LEMMA HandleFrameRecovers ==
    ASSUME Mode = "OkxSequenced", TypeOK, NEW m \in Message, handleFrame(m),
           ~validator'.hasBaseline
    PROVE  \/ callback' = "resubscribe"
           \/ ~validator.hasBaseline /\ ~Answers(m)
  <1>1. CASE HandleMalformed(m)
    BY <1>1 DEF HandleMalformed, pipeline, Answers
  <1>2. CASE HandleStale(m)
    BY <1>2 DEF HandleStale, pipeline, Answers, verdict
  <1>3. CASE HandleGap(m)
    BY <1>3 DEF HandleGap, Answers, verdict
  <1>4. CASE HandleAccepted(m)
    BY <1>4, AcceptedBaseline DEF HandleAccepted
  <1>5. CASE HandleMismatch(m)
    BY <1>5 DEF HandleMismatch
  <1> QED
    BY <1>1, <1>2, <1>3, <1>4, <1>5 DEF handleFrame

LEMMA VenueRecovers ==
    ASSUME TypeOK, RecoveryInv, VenueStep
    PROVE  RecoveryInv'
  <1>0. wire \in Seq(Message) /\ requests \in Nat
    BY DEF TypeOK
  <1> USE DEF clientVars, pipeline
  <1>1. ASSUME NEW m, wire' = Append(wire, m), SnapshotInFlight PROVE SnapshotInFlight'
    <2>1. \A i \in 1..Len(wire) : i \in 1..Len(wire') /\ wire'[i] = wire[i]
      BY <1>0, <1>1
    <2> QED
      BY <1>1, <2>1, SnapshotStays
  <1>2. CASE AnswerRequest
    <2>1. wire' = Append(wire, SnapshotMessage)
      BY <1>2 DEF AnswerRequest
    <2>2. Answers(SnapshotMessage)
      BY DEF Answers, AnchoringSnapshot, SnapshotMessage
    <2>3. Len(wire') \in 1..Len(wire') /\ wire'[Len(wire')] = SnapshotMessage
      <3> HIDE DEF SnapshotMessage
      <3> QED
        BY <1>0, <2>1
    <2>4. SnapshotInFlight'
      BY <2>2, <2>3 DEF SnapshotInFlight, Answers
    <2> QED
      BY <2>4 DEF RecoveryInv
  <1>3. ASSUME UNCHANGED <<link, validator, callback, requests>>,
               wire' = wire \/ \E m : wire' = Append(wire, m)
        PROVE  RecoveryInv'
    <2>1. SnapshotInFlight => SnapshotInFlight'
      BY <1>1, <1>3 DEF SnapshotInFlight, Answers
    <2> QED
      BY <1>3, <2>1 DEF RecoveryInv
  <1>4. ASSUME NEW change \in Changes, Publish(change) PROVE RecoveryInv'
    BY <1>3, <1>4 DEF Publish
  <1>5. CASE Keepalive
    BY <1>3, <1>5 DEF Keepalive, SendExtra
  <1>6. ASSUME NEW change \in Changes, Repeat(change) PROVE RecoveryInv'
    BY <1>3, <1>6 DEF Repeat, SendExtra
  <1> QED
    BY <1>2, <1>4, <1>5, <1>6 DEF VenueStep

LEMMA NetworkRecovers ==
    ASSUME "Snapshot" \notin Targets, TypeOK, RecoveryInv, NetworkStep
    PROVE  RecoveryInv'
  <1>0. wire \in Seq(Message)
    BY DEF TypeOK
  <1> USE DEF clientVars, pipeline
  <1>1. /\ UNCHANGED <<link, validator, callback, requests>>
        /\ \A i \in Touchable : i \in 1..Len(wire) /\ ~Answers(wire[i])
    BY DEF NetworkStep, Lose, Duplicate, Reorder, Garble, Unanchor, Corrupt, Tamper,
           Touchable, Answers, AnchoringSnapshot
  <1>2. ASSUME \A i \in 1..Len(wire) : Answers(wire[i]) =>
                  \E j \in 1..Len(wire') : wire'[j] = wire[i]
        PROVE  RecoveryInv'
    BY <1>1, <1>2, SnapshotStays DEF RecoveryInv
  <1>3. CASE Lose
    <2>1. 1 \in Touchable /\ wire' = Tail(wire)
      BY <1>3 DEF Lose
    <2>2. ASSUME NEW i \in 1..Len(wire), Answers(wire[i])
          PROVE  \E j \in 1..Len(wire') : wire'[j] = wire[i]
      <3>1. i # 1
        BY <1>1, <2>1, <2>2
      <3>2. i - 1 \in 1..Len(wire') /\ wire'[i - 1] = wire[i]
        BY <1>0, <2>1, <3>1
      <3> QED
        BY <3>2
    <2> QED
      BY <1>2, <2>2
  <1>4. ASSUME NEW k \in 1..Len(wire), Duplicate(k) PROVE RecoveryInv'
    <2>1. wire' = Append(wire, wire[k])
      BY <1>4 DEF Duplicate
    <2>2. \A i \in 1..Len(wire) : i \in 1..Len(wire') /\ wire'[i] = wire[i]
      BY <1>0, <2>1
    <2> QED
      BY <1>2, <2>2
  <1>5. ASSUME \E touched \in SUBSET Touchable :
                  /\ Len(wire') = Len(wire)
                  /\ \A i \in 1..Len(wire) \ touched : wire'[i] = wire[i]
        PROVE  RecoveryInv'
    BY <1>1, <1>2, <1>5
  <1>6. ASSUME NEW k \in 1..Len(wire), Reorder(k) PROVE RecoveryInv'
    <2>1. /\ {k, k + 1} \in SUBSET Touchable
          /\ wire' = [wire EXCEPT ![k] = wire[k + 1], ![k + 1] = wire[k]]
      BY <1>6 DEF Reorder
    <2>2. Len(wire') = Len(wire) /\ \A i \in 1..Len(wire) \ {k, k + 1} : wire'[i] = wire[i]
      BY <1>0, <2>1
    <2> QED
      BY <1>5, <2>1, <2>2
  <1>7. ASSUME NEW k \in Touchable, NEW m, wire' = [wire EXCEPT ![k] = m]
        PROVE  RecoveryInv'
    <2>1. Len(wire') = Len(wire) /\ \A i \in 1..Len(wire) \ {k} : wire'[i] = wire[i]
      BY <1>0, <1>7
    <2>2. {k} \in SUBSET Touchable
      OBVIOUS
    <2> QED
      BY <1>5, <2>1, <2>2
  <1>8. ASSUME NEW k \in 1..Len(wire), Garble(k) PROVE RecoveryInv'
    BY <1>7, <1>8 DEF Garble
  <1>9. ASSUME NEW k \in 1..Len(wire), Unanchor(k) PROVE RecoveryInv'
    BY <1>7, <1>9 DEF Unanchor
  <1>10. ASSUME NEW k \in 1..Len(wire), NEW change \in Changes, Corrupt(k, change)
         PROVE  RecoveryInv'
    <2>1. wire' = [wire EXCEPT ![k] = [wire[k] EXCEPT !.bids = change.bids,
                                                      !.asks = change.asks]]
      BY <1>0, <1>10 DEF Corrupt
    <2>2. k \in Touchable
      BY <1>10 DEF Corrupt
    <2> QED
      BY <1>7, <2>1, <2>2
  <1> QED
    BY <1>3, <1>4, <1>6, <1>8, <1>9, <1>10 DEF NetworkStep

LEMMA NextRecovers ==
    ASSUME Mode = "OkxSequenced", "Snapshot" \notin Targets,
           TypeOK, CallbackFitsLink, RecoveryInv, [Next]_vars
    PROVE  RecoveryInv'
  <1> USE DEF RecoveryInv, clientVars, pipeline, venueVars
  <1>1. ASSUME UNCHANGED <<link, validator, callback, requests, wire>> PROVE RecoveryInv'
    BY <1>1 DEF SnapshotInFlight, Answers
  <1>2. CASE HostStep
    <2>1. CASE link' = link
      BY <1>1, <1>2, <2>1 DEF HostStep, Start, Stop, TickReconnect, TickStale, Connect,
                              HandleConnecting, Disconnected
    <2>2. CASE link' = "opening"
      BY <2>2
    <2> QED
      BY <1>2, <2>1, <2>2 DEF HostStep, Start, Stop, TickReconnect, TickStale, Connect,
                              Disconnected
  <1>3. CASE Open
    BY <1>3 DEF Open
  <1>4. CASE Refuse \/ Close \/ StopSocket \/ Abandon
    BY <1>4 DEF Refuse, Close, StopSocket, Abandon, EndSession
  <1>5. CASE Resubscribe
    BY <1>5 DEF Resubscribe, TypeOK
  <1>6. CASE EmitConnected
    BY <1>6 DEF EmitConnected, HandleConnected
  <1>7. CASE EmitDisconnected
    BY <1>7 DEF EmitDisconnected, HandleDisconnected, CallbackFitsLink
  <1>8. CASE Deliver
    <2>1. /\ wire \in Seq(Message) /\ wire # <<>> /\ wire' = Tail(wire)
          /\ UNCHANGED <<link, requests>> /\ link = "up" /\ callback = "idle"
          /\ handleFrame(Head(wire))
      BY <1>8 DEF Deliver, TypeOK, handleFrame
    <2>2. Head(wire) \in Message /\ Head(wire) = wire[1]
      BY <2>1
    <2> SUFFICES ASSUME ~validator'.hasBaseline, callback' # "resubscribe",
                        ~(requests > 0)
                 PROVE  SnapshotInFlight'
      BY <2>1
    <2>3. ~validator.hasBaseline /\ ~Answers(wire[1])
      BY <2>1, <2>2, HandleFrameRecovers
    <2>4. SnapshotInFlight
      BY <2>1, <2>3
    <2>5. ASSUME NEW i \in 1..Len(wire), Answers(wire[i])
          PROVE  \E j \in 1..Len(wire') : wire'[j] = wire[i]
      <3>1. i # 1
        BY <2>3, <2>5
      <3>2. i - 1 \in 1..Len(wire') /\ wire'[i - 1] = wire[i]
        BY <2>1, <3>1
      <3> QED
        BY <3>2
    <2> QED
      BY <2>4, <2>5, SnapshotStays
  <1>9. CASE TimePasses \/ Terminated \/ UNCHANGED vars
    BY <1>1, <1>9 DEF TimePasses, Elapse, Terminated, vars
  <1> QED
    BY <1>2, <1>3, <1>4, <1>5, <1>6, <1>7, <1>8, <1>9, VenueRecovers, NetworkRecovers
       DEF Next, SourceStep, SessionStep

\* As long as no snapshot is lost or damaged, a client that dropped its book
\* has a fresh one coming: each of the places in which handleFrame invalidates
\* the book asks for it, and the one in which it does not was asked before.
THEOREM RecoveryIsComing ==
    ASSUME Mode = "OkxSequenced", "Snapshot" \notin Targets
    PROVE  Spec => []RecoveryInFlight
  <1> DEFINE Inv == TypeOK /\ PhaseInv /\ RecoveryInv
  <1>1. Init => Inv
    BY InitTypeOK, InitPhase DEF Init, InitVenue, RecoveryInv
  <1>2. Inv /\ [Next]_vars => Inv'
    BY NextTypeOK, NextPhase, NextRecovers DEF PhaseInv
  <1>3. Inv => RecoveryInFlight
    BY DEF RecoveryInv, RecoveryInFlight, SnapshotInFlight, Answers
  <1> QED
    BY <1>1, <1>2, <1>3, PTL DEF Spec

-----------------------------------------------------------------------------
(***************************************************************************)
(* The checksum.  A message whose levels were altered on the way still     *)
(* carries the checksum of the book it was computed from.                  *)
(***************************************************************************)

CheckedBy(m, books) ==
    \E v \in 1..Len(books) :
        /\ m.sequence = SeqId[v]
        /\ m.checksum = {computeTopOfBookChecksum(books[v])}

AllChecked == \A i \in 1..Len(wire) : CheckedBy(wire[i], history)

TopVerified ==
    validator.hasBaseline =>
        /\ Mode = "OkxSequenced"
        /\ \E v \in Versions :
            /\ validator.lastSeqId = SeqId[v]
            /\ computeTopOfBookChecksum(book) = computeTopOfBookChecksum(history[v])

ChecksumInv == TypeOK /\ AllChecked /\ TopVerified

\* The venue's past does not change.
LEMMA HistoryGrows ==
    ASSUME TypeOK,
           \/ history' = history
           \/ \E next : history' = Append(history, next)
    PROVE  /\ Len(history) <= Len(history')
           /\ 1..Len(history) \subseteq 1..Len(history')
           /\ \A v \in 1..Len(history) : history'[v] = history[v]
  <1>1. history \in Seq(Content) /\ Len(history) \in Nat
    BY DEF TypeOK
  <1>2. ASSUME NEW next, history' = Append(history, next)
        PROVE  /\ Len(history') = Len(history) + 1
               /\ \A v \in 1..Len(history) : history'[v] = history[v]
    BY <1>1, <1>2
  <1> QED
    BY <1>1, <1>2

\* A message in flight stays checked, and so does the client's top of book.
LEMMA CheckedPersists ==
    ASSUME TypeOK, NEW m, CheckedBy(m, history),
           \/ history' = history
           \/ \E next : history' = Append(history, next)
    PROVE  CheckedBy(m, history')
  BY HistoryGrows DEF CheckedBy

\* Whatever became of the levels, a wire whose messages carry the sequence and
\* the checksum of an old message, or are checked new ones, stays checked.
LEMMA CheckedWire ==
    ASSUME TypeOK, AllChecked,
           \/ history' = history
           \/ \E next : history' = Append(history, next),
           \A j \in 1..Len(wire') :
               \/ \E i \in 1..Len(wire) : /\ wire'[j].sequence = wire[i].sequence
                                          /\ wire'[j].checksum = wire[i].checksum
               \/ CheckedBy(wire'[j], history')
    PROVE  AllChecked'
  <1> SUFFICES ASSUME NEW j \in 1..Len(wire') PROVE CheckedBy(wire'[j], history')
    BY DEF AllChecked
  <1>1. ASSUME NEW i \in 1..Len(wire) PROVE CheckedBy(wire[i], history')
    BY CheckedPersists DEF AllChecked
  <1>2. ASSUME NEW m, NEW n, CheckedBy(m, history'),
               n.sequence = m.sequence, n.checksum = m.checksum
        PROVE  CheckedBy(n, history')
    BY <1>2 DEF CheckedBy
  <1> QED
    BY <1>1, <1>2

LEMMA TopPersists ==
    ASSUME TypeOK, TopVerified, UNCHANGED <<book, validator>>,
           \/ history' = history
           \/ \E next : history' = Append(history, next)
    PROVE  TopVerified'
  BY HistoryGrows DEF TopVerified, Versions, Latest

\* An event that is kept passed the test against the venue's checksum.
LEMMA HandleFrameVerified ==
    ASSUME Policy = "SequenceAndChecksum", TypeOK, TopVerified,
           NEW m \in Message, CheckedBy(m, history), handleFrame(m), UNCHANGED history
    PROVE  TopVerified'
  <1>1. CASE HandleMalformed(m) \/ HandleStale(m)
    BY <1>1, TopPersists DEF HandleMalformed, HandleStale, pipeline
  <1>2. CASE HandleGap(m) \/ HandleMismatch(m)
    BY <1>2 DEF HandleGap, HandleMismatch, reset, TopVerified
  <1>3. CASE HandleAccepted(m)
    <2>1. PICK v \in Versions : /\ m.sequence = SeqId[v]
                                /\ m.checksum = {computeTopOfBookChecksum(history[v])}
      BY DEF CheckedBy, Versions, Latest
    <2>2. /\ verifyChecksum(Applied(m), m) # "Mismatch"
          /\ book' = Applied(m) /\ validator' = Accepting(validator, m)
      BY <1>3 DEF HandleAccepted
    <2>3. computeTopOfBookChecksum(book') = computeTopOfBookChecksum(history[v])
      <3> DEFINE top == computeTopOfBookChecksum(book')
                 truth == computeTopOfBookChecksum(history[v])
      <3>1. m.checksum = {top}
        BY <2>1, <2>2 DEF verifyChecksum
      <3> HIDE DEF top, truth
      <3>2. m.checksum = {truth}
        BY <2>1 DEF truth
      <3>3. top = truth
        BY <3>1, <3>2
      <3> QED
        BY <3>3 DEF top, truth
    <2>4. CASE Mode = "OkxSequenced"
      BY <2>1, <2>2, <2>3, <2>4, AcceptedBaseline DEF TopVerified, Versions, Latest
    <2>5. CASE Mode = "Arrival"
      <3>1. ~validator.hasBaseline /\ validator \in ValidatorType
        BY <2>5 DEF TopVerified, TypeOK, ValidatorType
      <3>2. ~validator'.hasBaseline
        BY <2>2, <2>5, <3>1 DEF Accepting, ValidatorType
      <3> QED
        BY <3>2 DEF TopVerified
    <2> QED
      BY <2>4, <2>5, ValidatorAssumption
  <1> QED
    BY <1>1, <1>2, <1>3 DEF handleFrame

LEMMA VenueChecked ==
    ASSUME Policy = "SequenceAndChecksum", TypeOK, AllChecked, VenueStep
    PROVE  AllChecked'
  <1>0. /\ wire \in Seq(Message) /\ history \in Seq(Content)
        /\ Latest \in 1..Len(history) /\ Len(history) \in Nat
    BY DEF TypeOK, Latest
  <1>1. ASSUME NEW m, wire' = Append(wire, m), CheckedBy(m, history'),
               \/ history' = history
               \/ \E next : history' = Append(history, next)
        PROVE  AllChecked'
    <2>1. \A j \in 1..Len(wire') :
              \/ j \in 1..Len(wire) /\ wire'[j] = wire[j]
              \/ wire'[j] = m
      BY <1>0, <1>1
    <2> QED
      BY <1>1, <2>1, CheckedWire
  <1>2. ASSUME NEW change
        PROVE  CheckedBy(DeltaMessage(change, SeqId[Latest], SeqId[Latest], Current), history)
    <2> DEFINE m == DeltaMessage(change, SeqId[Latest], SeqId[Latest], Current)
    <2>1. m.sequence = SeqId[Latest] /\ m.checksum = {computeTopOfBookChecksum(Current)}
      BY DEF DeltaMessage, ChecksumFor
    <2> HIDE DEF m
    <2>2. CheckedBy(m, history)
      BY <1>0, <2>1 DEF CheckedBy, Current
    <2> QED
      BY <2>2 DEF m
  <1>3. CASE AnswerRequest
    <2>1. /\ SnapshotMessage.sequence = SeqId[Latest]
          /\ SnapshotMessage.checksum = {computeTopOfBookChecksum(Current)}
      BY DEF SnapshotMessage, ChecksumFor
    <2>2. CheckedBy(SnapshotMessage, history)
      BY <1>0, <2>1 DEF CheckedBy, Current
    <2> QED
      BY <1>1, <1>3, <2>2 DEF AnswerRequest
  <1>4. ASSUME NEW change \in Changes, Publish(change) PROVE AllChecked'
    <2> DEFINE next == [bids |-> applyLevels(Current.bids, change.bids),
                        asks |-> applyLevels(Current.asks, change.asks)]
               m == DeltaMessage(change, SeqId[Latest], SeqId[Latest + 1], next)
    <2>1. history' = Append(history, next) /\ (wire' = wire \/ wire' = Append(wire, m))
      BY <1>4 DEF Publish
    <2>2. m.sequence = SeqId[Latest + 1] /\ m.checksum = {computeTopOfBookChecksum(next)}
      BY DEF DeltaMessage, ChecksumFor
    <2> HIDE DEF m, next
    <2>3. Latest + 1 \in 1..Len(history') /\ history'[Latest + 1] = next
      BY <1>0, <2>1 DEF Latest
    <2>4. CheckedBy(m, history')
      BY <2>2, <2>3 DEF CheckedBy
    <2>5. CASE wire' = wire
      BY <2>1, <2>5, CheckedWire
    <2> QED
      BY <1>1, <2>1, <2>4, <2>5
  <1>5. CASE Keepalive
    BY <1>1, <1>2, <1>5 DEF Keepalive, KeepaliveMessage, SendExtra
  <1>6. ASSUME NEW change \in Changes, Repeat(change) PROVE AllChecked'
    BY <1>1, <1>2, <1>6 DEF Repeat, SendExtra
  <1> QED
    BY <1>3, <1>4, <1>5, <1>6 DEF VenueStep

\* Nothing on the way alters the sequence number and the checksum together
\* with the levels: they are fields of their own.
LEMMA NetworkChecked ==
    ASSUME TypeOK, AllChecked, NetworkStep
    PROVE  AllChecked'
  <1>0. wire \in Seq(Message) /\ UNCHANGED history
    BY DEF TypeOK, NetworkStep, Lose, Duplicate, Reorder, Garble, Unanchor, Corrupt, Tamper
  <1>1. ASSUME \A j \in 1..Len(wire') : \E i \in 1..Len(wire) : wire'[j] = wire[i]
        PROVE  AllChecked'
    BY <1>0, <1>1, CheckedWire
  <1>2. CASE Lose
    <2>1. wire # <<>> /\ wire' = Tail(wire)
      BY <1>0, <1>2 DEF Lose, Touchable
    <2>2. ASSUME NEW j \in 1..Len(wire') PROVE \E i \in 1..Len(wire) : wire'[j] = wire[i]
      <3>1. j + 1 \in 1..Len(wire) /\ wire'[j] = wire[j + 1]
        BY <1>0, <2>1
      <3> QED
        BY <3>1
    <2> QED
      BY <1>1, <2>2
  <1>3. ASSUME NEW k \in 1..Len(wire), Duplicate(k) PROVE AllChecked'
    <2>1. wire' = Append(wire, wire[k])
      BY <1>3 DEF Duplicate
    <2>2. \A j \in 1..Len(wire') : \E i \in 1..Len(wire) : wire'[j] = wire[i]
      BY <1>0, <2>1
    <2> QED
      BY <1>1, <2>2
  <1>4. ASSUME NEW k \in 1..Len(wire), Reorder(k) PROVE AllChecked'
    <2>1. k + 1 \in 1..Len(wire)
      BY <1>4 DEF Reorder, Touchable
    <2>2. wire' = [wire EXCEPT ![k] = wire[k + 1], ![k + 1] = wire[k]]
      BY <1>4 DEF Reorder
    <2>3. \A j \in 1..Len(wire') : \E i \in 1..Len(wire) : wire'[j] = wire[i]
      BY <1>0, <2>1, <2>2
    <2> QED
      BY <1>1, <2>3
  <1>5. ASSUME NEW k \in 1..Len(wire), NEW m, wire' = [wire EXCEPT ![k] = m],
               m.sequence = wire[k].sequence, m.checksum = wire[k].checksum
        PROVE  AllChecked'
    <2>1. \A j \in 1..Len(wire') :
              \E i \in 1..Len(wire) : /\ wire'[j].sequence = wire[i].sequence
                                      /\ wire'[j].checksum = wire[i].checksum
      BY <1>0, <1>5
    <2> QED
      BY <1>0, <2>1, CheckedWire
  <1>6. ASSUME NEW k \in 1..Len(wire), Garble(k) PROVE AllChecked'
    <2> DEFINE m == [wire[k] EXCEPT !.status = "Malformed"]
    <2>1. wire' = [wire EXCEPT ![k] = m] /\ wire[k] \in Message
      BY <1>0, <1>6 DEF Garble
    <2>2. m.sequence = wire[k].sequence /\ m.checksum = wire[k].checksum
      BY <2>1 DEF Message
    <2> HIDE DEF m
    <2> QED
      BY <1>5, <2>1, <2>2
  <1>7. ASSUME NEW k \in 1..Len(wire), Unanchor(k) PROVE AllChecked'
    <2> DEFINE m == [wire[k] EXCEPT !.prevSequence = {wire[k].sequence}]
    <2>1. wire' = [wire EXCEPT ![k] = m] /\ wire[k] \in Message
      BY <1>0, <1>7 DEF Unanchor
    <2>2. m.sequence = wire[k].sequence /\ m.checksum = wire[k].checksum
      BY <2>1 DEF Message
    <2> HIDE DEF m
    <2> QED
      BY <1>5, <2>1, <2>2
  <1>8. ASSUME NEW k \in 1..Len(wire), NEW change \in Changes, Corrupt(k, change)
        PROVE  AllChecked'
    <2> DEFINE m == [wire[k] EXCEPT !.bids = change.bids, !.asks = change.asks]
    <2>0. wire[k] \in Message
      BY <1>0
    <2>1. wire' = [wire EXCEPT ![k] = m]
      BY <1>0, <1>8 DEF Corrupt
    <2>2. m.sequence = wire[k].sequence /\ m.checksum = wire[k].checksum
      BY <2>0 DEF Message
    <2> HIDE DEF m
    <2> QED
      BY <1>5, <2>1, <2>2
  <1> QED
    BY <1>2, <1>3, <1>4, <1>6, <1>7, <1>8 DEF NetworkStep

LEMMA NextChecked ==
    ASSUME Policy = "SequenceAndChecksum", ChecksumInv, [Next]_vars
    PROVE  ChecksumInv'
  <1> USE DEF ChecksumInv, clientVars, pipeline, venueVars
  <1>0. TypeOK'
    BY NextTypeOK
  <1>1. ASSUME UNCHANGED <<wire, history, book, validator>>
        PROVE  AllChecked' /\ TopVerified'
    BY <1>1, TopPersists DEF AllChecked
  <1>2. CASE HostStep
    BY <1>0, <1>1, <1>2 DEF HostStep, Start, Stop, TickReconnect, TickStale, Connect,
                            HandleConnecting, Disconnected
  <1>3. CASE Open \/ Resubscribe \/ Abandon
    BY <1>0, <1>1, <1>3 DEF Open, Resubscribe, Abandon
  <1>4. CASE EmitDisconnected
    BY <1>0, <1>1, <1>4 DEF EmitDisconnected, HandleDisconnected
  <1>5. CASE TimePasses \/ Terminated \/ UNCHANGED vars
    BY <1>0, <1>1, <1>5 DEF TimePasses, Elapse, Terminated, vars
  <1>6. CASE Refuse \/ Close \/ StopSocket
    <2>1. wire' = <<>> /\ UNCHANGED <<history, book, validator>>
      BY <1>6 DEF Refuse, Close, StopSocket, EndSession
    <2>2. AllChecked'
      BY <2>1 DEF AllChecked
    <2> QED
      BY <1>0, <2>1, <2>2, TopPersists
  <1>7. CASE EmitConnected
    <2>1. UNCHANGED <<wire, history>> /\ ~validator'.hasBaseline
      BY <1>7 DEF EmitConnected, HandleConnected, resetPipelineLocked, reset
    <2> QED
      BY <1>0, <2>1 DEF AllChecked, TopVerified
  <1>8. CASE Deliver
    <2>1. /\ wire \in Seq(Message) /\ wire # <<>> /\ wire' = Tail(wire)
          /\ UNCHANGED history /\ handleFrame(Head(wire))
      BY <1>8 DEF TypeOK, Deliver
    <2>2. 1 \in 1..Len(wire) /\ Head(wire) = wire[1] /\ wire[1] \in Message
      BY <2>1
    <2>3. TopVerified'
      BY <2>1, <2>2, HandleFrameVerified DEF AllChecked
    <2>4. ASSUME NEW j \in 1..Len(wire') PROVE \E i \in 1..Len(wire) : wire'[j] = wire[i]
      <3>1. j + 1 \in 1..Len(wire) /\ wire'[j] = wire[j + 1]
        BY <2>1
      <3> QED
        BY <3>1
    <2>5. AllChecked'
      BY <2>1, <2>4, CheckedWire
    <2> QED
      BY <1>0, <2>3, <2>5
  <1>9. CASE VenueStep
    <2>1. /\ UNCHANGED <<book, validator>>
          /\ \/ history' = history
             \/ \E next : history' = Append(history, next)
      BY <1>9 DEF VenueStep, AnswerRequest, Publish, Keepalive, Repeat, SendExtra
    <2> QED
      BY <1>0, <1>9, <2>1, VenueChecked, TopPersists
  <1>10. CASE NetworkStep
    <2>1. UNCHANGED <<book, validator, history>>
      BY <1>10 DEF NetworkStep, Lose, Duplicate, Reorder, Garble, Unanchor, Corrupt, Tamper
    <2> QED
      BY <1>0, <1>10, <2>1, NetworkChecked, TopPersists
  <1> QED
    BY <1>2, <1>3, <1>4, <1>5, <1>6, <1>7, <1>8, <1>9, <1>10
       DEF Next, SourceStep, SessionStep

\* With a checksum on every message, what the checksum covers of a book in
\* service is the venue's, even if messages arrive with other levels than they
\* were sent with (FeedClient.cpp, handleFrame: apply, verify, invalidate).
THEOREM ChecksumProtects ==
    ASSUME Policy = "SequenceAndChecksum"
    PROVE  Spec => []TopOfBookVerified
  <1>1. Init => ChecksumInv
    BY InitTypeOK DEF Init, InitClient, InitVenue, NewValidator, ChecksumInv, AllChecked,
                      TopVerified
  <1>2. ChecksumInv /\ [Next]_vars => ChecksumInv'
    BY NextChecked
  <1>3. ChecksumInv => TopOfBookVerified
    <2> SUFFICES ASSUME ChecksumInv, validator.hasBaseline
                 PROVE  computeTopOfBookChecksum(book)
                          = computeTopOfBookChecksum(history[VersionOf(validator)])
      BY DEF TopOfBookVerified
    <2>1. PICK v \in Versions :
              /\ validator.lastSeqId = SeqId[v]
              /\ computeTopOfBookChecksum(book) = computeTopOfBookChecksum(history[v])
      BY DEF ChecksumInv, TopVerified
    <2>2. v \in 1..MaxVersion
      BY VenueAssumption DEF ChecksumInv, TypeOK, Versions, Latest
    <2>3. VersionOf(validator) = v
      BY <2>1, <2>2, SeqIdsAreUnique DEF VersionOf
    <2> QED
      BY <2>1, <2>3
  <1> QED
    BY <1>1, <1>2, <1>3, PTL DEF Spec

-----------------------------------------------------------------------------
(***************************************************************************)
(* The refinement.  BookIntegrity says that every book shown is one of the *)
(* venue's.  That none is older than one shown before needs the order of   *)
(* the messages in flight: nothing that arrives before a snapshot is newer *)
(* than the snapshot, and no snapshot is older than what has been shown.   *)
(* Deltas may be repeated and reordered, but not across a snapshot.        *)
(***************************************************************************)

\* The version a message leads to.
Sent(m) == CHOOSE v \in 1..MaxVersion : SeqId[v] = m.sequence

WireOrdered ==
    /\ \A i \in 1..Len(wire) : Sent(wire[i]) <= Latest
    /\ \A j \in 1..Len(wire) : wire[j].type = "Snapshot" =>
        /\ seen <= Sent(wire[j])
        /\ \A i \in 1..j : Sent(wire[i]) <= Sent(wire[j])

ClientOrdered ==
    /\ seen <= Latest
    /\ validator.hasBaseline => VersionOf(validator) = seen

OrderInv == IntegrityInv /\ WireOrdered /\ ClientOrdered

LEMMA SentVersion ==
    ASSUME NEW v \in 1..MaxVersion, NEW m, m.sequence = SeqId[v]
    PROVE  Sent(m) = v
  BY SeqIdsAreUnique DEF Sent

LEMMA SentType ==
    ASSUME NEW m \in Message
    PROVE  Sent(m) \in 1..MaxVersion
  <1>1. \E v \in 1..MaxVersion : SeqId[v] = m.sequence
    BY DEF Message, SeqIds
  <1> QED
    BY <1>1 DEF Sent

LEMMA SentPreserved ==
    ASSUME NEW m, NEW n, n.sequence = m.sequence
    PROVE  Sent(n) = Sent(m)
  BY DEF Sent

\* What an accepted message leads to is at most one change ahead of the
\* client, or the snapshot's version.
LEMMA AcceptedIsNewer ==
    ASSUME Mode = "OkxSequenced", OrderInv, wire # <<>>, HandleAccepted(wire[1])
    PROVE  /\ validator'.hasBaseline
           /\ VersionOf(validator') = Sent(wire[1])
           /\ seen <= Sent(wire[1])
  <1> DEFINE m == wire[1]
  <1>1. /\ wire \in Seq(Message) /\ 1 \in 1..Len(wire) /\ m \in Message
        /\ seen \in 0..MaxVersion
    BY DEF OrderInv, IntegrityInv, TypeOK
  <1>2. /\ m.status = "Ok" /\ verdict(validator, m) = "Accept"
        /\ validator' = Accepting(validator, m)
    BY DEF HandleAccepted
  <1>3. validator'.hasBaseline /\ validator'.lastSeqId = m.sequence
    BY <1>1, <1>2, AcceptedBaseline DEF OrderInv, IntegrityInv
  <1>4. VersionOf(validator') = Sent(m)
    BY <1>3 DEF VersionOf, Sent
  <1>5. CASE AnchoringSnapshot(m)
    BY <1>1, <1>3, <1>4, <1>5 DEF AnchoringSnapshot, OrderInv, WireOrdered
  <1>6. CASE Connects(validator, m)
    <2>1. /\ m.type = "Delta" /\ validator.hasBaseline
          /\ m.prevSequence = {validator.lastSeqId}
      BY <1>6 DEF Connects
    <2>2. PICK v \in Versions : AtVersion(v)
      BY <2>1 DEF OrderInv, IntegrityInv, Synced
    <2>3. Honest(m, history)
      BY <1>1 DEF OrderInv, IntegrityInv, AllHonest
    <2>4. PICK w \in Versions : /\ m.prevSequence = {SeqId[w]}
                                /\ m.sequence = SeqId[w] \/ Follows(m, w, history)
      BY <1>2, <2>1, <2>3 DEF Honest, HonestDelta, Versions, Latest
    <2>5. v = w
      BY <2>1, <2>2, <2>4, SameVersion DEF AtVersion, OrderInv, IntegrityInv
    <2>6. Versions \subseteq 1..MaxVersion /\ Latest \in Nat
      BY VenueAssumption DEF OrderInv, IntegrityInv, TypeOK, Versions, Latest
    <2>7. seen = v
      <3>1. VersionOf(validator) = v
        BY <2>1, <2>2, <2>6, SeqIdsAreUnique DEF VersionOf, AtVersion
      <3> QED
        BY <2>1, <3>1 DEF OrderInv, ClientOrdered
    <2>8. CASE m.sequence = SeqId[v]
      BY <1>3, <1>4, <2>6, <2>7, <2>8, SentVersion
    <2>9. CASE Follows(m, v, history)
      <3>1. v + 1 \in Versions /\ m.sequence = SeqId[v + 1]
        BY <2>9 DEF Follows, Versions, Latest
      <3>2. Sent(m) = v + 1
        BY <2>6, <3>1, SentVersion
      <3> QED
        BY <1>3, <1>4, <2>6, <2>7, <3>2
    <2> QED
      BY <2>4, <2>5, <2>8, <2>9
  <1> QED
    BY <1>2, <1>5, <1>6 DEF verdict

\* Delivering a message moves the copy on, gives it up, or changes nothing.
LEMMA DeliverOrder ==
    ASSUME Mode = "OkxSequenced", OrderInv, Deliver, IntegrityInv'
    PROVE  OrderInv' /\ [Sync!Next]_(Sync!syncVars)
  <1>1. /\ wire \in Seq(Message) /\ wire # <<>> /\ wire' = Tail(wire)
        /\ history \in Seq(Content) /\ UNCHANGED history
        /\ seen \in 0..MaxVersion /\ seen' = Larger(seen, VersionOf(validator'))
        /\ handleFrame(wire[1])
    BY DEF OrderInv, IntegrityInv, TypeOK, Deliver
  <1>2. /\ 1 \in 1..Len(wire) /\ wire[1] \in Message /\ Sent(wire[1]) \in 1..MaxVersion
        /\ \A i \in 1..Len(wire) : Sent(wire[i]) \in 1..MaxVersion
        /\ Latest \in Nat /\ Latest' = Latest
    BY <1>1, SentType DEF Latest
  <1>3. \A i \in 1..Len(wire') : i + 1 \in 1..Len(wire) /\ wire'[i] = wire[i + 1]
    BY <1>1
  <1>4. ASSUME seen' \in {seen, Sent(wire[1])} PROVE seen' <= Latest' /\ WireOrdered'
    <2>1. seen' <= Latest'
      BY <1>2, <1>4 DEF OrderInv, WireOrdered, ClientOrdered
    <2>2. \A i \in 1..Len(wire') : Sent(wire'[i]) <= Latest'
      BY <1>2, <1>3 DEF OrderInv, WireOrdered
    <2>3. ASSUME NEW j \in 1..Len(wire'), wire'[j].type = "Snapshot"
          PROVE  /\ seen' <= Sent(wire'[j])
                 /\ \A i \in 1..j : Sent(wire'[i]) <= Sent(wire'[j])
      <3>1. j + 1 \in 1..Len(wire) /\ wire'[j] = wire[j + 1]
        BY <1>3
      <3>2. /\ seen <= Sent(wire[j + 1])
            /\ \A i \in 1..(j + 1) : Sent(wire[i]) <= Sent(wire[j + 1])
        BY <2>3, <3>1 DEF OrderInv, WireOrdered
      <3>3. \A i \in 1..j : i + 1 \in 1..(j + 1) /\ wire'[i] = wire[i + 1]
        BY <1>3, <3>1
      <3>4. 1 \in 1..(j + 1)
        OBVIOUS
      <3> QED
        BY <1>4, <3>1, <3>2, <3>3, <3>4
    <2> QED
      BY <2>1, <2>2, <2>3 DEF WireOrdered
  <1>5. CASE HandleMalformed(wire[1]) \/ HandleStale(wire[1])
    <2>1. UNCHANGED <<book, validator>>
      BY <1>5 DEF HandleMalformed, HandleStale, pipeline
    <2>2. VersionOf(validator) \in {0, seen}
      BY DEF OrderInv, ClientOrdered, VersionOf
    <2>3. seen' = seen
      BY <1>1, <2>1, <2>2 DEF Larger
    <2>4. ClientOrdered'
      BY <1>4, <2>1, <2>3 DEF OrderInv, ClientOrdered
    <2>5. UNCHANGED Sync!syncVars
      BY <1>1, <2>1, <2>3 DEF Sync!syncVars, VersionOf, ContentOf
    <2> QED
      BY <1>4, <2>3, <2>4, <2>5 DEF OrderInv
  <1>6. CASE HandleGap(wire[1]) \/ HandleMismatch(wire[1])
    <2>1. book' = clear /\ ~validator'.hasBaseline
      BY <1>6 DEF HandleGap, HandleMismatch, reset
    <2>2. VersionOf(validator)' = 0 /\ seen' = seen
      BY <1>1, <2>1 DEF VersionOf, Larger
    <2>3. ClientOrdered'
      BY <1>4, <2>1, <2>2 DEF ClientOrdered
    <2>4. Sync!Invalidate
      BY <1>1, <2>1, <2>2 DEF Sync!Invalidate, ContentOf, EmptyContent, clear
    <2> QED
      BY <1>4, <2>2, <2>3, <2>4 DEF OrderInv, Sync!Next
  <1>7. CASE HandleAccepted(wire[1])
    <2>1. /\ validator'.hasBaseline
          /\ VersionOf(validator)' = Sent(wire[1])
          /\ seen <= Sent(wire[1])
      BY <1>1, <1>7, AcceptedIsNewer
    <2>2. seen' = Sent(wire[1])
      BY <1>1, <1>2, <2>1 DEF Larger
    <2>3. ClientOrdered'
      BY <1>4, <2>1, <2>2 DEF ClientOrdered
    <2>4. BookIsTruth'
      BY SyncedIsTruth, PTL DEF IntegrityInv
    <2>5. /\ VersionOf(validator)' \in 1..Len(history)
          /\ ContentOf(book)' = history[VersionOf(validator)']
      BY <1>1, <2>1, <2>4 DEF BookIsTruth, Versions, Latest
    <2>6. Sync!Follow
      BY <1>1, <2>1, <2>2, <2>5 DEF Sync!Follow
    <2> QED
      BY <1>4, <2>2, <2>3, <2>6 DEF OrderInv, Sync!Next
  <1> QED
    BY <1>1, <1>5, <1>6, <1>7 DEF handleFrame

\* A message appended to the wire is of the current version.
LEMMA VenueOrder ==
    ASSUME OrderInv, IntegrityInv', VenueStep
    PROVE  OrderInv' /\ [Sync!Next]_(Sync!syncVars)
  <1>0. /\ wire \in Seq(Message) /\ history \in Seq(Content)
        /\ Latest \in 1..MaxVersion /\ seen \in 0..MaxVersion /\ seen <= Latest
        /\ \A i \in 1..Len(wire) : Sent(wire[i]) \in 1..MaxVersion
    <2>1. wire \in Seq(Message) /\ history \in Seq(Content) /\ seen \in 0..MaxVersion
      BY DEF OrderInv, IntegrityInv, TypeOK
    <2>2. Latest \in 1..MaxVersion /\ seen <= Latest
      BY DEF OrderInv, IntegrityInv, TypeOK, Latest, ClientOrdered
    <2>3. \A i \in 1..Len(wire) : Sent(wire[i]) \in 1..MaxVersion
      BY <2>1, SentType
    <2> QED
      BY <2>1, <2>2, <2>3
  <1>1. UNCHANGED <<book, validator, seen>>
    BY DEF VenueStep, AnswerRequest, Publish, Keepalive, Repeat, SendExtra,
           clientVars, pipeline
  <1>2. UNCHANGED <<VersionOf(validator), ContentOf(book)>>
    BY <1>1 DEF VersionOf, ContentOf
  <1>3. ASSUME NEW m, wire' = wire \/ wire' = Append(wire, m),
               Latest' \in Nat, Latest <= Latest', Sent(m) = Latest'
        PROVE  OrderInv'
    <2>1. ClientOrdered'
      BY <1>0, <1>1, <1>2, <1>3 DEF OrderInv, ClientOrdered
    <2>2. \A i \in 1..Len(wire) : Sent(wire[i]) <= Latest'
      BY <1>0, <1>3 DEF OrderInv, WireOrdered
    <2>3. CASE wire' = wire
      BY <1>1, <2>1, <2>2, <2>3 DEF OrderInv, WireOrdered
    <2>4. CASE wire' = Append(wire, m)
      <3>1. /\ Len(wire') = Len(wire) + 1 /\ wire'[Len(wire) + 1] = m
            /\ \A i \in 1..Len(wire) : wire'[i] = wire[i]
        BY <1>0, <2>4
      <3>2. \A i \in 1..Len(wire') : Sent(wire'[i]) <= Latest'
        BY <1>0, <1>3, <2>2, <3>1
      <3>3. ASSUME NEW j \in 1..Len(wire'), wire'[j].type = "Snapshot"
            PROVE  /\ seen' <= Sent(wire'[j])
                   /\ \A i \in 1..j : Sent(wire'[i]) <= Sent(wire'[j])
        <4>1. CASE j = Len(wire) + 1
          BY <1>0, <1>1, <1>3, <3>1, <3>2, <4>1
        <4>2. CASE j \in 1..Len(wire)
          <5>1. /\ seen <= Sent(wire[j])
                /\ \A i \in 1..j : Sent(wire[i]) <= Sent(wire[j])
            BY <3>1, <3>3, <4>2 DEF OrderInv, WireOrdered
          <5>2. \A i \in 1..j : wire'[i] = wire[i]
            BY <1>0, <3>1, <4>2
          <5> QED
            BY <1>1, <4>2, <5>1, <5>2
        <4> QED
          BY <1>0, <3>1, <4>1, <4>2
      <3> QED
        BY <2>1, <3>2, <3>3 DEF OrderInv, WireOrdered
    <2> QED
      BY <1>3, <2>3, <2>4
  <1>4. ASSUME UNCHANGED history PROVE UNCHANGED Sync!syncVars /\ Latest' = Latest
    BY <1>1, <1>2, <1>4 DEF Sync!syncVars, Latest
  <1>5. ASSUME NEW m, UNCHANGED history, wire' = Append(wire, m),
               m.sequence = SeqId[Latest]
        PROVE  OrderInv' /\ [Sync!Next]_(Sync!syncVars)
    <2>1. Sent(m) = Latest
      BY <1>0, <1>5, SentVersion
    <2> QED
      BY <1>0, <1>3, <1>4, <1>5, <2>1
  <1>6. CASE AnswerRequest
    <2>1. SnapshotMessage.sequence = SeqId[Latest]
      BY DEF SnapshotMessage
    <2> QED
      BY <1>5, <1>6, <2>1 DEF AnswerRequest
  <1>7. ASSUME NEW change
        PROVE  DeltaMessage(change, SeqId[Latest], SeqId[Latest], Current).sequence
                 = SeqId[Latest]
    BY DEF DeltaMessage
  <1>8. CASE Keepalive
    BY <1>5, <1>7, <1>8 DEF Keepalive, KeepaliveMessage, SendExtra
  <1>9. ASSUME NEW change \in Changes, Repeat(change)
        PROVE  OrderInv' /\ [Sync!Next]_(Sync!syncVars)
    BY <1>5, <1>7, <1>9 DEF Repeat, SendExtra
  <1>10. ASSUME NEW change \in Changes, Publish(change)
         PROVE  OrderInv' /\ [Sync!Next]_(Sync!syncVars)
    <2> DEFINE next == [bids |-> applyLevels(Current.bids, change.bids),
                        asks |-> applyLevels(Current.asks, change.asks)]
               m == DeltaMessage(change, SeqId[Latest], SeqId[Latest + 1], next)
    <2>1. /\ Latest < MaxVersion /\ history' = Append(history, next)
          /\ wire' = wire \/ wire' = Append(wire, m)
      BY <1>10 DEF Publish
    <2>2. m.sequence = SeqId[Latest + 1]
      BY DEF DeltaMessage
    <2> HIDE DEF m, next
    <2>3. Latest' = Latest + 1 /\ history'[Len(history')] = next
      BY <1>0, <2>1 DEF Latest
    <2>4. Latest + 1 \in 1..MaxVersion
      BY <1>0, <2>1, VenueAssumption
    <2>5. Sent(m) = Latest'
      BY <2>2, <2>3, <2>4, SentVersion
    <2>6. OrderInv'
      BY <1>0, <1>3, <2>1, <2>3, <2>5
    <2>7. next \in Content
      <3>1. history' \in Seq(Content) /\ Len(history') \in 1..MaxVersion
        BY DEF IntegrityInv, TypeOK
      <3>2. Len(history') \in 1..Len(history')
        BY <3>1, VenueAssumption
      <3> QED
        BY <2>3, <3>1, <3>2
    <2>8. Sync!Publish
      BY <1>1, <1>2, <2>1, <2>7 DEF Sync!Publish
    <2> QED
      BY <2>6, <2>8 DEF Sync!Next
  <1> QED
    BY <1>6, <1>8, <1>9, <1>10 DEF VenueStep

\* What may be touched are deltas.
LEMMA NetworkOrder ==
    ASSUME "Snapshot" \notin Targets, "corrupt" \notin Disturbances,
           OrderInv, IntegrityInv', NetworkStep
    PROVE  OrderInv' /\ UNCHANGED Sync!syncVars
  <1>0. wire \in Seq(Message) /\ \A i \in Touchable : wire[i].type # "Snapshot"
    BY DEF OrderInv, IntegrityInv, TypeOK, Touchable
  <1>1. UNCHANGED <<book, validator, seen, history>>
    BY DEF NetworkStep, Lose, Duplicate, Reorder, Garble, Unanchor, Corrupt, Tamper,
           clientVars, pipeline
  <1>2. UNCHANGED Sync!syncVars /\ ClientOrdered' /\ Latest' = Latest
    BY <1>1 DEF OrderInv, Sync!syncVars, ClientOrdered, VersionOf, ContentOf, Latest
  <1> SUFFICES WireOrdered'
    BY <1>2 DEF OrderInv
  <1>3. CASE Lose
    <2>1. wire # <<>> /\ wire' = Tail(wire)
      BY <1>0, <1>3 DEF Lose, Touchable
    <2>2. \A i \in 1..Len(wire') : i + 1 \in 1..Len(wire) /\ wire'[i] = wire[i + 1]
      BY <1>0, <2>1
    <2>3. \A i \in 1..Len(wire') : Sent(wire'[i]) <= Latest'
      BY <1>2, <2>2 DEF OrderInv, WireOrdered
    <2>4. ASSUME NEW j \in 1..Len(wire'), wire'[j].type = "Snapshot"
          PROVE  /\ seen' <= Sent(wire'[j])
                 /\ \A i \in 1..j : Sent(wire'[i]) <= Sent(wire'[j])
      <3>1. j + 1 \in 1..Len(wire) /\ wire'[j] = wire[j + 1]
        BY <2>2
      <3>2. /\ seen <= Sent(wire[j + 1])
            /\ \A i \in 1..(j + 1) : Sent(wire[i]) <= Sent(wire[j + 1])
        BY <2>4, <3>1 DEF OrderInv, WireOrdered
      <3>3. \A i \in 1..j : i + 1 \in 1..(j + 1) /\ wire'[i] = wire[i + 1]
        BY <2>2, <3>1
      <3> QED
        BY <1>1, <3>1, <3>2, <3>3
    <2> QED
      BY <2>3, <2>4 DEF WireOrdered
  <1>4. ASSUME NEW k \in 1..Len(wire), Duplicate(k) PROVE WireOrdered'
    <2>1. wire' = Append(wire, wire[k]) /\ wire[k].type # "Snapshot"
      BY <1>0, <1>4 DEF Duplicate
    <2>2. /\ Len(wire') = Len(wire) + 1 /\ wire'[Len(wire) + 1] = wire[k]
          /\ \A i \in 1..Len(wire) : wire'[i] = wire[i]
      BY <1>0, <2>1
    <2>3. \A i \in 1..Len(wire') : Sent(wire'[i]) <= Latest'
      BY <1>0, <1>2, <2>2 DEF OrderInv, WireOrdered
    <2>4. ASSUME NEW j \in 1..Len(wire'), wire'[j].type = "Snapshot"
          PROVE  /\ seen' <= Sent(wire'[j])
                 /\ \A i \in 1..j : Sent(wire'[i]) <= Sent(wire'[j])
      <3>1. j \in 1..Len(wire)
        BY <1>0, <2>1, <2>2, <2>4
      <3>2. /\ seen <= Sent(wire[j])
            /\ \A i \in 1..j : Sent(wire[i]) <= Sent(wire[j])
        BY <2>2, <2>4, <3>1 DEF OrderInv, WireOrdered
      <3>3. \A i \in 1..j : wire'[i] = wire[i]
        BY <1>0, <2>2, <3>1
      <3> QED
        BY <1>1, <3>1, <3>2, <3>3
    <2> QED
      BY <2>3, <2>4 DEF WireOrdered
  <1>5. ASSUME NEW k \in 1..Len(wire), Reorder(k) PROVE WireOrdered'
    <2>1. /\ k + 1 \in 1..Len(wire)
          /\ wire' = [wire EXCEPT ![k] = wire[k + 1], ![k + 1] = wire[k]]
          /\ wire[k].type # "Snapshot" /\ wire[k + 1].type # "Snapshot"
      BY <1>0, <1>5 DEF Reorder, Touchable
    <2>2. /\ Len(wire') = Len(wire)
          /\ wire'[k] = wire[k + 1] /\ wire'[k + 1] = wire[k]
          /\ \A i \in 1..Len(wire) \ {k, k + 1} : wire'[i] = wire[i]
      BY <1>0, <2>1
    <2>3. \A i \in 1..Len(wire') : Sent(wire'[i]) <= Latest'
      BY <1>2, <2>1, <2>2 DEF OrderInv, WireOrdered
    <2>4. ASSUME NEW j \in 1..Len(wire'), wire'[j].type = "Snapshot"
          PROVE  /\ seen' <= Sent(wire'[j])
                 /\ \A i \in 1..j : Sent(wire'[i]) <= Sent(wire'[j])
      <3>1. j \in 1..Len(wire) \ {k, k + 1} /\ wire'[j] = wire[j]
        BY <2>1, <2>2, <2>4
      <3>2. /\ seen <= Sent(wire[j])
            /\ \A i \in 1..j : Sent(wire[i]) <= Sent(wire[j])
        BY <2>4, <3>1 DEF OrderInv, WireOrdered
      <3>3. ASSUME NEW i \in 1..j PROVE \E h \in 1..j : wire'[i] = wire[h]
        <4>1. CASE i = k
          BY <2>1, <2>2, <3>1, <4>1
        <4>2. CASE i = k + 1
          BY <2>1, <2>2, <3>1, <4>2
        <4>3. CASE i \notin {k, k + 1}
          BY <2>2, <3>1, <4>3
        <4> QED
          BY <4>1, <4>2, <4>3
      <3> QED
        BY <1>1, <3>1, <3>2, <3>3
    <2> QED
      BY <2>3, <2>4 DEF WireOrdered
  <1>6. ASSUME NEW k \in 1..Len(wire), Garble(k) PROVE WireOrdered'
    <2> DEFINE m == [wire[k] EXCEPT !.status = "Malformed"]
    <2>1. wire' = [wire EXCEPT ![k] = m]
      BY <1>0, <1>6 DEF Garble
    <2>2. wire[k] \in Message
      BY <1>0
    <2>3. m.sequence = wire[k].sequence /\ m.type = wire[k].type
      BY <2>2 DEF Message
    <2> HIDE DEF m
    <2>4. /\ Len(wire') = Len(wire) /\ wire'[k] = m
          /\ \A i \in 1..Len(wire) \ {k} : wire'[i] = wire[i]
      BY <1>0, <2>1
    <2>5. Sent(m) = Sent(wire[k])
      BY <2>3, SentPreserved
    <2>6. \A i \in 1..Len(wire') :
              Sent(wire'[i]) = Sent(wire[i]) /\ wire'[i].type = wire[i].type
      BY <2>3, <2>4, <2>5
    <2>7. \A i \in 1..Len(wire') : Sent(wire'[i]) <= Latest'
      BY <1>2, <2>4, <2>6 DEF OrderInv, WireOrdered
    <2>8. ASSUME NEW j \in 1..Len(wire'), wire'[j].type = "Snapshot"
          PROVE  /\ seen' <= Sent(wire'[j])
                 /\ \A i \in 1..j : Sent(wire'[i]) <= Sent(wire'[j])
      <3>1. /\ seen <= Sent(wire[j])
            /\ \A i \in 1..j : Sent(wire[i]) <= Sent(wire[j])
        BY <2>4, <2>6, <2>8 DEF OrderInv, WireOrdered
      <3>2. \A i \in 1..j : i \in 1..Len(wire')
        BY <1>0, <2>4
      <3> QED
        BY <1>1, <2>6, <3>1, <3>2
    <2> QED
      BY <2>7, <2>8 DEF WireOrdered
  <1>7. ASSUME NEW k \in 1..Len(wire), Unanchor(k) PROVE FALSE
    BY <1>0, <1>7 DEF Unanchor, AnchoringSnapshot
  <1>8. ASSUME NEW k \in 1..Len(wire), NEW change \in Changes, Corrupt(k, change)
        PROVE  FALSE
    BY <1>8 DEF Corrupt, Tamper, Disturb
  <1> QED
    BY <1>3, <1>4, <1>5, <1>6, <1>7, <1>8 DEF NetworkStep

LEMMA NextOrder ==
    ASSUME Mode = "OkxSequenced", "Snapshot" \notin Targets, "corrupt" \notin Disturbances,
           OrderInv, [Next]_vars
    PROVE  OrderInv' /\ [Sync!Next]_(Sync!syncVars)
  <1> USE DEF clientVars, pipeline, venueVars
  <1>0. IntegrityInv'
    BY NextIntegrity DEF OrderInv
  <1>1. ASSUME UNCHANGED <<history, book, validator, seen>>, wire' = wire \/ wire' = <<>>
        PROVE  OrderInv' /\ [Sync!Next]_(Sync!syncVars)
    <2>1. UNCHANGED Sync!syncVars /\ ClientOrdered' /\ Latest' = Latest
      BY <1>1 DEF OrderInv, Sync!syncVars, ClientOrdered, VersionOf, ContentOf, Latest
    <2>2. WireOrdered'
      <3>1. CASE wire' = wire
        BY <1>1, <2>1, <3>1 DEF OrderInv, WireOrdered
      <3>2. CASE wire' = <<>>
        BY <3>2 DEF WireOrdered
      <3> QED
        BY <1>1, <3>1, <3>2
    <2> QED
      BY <1>0, <2>1, <2>2 DEF OrderInv
  <1>2. CASE HostStep
    BY <1>1, <1>2 DEF HostStep, Start, Stop, TickReconnect, TickStale, Connect,
                      HandleConnecting, Disconnected
  <1>3. CASE Open \/ Resubscribe \/ Abandon \/ Refuse \/ Close \/ StopSocket
    BY <1>1, <1>3 DEF Open, Resubscribe, Abandon, Refuse, Close, StopSocket, EndSession
  <1>4. CASE EmitDisconnected
    BY <1>1, <1>4 DEF EmitDisconnected, HandleDisconnected
  <1>5. CASE TimePasses \/ Terminated \/ UNCHANGED vars
    BY <1>1, <1>5 DEF TimePasses, Elapse, Terminated, vars
  <1>6. CASE EmitConnected
    <2>1. UNCHANGED <<wire, history, seen>> /\ book' = clear /\ ~validator'.hasBaseline
      BY <1>6 DEF EmitConnected, HandleConnected, resetPipelineLocked, reset
    <2>2. VersionOf(validator)' = 0 /\ Latest' = Latest
      BY <2>1 DEF VersionOf, Latest
    <2>3. Sync!Invalidate
      BY <2>1, <2>2 DEF Sync!Invalidate, ContentOf, EmptyContent, clear
    <2>4. WireOrdered' /\ ClientOrdered'
      BY <2>1, <2>2 DEF OrderInv, WireOrdered, ClientOrdered
    <2> QED
      BY <1>0, <2>3, <2>4 DEF OrderInv, Sync!Next
  <1> QED
    BY <1>0, <1>2, <1>3, <1>4, <1>5, <1>6, DeliverOrder, VenueOrder, NetworkOrder
       DEF Next, SourceStep, SessionStep

LEMMA InitOrder == Init => OrderInv /\ Sync!Init
  <1> SUFFICES ASSUME Init PROVE OrderInv /\ Sync!Init
    OBVIOUS
  <1>1. /\ history = <<OpeningBook>> /\ wire = <<>> /\ seen = 0
        /\ ~validator.hasBaseline /\ book = clear
    BY DEF Init, InitClient, InitVenue, NewValidator
  <1>2. WireOrdered /\ ClientOrdered
    BY <1>1 DEF WireOrdered, ClientOrdered, Latest
  <1>3. Sync!Init
    BY <1>1, VenueAssumption DEF Sync!Init, VersionOf, ContentOf, EmptyContent, clear
  <1> QED
    BY <1>2, <1>3, InitIntegrity DEF OrderInv

\* The client implements a synchronised copy of the venue's book.  With
\* snapshots undisturbed, and any loss, repetition, reordering and damage of
\* deltas short of altered levels, it shows exact books of the venue only and
\* never goes back to an older one, over any number of sessions.
THEOREM ClientImplementsSync ==
    ASSUME Mode = "OkxSequenced", "Snapshot" \notin Targets, "corrupt" \notin Disturbances
    PROVE  Spec => SyncSpec
  <1>1. Init => OrderInv /\ Sync!Init
    BY InitOrder
  <1>2. OrderInv /\ [Next]_vars => OrderInv' /\ [Sync!Next]_(Sync!syncVars)
    BY NextOrder
  <1> QED
    BY <1>1, <1>2, PTL DEF Spec, SyncSpec, Sync!Spec

-----------------------------------------------------------------------------
(***************************************************************************)
(* No false alarm.  Where sessions drop but the stream of each is intact,  *)
(* the messages in flight form a chain from where the client is to where   *)
(* the venue is: every delta names the message before it, and one that     *)
(* repeats a seqId carries nothing.  Old books survive until the next      *)
(* Connected callback, so the chain of a new session starts with a         *)
(* snapshot.                                                               *)
(***************************************************************************)

OnlyDrops == Disturbances \subseteq {"close", "refuse", "keepalive"}

Intact(m) ==
    /\ m.status = "Ok"
    /\ m.type = "Snapshot" => m.prevSequence = {-1}
    /\ m.type = "Delta" /\ m.prevSequence = {m.sequence} => ~HasLevels(m)

Chain ==
    /\ \A i \in 1..Len(wire) : Intact(wire[i])
    /\ \A i \in 2..Len(wire) :
        wire[i].type = "Delta" => wire[i].prevSequence = {wire[i - 1].sequence}
    /\ wire # <<>> /\ validator.hasBaseline /\ wire[1].type = "Delta" =>
        wire[1].prevSequence = {validator.lastSeqId}
    /\ ~subscribed => wire = <<>>
    /\ subscribed /\ wire # <<>> => wire[Len(wire)].sequence = SeqId[Latest]
    /\ subscribed /\ wire = <<>> /\ validator.hasBaseline =>
        validator.lastSeqId = SeqId[Latest]

QuietInv ==
    /\ IntegrityInv
    /\ Policy = "SequenceAndChecksum" => ChecksumInv
    /\ Chain
    /\ NoFalseAlarm

\* A client that is at a version of the venue's accepts an honest message for
\* another one, and the checksum agrees.
LEMMA AcceptedIsTrue ==
    ASSUME Mode = "OkxSequenced", TypeOK, NEW m \in Message,
           m.status = "Ok", verdict(validator, m) = "Accept", Honest(m, history),
           validator.hasBaseline => \E v \in Versions : AtVersion(v),
           Policy = "SequenceAndChecksum" => CheckedBy(m, history)
    PROVE  /\ \E v \in Versions : m.sequence = SeqId[v] /\ ContentOf(Applied(m)) = history[v]
           /\ verifyChecksum(Applied(m), m) # "Mismatch"
  <1>1. \/ AnchoringSnapshot(m)
        \/ Connects(validator, m) /\ ~RepeatsWithLevels(validator, m)
    BY DEF verdict
  <1>2. Connects(validator, m) => Synced
    BY DEF Connects, Synced
  <1>3. PICK v \in Versions : m.sequence = SeqId[v] /\ ContentOf(Applied(m)) = history[v]
    BY <1>1, <1>2, SnapshotAnchors, DeltaAdvances
  <1>4. CASE Policy = "SequenceOnly"
    BY <1>3, <1>4 DEF verifyChecksum
  <1>5. CASE Policy = "SequenceAndChecksum"
    <2>1. PICK w \in Versions : /\ m.sequence = SeqId[w]
                                /\ m.checksum = {computeTopOfBookChecksum(history[w])}
      BY <1>5 DEF CheckedBy, Versions, Latest
    <2>2. v = w
      BY <1>3, <2>1, SameVersion
    <2>3. /\ history[v].bids = Applied(m).bids
          /\ history[v].asks = Applied(m).asks
      BY <1>3 DEF ContentOf
    <2>4. computeTopOfBookChecksum(history[v]) = computeTopOfBookChecksum(Applied(m))
      BY <2>3 DEF computeTopOfBookChecksum
    <2> QED
      BY <1>3, <2>1, <2>2, <2>4 DEF verifyChecksum
  <1> QED
    BY <1>4, <1>5, ValidatorAssumption

\* An intact message of the chain is applied, or is a delta that comes before
\* the client's first snapshot: no alarm is raised.
LEMMA HandleIntact ==
    ASSUME Mode = "OkxSequenced", QuietInv, wire # <<>>, handleFrame(wire[1])
    PROVE  /\ NoFalseAlarm'
           /\ \/ ~validator'.hasBaseline
              \/ validator'.hasBaseline /\ validator'.lastSeqId = wire[1].sequence
  <1> DEFINE m == wire[1]
  <1>0. /\ wire \in Seq(Message) /\ 1 \in 1..Len(wire) /\ m \in Message
        /\ health \in HealthType
        /\ TypeOK /\ Synced /\ Honest(m, history) /\ Intact(m)
        /\ m.type \in {"Snapshot", "Delta"}
    <2>1. TypeOK /\ Synced /\ AllHonest
      BY DEF QuietInv, IntegrityInv
    <2>2. wire \in Seq(Message) /\ health \in HealthType
      BY <2>1 DEF TypeOK, HealthType
    <2>3. 1 \in 1..Len(wire) /\ m \in Message
      BY <2>2
    <2>4. Honest(m, history) /\ Intact(m)
      BY <2>1, <2>3 DEF AllHonest, QuietInv, Chain
    <2>5. m.type \in {"Snapshot", "Delta"}
      BY <2>3 DEF Message
    <2> QED
      BY <2>1, <2>2, <2>3, <2>4, <2>5
  <1>1. ~HandleMalformed(m)
    BY <1>0 DEF HandleMalformed, Intact
  <1>2. ASSUME validator.hasBaseline PROVE verdict(validator, m) = "Accept"
    <2>1. CASE m.type = "Snapshot"
      BY <1>0, <2>1 DEF Intact, verdict, AnchoringSnapshot
    <2>2. CASE m.type = "Delta"
      <3>1. m.prevSequence = {validator.lastSeqId}
        BY <1>2, <2>2 DEF QuietInv, Chain
      <3>2. m.sequence = validator.lastSeqId => ~HasLevels(m)
        BY <1>0, <2>2, <3>1 DEF Intact
      <3> QED
        BY <1>2, <2>2, <3>1, <3>2 DEF verdict, Connects, RepeatsWithLevels
    <2> QED
      BY <1>0, <2>1, <2>2
  <1>3. ~HandleStale(m)
    BY <1>2 DEF HandleStale, verdict, Connects
  <1>4. CASE HandleGap(m)
    <2>1. ~validator.hasBaseline
      BY <1>2, <1>4 DEF HandleGap
    <2>2. ~validator'.hasBaseline
      BY <1>4 DEF HandleGap, reset
    <2>3. NoFalseAlarm'
      BY <1>0, <1>4, <2>1 DEF HandleGap, HealthType, NoFalseAlarm, Alarms, QuietInv
    <2> QED
      BY <2>2, <2>3
  <1>5. ASSUME m.status = "Ok", verdict(validator, m) = "Accept"
        PROVE  verifyChecksum(Applied(m), m) # "Mismatch"
    <2>1. validator.hasBaseline => \E v \in Versions : AtVersion(v)
      BY <1>0 DEF Synced
    <2>2. Policy = "SequenceAndChecksum" => CheckedBy(m, history)
      BY <1>0 DEF QuietInv, ChecksumInv, AllChecked
    <2> QED
      BY <1>0, <1>5, <2>1, <2>2, AcceptedIsTrue
  <1>6. ~HandleMismatch(m)
    BY <1>5 DEF HandleMismatch
  <1>7. CASE HandleAccepted(m)
    <2>1. validator'.hasBaseline /\ validator'.lastSeqId = m.sequence
      BY <1>0, <1>7, AcceptedBaseline DEF HandleAccepted
    <2>2. NoFalseAlarm'
      BY <1>0, <1>7 DEF HandleAccepted, HealthType, NoFalseAlarm, Alarms, QuietInv
    <2> QED
      BY <2>1, <2>2
  <1> QED
    BY <1>1, <1>3, <1>4, <1>6, <1>7 DEF handleFrame

LEMMA DeliverChain ==
    ASSUME Mode = "OkxSequenced", QuietInv, Deliver
    PROVE  Chain' /\ NoFalseAlarm'
  <1>1. /\ wire \in Seq(Message) /\ wire # <<>> /\ wire' = Tail(wire)
        /\ Len(wire) \in Nat /\ UNCHANGED <<history, subscribed>>
        /\ handleFrame(wire[1]) /\ Latest' = Latest
    BY DEF QuietInv, IntegrityInv, TypeOK, Deliver, Latest
  <1>2. /\ NoFalseAlarm'
        /\ validator'.hasBaseline => validator'.lastSeqId = wire[1].sequence
    BY <1>1, HandleIntact
  <1>3. /\ Len(wire') = Len(wire) - 1
        /\ \A i \in 1..Len(wire') : i + 1 \in 2..Len(wire) /\ wire'[i] = wire[i + 1]
    BY <1>1
  <1> USE DEF QuietInv, Chain
  <1>4. \A i \in 1..Len(wire') : Intact(wire'[i])
    BY <1>1, <1>3
  <1>5. ASSUME NEW i \in 2..Len(wire'), wire'[i].type = "Delta"
        PROVE  wire'[i].prevSequence = {wire'[i - 1].sequence}
    <2>1. /\ wire'[i] = wire[i + 1] /\ wire'[i - 1] = wire[i]
          /\ i + 1 \in 2..Len(wire)
      BY <1>1, <1>3
    <2> QED
      BY <1>5, <2>1
  <1>6. ASSUME wire' # <<>>
        PROVE  /\ wire'[1] = wire[2] /\ 2 \in 2..Len(wire)
               /\ wire'[Len(wire')] = wire[Len(wire)]
    BY <1>1, <1>3, <1>6
  <1>7. wire' # <<>> /\ validator'.hasBaseline /\ wire'[1].type = "Delta" =>
            wire'[1].prevSequence = {validator'.lastSeqId}
    BY <1>2, <1>6
  <1>8. subscribed' /\ wire' # <<>> => wire'[Len(wire')].sequence = SeqId[Latest']
    BY <1>1, <1>6
  <1>9. subscribed' /\ wire' = <<>> /\ validator'.hasBaseline =>
            validator'.lastSeqId = SeqId[Latest']
    <2>1. wire' = <<>> => Len(wire) = 1
      BY <1>1, <1>3
    <2> QED
      BY <1>1, <1>2, <2>1
  <1> QED
    BY <1>1, <1>2, <1>4, <1>5, <1>7, <1>8, <1>9

\* A message appended by the venue continues the chain.
LEMMA AppendChain ==
    ASSUME TypeOK, Chain, UNCHANGED validator, subscribed',
           NEW m, wire' = Append(wire, m), Intact(m), m.sequence = SeqId[Latest'],
           m.type = "Delta" => subscribed /\ m.prevSequence = {SeqId[Latest]}
    PROVE  Chain'
  <1>1. /\ wire \in Seq(Message) /\ Len(wire) \in Nat
        /\ Len(wire') = Len(wire) + 1 /\ wire' # <<>> /\ wire'[Len(wire) + 1] = m
        /\ \A i \in 1..Len(wire) : wire'[i] = wire[i]
    BY DEF TypeOK
  <1> USE DEF Chain
  <1>2. \A i \in 1..Len(wire') : Intact(wire'[i])
    BY <1>1
  <1>3. ASSUME NEW i \in 2..Len(wire'), wire'[i].type = "Delta"
        PROVE  wire'[i].prevSequence = {wire'[i - 1].sequence}
    <2>1. CASE i \in 2..Len(wire)
      <3>1. wire'[i] = wire[i] /\ wire'[i - 1] = wire[i - 1]
        BY <1>1, <2>1
      <3> QED
        BY <1>3, <2>1, <3>1
    <2>2. CASE i = Len(wire) + 1
      <3>1. wire # <<>> /\ Len(wire) \in 1..Len(wire)
        BY <1>1, <2>2
      <3>2. m.prevSequence = {SeqId[Latest]} /\ wire[Len(wire)].sequence = SeqId[Latest]
        BY <1>1, <1>3, <2>2, <3>1
      <3> QED
        BY <1>1, <2>2, <3>1, <3>2
    <2> QED
      BY <1>1, <2>1, <2>2
  <1>4. ASSUME validator'.hasBaseline, wire'[1].type = "Delta"
        PROVE  wire'[1].prevSequence = {validator'.lastSeqId}
    <2>1. CASE wire = <<>>
      <3>1. wire'[1] = m
        BY <1>1, <2>1
      <3> QED
        BY <1>4, <2>1, <3>1
    <2>2. CASE wire # <<>>
      <3>1. wire'[1] = wire[1]
        BY <1>1, <2>2
      <3> QED
        BY <1>4, <2>2, <3>1
    <2> QED
      BY <2>1, <2>2
  <1> QED
    BY <1>1, <1>2, <1>3, <1>4

LEMMA VenueChain ==
    ASSUME OnlyDrops, TypeOK, Chain, VenueStep
    PROVE  Chain'
  <1>0. /\ Latest \in 1..MaxVersion /\ history \in Seq(Content)
        /\ Len(history) \in Nat /\ SeqId[Latest] \in Nat
    BY VenueAssumption, SeqIdsAreUnique DEF TypeOK, Latest
  <1>1. UNCHANGED validator
    BY DEF VenueStep, AnswerRequest, Publish, Keepalive, Repeat, SendExtra,
           clientVars, pipeline
  <1>2. CASE AnswerRequest
    <2>1. Intact(SnapshotMessage)
      BY DEF SnapshotMessage, Intact
    <2>2. /\ SnapshotMessage.sequence = SeqId[Latest] /\ Latest' = Latest
          /\ SnapshotMessage.type = "Snapshot"
      BY <1>2 DEF AnswerRequest, SnapshotMessage, Latest
    <2> QED
      BY <1>1, <1>2, <2>1, <2>2, AppendChain DEF AnswerRequest
  <1>3. ASSUME NEW change \in Changes, Publish(change) PROVE Chain'
    <2> DEFINE next == [bids |-> applyLevels(Current.bids, change.bids),
                        asks |-> applyLevels(Current.asks, change.asks)]
               m == DeltaMessage(change, SeqId[Latest], SeqId[Latest + 1], next)
    <2>1. /\ Latest < MaxVersion /\ history' = Append(history, next)
          /\ wire' = IF subscribed THEN Append(wire, m) ELSE wire
          /\ UNCHANGED subscribed
      BY <1>3 DEF Publish
    <2>2. SeqId[Latest] # SeqId[Latest + 1]
      BY <1>0, <2>1, VenueAssumption, SeqIdsAreUnique
    <2>3. /\ m.sequence = SeqId[Latest + 1] /\ m.type = "Delta" /\ m.status = "Ok"
          /\ m.prevSequence = {SeqId[Latest]}
      BY DEF DeltaMessage
    <2> HIDE DEF m, next
    <2>4. Intact(m)
      BY <2>2, <2>3 DEF Intact
    <2>5. Latest' = Latest + 1
      BY <1>0, <2>1 DEF Latest
    <2>6. CASE subscribed
      BY <1>1, <2>1, <2>3, <2>4, <2>5, <2>6, AppendChain
    <2>7. CASE ~subscribed
      BY <1>1, <2>1, <2>7 DEF Chain
    <2> QED
      BY <2>6, <2>7
  <1>4. CASE Keepalive
    <2>1. /\ KeepaliveMessage.sequence = SeqId[Latest]
          /\ KeepaliveMessage.prevSequence = {SeqId[Latest]}
          /\ KeepaliveMessage.status = "Ok" /\ KeepaliveMessage.type = "Delta"
          /\ KeepaliveMessage.bids = EmptySide /\ KeepaliveMessage.asks = EmptySide
      BY DEF KeepaliveMessage, DeltaMessage, NoChange, EmptyContent
    <2>2. DOMAIN EmptySide = {}
      BY DEF EmptySide
    <2>3. Intact(KeepaliveMessage)
      BY <2>1, <2>2 DEF Intact, HasLevels
    <2>4. /\ wire' = Append(wire, KeepaliveMessage) /\ subscribed /\ subscribed'
          /\ Latest' = Latest
      BY <1>4 DEF Keepalive, SendExtra, Latest
    <2> QED
      BY <1>1, <2>1, <2>3, <2>4, AppendChain
  <1>5. ASSUME NEW change \in Changes, Repeat(change) PROVE FALSE
    BY <1>5 DEF Repeat, SendExtra, Disturb, OnlyDrops
  <1> QED
    BY <1>2, <1>3, <1>4, <1>5 DEF VenueStep

LEMMA NextQuiet ==
    ASSUME Mode = "OkxSequenced", OnlyDrops, QuietInv, [Next]_vars
    PROVE  QuietInv'
  <1>0. /\ TypeOK /\ health \in HealthType /\ Chain /\ NoFalseAlarm
        /\ "corrupt" \notin Disturbances
    BY DEF QuietInv, IntegrityInv, TypeOK, HealthType, OnlyDrops
  <1>1. IntegrityInv' /\ (Policy = "SequenceAndChecksum" => ChecksumInv')
    BY <1>0, NextIntegrity, NextChecked DEF QuietInv
  <1> SUFFICES Chain' /\ NoFalseAlarm'
    BY <1>1 DEF QuietInv
  <1> USE DEF clientVars, pipeline, venueVars
  <1>2. ASSUME UNCHANGED <<wire, subscribed, history, validator>> PROVE Chain'
    BY <1>0, <1>2 DEF Chain, Latest
  <1>3. ASSUME UNCHANGED health PROVE NoFalseAlarm'
    BY <1>0, <1>3 DEF NoFalseAlarm, Alarms
  <1>4. CASE HostStep
    <2>1. UNCHANGED <<wire, subscribed, history, validator>>
      BY <1>4 DEF HostStep, Start, Stop, TickReconnect, TickStale, Connect,
                  HandleConnecting, Disconnected
    <2>2. NoFalseAlarm'
      BY <1>0, <1>4 DEF HostStep, Start, Stop, TickReconnect, TickStale, Connect,
                        HandleConnecting, Disconnected, HealthType, NoFalseAlarm, Alarms
    <2> QED
      BY <1>2, <2>1, <2>2
  <1>5. CASE Open \/ Resubscribe \/ Abandon
    BY <1>2, <1>3, <1>5 DEF Open, Resubscribe, Abandon
  <1>6. CASE Refuse \/ Close \/ StopSocket
    <2>1. wire' = <<>> /\ ~subscribed' /\ UNCHANGED health
      BY <1>6 DEF Refuse, Close, StopSocket, EndSession
    <2>2. Chain'
      BY <2>1 DEF Chain
    <2> QED
      BY <1>3, <2>1, <2>2
  <1>7. CASE EmitConnected
    <2>1. UNCHANGED <<wire, subscribed, history>> /\ ~validator'.hasBaseline
      BY <1>7 DEF EmitConnected, HandleConnected, resetPipelineLocked, reset
    <2>2. Chain'
      BY <1>0, <2>1 DEF Chain, Latest
    <2>3. NoFalseAlarm'
      BY <1>0, <1>7 DEF EmitConnected, HandleConnected, HealthType, NoFalseAlarm, Alarms
    <2> QED
      BY <2>2, <2>3
  <1>8. CASE EmitDisconnected
    <2>1. UNCHANGED <<wire, subscribed, history, validator>>
      BY <1>8 DEF EmitDisconnected, HandleDisconnected
    <2>2. NoFalseAlarm'
      BY <1>0, <1>8 DEF EmitDisconnected, HandleDisconnected, HealthType, NoFalseAlarm, Alarms
    <2> QED
      BY <1>2, <2>1, <2>2
  <1>9. CASE Deliver
    BY <1>9, DeliverChain
  <1>10. CASE VenueStep
    <2>1. UNCHANGED health
      BY <1>10 DEF VenueStep, AnswerRequest, Publish, Keepalive, Repeat, SendExtra
    <2> QED
      BY <1>0, <1>3, <1>10, <2>1, VenueChain
  <1>11. CASE NetworkStep
    BY <1>11 DEF NetworkStep, Lose, Duplicate, Reorder, Garble, Unanchor, Corrupt, Tamper,
                 Disturb, OnlyDrops
  <1>12. CASE TimePasses \/ Terminated \/ UNCHANGED vars
    BY <1>2, <1>3, <1>12 DEF TimePasses, Elapse, Terminated, vars
  <1> QED
    BY <1>4, <1>5, <1>6, <1>7, <1>8, <1>9, <1>10, <1>11, <1>12
       DEF Next, SourceStep, SessionStep

\* Drops, refused handshakes, keepalives and maintenance resets of the seqId
\* raise no alarm, under both integrity policies: what FeedHealth counts as a
\* gap, a stale update or a failed checksum is a fault of the stream.
THEOREM DropsAreQuiet ==
    ASSUME Mode = "OkxSequenced", OnlyDrops
    PROVE  Spec => []NoFalseAlarm
  <1>1. Init => QuietInv
    <2> SUFFICES ASSUME Init PROVE QuietInv
      OBVIOUS
    <2>1. Chain /\ NoFalseAlarm /\ AllChecked /\ TopVerified
      BY DEF Init, InitClient, InitVenue, NewValidator, NewHealth, Chain, NoFalseAlarm,
             Alarms, AllChecked, TopVerified
    <2> QED
      BY <2>1, InitTypeOK, InitIntegrity DEF QuietInv, ChecksumInv
  <1>2. QuietInv /\ [Next]_vars => QuietInv'
    BY NextQuiet
  <1>3. QuietInv => NoFalseAlarm
    BY DEF QuietInv
  <1> QED
    BY <1>1, <1>2, <1>3, PTL DEF Spec

-----------------------------------------------------------------------------
(***************************************************************************)
(* Alarms.  What bounds the alarms raised so far is not the faults so far  *)
(* but those whose alarm is not still to come.  So the invariant counts    *)
(* the alarms that what is in flight is going to raise, which depends on   *)
(* where the client is: its base.  A table says for every base how many    *)
(* alarms reading some messages raises at most, and what reading one more  *)
(* message before them makes of it is a matter of the message's kind.      *)
(***************************************************************************)

\* Without a baseline.
None == -1

Bases == SeqIds \cup {None}

\* Losing the baseline costs one alarm and then no more than having none.
IsEven(table) ==
    \A s \in Bases : table[None] <= table[s] /\ table[s] <= table[None] + 1

Tables == {table \in [Bases -> Nat] : IsEven(table)}

Kinds == {"undecodable", "repeat", "altered", "anchor", "update"}

\* What a table becomes when a message is read first that leads to seq, and
\* leads there, if it is an update, from the bases in from.
Preceded(table, kind, seq, from) ==
    [s \in Bases |->
        IF kind = "undecodable" THEN table[s]
        ELSE IF kind = "repeat" THEN 1 + (IF s = seq THEN table[s] ELSE table[None])
        ELSE IF kind = "altered" THEN 1 + table[None]
        ELSE IF kind = "anchor" THEN Larger(table[s], table[seq])
        ELSE IF s = None THEN table[None]
        ELSE IF s \in from THEN table[seq]
        ELSE 1 + table[None]]

LEMMA PrecededIs ==
    ASSUME NEW table, NEW kind, NEW seq, NEW from, NEW s \in Bases
    PROVE  Preceded(table, kind, seq, from)[s] =
               IF kind = "undecodable" THEN table[s]
               ELSE IF kind = "repeat" THEN 1 + (IF s = seq THEN table[s] ELSE table[None])
               ELSE IF kind = "altered" THEN 1 + table[None]
               ELSE IF kind = "anchor" THEN Larger(table[s], table[seq])
               ELSE IF s = None THEN table[None]
               ELSE IF s \in from THEN table[seq]
               ELSE 1 + table[None]
  BY DEF Preceded

LEMMA NoneIsBase == None \in Bases
  BY DEF Bases

LEMMA PrecededNatural ==
    ASSUME NEW table \in [Bases -> Nat], NEW kind \in Kinds, NEW seq \in Bases, NEW from
    PROVE  Preceded(table, kind, seq, from) \in [Bases -> Nat]
  <1> DEFINE result == Preceded(table, kind, seq, from)
  <1>1. ASSUME NEW s \in Bases PROVE result[s] \in Nat
    <2>1. table[s] \in Nat /\ table[None] \in Nat /\ table[seq] \in Nat
      BY NoneIsBase
    <2> HIDE DEF result
    <2> QED
      BY <2>1, PrecededIs DEF result, Larger
  <1>2. result = [s \in Bases |-> result[s]]
    BY DEF Preceded
  <1> HIDE DEF result
  <1>3. result \in [Bases -> Nat]
    BY <1>1, <1>2
  <1> QED
    BY <1>3 DEF result

\* Reading a message first leaves a table even, and changes it by no more than
\* one alarm either way.
LEMMA PrecededEven ==
    ASSUME NEW table \in Tables, NEW kind \in Kinds, NEW seq \in Bases, NEW from
    PROVE  /\ Preceded(table, kind, seq, from) \in Tables
           /\ \A s \in Bases :
                /\ Preceded(table, kind, seq, from)[s] <= table[s] + 1
                /\ table[s] <= Preceded(table, kind, seq, from)[s] + 1
                /\ table[None] <= Preceded(table, kind, seq, from)[s]
  <1> DEFINE result == Preceded(table, kind, seq, from)
  <1>1. /\ table \in [Bases -> Nat] /\ None \in Bases
        /\ \A s \in Bases : table[None] <= table[s] /\ table[s] <= table[None] + 1
    BY NoneIsBase DEF Tables, IsEven
  <1>2. result \in [Bases -> Nat]
    BY <1>1, PrecededNatural
  <1>3. \A s \in Bases : result[s] =
               IF kind = "undecodable" THEN table[s]
               ELSE IF kind = "repeat" THEN 1 + (IF s = seq THEN table[s] ELSE table[None])
               ELSE IF kind = "altered" THEN 1 + table[None]
               ELSE IF kind = "anchor" THEN Larger(table[s], table[seq])
               ELSE IF s = None THEN table[None]
               ELSE IF s \in from THEN table[seq]
               ELSE 1 + table[None]
    BY PrecededIs
  <1> HIDE DEF result
  <1>4. ASSUME NEW s \in Bases
        PROVE  /\ result[None] <= result[s] /\ result[s] <= result[None] + 1
               /\ result[s] <= table[s] + 1 /\ table[s] <= result[s] + 1
               /\ table[None] <= result[s]
    <2>1. /\ table[s] \in Nat /\ table[None] \in Nat /\ table[seq] \in Nat
          /\ table[None] <= table[s] /\ table[s] <= table[None] + 1
          /\ table[None] <= table[seq] /\ table[seq] <= table[None] + 1
      BY <1>1
    <2>2. CASE kind \in {"undecodable", "altered", "repeat"}
      BY <1>1, <1>3, <2>1, <2>2
    <2>3. CASE kind = "anchor"
      BY <1>1, <1>3, <2>1, <2>3 DEF Larger
    <2>4. CASE kind = "update"
      BY <1>1, <1>3, <2>1, <2>4
    <2> QED
      BY <2>2, <2>3, <2>4 DEF Kinds
  <1>5. result \in Tables
    BY <1>2, <1>4 DEF Tables, IsEven
  <1> QED
    BY <1>4, <1>5 DEF result

\* It is monotonic, ...
LEMMA PrecededMonotonic ==
    ASSUME NEW a \in [Bases -> Nat], NEW b \in [Bases -> Nat],
           \A s \in Bases : a[s] <= b[s],
           NEW kind \in Kinds, NEW seq \in Bases, NEW from, NEW s \in Bases
    PROVE  Preceded(a, kind, seq, from)[s] <= Preceded(b, kind, seq, from)[s]
  <1>1. /\ a[s] \in Nat /\ b[s] \in Nat /\ a[None] \in Nat /\ b[None] \in Nat
        /\ a[seq] \in Nat /\ b[seq] \in Nat
        /\ a[s] <= b[s] /\ a[None] <= b[None] /\ a[seq] <= b[seq]
    BY NoneIsBase
  <1> QED
    BY <1>1, PrecededIs DEF Larger

\* ... and commutes with raising the whole table.
Raised(table, n) == [s \in Bases |-> table[s] + n]

LEMMA RaisedTable ==
    ASSUME NEW table \in Tables, NEW n \in Nat
    PROVE  Raised(table, n) \in Tables
  <1>1. table \in [Bases -> Nat] /\ IsEven(table)
    BY DEF Tables
  <1>2. Raised(table, n) \in [Bases -> Nat]
    BY <1>1 DEF Raised
  <1>3. IsEven(Raised(table, n))
    BY <1>1, NoneIsBase DEF IsEven, Raised
  <1> QED
    BY <1>2, <1>3 DEF Tables

LEMMA PrecededRaised ==
    ASSUME NEW table \in [Bases -> Nat], NEW n \in Nat,
           NEW kind \in Kinds, NEW seq \in Bases, NEW from, NEW s \in Bases
    PROVE  Preceded(Raised(table, n), kind, seq, from)[s]
               = Preceded(table, kind, seq, from)[s] + n
  <1>1. /\ Raised(table, n)[s] = table[s] + n
        /\ Raised(table, n)[seq] = table[seq] + n
        /\ Raised(table, n)[None] = table[None] + n
        /\ table[s] \in Nat /\ table[seq] \in Nat /\ table[None] \in Nat
    BY NoneIsBase DEF Raised
  <1>2. CASE kind = "anchor"
    BY <1>1, <1>2, PrecededIs DEF Larger
  <1>3. CASE kind # "anchor"
    BY <1>1, <1>3, PrecededIs
  <1> QED
    BY <1>2, <1>3

\* Two messages that change places cost at most one alarm more.
LEMMA PrecededSwapped ==
    ASSUME NEW table \in Tables,
           NEW kind \in Kinds, NEW seq \in Bases, NEW from,
           NEW kind2 \in Kinds, NEW seq2 \in Bases, NEW from2, NEW s \in Bases
    PROVE  Preceded(Preceded(table, kind, seq, from), kind2, seq2, from2)[s]
               <= Preceded(Preceded(table, kind2, seq2, from2), kind, seq, from)[s] + 1
  <1> DEFINE one == Preceded(table, kind, seq, from)
             other == Preceded(table, kind2, seq2, from2)
             both == Preceded(other, kind, seq, from)
  <1> SUFFICES Preceded(one, kind2, seq2, from2)[s] <= both[s] + 1
    OBVIOUS
  <1>1. one \in Tables /\ other \in Tables /\ both \in Tables
    BY PrecededEven
  <1>2. /\ None \in Bases /\ table \in [Bases -> Nat]
        /\ one \in [Bases -> Nat] /\ other \in [Bases -> Nat] /\ both \in [Bases -> Nat]
    BY <1>1, NoneIsBase DEF Tables
  <1>3. \A x \in Bases : /\ one[None] <= one[x] /\ one[x] <= one[None] + 1
                        /\ both[None] <= both[x] /\ both[x] <= both[None] + 1
                        /\ table[None] <= table[x] /\ table[x] <= table[None] + 1
    BY <1>1 DEF Tables, IsEven
  <1>4. ASSUME \A x \in Bases : table[x] <= other[x]
        PROVE  \A x \in Bases : one[x] <= both[x]
    BY <1>2, <1>4, PrecededMonotonic
  <1>5. /\ one[s] \in Nat /\ one[None] \in Nat /\ one[seq2] \in Nat
        /\ both[s] \in Nat /\ both[None] \in Nat
        /\ table[None] \in Nat /\ table[seq] \in Nat /\ table[seq2] \in Nat /\ table[s] \in Nat
        /\ one[None] <= one[s] /\ one[s] <= one[None] + 1
        /\ one[None] <= one[seq2] /\ one[seq2] <= one[None] + 1
        /\ both[None] <= both[s]
    BY <1>2, <1>3
  <1>6. \A x \in Bases : other[x] =
               IF kind2 = "undecodable" THEN table[x]
               ELSE IF kind2 = "repeat" THEN 1 + (IF x = seq2 THEN table[x] ELSE table[None])
               ELSE IF kind2 = "altered" THEN 1 + table[None]
               ELSE IF kind2 = "anchor" THEN Larger(table[x], table[seq2])
               ELSE IF x = None THEN table[None]
               ELSE IF x \in from2 THEN table[seq2]
               ELSE 1 + table[None]
    BY PrecededIs
  <1>7. Preceded(one, kind2, seq2, from2)[s] =
               IF kind2 = "undecodable" THEN one[s]
               ELSE IF kind2 = "repeat" THEN 1 + (IF s = seq2 THEN one[s] ELSE one[None])
               ELSE IF kind2 = "altered" THEN 1 + one[None]
               ELSE IF kind2 = "anchor" THEN Larger(one[s], one[seq2])
               ELSE IF s = None THEN one[None]
               ELSE IF s \in from2 THEN one[seq2]
               ELSE 1 + one[None]
    BY PrecededIs
  <1>8. both[s] =
               IF kind = "undecodable" THEN other[s]
               ELSE IF kind = "repeat" THEN 1 + (IF s = seq THEN other[s] ELSE other[None])
               ELSE IF kind = "altered" THEN 1 + other[None]
               ELSE IF kind = "anchor" THEN Larger(other[s], other[seq])
               ELSE IF s = None THEN other[None]
               ELSE IF s \in from THEN other[seq]
               ELSE 1 + other[None]
    BY PrecededIs
  <1>9. \A x \in Bases : one[x] =
               IF kind = "undecodable" THEN table[x]
               ELSE IF kind = "repeat" THEN 1 + (IF x = seq THEN table[x] ELSE table[None])
               ELSE IF kind = "altered" THEN 1 + table[None]
               ELSE IF kind = "anchor" THEN Larger(table[x], table[seq])
               ELSE IF x = None THEN table[None]
               ELSE IF x \in from THEN table[seq]
               ELSE 1 + table[None]
    BY PrecededIs
  <1> HIDE DEF one, other, both
  <1>10. CASE kind2 = "undecodable"
    <2>1. \A x \in Bases : table[x] <= other[x]
      BY <1>2, <1>6, <1>10
    <2> QED
      BY <1>4, <1>5, <1>7, <1>10, <2>1
  <1>11. CASE kind2 = "repeat"
    <2>1. ASSUME NEW x \in Bases PROVE table[x] <= other[x]
      <3>1. table[x] \in Nat /\ table[x] <= table[None] + 1
        BY <1>2, <1>3
      <3> QED
        BY <1>5, <1>6, <1>11, <3>1
    <2>2. one[s] <= both[s] /\ one[None] <= both[None]
      BY <1>2, <1>4, <2>1
    <2> QED
      BY <1>5, <1>7, <1>11, <2>2
  <1>12. CASE kind2 = "altered"
    <2>1. ASSUME NEW x \in Bases PROVE table[x] <= other[x]
      <3>1. table[x] \in Nat /\ table[x] <= table[None] + 1
        BY <1>2, <1>3
      <3> QED
        BY <1>5, <1>6, <1>12, <3>1
    <2>2. one[None] <= both[None]
      BY <1>2, <1>4, <2>1
    <2> QED
      BY <1>5, <1>7, <1>12, <2>2
  <1>13. CASE kind2 = "anchor"
    <2>1. ASSUME NEW x \in Bases PROVE table[x] <= other[x]
      <3>1. table[x] \in Nat
        BY <1>2
      <3> QED
        BY <1>5, <1>6, <1>13, <3>1 DEF Larger
    <2>2. one[s] <= both[s] /\ one[None] <= both[None]
      BY <1>2, <1>4, <2>1
    <2> QED
      BY <1>5, <1>7, <1>13, <2>2 DEF Larger
  <1>14. CASE kind2 = "update"
    <2>1. ASSUME kind # "anchor" PROVE one[None] <= both[None]
      <3>1. both[None] =
               IF kind = "undecodable" THEN other[None]
               ELSE IF kind = "repeat" THEN 1 + (IF None = seq THEN other[None] ELSE other[None])
               ELSE IF kind = "altered" THEN 1 + other[None]
               ELSE other[None]
        BY <1>2, <2>1, PrecededIs DEF both
      <3> QED
        BY <1>2, <1>5, <1>6, <1>9, <1>14, <2>1, <3>1
    <2>2. CASE kind # "anchor"
      BY <1>5, <1>7, <1>14, <2>1, <2>2
    <2>3. CASE kind = "anchor"
      <3>1. /\ other[s] \in Nat /\ other[None] \in Nat /\ other[seq] \in Nat
            /\ table[seq] <= table[None] + 1 /\ table[None] <= table[seq]
            /\ table[None] <= table[s] /\ table[s] <= table[None] + 1
        BY <1>2, <1>3
      <3>2. /\ one[s] <= table[None] + 1 /\ one[None] <= table[seq]
            /\ one[seq2] <= table[None] + 1
        BY <1>2, <1>3, <1>9, <2>3, <3>1 DEF Larger
      <3>3. /\ both[s] = Larger(other[s], other[seq])
            /\ table[None] <= both[s]
        <4>1. table[None] <= other[s]
          <5>1. /\ other[s] \in {table[None], table[seq2], 1 + table[None]}
                /\ table[None] <= table[seq2]
            BY <1>3, <1>6, <1>14
          <5> QED
            BY <1>5, <5>1
        <4>2. both[s] = Larger(other[s], other[seq])
          BY <1>8, <2>3
        <4>3. Larger(other[s], other[seq]) >= other[s]
          BY <3>1 DEF Larger
        <4> QED
          BY <1>5, <3>1, <4>1, <4>2, <4>3
      <3>4. CASE s = None \/ s \in from2
        BY <1>5, <1>7, <1>14, <3>1, <3>2, <3>3, <3>4
      <3>5. CASE ~(s = None \/ s \in from2)
        <4>1. other[s] = 1 + table[None]
          BY <1>6, <1>14, <3>5
        <4>2. both[s] >= 1 + table[None]
          BY <3>1, <3>3, <4>1 DEF Larger
        <4> QED
          BY <1>5, <1>7, <1>14, <3>1, <3>2, <3>5, <4>2
      <3> QED
        BY <3>4, <3>5
    <2> QED
      BY <2>2, <2>3
  <1> QED
    BY <1>10, <1>11, <1>12, <1>13, <1>14 DEF Kinds

\* Whatever is done to a message costs at most one alarm more, as long as it
\* makes a repetition of none but a message under the same seqIds ...
LEMMA PrecededDamaged ==
    ASSUME NEW table \in Tables,
           NEW kind \in Kinds, NEW seq \in Bases, NEW from,
           NEW kind2 \in Kinds, NEW seq2 \in Bases, NEW from2, NEW s \in Bases,
           kind2 = "repeat" => /\ seq2 = seq /\ seq # None
                               /\ \/ kind \in {"repeat", "altered"}
                                  \/ kind = "update" /\ seq \in from
    PROVE  Preceded(table, kind2, seq2, from2)[s] <= Preceded(table, kind, seq, from)[s] + 1
  <1> DEFINE one == Preceded(table, kind, seq, from)
             other == Preceded(table, kind2, seq2, from2)
  <1>1. one \in Tables /\ other \in Tables /\ table[None] <= one[s]
    BY PrecededEven
  <1>2. /\ one[s] \in Nat /\ other[s] \in Nat
        /\ table[s] \in Nat /\ table[None] \in Nat /\ table[seq] \in Nat /\ table[seq2] \in Nat
        /\ table[s] <= table[None] + 1 /\ table[seq2] <= table[None] + 1
    BY <1>1, NoneIsBase DEF Tables, IsEven
  <1>3. CASE kind2 # "repeat"
    <2>1. other[s] <= table[None] + 1
      BY <1>2, <1>3, PrecededIs DEF Larger
    <2> QED
      BY <1>1, <1>2, <2>1
  <1>4. CASE kind2 = "repeat"
    <2>1. other[s] = 1 + (IF s = seq THEN table[s] ELSE table[None])
      BY <1>4, PrecededIs
    <2>2. CASE s = seq
      <3>1. one[s] \in {1 + table[s], 1 + table[None], table[s]}
        BY <1>4, <2>2, PrecededIs
      <3> QED
        BY <1>2, <2>1, <2>2, <3>1
    <2>3. CASE s # seq
      BY <1>1, <1>2, <2>1, <2>3
    <2> QED
      BY <2>2, <2>3
  <1> QED
    BY <1>3, <1>4

\* ... and what turns out to be no alteration costs nothing.
LEMMA PrecededBetter ==
    ASSUME NEW table \in Tables, NEW kind \in Kinds, NEW seq \in Bases, NEW from,
           kind # "repeat", NEW s \in Bases
    PROVE  Preceded(table, kind, seq, from)[s] <= Preceded(table, "altered", seq, from)[s]
  <1>1. /\ table[s] \in Nat /\ table[None] \in Nat /\ table[seq] \in Nat
        /\ table[s] <= table[None] + 1 /\ table[seq] <= table[None] + 1
    BY NoneIsBase DEF Tables, IsEven
  <1> QED
    BY <1>1, PrecededIs DEF Larger

-----------------------------------------------------------------------------
(* Messages. *)

IsRepeat(m) == m.type = "Delta" /\ m.prevSequence = {m.sequence} /\ HasLevels(m)

Kind(m, books) ==
    IF m.status # "Ok" THEN "undecodable"
    ELSE IF IsRepeat(m) THEN "repeat"
    ELSE IF ~Honest(m, books) THEN "altered"
    ELSE IF AnchoringSnapshot(m) THEN "anchor"
    ELSE "update"

LeadsFrom(m) == {s \in SeqIds : m.type = "Delta" /\ m.prevSequence = {s}}

\* The alarms that m and then what table is about raise, for every base.
Reading(table, m, books) == Preceded(table, Kind(m, books), m.sequence, LeadsFrom(m))

\* A client at an old version of the venue's is due to raise an alarm.
AtTheEnd(books) == [s \in Bases |-> IF s \in {None, SeqId[Len(books)]} THEN 0 ELSE 1]

\* tables[i] bounds the alarms that the messages from the i-th on raise.
Bounds(tables, messages, books) ==
    /\ tables \in [1..Len(messages) + 1 -> Tables]
    /\ \A i \in 1..Len(messages) : \A s \in Bases :
            Reading(tables[i + 1], messages[i], books)[s] <= tables[i][s]
    /\ \A s \in Bases : AtTheEnd(books)[s] <= tables[Len(messages) + 1][s]

LEMMA KindIsKind ==
    ASSUME NEW m \in Message, NEW books
    PROVE  Kind(m, books) \in Kinds /\ m.sequence \in Bases /\ m.sequence # None
  <1>1. m.sequence \in SeqIds
    BY DEF Message
  <1>2. -1 \notin SeqIds
    BY SeqIdsAreUnique DEF SeqIds
  <1> QED
    BY <1>1, <1>2 DEF Kind, Kinds, Bases, None

LEMMA EndIsTable ==
    ASSUME NEW books
    PROVE  AtTheEnd(books) \in Tables
  BY NoneIsBase DEF AtTheEnd, Tables, IsEven

\* What the venue's history grows by turns no message into an alteration.
LEMMA ReadingPersists ==
    ASSUME NEW m \in Message, NEW books \in Seq(Content), NEW longer,
           \/ longer = books
           \/ \E next : longer = Append(books, next),
           NEW table \in Tables, NEW s \in Bases
    PROVE  Reading(table, m, longer)[s] <= Reading(table, m, books)[s]
  <1>1. Honest(m, books) => Honest(m, longer)
    BY HonestPersists
  <1>2. Kind(m, longer) = Kind(m, books) \/ (Kind(m, books) = "altered" /\ Kind(m, longer) # "repeat")
    BY <1>1 DEF Kind
  <1>3. CASE Kind(m, longer) = Kind(m, books)
    <2>1. Preceded(table, Kind(m, books), m.sequence, LeadsFrom(m)) \in [Bases -> Nat]
      BY KindIsKind, PrecededEven DEF Tables
    <2> QED
      BY <1>3, <2>1 DEF Reading
  <1>4. CASE Kind(m, books) = "altered" /\ Kind(m, longer) # "repeat"
    BY <1>4, KindIsKind, PrecededBetter DEF Reading
  <1> QED
    BY <1>2, <1>3, <1>4

-----------------------------------------------------------------------------
(***************************************************************************)
(* What becomes of a wire's tables when the wire changes.                  *)
(***************************************************************************)

LEMMA ReadingTable ==
    ASSUME NEW table \in Tables, NEW m \in Message, NEW books
    PROVE  /\ Reading(table, m, books) \in Tables
           /\ \A s \in Bases : /\ Reading(table, m, books)[s] \in Nat
                               /\ table[s] \in Nat
                               /\ Reading(table, m, books)[s] <= table[s] + 1
                               /\ table[s] <= Reading(table, m, books)[s] + 1
                               /\ table[None] <= Reading(table, m, books)[s]
  <1> DEFINE kind == Kind(m, books)
             result == Preceded(table, kind, m.sequence, LeadsFrom(m))
  <1>1. kind \in Kinds /\ m.sequence \in Bases
    BY KindIsKind
  <1> HIDE DEF kind
  <1>2. /\ result \in Tables
        /\ \A s \in Bases : /\ result[s] <= table[s] + 1
                            /\ table[s] <= result[s] + 1
                            /\ table[None] <= result[s]
    BY <1>1, PrecededEven
  <1>3. result \in [Bases -> Nat] /\ table \in [Bases -> Nat]
    BY <1>2 DEF Tables
  <1> HIDE DEF result
  <1>4. Reading(table, m, books) = result
    BY DEF Reading, kind, result
  <1> QED
    BY <1>2, <1>3, <1>4

LEMMA ReadingMonotonic ==
    ASSUME NEW a \in Tables, NEW b \in Tables, \A s \in Bases : a[s] <= b[s],
           NEW m \in Message, NEW books, NEW s \in Bases
    PROVE  Reading(a, m, books)[s] <= Reading(b, m, books)[s]
  <1>1. a \in [Bases -> Nat] /\ b \in [Bases -> Nat]
    BY DEF Tables
  <1>2. Kind(m, books) \in Kinds /\ m.sequence \in Bases
    BY KindIsKind
  <1> QED
    BY <1>1, <1>2, PrecededMonotonic DEF Reading

LEMMA ReadingRaised ==
    ASSUME NEW table \in Tables, NEW n \in Nat, NEW m \in Message, NEW books, NEW s \in Bases
    PROVE  Reading(Raised(table, n), m, books)[s] = Reading(table, m, books)[s] + n
  <1>1. table \in [Bases -> Nat]
    BY DEF Tables
  <1>2. Kind(m, books) \in Kinds /\ m.sequence \in Bases
    BY KindIsKind
  <1> QED
    BY <1>1, <1>2, PrecededRaised DEF Reading

LEMMA RaisedAt ==
    ASSUME NEW table \in Tables, NEW n \in Nat
    PROVE  /\ Raised(table, n) \in Tables
           /\ \A s \in Bases : Raised(table, n)[s] = table[s] + n
           /\ \A s \in Bases : table[s] \in Nat
  BY RaisedTable DEF Raised, Tables

\* A message is sent: what it may raise is added to what all those before it
\* may raise, whatever the venue's books become.
LEMMA AppendBounds ==
    ASSUME wire \in Seq(Message), history \in Seq(Content),
           NEW t, Bounds(t, wire, history),
           NEW longer, longer = history \/ \E next : longer = Append(history, next),
           NEW m \in Message, NEW e \in Nat,
           \A s \in Bases :
              Reading(AtTheEnd(longer), m, longer)[s] <= AtTheEnd(history)[s] + e
    PROVE  \E u : /\ Bounds(u, Append(wire, m), longer)
                  /\ \A s \in Bases : u[1][s] <= t[1][s] + e
  <1> DEFINE n == Len(wire)
             end == AtTheEnd(longer)
             u == [i \in 1..(n + 2) |-> IF i <= n + 1 THEN Raised(t[i], e) ELSE end]
             w == Append(wire, m)
  <1>1. /\ n \in Nat
        /\ Len(w) = n + 1 /\ w[n + 1] = m
        /\ \A i \in 1..n : w[i] = wire[i] /\ wire[i] \in Message
    OBVIOUS
  <1>2. /\ \A i \in 1..(n + 1) : t[i] \in Tables
        /\ \A i \in 1..n : \A s \in Bases : Reading(t[i + 1], wire[i], history)[s] <= t[i][s]
        /\ \A s \in Bases : AtTheEnd(history)[s] <= t[n + 1][s]
    BY DEF Bounds
  <1>3. end \in Tables /\ AtTheEnd(history) \in Tables
    BY EndIsTable
  <1>4. /\ u \in [1..(n + 2) -> Tables]
        /\ \A i \in 1..(n + 1) : u[i] = Raised(t[i], e)
        /\ u[n + 2] = end
    BY <1>1, <1>2, <1>3, RaisedTable
  <1> HIDE DEF u, w, n
  <1>5. ASSUME NEW i \in 1..n, NEW s \in Bases
        PROVE  Reading(u[i + 1], w[i], longer)[s] <= u[i][s]
    <2>1. i \in 1..(n + 1) /\ i + 1 \in 1..(n + 1)
      BY <1>1
    <2>2. /\ u[i] = Raised(t[i], e) /\ u[i + 1] = Raised(t[i + 1], e)
          /\ t[i] \in Tables /\ t[i + 1] \in Tables
          /\ w[i] = wire[i] /\ wire[i] \in Message
      BY <1>1, <1>2, <1>4, <2>1
    <2>3. Reading(u[i + 1], w[i], longer)[s] = Reading(t[i + 1], wire[i], longer)[s] + e
      BY <2>2, ReadingRaised
    <2>4. Reading(t[i + 1], wire[i], longer)[s] <= Reading(t[i + 1], wire[i], history)[s]
      BY <2>2, ReadingPersists
    <2>5. Reading(t[i + 1], wire[i], history)[s] <= t[i][s]
      BY <1>2
    <2>6. /\ Reading(t[i + 1], wire[i], longer)[s] \in Nat
          /\ Reading(t[i + 1], wire[i], history)[s] \in Nat
      BY <2>2, ReadingTable
    <2>7. t[i][s] \in Nat /\ Raised(t[i], e)[s] = t[i][s] + e
      BY <2>2, RaisedAt
    <2> QED
      BY <2>2, <2>3, <2>4, <2>5, <2>6, <2>7
  <1>6. ASSUME NEW s \in Bases PROVE Reading(end, m, longer)[s] <= u[n + 1][s]
    <2>1. n + 1 \in 1..(n + 1)
      BY <1>1
    <2>2. t[n + 1] \in Tables /\ u[n + 1] = Raised(t[n + 1], e)
      BY <1>2, <1>4, <2>1
    <2>3. u[n + 1][s] = t[n + 1][s] + e /\ t[n + 1][s] \in Nat
      BY <2>2, RaisedAt
    <2>4. Reading(end, m, longer)[s] \in Nat /\ AtTheEnd(history)[s] \in Nat
      BY <1>3, ReadingTable DEF Tables
    <2>5. /\ Reading(end, m, longer)[s] <= AtTheEnd(history)[s] + e
          /\ AtTheEnd(history)[s] <= t[n + 1][s]
      BY <1>2
    <2> QED
      BY <2>3, <2>4, <2>5
  <1> HIDE DEF end
  <1>7. ASSUME NEW i \in 1..Len(w), NEW s \in Bases
        PROVE  Reading(u[i + 1], w[i], longer)[s] <= u[i][s]
    <2>1. i \in 1..n \/ i = n + 1
      BY <1>1
    <2>2. ASSUME i = n + 1
          PROVE  u[i + 1] = end /\ w[i] = m
      BY <1>1, <1>4, <2>2
    <2> QED
      BY <1>5, <1>6, <2>1, <2>2
  <1>8. ASSUME NEW s \in Bases PROVE AtTheEnd(longer)[s] <= u[Len(w) + 1][s]
    <2>1. u[Len(w) + 1] = AtTheEnd(longer)
      BY <1>1, <1>4 DEF end
    <2>2. AtTheEnd(longer)[s] \in Nat
      BY <1>3 DEF Tables, end
    <2> QED
      BY <2>1, <2>2
  <1>9. Bounds(u, w, longer)
    BY <1>1, <1>4, <1>7, <1>8 DEF Bounds
  <1>10. ASSUME NEW s \in Bases PROVE u[1][s] <= t[1][s] + e
    <2>1. 1 \in 1..(n + 1)
      BY <1>1
    <2>2. u[1][s] = t[1][s] + e /\ t[1][s] \in Nat
      BY <1>2, <1>4, <2>1, RaisedAt
    <2> QED
      BY <2>2
  <1> QED
    BY <1>9, <1>10 DEF w

\* A message is damaged in flight.
LEMMA DamageBounds ==
    ASSUME wire \in Seq(Message), NEW t, Bounds(t, wire, history),
           NEW k \in 1..Len(wire), NEW m \in Message,
           \A table \in Tables, s \in Bases :
              Reading(table, m, history)[s] <= Reading(table, wire[k], history)[s] + 1
    PROVE  \E u : /\ Bounds(u, [wire EXCEPT ![k] = m], history)
                  /\ \A s \in Bases : u[1][s] <= t[1][s] + 1
  <1> DEFINE n == Len(wire)
             u == [i \in 1..(n + 1) |-> IF i <= k THEN Raised(t[i], 1) ELSE t[i]]
             w == [wire EXCEPT ![k] = m]
  <1>1. /\ n \in Nat /\ k \in 1..n
        /\ Len(w) = n /\ w[k] = m
        /\ \A i \in 1..n : wire[i] \in Message /\ (i # k => w[i] = wire[i])
    OBVIOUS
  <1>2. /\ \A i \in 1..(n + 1) : t[i] \in Tables
        /\ \A i \in 1..n : \A s \in Bases : Reading(t[i + 1], wire[i], history)[s] <= t[i][s]
        /\ \A s \in Bases : AtTheEnd(history)[s] <= t[n + 1][s]
    BY DEF Bounds
  <1>3. /\ u \in [1..(n + 1) -> Tables]
        /\ \A i \in 1..(n + 1) : u[i] = IF i <= k THEN Raised(t[i], 1) ELSE t[i]
    BY <1>1, <1>2, RaisedTable
  <1> HIDE DEF u, w, n
  <1>4. ASSUME NEW i \in 1..n, NEW s \in Bases
        PROVE  Reading(u[i + 1], w[i], history)[s] <= u[i][s]
    <2>1. i \in 1..(n + 1) /\ i + 1 \in 1..(n + 1) /\ i \in Int /\ k \in Int
      BY <1>1
    <2>2. t[i] \in Tables /\ t[i + 1] \in Tables /\ wire[i] \in Message
      BY <1>1, <1>2, <2>1
    <2>3. /\ Reading(t[i + 1], wire[i], history)[s] <= t[i][s]
          /\ Reading(t[i + 1], wire[i], history)[s] \in Nat
          /\ t[i][s] \in Nat
          /\ Raised(t[i], 1)[s] = t[i][s] + 1
      BY <1>2, <2>2, ReadingTable, RaisedAt
    <2>4. CASE i < k
      <3>1. u[i] = Raised(t[i], 1) /\ u[i + 1] = Raised(t[i + 1], 1) /\ w[i] = wire[i]
        BY <1>1, <1>3, <2>1, <2>4
      <3>2. Reading(u[i + 1], w[i], history)[s] = Reading(t[i + 1], wire[i], history)[s] + 1
        BY <2>2, <3>1, ReadingRaised
      <3> QED
        BY <2>3, <3>1, <3>2
    <2>5. CASE i = k
      <3>1. u[i] = Raised(t[i], 1) /\ u[i + 1] = t[i + 1] /\ w[i] = m
        BY <1>1, <1>3, <2>1, <2>5
      <3>2. /\ Reading(t[i + 1], m, history)[s] <= Reading(t[i + 1], wire[i], history)[s] + 1
            /\ Reading(t[i + 1], m, history)[s] \in Nat
        BY <2>2, <2>5, ReadingTable
      <3> QED
        BY <2>3, <3>1, <3>2
    <2>6. CASE i > k
      <3>1. u[i] = t[i] /\ u[i + 1] = t[i + 1] /\ w[i] = wire[i]
        BY <1>1, <1>3, <2>1, <2>6
      <3> QED
        BY <2>3, <3>1
    <2> QED
      BY <2>1, <2>4, <2>5, <2>6
  <1>5. ASSUME NEW s \in Bases PROVE AtTheEnd(history)[s] <= u[n + 1][s]
    <2>1. u[n + 1] = t[n + 1]
      BY <1>1, <1>3
    <2> QED
      BY <1>2, <2>1
  <1>6. Bounds(u, w, history)
    BY <1>1, <1>3, <1>4, <1>5 DEF Bounds
  <1>7. ASSUME NEW s \in Bases PROVE u[1][s] <= t[1][s] + 1
    <2>1. 1 \in 1..(n + 1) /\ 1 <= k
      BY <1>1
    <2>2. u[1] = Raised(t[1], 1) /\ t[1] \in Tables
      BY <1>2, <1>3, <2>1
    <2>3. Raised(t[1], 1)[s] = t[1][s] + 1 /\ t[1][s] \in Nat
      BY <2>2, RaisedAt
    <2> QED
      BY <2>2, <2>3
  <1> QED
    BY <1>6, <1>7 DEF w

\* Two messages change places.
LEMMA ReorderBounds ==
    ASSUME wire \in Seq(Message), NEW t, Bounds(t, wire, history),
           NEW k \in 1..Len(wire), k + 1 \in 1..Len(wire)
    PROVE  \E u : /\ Bounds(u, [wire EXCEPT ![k] = wire[k + 1], ![k + 1] = wire[k]], history)
                  /\ \A s \in Bases : u[1][s] <= t[1][s] + 1
  <1> DEFINE n == Len(wire)
             between == Reading(t[k + 2], wire[k], history)
             u == [i \in 1..(n + 1) |-> IF i <= k THEN Raised(t[i], 1)
                                        ELSE IF i = k + 1 THEN between
                                        ELSE t[i]]
             w == [wire EXCEPT ![k] = wire[k + 1], ![k + 1] = wire[k]]
  <1>1. /\ n \in Nat /\ k \in 1..n /\ k + 1 \in 1..n
        /\ Len(w) = n /\ w[k] = wire[k + 1] /\ w[k + 1] = wire[k]
        /\ \A i \in 1..n : wire[i] \in Message /\ (i # k /\ i # k + 1 => w[i] = wire[i])
    OBVIOUS
  <1>2. /\ \A i \in 1..(n + 1) : t[i] \in Tables
        /\ \A i \in 1..n : \A s \in Bases : Reading(t[i + 1], wire[i], history)[s] <= t[i][s]
        /\ \A s \in Bases : AtTheEnd(history)[s] <= t[n + 1][s]
    BY DEF Bounds
  <1>3. /\ t[k] \in Tables /\ t[k + 1] \in Tables /\ t[k + 2] \in Tables
        /\ wire[k] \in Message /\ wire[k + 1] \in Message
        /\ between \in Tables
    <2>1. k \in 1..(n + 1) /\ k + 1 \in 1..(n + 1) /\ k + 2 \in 1..(n + 1)
      BY <1>1
    <2> QED
      BY <1>1, <1>2, <2>1, ReadingTable
  <1> HIDE DEF between
  <1>4. /\ u \in [1..(n + 1) -> Tables]
        /\ \A i \in 1..(n + 1) : u[i] = IF i <= k THEN Raised(t[i], 1)
                                        ELSE IF i = k + 1 THEN between
                                        ELSE t[i]
    BY <1>1, <1>2, <1>3, RaisedTable
  <1> HIDE DEF u, w, n
  <1>5. ASSUME NEW s \in Bases
        PROVE  Reading(between, wire[k + 1], history)[s] <= t[k][s] + 1
    <2> DEFINE other == Reading(t[k + 2], wire[k + 1], history)
    <2>1. other \in Tables
      BY <1>3, ReadingTable
    <2>2. Reading(between, wire[k + 1], history)[s] <= Reading(other, wire[k], history)[s] + 1
      <3>1. /\ Kind(wire[k], history) \in Kinds /\ wire[k].sequence \in Bases
            /\ Kind(wire[k + 1], history) \in Kinds /\ wire[k + 1].sequence \in Bases
        BY <1>3, KindIsKind
      <3> QED
        BY <1>3, <3>1, PrecededSwapped DEF Reading, between
    <2>3. Reading(other, wire[k], history)[s] <= Reading(t[k + 1], wire[k], history)[s]
      <3>1. ASSUME NEW x \in Bases PROVE other[x] <= t[k + 1][x]
        <4>1. (k + 1) + 1 = k + 2
          BY <1>1
        <4> QED
          BY <1>1, <1>2, <4>1
      <3> HIDE DEF other
      <3> QED
        BY <1>3, <2>1, <3>1, ReadingMonotonic
    <2>4. Reading(t[k + 1], wire[k], history)[s] <= t[k][s]
      BY <1>1, <1>2
    <2> HIDE DEF other
    <2>5. /\ Reading(between, wire[k + 1], history)[s] \in Nat
          /\ Reading(other, wire[k], history)[s] \in Nat
          /\ Reading(t[k + 1], wire[k], history)[s] \in Nat
          /\ t[k][s] \in Nat
      BY <1>3, <2>1, ReadingTable, RaisedAt
    <2> QED
      BY <2>2, <2>3, <2>4, <2>5
  <1>6. ASSUME NEW i \in 1..n, NEW s \in Bases
        PROVE  Reading(u[i + 1], w[i], history)[s] <= u[i][s]
    <2>1. i \in 1..(n + 1) /\ i + 1 \in 1..(n + 1) /\ i \in Int /\ k \in Int
      BY <1>1
    <2>2. t[i] \in Tables /\ t[i + 1] \in Tables /\ wire[i] \in Message
      BY <1>1, <1>2, <2>1
    <2>3. /\ Reading(t[i + 1], wire[i], history)[s] <= t[i][s]
          /\ Reading(t[i + 1], wire[i], history)[s] \in Nat
          /\ t[i][s] \in Nat
          /\ Raised(t[i], 1)[s] = t[i][s] + 1
      BY <1>2, <2>2, ReadingTable, RaisedAt
    <2>4. CASE i < k
      <3>1. u[i] = Raised(t[i], 1) /\ u[i + 1] = Raised(t[i + 1], 1) /\ w[i] = wire[i]
        BY <1>1, <1>4, <2>1, <2>4
      <3>2. Reading(u[i + 1], w[i], history)[s] = Reading(t[i + 1], wire[i], history)[s] + 1
        BY <2>2, <3>1, ReadingRaised
      <3> QED
        BY <2>3, <3>1, <3>2
    <2>5. CASE i = k
      <3>1. u[i] = Raised(t[i], 1) /\ u[i + 1] = between /\ w[i] = wire[k + 1]
        BY <1>1, <1>4, <2>1, <2>5
      <3> QED
        BY <1>5, <2>3, <2>5, <3>1
    <2>6. CASE i = k + 1
      <3>1. u[i] = between /\ u[i + 1] = t[k + 2] /\ w[i] = wire[k]
        BY <1>1, <1>4, <2>1, <2>6
      <3>2. between[s] \in Nat
        BY <1>3 DEF Tables
      <3> QED
        BY <3>1, <3>2 DEF between
    <2>7. CASE i > k + 1
      <3>1. u[i] = t[i] /\ u[i + 1] = t[i + 1] /\ w[i] = wire[i]
        BY <1>1, <1>4, <2>1, <2>7
      <3> QED
        BY <2>3, <3>1
    <2> QED
      BY <2>1, <2>4, <2>5, <2>6, <2>7
  <1>7. ASSUME NEW s \in Bases PROVE AtTheEnd(history)[s] <= u[n + 1][s]
    <2>1. u[n + 1] = t[n + 1]
      BY <1>1, <1>4
    <2> QED
      BY <1>2, <2>1
  <1>8. Bounds(u, w, history)
    BY <1>1, <1>4, <1>6, <1>7 DEF Bounds
  <1>9. ASSUME NEW s \in Bases PROVE u[1][s] <= t[1][s] + 1
    <2>1. 1 \in 1..(n + 1) /\ 1 <= k
      BY <1>1
    <2>2. u[1] = Raised(t[1], 1) /\ t[1] \in Tables
      BY <1>2, <1>4, <2>1
    <2>3. Raised(t[1], 1)[s] = t[1][s] + 1 /\ t[1][s] \in Nat
      BY <2>2, RaisedAt
    <2> QED
      BY <2>2, <2>3
  <1> QED
    BY <1>8, <1>9 DEF w

\* The first message leaves the wire, read or lost.
LEMMA TailBounds ==
    ASSUME wire \in Seq(Message), wire # <<>>, NEW t, Bounds(t, wire, history)
    PROVE  \E u : /\ Bounds(u, Tail(wire), history)
                  /\ u[1] \in Tables /\ t[1] \in Tables
                  /\ \A s \in Bases : Reading(u[1], wire[1], history)[s] <= t[1][s]
  <1> DEFINE n == Len(wire)
             u == [i \in 1..n |-> t[i + 1]]
             w == Tail(wire)
  <1>1. /\ n \in Nat /\ n >= 1 /\ Len(w) + 1 = n
        /\ \A i \in 1..Len(w) : w[i] = wire[i + 1] /\ i + 1 \in 1..n
    OBVIOUS
  <1>2. /\ \A i \in 1..(n + 1) : t[i] \in Tables
        /\ \A i \in 1..n : \A s \in Bases : Reading(t[i + 1], wire[i], history)[s] <= t[i][s]
        /\ \A s \in Bases : AtTheEnd(history)[s] <= t[n + 1][s]
    BY DEF Bounds
  <1>3. /\ u \in [1..n -> Tables]
        /\ \A i \in 1..n : u[i] = t[i + 1]
    <2>1. \A i \in 1..n : i + 1 \in 1..(n + 1)
      BY <1>1
    <2> QED
      BY <1>2, <2>1
  <1> HIDE DEF u, w, n
  <1>4. ASSUME NEW i \in 1..Len(w), NEW s \in Bases
        PROVE  Reading(u[i + 1], w[i], history)[s] <= u[i][s]
    <2>1. i \in 1..n /\ i + 1 \in 1..n
      BY <1>1
    <2>2. u[i + 1] = t[(i + 1) + 1] /\ u[i] = t[i + 1] /\ w[i] = wire[i + 1]
      BY <1>1, <1>3, <2>1
    <2> QED
      BY <1>2, <2>1, <2>2
  <1>5. ASSUME NEW s \in Bases PROVE AtTheEnd(history)[s] <= u[n][s]
    BY <1>1, <1>2, <1>3
  <1>6. Bounds(u, w, history)
    BY <1>1, <1>3, <1>4, <1>5 DEF Bounds
  <1>7. u[1] = t[1 + 1] /\ 1 \in 1..n /\ 1 \in 1..(n + 1)
    BY <1>1, <1>3
  <1>8. \A s \in Bases : Reading(u[1], wire[1], history)[s] <= t[1][s]
    BY <1>2, <1>7
  <1> QED
    BY <1>2, <1>3, <1>6, <1>7, <1>8 DEF w

-----------------------------------------------------------------------------
(***************************************************************************)
(* What the venue sends, and what is done to it on the way.                *)
(***************************************************************************)

\* What the venue sends in order costs nothing.
LEMMA SnapshotReads ==
    ASSUME TypeOK, NEW s \in Bases
    PROVE  Reading(AtTheEnd(history), SnapshotMessage, history)[s] <= AtTheEnd(history)[s]
  <1> DEFINE m == SnapshotMessage
             end == AtTheEnd(history)
  <1>1. /\ m.status = "Ok" /\ m.type = "Snapshot" /\ m.prevSequence = {-1}
        /\ m.sequence = SeqId[Latest]
    BY DEF SnapshotMessage
  <1>2. Honest(m, history)
    BY SnapshotIsHonest
  <1>3. m \in Message
    BY SnapshotMessageType DEF TypeOK
  <1> HIDE DEF m
  <1>4. Kind(m, history) = "anchor"
    BY <1>1, <1>2 DEF Kind, IsRepeat, AnchoringSnapshot
  <1>5. m.sequence \in Bases /\ end \in Tables
    BY <1>3, KindIsKind, EndIsTable
  <1>6. end[m.sequence] = 0 /\ end[s] \in Nat
    BY <1>1, <1>5 DEF AtTheEnd, Latest
  <1>7. Reading(end, m, history)[s] = Larger(end[s], end[m.sequence])
    BY <1>4, PrecededIs DEF Reading
  <1> HIDE DEF end
  <1>8. Reading(end, m, history)[s] <= end[s]
    BY <1>6, <1>7 DEF Larger
  <1> QED
    BY <1>8 DEF m, end

LEMMA DeltaReads ==
    ASSUME TypeOK, NEW books, NEW m \in Message, m.status = "Ok", m.type = "Delta",
           Honest(m, books), ~IsRepeat(m),
           m.prevSequence = {SeqId[Latest]}, m.sequence = SeqId[Len(books)],
           NEW s \in Bases
    PROVE  Reading(AtTheEnd(books), m, books)[s] <= AtTheEnd(history)[s]
  <1> DEFINE end == AtTheEnd(books)
  <1>1. Kind(m, books) = "update"
    BY DEF Kind, AnchoringSnapshot
  <1>2. m.sequence \in Bases /\ None \in Bases
    BY KindIsKind, NoneIsBase
  <1>3. end[m.sequence] = 0 /\ end[None] = 0
    BY <1>2 DEF AtTheEnd
  <1>4. SeqId[Latest] \in SeqIds
    BY VenueAssumption DEF TypeOK, Latest, SeqIds
  <1>5. s = SeqId[Latest] <=> s \in LeadsFrom(m)
    BY <1>4 DEF LeadsFrom
  <1>6. Reading(end, m, books)[s] = IF s = None THEN end[None]
                                    ELSE IF s \in LeadsFrom(m) THEN end[m.sequence]
                                    ELSE 1 + end[None]
    BY <1>1, PrecededIs DEF Reading
  <1> HIDE DEF end
  <1>7. Reading(end, m, books)[s] = IF s = None \/ s = SeqId[Latest] THEN 0 ELSE 1
    BY <1>3, <1>5, <1>6
  <1>8. AtTheEnd(history)[s] = IF s = None \/ s = SeqId[Latest] THEN 0 ELSE 1
    BY DEF AtTheEnd, Latest
  <1> QED
    BY <1>7, <1>8 DEF end

\* Damage costs at most one alarm more.
LEMMA DamageReads ==
    ASSUME NEW m \in Message, NEW n \in Message, NEW books,
           n.status = "Ok" /\ IsRepeat(n) =>
              /\ n.sequence = m.sequence /\ n.prevSequence = m.prevSequence
              /\ n.type = m.type /\ n.status = m.status,
           NEW table \in Tables, NEW s \in Bases
    PROVE  Reading(table, n, books)[s] <= Reading(table, m, books)[s] + 1
  <1>1. /\ Kind(m, books) \in Kinds /\ m.sequence \in Bases /\ m.sequence # None
        /\ Kind(n, books) \in Kinds /\ n.sequence \in Bases
    BY KindIsKind
  <1>2. ASSUME Kind(n, books) = "repeat"
        PROVE  /\ n.sequence = m.sequence
               /\ \/ Kind(m, books) \in {"repeat", "altered"}
                  \/ Kind(m, books) = "update" /\ m.sequence \in LeadsFrom(m)
    <2>1. n.status = "Ok" /\ IsRepeat(n)
      BY <1>2 DEF Kind
    <2>2. /\ m.status = "Ok" /\ m.type = "Delta" /\ m.prevSequence = {m.sequence}
          /\ n.sequence = m.sequence
      BY <2>1 DEF IsRepeat
    <2>3. Kind(m, books) \in {"repeat", "altered", "update"}
      BY <2>2 DEF Kind, AnchoringSnapshot
    <2>4. m.sequence \in LeadsFrom(m)
      BY <2>2 DEF LeadsFrom, Message
    <2> QED
      BY <2>2, <2>3, <2>4
  <1> QED
    BY <1>1, <1>2, PrecededDamaged DEF Reading

-----------------------------------------------------------------------------
(***************************************************************************)
(* The invariant.                                                          *)
(***************************************************************************)

\* Messages are handled after the reset that comes with Connected.
Base ==
    IF link = "up" /\ callback # "opened" /\ validator.hasBaseline
    THEN validator.lastSeqId
    ELSE None

\* The client's copy has gone wrong without an alarm, which a message altered
\* on the way can bring about.
Tainted == Base # None /\ ~ \E v \in Versions : AtVersion(v)

\* The alarms still to come, given a table.
Worth(table) == IF Tainted THEN table[None] + 1 ELSE table[Base]

\* A venue that does not stream has sent nothing.
Streaming == wire # <<>> \/ Base # None => subscribed

WithinBudget ==
    \E t : Bounds(t, wire, history) /\ Alarms + Worth(t[1]) <= disturbances

BudgetInv ==
    /\ TypeOK
    /\ Policy = "SequenceAndChecksum" => ChecksumInv
    /\ Streaming
    /\ WithinBudget

LEMMA BaseIsBase ==
    ASSUME TypeOK
    PROVE  Base \in Bases
  BY NoneIsBase DEF TypeOK, Base, Bases

LEMMA AlarmsType ==
    ASSUME TypeOK
    PROVE  Alarms \in Nat /\ disturbances \in Nat
  <1>1. health \in HealthType
    BY DEF TypeOK, HealthType
  <1> QED
    BY <1>1, VenueAssumption DEF HealthType, Alarms, TypeOK

\* While the client does nothing, a table may grow by what a disturbance
\* allows for.
LEMMA BudgetKept ==
    ASSUME TypeOK, TypeOK',
           NEW t, Bounds(t, wire, history), Alarms + Worth(t[1]) <= disturbances,
           NEW u, Bounds(u, wire', history'),
           NEW e \in Nat, \A s \in Bases : u[1][s] <= t[1][s] + e,
           Alarms' = Alarms, Base' = Base, Tainted' => Tainted,
           disturbances + e <= disturbances'
    PROVE  WithinBudget'
  <1>1. t[1] \in Tables /\ u[1] \in Tables
    <2>1. 1 \in 1..(Len(wire) + 1) /\ 1 \in 1..(Len(wire') + 1)
      <3>1. wire \in Seq(Message) /\ wire' \in Seq(Message)
        BY DEF TypeOK
      <3> QED
        BY <3>1
    <2> QED
      BY <2>1 DEF Bounds
  <1>2. Base \in Bases /\ None \in Bases
    BY BaseIsBase, NoneIsBase
  <1>3. /\ t[1][Base] \in Nat /\ t[1][None] \in Nat
        /\ u[1][Base] \in Nat /\ u[1][None] \in Nat
        /\ u[1][Base] <= u[1][None] + 1
        /\ u[1][Base] <= t[1][Base] + e /\ u[1][None] <= t[1][None] + e
    BY <1>1, <1>2 DEF Tables, IsEven
  <1>4. /\ Worth(t[1]) = IF Tainted THEN t[1][None] + 1 ELSE t[1][Base]
        /\ Worth(u[1])' = IF Tainted' THEN u[1][None] + 1 ELSE u[1][Base]
    BY DEF Worth
  <1>5. Worth(u[1])' <= Worth(t[1]) + e /\ Worth(t[1]) \in Nat /\ Worth(u[1])' \in Nat
    BY <1>3, <1>4
  <1>6. Alarms \in Nat /\ disturbances \in Nat /\ disturbances' \in Nat
    BY AlarmsType, VenueAssumption DEF TypeOK
  <1>7. Alarms' + Worth(u[1])' <= disturbances'
    BY <1>5, <1>6
  <1> QED
    BY <1>7 DEF WithinBudget

LEMMA TaintedPersists ==
    ASSUME TypeOK, UNCHANGED <<book, validator>>, Base' = Base,
           \/ history' = history
           \/ \E next : history' = Append(history, next)
    PROVE  Tainted' => Tainted
  <1>1. ASSUME NEW v \in Versions, AtVersion(v) PROVE v \in Versions' /\ AtVersion(v)'
    BY <1>1, HistoryGrows DEF Versions, Latest, AtVersion, ContentOf
  <1> QED
    BY <1>1 DEF Tainted

-----------------------------------------------------------------------------
(***************************************************************************)
(* Reading a message.                                                      *)
(***************************************************************************)

\* What is read costs what the table says.
LEMMA HandleFrameBudget ==
    ASSUME Mode = "OkxSequenced", TypeOK, link = "up", callback = "idle",
           NEW m \in Message, handleFrame(m), UNCHANGED <<link, history>>,
           Policy = "SequenceAndChecksum" => CheckedBy(m, history),
           NEW table \in Tables
    PROVE  Alarms' + Worth(table)' <= Alarms + Worth(Reading(table, m, history))
  <1> DEFINE read == Reading(table, m, history)
  <1>0. /\ health \in HealthType
        /\ validator \in ValidatorType
        /\ validator.hasBaseline => validator.lastSeqId \in SeqIds
    BY DEF TypeOK, HealthType, ValidatorType
  <1>1. /\ Base = IF validator.hasBaseline THEN validator.lastSeqId ELSE None
        /\ Base' = IF validator'.hasBaseline THEN validator'.lastSeqId ELSE None
        /\ Base \in Bases /\ None \in Bases
        /\ m.sequence \in Bases /\ m.sequence # None
        /\ validator.hasBaseline => Base # None
    <2>1. callback' \in {"idle", "resubscribe"}
      BY HandleFrameState
    <2>2. None \notin SeqIds
      BY SeqIdsAreNaturals DEF None
    <2> QED
      BY <1>0, <2>1, <2>2, BaseIsBase, NoneIsBase, KindIsKind DEF Base
  <1>2. /\ table[None] \in Nat /\ table[Base] \in Nat /\ table[m.sequence] \in Nat
        /\ table[None] <= table[Base] /\ table[Base] <= table[None] + 1
        /\ table[None] <= table[m.sequence] /\ table[m.sequence] <= table[None] + 1
        /\ read[None] \in Nat /\ read[Base] \in Nat
        /\ table[None] <= read[None] /\ table[None] <= read[Base]
    BY <1>1, ReadingTable DEF Tables, IsEven
  <1>3. \A s \in Bases : read[s] =
               IF Kind(m, history) = "undecodable" THEN table[s]
               ELSE IF Kind(m, history) = "repeat"
                    THEN 1 + (IF s = m.sequence THEN table[s] ELSE table[None])
               ELSE IF Kind(m, history) = "altered" THEN 1 + table[None]
               ELSE IF Kind(m, history) = "anchor" THEN Larger(table[s], table[m.sequence])
               ELSE IF s = None THEN table[None]
               ELSE IF s \in LeadsFrom(m) THEN table[m.sequence]
               ELSE 1 + table[None]
    BY PrecededIs DEF Reading
  <1> HIDE DEF read
  <1>4. /\ Worth(read) = IF Tainted THEN read[None] + 1 ELSE read[Base]
        /\ Worth(table)' = IF Tainted' THEN table[None] + 1 ELSE table[Base']
    BY DEF Worth
  <1>5. Alarms \in Nat
    BY AlarmsType
  <1> DEFINE bound == Alarms + Worth(read)
             cost == Alarms' + Worth(table)'
  <1> SUFFICES cost <= bound
    BY DEF read
  <1>6. CASE HandleMalformed(m)
    <2>1. UNCHANGED <<book, validator>> /\ Alarms' = Alarms /\ m.status # "Ok"
      BY <1>0, <1>6 DEF HandleMalformed, pipeline, HealthType, Alarms
    <2>2. Base' = Base
      BY <1>1, <2>1
    <2>3. Tainted' => Tainted
      BY <2>1, <2>2, TaintedPersists
    <2>4. read[None] = table[None] /\ read[Base] = table[Base]
      BY <1>1, <1>3, <2>1 DEF Kind
    <2> QED
      BY <1>2, <1>4, <1>5, <2>1, <2>2, <2>3, <2>4
  <1>7. CASE HandleStale(m)
    <2>1. UNCHANGED <<book, validator>> /\ Alarms' = Alarms + 1
      BY <1>0, <1>7 DEF HandleStale, pipeline, HealthType, Alarms
    <2>2. /\ m.status = "Ok" /\ Connects(validator, m) /\ RepeatsWithLevels(validator, m)
      BY <1>7 DEF HandleStale, verdict
    <2>3. Kind(m, history) = "repeat" /\ Base = m.sequence
      BY <1>1, <2>2 DEF Kind, IsRepeat, Connects, RepeatsWithLevels
    <2>4. Base' = Base
      BY <1>1, <2>1
    <2>5. Tainted' => Tainted
      BY <2>1, <2>4, TaintedPersists
    <2>6. read[None] = 1 + table[None] /\ read[Base] = 1 + table[Base]
      BY <1>1, <1>3, <2>3
    <2> QED
      BY <1>2, <1>4, <1>5, <2>1, <2>4, <2>5, <2>6
  <1>8. ASSUME ~Tainted, m.status = "Ok", Kind(m, history) \in {"anchor", "update"}
        PROVE  /\ Honest(m, history) /\ ~IsRepeat(m)
               /\ validator.hasBaseline => \E v \in Versions : AtVersion(v)
               /\ Kind(m, history) = "anchor" <=> AnchoringSnapshot(m)
    <2>1. Honest(m, history) /\ ~IsRepeat(m)
      BY <1>8 DEF Kind
    <2>2. Kind(m, history) = IF AnchoringSnapshot(m) THEN "anchor" ELSE "update"
      BY <1>8, <2>1 DEF Kind
    <2>3. validator.hasBaseline => \E v \in Versions : AtVersion(v)
      BY <1>1, <1>8 DEF Tainted
    <2> QED
      BY <2>1, <2>2, <2>3
  <1>9. CASE HandleGap(m) \/ HandleMismatch(m)
    <2>1. ~validator'.hasBaseline /\ m.status = "Ok"
      BY <1>9 DEF HandleGap, HandleMismatch, reset
    <2>2. Worth(table)' = table[None]
      <3>1. Base' = None
        BY <1>1, <2>1
      <3>2. ~Tainted'
        BY <3>1 DEF Tainted
      <3> QED
        BY <1>4, <3>1, <3>2
    <2>3. \/ Alarms' = Alarms
          \/ /\ Alarms' = Alarms + 1
             /\ HandleMismatch(m) \/ (HandleGap(m) /\ validator.hasBaseline)
      <3>1. CASE HandleGap(m)
        BY <1>0, <3>1 DEF HandleGap, HealthType, Alarms
      <3>2. CASE HandleMismatch(m)
        <4>1. Alarms' = Alarms + 1
          BY <1>0, <3>2 DEF HandleMismatch, HealthType, Alarms
        <4> QED
          BY <3>2, <4>1
      <3> QED
        BY <1>9, <3>1, <3>2
    <2>4. CASE Alarms' = Alarms \/ Tainted
      BY <1>2, <1>4, <1>5, <2>2, <2>3, <2>4
    <2>5. CASE Alarms' = Alarms + 1 /\ ~Tainted
      <3>1. read[Base] >= 1 + table[None]
        <4>1. Kind(m, history) \in {"repeat", "altered", "anchor", "update"}
          BY <2>1 DEF Kind
        <4>2. CASE Kind(m, history) \in {"repeat", "altered"}
          BY <1>1, <1>2, <1>3, <4>2
        <4>3. CASE Kind(m, history) \in {"anchor", "update"}
          <5>1. ~HandleMismatch(m)
            BY <1>8, <2>1, <2>5, <4>3, AcceptedIsTrue DEF HandleMismatch
          <5>2. verdict(validator, m) = "GapResync" /\ validator.hasBaseline
            BY <1>5, <2>3, <2>5, <5>1 DEF HandleGap
          <5>3. ~AnchoringSnapshot(m) /\ ~Connects(validator, m)
            BY <5>2 DEF verdict
          <5>4. Kind(m, history) = "update"
            BY <1>8, <2>1, <2>5, <4>3, <5>3
          <5>5. Base # None /\ Base \notin LeadsFrom(m)
            BY <1>1, <5>2, <5>3 DEF Connects, LeadsFrom
          <5> QED
            BY <1>1, <1>2, <1>3, <5>4, <5>5
        <4> QED
          BY <4>1, <4>2, <4>3
      <3> QED
        BY <1>2, <1>4, <1>5, <2>2, <2>5, <3>1
    <2> QED
      BY <2>3, <2>4, <2>5
  <1>10. CASE HandleAccepted(m)
    <2>1. /\ m.status = "Ok" /\ verdict(validator, m) = "Accept"
          /\ book' = Applied(m) /\ validator' = Accepting(validator, m)
          /\ Alarms' = Alarms
      BY <1>0, <1>10 DEF HandleAccepted, HealthType, Alarms
    <2>2. Base' = m.sequence /\ validator'.lastSeqId = m.sequence
      BY <1>1, <2>1, AcceptedBaseline
    <2>3. Worth(table)' = IF Tainted' THEN table[None] + 1 ELSE table[m.sequence]
      BY <1>4, <2>2
    <2>4. CASE Tainted
      BY <1>2, <1>4, <1>5, <2>1, <2>3, <2>4
    <2>5. CASE ~Tainted
      <3>1. Kind(m, history) \in {"repeat", "altered", "anchor", "update"}
        BY <2>1 DEF Kind
      <3>2. CASE Kind(m, history) \in {"repeat", "altered"}
        <4>1. read[Base] >= 1 + table[None]
          BY <1>1, <1>2, <1>3, <3>2
        <4> QED
          BY <1>2, <1>4, <1>5, <2>1, <2>3, <2>5, <4>1
      <3>3. CASE Kind(m, history) \in {"anchor", "update"}
        <4>1. PICK v \in Versions : /\ m.sequence = SeqId[v]
                                    /\ ContentOf(Applied(m)) = history[v]
          BY <1>8, <2>1, <2>5, <3>3, AcceptedIsTrue
        <4>2. v \in Versions' /\ AtVersion(v)'
          BY <2>1, <2>2, <4>1 DEF Versions, Latest, AtVersion, ContentOf
        <4>3. ~Tainted'
          BY <4>2 DEF Tainted
        <4>4. read[Base] >= table[m.sequence]
          <5>1. CASE Kind(m, history) = "anchor"
            <6>1. read[Base] = Larger(table[Base], table[m.sequence])
              BY <1>1, <1>3, <5>1
            <6> QED
              BY <1>2, <6>1 DEF Larger
          <5>2. CASE Kind(m, history) = "update"
            <6>1. Connects(validator, m)
              BY <1>8, <2>1, <2>5, <5>2 DEF verdict
            <6>2. Base # None /\ Base \in LeadsFrom(m)
              BY <1>0, <1>1, <6>1 DEF Connects, LeadsFrom
            <6>3. read[Base] = table[m.sequence]
              BY <1>1, <1>3, <5>2, <6>2
            <6> QED
              BY <1>2, <6>3
          <5> QED
            BY <3>3, <5>1, <5>2
        <4> QED
          BY <1>2, <1>4, <1>5, <2>1, <2>3, <2>5, <4>3, <4>4
      <3> QED
        BY <3>1, <3>2, <3>3
    <2> QED
      BY <2>4, <2>5
  <1> QED
    BY <1>6, <1>7, <1>9, <1>10 DEF handleFrame

-----------------------------------------------------------------------------
(***************************************************************************)
(* Every step stays within the budget.                                     *)
(***************************************************************************)

\* A step that neither reads nor touches the wire.
LEMMA QuietBudget ==
    ASSUME BudgetInv, TypeOK', UNCHANGED <<book, validator, wire, history>>,
           Alarms' = Alarms, Base' = Base,
           disturbances <= disturbances', subscribed => subscribed'
    PROVE  Streaming' /\ WithinBudget'
  <1>1. PICK t : Bounds(t, wire, history) /\ Alarms + Worth(t[1]) <= disturbances
    BY DEF BudgetInv, WithinBudget
  <1>2. TypeOK /\ Streaming
    BY DEF BudgetInv
  <1>3. Bounds(t, wire', history')
    BY <1>1
  <1>4. \A s \in Bases : t[1][s] <= t[1][s] + 0
    <2>1. 1 \in 1..(Len(wire) + 1)
      <3>1. wire \in Seq(Message)
        BY <1>2 DEF TypeOK
      <3> QED
        BY <3>1
    <2>2. t[1] \in Tables
      BY <1>1, <2>1 DEF Bounds
    <2>3. \A s \in Bases : t[1][s] \in Nat
      BY <2>2 DEF Tables
    <2> QED
      BY <2>3
  <1>5. Tainted' => Tainted
    BY <1>2, TaintedPersists
  <1>6. disturbances + 0 <= disturbances'
    BY <1>2, AlarmsType
  <1>7. 0 \in Nat
    OBVIOUS
  <1>8. WithinBudget'
    BY <1>1, <1>2, <1>3, <1>4, <1>5, <1>6, <1>7, BudgetKept
  <1>9. Streaming'
    BY <1>2 DEF Streaming
  <1> QED
    BY <1>8, <1>9

LEMMA HostBudget ==
    ASSUME BudgetInv, TypeOK', HostStep \/ TimePasses \/ Terminated \/ UNCHANGED vars
    PROVE  Streaming' /\ WithinBudget'
  <1>0. health \in HealthType /\ disturbances \in Nat
    BY AlarmsType DEF BudgetInv, TypeOK, HealthType
  <1> USE DEF clientVars, connection, pipeline, venueVars
  <1>1. UNCHANGED <<book, validator, wire, history, callback, disturbances, subscribed>>
    BY DEF HostStep, Start, Stop, TickReconnect, TickStale, Connect, HandleConnecting,
           Disconnected, TimePasses, Elapse, Terminated, vars
  <1>2. \/ link' = link
        \/ link # "up" /\ link' # "up"
    BY DEF HostStep, Start, Stop, TickReconnect, TickStale, Connect, HandleConnecting,
           Disconnected, TimePasses, Elapse, Terminated, vars
  <1>3. \/ health' = health
        \/ \E s : health' = [health EXCEPT !.state = s]
        \/ health' = [health EXCEPT !.stale = TRUE]
    BY DEF HostStep, Start, Stop, TickReconnect, TickStale, Connect, HandleConnecting,
           Disconnected, TimePasses, Elapse, Terminated, vars
  <1>4. Alarms' = Alarms
    BY <1>0, <1>3 DEF Alarms, HealthType
  <1>5. Base' = Base
    BY <1>1, <1>2 DEF Base
  <1> QED
    BY <1>0, <1>1, <1>4, <1>5, QuietBudget

\* Nothing is in flight on a session that ends, and it has no base.
LEMMA SessionBudget ==
    ASSUME BudgetInv, TypeOK',
           Open \/ Refuse \/ Close \/ StopSocket \/ Abandon \/ EmitConnected
                \/ EmitDisconnected \/ Resubscribe
    PROVE  Streaming' /\ WithinBudget'
  <1>0. /\ health \in HealthType /\ TypeOK
        /\ disturbances \in Nat /\ Alarms \in Nat
    BY AlarmsType DEF BudgetInv, TypeOK, HealthType
  <1> USE DEF clientVars, connection, pipeline, venueVars
  <1>1. CASE Open \/ Resubscribe \/ Abandon
    <2>1. UNCHANGED <<book, validator, health, wire, history, disturbances, subscribed>>
      BY <1>1 DEF Open, Resubscribe, Abandon
    <2>2. Base' = Base
      BY <1>1 DEF Open, Resubscribe, Abandon, Base
    <2>3. Alarms' = Alarms
      BY <2>1 DEF Alarms
    <2> QED
      BY <1>0, <2>1, <2>2, <2>3, QuietBudget
  <1>2. CASE EmitDisconnected
    <2>1. UNCHANGED <<book, validator, wire, history, disturbances, subscribed>>
      BY <1>2 DEF EmitDisconnected, HandleDisconnected
    <2>2. Base' = Base
      BY <1>2 DEF EmitDisconnected, HandleDisconnected, Base
    <2>3. Alarms' = Alarms
      BY <1>0, <1>2 DEF EmitDisconnected, HandleDisconnected, Alarms, HealthType
    <2> QED
      BY <1>0, <2>1, <2>2, <2>3, QuietBudget
  <1>3. CASE Refuse \/ Close \/ StopSocket
    <2>1. /\ wire' = <<>> /\ link' = "down"
          /\ UNCHANGED <<health, history>>
      BY <1>3 DEF Refuse, Close, StopSocket, EndSession
    <2>2. disturbances <= disturbances' /\ disturbances' \in Nat
      BY <1>0, <1>3 DEF Refuse, Close, StopSocket, Disturb
    <2>3. Base' = None
      BY <2>1 DEF Base
    <2>4. Alarms' = Alarms
      BY <2>1 DEF Alarms
    <2>0. PICK end \in Tables : end = AtTheEnd(history')
      BY EndIsTable
    <2> DEFINE u == [i \in 1..1 |-> end]
    <2>5. u \in [1..1 -> Tables] /\ u[1] = end
      OBVIOUS
    <2>6. end[None] = 0 /\ \A s \in Bases : end[s] \in Nat
      BY <2>0, NoneIsBase DEF AtTheEnd
    <2> HIDE DEF u
    <2>7. Bounds(u, wire', history')
      <3>1. Len(wire') = 0 /\ 1..(Len(wire') + 1) = 1..1 /\ 1..Len(wire') = {}
        BY <2>1
      <3>2. \A s \in Bases : AtTheEnd(history')[s] <= u[Len(wire') + 1][s]
        BY <2>0, <2>5, <2>6, <3>1
      <3> QED
        BY <2>5, <3>1, <3>2 DEF Bounds
    <2>8. Worth(u[1])' = 0
      BY <2>3, <2>5, <2>6 DEF Worth, Tainted
    <2>9. \E t : Alarms + Worth(t[1]) <= disturbances /\ Worth(t[1]) \in Nat
      <3>1. PICK t : Bounds(t, wire, history) /\ Alarms + Worth(t[1]) <= disturbances
        BY DEF BudgetInv, WithinBudget
      <3>2. wire \in Seq(Message)
        BY <1>0 DEF TypeOK
      <3>3. 1 \in 1..(Len(wire) + 1)
        BY <3>2
      <3>4. t[1] \in [Bases -> Nat]
        BY <3>1, <3>3 DEF Bounds, Tables
      <3>5. Worth(t[1]) \in Nat
        BY <1>0, <3>4, BaseIsBase, NoneIsBase DEF Worth
      <3> QED
        BY <3>1, <3>5
    <2>10. Alarms' + Worth(u[1])' <= disturbances'
      BY <1>0, <2>2, <2>4, <2>8, <2>9
    <2>11. WithinBudget'
      BY <2>7, <2>10 DEF WithinBudget
    <2>12. Streaming'
      BY <2>1, <2>3 DEF Streaming
    <2> QED
      BY <2>11, <2>12
  <1>4. CASE EmitConnected
    <2>1. UNCHANGED <<wire, history, disturbances, subscribed>>
      BY <1>4 DEF EmitConnected
    <2>2. callback = "opened" /\ ~validator'.hasBaseline
      BY <1>4 DEF EmitConnected, HandleConnected, resetPipelineLocked, reset
    <2>3. Base = None /\ Base' = None
      BY <2>2 DEF Base
    <2>4. Alarms' = Alarms
      BY <1>0, <1>4 DEF EmitConnected, HandleConnected, Alarms, HealthType
    <2>5. PICK t : Bounds(t, wire, history) /\ Alarms + Worth(t[1]) <= disturbances
      BY DEF BudgetInv, WithinBudget
    <2>6. Worth(t[1])' = Worth(t[1])
      BY <2>3 DEF Worth, Tainted
    <2>7. WithinBudget'
      BY <2>1, <2>4, <2>5, <2>6 DEF WithinBudget
    <2>8. Streaming'
      BY <2>1, <2>3 DEF BudgetInv, Streaming
    <2> QED
      BY <2>7, <2>8
  <1> QED
    BY <1>1, <1>2, <1>3, <1>4

LEMMA DeliverBudget ==
    ASSUME Mode = "OkxSequenced", BudgetInv, TypeOK', Deliver
    PROVE  Streaming' /\ WithinBudget'
  <1>1. /\ wire \in Seq(Message) /\ wire # <<>> /\ wire' = Tail(wire)
        /\ UNCHANGED <<link, subscribed, history, disturbances>>
        /\ link = "up" /\ callback = "idle" /\ handleFrame(Head(wire))
    BY DEF BudgetInv, TypeOK, Deliver, handleFrame
  <1>2. 1 \in 1..Len(wire) /\ Head(wire) = wire[1] /\ wire[1] \in Message
    BY <1>1
  <1>3. PICK t : Bounds(t, wire, history) /\ Alarms + Worth(t[1]) <= disturbances
    BY DEF BudgetInv, WithinBudget
  <1>4. PICK u : /\ Bounds(u, Tail(wire), history)
                 /\ u[1] \in Tables /\ t[1] \in Tables
                 /\ \A s \in Bases : Reading(u[1], wire[1], history)[s] <= t[1][s]
    BY <1>1, <1>3, TailBounds
  <1>5. TypeOK /\ (Policy = "SequenceAndChecksum" => CheckedBy(wire[1], history))
    BY <1>2 DEF BudgetInv, ChecksumInv, AllChecked
  <1> DEFINE read == Reading(u[1], wire[1], history)
  <1>6. Alarms' + Worth(u[1])' <= Alarms + Worth(read)
    BY <1>1, <1>2, <1>4, <1>5, HandleFrameBudget
  <1>7. read \in Tables
    BY <1>2, <1>4, ReadingTable
  <1>8. \A s \in Bases : read[s] <= t[1][s]
    BY <1>4
  <1> HIDE DEF read
  <1>9. Worth(read) <= Worth(t[1]) /\ Worth(read) \in Nat /\ Worth(t[1]) \in Nat
    <2>1. Base \in Bases /\ None \in Bases
      BY <1>5, BaseIsBase, NoneIsBase
    <2>2. /\ read[Base] \in Nat /\ read[None] \in Nat
          /\ t[1][Base] \in Nat /\ t[1][None] \in Nat
          /\ read[Base] <= t[1][Base] /\ read[None] <= t[1][None]
      BY <1>4, <1>7, <1>8, <2>1 DEF Tables
    <2> QED
      BY <2>2 DEF Worth
  <1>10. Worth(u[1])' \in Nat
    <2>1. Base' \in Bases /\ None \in Bases
      BY NoneIsBase DEF TypeOK, Base, Bases
    <2>2. u[1] \in [Bases -> Nat]
      BY <1>4 DEF Tables
    <2> QED
      BY <2>1, <2>2 DEF Worth
  <1>11. /\ Alarms \in Nat /\ Alarms' \in Nat /\ disturbances \in Nat
    <2>1. Alarms \in Nat /\ disturbances \in Nat
      BY <1>5, AlarmsType
    <2>2. Alarms' \in Nat
      <3>1. health' \in HealthType
        BY DEF TypeOK, HealthType
      <3> QED
        BY <3>1 DEF HealthType, Alarms
    <2> QED
      BY <2>1, <2>2
  <1>12. Alarms' + Worth(u[1])' <= disturbances'
    BY <1>1, <1>3, <1>6, <1>9, <1>10, <1>11
  <1>13. WithinBudget'
    BY <1>1, <1>4, <1>12 DEF WithinBudget
  <1>14. Streaming'
    BY <1>1 DEF BudgetInv, Streaming
  <1> QED
    BY <1>13, <1>14

\* Steps of the venue and the network leave the client where it is.
LEMMA ClientStays ==
    ASSUME TypeOK, UNCHANGED <<clientVars, link>>,
           \/ history' = history
           \/ \E next : history' = Append(history, next)
    PROVE  /\ Alarms' = Alarms /\ Base' = Base
           /\ Tainted' => Tainted
  <1>1. UNCHANGED <<book, validator, health, callback>>
    BY DEF clientVars, pipeline
  <1>2. Alarms' = Alarms /\ Base' = Base
    BY <1>1 DEF Alarms, Base
  <1> QED
    BY <1>1, <1>2, TaintedPersists

\* A message is sent, or a copy of one.
LEMMA SendBudget ==
    ASSUME BudgetInv, TypeOK', UNCHANGED <<clientVars, link>>, subscribed',
           \/ history' = history
           \/ \E next : history' = Append(history, next),
           NEW m \in Message, wire' = Append(wire, m),
           NEW e \in Nat, disturbances + e <= disturbances',
           \A s \in Bases :
              Reading(AtTheEnd(history'), m, history')[s] <= AtTheEnd(history)[s] + e
    PROVE  Streaming' /\ WithinBudget'
  <1>1. TypeOK /\ wire \in Seq(Message) /\ history \in Seq(Content)
    BY DEF BudgetInv, TypeOK
  <1>2. PICK t : Bounds(t, wire, history) /\ Alarms + Worth(t[1]) <= disturbances
    BY DEF BudgetInv, WithinBudget
  <1>3. PICK longer : longer = history'
    OBVIOUS
  <1>4. \E u : /\ Bounds(u, Append(wire, m), longer)
               /\ \A s \in Bases : u[1][s] <= t[1][s] + e
    BY <1>1, <1>2, <1>3, AppendBounds
  <1>5. PICK u : /\ Bounds(u, wire', history')
                 /\ \A s \in Bases : u[1][s] <= t[1][s] + e
    BY <1>3, <1>4
  <1>6. /\ Alarms' = Alarms /\ Base' = Base
        /\ Tainted' => Tainted
    BY <1>1, ClientStays
  <1>7. WithinBudget'
    BY <1>1, <1>2, <1>5, <1>6, BudgetKept
  <1> QED
    BY <1>7 DEF Streaming

LEMMA VenueBudget ==
    ASSUME BudgetInv, TypeOK', VenueStep
    PROVE  Streaming' /\ WithinBudget'
  <1>1. /\ TypeOK /\ Streaming /\ wire \in Seq(Message) /\ history \in Seq(Content)
        /\ disturbances \in Nat /\ Alarms \in Nat
    BY AlarmsType DEF BudgetInv, TypeOK
  <1>2. /\ Latest \in 1..MaxVersion /\ Latest = Len(history)
        /\ Current \in Content /\ SeqId[Latest] \in SeqIds
    BY <1>1, CurrentType DEF TypeOK, Latest
  <1>3. \A s \in Bases : AtTheEnd(history)[s] \in Nat
    BY EndIsTable DEF Tables
  <1>4. CASE AnswerRequest
    <2>1. /\ UNCHANGED <<clientVars, link, history, disturbances>> /\ subscribed'
          /\ wire' = Append(wire, SnapshotMessage)
      BY <1>4 DEF AnswerRequest
    <2>2. SnapshotMessage \in Message
      BY <1>1, SnapshotMessageType DEF TypeOK
    <2>3. \A s \in Bases : Reading(AtTheEnd(history), SnapshotMessage, history)[s]
                             <= AtTheEnd(history)[s]
      BY <1>1, SnapshotReads
    <2>4. \A s \in Bases : Reading(AtTheEnd(history'), SnapshotMessage, history')[s]
                             <= AtTheEnd(history)[s] + 0
      BY <1>3, <2>1, <2>3
    <2>5. 0 \in Nat /\ disturbances + 0 <= disturbances'
      BY <1>1, <2>1
    <2> QED
      BY <2>1, <2>2, <2>4, <2>5, SendBudget
  <1>5. ASSUME NEW change \in Changes, Publish(change)
        PROVE  Streaming' /\ WithinBudget'
    <2> DEFINE next == [bids |-> applyLevels(Current.bids, change.bids),
                        asks |-> applyLevels(Current.asks, change.asks)]
               m == DeltaMessage(change, SeqId[Latest], SeqId[Latest + 1], next)
    <2>1. /\ UNCHANGED <<clientVars, link, subscribed, disturbances>>
          /\ Latest < MaxVersion /\ history' = Append(history, next)
          /\ wire' = IF subscribed THEN Append(wire, m) ELSE wire
      BY <1>5 DEF Publish
    <2>2. change \in [bids : Levels, asks : Levels] /\ next \in Content
      <3>1. change \in [bids : Levels, asks : Levels]
        BY VenueAssumption
      <3> QED
        BY <1>2, <3>1, ApplyLevelsType DEF Content
    <2>3. SeqId[Latest + 1] \in SeqIds /\ SeqId[Latest] # SeqId[Latest + 1]
      BY <1>2, <2>1, VenueAssumption, SeqIdsAreUnique DEF SeqIds
    <2>4. m \in Message
      BY <1>2, <2>2, <2>3, DeltaMessageType
    <2>5. Honest(m, history')
      BY <1>1, <2>1, DeltaIsHonest
    <2>6. /\ m.status = "Ok" /\ m.type = "Delta" /\ m.prevSequence = {SeqId[Latest]}
          /\ m.sequence = SeqId[Latest + 1]
      BY DEF DeltaMessage
    <2> HIDE DEF m, next
    <2>7. Len(history') = Latest + 1
      BY <1>1, <1>2, <2>1
    <2>8. CASE subscribed
      <3>1. ~IsRepeat(m)
        BY <2>3, <2>6 DEF IsRepeat
      <3>2. PICK books : books = history'
        OBVIOUS
      <3>3. \A s \in Bases : Reading(AtTheEnd(books), m, books)[s] <= AtTheEnd(history)[s]
        BY <1>1, <2>4, <2>5, <2>6, <2>7, <3>1, <3>2, DeltaReads
      <3>4. \A s \in Bases : Reading(AtTheEnd(books), m, books)[s] \in Nat
        BY <2>4, EndIsTable, ReadingTable
      <3>5. \A s \in Bases : Reading(AtTheEnd(history'), m, history')[s]
                               <= AtTheEnd(history)[s] + 0
        BY <1>3, <3>2, <3>3, <3>4
      <3>6. 0 \in Nat /\ disturbances + 0 <= disturbances'
        BY <1>1, <2>1
      <3> QED
        BY <2>1, <2>4, <2>8, <3>5, <3>6, SendBudget
    <2>9. CASE ~subscribed
      <3>1. wire = <<>> /\ wire' = <<>> /\ Base = None
        BY <1>1, <2>1, <2>9 DEF Streaming
      <3>2. /\ Alarms' = Alarms /\ Base' = None
        BY <1>1, <2>1, <3>1, ClientStays
      <3>3. PICK end \in Tables : end = AtTheEnd(history')
        BY EndIsTable
      <3> DEFINE u == [i \in 1..1 |-> end]
      <3>4. u \in [1..1 -> Tables] /\ u[1] = end
        OBVIOUS
      <3>5. end[None] = 0 /\ \A s \in Bases : end[s] \in Nat
        BY <3>3, NoneIsBase DEF AtTheEnd
      <3> HIDE DEF u
      <3>6. Bounds(u, wire', history')
        <4>1. Len(wire') = 0 /\ 1..(Len(wire') + 1) = 1..1 /\ 1..Len(wire') = {}
          BY <3>1
        <4>2. \A s \in Bases : AtTheEnd(history')[s] <= u[Len(wire') + 1][s]
          BY <3>3, <3>4, <3>5, <4>1
        <4> QED
          BY <3>4, <4>1, <4>2 DEF Bounds
      <3>7. Worth(u[1])' = 0
        BY <3>2, <3>4, <3>5 DEF Worth, Tainted
      <3>8. Alarms <= disturbances
        <4>1. PICK t : Bounds(t, wire, history) /\ Alarms + Worth(t[1]) <= disturbances
          BY DEF BudgetInv, WithinBudget
        <4>2. t[1] \in Tables
          BY <3>1, <4>1 DEF Bounds
        <4>3. Worth(t[1]) \in Nat
          BY <4>2, <3>1, NoneIsBase DEF Worth, Tainted, Tables
        <4> QED
          BY <1>1, <4>1, <4>3
      <3>9. Alarms' + Worth(u[1])' <= disturbances'
        BY <1>1, <2>1, <3>2, <3>7, <3>8
      <3>10. WithinBudget'
        BY <3>6, <3>9 DEF WithinBudget
      <3> QED
        BY <3>1, <3>2, <3>10 DEF Streaming
    <2> QED
      BY <2>8, <2>9
  <1>6. ASSUME NEW kind, NEW m \in Message, SendExtra(kind, m), NEW e \in 0..1,
               \A s \in Bases : Reading(AtTheEnd(history), m, history)[s]
                                  <= AtTheEnd(history)[s] + e
        PROVE  Streaming' /\ WithinBudget'
    <2>1. /\ UNCHANGED <<clientVars, link, history>> /\ subscribed'
          /\ wire' = Append(wire, m) /\ disturbances' = disturbances + 1
      BY <1>6 DEF SendExtra, Disturb
    <2>2. e \in Nat /\ disturbances + e <= disturbances'
      BY <1>1, <2>1
    <2> QED
      BY <1>6, <2>1, <2>2, SendBudget
  <1>7. CASE Keepalive
    <2>1. NoChange \in [bids : Levels, asks : Levels]
      BY EmptySideType DEF NoChange, EmptyContent
    <2>2. KeepaliveMessage \in Message
      BY <1>2, <2>1, DeltaMessageType DEF KeepaliveMessage
    <2>3. Honest(KeepaliveMessage, history)
      BY <1>1, DeltaIsHonest DEF KeepaliveMessage
    <2>4. /\ KeepaliveMessage.status = "Ok" /\ KeepaliveMessage.type = "Delta"
          /\ KeepaliveMessage.prevSequence = {SeqId[Latest]}
          /\ KeepaliveMessage.sequence = SeqId[Latest]
          /\ KeepaliveMessage.bids = EmptySide /\ KeepaliveMessage.asks = EmptySide
      BY DEF KeepaliveMessage, DeltaMessage, NoChange, EmptyContent
    <2>5. ~IsRepeat(KeepaliveMessage)
      BY <2>4 DEF IsRepeat, HasLevels, EmptySide
    <2>6. \A s \in Bases : Reading(AtTheEnd(history), KeepaliveMessage, history)[s]
                             <= AtTheEnd(history)[s]
      BY <1>1, <1>2, <2>2, <2>3, <2>4, <2>5, DeltaReads
    <2>7. \A s \in Bases : Reading(AtTheEnd(history), KeepaliveMessage, history)[s]
                             <= AtTheEnd(history)[s] + 0
      BY <1>3, <2>6
    <2>8. 0 \in 0..1
      OBVIOUS
    <2> QED
      BY <1>6, <1>7, <2>2, <2>7, <2>8 DEF Keepalive
  <1>8. ASSUME NEW change \in Changes, Repeat(change)
        PROVE  Streaming' /\ WithinBudget'
    <2> DEFINE m == DeltaMessage(change, SeqId[Latest], SeqId[Latest], Current)
    <2>1. m \in Message
      BY <1>2, DeltaMessageType, VenueAssumption
    <2>2. SendExtra("repeat", m)
      BY <1>8 DEF Repeat
    <2> HIDE DEF m
    <2>3. \A s \in Bases : Reading(AtTheEnd(history), m, history)[s]
                             <= AtTheEnd(history)[s] + 1
      BY <2>1, EndIsTable, ReadingTable
    <2>4. 1 \in 0..1
      OBVIOUS
    <2> QED
      BY <1>6, <2>1, <2>2, <2>3, <2>4
  <1> QED
    BY <1>4, <1>5, <1>7, <1>8 DEF VenueStep

LEMMA NetworkBudget ==
    ASSUME BudgetInv, TypeOK', NetworkStep
    PROVE  Streaming' /\ WithinBudget'
  <1>1. /\ TypeOK /\ Streaming /\ wire \in Seq(Message) /\ history \in Seq(Content)
        /\ disturbances \in Nat
    BY AlarmsType DEF BudgetInv, TypeOK
  <1>2. /\ UNCHANGED <<clientVars, link, subscribed, history>>
        /\ disturbances' = disturbances + 1 /\ wire # <<>>
    <2>1. \E kind : Tamper(kind)
      BY DEF NetworkStep, Lose, Duplicate, Reorder, Garble, Unanchor, Corrupt
    <2>2. \E i \in 1..Len(wire) : TRUE
      BY DEF NetworkStep, Lose, Touchable
    <2> QED
      BY <1>1, <2>1, <2>2 DEF Tamper, Disturb
  <1>3. subscribed'
    BY <1>1, <1>2 DEF Streaming
  <1>4. PICK t : Bounds(t, wire, history) /\ Alarms + Worth(t[1]) <= disturbances
    BY DEF BudgetInv, WithinBudget
  <1>5. /\ Alarms' = Alarms /\ Base' = Base
        /\ Tainted' => Tainted
    BY <1>1, <1>2, ClientStays
  <1>6. ASSUME \E u : /\ Bounds(u, wire', history)
                      /\ \A s \in Bases : u[1][s] <= t[1][s] + 1
        PROVE  Streaming' /\ WithinBudget'
    <2>1. PICK u : /\ Bounds(u, wire', history')
                   /\ \A s \in Bases : u[1][s] <= t[1][s] + 1
      BY <1>2, <1>6
    <2>2. 1 \in Nat /\ disturbances + 1 <= disturbances'
      BY <1>1, <1>2
    <2>3. WithinBudget'
      BY <1>1, <1>4, <1>5, <2>1, <2>2, BudgetKept
    <2> QED
      BY <1>3, <2>3 DEF Streaming
  <1>7. CASE Lose
    <2>1. wire' = Tail(wire)
      BY <1>7 DEF Lose
    <2>2. PICK u : /\ Bounds(u, wire', history)
                   /\ u[1] \in Tables /\ t[1] \in Tables
                   /\ \A s \in Bases : Reading(u[1], wire[1], history)[s] <= t[1][s]
      BY <1>1, <1>2, <1>4, <2>1, TailBounds
    <2>3. ASSUME NEW s \in Bases PROVE u[1][s] <= t[1][s] + 1
      <3>1. wire[1] \in Message
        BY <1>1, <1>2
      <3>2. /\ u[1][s] <= Reading(u[1], wire[1], history)[s] + 1
            /\ u[1][s] \in Nat /\ Reading(u[1], wire[1], history)[s] \in Nat
        BY <2>2, <3>1, ReadingTable
      <3>3. Reading(u[1], wire[1], history)[s] <= t[1][s] /\ t[1][s] \in Nat
        BY <2>2 DEF Tables
      <3> QED
        BY <3>2, <3>3
    <2> QED
      BY <1>6, <2>2, <2>3
  <1>8. ASSUME NEW k \in 1..Len(wire), Duplicate(k)
        PROVE  Streaming' /\ WithinBudget'
    <2>1. wire' = Append(wire, wire[k]) /\ wire[k] \in Message
      BY <1>1, <1>8 DEF Duplicate
    <2>2. \A s \in Bases : Reading(AtTheEnd(history), wire[k], history)[s]
                             <= AtTheEnd(history)[s] + 1
      BY <2>1, EndIsTable, ReadingTable
    <2>3. \A s \in Bases : Reading(AtTheEnd(history'), wire[k], history')[s]
                             <= AtTheEnd(history)[s] + 1
      BY <1>2, <2>2
    <2>4. 1 \in Nat /\ disturbances + 1 <= disturbances'
      BY <1>1, <1>2
    <2> QED
      BY <1>2, <1>3, <2>1, <2>3, <2>4, SendBudget
  <1>9. ASSUME NEW k \in 1..Len(wire), Reorder(k)
        PROVE  Streaming' /\ WithinBudget'
    <2>1. /\ k + 1 \in 1..Len(wire)
          /\ wire' = [wire EXCEPT ![k] = wire[k + 1], ![k + 1] = wire[k]]
      BY <1>9 DEF Reorder, Touchable
    <2> QED
      BY <1>1, <1>4, <1>6, <2>1, ReorderBounds
  <1>10. ASSUME NEW k \in 1..Len(wire), NEW n \in Message, wire' = [wire EXCEPT ![k] = n],
                n.status = "Ok" /\ IsRepeat(n) =>
                   /\ n.sequence = wire[k].sequence /\ n.prevSequence = wire[k].prevSequence
                   /\ n.type = wire[k].type /\ n.status = wire[k].status
         PROVE  Streaming' /\ WithinBudget'
    <2>1. wire[k] \in Message
      BY <1>1
    <2>2. \A table \in Tables, s \in Bases :
              Reading(table, n, history)[s] <= Reading(table, wire[k], history)[s] + 1
      BY <1>10, <2>1, DamageReads
    <2> QED
      BY <1>1, <1>4, <1>6, <1>10, <2>2, DamageBounds
  <1>11. ASSUME NEW k \in 1..Len(wire), Garble(k)
         PROVE  Streaming' /\ WithinBudget'
    <2> DEFINE n == [wire[k] EXCEPT !.status = "Malformed"]
    <2>1. wire' = [wire EXCEPT ![k] = n] /\ wire[k] \in Message
      BY <1>1, <1>11 DEF Garble
    <2>2. n \in Message /\ n.status # "Ok"
      BY <2>1 DEF Message
    <2> HIDE DEF n
    <2> QED
      BY <1>10, <2>1, <2>2
  <1>12. ASSUME NEW k \in 1..Len(wire), Unanchor(k)
         PROVE  Streaming' /\ WithinBudget'
    <2> DEFINE n == [wire[k] EXCEPT !.prevSequence = {wire[k].sequence}]
    <2>1. /\ wire' = [wire EXCEPT ![k] = n] /\ wire[k] \in Message
          /\ wire[k].type = "Snapshot"
      BY <1>1, <1>12 DEF Unanchor, AnchoringSnapshot
    <2>2. n \in Message /\ n.type = "Snapshot"
      BY <2>1 DEF Message
    <2> HIDE DEF n
    <2>3. ~IsRepeat(n)
      BY <2>2 DEF IsRepeat
    <2> QED
      BY <1>10, <2>1, <2>2, <2>3
  <1>13. ASSUME NEW k \in 1..Len(wire), NEW change \in Changes, Corrupt(k, change)
         PROVE  Streaming' /\ WithinBudget'
    <2> DEFINE n == [wire[k] EXCEPT !.bids = change.bids, !.asks = change.asks]
    <2>1. wire' = [wire EXCEPT ![k] = n]
      BY <1>1, <1>13 DEF Corrupt
    <2>2. /\ wire[k] \in Message
          /\ change.bids \in Levels /\ change.asks \in Levels
      BY <1>1, VenueAssumption
    <2>3. /\ n \in Message
          /\ n.sequence = wire[k].sequence /\ n.prevSequence = wire[k].prevSequence
          /\ n.type = wire[k].type /\ n.status = wire[k].status
      BY <2>2 DEF Message
    <2> HIDE DEF n
    <2> QED
      BY <1>10, <2>1, <2>3
  <1> QED
    BY <1>7, <1>8, <1>9, <1>11, <1>12, <1>13 DEF NetworkStep

LEMMA InitBudget == Init => BudgetInv
  <1> SUFFICES ASSUME Init PROVE BudgetInv
    OBVIOUS
  <1>1. TypeOK /\ ChecksumInv
    BY InitTypeOK DEF Init, InitClient, InitVenue, NewValidator, ChecksumInv, AllChecked,
                      TopVerified
  <1>2. wire = <<>> /\ Base = None /\ disturbances = 0 /\ Alarms = 0
    BY DEF Init, InitClient, InitVenue, Base, NewHealth, Alarms
  <1> DEFINE end == AtTheEnd(history)
             t == [i \in 1..1 |-> end]
  <1>3. end \in Tables /\ t \in [1..1 -> Tables] /\ t[1] = end
    BY EndIsTable
  <1>4. end[None] = 0 /\ \A s \in Bases : end[s] \in Nat
    BY NoneIsBase DEF AtTheEnd
  <1> HIDE DEF t
  <1>5. Bounds(t, wire, history)
    <2>1. Len(wire) = 0 /\ 1..(Len(wire) + 1) = 1..1 /\ 1..Len(wire) = {}
      BY <1>2
    <2>2. \A s \in Bases : end[s] <= t[Len(wire) + 1][s]
      BY <1>3, <1>4, <2>1
    <2> QED
      BY <1>3, <2>1, <2>2 DEF Bounds
  <1>6. Worth(t[1]) = 0
    BY <1>2, <1>3, <1>4 DEF Worth, Tainted
  <1>7. WithinBudget
    BY <1>2, <1>5, <1>6 DEF WithinBudget
  <1> QED
    BY <1>1, <1>2, <1>7 DEF BudgetInv, Streaming

LEMMA NextBudget ==
    ASSUME Mode = "OkxSequenced", BudgetInv, [Next]_vars
    PROVE  BudgetInv'
  <1>1. TypeOK'
    BY NextTypeOK DEF BudgetInv
  <1>2. Policy = "SequenceAndChecksum" => ChecksumInv'
    BY NextChecked DEF BudgetInv
  <1>3. Streaming' /\ WithinBudget'
    BY <1>1, HostBudget, SessionBudget, DeliverBudget, VenueBudget, NetworkBudget
       DEF Next, SourceStep, SessionStep
  <1> QED
    BY <1>1, <1>2, <1>3 DEF BudgetInv

\* One fault raises at most one alarm.  In OkxSequenced mode the gaps, the
\* rejected repetitions and the failed checksums that the client has counted
\* are never more than the disturbances there have been, whatever became of
\* the messages in flight (FeedClient.cpp, handleFrame: only a client that had
\* a baseline counts a gap).
THEOREM OneAlarmPerFault ==
    ASSUME Mode = "OkxSequenced"
    PROVE  Spec => []AlarmsAreEarned
  <1>1. Init => BudgetInv
    BY InitBudget
  <1>2. BudgetInv /\ [Next]_vars => BudgetInv'
    BY NextBudget
  <1>3. BudgetInv => AlarmsAreEarned
    <2> SUFFICES ASSUME BudgetInv PROVE AlarmsAreEarned
      OBVIOUS
    <2>1. PICK t : Bounds(t, wire, history) /\ Alarms + Worth(t[1]) <= disturbances
      BY DEF BudgetInv, WithinBudget
    <2>2. TypeOK /\ wire \in Seq(Message) /\ Alarms \in Nat /\ disturbances \in Nat
      BY AlarmsType DEF BudgetInv, TypeOK
    <2>3. 1 \in 1..(Len(wire) + 1)
      BY <2>2
    <2>4. t[1] \in [Bases -> Nat]
      BY <2>1, <2>3 DEF Bounds, Tables
    <2>5. Worth(t[1]) \in Nat
      BY <2>2, <2>4, BaseIsBase, NoneIsBase DEF Worth
    <2> QED
      BY <2>1, <2>2, <2>5 DEF AlarmsAreEarned
  <1> QED
    BY <1>1, <1>2, <1>3, PTL DEF Spec

=============================================================================
