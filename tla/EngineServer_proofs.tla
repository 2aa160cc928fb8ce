------------------------ MODULE EngineServer_proofs ------------------------
(***************************************************************************)
(* The two safety properties of EngineServer for every number of           *)
(* connections and of changes of the client.                               *)
(***************************************************************************)
EXTENDS EngineServer, TLAPS

-----------------------------------------------------------------------------
(***************************************************************************)
(* The client outlives its users: the program counters of main() and of    *)
(* the threads it joins are tied together.                                 *)
(***************************************************************************)

LifetimeInv ==
    /\ client = "destroyed" => main = "exited"
    /\ main \in {"destroy", "exited"} => worker = "done"
    /\ main = "start" => acceptor = "none"
    /\ main \in {"join", "destroy", "exited"} => acceptor \in {"none", "ended"}

LEMMA InitLifetime == Init => LifetimeInv
  BY DEF Init, LifetimeInv

LEMMA NextLifetime ==
    ASSUME LifetimeInv, [Next]_vars
    PROVE  LifetimeInv'
  <1> USE DEF LifetimeInv, feedVars, threads, http
  <1>1. CASE ClientStep
    BY <1>1 DEF ClientStep, Accept, Invalidate, Connected, Dropped, Becomes
  <1>2. CASE WorkerStep
    BY <1>2 DEF WorkerStep, StartClient, Iterate, ReadClient, updateEngineState, StopClient,
                WorkerAt, OnlyWorker
  <1>3. CASE HttpStep
    BY <1>3 DEF HttpStep, TestRunning, AcceptFails, AcceptConnection, handleConnection,
                ConnStep, OnlyHttp
  <1>4. CASE MainStep
    BY <1>4 DEF MainStep, HttpStart, BindFails, StopRunning, CloseListener, JoinAcceptor,
                JoinFeed, Destroy, MainAt, OnlyMain
  <1>5. CASE Signal \/ Exited \/ UNCHANGED vars
    BY <1>5 DEF Signal, OnlyMain, Exited, vars
  <1>6. CASE Aborted
    BY <1>6 DEF Aborted, Terminate
  <1> QED
    BY <1>1, <1>2, <1>3, <1>4, <1>5, <1>6 DEF Next

\* main() destroys the client only when the feed thread has been joined and no
\* thread that could still publish or accept is left.
THEOREM ClientLifetime == Spec => []ClientOutlivesItsUsers
  <1>1. LifetimeInv => ClientOutlivesItsUsers
    BY DEF LifetimeInv, ClientOutlivesItsUsers
  <1> QED
    BY <1>1, InitLifetime, NextLifetime, PTL DEF Spec

-----------------------------------------------------------------------------
(***************************************************************************)
(* The view implements PublishedView.  What has been read lies between     *)
(* what is served and the client's newest state.                           *)
(***************************************************************************)

Position == 0..Len(feed)

ReadsInOrder ==
    /\ worker = "health" => view.health <= reads.book
    /\ worker = "publish" =>
        /\ 1 <= reads.book
        /\ view.health <= reads.book
        /\ reads.book <= reads.health

ReplayIsConstant ==
    /\ mode = "Replay" => view.health <= 1 /\ reads.health <= 1
    /\ worker = "health" => 1 <= reads.book

ViewInv ==
    /\ feed \in Seq(ClientState)
    /\ feed # <<>>
    /\ reads \in [book : Position, health : Position]
    /\ view \in [book : Position, health : Position]
    /\ ReadsInOrder
    /\ ReplayIsConstant
    /\ mode \in {"Live", "Replay"}
    /\ mode = "Replay" => worker \notin {"book", "health", "stop"}

LEMMA ClientStates ==
    /\ NewClient \in ClientState
    /\ Replayed \subseteq ClientState
    /\ \A s \in ClientState :
        /\ \A n \in 0..MaxChanges : [s EXCEPT !.version = n, !.ready = TRUE] \in ClientState
        /\ [s EXCEPT !.version = 0, !.ready = FALSE] \in ClientState
        /\ [s EXCEPT !.version = 0, !.connected = TRUE] \in ClientState
        /\ [s EXCEPT !.connected = FALSE] \in ClientState
  <1>0. 0 \in 0..MaxChanges /\ 1 \in 0..MaxChanges
    BY ServerAssumption
  <1>1. NewClient \in ClientState
    BY <1>0 DEF NewClient, ClientState
  <1>3. Replayed \subseteq ClientState
    BY DEF Replayed
  <1>4. ASSUME NEW s \in ClientState, NEW n \in 0..MaxChanges
        PROVE  [s EXCEPT !.version = n, !.ready = TRUE] \in ClientState
    BY DEF ClientState
  <1>5. ASSUME NEW s \in ClientState
        PROVE  [s EXCEPT !.version = 0, !.ready = FALSE] \in ClientState
    BY <1>0 DEF ClientState
  <1>6. ASSUME NEW s \in ClientState
        PROVE  [s EXCEPT !.version = 0, !.connected = TRUE] \in ClientState
    BY <1>0 DEF ClientState
  <1>7. ASSUME NEW s \in ClientState
        PROVE  [s EXCEPT !.connected = FALSE] \in ClientState
    BY DEF ClientState
  <1> QED
    BY <1>1, <1>3, <1>4, <1>5, <1>6, <1>7

LEMMA InitView == Init => ViewInv /\ View!Init
  <1> SUFFICES ASSUME Init PROVE ViewInv /\ View!Init
    OBVIOUS
  <1>1. PICK s \in ClientState : feed = <<s>>
    BY ClientStates DEF Init
  <1> QED
    BY <1>1 DEF Init, ViewInv, View!Init, Position, ReadsInOrder, ReplayIsConstant

\* The client's log grows by a state, and positions in it stay positions.
LEMMA FeedGrows ==
    ASSUME ViewInv, NEW s \in ClientState, feed' = Append(feed, s),
           UNCHANGED <<mode, reads, view>>, worker' = worker \/ worker' = "done"
    PROVE  ViewInv' /\ View!Change
  <1>1. feed' \in Seq(ClientState) /\ feed' # <<>> /\ Len(feed') = Len(feed) + 1
    BY DEF ViewInv
  <1>2. Position \subseteq Position'
    BY <1>1 DEF Position, ViewInv
  <1>3. View!Change
    BY DEF View!Change
  <1>4. /\ reads' \in [book : Position', health : Position']
        /\ view' \in [book : Position', health : Position']
    BY <1>2 DEF ViewInv
  <1> QED
    BY <1>1, <1>3, <1>4 DEF ViewInv, ReadsInOrder, ReplayIsConstant

LEMMA NextView ==
    ASSUME ViewInv, [Next]_vars
    PROVE  ViewInv' /\ [View!Change \/ View!Publish]_<<feed, view>>
  <1> USE DEF feedVars, threads, http
  <1>1. CASE ClientStep
    <2>1. PICK s : Becomes(s) /\ s \in ClientState
      <3>1. Len(feed) < MaxChanges => Len(feed) \in 0..MaxChanges
        BY ServerAssumption DEF ViewInv
      <3>2. Current \in ClientState
        BY DEF ViewInv, Current
      <3> QED
        BY <1>1, <3>1, <3>2, ClientStates
           DEF ClientStep, Accept, Invalidate, Connected, Dropped, Becomes
    <2> QED
      BY <2>1, FeedGrows DEF Becomes
  <1>2. CASE StopClient
    <2>1. Current \in ClientState
      BY DEF ViewInv, Current
    <2> QED
      BY <1>2, <2>1, ClientStates, FeedGrows DEF StopClient, WorkerAt
  <1>3. CASE StartClient \/ Iterate
    <2> USE DEF WorkerAt, OnlyWorker, ViewInv, Position, ReadsInOrder, ReplayIsConstant
    <2>1. UNCHANGED <<feed, view, mode>> /\ Len(feed) \in Nat /\ Len(feed) >= 1
      BY <1>3 DEF StartClient, Iterate
    <2>2. CASE mode = "Replay" /\ Iterate
      BY <2>1, <2>2 DEF Iterate
    <2>3. CASE mode # "Replay" \/ StartClient
      BY <1>3, <2>1, <2>3 DEF StartClient, Iterate
    <2> QED
      BY <1>3, <2>2, <2>3
  <1>4. CASE ReadClient
    <2> USE DEF WorkerAt, OnlyWorker, ViewInv, Position, ReadsInOrder, ReplayIsConstant
    <2>1. UNCHANGED <<feed, view, mode>> /\ Len(feed) \in Nat /\ Len(feed) >= 1
      BY <1>4 DEF ReadClient
    <2> QED
      BY <1>4, <2>1 DEF ReadClient
  <1>5. CASE updateEngineState
    <2> USE DEF WorkerAt, OnlyWorker, ViewInv, Position, ReadsInOrder, ReplayIsConstant
    <2>1. /\ UNCHANGED <<feed, reads, mode>> /\ view' = reads
          /\ worker = "publish" /\ worker' = "loop"
      BY <1>5 DEF updateEngineState
    <2>2. View!Publish
      BY <2>1 DEF View!Publish
    <2>3. mode = "Replay" => reads.health <= 1
      BY <2>1
    <2> QED
      BY <2>1, <2>2, <2>3
  <1>6. CASE HttpStep \/ MainStep \/ Signal \/ Exited \/ UNCHANGED vars
    <2>1. UNCHANGED <<mode, feed, worker, reads, view>>
      BY <1>6 DEF HttpStep, TestRunning, AcceptFails, AcceptConnection, handleConnection,
                  ConnStep, OnlyHttp, MainStep, HttpStart, BindFails, StopRunning,
                  CloseListener, JoinAcceptor, JoinFeed, Destroy, OnlyMain, Signal,
                  Exited, vars
    <2> QED
      BY <2>1 DEF ViewInv, Position, ReadsInOrder, ReplayIsConstant
  <1>7. CASE Aborted
    <2>1. UNCHANGED <<mode, feed, reads, view>> /\ worker' = "done"
      BY <1>7 DEF Aborted, Terminate
    <2> QED
      BY <2>1 DEF ViewInv, Position, ReadsInOrder, ReplayIsConstant
  <1> QED
    BY <1>1, <1>2, <1>3, <1>4, <1>5, <1>6, <1>7 DEF Next, WorkerStep

\* What the engine serves implements PublishedView: books and healths of states
\* the client was in, the health never older than the book, nothing going back.
THEOREM ViewRefinement == Spec => ViewSpec
  <1> QED
    BY InitView, NextView, PTL DEF Spec, ViewSpec, View!Spec

=============================================================================
