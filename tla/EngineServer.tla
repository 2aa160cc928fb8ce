---------------------------- MODULE EngineServer ----------------------------
(***************************************************************************)
(* The engine process: server/src/main.cpp, with the HTTP server it starts *)
(* and stops and the view that its feed thread publishes for the handlers  *)
(* (server/src/ApiServer.cpp, HttpServer.cpp).                             *)
(*                                                                         *)
(* FeedClient is seen from outside, through book() and health(): the       *)
(* callback thread moves it from one state to the next.  Its states are    *)
(* logged in feed, so that a view can be compared with what the client     *)
(* showed when.  In replay mode there is no client, and every iteration    *)
(* replays the same log and publishes the same result.                     *)
(*                                                                         *)
(* Requests are told apart by what becomes of their connection: answered   *)
(* and closed, or upgraded to the event stream.  Their parsing and the     *)
(* bodies of the answers are left out.                                     *)
(***************************************************************************)
EXTENDS Naturals, Sequences

CONSTANTS
    Conn,           \* connections made to the server
    MaxChanges      \* bound: states of the client in a behaviour

ASSUME ServerAssumption == MaxChanges \in Nat \ {0}

VARIABLES
    mode,       \* EngineMode
    client,     \* the FeedClient and its source: "alive" or "destroyed"
    feed,       \* history variable: the client's states, oldest first
    main,       \* program counter of main()
    worker,     \* program counter of feedThread
    reads,      \* what the iteration of the feed thread has read so far
    view,       \* state_ and book_ of the ApiServer, as positions in feed
    gShutdown,  \* set by the signal handler
    running,    \* running_ of the HttpServer
    listening,  \* its socket is open
    acceptor,   \* program counter of acceptThread_
    conn        \* program counters of the detached connection threads

feedVars == <<mode, client, feed>>
threads == <<main, worker, reads, view, gShutdown>>
http == <<running, listening, acceptor, conn>>
vars == <<feedVars, threads, http>>

\* What book() and health() show of a client: which book (0 is the empty one),
\* bookReady, and whether state is Connected.
ClientState == [version : 0..MaxChanges, ready : BOOLEAN, connected : BOOLEAN]

NewClient == [version |-> 0, ready |-> FALSE, connected |-> FALSE]

\* A replay is ready if it applied anything, even if its book ends up empty.
Replayed ==
    {s \in ClientState : s.connected /\ s.version <= 1 /\ (s.version = 1 => s.ready)}

Init ==
    /\ mode \in {"Live", "Replay"}
    /\ client = "alive"
    /\ \E s \in IF mode = "Live" THEN {NewClient} ELSE Replayed : feed = <<s>>
    /\ main = "start"
    /\ worker = "start"
    /\ reads = [book |-> 0, health |-> 0]
    /\ view = [book |-> 0, health |-> 0]
    /\ gShutdown = FALSE
    /\ running = FALSE
    /\ listening = FALSE
    /\ acceptor = "none"
    /\ conn = [c \in Conn |-> "none"]

-----------------------------------------------------------------------------
(***************************************************************************)
(* The client, moved by its source's callback thread between start() and   *)
(* the return of stop().                                                   *)
(***************************************************************************)

Current == feed[Len(feed)]

Becomes(s) ==
    /\ mode = "Live"
    /\ worker \notin {"start", "done"}
    /\ Len(feed) < MaxChanges
    /\ feed' = Append(feed, s)
    /\ UNCHANGED <<mode, client, threads, http>>

Accept ==
    Current.connected /\ Becomes([Current EXCEPT !.version = Len(feed), !.ready = TRUE])

Invalidate ==
    Current.connected /\ Becomes([Current EXCEPT !.version = 0, !.ready = FALSE])

\* resetPipelineLocked empties the book and leaves bookReady alone.
Connected ==
    ~Current.connected /\ Becomes([Current EXCEPT !.version = 0, !.connected = TRUE])

Dropped == Current.connected /\ Becomes([Current EXCEPT !.connected = FALSE])

-----------------------------------------------------------------------------
(***************************************************************************)
(* The feed thread.                                                        *)
(***************************************************************************)

WorkerAt(here, there) == worker = here /\ worker' = there

OnlyWorker == UNCHANGED <<feedVars, main, gShutdown, http>>

StartClient ==
    /\ WorkerAt("start", "loop")
    /\ UNCHANGED <<reads, view>>
    /\ OnlyWorker

\* The test of the loop and, live, tick(), whose effects are the client's.
Iterate ==
    /\ WorkerAt("loop", IF gShutdown
                        THEN IF mode = "Live" THEN "stop" ELSE "done"
                        ELSE IF mode = "Live" THEN "book" ELSE "publish")
    /\ reads' = IF mode = "Replay" THEN [book |-> 1, health |-> 1] ELSE reads
    /\ UNCHANGED view
    /\ OnlyWorker

\* Mutant: health() is read before book().
Bug_HealthFirst ==
    \/ /\ WorkerAt("book", "health")
       /\ reads' = [reads EXCEPT !.health = Len(feed)]
       /\ UNCHANGED view
       /\ OnlyWorker
    \/ /\ WorkerAt("health", "publish")
       /\ reads' = [reads EXCEPT !.book = Len(feed)]
       /\ UNCHANGED view
       /\ OnlyWorker

\* book() and health(), each under the client's lock.
ReadClient ==
    \/ /\ WorkerAt("book", "health")
       /\ reads' = [reads EXCEPT !.book = Len(feed)]
       /\ UNCHANGED view
       /\ OnlyWorker
    \/ /\ WorkerAt("health", "publish")
       /\ reads' = [reads EXCEPT !.health = Len(feed)]
       /\ UNCHANGED view
       /\ OnlyWorker

\* Mutant: nothing is published while the sequence number stays the same.
Bug_PublishNewBooks ==
    /\ WorkerAt("publish", "loop")
    /\ view' = IF view.book # 0 /\ feed[view.book].version = feed[reads.book].version
               THEN view ELSE reads
    /\ UNCHANGED reads
    /\ OnlyWorker

\* updateEngineState, under the API's lock; then a pause.
updateEngineState ==
    /\ WorkerAt("publish", "loop")
    /\ view' = reads
    /\ UNCHANGED reads
    /\ OnlyWorker

\* stop(): when it returns, so has the last callback.
StopClient ==
    /\ WorkerAt("stop", "done")
    /\ feed' = Append(feed, [Current EXCEPT !.connected = FALSE])
    /\ UNCHANGED <<mode, client, main, reads, view, gShutdown, http>>

-----------------------------------------------------------------------------
(***************************************************************************)
(* The HTTP server.  Its connection threads are detached: nothing waits    *)
(* for them, and those still there end with the process.                   *)
(***************************************************************************)

OnlyHttp == UNCHANGED <<feedVars, threads>>

TestRunning ==
    /\ acceptor = "test"
    /\ acceptor' = IF running THEN "accept" ELSE "ended"
    /\ UNCHANGED <<running, listening, conn>>
    /\ OnlyHttp

AcceptConnection(c) ==
    /\ acceptor = "accept"
    /\ listening
    /\ conn[c] = "none"
    /\ acceptor' = "test"
    /\ conn' = [conn EXCEPT ![c] = "reading"]
    /\ UNCHANGED <<running, listening>>
    /\ OnlyHttp

\* accept() fails once the socket is closed, and may fail at any time: either
\* way the loop ends.
AcceptFails ==
    /\ acceptor = "accept"
    /\ acceptor' = "ended"
    /\ UNCHANGED <<running, listening, conn>>
    /\ OnlyHttp

ConnStep(c, here, there) ==
    /\ main # "exited"
    /\ conn[c] = here
    /\ conn' = [conn EXCEPT ![c] = there]
    /\ UNCHANGED <<running, listening, acceptor>>
    /\ OnlyHttp

\* A request is read, or the peer goes away; it is answered, or upgraded, and a
\* stream lasts until a send on it fails.  None of this tests running_.
handleConnection(c) ==
    \/ ConnStep(c, "reading", "handling")
    \/ ConnStep(c, "reading", "closed")
    \/ ConnStep(c, "handling", "closed")
    \/ ConnStep(c, "handling", "streaming")
    \/ ConnStep(c, "streaming", "closed")

\* A Content-Length that is no number: std::stoull throws out of the detached
\* thread and std::terminate ends the process, with nothing joined or destroyed.
Terminate(c) ==
    /\ main # "exited"
    /\ conn[c] = "reading"
    /\ main' = "exited"
    /\ worker' = "done"
    /\ acceptor' = "ended"
    /\ running' = FALSE
    /\ listening' = FALSE
    /\ conn' = [conn EXCEPT ![c] = "closed"]
    /\ UNCHANGED <<feedVars, reads, view, gShutdown>>

-----------------------------------------------------------------------------
(***************************************************************************)
(* main().                                                                 *)
(***************************************************************************)

MainAt(here, there) == main = here /\ main' = there

OnlyMain == UNCHANGED <<feedVars, worker, reads, view>>

HttpStart ==
    /\ MainAt("start", "serving")
    /\ running' = TRUE
    /\ listening' = TRUE
    /\ acceptor' = "test"
    /\ UNCHANGED <<gShutdown, conn>>
    /\ OnlyMain

\* The port is taken: the feed thread, which is running already, is stopped.
BindFails ==
    /\ MainAt("start", "join")
    /\ gShutdown' = TRUE
    /\ UNCHANGED http
    /\ OnlyMain

Signal ==
    /\ main # "exited"
    /\ ~gShutdown
    /\ gShutdown' = TRUE
    /\ UNCHANGED <<main, http>>
    /\ OnlyMain

\* stop(): the flag, the socket, then the accept thread is joined.
StopRunning ==
    /\ gShutdown
    /\ MainAt("serving", "closing")
    /\ running' = FALSE
    /\ UNCHANGED <<gShutdown, listening, acceptor, conn>>
    /\ OnlyMain

\* Mutant: the accept thread is joined before its socket is closed.
Bug_JoinFirst ==
    /\ acceptor = "ended"
    /\ MainAt("closing", "joinAcceptor")
    /\ listening' = FALSE
    /\ UNCHANGED <<gShutdown, running, acceptor, conn>>
    /\ OnlyMain

CloseListener ==
    /\ MainAt("closing", "joinAcceptor")
    /\ listening' = FALSE
    /\ UNCHANGED <<gShutdown, running, acceptor, conn>>
    /\ OnlyMain

JoinAcceptor ==
    /\ acceptor = "ended"
    /\ MainAt("joinAcceptor", "join")
    /\ UNCHANGED <<gShutdown, http>>
    /\ OnlyMain

\* Mutant: the feed thread is not waited for.
Bug_DetachFeed ==
    /\ MainAt("join", "destroy")
    /\ UNCHANGED <<gShutdown, http>>
    /\ OnlyMain

JoinFeed ==
    /\ worker = "done"
    /\ MainAt("join", "destroy")
    /\ UNCHANGED <<gShutdown, http>>
    /\ OnlyMain

\* client.reset(), okxSource.reset(), return.
Destroy ==
    /\ MainAt("destroy", "exited")
    /\ client' = "destroyed"
    /\ UNCHANGED <<mode, feed, worker, reads, view, gShutdown, http>>

-----------------------------------------------------------------------------

ClientStep == Accept \/ Invalidate \/ Connected \/ Dropped

WorkerStep == StartClient \/ Iterate \/ ReadClient \/ updateEngineState \/ StopClient

HttpStep == TestRunning \/ AcceptFails \/ \E c \in Conn : AcceptConnection(c) \/ handleConnection(c)

MainStep ==
    HttpStart \/ BindFails \/ StopRunning \/ CloseListener \/ JoinAcceptor \/ JoinFeed \/ Destroy

Exited == main = "exited" /\ UNCHANGED vars

Aborted == \E c \in Conn : Terminate(c)

Next == ClientStep \/ WorkerStep \/ HttpStep \/ MainStep \/ Signal \/ Aborted \/ Exited

Spec == Init /\ [][Next]_vars

(***************************************************************************)
(* Fairness: main() and the feed thread are scheduled and every call they  *)
(* make returns (the client's stop() does, by LiveFeed's StopCompletes);   *)
(* so is the accept thread, which returns from accept() once the socket it *)
(* waits on is closed.  No peer is obliged to connect, to send or to go,   *)
(* no connection thread to end, and no signal to come.                     *)
(***************************************************************************)
Fairness ==
    /\ WF_vars(MainStep)
    /\ WF_vars(WorkerStep)
    /\ WF_vars(TestRunning)
    /\ WF_vars(~listening /\ AcceptFails)

FairSpec == Spec /\ Fairness

-----------------------------------------------------------------------------

\* What is served never goes back: every view pairs a book with a health that is
\* no older, and both are no older than all that was served before, although
\* the client moves on between the two reads and before the publication.
View == INSTANCE PublishedView WITH States <- ClientState

ViewSpec == View!Spec

\* No thread uses the client once main() has destroyed it, whether it got there
\* by a signal or by a port that was taken; of the server's threads only detached
\* ones, which do not use it, may still be there.
ClientOutlivesItsUsers ==
    client = "destroyed" => worker = "done" /\ acceptor \in {"none", "ended"}

\* A signal, or a port that is taken, ends the process, although accept() blocks
\* and connections may never end.
ShutdownCompletes == gShutdown ~> main = "exited"

\* While the engine serves, it ends up serving the client's current book and
\* health once the client has settled.
ViewCatchesUp ==
    <>[](~gShutdown /\ main # "exited" => /\ view.book # 0
                                          /\ feed[view.book] = Current
                                          /\ feed[view.health] = Current)

=============================================================================
