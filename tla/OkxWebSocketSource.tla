------------------------- MODULE OkxWebSocketSource -------------------------
(***************************************************************************)
(* The threads of OkxWebSocketSource: the host threads that call connect(),*)
(* disconnect() and resubscribe(), the liveness worker of a session, and   *)
(* the thread on which the socket library delivers its messages.           *)
(*                                                                         *)
(* A critical section under mutex_ that calls nothing is one step, taken   *)
(* when mutex_ is free.  sendText() is two, because it calls the socket    *)
(* with mutex_ held.  The socket library is external; that its stop() may  *)
(* deliver the last callback, and does not return before that callback has,*)
(* is what the comments in runWorker() say of it.                          *)
(***************************************************************************)
EXTENDS Naturals

CONSTANTS
    Caller,         \* the host threads
    Worker,         \* the liveness worker
    Callback,       \* the socket library's thread
    Nobody,         \* the owner of a lock that is free
    PingInterval,   \* silence after which a ping is sent
    PongTimeout     \* further silence after which the session is given up

Thread == Caller \cup {Worker, Callback}

ASSUME ThreadAssumption ==
    /\ Worker # Callback
    /\ {Worker, Callback} \cap Caller = {}
    /\ Nobody \notin Thread

ASSUME TimeoutAssumption ==
    /\ PingInterval \in Nat \ {0}
    /\ PongTimeout \in Nat \ {0}

VARIABLES
    pc,         \* where each thread is; "none": there is no such thread
    lifecycle,  \* the owner of lifecycleMutex_
    mutex,      \* the owner of mutex_, while it calls the socket
    flags,      \* the members that mutex_ guards
    handle,     \* handle_ is not null
    socket,     \* the physical connection
    silence,    \* time since lastActivityNs_
    reported    \* history variable: the last state emitted to the client

vars == <<pc, lifecycle, mutex, flags, handle, socket, silence, reported>>

Deadline == PingInterval + PongTimeout

\* The flags as constructed, and as connect() sets them.
NoFlags ==
    [workerRunning |-> FALSE, stopRequested |-> FALSE, connected |-> FALSE,
     sessionTerminal |-> FALSE, closeRequested |-> FALSE,
     pingOutstanding |-> FALSE]

Init ==
    /\ pc = [t \in Thread |-> IF t \in Caller THEN "idle" ELSE "none"]
    /\ lifecycle = Nobody
    /\ mutex = Nobody
    /\ flags = NoFlags
    /\ handle = FALSE
    /\ socket = "off"
    /\ silence = 0
    /\ reported = "Disconnected"

At(t, label) == pc[t] = label

Goto(t, label) == pc' = [pc EXCEPT ![t] = label]

\* The worker is in socket.stop().
Stopping == pc[Worker] \in {"killing", "stopping"}

\* Mutant: the worker calls stop() with mutex_ held.
Bug_StopUnderMutex == mutex = Nobody /\ ~Stopping /\ UNCHANGED mutex

\* A critical section under mutex_ within this step.
Locked == mutex = Nobody /\ UNCHANGED mutex

\* The worker thread can be joined without waiting for it.
WorkerDone == pc[Worker] \in {"none", "exited"}

-----------------------------------------------------------------------------
(***************************************************************************)
(* connect() and disconnect().                                             *)
(***************************************************************************)

Call(c) ==
    /\ At(c, "idle")
    /\ \E operation \in {"connect", "disconnect", "resubscribe"} : Goto(c, operation)
    /\ UNCHANGED <<lifecycle, mutex, flags, handle, socket, silence, reported>>

\* Mutant: no lifecycleMutex_.
Bug_NoLifecycleLock(c) ==
    /\ UNCHANGED lifecycle
    /\ \/ At(c, "connect") /\ Goto(c, "guard")
       \/ At(c, "disconnect") /\ Goto(c, "halt")
    /\ UNCHANGED <<mutex, flags, handle, socket, silence, reported>>

LockLifecycle(c) ==
    /\ lifecycle = Nobody
    /\ lifecycle' = c
    /\ \/ At(c, "connect") /\ Goto(c, "guard")
       \/ At(c, "disconnect") /\ Goto(c, "halt")
    /\ UNCHANGED <<mutex, flags, handle, socket, silence, reported>>

\* Mutant: a session that has seen its terminal event still counts.
Bug_TerminalStillInProgress == flags.workerRunning

SessionInProgress == flags.workerRunning /\ ~flags.sessionTerminal

AlreadyConnected(c) ==
    /\ At(c, "guard")
    /\ Locked
    /\ SessionInProgress
    /\ Goto(c, "idle")
    /\ lifecycle' = Nobody
    /\ UNCHANGED <<flags, handle, socket, silence, reported>>

NeedsSession(c) ==
    /\ At(c, "guard")
    /\ Locked
    /\ ~SessionInProgress
    /\ Goto(c, "reap")
    /\ UNCHANGED <<lifecycle, flags, handle, socket, silence, reported>>

\* Mutant: the retired worker is not waited for, only detached.
Bug_DetachRetired(c) ==
    /\ At(c, "reap")
    /\ Goto(c, "reset")
    /\ UNCHANGED <<lifecycle, mutex, flags, handle, socket, silence, reported>>

Reap(c) ==
    /\ At(c, "reap")
    /\ WorkerDone
    /\ pc' = [pc EXCEPT ![c] = "reset", ![Worker] = "none"]
    /\ UNCHANGED <<lifecycle, mutex, flags, handle, socket, silence, reported>>

Reset(c) ==
    /\ At(c, "reset")
    /\ Locked
    /\ flags' = [NoFlags EXCEPT !.workerRunning = TRUE]
    /\ Goto(c, "announce")
    /\ UNCHANGED <<lifecycle, handle, socket, silence, reported>>

Announce(c) ==
    /\ At(c, "announce")
    /\ reported' = "Connecting"
    /\ Goto(c, "spawn")
    /\ UNCHANGED <<lifecycle, mutex, flags, handle, socket, silence>>

Spawn(c) ==
    /\ At(c, "spawn")
    /\ pc' = [pc EXCEPT ![c] = "idle", ![Worker] = "setup"]
    /\ lifecycle' = Nobody
    /\ UNCHANGED <<mutex, flags, handle, socket, silence, reported>>

Halt(c) ==
    /\ At(c, "halt")
    /\ Locked
    /\ flags' = [flags EXCEPT !.stopRequested = TRUE]
    /\ Goto(c, "join")
    /\ UNCHANGED <<lifecycle, handle, socket, silence, reported>>

\* Mutant: disconnect() leaves the worker to finish by itself.
Bug_DisconnectDoesNotWait(c) ==
    /\ At(c, "join")
    /\ Goto(c, "idle")
    /\ lifecycle' = Nobody
    /\ UNCHANGED <<mutex, flags, handle, socket, silence, reported>>

Join(c) ==
    /\ At(c, "join")
    /\ WorkerDone
    /\ pc' = [pc EXCEPT ![c] = "idle", ![Worker] = "none"]
    /\ lifecycle' = Nobody
    /\ UNCHANGED <<mutex, flags, handle, socket, silence, reported>>

-----------------------------------------------------------------------------
(***************************************************************************)
(* resubscribe() and sendText(), on any thread.                            *)
(***************************************************************************)

\* Where a thread goes when the client's handler, or resubscribe(), returns.
\* The socket library ends its thread after the terminal callback.
Returned(t) ==
    IF t \in Caller
    THEN "idle"
    ELSE IF socket = "closed" THEN "none" ELSE "idle"

Resubscribe(t) ==
    /\ At(t, "resubscribe")
    /\ Locked
    /\ Goto(t, IF flags.connected /\ handle THEN "send" ELSE Returned(t))
    /\ UNCHANGED <<lifecycle, flags, handle, socket, silence, reported>>

\* sendText() was called with one of the source's three requests.
WantsToSend(t) == pc[t] \in {"send", "subscribe", "ping"}

Sending(t) == pc[t] \in {"sending", "subscribing", "pinging"}

During(label) ==
    CASE label = "send"      -> "sending"
      [] label = "subscribe" -> "subscribing"
      [] label = "ping"      -> "pinging"

\* Where sendText() returns to.
AfterSend(t) ==
    CASE pc[t] \in {"send", "sending"}          -> Returned(t)
      [] pc[t] \in {"subscribe", "subscribing"} -> "opened"
      [] pc[t] \in {"ping", "pinging"}          -> "loop"

\* Mutant: sendText() relies on its caller's test of handle_.
Bug_SendUnchecked(t) ==
    /\ WantsToSend(t)
    /\ mutex = Nobody
    /\ mutex' = t
    /\ Goto(t, During(pc[t]))
    /\ UNCHANGED <<lifecycle, flags, handle, socket, silence, reported>>

Send(t) ==
    /\ WantsToSend(t)
    /\ mutex = Nobody
    /\ handle
    /\ mutex' = t
    /\ Goto(t, During(pc[t]))
    /\ UNCHANGED <<lifecycle, flags, handle, socket, silence, reported>>

\* The session has gone since: only ++errorEvents_.
NothingToSendOn(t) ==
    /\ WantsToSend(t)
    /\ Locked
    /\ ~handle
    /\ Goto(t, AfterSend(t))
    /\ UNCHANGED <<lifecycle, flags, handle, socket, silence, reported>>

\* The socket took the message, or refused it: ++errorEvents_.
Sent(t) ==
    /\ Sending(t)
    /\ mutex = t
    /\ mutex' = Nobody
    /\ Goto(t, AfterSend(t))
    /\ UNCHANGED <<lifecycle, flags, handle, socket, silence, reported>>

-----------------------------------------------------------------------------
(***************************************************************************)
(* runWorker().                                                            *)
(***************************************************************************)

Install ==
    /\ At(Worker, "setup")
    /\ Locked
    /\ handle' = TRUE
    /\ Goto(Worker, "start")
    /\ UNCHANGED <<lifecycle, flags, socket, silence, reported>>

StartSocket ==
    /\ At(Worker, "start")
    /\ socket' = "connecting"
    /\ pc' = [pc EXCEPT ![Worker] = "loop", ![Callback] = "idle"]
    /\ UNCHANGED <<lifecycle, mutex, flags, handle, silence, reported>>

\* Mutant: the loop supervises a dead session.
Bug_LoopIgnoresTerminal == flags.stopRequested

LoopEnds == flags.stopRequested \/ flags.sessionTerminal

\* The condition of the loop, with mutex_ held.
TestLoop ==
    /\ At(Worker, "loop")
    /\ Locked
    /\ Goto(Worker, IF LoopEnds THEN "teardown" ELSE "wait")
    /\ UNCHANGED <<lifecycle, flags, handle, socket, silence, reported>>

\* Mutant: the wait is not ended by a service-upgrade notice.
Bug_NoticeIgnored == LoopEnds

(***************************************************************************)
(* wait_for() returns with mutex_ held: notified, after a tick, or for no  *)
(* reason.  A round that finds nothing to do changes nothing.              *)
(***************************************************************************)
MustRetire == LoopEnds \/ flags.closeRequested

WakeToRetire ==
    /\ At(Worker, "wait")
    /\ Locked
    /\ MustRetire
    /\ Goto(Worker, "teardown")
    /\ UNCHANGED <<lifecycle, flags, handle, socket, silence, reported>>

Supervising ==
    /\ At(Worker, "wait")
    /\ Locked
    /\ ~MustRetire
    /\ flags.connected

\* Mutant: the worker pings through resubscribe().
Bug_PingResubscribes ==
    /\ Supervising
    /\ silence >= PingInterval
    /\ ~flags.pingOutstanding
    /\ flags' = [flags EXCEPT !.pingOutstanding = TRUE]
    /\ Goto(Worker, "resubscribe")
    /\ UNCHANGED <<lifecycle, handle, socket, silence, reported>>

\* Mutant: the ping is not remembered.
Bug_PingForgotten ==
    /\ Supervising
    /\ silence >= PingInterval
    /\ ~flags.pingOutstanding
    /\ Goto(Worker, "ping")
    /\ UNCHANGED <<lifecycle, flags, handle, socket, silence, reported>>

WakeToPing ==
    /\ Supervising
    /\ silence >= PingInterval
    /\ ~flags.pingOutstanding
    /\ flags' = [flags EXCEPT !.pingOutstanding = TRUE]
    /\ Goto(Worker, "ping")
    /\ UNCHANGED <<lifecycle, handle, socket, silence, reported>>

WakeToKill ==
    /\ Supervising
    /\ flags.pingOutstanding
    /\ silence >= Deadline
    /\ Goto(Worker, "kill")
    /\ UNCHANGED <<lifecycle, flags, handle, socket, silence, reported>>

\* socket.stop(1000, "pong timeout"), without mutex_, and the final stop().
Stop ==
    /\ \/ At(Worker, "kill") /\ Goto(Worker, "killing")
       \/ At(Worker, "teardown") /\ Goto(Worker, "stopping")
    /\ UNCHANGED <<lifecycle, mutex, flags, handle, socket, silence, reported>>

\* stop() joins the library's thread.
Stopped ==
    /\ Stopping
    /\ At(Callback, "none")
    /\ Goto(Worker, IF At(Worker, "killing") THEN "loop" ELSE "cleanup")
    /\ UNCHANGED <<lifecycle, mutex, flags, handle, socket, silence, reported>>

\* handle_.reset() destroys the socket; the thread ends.
Cleanup ==
    /\ At(Worker, "cleanup")
    /\ Locked
    /\ handle' = FALSE
    /\ socket' = "off"
    /\ flags' = [flags EXCEPT !.workerRunning = FALSE]
    /\ Goto(Worker, "exited")
    /\ UNCHANGED <<lifecycle, silence, reported>>

-----------------------------------------------------------------------------
(***************************************************************************)
(* The message callback.                                                   *)
(***************************************************************************)

\* The handshake succeeds: an Open message, activity.
Handshake ==
    /\ socket = "connecting"
    /\ At(Callback, "idle")
    /\ socket' = "open"
    /\ silence' = 0
    /\ Goto(Callback, "open")
    /\ UNCHANGED <<lifecycle, mutex, flags, handle, reported>>

Opened ==
    /\ At(Callback, "open")
    /\ Locked
    /\ flags' = [flags EXCEPT !.connected = TRUE, !.pingOutstanding = FALSE]
    /\ Goto(Callback, "subscribe")
    /\ UNCHANGED <<lifecycle, handle, socket, silence, reported>>

EmitConnected ==
    /\ At(Callback, "opened")
    /\ reported' = "Connected"
    /\ Goto(Callback, "handler")
    /\ UNCHANGED <<lifecycle, mutex, flags, handle, socket, silence>>

\* A message arrives: a "pong", a service-upgrade notice, an order-book frame
\* for the client's handler, or what only counts as activity (subscription
\* acknowledgements, errors, protocol pings).
Receive ==
    /\ socket = "open"
    /\ At(Callback, "idle")
    /\ silence' = 0
    /\ \E message \in {"pong", "notice", "handler", "idle"} : Goto(Callback, message)
    /\ UNCHANGED <<lifecycle, mutex, flags, handle, socket, reported>>

Pong ==
    /\ At(Callback, "pong")
    /\ Locked
    /\ flags' = [flags EXCEPT !.pingOutstanding = FALSE]
    /\ Goto(Callback, "idle")
    /\ UNCHANGED <<lifecycle, handle, socket, silence, reported>>

Notice ==
    /\ At(Callback, "notice")
    /\ Locked
    /\ flags' = [flags EXCEPT !.closeRequested = TRUE]
    /\ Goto(Callback, "idle")
    /\ UNCHANGED <<lifecycle, handle, socket, silence, reported>>

\* A Close or Error message: the handshake failed, the venue or the network
\* closed the session, or stop() did.
Close ==
    /\ socket \in {"connecting", "open"}
    /\ At(Callback, "idle")
    /\ socket' = "closed"
    /\ Goto(Callback, "closed")
    /\ UNCHANGED <<lifecycle, mutex, flags, handle, silence, reported>>

\* stop() gives up a handshake without a message.
Abandon ==
    /\ socket = "connecting"
    /\ Stopping
    /\ At(Callback, "idle")
    /\ socket' = "closed"
    /\ Goto(Callback, "none")
    /\ UNCHANGED <<lifecycle, mutex, flags, handle, silence, reported>>

Closed ==
    /\ At(Callback, "closed")
    /\ Locked
    /\ flags' = [flags EXCEPT !.connected = FALSE, !.pingOutstanding = FALSE,
                              !.sessionTerminal = TRUE]
    /\ Goto(Callback, "terminal")
    /\ UNCHANGED <<lifecycle, handle, socket, silence, reported>>

EmitDisconnected ==
    /\ At(Callback, "terminal")
    /\ reported' = "Disconnected"
    /\ Goto(Callback, "handler")
    /\ UNCHANGED <<lifecycle, mutex, flags, handle, socket, silence>>

\* The client's handler returns, or calls resubscribe() first.
HandlerReturns ==
    /\ At(Callback, "handler")
    /\ \E label \in {Returned(Callback), "resubscribe"} : Goto(Callback, label)
    /\ UNCHANGED <<lifecycle, mutex, flags, handle, socket, silence, reported>>

\* Time passes; silence beyond the deadline is all the same.
Elapse ==
    /\ silence < Deadline
    /\ silence' = silence + 1
    /\ UNCHANGED <<pc, lifecycle, mutex, flags, handle, socket, reported>>

-----------------------------------------------------------------------------

RequestStep(t) == Resubscribe(t) \/ Send(t) \/ NothingToSendOn(t) \/ Sent(t)

CallerStep(c) ==
    \/ LockLifecycle(c)
    \/ AlreadyConnected(c)
    \/ NeedsSession(c)
    \/ Reap(c)
    \/ Reset(c)
    \/ Announce(c)
    \/ Spawn(c)
    \/ Halt(c)
    \/ Join(c)
    \/ RequestStep(c)

WorkerStep ==
    \/ Install
    \/ StartSocket
    \/ TestLoop
    \/ WakeToRetire
    \/ WakeToPing
    \/ WakeToKill
    \/ Stop
    \/ Stopped
    \/ Cleanup
    \/ RequestStep(Worker)

CallbackStep ==
    \/ Opened
    \/ EmitConnected
    \/ Pong
    \/ Notice
    \/ Closed
    \/ EmitDisconnected
    \/ HandlerReturns
    \/ RequestStep(Callback)

SocketStep == Handshake \/ Receive \/ Close \/ Abandon

Next ==
    \/ \E c \in Caller : Call(c) \/ CallerStep(c)
    \/ WorkerStep
    \/ CallbackStep
    \/ SocketStep
    \/ Elapse

Spec == Init /\ [][Next]_vars

(***************************************************************************)
(* Fairness: every thread that can run does, and gets a lock it waits for: *)
(* critical sections are short, and the loop's tick wakes the worker even  *)
(* when nothing notifies it.  A stopped socket ends its session.  Time     *)
(* passes.  Nothing obliges a host to call, or the venue to send, answer   *)
(* or close.                                                               *)
(***************************************************************************)
Fairness ==
    /\ \A c \in Caller : SF_vars(CallerStep(c))
    /\ SF_vars(WorkerStep)
    /\ SF_vars(CallbackStep)
    /\ SF_vars(Stopping /\ (Close \/ Abandon))
    /\ WF_vars(Elapse)

FairSpec == Spec /\ Fairness

-----------------------------------------------------------------------------
(***************************************************************************)
(* Properties.                                                             *)
(***************************************************************************)

CallerLabels ==
    {"idle", "connect", "guard", "reap", "reset", "announce", "spawn",
     "disconnect", "halt", "join", "resubscribe", "send", "sending"}

WorkerLabels ==
    {"none", "setup", "start", "loop", "wait", "ping", "pinging", "kill",
     "killing", "teardown", "stopping", "cleanup", "exited"}

CallbackLabels ==
    {"none", "idle", "open", "subscribe", "subscribing", "opened", "pong",
     "notice", "closed", "terminal", "handler", "resubscribe", "send", "sending"}

\* Every variable has its type.
TypeOK ==
    /\ pc \in [Thread -> CallerLabels \cup WorkerLabels \cup CallbackLabels]
    /\ \A c \in Caller : pc[c] \in CallerLabels
    /\ pc[Worker] \in WorkerLabels
    /\ pc[Callback] \in CallbackLabels
    /\ lifecycle \in Caller \cup {Nobody}
    /\ mutex \in Thread \cup {Nobody}
    /\ flags \in [workerRunning : BOOLEAN, stopRequested : BOOLEAN,
                  connected : BOOLEAN, sessionTerminal : BOOLEAN,
                  closeRequested : BOOLEAN, pingOutstanding : BOOLEAN]
    /\ handle \in BOOLEAN
    /\ socket \in {"off", "connecting", "open", "closed"}
    /\ silence \in 0..Deadline
    /\ reported \in {"Disconnected", "Connecting", "Connected"}

\* The session as the client knows it: a worker is, or is about to be, there
\* for it, and its Disconnected has not been emitted.
Session ==
    IF reported = "Disconnected" \/ (WorkerDone /\ \A c \in Caller : ~At(c, "spawn"))
    THEN "down"
    ELSE IF reported = "Connecting" THEN "opening" ELSE "up"

\* A handler of the client's is running on the library's thread.
InHandler == pc[Callback] \in {"handler", "resubscribe", "send", "sending"}

Promised == INSTANCE FeedSource WITH session <- Session, busy <- InHandler

\* The threads and locks amount to the promise a client relies on: one session
\* at a time, Connecting then Connected then Disconnected, each once, no frame
\* outside, no session before the last handler of the previous one returned.
Contract == Promised!Spec

\* A physical connection is destroyed only when nothing can touch it any more:
\* no request is being written to it and its callback thread is gone; so every
\* sendText() that passed its test of handle_ finishes on a live socket.
SocketOutlivesItsUsers ==
    /\ mutex # Nobody => handle
    /\ pc[Callback] # "none" => handle

\* No worker is spawned over one that was not joined (std::thread would
\* terminate the process), and no two threads are joining the same worker,
\* whoever calls connect() and disconnect() together ("reaping/spawning the
\* worker thread is atomic", OkxWebSocketSource.h).
ReapingIsExclusive ==
    /\ \A c, d \in Caller :
        {pc[c], pc[d]} \subseteq {"reap", "join"} => c = d
    /\ \A c \in Caller :
        pc[c] \in {"reset", "announce", "spawn"} => pc[Worker] = "none"

\* Once disconnect() has returned, and until the next connect(), nothing of
\* the session is left: no thread, no socket, no handler running.
QuietAfterDisconnect ==
    flags.stopRequested /\ lifecycle = Nobody =>
        /\ pc[Worker] = "none"
        /\ pc[Callback] = "none"
        /\ ~handle

\* A connect() that returns without a new session leaves the client one that
\* it has not been told is over, so the client does not wait for a session
\* that nobody is establishing.
ConnectIsNotSwallowed ==
    [][\A c \in Caller : AlreadyConnected(c) => Session # "down"]_vars

\* Every call of the host returns: the joins, the locks and the callbacks that
\* re-enter resubscribe() never wait for each other.
CallsReturn == \A c \in Caller : ~At(c, "idle") ~> At(c, "idle")

\* A session that saw its terminal event gives up its worker and its socket,
\* without a host asking for it.
DeadSessionRetires == flags.sessionTerminal ~> (WorkerDone \/ ~flags.sessionTerminal)

\* A service-upgrade notice ends the session that it announces the end of.
UpgradeReconnects ==
    flags.closeRequested ~> (reported = "Disconnected" \/ ~flags.closeRequested)

\* A peer that went silent without closing is found out.
SilentPeerIsDropped ==
    (flags.connected /\ silence = Deadline)
        ~> (~flags.connected \/ silence < Deadline)
=============================================================================
