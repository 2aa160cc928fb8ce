---------------------------- MODULE EventsSocket ----------------------------
(***************************************************************************)
(* dashboard/lib/events-socket.mjs: the lifecycle of the /events socket of *)
(* a page.  An action is one callback, run to completion, of the browser's *)
(* event loop; the handlers that it calls are the page's, and an action is *)
(* only the socket's part of them.                                         *)
(*                                                                         *)
(* Sockets and timers are numbered and their numbers reused, so that there *)
(* can be more of them than the code means to have.  The length of the     *)
(* backoff is left out: a timer fires some time after it is set.           *)
(***************************************************************************)
EXTENDS Naturals

CONSTANT MaxHandles     \* bound: sockets, and timers, at one time

ASSUME SocketAssumption == MaxHandles \in Nat \ {0}

Handle == 1..MaxHandles

VARIABLES
    disposed,
    socket,         \* the variable of that name: a socket, or 0 for null
    retryHandle,    \* likewise: a timer, which may have fired since, or 0
    sockets,        \* readyState of every socket; "none": not in use
    deaf,           \* sockets whose handlers were set to null
    timers          \* timers set and neither fired nor cancelled

socketVars == <<disposed, socket, retryHandle, sockets, deaf, timers>>

\* open(), called by connectEventSocket itself.
InitSocket ==
    /\ disposed = FALSE
    /\ socket = 1
    /\ retryHandle = 0
    /\ sockets = [s \in Handle |-> IF s = 1 THEN "connecting" ELSE "none"]
    /\ deaf = {}
    /\ timers = {}

\* A socket's callbacks do something only before the disposal.
Hears(s) == s \notin deaf /\ ~disposed

open ==
    \E s \in Handle :
        /\ sockets[s] = "none"
        /\ socket' = s
        /\ sockets' = [sockets EXCEPT ![s] = "connecting"]

\* The browser completes the handshake.
onopen(s) ==
    /\ sockets[s] = "connecting"
    /\ sockets' = [sockets EXCEPT ![s] = "open"]
    /\ UNCHANGED <<disposed, socket, retryHandle, deaf, timers>>

schedule ==
    \E t \in Handle \ timers :
        /\ timers' = timers \cup {t}
        /\ retryHandle' = t

\* The browser closes the socket, and forgets it.
onclose(s) ==
    /\ sockets[s] # "none"
    /\ sockets' = [sockets EXCEPT ![s] = "none"]
    /\ deaf' = deaf \ {s}
    /\ IF Hears(s) THEN schedule ELSE UNCHANGED <<timers, retryHandle>>
    /\ UNCHANGED <<disposed, socket>>

\* The connection fails: onerror closes the current socket.
onerror(s) ==
    /\ sockets[s] \in {"connecting", "open"}
    /\ sockets' = [sockets EXCEPT ![IF Hears(s) THEN socket ELSE s] = "closing"]
    /\ UNCHANGED <<disposed, socket, retryHandle, deaf, timers>>

TimerFires(t) ==
    /\ t \in timers
    /\ timers' = timers \ {t}
    /\ IF disposed THEN UNCHANGED <<socket, sockets>> ELSE open
    /\ UNCHANGED <<disposed, retryHandle, deaf>>

\* Mutant: the disposer closes the socket and forgets the timer.
Bug_DisposeKeepsTimer ==
    /\ disposed' = TRUE
    /\ socket' = 0
    /\ sockets' = [s \in Handle |->
                      IF s = socket /\ sockets[s] # "none" THEN "closing" ELSE sockets[s]]
    /\ deaf' = deaf \cup ({socket} \ {s \in Handle : sockets[s] = "none"})
    /\ UNCHANGED <<retryHandle, timers>>

\* The disposer: cancels the timer, silences the socket and closes it.
Dispose ==
    /\ disposed' = TRUE
    /\ timers' = timers \ {retryHandle}
    /\ retryHandle' = 0
    /\ socket' = 0
    /\ sockets' = [s \in Handle |->
                      IF s = socket /\ sockets[s] # "none" THEN "closing" ELSE sockets[s]]
    /\ deaf' = deaf \cup ({socket} \ {s \in Handle : sockets[s] = "none"})

=============================================================================
