----------------------------- MODULE Dashboard -----------------------------
(***************************************************************************)
(* dashboard/app/page.tsx on top of EventsSocket: a page that merges what  *)
(* the engine pushes on /events with what it polls from /book and /health, *)
(* and the rules of dashboard/lib/status.mjs by which it shows them.       *)
(*                                                                         *)
(* The engine is EngineServer seen from the network: a sequence of views,  *)
(* of which each answer and each event carries the one served at the time. *)
(* A book on the page is the view its depth comes from and the one its     *)
(* sequence number (and mid, and spread) come from; 0 stands for null.     *)
(* Ages are in polls: the interval that polls also drives the labels.      *)
(***************************************************************************)
EXTENDS EventsSocket, FiniteSets, Sequences

CONSTANTS
    Views,              \* the engine's views, in order
    BookStale,          \* BOOK_STALE_MS, in polls
    RestUnavailable,    \* REST_UNAVAILABLE_MS, in polls
    MaxFailures,        \* bound: connections and requests that fail
    MaxRequests         \* bound: requests under way on one path

ASSUME DashboardAssumption ==
    /\ Views \in Seq([sequence : Nat, ready : BOOLEAN])
    /\ Views # <<>>
    /\ BookStale \in Nat
    /\ RestUnavailable \in Nat
    /\ MaxFailures \in Nat
    /\ MaxRequests \in Nat \ {0}

VARIABLES
    engine,     \* the view the engine serves
    up,         \* the engine can be reached; once it cannot, it never can
    failures,   \* failures so far while it can
    pushed,     \* pushed[s]: the view of the event under way on s, or 0
    inFlight,   \* bookInFlight and healthInFlight
    requests,   \* requests[path]: the view each carries; 0 on the way out
    wsState,
    book,       \* the views that its depth and its label are of
    health,     \* the view it is of
    bookAge,    \* polls since bookUpdatedAt, at most BookStale
    restAge     \* polls since lastRestSuccessAt, at most RestUnavailable

Path == {"book", "health"}
Null == 1000    \* the age of what was never updated

page == <<wsState, book, health, bookAge, restAge>>
network == <<engine, up, failures, pushed, requests>>
vars == <<socketVars, network, inFlight, page>>

\* Mounting the page opens the socket and polls both paths.
Init ==
    /\ InitSocket
    /\ engine = 1
    /\ up = TRUE
    /\ failures = 0
    /\ pushed = [s \in Handle |-> 0]
    /\ inFlight = [p \in Path |-> TRUE]
    /\ requests = [p \in Path |-> <<0>>]
    /\ wsState = "connecting"
    /\ book = [depth |-> 0, label |-> 0]
    /\ health = 0
    /\ bookAge = Null
    /\ restAge = Null

-----------------------------------------------------------------------------
(* The engine and the network. *)

Advance ==
    /\ engine < Len(Views)
    /\ engine' = engine + 1
    /\ UNCHANGED <<socketVars, up, failures, pushed, requests, inFlight, page>>

GoDown ==
    /\ up
    /\ up' = FALSE
    /\ UNCHANGED <<socketVars, engine, failures, pushed, requests, inFlight, page>>

\* Something fails: for lack of an engine, or as one of MaxFailures.
Fail ==
    /\ failures' = IF up THEN failures + 1 ELSE failures
    /\ up => failures < MaxFailures

Push(s) ==
    /\ up
    /\ sockets[s] = "open"
    /\ pushed[s] = 0
    /\ pushed' = [pushed EXCEPT ![s] = engine]
    /\ UNCHANGED <<socketVars, engine, up, failures, requests, inFlight, page>>

Serve(path) ==
    /\ up
    /\ \E i \in DOMAIN requests[path] :
        /\ requests[path][i] = 0
        /\ requests' = [requests EXCEPT ![path][i] = engine]
    /\ UNCHANGED <<socketVars, engine, up, failures, pushed, inFlight, page>>

-----------------------------------------------------------------------------
(* The socket, with the page's handlers. *)

Opens(s) ==
    /\ up
    /\ onopen(s)
    /\ wsState' = IF Hears(s) THEN "connected" ELSE wsState
    /\ UNCHANGED <<network, inFlight, book, health, bookAge, restAge>>

\* onEvent: the health is replaced, and a book that is there is relabelled; its
\* depth stays.
onEvent(s) ==
    /\ sockets[s] = "open"
    /\ pushed[s] # 0
    /\ pushed' = [pushed EXCEPT ![s] = 0]
    /\ IF Hears(s)
       THEN /\ wsState' = "connected"
            /\ health' = pushed[s]
            /\ book' = IF book.depth = 0 THEN book ELSE [book EXCEPT !.label = pushed[s]]
       ELSE UNCHANGED <<wsState, health, book>>
    /\ UNCHANGED <<socketVars, engine, up, failures, requests, inFlight, bookAge, restAge>>

Errors(s) ==
    /\ onerror(s)
    /\ Fail
    /\ UNCHANGED <<engine, up, pushed, requests, inFlight, page>>

\* A socket that is closing closes; any other may be closed by the engine.
Closes(s) ==
    /\ onclose(s)
    /\ pushed' = [pushed EXCEPT ![s] = 0]
    /\ wsState' = IF Hears(s) THEN "reconnecting" ELSE wsState
    /\ IF sockets[s] = "closing" THEN UNCHANGED failures ELSE Fail
    /\ UNCHANGED <<engine, up, requests, inFlight, book, health, bookAge, restAge>>

Retry(t) == TimerFires(t) /\ UNCHANGED <<network, inFlight, page>>

-----------------------------------------------------------------------------
(* Polling. *)

Older(age, limit) == IF age = Null THEN Null ELSE IF age < limit THEN age + 1 ELSE limit

\* Mutant: requests are sent whether or not the last one has been answered.
Bug_OverlappingPolls(path) == Len(requests[path]) < MaxRequests

MaySend(path) == ~inFlight[path] /\ Len(requests[path]) < MaxRequests

\* The interval: the page grows older and polls what is not in flight.
Poll ==
    /\ ~disposed
    /\ requests' = [p \in Path |-> IF MaySend(p) THEN Append(requests[p], 0) ELSE requests[p]]
    /\ inFlight' = [p \in Path |-> inFlight[p] \/ MaySend(p)]
    /\ bookAge' = Older(bookAge, BookStale)
    /\ restAge' = Older(restAge, RestUnavailable)
    /\ UNCHANGED <<socketVars, engine, up, failures, pushed, wsState, book, health>>

Without(s, i) == SubSeq(s, 1, i - 1) \o SubSeq(s, i + 1, Len(s))

Finish(path, i) ==
    /\ requests' = [requests EXCEPT ![path] = Without(requests[path], i)]
    /\ inFlight' = [inFlight EXCEPT ![path] = FALSE]
    /\ UNCHANGED <<socketVars, engine, up, pushed, wsState>>

\* A successful answer, which is dropped once the page is disposed of.
BookArrives(i) ==
    /\ requests["book"][i] # 0
    /\ Finish("book", i)
    /\ IF disposed
       THEN UNCHANGED <<book, bookAge, restAge>>
       ELSE /\ book' = [depth |-> requests["book"][i], label |-> requests["book"][i]]
            /\ bookAge' = 0
            /\ restAge' = 0
    /\ UNCHANGED <<failures, health>>

HealthArrives(i) ==
    /\ requests["health"][i] # 0
    /\ Finish("health", i)
    /\ IF disposed
       THEN UNCHANGED <<health, restAge>>
       ELSE health' = requests["health"][i] /\ restAge' = 0
    /\ UNCHANGED <<failures, book, bookAge>>

\* Mutant: the flag is only reset by an answer.
Bug_FailedPollStaysInFlight(path, i) ==
    /\ requests' = [requests EXCEPT ![path] = Without(requests[path], i)]
    /\ Fail
    /\ UNCHANGED <<socketVars, engine, up, pushed, inFlight, page>>

\* Mutant: a failed poll counts as an update of the book.
Bug_FailureRefreshes(path, i) ==
    /\ Finish(path, i)
    /\ Fail
    /\ bookAge' = 0
    /\ UNCHANGED <<book, health, restAge>>

\* No answer, or one that is not OK: what is shown stays.
PollFails(path, i) ==
    /\ Finish(path, i)
    /\ Fail
    /\ UNCHANGED <<book, health, bookAge, restAge>>

\* Unmounting runs the cleanup of both effects.
Unmount ==
    /\ ~disposed
    /\ Dispose
    /\ UNCHANGED <<network, inFlight, page>>

-----------------------------------------------------------------------------

SocketStep ==
    \/ \E s \in Handle : Opens(s) \/ onEvent(s) \/ Errors(s) \/ Closes(s)
    \/ \E t \in Handle : Retry(t)

Answered(path) ==
    \E i \in DOMAIN requests[path] :
        \/ path = "book" /\ BookArrives(i)
        \/ path = "health" /\ HealthArrives(i)
        \/ PollFails(path, i)

EngineStep == Advance \/ GoDown \/ (\E s \in Handle : Push(s)) \/ \E p \in Path : Serve(p)

Next == EngineStep \/ SocketStep \/ Poll \/ (\E p \in Path : Answered(p)) \/ Unmount

Spec == Init /\ [][Next]_vars

(***************************************************************************)
(* Fairness: the interval and the timers fire; while the engine can be     *)
(* reached it serves requests, pushes events and completes handshakes; a   *)
(* fetch ends one way or the other, and a socket that is closing closes.   *)
(***************************************************************************)
Fairness ==
    /\ WF_vars(Poll)
    /\ \A p \in Path : WF_vars(Serve(p)) /\ WF_vars(Answered(p))
    /\ \A s \in Handle :
        /\ WF_vars(Opens(s))
        /\ WF_vars(Push(s))
        /\ WF_vars(onEvent(s))
        /\ WF_vars(sockets[s] = "closing" /\ Closes(s))
    /\ \A t \in Handle : WF_vars(Retry(t))

FairSpec == Spec /\ Fairness

-----------------------------------------------------------------------------
(* What the page shows. *)

isBookFresh == bookAge # Null /\ bookAge < BookStale

restAvailability == IF restAge = Null THEN "unknown"
                    ELSE IF restAge < RestUnavailable THEN "yes" ELSE "no"

connectionDisplayState ==
    IF wsState = "connected" THEN "connected"
    ELSE [unknown |-> "connecting", yes |-> "reconnecting", no |-> "unavailable"][restAvailability]

bookVerification ==
    IF book.label = 0 \/ ~isBookFresh THEN "stale"
    ELSE IF Views[book.label].sequence = 0 THEN "stale"
    ELSE IF health = 0 THEN "awaiting-health"
    ELSE IF Views[health].ready THEN "verified"
    ELSE "unverified"

Heard == {s \in Handle : sockets[s] # "none" /\ s \notin deaf}

\* A mounted page has one stream or one retry under way, never both and never
\* neither, in whatever way its connections fail; once it is unmounted no socket
\* calls a handler and no timer opens one (events-socket.mjs:24-25).
OneStreamWhileMounted ==
    Cardinality(Heard) + Cardinality(timers) = IF disposed THEN 0 ELSE 1

\* The depth shown never goes back to an older book, however long an answer is
\* under way; and an unmounted page is not written to.
DepthNeverGoesBack ==
    [][book'.depth >= book.depth /\ (disposed => UNCHANGED page)]_vars

\* Failures pass: a page whose engine can be reached ends up connected, and
\* showing depth, label and health of the engine's current view.
PageConverges ==
    <>[](up /\ ~disposed => /\ connectionDisplayState = "connected"
                            /\ book = [depth |-> engine, label |-> engine]
                            /\ health = engine)

\* A lost engine shows: the book on the page does not stay verified, although
\* its last health said it was ready, nor the API available.  (The stream may
\* still be said to be connected: nothing tells a silent loss from a quiet
\* engine there.)
OutageShows ==
    <>[](~up /\ ~disposed => bookVerification = "stale" /\ restAvailability # "yes")

=============================================================================
