-------------------------- MODULE Dashboard_proofs --------------------------
(***************************************************************************)
(* The two safety properties of Dashboard for every value of its           *)
(* constants: any number of sockets and timers that may exist at a time,   *)
(* any sequence of views, and any number of failures and of requests.      *)
(***************************************************************************)
EXTENDS Dashboard, FiniteSetTheorems, TLAPS

-----------------------------------------------------------------------------
(***************************************************************************)
(* One stream.  OneStreamWhileMounted counts; what is inductive is who is  *)
(* counted: before the disposal the only socket in use is the one that     *)
(* open() stored last, or there is none and the only timer is the one that *)
(* schedule() stored last, so that the disposer, which knows no others,    *)
(* cancels or silences whatever there is.                                  *)
(***************************************************************************)

SocketTypes ==
    /\ disposed \in BOOLEAN
    /\ sockets \in [Handle -> {"none", "connecting", "open", "closing"}]
    /\ deaf \subseteq Handle
    /\ timers \subseteq Handle

Streaming == timers = {} /\ \A s \in Handle : sockets[s] # "none" <=> s = socket

Retrying == timers = {retryHandle} /\ \A s \in Handle : sockets[s] = "none"

SocketInv ==
    /\ SocketTypes
    /\ \A s \in deaf : sockets[s] # "none"
    /\ ~disposed =>
        /\ deaf = {}
        /\ socket \in Handle
        /\ Streaming \/ Retrying
    /\ disposed =>
        /\ timers = {}
        /\ \A s \in Handle : sockets[s] # "none" => s \in deaf

LEMMA InitSocketInv == Init => SocketInv
  <1> SUFFICES ASSUME InitSocket PROVE SocketInv
    BY DEF Init
  <1>1. ~disposed /\ socket \in Handle /\ deaf = {} /\ timers = {}
    BY SocketAssumption DEF InitSocket, Handle
  <1>2. Streaming
    BY DEF InitSocket, Streaming
  <1>3. sockets \in [Handle -> {"none", "connecting", "open", "closing"}]
    BY DEF InitSocket
  <1>4. disposed \in BOOLEAN
    BY DEF InitSocket
  <1> QED
    BY <1>1, <1>2, <1>3, <1>4 DEF SocketInv, SocketTypes

\* The socket's part of what happens elsewhere.
SocketUnchanged == UNCHANGED socketVars

\* A step either leaves the socket alone or is one of six callbacks.
LEMMA SocketSteps ==
    ASSUME [Next]_vars
    PROVE  \/ SocketUnchanged
           \/ \E s \in Handle : onopen(s) \/ onerror(s) \/ onclose(s)
           \/ \E t \in Handle : TimerFires(t)
           \/ ~disposed /\ Dispose
  <1> USE DEF SocketUnchanged
  <1>1. CASE EngineStep
    BY <1>1 DEF EngineStep, Advance, GoDown, Push, Serve
  <1>2. CASE SocketStep
    BY <1>2 DEF SocketStep, Opens, onEvent, Errors, Closes, Retry
  <1>3. CASE Poll
    BY <1>3 DEF Poll
  <1>4. CASE \E p \in Path : Answered(p)
    BY <1>4 DEF Answered, BookArrives, HealthArrives, PollFails, Finish
  <1>5. CASE Unmount
    BY <1>5 DEF Unmount
  <1>6. CASE UNCHANGED vars
    BY <1>6 DEF vars
  <1> QED
    BY <1>1, <1>2, <1>3, <1>4, <1>5, <1>6 DEF Next

\* A mounted page hears every socket in use, and it is the one it remembers.
LEMMA InUseIsSocket ==
    ASSUME SocketInv, ~disposed, NEW s \in Handle, sockets[s] # "none"
    PROVE  s = socket /\ Streaming /\ Hears(s)
  BY DEF SocketInv, Streaming, Retrying, Hears

LEMMA OpenKeepsSocketInv ==
    ASSUME SocketInv, NEW s \in Handle, onopen(s)
    PROVE  SocketInv'
  <1>1. SocketTypes'
    BY DEF onopen, SocketInv, SocketTypes
  <1>2. \A h \in Handle : sockets'[h] # "none" <=> sockets[h] # "none"
    BY DEF onopen, SocketInv, SocketTypes
  <1> QED
    BY <1>1, <1>2 DEF onopen, SocketInv, SocketTypes, Streaming, Retrying

\* An error closes the socket it comes from: with handlers, that is the current one.
LEMMA ErrorKeepsSocketInv ==
    ASSUME SocketInv, NEW s \in Handle, onerror(s)
    PROVE  SocketInv'
  <1>1. (IF Hears(s) THEN socket ELSE s) = s
    BY InUseIsSocket DEF onerror, Hears
  <1>2. sockets' = [sockets EXCEPT ![s] = "closing"]
    BY <1>1 DEF onerror
  <1>3. SocketTypes'
    BY <1>2 DEF onerror, SocketInv, SocketTypes
  <1>4. \A h \in Handle : sockets'[h] # "none" <=> sockets[h] # "none"
    BY <1>2 DEF onerror, SocketInv, SocketTypes
  <1> QED
    BY <1>3, <1>4 DEF onerror, SocketInv, SocketTypes, Streaming, Retrying

\* The socket closes: its page, if it hears it, waits for one timer.
LEMMA CloseKeepsSocketInv ==
    ASSUME SocketInv, NEW s \in Handle, onclose(s)
    PROVE  SocketInv'
  <1>1. /\ sockets' = [sockets EXCEPT ![s] = "none"]
        /\ deaf' = deaf \ {s}
        /\ UNCHANGED <<disposed, socket>>
    BY DEF onclose
  <1>2. \A h \in Handle : sockets'[h] # "none" <=> sockets[h] # "none" /\ h # s
    BY <1>1 DEF SocketInv, SocketTypes
  <1>3. CASE disposed
    <2>1. UNCHANGED <<timers, retryHandle>>
      BY <1>3 DEF onclose, Hears
    <2>2. SocketTypes'
      BY <1>1, <2>1 DEF SocketInv, SocketTypes
    <2> QED
      BY <1>1, <1>2, <1>3, <2>1, <2>2 DEF SocketInv, SocketTypes
  <1>4. CASE ~disposed
    <2>1. s = socket /\ Streaming /\ schedule
      BY <1>4, InUseIsSocket DEF onclose
    <2>2. PICK t \in Handle \ timers : timers' = timers \cup {t} /\ retryHandle' = t
      BY <2>1 DEF schedule
    <2>3. Retrying'
      BY <1>2, <2>1, <2>2 DEF Streaming, Retrying
    <2>4. SocketTypes'
      BY <1>1, <2>2 DEF SocketInv, SocketTypes
    <2> QED
      BY <1>1, <1>2, <1>4, <2>3, <2>4 DEF SocketInv, SocketTypes
  <1> QED
    BY <1>3, <1>4

\* The timer fires: it was the only one, and there is no socket beside the new one.
LEMMA TimerKeepsSocketInv ==
    ASSUME SocketInv, NEW t \in Handle, TimerFires(t)
    PROVE  SocketInv'
  <1>1. ~disposed /\ Retrying /\ t = retryHandle /\ open
    BY DEF TimerFires, SocketInv, Streaming, Retrying
  <1>2. PICK s \in Handle :
            sockets[s] = "none" /\ socket' = s /\ sockets' = [sockets EXCEPT ![s] = "connecting"]
    BY <1>1 DEF open
  <1>3. timers' = {} /\ UNCHANGED <<disposed, deaf>>
    BY <1>1 DEF TimerFires, Retrying
  <1>4. SocketTypes'
    BY <1>2, <1>3 DEF SocketInv, SocketTypes
  <1>5. Streaming'
    BY <1>1, <1>2, <1>3 DEF Streaming, Retrying, SocketInv, SocketTypes
  <1> QED
    BY <1>1, <1>2, <1>3, <1>4, <1>5 DEF SocketInv

\* The disposer forgets nothing, for there is nothing but what it remembers.
LEMMA DisposeKeepsSocketInv ==
    ASSUME SocketInv, ~disposed, Dispose
    PROVE  SocketInv'
  <1>1. timers' = {}
    BY DEF Dispose, SocketInv, Streaming, Retrying
  <1>2. \A h \in Handle : sockets'[h] # "none" <=> sockets[h] # "none"
    BY DEF Dispose, SocketInv, SocketTypes
  <1>3. deaf' = {h \in Handle : sockets[h] # "none"}
    <2>1. socket \in Handle /\ deaf = {}
      BY DEF SocketInv
    <2>2. \A h \in Handle : sockets[h] # "none" => h = socket
      BY InUseIsSocket
    <2> QED
      BY <2>1, <2>2 DEF Dispose
  <1>4. disposed' = TRUE
    BY DEF Dispose
  <1>5. SocketTypes'
    <2>1. sockets' \in [Handle -> {"none", "connecting", "open", "closing"}]
      BY DEF Dispose, SocketInv, SocketTypes
    <2> QED
      BY <1>1, <1>3, <1>4, <2>1 DEF SocketTypes
  <1> QED
    BY <1>1, <1>2, <1>3, <1>4, <1>5 DEF SocketInv

LEMMA NextSocketInv ==
    ASSUME SocketInv, [Next]_vars
    PROVE  SocketInv'
  <1>1. CASE SocketUnchanged
    BY <1>1 DEF SocketUnchanged, socketVars, SocketInv, SocketTypes, Streaming, Retrying
  <1>2. ASSUME NEW s \in Handle, onopen(s) \/ onerror(s) \/ onclose(s) PROVE SocketInv'
    BY <1>2, OpenKeepsSocketInv, ErrorKeepsSocketInv, CloseKeepsSocketInv
  <1>3. ASSUME NEW t \in Handle, TimerFires(t) PROVE SocketInv'
    BY <1>3, TimerKeepsSocketInv
  <1>4. CASE ~disposed /\ Dispose
    BY <1>4, DisposeKeepsSocketInv
  <1> QED
    BY <1>1, <1>2, <1>3, <1>4, SocketSteps

\* The invariant counts: one set is empty and the other a singleton, or both are empty.
LEMMA SocketInvCounts == SocketInv => OneStreamWhileMounted
  <1> SUFFICES ASSUME SocketInv PROVE OneStreamWhileMounted
    OBVIOUS
  <1>1. CASE disposed
    <2>1. Heard = {} /\ timers = {}
      BY <1>1 DEF SocketInv, Heard
    <2> QED
      BY <1>1, <2>1, FS_EmptySet DEF OneStreamWhileMounted
  <1>2. CASE ~disposed /\ Streaming
    <2>1. Heard = {socket} /\ timers = {}
      BY <1>2 DEF SocketInv, Streaming, Heard
    <2>2. Cardinality({socket}) = 1
      BY FS_Singleton
    <2> QED
      BY <1>2, <2>1, <2>2, FS_EmptySet DEF OneStreamWhileMounted
  <1>3. CASE ~disposed /\ Retrying
    <2>1. Heard = {} /\ timers = {retryHandle}
      BY <1>3 DEF Retrying, Heard
    <2>2. Cardinality({retryHandle}) = 1
      BY FS_Singleton
    <2> QED
      BY <1>3, <2>1, <2>2, FS_EmptySet DEF OneStreamWhileMounted
  <1> QED
    BY <1>1, <1>2, <1>3 DEF SocketInv

\* A mounted page has one stream or one retry under way, and an unmounted one
\* neither, however many sockets and timers there could be at a time and in
\* whatever way connections fail (connectEventSocket and its disposer).
THEOREM OneStream == Spec => []OneStreamWhileMounted
  <1>1. Init => SocketInv
    BY InitSocketInv
  <1>2. SocketInv /\ [Next]_vars => SocketInv'
    BY NextSocketInv
  <1>3. SocketInv => OneStreamWhileMounted
    BY SocketInvCounts
  <1> QED
    BY <1>1, <1>2, <1>3, PTL DEF Spec

-----------------------------------------------------------------------------
(***************************************************************************)
(* The depth.  A path has at most one request under way, since it is       *)
(* marked in flight until it ends; and an answer under way was served      *)
(* after whatever is on the page, by an engine that only moves on.         *)
(***************************************************************************)

BookType == [depth : Nat, label : Nat]

NoOlder(view) == view = 0 \/ view >= book.depth

PollInv ==
    /\ engine \in Nat
    /\ pushed \in [Handle -> Nat]
    /\ inFlight \in [Path -> BOOLEAN]
    /\ requests \in [Path -> Seq(Nat)]
    /\ book \in BookType
    /\ book.depth <= engine
    /\ \A p \in Path :
        \/ requests[p] = <<>>
        \/ inFlight[p] /\ \E view \in 0..engine : requests[p] = <<view>>
    /\ \A i \in DOMAIN requests["book"] : NoOlder(requests["book"][i])

\* A path is idle, or has one request under way on which it is marked in flight.
LEMMA OneRequest ==
    ASSUME PollInv, NEW p \in Path, NEW i \in DOMAIN requests[p]
    PROVE  /\ i = 1
           /\ inFlight[p]
           /\ requests[p][1] \in 0..engine
           /\ requests[p] = <<requests[p][1]>>
           /\ Without(requests[p], i) = <<>>
  <1>1. PICK view \in 0..engine : inFlight[p] /\ requests[p] = <<view>>
    BY DEF PollInv
  <1>2. i = 1
    BY <1>1
  <1>3. Without(<<view>>, 1) = <<>>
    BY DEF Without
  <1> QED
    BY <1>1, <1>2, <1>3

LEMMA InitPollInv == Init => PollInv
  BY DEF Init, PollInv, Path, BookType, NoOlder

LEMMA AdvanceKeepsPollInv ==
    ASSUME PollInv, Advance
    PROVE  PollInv'
  BY DEF PollInv, BookType, NoOlder, Advance, page

LEMMA ServeKeepsPollInv ==
    ASSUME PollInv, NEW path \in Path, Serve(path)
    PROVE  PollInv'
  <1>1. PICK i \in DOMAIN requests[path] : requests' = [requests EXCEPT ![path][i] = engine]
    BY DEF Serve
  <1>2. i = 1 /\ inFlight[path] /\ requests[path] = <<requests[path][1]>>
    BY OneRequest
  <1>3. requests[path] \in Seq(Nat) /\ engine \in Nat
    BY DEF PollInv
  <1>4. [requests[path] EXCEPT ![1] = engine] = <<engine>>
    BY <1>2, <1>3
  <1>5. requests' = [requests EXCEPT ![path] = <<engine>>]
    BY <1>1, <1>2, <1>4 DEF PollInv
  <1>6. requests' \in [Path -> Seq(Nat)]
    BY <1>5 DEF PollInv
  <1>7. /\ requests'[path] = <<engine>>
        /\ \A p \in Path \ {path} : requests'[p] = requests[p]
    BY <1>5 DEF PollInv
  <1>8. UNCHANGED <<engine, pushed, inFlight, book>>
    BY DEF Serve, page
  <1>9. \A i_1 \in DOMAIN requests'["book"] : NoOlder(requests'["book"][i_1])
    BY <1>7, <1>8 DEF PollInv, BookType, NoOlder, Path
  <1> QED
    BY <1>2, <1>6, <1>7, <1>8, <1>9 DEF PollInv, NoOlder

\* Only a path that is not in flight sends: it has nothing under way.
LEMMA PollKeepsPollInv ==
    ASSUME PollInv, Poll
    PROVE  PollInv'
  <1>1. UNCHANGED <<engine, pushed, book>>
    BY DEF Poll
  <1>2. ASSUME NEW p \in Path, MaySend(p)
        PROVE  requests[p] = <<>> /\ requests'[p] = <<0>> /\ inFlight'[p]
    <2>1. requests[p] = <<>>
      BY <1>2 DEF MaySend, PollInv
    <2>2. requests'[p] = Append(requests[p], 0)
      BY <1>2 DEF Poll
    <2>3. inFlight'[p]
      BY <1>2 DEF Poll
    <2> QED
      BY <2>1, <2>2, <2>3
  <1>3. ASSUME NEW p \in Path, ~MaySend(p)
        PROVE  requests'[p] = requests[p] /\ (inFlight'[p] <=> inFlight[p])
    BY <1>3 DEF Poll
  <1>4. requests' \in [Path -> Seq(Nat)]
    BY <1>2, <1>3 DEF Poll, PollInv
  <1>5. inFlight' \in [Path -> BOOLEAN]
    BY DEF Poll, PollInv, MaySend
  <1>6. \A p \in Path :
            \/ requests'[p] = <<>>
            \/ inFlight'[p] /\ \E view \in 0..engine : requests'[p] = <<view>>
    BY <1>2, <1>3 DEF PollInv
  <1>7. \A i \in DOMAIN requests'["book"] : NoOlder(requests'["book"][i])
    BY <1>2, <1>3 DEF PollInv, NoOlder, Path
  <1> QED
    BY <1>1, <1>4, <1>5, <1>6, <1>7 DEF PollInv, NoOlder

\* A request ends: nothing is under way on its path.
LEMMA FinishEmpties ==
    ASSUME PollInv, NEW path \in Path, NEW i \in DOMAIN requests[path], Finish(path, i)
    PROVE  /\ UNCHANGED <<engine, pushed>>
           /\ requests' \in [Path -> Seq(Nat)]
           /\ inFlight' \in [Path -> BOOLEAN]
           /\ requests'[path] = <<>>
           /\ \A p \in Path \ {path} : requests'[p] = requests[p] /\ (inFlight'[p] <=> inFlight[p])
  <1>1. requests' = [requests EXCEPT ![path] = <<>>]
    BY OneRequest DEF Finish
  <1>2. inFlight' = [inFlight EXCEPT ![path] = FALSE]
    BY DEF Finish
  <1>3. inFlight' \in [Path -> BOOLEAN]
    BY <1>2 DEF PollInv
  <1>4. \A p \in Path \ {path} : inFlight'[p] <=> inFlight[p]
    BY <1>2 DEF PollInv
  <1> QED
    BY <1>1, <1>3, <1>4 DEF Finish, PollInv

\* What an answer to a request for the book brings is no older than what it replaces.
LEMMA AnswerIsNoOlder ==
    ASSUME PollInv, NEW i \in DOMAIN requests["book"], BookArrives(i)
    PROVE  /\ book' \in BookType
           /\ book'.depth >= book.depth
           /\ book'.depth <= engine
  <1>1. "book" \in Path
    BY DEF Path
  <1>2. requests["book"][i] \in 0..engine /\ requests["book"][i] # 0
    BY <1>1, OneRequest DEF BookArrives
  <1>3. CASE disposed
    BY <1>3 DEF BookArrives, PollInv, BookType
  <1>4. CASE ~disposed
    BY <1>2, <1>4 DEF BookArrives, PollInv, BookType, NoOlder
  <1> QED
    BY <1>3, <1>4

LEMMA AnsweredKeepsPollInv ==
    ASSUME PollInv, NEW path \in Path, Answered(path)
    PROVE  PollInv' /\ book'.depth >= book.depth
  <1>1. PICK i \in DOMAIN requests[path] :
            \/ path = "book" /\ BookArrives(i)
            \/ path = "health" /\ HealthArrives(i)
            \/ PollFails(path, i)
    BY DEF Answered
  <1>2. Finish(path, i)
    BY <1>1 DEF BookArrives, HealthArrives, PollFails
  <1>3. /\ UNCHANGED <<engine, pushed>>
        /\ requests' \in [Path -> Seq(Nat)]
        /\ inFlight' \in [Path -> BOOLEAN]
        /\ requests'[path] = <<>>
        /\ \A p \in Path \ {path} : requests'[p] = requests[p] /\ (inFlight'[p] <=> inFlight[p])
    BY <1>2, FinishEmpties
  <1>4. /\ book' \in BookType
        /\ book'.depth >= book.depth
        /\ book'.depth <= engine
        /\ path = "book" \/ UNCHANGED book
    BY <1>1, AnswerIsNoOlder DEF HealthArrives, PollFails, PollInv, BookType
  <1>5. \A p \in Path :
            \/ requests'[p] = <<>>
            \/ inFlight'[p] /\ \E view \in 0..engine : requests'[p] = <<view>>
    BY <1>3 DEF PollInv
  <1>6. \A i_1 \in DOMAIN requests'["book"] : (NoOlder(requests["book"][i_1]))'
    <2>1. CASE path = "book"
      BY <1>3, <2>1
    <2>2. CASE path # "book"
      BY <1>3, <1>4, <2>2 DEF PollInv, NoOlder, Path
    <2> QED
      BY <2>1, <2>2
  <1> QED
    BY <1>3, <1>4, <1>5, <1>6 DEF PollInv

\* Steps that do not touch the polls leave the depth alone as well.
LEMMA OtherStepsKeepPollInv ==
    ASSUME PollInv,
           GoDown \/ (\E s \in Handle : Push(s)) \/ SocketStep \/ Unmount \/ UNCHANGED vars
    PROVE  PollInv' /\ book'.depth = book.depth
  <1>1. UNCHANGED <<engine, inFlight, requests>>
    BY DEF GoDown, Push, SocketStep, Opens, onEvent, Errors, Closes, Retry, Unmount, vars,
           network
  <1>2. pushed' \in [Handle -> Nat]
    BY DEF GoDown, Push, SocketStep, Opens, onEvent, Errors, Closes, Retry, Unmount, vars,
           network, PollInv
  <1>3. book' \in BookType /\ book'.depth = book.depth
    <2>1. CASE UNCHANGED book
      BY <2>1 DEF PollInv
    <2>2. ASSUME NEW s \in Handle, onEvent(s) PROVE book' \in BookType /\ book'.depth = book.depth
      BY <2>2 DEF onEvent, PollInv, BookType
    <2> QED
      BY <2>1, <2>2 DEF GoDown, Push, SocketStep, Opens, Errors, Closes, Retry, Unmount,
                        vars, network, page
  <1> QED
    BY <1>1, <1>2, <1>3 DEF PollInv, BookType, NoOlder

LEMMA NextPollInv ==
    ASSUME PollInv, [Next]_vars
    PROVE  PollInv' /\ book'.depth >= book.depth
  <1>0. book.depth \in Nat
    BY DEF PollInv, BookType
  <1>1. CASE Advance
    BY <1>0, <1>1, AdvanceKeepsPollInv DEF Advance, page
  <1>2. ASSUME NEW p \in Path, Serve(p) PROVE PollInv' /\ book'.depth >= book.depth
    <2>1. UNCHANGED book
      BY <1>2 DEF Serve, page
    <2>2. PollInv'
      BY <1>2, ServeKeepsPollInv
    <2> QED
      BY <1>0, <2>1, <2>2
  <1>3. CASE Poll
    BY <1>0, <1>3, PollKeepsPollInv DEF Poll
  <1>4. ASSUME NEW p \in Path, Answered(p) PROVE PollInv' /\ book'.depth >= book.depth
    BY <1>4, AnsweredKeepsPollInv
  <1>5. CASE GoDown \/ (\E s \in Handle : Push(s)) \/ SocketStep \/ Unmount \/ UNCHANGED vars
    BY <1>0, <1>5, OtherStepsKeepPollInv
  <1> QED
    BY <1>1, <1>2, <1>3, <1>4, <1>5 DEF Next, EngineStep

\* An unmounted page is written to by nobody: not by a socket, which does not
\* hear, nor by an answer that was under way, nor by the interval.
LEMMA UnmountedIsUntouched ==
    ASSUME disposed, [Next]_vars
    PROVE  UNCHANGED page
  <1> USE DEF page, Hears
  <1>1. CASE EngineStep
    BY <1>1 DEF EngineStep, Advance, GoDown, Push, Serve
  <1>2. CASE SocketStep
    BY <1>2 DEF SocketStep, Opens, onEvent, Errors, Closes, Retry
  <1>3. CASE Poll
    BY <1>3 DEF Poll
  <1>4. CASE \E p \in Path : Answered(p)
    BY <1>4 DEF Answered, BookArrives, HealthArrives, PollFails, Finish
  <1>5. CASE Unmount \/ UNCHANGED vars
    BY <1>5 DEF Unmount, vars
  <1> QED
    BY <1>1, <1>2, <1>3, <1>4, <1>5 DEF Next

\* The depth shown never goes back, although the page compares no sequence
\* numbers, and nothing is shown any more on an unmounted page: for any sequence
\* of views, any delay of answers and any number of failures (page.tsx, pollBook).
THEOREM DepthIsMonotonic == Spec => DepthNeverGoesBack
  <1>1. Init => PollInv
    BY InitPollInv
  <1>2. PollInv /\ [Next]_vars => PollInv'
    BY NextPollInv
  <1>3. PollInv /\ [Next]_vars
            => [book'.depth >= book.depth /\ (disposed => UNCHANGED page)]_vars
    BY NextPollInv, UnmountedIsUntouched
  <1> QED
    BY <1>1, <1>2, <1>3, PTL DEF Spec, DepthNeverGoesBack

=============================================================================
