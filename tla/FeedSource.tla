----------------------------- MODULE FeedSource -----------------------------
(***************************************************************************)
(* What a market-data source promises the client whose handlers it calls   *)
(* (feed/include/qx/feed/FeedSource.h), with no threads and no locks.      *)
(*                                                                         *)
(* A session is announced by Connecting, is established by at most one     *)
(* Connected, delivers frames only while it is established, and is ended   *)
(* by exactly one Disconnected; only one that was never established may be *)
(* given up in silence.  Handlers run one at a time, and the next session  *)
(* is not announced before the last handler of the previous one returned.  *)
(***************************************************************************)

VARIABLES
    session,    \* "down", "opening" (Connecting emitted) or "up" (Connected)
    busy        \* one of the client's handlers is running on the session

sourceVars == <<session, busy>>

Init == session = "down" /\ busy = FALSE

Connecting ==
    /\ session = "down"
    /\ ~busy
    /\ session' = "opening"
    /\ UNCHANGED busy

Connected ==
    /\ session = "opening"
    /\ ~busy
    /\ session' = "up"
    /\ busy' = TRUE

Frame ==
    /\ session = "up"
    /\ ~busy
    /\ busy' = TRUE
    /\ UNCHANGED session

Disconnected ==
    /\ session # "down"
    /\ ~busy
    /\ session' = "down"
    /\ busy' = TRUE

\* A session the client no longer wants is given up before it is established.
Abandon ==
    /\ session = "opening"
    /\ ~busy
    /\ session' = "down"
    /\ UNCHANGED busy

HandlerReturns ==
    /\ busy
    /\ busy' = FALSE
    /\ UNCHANGED session

Next ==
    \/ Connecting
    \/ Connected
    \/ Frame
    \/ Disconnected
    \/ Abandon
    \/ HandlerReturns

Spec == Init /\ [][Next]_sourceVars
=============================================================================
