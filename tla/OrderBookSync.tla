---------------------------- MODULE OrderBookSync ----------------------------
(***************************************************************************)
(* What a synchronised copy of the venue's order book promises its         *)
(* readers, with no messages, threads or sequence numbers: the copy is     *)
(* either unavailable, and then shows nothing, or it is exactly one of the *)
(* books the venue has had; and it never shows a book older than one it    *)
(* has shown, not even after it was unavailable.                           *)
(***************************************************************************)
EXTENDS Naturals, Sequences

CONSTANTS
    Books,      \* the books a venue may have
    Nothing     \* what a reader of an unavailable copy is shown

VARIABLES
    history,    \* every book the venue has had, in order
    version,    \* the one the copy is at, or 0: unavailable
    seen,       \* the newest one it has been at
    shown       \* what readers are shown

syncVars == <<history, version, seen, shown>>

Init ==
    /\ \E first \in Books : history = <<first>>
    /\ version = 0
    /\ seen = 0
    /\ shown = Nothing

\* The venue's book changes.
Publish ==
    /\ \E next \in Books : history' = Append(history, next)
    /\ UNCHANGED <<version, seen, shown>>

\* The copy comes to be at a book of the venue no older than any it has shown:
\* the next one after a change, any later one when it is anchored afresh.
Follow ==
    /\ version' \in 1..Len(history)
    /\ version' >= seen
    /\ seen' = version'
    /\ shown' = history[version']
    /\ UNCHANGED history

\* The copy is given up, with all it showed.
Invalidate ==
    /\ version' = 0
    /\ shown' = Nothing
    /\ UNCHANGED <<history, seen>>

Next == Publish \/ Follow \/ Invalidate

Spec == Init /\ [][Next]_syncVars
=============================================================================
