---------------------------- MODULE SettledFeed ----------------------------
(***************************************************************************)
(* What the live feed comes to once the venue's book and the network have  *)
(* settled.  A client whose last message was lost cannot know that it is   *)
(* behind, so two history variables follow what it has been told of the    *)
(* venue's current book on the session it is on.                           *)
(***************************************************************************)
EXTENDS LiveFeed

VARIABLES
    told,       \* the client has read a message that names the current seqId
    missed      \* one was lost on the way, or damaged

settledVars == <<vars, told, missed>>

NamesCurrent(message) == message.sequence = SeqId[Latest]

Told == Deliver /\ Head(wire).status = "Ok" /\ NamesCurrent(Head(wire))

Missed ==
    \/ Lose /\ NamesCurrent(Head(wire))
    \/ \E i \in 1..Len(wire) : Garble(i) /\ NamesCurrent(wire[i])

\* Both are about the venue's current book and the current session.
Remember ==
    LET unchanged == link' = link /\ Latest' = Latest
    IN  /\ told' = (unchanged /\ (told \/ Told))
        /\ missed' = (unchanged /\ (missed \/ Missed))

SettledInit == Init /\ told = FALSE /\ missed = FALSE

SettledNext == Next /\ Remember

SettledSpec == SettledInit /\ [][SettledNext]_settledVars /\ Fairness

-----------------------------------------------------------------------------

\* When the venue's book and the network have settled, a connected client shows
\* the venue's current book for good.  It stays behind only if every message of
\* this session that named the current seqId was lost or undecodable: a single
\* one it reads, even a no-change keepalive or a repetition, reveals the gap and
\* has the book fetched again (handleFrame, SequenceValidator::validate).
Converges ==
    <>[](link = "up" => ContentOf(book) = Current \/ (missed /\ ~told))

=============================================================================
