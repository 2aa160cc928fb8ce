--------------------------- MODULE PublishedView ---------------------------
(***************************************************************************)
(* What the engine's API promises about the feed it publishes.  The feed   *)
(* passes through states; what is served pairs the book of one of them     *)
(* with the health of one, not necessarily the same.  The health is never  *)
(* older than the book next to it, and neither is ever older than          *)
(* anything served before.                                                 *)
(***************************************************************************)
EXTENDS Naturals, Sequences

CONSTANT States     \* the states of a feed

VARIABLES
    feed,   \* the states the feed has been in, oldest first
    view    \* the positions in feed of the book and the health served;
            \* 0 until something is published

Init ==
    /\ \E s \in States : feed = <<s>>
    /\ view = [book |-> 0, health |-> 0]

Change ==
    /\ \E s \in States : feed' = Append(feed, s)
    /\ UNCHANGED view

Publish ==
    /\ \E b, h \in 1..Len(feed) :
        /\ view.health <= b
        /\ b <= h
        /\ view' = [book |-> b, health |-> h]
    /\ UNCHANGED feed

Spec == Init /\ [][Change \/ Publish]_<<feed, view>>

=============================================================================
