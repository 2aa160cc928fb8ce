----------------------------- MODULE MCLiveFeed -----------------------------
(***************************************************************************)
(* Values of LiveFeed's constants for TLC.                                 *)
(***************************************************************************)
EXTENDS LiveFeed, TLC

MCPrice == {1, 2, 3}
MCSize == {0, 1, 2}
MCOpeningBook == [bids |-> 1 :> 1, asks |-> 3 :> 1]

\* Two changes that do not commute, one of them removing a level.
MCChanges ==
    {[bids |-> 1 :> 2, asks |-> EmptySide],
     [bids |-> (1 :> 0) @@ (2 :> 1), asks |-> 3 :> 2]}

\* A jump forward, then a maintenance reset to a lower seqId.
MCSeqId == (1 :> 5) @@ (2 :> 9) @@ (3 :> 2)
MCSeqIdLower == (1 :> 5) @@ (2 :> 2)

=============================================================================
