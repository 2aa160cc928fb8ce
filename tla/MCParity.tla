------------------------------ MODULE MCParity ------------------------------
(***************************************************************************)
(* Values of Parity's constants for TLC.                                   *)
(***************************************************************************)
EXTENDS Parity, TLC

MCPrice == {1, 2}
MCSize == {0, 1}
MCOpeningBook == [bids |-> 1 :> 1, asks |-> EmptySide]
MCChanges == {[bids |-> (1 :> 0) @@ (2 :> 1), asks |-> EmptySide],
              [bids |-> 1 :> 1, asks |-> EmptySide]}
MCSeqId == (1 :> 5) @@ (2 :> 9) @@ (3 :> 2)

=============================================================================
