-------------------------------- MODULE Book --------------------------------
(***************************************************************************)
(* The order book of core/src/Book.cpp: two price-indexed sides and the    *)
(* sequence number of the last event applied.  A book is a value here; the *)
(* component that owns it keeps it in a variable of its own, under its own *)
(* lock (FeedClient.mutex_ in live mode).                                  *)
(*                                                                         *)
(* A side (std::map<double,double>) is a function from the prices it       *)
(* quotes to sizes.  One side of a message (std::vector<Level>) is the     *)
(* function from the prices it mentions to the last size it gives each of  *)
(* them; BookLevels shows that the code's loop depends on nothing else.    *)
(* Prices and sizes are exact: they stand for the doubles the decoder      *)
(* accepted, which the book only stores, compares and erases on zero.      *)
(***************************************************************************)
EXTENDS Integers, FiniteSets

CONSTANTS
    Price,      \* the prices at which levels are quoted
    Size,       \* the sizes a level may carry; 0 removes the level
    Depth       \* levels per side covered by a checksum (kDepth, 25)

ASSUME BookAssumption ==
    /\ Price \subseteq Nat \ {0}
    /\ Size \subseteq Nat
    /\ Depth \in Nat \ {0}

Side   == UNION {[P -> Size \ {0}] : P \in SUBSET Price}
Levels == UNION {[P -> Size] : P \in SUBSET Price}

EmptySide == [p \in {} |-> 0]

\* What two readers of a book can disagree on, the sequence number aside.
Content == [bids : Side, asks : Side]
ContentOf(book) == [bids |-> book.bids, asks |-> book.asks]
EmptyContent == [bids |-> EmptySide, asks |-> EmptySide]

-----------------------------------------------------------------------------
(***************************************************************************)
(* Updates.                                                                *)
(***************************************************************************)

SizeAfter(side, levels, p) ==
    IF p \in DOMAIN levels THEN levels[p] ELSE side[p]

\* Mutant: a zero size is stored like any other instead of erasing the level.
Bug_KeepZeroLevels(side, levels) ==
    [p \in DOMAIN side \cup DOMAIN levels |-> SizeAfter(side, levels, p)]

applyLevels(side, levels) ==
    [p \in {q \in DOMAIN side \cup DOMAIN levels : SizeAfter(side, levels, q) # 0}
        |-> SizeAfter(side, levels, p)]

clear == [bids |-> EmptySide, asks |-> EmptySide, lastSequence |-> 0]

applyDelta(book, event) ==
    [bids |-> applyLevels(book.bids, event.bids),
     asks |-> applyLevels(book.asks, event.asks),
     lastSequence |-> event.sequence]

\* Mutant: the snapshot is merged into the levels that were already there.
Bug_SnapshotMerges(book, event) == applyDelta(book, event)

applySnapshot(book, event) ==
    [bids |-> applyLevels(EmptySide, event.bids),
     asks |-> applyLevels(EmptySide, event.asks),
     lastSequence |-> event.sequence]

-----------------------------------------------------------------------------
(***************************************************************************)
(* computeTopOfBookChecksum: a CRC32 over the best Depth levels of each    *)
(* side.  The CRC is taken to be injective, so the checksum is modelled by *)
(* the ladder it is computed over.  The checksum of an empty book is the   *)
(* CRC of an empty string, 0.                                              *)
(***************************************************************************)

BestBids(side) ==
    {p \in DOMAIN side : Cardinality({q \in DOMAIN side : q > p}) < Depth}

BestAsks(side) ==
    {p \in DOMAIN side : Cardinality({q \in DOMAIN side : q < p}) < Depth}

computeTopOfBookChecksum(book) ==
    [bids |-> [p \in BestBids(book.bids) |-> book.bids[p]],
     asks |-> [p \in BestAsks(book.asks) |-> book.asks[p]]]

=============================================================================
