----------------------------- MODULE Book_proofs -----------------------------
(***************************************************************************)
(* Facts about the operators of Book: what updating a side of the book     *)
(* returns, and that a snapshot of a side restores it.                     *)
(***************************************************************************)
EXTENDS Book, TLAPS

\* A side is any function from some prices to non-zero sizes, and the levels of
\* a message any function from some prices to sizes (Book.h, applyLevels).
LEMMA SideMembership ==
    ASSUME NEW side
    PROVE  /\ side \in Side <=> /\ DOMAIN side \subseteq Price
                                /\ side \in [DOMAIN side -> Size \ {0}]
           /\ side \in Levels <=> /\ DOMAIN side \subseteq Price
                                  /\ side \in [DOMAIN side -> Size]
  BY DEF Side, Levels

\* Every side of a book is also what a snapshot message says of it.
LEMMA SideIsLevels == Side \subseteq Levels
  <1> SUFFICES ASSUME NEW side \in Side PROVE side \in Levels
    OBVIOUS
  <1>1. DOMAIN side \subseteq Price /\ side \in [DOMAIN side -> Size \ {0}]
    BY SideMembership
  <1>2. side \in [DOMAIN side -> Size]
    BY <1>1
  <1> QED
    BY <1>1, <1>2, SideMembership

\* A side with no levels is a side (Book::clear).
LEMMA EmptySideType == EmptySide \in Side /\ EmptySide \in Levels
  <1>1. DOMAIN EmptySide = {}
    BY DEF EmptySide
  <1>2. EmptySide \in [{} -> Size \ {0}]
    BY DEF EmptySide
  <1> QED
    BY <1>1, <1>2, SideMembership, SideIsLevels

\* Updating a side yields a side: no zero size is ever stored (Book.h:50-56).
LEMMA ApplyLevelsType ==
    ASSUME NEW side \in Side, NEW levels \in Levels
    PROVE  applyLevels(side, levels) \in Side
  <1> DEFINE result == applyLevels(side, levels)
             kept == {q \in DOMAIN side \cup DOMAIN levels :
                         SizeAfter(side, levels, q) # 0}
  <1>1. /\ DOMAIN side \subseteq Price /\ side \in [DOMAIN side -> Size \ {0}]
        /\ DOMAIN levels \subseteq Price /\ levels \in [DOMAIN levels -> Size]
    BY SideMembership
  <1>2. result = [p \in kept |-> SizeAfter(side, levels, p)]
    BY DEF applyLevels
  <1>3. kept \subseteq Price
    BY <1>1
  <1>4. ASSUME NEW p \in kept PROVE SizeAfter(side, levels, p) \in Size \ {0}
    BY <1>1, <1>4 DEF SizeAfter
  <1>5. DOMAIN result = kept /\ result \in [kept -> Size \ {0}]
    BY <1>2, <1>4
  <1> QED
    BY <1>3, <1>5, SideMembership

\* A message without levels changes nothing (the no-change keepalive).
LEMMA NoLevelsNoChange ==
    ASSUME NEW side \in Side
    PROVE  applyLevels(side, EmptySide) = side
  <1>1. DOMAIN side \subseteq Price /\ side \in [DOMAIN side -> Size \ {0}]
    BY SideMembership
  <1>2. DOMAIN EmptySide = {}
    BY DEF EmptySide
  <1>3. \A p \in DOMAIN side : SizeAfter(side, EmptySide, p) = side[p] /\ side[p] # 0
    BY <1>1, <1>2 DEF SizeAfter
  <1>4. {q \in DOMAIN side \cup DOMAIN EmptySide :
            SizeAfter(side, EmptySide, q) # 0} = DOMAIN side
    BY <1>2, <1>3
  <1>5. applyLevels(side, EmptySide) = [p \in DOMAIN side |-> side[p]]
    BY <1>3, <1>4 DEF applyLevels
  <1> QED
    BY <1>1, <1>5

\* A snapshot carrying exactly a side restores that side (Book::applySnapshot).
LEMMA SnapshotRestores ==
    ASSUME NEW side \in Side
    PROVE  applyLevels(EmptySide, side) = side
  <1>1. DOMAIN side \subseteq Price /\ side \in [DOMAIN side -> Size \ {0}]
    BY SideMembership
  <1>2. DOMAIN EmptySide = {}
    BY DEF EmptySide
  <1>3. \A p \in DOMAIN side : SizeAfter(EmptySide, side, p) = side[p] /\ side[p] # 0
    BY <1>1, <1>2 DEF SizeAfter
  <1>4. {q \in DOMAIN EmptySide \cup DOMAIN side :
            SizeAfter(EmptySide, side, q) # 0} = DOMAIN side
    BY <1>2, <1>3
  <1>5. applyLevels(EmptySide, side) = [p \in DOMAIN side |-> side[p]]
    BY <1>3, <1>4 DEF applyLevels
  <1> QED
    BY <1>1, <1>5

\* A part of a side is a side: the ladder a checksum covers is made of levels of
\* the book (computeTopOfBookChecksum).
LEMMA RestrictionType ==
    ASSUME NEW side \in Side, NEW P \in SUBSET DOMAIN side
    PROVE  [p \in P |-> side[p]] \in Side
  <1>1. DOMAIN side \subseteq Price /\ side \in [DOMAIN side -> Size \ {0}]
    BY SideMembership
  <1>2. [p \in P |-> side[p]] \in [P -> Size \ {0}]
    BY <1>1
  <1> QED
    BY <1>1, <1>2, SideMembership

LEMMA ChecksumType ==
    ASSUME NEW content, content.bids \in Side, content.asks \in Side
    PROVE  computeTopOfBookChecksum(content) \in Content
  <1>1. BestBids(content.bids) \in SUBSET DOMAIN content.bids
    BY DEF BestBids
  <1>2. BestAsks(content.asks) \in SUBSET DOMAIN content.asks
    BY DEF BestAsks
  <1> QED
    BY <1>1, <1>2, RestrictionType DEF computeTopOfBookChecksum, Content

=============================================================================
