------------------------- MODULE ExecutionSimulator -------------------------
(***************************************************************************)
(* core/src/ExecutionSimulator.cpp: a market order walks one side of a     *)
(* book, best price first, one level per step; and core/src/Book.cpp's     *)
(* quotes that its fill is compared with.                                  *)
(*                                                                         *)
(* Amounts are exact, counted in 1/Scale of a unit, so that the division   *)
(* of a notional by a price is one of integers; the relative epsilon of    *)
(* remainingIsNegligible, there for rounding, becomes equality with zero.  *)
(* Fees and the other linear functions of the fill, and the depth bands,   *)
(* are left out.  A mid-price is kept doubled.                             *)
(***************************************************************************)
EXTENDS Book, Sequences, Functions

CONSTANTS
    Scale,          \* amounts are counted in 1/Scale of a unit
    OrderSizes      \* the sizes of orders, in units

ASSUME SimulatorAssumption ==
    /\ Scale \in Nat \ {0}
    /\ \A p \in Price : Scale % p = 0
    /\ OrderSizes \subseteq Nat

VARIABLES
    book,       \* the book given
    order,      \* the order given
    trail,      \* the totals at the start and after each level walked; the
                \* last ones are the code's, the others are history
    earlier     \* history variable: the order executed before this one on the
                \* same book, and its trail, which is empty if there was none

simulatorVars == <<book, order, trail, earlier>>

\* OrderRequest
Order == [side : {"Buy", "Sell"}, sizeMode : {"BaseQuantity", "Notional"},
          size : OrderSizes]

-----------------------------------------------------------------------------
(* Quotes. *)

BestBid == CHOOSE p \in DOMAIN book.bids : \A q \in DOMAIN book.bids : q <= p
BestAsk == CHOOSE p \in DOMAIN book.asks : \A q \in DOMAIN book.asks : q >= p

TwoSided == DOMAIN book.bids # {} /\ DOMAIN book.asks # {}

isCrossed == TwoSided /\ BestBid >= BestAsk

Quotes == IF order.side = "Buy" THEN book.asks ELSE book.bids

\* Mutant: the ladder is walked in ascending order of prices on both sides.
Bug_AscendingLadder(p, q) == p < q

\* The order of the ladder.
IsBetter(p, q) == IF order.side = "Buy" THEN p < q ELSE p > q

-----------------------------------------------------------------------------
(* The walk. *)

Opening(o) == <<[price |-> 0, remaining |-> Scale * o.size, base |-> 0, notional |-> 0]>>

Now == trail[Len(trail)]

Walked == {trail[k].price : k \in 2..Len(trail)}

Lesser(a, b) == IF a < b THEN a ELSE b

\* Mutant: a notional is spent as if it were a quantity.
Bug_NotionalAsBase(totals, price, size) ==
    LET take == Lesser(size, totals.remaining)
    IN  [price |-> price,
         remaining |-> totals.remaining - take,
         base |-> totals.base + take,
         notional |-> totals.notional + take * price]

\* What a unit of base uses up of the order.
UnitCost(price) == IF order.sizeMode = "Notional" THEN price ELSE 1

\* One level: what the order still wants of it.
Take(totals, price, size) ==
    LET take == Lesser(size, totals.remaining \div UnitCost(price))
    IN  [price |-> price,
         remaining |-> totals.remaining - take * UnitCost(price),
         base |-> totals.base + take,
         notional |-> totals.notional + take * price]

\* An order of size zero returns before the walk, like one on an empty side.
Finished == Now.remaining = 0 \/ DOMAIN Quotes \subseteq Walked

WalkLevel ==
    /\ ~Finished
    /\ \E p \in DOMAIN Quotes \ Walked :
        /\ \A q \in DOMAIN Quotes \ (Walked \cup {p}) : IsBetter(p, q)
        /\ trail' = Append(trail, Take(Now, p, Scale * Quotes[p]))
    /\ UNCHANGED <<book, order, earlier>>

NoFill == [base |-> 0, notional |-> 0, insufficient |-> TRUE, mid |-> 0]

\* Mutant: the reference is the price of the last level walked.
Bug_LastPriceReference == 2 * Now.price

\* The front of the ladder is the price of the first level walked.
referenceMid == IF TwoSided THEN BestBid + BestAsk ELSE 2 * trail[2].price

\* What execute() returns once the walk has finished.
Result ==
    IF order.size = 0 \/ DOMAIN Quotes = {}
    THEN NoFill
    ELSE [base |-> Now.base, notional |-> Now.notional,
          insufficient |-> Now.remaining > 0, mid |-> referenceMid]

-----------------------------------------------------------------------------

InitSimulator ==
    /\ book \in Content
    /\ order \in Order
    /\ trail = Opening(order)
    /\ earlier = [order |-> order, trail |-> <<>>]

\* After an order by quantity, one for what it cost.
SpendTheSame ==
    /\ Finished
    /\ ~Result.insufficient
    /\ order.sizeMode = "BaseQuantity"
    /\ earlier' = [order |-> order, trail |-> trail]
    /\ order' = [order EXCEPT !.sizeMode = "Notional", !.size = Now.notional \div Scale]
    /\ trail' = Opening(order')
    /\ UNCHANGED book

NextSimulator == WalkLevel \/ SpendTheSame

SpecSimulator == InitSimulator /\ [][NextSimulator]_simulatorVars

-----------------------------------------------------------------------------
(***************************************************************************)
(* What the walk computes, without a loop: every level gives what the      *)
(* order leaves over after all better levels, up to its own worth.         *)
(***************************************************************************)

Better(p) == {q \in DOMAIN Quotes : IF order.side = "Buy" THEN q < p ELSE q > p}

\* What a level is worth to the order, in the unit the order is sized in.
Worth == [p \in DOMAIN Quotes |-> Scale * Quotes[p] * UnitCost(p)]

WorthOf(prices) == SumFunctionOnSet(Worth, prices)

Share(p) ==
    LET left == Scale * order.size - WorthOf(Better(p))
    IN  IF left <= 0 THEN 0 ELSE Lesser(left, Worth[p])

ShareInBase == [p \in DOMAIN Quotes |-> Share(p) \div UnitCost(p)]

CostOfShare == [p \in DOMAIN Quotes |-> p * ShareInBase[p]]

\* An order is filled best price first, by exactly what each level can still
\* give, and is reported insufficient iff the side is worth less than it.
FillsBestFirst ==
    Finished =>
        /\ Result.base = SumFunction(ShareInBase)
        /\ Result.notional = SumFunction(CostOfShare)
        /\ Result.insufficient <=>
              order.size = 0 \/ WorthOf(DOMAIN Quotes) < Scale * order.size

\* The two ways to size an order agree: spending what a quantity cost buys that
\* quantity again.
SizingsAgree ==
    Finished /\ earlier.trail # <<>> =>
        LET first == earlier.trail[Len(earlier.trail)]
        IN  /\ Result.base = first.base
            /\ Result.notional = first.notional
            /\ ~Result.insufficient

\* slippageUsd is an absolute value; on a book that is not crossed that hides no
\* gain, for a fill is never better than the mid it is measured against.
SlippageIsACost ==
    Finished /\ ~isCrossed =>
        IF order.side = "Buy" THEN 2 * Result.notional >= Result.base * Result.mid
                              ELSE 2 * Result.notional <= Result.base * Result.mid

=============================================================================
