----------------------------- MODULE BookLevels -----------------------------
(***************************************************************************)
(* The loop of Book::applyLevels (core/include/qx/Book.h), one level of a  *)
(* message per step, and what it computes: the levels of a message, taken  *)
(* in order, amount to the last size given for each price.  Book states    *)
(* applyLevels in that form; this module shows that the loop implements    *)
(* it, also when a message mentions a price several times.                 *)
(***************************************************************************)
EXTENDS Book, Sequences

CONSTANT MaxLevels      \* bound: levels in one message

ASSUME LevelsAssumption == MaxLevels \in Nat

VARIABLES
    start,      \* the side before the message
    levels,     \* the levels of the message applied so far
    side        \* the side now

levelVars == <<start, levels, side>>

\* Mutant: a zero size for an unknown price creates a level.
Bug_EraseOnlyKnown(s, level) ==
    IF level.size = 0 /\ level.price \in DOMAIN s
    THEN [p \in DOMAIN s \ {level.price} |-> s[p]]
    ELSE [p \in DOMAIN s \cup {level.price} |->
             IF p = level.price THEN level.size ELSE s[p]]

\* One iteration: erase on size zero, else insert or overwrite.
applyLevel(s, level) ==
    IF level.size = 0
    THEN [p \in DOMAIN s \ {level.price} |-> s[p]]
    ELSE [p \in DOMAIN s \cup {level.price} |->
             IF p = level.price THEN level.size ELSE s[p]]

Init ==
    /\ start \in Side
    /\ levels = <<>>
    /\ side = start

Iterate(level) ==
    /\ Len(levels) < MaxLevels
    /\ levels' = Append(levels, level)
    /\ side' = applyLevel(side, level)
    /\ UNCHANGED start

Next == \E level \in [price : Price, size : Size] : Iterate(level)

Spec == Init /\ [][Next]_levelVars

-----------------------------------------------------------------------------

Mentioned(message) == {message[i].price : i \in 1..Len(message)}

LastMention(message, p) ==
    CHOOSE i \in 1..Len(message) :
        /\ message[i].price = p
        /\ \A j \in i + 1..Len(message) : message[j].price # p

LastSizes(message) ==
    [p \in Mentioned(message) |-> message[LastMention(message, p)].size]

\* After every iteration the side is the side before the message, overridden by
\* the last size given for each price so far: order matters only within a price.
LoopIsOverlay == side = applyLevels(start, LastSizes(levels))

=============================================================================
