--------------------------- MODULE ReconnectPolicy ---------------------------
(***************************************************************************)
(* feed/src/ReconnectPolicy.cpp: truncated exponential backoff with        *)
(* downward jitter.  Delays are in the time unit of the clock of the       *)
(* module that uses this one.  The pseudo-random jitter is a choice among  *)
(* the delays it can produce.                                              *)
(***************************************************************************)
EXTENDS Integers

CONSTANTS
    BaseDelay,      \* baseDelay_
    MaxDelay,       \* maxDelay_
    JitterPercent,  \* jitterFraction_, in percent
    ExponentCap     \* the exponent stops growing here (20 in the code)

ASSUME PolicyAssumption ==
    /\ BaseDelay \in Nat \ {0}
    /\ MaxDelay \in Nat \ {0}
    /\ JitterPercent \in 0..100
    /\ ExponentCap \in Nat \ {0}

Smaller(a, b) == IF a < b THEN a ELSE b

FullDelay(attempt) == Smaller(BaseDelay * 2 ^ Smaller(attempt, ExponentCap), MaxDelay)

\* The set of delays that delayForAttempt may return.
delayForAttempt(attempt) ==
    {d \in 0..MaxDelay :
        /\ d <= FullDelay(attempt)
        /\ d >= (FullDelay(attempt) * (100 - JitterPercent)) \div 100}

=============================================================================
