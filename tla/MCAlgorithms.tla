---------------------------- MODULE MCAlgorithms ----------------------------
(***************************************************************************)
(* The modules that compute without talking to anyone, side by side: their *)
(* constants for TLC, and the behaviours of either.                        *)
(***************************************************************************)
EXTENDS BookLevels, ExecutionSimulator, EventLog

MCPrice == {1, 2, 3}
MCSize == {0, 1, 2}

\* Every way to write a field, with integers just past both ends of both types.
MCField ==
    [kind : {"absent", "null", "other"}, n : {0}]
        \cup [kind : {"string", "number"}, n : -MaxInt - 2 .. MaxUnsigned + 1]

Sides == {<<>>, <<[price |-> 2, size |-> 0]>>,
          <<[price |-> 3, size |-> 1], [price |-> 1, size |-> 2]>>, Unreadable}

MCOkxFrame ==
    [envelope |-> TRUE, action |-> "snapshot", seqId |-> Number(1),
     prevSeqId |-> Number(-1), ts |-> Number(1), checksum |-> Number(0),
     bids |-> <<>>, asks |-> <<[price |-> 2, size |-> 1]>>]

\* One or two fields at a time differ from an ordinary frame.
MCOkxFrames ==
    {[MCOkxFrame EXCEPT !.seqId = f, !.prevSeqId = g] : f, g \in MCField}
        \cup {[MCOkxFrame EXCEPT !.ts = f, !.checksum = g] : f, g \in MCField}
        \cup {[MCOkxFrame EXCEPT !.action = a, !.envelope = e, !.bids = b, !.asks = c] :
                 a \in Actions,
                 e \in BOOLEAN, b, c \in Sides}

MCProxyFrame ==
    [action |-> "none", sequence |-> Number(1), ts |-> Absent,
     timestamp_ns |-> Absent, bids |-> <<>>, asks |-> <<>>]

MCProxyFrames ==
    {[MCProxyFrame EXCEPT !.ts = f, !.timestamp_ns = g] : f, g \in MCField}
        \cup {[MCProxyFrame EXCEPT !.sequence = f, !.action = a, !.asks = b] :
                 f \in MCField, b \in Sides,
                 a \in Actions}

MCFrames == [format \in {"OkxBooks", "ProxyBooks"} |->
                IF format = "OkxBooks" THEN MCOkxFrames ELSE MCProxyFrames]

MCOrdinaryFrames == {[MCOkxFrame EXCEPT !.seqId = Number(n)] : n \in {2, 3}}

\* Each computes while the others are where they start; orders are executed on
\* every book, and levels applied to every side.
NoOrder == [side |-> "Buy", sizeMode |-> "Notional", size |-> 0]

LevelsAtRest == start = EmptySide /\ levels = <<>>
OrderAtRest == book = EmptyContent /\ order = NoOrder
LogAtRest == attempts = <<>> /\ stream = "good"

SideBySideInit ==
    /\ Init /\ InitSimulator /\ InitLog
    /\ LevelsAtRest \/ OrderAtRest

SideBySideNext ==
    \/ OrderAtRest /\ LogAtRest /\ Next /\ UNCHANGED <<simulatorVars, logVars>>
    \/ LevelsAtRest /\ LogAtRest /\ NextSimulator /\ UNCHANGED <<levelVars, logVars>>
    \/ LevelsAtRest /\ OrderAtRest /\ NextLog /\ UNCHANGED <<levelVars, simulatorVars>>

SideBySide ==
    SideBySideInit /\ [][SideBySideNext]_<<levelVars, simulatorVars, logVars>>

=============================================================================
