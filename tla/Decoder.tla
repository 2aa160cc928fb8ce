------------------------------ MODULE Decoder ------------------------------
(***************************************************************************)
(* core/src/Decoder.cpp: from a parsed JSON frame to an event, or to       *)
(* Malformed.  Integers are exact and keep their width: MaxInt stands for  *)
(* the largest std::int64_t, and the JSON library stores a literal as      *)
(* unsigned, signed or, beyond both, as a double.                          *)
(*                                                                         *)
(* A JSON value is a record of its kind and, for literals that denote an   *)
(* integer, of that integer.  The array of levels of a side keeps of each  *)
(* entry the two numbers its strings parse to; an entry without two        *)
(* well-formed strings, like a side that is no array, is Unreadable.       *)
(* std::optional results are sets of at most one element.                  *)
(***************************************************************************)
EXTENDS Integers, Sequences

CONSTANTS
    MaxInt,     \* std::numeric_limits<std::int64_t>::max()
    NsPerMs     \* kNsPerMs

ASSUME DecoderAssumption == MaxInt \in Nat /\ NsPerMs \in Nat \ {0}

MaxUnsigned == 2 * MaxInt + 1
Int64 == -MaxInt - 1 .. MaxInt

\* A "string" is a numeral, a "number" an integer literal; "other" is any other
\* string, a boolean, a fraction, an array or an object.
Field == [kind : {"absent", "null", "string", "number", "other"}, n : Int]

Entries == Seq([price : Int, size : Int])

Missing(field) == field.kind \in {"absent", "null"}

\* How the JSON library stores an integer literal.
Stored(n) ==
    IF n \in 0..MaxUnsigned THEN "unsigned"
    ELSE IF n \in Int64 THEN "signed"
    ELSE "float"

\* get<std::int64_t>() of an integer stored as unsigned wraps.
ToSigned(n) == IF n > MaxInt THEN n - MaxUnsigned - 1 ELSE n

parseStrictInt64(field) == {field.n} \cap Int64

\* Mutant: a number stored as unsigned is converted before its range is tested.
Bug_WrapUnsigned(field, low, high) ==
    CASE field.kind = "string" -> parseStrictInt64(field) \cap (low..high)
      [] field.kind = "number" /\ Stored(field.n) # "float" ->
            {ToSigned(field.n)} \cap (low..high)
      [] OTHER -> {}

\* The value of a field that is present and valid.  (Both callers treat an
\* absent field like an invalid one.)
parseIntField(field, low, high) ==
    CASE field.kind = "string" -> parseStrictInt64(field) \cap (low..high)
      [] field.kind = "number" /\ Stored(field.n) = "unsigned" -> {field.n} \cap (0..high)
      [] field.kind = "number" /\ Stored(field.n) = "signed" -> {field.n} \cap (low..high)
      [] OTHER -> {}

Unreadable == <<[price |-> 0, size |-> 0]>>

parseLevels(side) ==
    \A i \in DOMAIN side : side[i].price > 0 /\ side[i].size >= 0

MaxSafeMs == MaxInt \div NsPerMs

\* The timestamp in nanoseconds, 0 if there is none; empty if it is invalid.
parseTimestampMsToNs(field) ==
    IF Missing(field)
    THEN {0}
    ELSE {n * NsPerMs : n \in parseIntField(field, 0, MaxSafeMs)}

-----------------------------------------------------------------------------

Malformed == [status |-> "Malformed"]
Decoded(event) == [status |-> "Ok", event |-> event]

IsInteger(field) == field.kind = "number" /\ Stored(field.n) # "float"

EventType(action) == IF action = "snapshot" THEN "Snapshot" ELSE "Delta"

Actions == {"none", "snapshot", "update", "unknown"}

\* frame.envelope: there is a "data", an array that starts with an object, whose
\* fields the others are.  An action that is absent or no string is "none".
OkxFrames ==
    [envelope : BOOLEAN, action : Actions, seqId : Field, prevSeqId : Field,
     ts : Field, checksum : Field, bids : Entries, asks : Entries]

decodeOkxFrame(frame) ==
    LET seqId == parseIntField(frame.seqId, 0, MaxInt)
        prevSeqId == parseIntField(frame.prevSeqId, -1, MaxInt)
        timestamp == parseTimestampMsToNs(frame.ts)
    IN  IF \/ ~frame.envelope
           \/ frame.action \notin {"snapshot", "update"}
           \/ {} \in {seqId, prevSeqId, timestamp}
           \/ ~parseLevels(frame.asks)
           \/ ~parseLevels(frame.bids)
        THEN Malformed
        ELSE Decoded(
            [type |-> EventType(frame.action),
             sequence |-> CHOOSE n \in seqId : TRUE, hasSequence |-> TRUE,
             prevSequence |-> prevSeqId,
             timestampNs |-> CHOOSE n \in timestamp : TRUE,
             bids |-> frame.bids, asks |-> frame.asks,
             checksum |-> IF IsInteger(frame.checksum)
                          THEN {ToSigned(frame.checksum.n)} ELSE {}])

ProxyFrames ==
    [action : Actions, sequence : Field, ts : Field, timestamp_ns : Field,
     bids : Entries, asks : Entries]

proxySequence(frame) == parseIntField(frame.sequence, 0, MaxInt)

\* A frame without an action is a snapshot; timestamp_ns stands in for ts.
decodeProxyFrame(frame) ==
    LET timestamp == parseTimestampMsToNs(frame.ts)
        seq == proxySequence(frame)
    IN  IF \/ frame.action \notin {"none", "snapshot", "update"}
           \/ timestamp = {}
           \/ ~parseLevels(frame.asks)
           \/ ~parseLevels(frame.bids)
        THEN Malformed
        ELSE Decoded(
            [type |-> IF frame.action = "update" THEN "Delta" ELSE "Snapshot",
             sequence |-> IF seq = {} THEN 0 ELSE CHOOSE n \in seq : TRUE,
             hasSequence |-> seq # {},
             prevSequence |-> {},
             timestampNs |-> IF frame.ts.kind = "absent" /\ IsInteger(frame.timestamp_ns)
                             THEN ToSigned(frame.timestamp_ns.n)
                             ELSE CHOOSE n \in timestamp : TRUE,
             bids |-> frame.bids, asks |-> frame.asks,
             checksum |-> {}])

decodeFrame(frame, format) ==
    IF format = "OkxBooks" THEN decodeOkxFrame(frame) ELSE decodeProxyFrame(frame)

-----------------------------------------------------------------------------

Denotes(field, domain) == field.kind \in {"string", "number"} /\ field.n \in domain

DecodesExactly(frame) ==
    LET r == decodeOkxFrame(frame)
        event == r.event
        decodable ==
            /\ frame.envelope
            /\ frame.action \in {"snapshot", "update"}
            /\ Denotes(frame.seqId, 0..MaxInt)
            /\ Denotes(frame.prevSeqId, -1..MaxInt)
            /\ Missing(frame.ts) \/ Denotes(frame.ts, {n \in Int64 : n * NsPerMs \in 0..MaxInt})
            /\ \A side \in {frame.bids, frame.asks} : \A i \in DOMAIN side :
                  side[i].price > 0 /\ side[i].size >= 0
    IN  /\ r.status = "Ok" <=> decodable
        /\ decodable =>
            /\ event.sequence = frame.seqId.n
            /\ event.prevSequence = {frame.prevSeqId.n}
            /\ event.timestampNs = IF Missing(frame.ts) THEN 0 ELSE frame.ts.n * NsPerMs

=============================================================================
