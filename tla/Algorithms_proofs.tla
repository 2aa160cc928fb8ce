-------------------------- MODULE Algorithms_proofs --------------------------
(***************************************************************************)
(* The components that compute without talking to anyone: the loop of      *)
(* Book::applyLevels, the decoder and the log of events, and the execution *)
(* simulator.  Each has its own part below.                                *)
(***************************************************************************)
EXTENDS BookLevels, EventLog, ExecutionSimulator, Book_proofs, FiniteSetTheorems

-----------------------------------------------------------------------------
(***************************************************************************)
(* The loop of Book::applyLevels computes applyLevels for messages of any  *)
(* length.  The induction over the levels of a message is the induction    *)
(* over the steps of BookLevels' behaviours.                               *)
(***************************************************************************)
Level == [price : Price, size : Size]

IsLastMention(message, p, i) ==
    /\ i \in 1..Len(message)
    /\ message[i].price = p
    /\ \A j \in i + 1..Len(message) : message[j].price # p

\* LoopIsOverlay is inductive together with the fact that LastMention names an
\* index: every price mentioned has a last mention.
LoopInv ==
    /\ start \in Side
    /\ levels \in Seq(Level)
    /\ \A p \in Mentioned(levels) : \E i \in 1..Len(levels) : IsLastMention(levels, p, i)
    /\ LoopIsOverlay

\* There is one last mention of a price, and LastMention is it.
LEMMA LastMentionIs ==
    ASSUME NEW message \in Seq(Level), NEW p, NEW i, IsLastMention(message, p, i)
    PROVE  LastMention(message, p) = i
  <1>1. \A k \in 1..Len(message) : IsLastMention(message, p, k) => k = i
    BY DEF IsLastMention
  <1>2. LastMention(message, p) = CHOOSE k \in 1..Len(message) :
                                      /\ message[k].price = p
                                      /\ \A j \in k + 1..Len(message) :
                                             message[j].price # p
    BY DEF LastMention
  <1> QED
    BY <1>1, <1>2 DEF IsLastMention

\* One more level: it decides the size of its own price, and of no other.
LEMMA LastSizesAppend ==
    ASSUME NEW message \in Seq(Level), NEW level \in Level,
           \A p \in Mentioned(message) :
               \E i \in 1..Len(message) : IsLastMention(message, p, i)
    PROVE  LET longer == Append(message, level)
           IN  /\ Mentioned(longer) = Mentioned(message) \cup {level.price}
               /\ \A p \in Mentioned(longer) :
                      \E i \in 1..Len(longer) : IsLastMention(longer, p, i)
               /\ LastSizes(longer)[level.price] = level.size
               /\ \A p \in Mentioned(message) \ {level.price} :
                      LastSizes(longer)[p] = LastSizes(message)[p]
  <1> DEFINE longer == Append(message, level)
             n == Len(message)
  <1>1. /\ longer \in Seq(Level) /\ Len(longer) = n + 1 /\ n \in Nat
        /\ longer[n + 1] = level
        /\ \A i \in 1..n : longer[i] = message[i]
    OBVIOUS
  <1> HIDE DEF longer
  <1>2. Mentioned(longer) = Mentioned(message) \cup {level.price}
    <2>1. ASSUME NEW p \in Mentioned(longer) PROVE p \in Mentioned(message) \cup {level.price}
      BY <1>1, <2>1 DEF Mentioned
    <2>2. ASSUME NEW p \in Mentioned(message) PROVE p \in Mentioned(longer)
      <3>1. PICK i \in 1..n : p = message[i].price
        BY <2>2 DEF Mentioned
      <3>2. i \in 1..Len(longer) /\ p = longer[i].price
        BY <1>1, <3>1
      <3> QED
        BY <3>2 DEF Mentioned
    <2>3. level.price \in Mentioned(longer)
      <3>1. n + 1 \in 1..Len(longer) /\ longer[n + 1].price = level.price
        BY <1>1
      <3> QED
        BY <3>1 DEF Mentioned
    <2> QED
      BY <2>1, <2>2, <2>3
  <1>3. IsLastMention(longer, level.price, n + 1)
    BY <1>1 DEF IsLastMention
  <1>4. ASSUME NEW p, p # level.price, NEW i, IsLastMention(message, p, i)
        PROVE  IsLastMention(longer, p, i)
    BY <1>1, <1>4 DEF IsLastMention
  <1>5. \A p \in Mentioned(longer) : \E i \in 1..Len(longer) : IsLastMention(longer, p, i)
    <2> SUFFICES ASSUME NEW p \in Mentioned(longer)
                 PROVE  \E i \in 1..Len(longer) : IsLastMention(longer, p, i)
      OBVIOUS
    <2>1. CASE p = level.price
      BY <1>3, <2>1 DEF IsLastMention
    <2>2. CASE p # level.price
      <3>1. PICK i \in 1..n : IsLastMention(message, p, i)
        BY <1>2, <2>2
      <3>2. IsLastMention(longer, p, i)
        BY <1>4, <2>2, <3>1
      <3> QED
        BY <3>2 DEF IsLastMention
    <2> QED
      BY <2>1, <2>2
  <1>6. LastSizes(longer)[level.price] = level.size
    <2>1. LastMention(longer, level.price) = n + 1
      BY <1>1, <1>3, LastMentionIs
    <2> QED
      BY <1>1, <1>2, <2>1 DEF LastSizes
  <1>7. ASSUME NEW p \in Mentioned(message) \ {level.price}
        PROVE  LastSizes(longer)[p] = LastSizes(message)[p]
    <2>1. PICK i \in 1..n : IsLastMention(message, p, i)
      OBVIOUS
    <2>2. IsLastMention(longer, p, i)
      BY <1>4, <2>1
    <2>3. LastMention(message, p) = i /\ LastMention(longer, p) = i
      BY <1>1, <2>1, <2>2, LastMentionIs
    <2> QED
      BY <1>1, <1>2, <2>1, <2>3 DEF LastSizes
  <1> QED
    BY <1>2, <1>5, <1>6, <1>7 DEF longer

\* An iteration extends the message that has been applied by one level.
LEMMA IterateOverlay ==
    ASSUME LoopInv, NEW level \in Level, Iterate(level)
    PROVE  LoopIsOverlay'
  <1> DEFINE longer == Append(levels, level)
             old == LastSizes(levels)
             new == LastSizes(longer)
  <1>1. /\ levels \in Seq(Level) /\ start \in Side
        /\ side = applyLevels(start, old)
        /\ levels' = longer /\ start' = start
        /\ side' = applyLevel(side, level)
    BY DEF LoopInv, LoopIsOverlay, Iterate
  <1>2. /\ DOMAIN new = Mentioned(levels) \cup {level.price}
        /\ DOMAIN old = Mentioned(levels)
        /\ new[level.price] = level.size
        /\ \A p \in DOMAIN old \ {level.price} : new[p] = old[p]
    <2>1. DOMAIN new = Mentioned(longer) /\ DOMAIN old = Mentioned(levels)
      BY DEF LastSizes
    <2> QED
      BY <1>1, <2>1, LastSizesAppend DEF LoopInv
  <1> HIDE DEF old, new
  <1>3. /\ SizeAfter(start, new, level.price) = level.size
        /\ \A p \in (DOMAIN start \cup DOMAIN new) \ {level.price} :
               SizeAfter(start, new, p) = SizeAfter(start, old, p)
    BY <1>2 DEF SizeAfter
  <1>4. DOMAIN side = {q \in DOMAIN start \cup DOMAIN old : SizeAfter(start, old, q) # 0}
        /\ \A p \in DOMAIN side : side[p] = SizeAfter(start, old, p)
    BY <1>1 DEF applyLevels
  <1> DEFINE kept == {q \in DOMAIN start \cup DOMAIN new : SizeAfter(start, new, q) # 0}
  <1>5. applyLevels(start, new) = [p \in kept |-> SizeAfter(start, new, p)]
    BY DEF applyLevels
  <1>6. CASE level.size = 0
    <2>1. kept = DOMAIN side \ {level.price}
      BY <1>2, <1>3, <1>4, <1>6
    <2>2. side' = [p \in kept |-> side[p]]
      BY <1>1, <1>6, <2>1 DEF applyLevel
    <2>3. \A p \in kept : side[p] = SizeAfter(start, new, p)
      BY <1>2, <1>3, <1>4, <2>1
    <2>4. side' = applyLevels(start, new)
      BY <1>5, <2>2, <2>3
    <2> QED
      BY <1>1, <2>4 DEF LoopIsOverlay, new
  <1>7. CASE level.size # 0
    <2> DEFINE sizeNow(p) == IF p = level.price THEN level.size ELSE side[p]
    <2>1. kept = DOMAIN side \cup {level.price}
      BY <1>2, <1>3, <1>4, <1>7
    <2>2. side' = [p \in kept |-> sizeNow(p)]
      BY <1>1, <1>7, <2>1 DEF applyLevel
    <2>3. \A p \in kept : sizeNow(p) = SizeAfter(start, new, p)
      BY <1>2, <1>3, <1>4, <2>1
    <2>4. side' = applyLevels(start, new)
      BY <1>5, <2>2, <2>3
    <2> QED
      BY <1>1, <2>4 DEF LoopIsOverlay, new
  <1> QED
    BY <1>6, <1>7

\* Whatever the side and the message, and however often the message mentions a
\* price, the loop of Book::applyLevels leaves the side overridden by the last
\* size of each price (Book.h:48-57).
THEOREM LoopImplementsOverlay == Spec => []LoopIsOverlay
  <1>1. Init => LoopInv
    <2> SUFFICES ASSUME Init PROVE LoopInv
      OBVIOUS
    <2>1. start \in Side /\ levels = <<>> /\ side = start
      BY DEF Init
    <2>2. Mentioned(levels) = {}
      BY <2>1 DEF Mentioned
    <2>3. LastSizes(levels) = EmptySide
      BY <2>2 DEF LastSizes, EmptySide
    <2>4. LoopIsOverlay
      BY <2>1, <2>3, NoLevelsNoChange DEF LoopIsOverlay
    <2> QED
      BY <2>1, <2>2, <2>4 DEF LoopInv
  <1>2. LoopInv /\ [Next]_levelVars => LoopInv'
    <2> SUFFICES ASSUME LoopInv, [Next]_levelVars PROVE LoopInv'
      OBVIOUS
    <2>1. ASSUME NEW level \in Level, Iterate(level) PROVE LoopInv'
      <3>1. LoopIsOverlay'
        BY <2>1, IterateOverlay
      <3>2. start' \in Side /\ levels' = Append(levels, level) /\ levels' \in Seq(Level)
        BY <2>1 DEF LoopInv, Iterate
      <3>3. \A p \in Mentioned(levels') :
                \E i \in 1..Len(levels') : IsLastMention(levels', p, i)
        BY <2>1, <3>2, LastSizesAppend DEF LoopInv
      <3> QED
        BY <3>1, <3>2, <3>3 DEF LoopInv, Mentioned, IsLastMention
    <2>2. CASE UNCHANGED levelVars
      BY <2>2 DEF levelVars, LoopInv, LoopIsOverlay, Mentioned, IsLastMention
    <2> QED
      BY <2>1, <2>2 DEF Next, Level
  <1>3. LoopInv => LoopIsOverlay
    BY DEF LoopInv
  <1> QED
    BY <1>1, <1>2, <1>3, PTL DEF Spec

-----------------------------------------------------------------------------
(***************************************************************************)
(* The decoder: the widths a number passes through on its way to an event  *)
(* change none that lies in its domain, and let no other one in.           *)
(***************************************************************************)

\* parseIntField accepts the numbers of the range asked for, in either notation,
\* and returns them unchanged (Decoder.cpp:67-114).
LEMMA ParseIsExact ==
    ASSUME NEW field \in Field, NEW low \in {0, -1}, NEW high \in Int, high <= MaxInt
    PROVE  parseIntField(field, low, high) =
               IF Denotes(field, low..high) THEN {field.n} ELSE {}
  <1> DEFINE n == field.n
  <1>1. n \in Int /\ MaxInt \in Nat /\ low \in Int
    BY DecoderAssumption DEF Field
  <1>2. low..high \subseteq Int64
    BY <1>1 DEF Int64
  <1>3. CASE field.kind = "string"
    BY <1>1, <1>2, <1>3 DEF parseIntField, parseStrictInt64, Denotes
  <1>4. CASE field.kind = "number"
    <2>1. CASE n \in 0..MaxUnsigned
      BY <1>1, <1>4, <2>1 DEF parseIntField, Denotes, Stored, MaxUnsigned
    <2>2. CASE n \notin 0..MaxUnsigned /\ n \in Int64
      BY <1>1, <1>4, <2>2 DEF parseIntField, Denotes, Stored
    <2>3. CASE n \notin 0..MaxUnsigned /\ n \notin Int64
      BY <1>1, <1>2, <1>4, <2>3 DEF parseIntField, Denotes, Stored
    <2> QED
      BY <2>1, <2>2, <2>3
  <1>5. CASE field.kind \notin {"string", "number"}
    BY <1>5 DEF parseIntField, Denotes
  <1> QED
    BY <1>3, <1>4, <1>5

\* Multiplication is monotonic.
LEMMA ProductIsMonotonic ==
    ASSUME NEW a \in Int, NEW b \in Int, NEW c \in Nat, a <= b
    PROVE  a * c <= b * c
  <1>1. (b - a) * c >= 0
    OBVIOUS
  <1> QED
    BY <1>1

\* A number of milliseconds is within the limit iff its nanoseconds fit.
LEMMA SafeMilliseconds ==
    ASSUME NEW n \in Int
    PROVE  n \in 0..MaxSafeMs <=> n \in Int64 /\ n * NsPerMs \in 0..MaxInt
  <1> DEFINE rest == MaxInt % NsPerMs
  <1>1. /\ MaxInt \in Nat /\ NsPerMs \in Nat /\ NsPerMs > 0
        /\ MaxSafeMs \in Nat /\ rest \in Nat /\ rest < NsPerMs
        /\ MaxInt = MaxSafeMs * NsPerMs + rest
    BY DecoderAssumption DEF MaxSafeMs
  <1> HIDE DEF rest
  <1>2. ASSUME n < 0 PROVE n * NsPerMs < 0
    <2>1. n * NsPerMs <= (-1) * NsPerMs
      BY <1>1, <1>2, ProductIsMonotonic
    <2> QED
      BY <1>1, <2>1
  <1>3. ASSUME n >= 0 PROVE n * NsPerMs >= n
    <2>1. 1 * n <= NsPerMs * n
      BY <1>1, <1>3, ProductIsMonotonic
    <2>2. NsPerMs * n = n * NsPerMs
      BY <1>1
    <2> QED
      BY <2>1, <2>2
  <1>4. ASSUME n >= 0, n <= MaxSafeMs PROVE n * NsPerMs <= MaxInt
    <2>1. n * NsPerMs <= MaxSafeMs * NsPerMs
      BY <1>1, <1>4, ProductIsMonotonic
    <2> QED
      BY <1>1, <2>1
  <1>5. ASSUME n > MaxSafeMs PROVE n * NsPerMs > MaxInt
    <2>1. (MaxSafeMs + 1) * NsPerMs <= n * NsPerMs
      BY <1>1, <1>5, ProductIsMonotonic
    <2>2. (MaxSafeMs + 1) * NsPerMs = MaxSafeMs * NsPerMs + NsPerMs
      BY <1>1
    <2> QED
      BY <1>1, <2>1, <2>2
  <1>6. n * NsPerMs \in Int
    BY <1>1
  <1>7. CASE n < 0
    BY <1>1, <1>2, <1>7
  <1>8. CASE n >= 0 /\ n <= MaxSafeMs
    BY <1>1, <1>3, <1>4, <1>6, <1>8 DEF Int64
  <1>9. CASE n > MaxSafeMs
    BY <1>1, <1>5, <1>6, <1>9
  <1> QED
    BY <1>1, <1>7, <1>8, <1>9

\* A timestamp is accepted iff it is missing or its nanoseconds fit
\* (Decoder.cpp:145-179).
LEMMA TimestampIsExact ==
    ASSUME NEW field \in Field
    PROVE  parseTimestampMsToNs(field) =
               IF Missing(field) THEN {0}
               ELSE IF Denotes(field, {n \in Int64 : n * NsPerMs \in 0..MaxInt})
               THEN {field.n * NsPerMs} ELSE {}
  <1>1. MaxSafeMs \in Int /\ MaxSafeMs <= MaxInt /\ field.n \in Int
    <2>1. MaxInt \in 0..MaxSafeMs \/ ~(MaxInt <= MaxSafeMs)
      BY DecoderAssumption DEF MaxSafeMs
    <2>2. MaxSafeMs \in Nat /\ MaxInt \in Nat
      BY DecoderAssumption DEF MaxSafeMs
    <2>3. MaxSafeMs \in 0..MaxSafeMs
      BY <2>2
    <2>4. MaxSafeMs \in Int64
      BY <2>2, <2>3, SafeMilliseconds
    <2> QED
      BY <2>2, <2>4 DEF Int64, Field
  <1>2. parseIntField(field, 0, MaxSafeMs) =
            IF Denotes(field, 0..MaxSafeMs) THEN {field.n} ELSE {}
    BY <1>1, ParseIsExact
  <1>3. field.n \in 0..MaxSafeMs <=> field.n \in {n \in Int64 : n * NsPerMs \in 0..MaxInt}
    BY <1>1, SafeMilliseconds
  <1>4. Denotes(field, 0..MaxSafeMs)
            <=> Denotes(field, {n \in Int64 : n * NsPerMs \in 0..MaxInt})
    BY <1>3 DEF Denotes
  <1> QED
    BY <1>2, <1>4 DEF parseTimestampMsToNs

\* An accepted timestamp fits std::int64_t, as does the 0 of a missing one.
LEMMA TimestampInInt64 ==
    ASSUME NEW field \in Field, parseTimestampMsToNs(field) # {}
    PROVE  (CHOOSE n \in parseTimestampMsToNs(field) : TRUE) \in Int64
  <1>1. CASE Missing(field)
    BY <1>1, DecoderAssumption DEF parseTimestampMsToNs, Int64
  <1>2. CASE ~Missing(field)
    <2>1. /\ parseTimestampMsToNs(field) = {field.n * NsPerMs}
          /\ field.n * NsPerMs \in 0..MaxInt
      BY <1>2, TimestampIsExact DEF Denotes
    <2>2. (CHOOSE n \in parseTimestampMsToNs(field) : TRUE) = field.n * NsPerMs
      BY <2>1
    <2> HIDE DEF parseTimestampMsToNs
    <2> QED
      BY <2>1, <2>2, DecoderAssumption DEF Int64
  <1> QED
    BY <1>1, <1>2

\* Every frame of the exchange is decoded exactly.
LEMMA FramesDecodeExactly ==
    ASSUME NEW frame \in OkxFrames
    PROVE  DecodesExactly(frame)
  <1> DEFINE seqId == parseIntField(frame.seqId, 0, MaxInt)
             prevSeqId == parseIntField(frame.prevSeqId, -1, MaxInt)
             timestamp == parseTimestampMsToNs(frame.ts)
             fits == {n \in Int64 : n * NsPerMs \in 0..MaxInt}
             levelsOk == parseLevels(frame.asks) /\ parseLevels(frame.bids)
             r == decodeOkxFrame(frame)
  <1>1. /\ frame.seqId \in Field /\ frame.prevSeqId \in Field /\ frame.ts \in Field
        /\ MaxInt \in Int /\ MaxInt <= MaxInt
    BY DecoderAssumption DEF OkxFrames
  <1>2. seqId = IF Denotes(frame.seqId, 0..MaxInt) THEN {frame.seqId.n} ELSE {}
    BY <1>1, ParseIsExact
  <1>3. prevSeqId = IF Denotes(frame.prevSeqId, -1..MaxInt) THEN {frame.prevSeqId.n} ELSE {}
    BY <1>1, ParseIsExact
  <1>4. timestamp = IF Missing(frame.ts) THEN {0}
                    ELSE IF Denotes(frame.ts, fits) THEN {frame.ts.n * NsPerMs} ELSE {}
    BY <1>1, TimestampIsExact
  <1>5. levelsOk <=> \A side_ \in {frame.bids, frame.asks} : \A i \in DOMAIN side_ :
                         side_[i].price > 0 /\ side_[i].size >= 0
    BY DEF parseLevels
  <1> DEFINE refused == \/ ~frame.envelope
                        \/ frame.action \notin {"snapshot", "update"}
                        \/ {} \in {seqId, prevSeqId, timestamp}
                        \/ ~parseLevels(frame.asks)
                        \/ ~parseLevels(frame.bids)
  <1>6. /\ refused => r = Malformed
        /\ ~refused => /\ r.status = "Ok"
                       /\ r.event.sequence = CHOOSE n \in seqId : TRUE
                       /\ r.event.prevSequence = prevSeqId
                       /\ r.event.timestampNs = CHOOSE n \in timestamp : TRUE
    BY DEF decodeOkxFrame, Decoded
  <1>7. Malformed.status # "Ok"
    BY DEF Malformed
  <1> HIDE DEF r
  <1> DEFINE decodable ==
                 /\ frame.envelope
                 /\ frame.action \in {"snapshot", "update"}
                 /\ Denotes(frame.seqId, 0..MaxInt)
                 /\ Denotes(frame.prevSeqId, -1..MaxInt)
                 /\ Missing(frame.ts) \/ Denotes(frame.ts, fits)
                 /\ levelsOk
  <1>8. refused <=> ~decodable
    <2>1. seqId = {} <=> ~Denotes(frame.seqId, 0..MaxInt)
      BY <1>2
    <2>2. prevSeqId = {} <=> ~Denotes(frame.prevSeqId, -1..MaxInt)
      BY <1>3
    <2>3. timestamp = {} <=> ~(Missing(frame.ts) \/ Denotes(frame.ts, fits))
      BY <1>4
    <2> HIDE DEF seqId, prevSeqId, timestamp, fits
    <2> QED
      BY <2>1, <2>2, <2>3
  <1>9. r.status = "Ok" <=> decodable
    BY <1>6, <1>7, <1>8
  <1>10. ASSUME decodable
         PROVE  /\ r.event.sequence = frame.seqId.n
                /\ r.event.prevSequence = {frame.prevSeqId.n}
                /\ r.event.timestampNs = IF Missing(frame.ts) THEN 0 ELSE frame.ts.n * NsPerMs
    <2>1. /\ seqId = {frame.seqId.n} /\ prevSeqId = {frame.prevSeqId.n}
          /\ timestamp = {IF Missing(frame.ts) THEN 0 ELSE frame.ts.n * NsPerMs}
      BY <1>2, <1>3, <1>4, <1>10
    <2> HIDE DEF seqId, prevSeqId, timestamp, fits
    <2> QED
      BY <1>6, <1>8, <1>10, <2>1
  <1> QED
    BY <1>5, <1>9, <1>10 DEF DecodesExactly, r

-----------------------------------------------------------------------------
(***************************************************************************)
(* The log: what was decoded is what is read back.                         *)
(***************************************************************************)

OptionOf(S) == {{}} \cup {{n} : n \in S}

\* What the decoder can return, either format.
Events ==
    {e \in [type : {"Snapshot", "Delta"}, sequence : 0..MaxInt, hasSequence : BOOLEAN,
            prevSequence : OptionOf(-1..MaxInt), timestampNs : Int64,
            bids : Entries, asks : Entries, checksum : OptionOf(Int64)] :
        /\ ~e.hasSequence => e.prevSequence = {}
        /\ parseLevels(e.bids) /\ parseLevels(e.asks)}

Lines == {Junk} \cup {record(e) : e \in Events}

Attempts ==
    [frame : Frames["OkxBooks"] \cup Frames["ProxyBooks"], format : DOMAIN Frames,
     decoded : {Malformed} \cup {Decoded(e) : e \in Events},
     written : Extents, line : Nat]

\* A line that one event has to itself is that event's; every other is junk.
IsLine(n, line) ==
    \/ \E i \in DOMAIN attempts :
           Intact(i) /\ attempts[i].line = n /\ line = record(attempts[i].decoded.event)
    \/ line = Junk /\ \A i \in DOMAIN attempts : Intact(i) => attempts[i].line # n

LogTypes ==
    /\ file \in [lines : Seq(Lines), torn : OptionOf(Lines)]
    /\ attempts \in Seq(Attempts)
    /\ \A i \in DOMAIN attempts :
           /\ attempts[i].frame \in Frames[attempts[i].format]
           /\ attempts[i].decoded = Malformed => attempts[i].line = 0

\* Attempts take lines in order, up to the torn one if there is one, on which
\* somebody wrote.
LinesInOrder ==
    /\ \A i, j \in DOMAIN attempts :
           i < j /\ attempts[i].line # 0 /\ attempts[j].line # 0
               => attempts[i].line <= attempts[j].line
    /\ \A i \in DOMAIN attempts :
           attempts[i].line <= Len(file.lines) + (IF file.torn = {} THEN 0 ELSE 1)
    /\ file.torn # {} => \E i \in DOMAIN attempts : attempts[i].line = Len(file.lines) + 1

FileInv ==
    /\ LogTypes
    /\ LinesInOrder
    /\ \A n \in 1..Len(file.lines) : IsLine(n, file.lines[n])
    /\ \A line \in file.torn : IsLine(Len(file.lines) + 1, line)

Reads(last) == [line : 1..last, event : Events]

\* The reader has returned exactly the events of the lines it has been through
\* that one event has to itself, in the order of the lines.
ReaderInv ==
    /\ position \in 0..Len(LinesInFile)
    /\ read \in Seq(Reads(position))
    /\ \A k \in DOMAIN read : \E i \in DOMAIN attempts : ReadFrom(k, i)
    /\ \A k, l \in DOMAIN read : k < l => read[k].line < read[l].line
    /\ \A i \in DOMAIN attempts : Intact(i) /\ attempts[i].line <= position
                                      => \E k \in DOMAIN read : ReadFrom(k, i)

LogInv == FileInv /\ ReaderInv

\* The conversions between widths: a number that fits std::int64_t survives, and
\* every integer the JSON library holds becomes one that fits.
LEMMA WidthFacts ==
    /\ MaxInt \in Nat
    /\ \A n \in Int64 : ToSigned(n) = n /\ IsInteger(Number(n))
    /\ \A n \in 0..MaxInt : n \in Int64 /\ IsUnsigned(Number(n))
    /\ \A n \in -1..MaxInt : n \in Int64
    /\ \A field \in Field : IsInteger(field) => ToSigned(field.n) \in Int64
  <1>1. MaxInt \in Nat
    BY DecoderAssumption
  <1>2. \A n \in Int64 : ToSigned(n) = n /\ IsInteger(Number(n))
    BY <1>1 DEF Int64, ToSigned, IsInteger, Number, Stored, MaxUnsigned
  <1>3. \A n \in 0..MaxInt : n \in Int64 /\ IsUnsigned(Number(n))
    BY <1>1 DEF Int64, IsUnsigned, Number, Stored, MaxUnsigned
  <1>4. \A n \in -1..MaxInt : n \in Int64
    BY <1>1 DEF Int64
  <1>5. ASSUME NEW field \in Field, IsInteger(field) PROVE ToSigned(field.n) \in Int64
    <2>1. field.n \in Int /\ (field.n \in 0..MaxUnsigned \/ field.n \in Int64)
      BY <1>5 DEF Field, IsInteger, Stored
    <2> QED
      BY <1>1, <2>1 DEF ToSigned, Int64, MaxUnsigned
  <1> QED
    BY <1>1, <1>2, <1>3, <1>4, <1>5

\* A frame decodes to an event whose numbers fit (Decoder.cpp:186-309).
LEMMA DecodedIsEvent ==
    ASSUME NEW format \in DOMAIN Frames, NEW frame \in Frames[format]
    PROVE  \/ decodeFrame(frame, format) = Malformed
           \/ \E e \in Events : decodeFrame(frame, format) = Decoded(e)
  <1>1. CASE format = "OkxBooks"
    <2> DEFINE seqId == parseIntField(frame.seqId, 0, MaxInt)
               prevSeqId == parseIntField(frame.prevSeqId, -1, MaxInt)
               timestamp == parseTimestampMsToNs(frame.ts)
               checksum == IF IsInteger(frame.checksum)
                           THEN {ToSigned(frame.checksum.n)} ELSE {}
               event == [type |-> EventType(frame.action),
                         sequence |-> CHOOSE n \in seqId : TRUE, hasSequence |-> TRUE,
                         prevSequence |-> prevSeqId,
                         timestampNs |-> CHOOSE n \in timestamp : TRUE,
                         bids |-> frame.bids, asks |-> frame.asks, checksum |-> checksum]
    <2>1. frame \in OkxFrames
      BY <1>1, LogAssumption
    <2>2. /\ frame.seqId \in Field /\ frame.prevSeqId \in Field /\ frame.ts \in Field
          /\ frame.checksum \in Field /\ frame.bids \in Entries /\ frame.asks \in Entries
      BY <2>1 DEF OkxFrames
    <2>3. MaxInt \in Int /\ MaxInt <= MaxInt
      BY WidthFacts
    <2>4. seqId # {} => (CHOOSE n \in seqId : TRUE) \in 0..MaxInt
      <3>1. seqId = IF Denotes(frame.seqId, 0..MaxInt) THEN {frame.seqId.n} ELSE {}
        BY <2>2, <2>3, ParseIsExact
      <3> QED
        BY <3>1 DEF Denotes
    <2>5. prevSeqId \in OptionOf(-1..MaxInt)
      <3>1. prevSeqId = IF Denotes(frame.prevSeqId, -1..MaxInt)
                        THEN {frame.prevSeqId.n} ELSE {}
        BY <2>2, <2>3, ParseIsExact
      <3> QED
        BY <3>1 DEF Denotes, OptionOf
    <2>6. timestamp # {} => (CHOOSE n \in timestamp : TRUE) \in Int64
      BY <2>2, TimestampInInt64
    <2>7. checksum \in OptionOf(Int64)
      BY <2>2, WidthFacts DEF OptionOf
    <2>8. \/ decodeFrame(frame, format) = Malformed
          \/ /\ decodeFrame(frame, format) = Decoded(event)
             /\ seqId # {} /\ timestamp # {}
             /\ parseLevels(frame.asks) /\ parseLevels(frame.bids)
      BY <1>1 DEF decodeFrame, decodeOkxFrame
    <2>9. EventType(frame.action) \in {"Snapshot", "Delta"}
      BY DEF EventType
    <2> HIDE DEF seqId, prevSeqId, timestamp, checksum
    <2>10. ASSUME seqId # {}, timestamp # {}, parseLevels(frame.asks), parseLevels(frame.bids)
           PROVE  event \in Events
      BY <2>2, <2>4, <2>5, <2>6, <2>7, <2>9, <2>10 DEF Events
    <2> QED
      BY <2>8, <2>10
  <1>2. CASE format = "ProxyBooks"
    <2> DEFINE timestamp == parseTimestampMsToNs(frame.ts)
               seq == proxySequence(frame)
               sequence == IF seq = {} THEN 0 ELSE CHOOSE n \in seq : TRUE
               timestampNs == IF frame.ts.kind = "absent" /\ IsInteger(frame.timestamp_ns)
                              THEN ToSigned(frame.timestamp_ns.n)
                              ELSE CHOOSE n \in timestamp : TRUE
               type == IF frame.action = "update" THEN "Delta" ELSE "Snapshot"
               event == [type |-> type, sequence |-> sequence, hasSequence |-> seq # {},
                         prevSequence |-> {}, timestampNs |-> timestampNs,
                         bids |-> frame.bids, asks |-> frame.asks, checksum |-> {}]
    <2>1. frame \in ProxyFrames
      BY <1>2, LogAssumption
    <2>2. /\ frame.sequence \in Field /\ frame.ts \in Field /\ frame.timestamp_ns \in Field
          /\ frame.bids \in Entries /\ frame.asks \in Entries
      BY <2>1 DEF ProxyFrames
    <2>3. MaxInt \in Nat /\ MaxInt \in Int /\ MaxInt <= MaxInt
      BY WidthFacts
    <2>4. sequence \in 0..MaxInt
      <3>1. seq = IF Denotes(frame.sequence, 0..MaxInt) THEN {frame.sequence.n} ELSE {}
        BY <2>2, <2>3, ParseIsExact DEF proxySequence
      <3> QED
        BY <2>3, <3>1 DEF Denotes
    <2>5. timestamp # {} => timestampNs \in Int64
      BY <2>2, TimestampInInt64, WidthFacts
    <2>6. type \in {"Snapshot", "Delta"} /\ (seq # {}) \in BOOLEAN
      OBVIOUS
    <2>7. {} \in OptionOf(-1..MaxInt) /\ {} \in OptionOf(Int64)
      BY DEF OptionOf
    <2>8. \/ decodeFrame(frame, format) = Malformed
          \/ /\ decodeFrame(frame, format) = Decoded(event)
             /\ timestamp # {} /\ parseLevels(frame.asks) /\ parseLevels(frame.bids)
      BY <1>2 DEF decodeFrame, decodeProxyFrame
    <2> HIDE DEF timestamp, sequence, timestampNs, type
    <2>9. ASSUME timestamp # {}, parseLevels(frame.asks), parseLevels(frame.bids)
          PROVE  event \in Events
      BY <2>2, <2>4, <2>5, <2>6, <2>7, <2>9 DEF Events
    <2> QED
      BY <2>8, <2>9
  <1> QED
    BY <1>1, <1>2, LogAssumption

\* Writing an event and reading its line gives the event back; a line that does
\* not parse gives nothing (Recorder.cpp:91-137, 144-238).
LEMMA RoundTrip == next(Junk) = {} /\ \A e \in Events : next(record(e)) = {e}
  <1>1. next(Junk) = {}
    BY DEF next, Junk
  <1>2. ASSUME NEW e \in Events PROVE next(record(e)) = {e}
    <2> DEFINE line == record(e)
               seq == SeqIdOf(line)
               sequenced == seq # {} /\ line.sequenced
    <2>1. /\ e.type \in {"Snapshot", "Delta"} /\ e.sequence \in 0..MaxInt
          /\ e.hasSequence \in BOOLEAN /\ e.prevSequence \in OptionOf(-1..MaxInt)
          /\ e.timestampNs \in Int64 /\ e.checksum \in OptionOf(Int64)
          /\ ~e.hasSequence => e.prevSequence = {}
          /\ parseLevels(e.bids) /\ parseLevels(e.asks)
          /\ e = [type |-> e.type, sequence |-> e.sequence, hasSequence |-> e.hasSequence,
                  prevSequence |-> e.prevSequence, timestampNs |-> e.timestampNs,
                  bids |-> e.bids, asks |-> e.asks, checksum |-> e.checksum]
      BY DEF Events
    <2>2. /\ line.type = e.type /\ line.seqId = Number(e.sequence)
          /\ line.prevSeqId = OptionalNumber(e.prevSequence)
          /\ line.sequenced = e.hasSequence
          /\ line.timestamp_ns = Number(e.timestampNs)
          /\ line.bids = e.bids /\ line.asks = e.asks
          /\ line.checksum = OptionalNumber(e.checksum)
      BY DEF record
    <2>3. seq = {e.sequence}
      BY <2>1, <2>2, WidthFacts DEF SeqIdOf, Number
    <2>4. sequenced <=> e.hasSequence
      BY <2>2, <2>3
    <2>5. \A n \in Int64 : Optional(OptionalNumber({n})) = {n}
      <3>1. \A n \in Int64 : OptionalNumber({n}) = Number(n) /\ Number(n).n = n
        BY DEF OptionalNumber, Number
      <3> QED
        BY <3>1, WidthFacts DEF Optional
    <2>6. Optional(OptionalNumber({})) = {}
      BY DEF Optional, OptionalNumber, IsInteger, Absent
    <2>7. Optional(line.checksum) = e.checksum
      BY <2>1, <2>2, <2>5, <2>6 DEF OptionOf
    <2>8. Optional(line.prevSeqId) = e.prevSequence
      <3>1. CASE e.prevSequence = {}
        BY <2>2, <2>6, <3>1
      <3>2. ASSUME NEW n \in -1..MaxInt, e.prevSequence = {n}
            PROVE  Optional(line.prevSeqId) = e.prevSequence
        <4>1. n \in Int64
          BY WidthFacts
        <4> QED
          BY <2>2, <2>5, <3>2, <4>1
      <3> QED
        BY <2>1, <3>1, <3>2 DEF OptionOf
    <2>9. /\ line.timestamp_ns.kind # "absent" /\ IsInteger(line.timestamp_ns)
          /\ ToSigned(line.timestamp_ns.n) = e.timestampNs
      BY <2>1, <2>2, WidthFacts DEF Number
    <2>10. (IF line.type = "Snapshot" THEN "Snapshot" ELSE "Delta") = e.type
      BY <2>1, <2>2
    <2>11. sequenced = e.hasSequence
      BY <2>1, <2>4, Zenon
    <2>12. (IF sequenced THEN Optional(line.prevSeqId) ELSE {}) = e.prevSequence
      BY <2>1, <2>4, <2>8
    <2>13. (IF seq = {} THEN 0 ELSE CHOOSE n \in seq : TRUE) = e.sequence
      BY <2>3
    <2>14. next(line) = {[type |-> IF line.type = "Snapshot" THEN "Snapshot" ELSE "Delta",
                          sequence |-> IF seq = {} THEN 0 ELSE CHOOSE n \in seq : TRUE,
                          hasSequence |-> sequenced,
                          prevSequence |-> IF sequenced THEN Optional(line.prevSeqId) ELSE {},
                          timestampNs |-> IF line.timestamp_ns.kind = "absent"
                                          THEN 0 ELSE ToSigned(line.timestamp_ns.n),
                          bids |-> line.bids, asks |-> line.asks,
                          checksum |-> Optional(line.checksum)]}
      <3>1. ~(\/ line.type = "absent"
              \/ ~parseLevels(line.bids) \/ ~parseLevels(line.asks)
              \/ line.timestamp_ns.kind # "absent" /\ ~IsInteger(line.timestamp_ns))
        BY <2>1, <2>2, <2>9
      <3> HIDE DEF line
      <3> QED
        BY <3>1, Zenon DEF next
    <2> HIDE DEF line, seq, sequenced
    <2>15. (IF line.timestamp_ns.kind = "absent" THEN 0 ELSE ToSigned(line.timestamp_ns.n))
               = e.timestampNs
      BY <2>9
    <2>16. next(line) = {[type |-> e.type, sequence |-> e.sequence,
                          hasSequence |-> e.hasSequence, prevSequence |-> e.prevSequence,
                          timestampNs |-> e.timestampNs, bids |-> e.bids, asks |-> e.asks,
                          checksum |-> e.checksum]}
      BY <2>2, <2>7, <2>10, <2>11, <2>12, <2>13, <2>14, <2>15
    <2> QED
      BY <2>1, <2>16 DEF line
  <1> QED
    BY <1>1, <1>2

\* The file's lines, with the torn one: each belongs to one event, or is junk.
LEMMA LinesInFileFacts ==
    ASSUME FileInv
    PROVE  /\ Len(LinesInFile) = Len(file.lines) + (IF file.torn = {} THEN 0 ELSE 1)
           /\ Len(LinesInFile) \in Nat
           /\ \A n \in 1..Len(LinesInFile) : IsLine(n, LinesInFile[n])
  <1>1. /\ file.lines \in Seq(Lines) /\ Len(file.lines) \in Nat
        /\ \A n \in 1..Len(file.lines) : IsLine(n, file.lines[n])
        /\ \A line \in file.torn : IsLine(Len(file.lines) + 1, line)
    BY DEF FileInv, LogTypes
  <1>2. CASE file.torn = {}
    <2>1. LinesInFile = file.lines
      BY <1>1, <1>2 DEF LinesInFile
    <2> QED
      BY <1>1, <1>2, <2>1
  <1>3. CASE file.torn # {}
    <2> DEFINE torn == CHOOSE l \in file.torn : TRUE
    <2>1. torn \in file.torn /\ file.torn \subseteq Lines
      BY <1>3 DEF FileInv, LogTypes, OptionOf
    <2>2. LinesInFile = file.lines \o <<torn>>
      BY <1>3 DEF LinesInFile
    <2> HIDE DEF torn
    <2>3. /\ Len(LinesInFile) = Len(file.lines) + 1
          /\ \A n \in 1..Len(file.lines) : LinesInFile[n] = file.lines[n]
          /\ LinesInFile[Len(file.lines) + 1] = torn
      BY <1>1, <2>1, <2>2
    <2>4. ASSUME NEW n \in 1..Len(LinesInFile) PROVE IsLine(n, LinesInFile[n])
      <3>1. CASE n = Len(file.lines) + 1
        BY <1>1, <2>1, <2>3, <3>1
      <3>2. CASE n # Len(file.lines) + 1
        BY <1>1, <2>3, <3>2
      <3> QED
        BY <3>1, <3>2
    <2>5. Len(LinesInFile) = Len(file.lines) + (IF file.torn = {} THEN 0 ELSE 1)
      BY <1>3, <2>3
    <2>6. Len(LinesInFile) \in Nat
      BY <1>1, <2>3
    <2> QED
      BY <2>4, <2>5, <2>6
  <1> QED
    BY <1>2, <1>3

\* What was recorded on a line is an event.
LEMMA RecordedIsEvent ==
    ASSUME LogTypes, NEW i \in DOMAIN attempts, attempts[i].line # 0
    PROVE  /\ attempts[i].decoded.event \in Events
           /\ attempts[i].decoded = Decoded(attempts[i].decoded.event)
  <1>1. /\ attempts[i].decoded \in {Malformed} \cup {Decoded(e) : e \in Events}
        /\ attempts[i].decoded # Malformed
    <2>1. attempts[i] \in Attempts
      BY DEF LogTypes
    <2>2. attempts[i].decoded # Malformed
      BY DEF LogTypes
    <2> QED
      BY <2>1, <2>2 DEF Attempts
  <1> QED
    BY <1>1 DEF Decoded

\* A frame decoded and recorded, however much of its line is written
\* (parity_test.cpp:26-33, Recorder.cpp:131-136).
LEMMA RecordKeepsFile ==
    ASSUME FileInv, NEW written \in Extents,
           NEW format \in DOMAIN Frames, NEW frame \in Frames[format],
           DecodeAndRecord(frame, format, written)
    PROVE  FileInv'
  <1> PICK m, L : m = Len(attempts) + 1 /\ L = Len(file.lines) + 1
    OBVIOUS
  <1> DEFINE decoded == decodeFrame(frame, format)
             a == [frame |-> frame, format |-> format, decoded |-> decoded,
                   written |-> written, line |-> IF written = "none" THEN 0 ELSE L]
  <1>1. /\ attempts \in Seq(Attempts) /\ file.lines \in Seq(Lines)
        /\ file.torn \in OptionOf(Lines) /\ Len(file.lines) \in Nat /\ L \in Nat \ {0}
        /\ m \in Nat \ {0} /\ DOMAIN attempts = 1..m - 1
        /\ file = [lines |-> file.lines, torn |-> file.torn]
    BY DEF FileInv, LogTypes
  <1>2. decoded = Malformed \/ \E e \in Events : decoded = Decoded(e)
    BY DecodedIsEvent
  <1>3. /\ attempts' = Append(attempts, a)
        /\ file' = IF written = "none" THEN file ELSE Write(decoded.event, written)
        /\ decoded = Malformed => written = "none"
    BY DEF DecodeAndRecord
  <1>4. a \in Attempts
    <2>1. frame \in Frames["OkxBooks"] \cup Frames["ProxyBooks"]
      BY LogAssumption
    <2>2. decoded \in {Malformed} \cup {Decoded(e) : e \in Events}
      BY <1>2
    <2>3. (IF written = "none" THEN 0 ELSE L) \in Nat
      BY <1>1
    <2> HIDE DEF decoded
    <2> QED
      BY <2>1, <2>2, <2>3 DEF Attempts
  <1>5. /\ a.frame = frame /\ a.format = format /\ a.decoded = decoded /\ a.written = written
        /\ a.line = IF written = "none" THEN 0 ELSE L
    OBVIOUS
  <1> HIDE DEF a, decoded
  <1>6. /\ attempts' \in Seq(Attempts) /\ DOMAIN attempts' = 1..m
        /\ \A i \in 1..m - 1 : attempts'[i] = attempts[i]
        /\ attempts'[m] = a
    BY <1>1, <1>3, <1>4
  <1>7. \A i \in 1..m - 1 : attempts[i].line \in Nat /\ attempts[i].line <= L
    <2>1. \A i \in 1..m - 1 : attempts[i] \in Attempts
      BY <1>1
    <2>2. \A i \in 1..m - 1 : attempts[i].line \in Nat
      BY <2>1 DEF Attempts
    <2> QED
      BY <1>1, <2>2 DEF FileInv, LinesInOrder
  <1>8. a.decoded = Malformed => a.line = 0
    BY <1>3, <1>5
  <1>9. \A i \in DOMAIN attempts' :
            /\ attempts'[i].frame \in Frames[attempts'[i].format]
            /\ attempts'[i].decoded = Malformed => attempts'[i].line = 0
    <2> SUFFICES ASSUME NEW i \in 1..m
                 PROVE  /\ attempts'[i].frame \in Frames[attempts'[i].format]
                        /\ attempts'[i].decoded = Malformed => attempts'[i].line = 0
      BY <1>6
    <2>1. CASE i = m
      BY <1>5, <1>6, <1>8, <2>1
    <2>2. CASE i # m
      <3>1. i \in 1..m - 1
        BY <1>1, <2>2
      <3> QED
        BY <1>1, <1>6, <3>1 DEF FileInv, LogTypes
    <2> QED
      BY <2>1, <2>2
  <1>10. CASE written = "none"
    <2>1. file' = file /\ a.line = 0
      BY <1>3, <1>5, <1>10
    <2>2. LogTypes'
      <3>1. file' \in [lines : Seq(Lines), torn : OptionOf(Lines)]
        BY <2>1 DEF LogTypes, FileInv
      <3>2. attempts' \in Seq(Attempts)
        BY <1>6
      <3> QED
        BY <1>9, <3>1, <3>2, Zenon DEF LogTypes
    <2>3. LinesInOrder'
      <3>1. \A i, j \in 1..m : i < j /\ attempts'[i].line # 0 /\ attempts'[j].line # 0
                                  => attempts'[i].line <= attempts'[j].line
        <4> SUFFICES ASSUME NEW i \in 1..m, NEW j \in 1..m, i < j,
                            attempts'[i].line # 0, attempts'[j].line # 0
                     PROVE  attempts'[i].line <= attempts'[j].line
          OBVIOUS
        <4>1. i \in 1..m - 1 /\ j \in 1..m - 1
          BY <1>1, <1>6, <2>1
        <4> QED
          BY <1>1, <1>6, <4>1 DEF FileInv, LinesInOrder
      <3>2. \A i \in 1..m : attempts'[i].line <=
                                Len(file'.lines) + (IF file'.torn = {} THEN 0 ELSE 1)
        <4> SUFFICES ASSUME NEW i \in 1..m
                     PROVE  attempts'[i].line <=
                                Len(file'.lines) + (IF file'.torn = {} THEN 0 ELSE 1)
          OBVIOUS
        <4>1. CASE i = m
          BY <1>1, <1>6, <2>1, <4>1
        <4>2. CASE i # m
          <5>1. i \in 1..m - 1
            BY <1>1, <4>2
          <5> QED
            BY <1>1, <1>6, <2>1, <5>1 DEF FileInv, LinesInOrder
        <4> QED
          BY <4>1, <4>2
      <3>3. file'.torn # {} => \E i \in 1..m : attempts'[i].line = Len(file'.lines) + 1
        <4> SUFFICES ASSUME file.torn # {}
                     PROVE  \E i \in 1..m : attempts'[i].line = Len(file.lines) + 1
          BY <2>1
        <4>1. PICK i \in 1..m - 1 : attempts[i].line = Len(file.lines) + 1
          BY <1>1 DEF FileInv, LinesInOrder
        <4> QED
          BY <1>1, <1>6, <4>1
      <3> QED
        BY <1>6, <3>1, <3>2, <3>3 DEF LinesInOrder
    <2>4. \A i \in 1..m : Intact(i)' <=> i # m /\ Intact(i)
      <3> SUFFICES ASSUME NEW i \in 1..m PROVE Intact(i)' <=> i # m /\ Intact(i)
        OBVIOUS
      <3>1. CASE i = m
        BY <1>6, <2>1, <3>1 DEF Intact
      <3>2. CASE i # m
        <4>1. i \in 1..m - 1 /\ attempts'[i] = attempts[i] /\ attempts'[m].line = 0
          BY <1>1, <1>6, <2>1, <3>2
        <4>2. ASSUME attempts[i].line # 0
              PROVE  (\A j \in 1..m \ {i} : attempts'[j].line # attempts[i].line)
                       <=> (\A j \in (1..m - 1) \ {i} : attempts[j].line # attempts[i].line)
          <5>1. \A j \in 1..m : j = m \/ j \in 1..m - 1
            BY <1>1
          <5>2. \A j \in 1..m - 1 : j \in 1..m
            BY <1>1
          <5> QED
            BY <1>6, <4>1, <4>2, <5>1, <5>2
        <4> QED
          BY <1>1, <1>6, <3>2, <4>1, <4>2 DEF Intact
      <3> QED
        BY <3>1, <3>2
    <2>5. ASSUME NEW n, NEW line, IsLine(n, line) PROVE IsLine(n, line)'
      <3>1. \A i \in 1..m - 1 : Intact(i)' <=> Intact(i)
        BY <1>1, <2>4
      <3>2. CASE \E i \in 1..m - 1 :
                     Intact(i) /\ attempts[i].line = n /\ line = record(attempts[i].decoded.event)
        BY <1>1, <1>6, <3>1, <3>2 DEF IsLine
      <3>3. CASE line = Junk /\ \A i \in 1..m - 1 : Intact(i) => attempts[i].line # n
        BY <1>1, <1>6, <2>4, <3>1, <3>3 DEF IsLine
      <3> QED
        BY <1>1, <2>5, <3>2, <3>3 DEF IsLine
    <2> QED
      BY <2>1, <2>2, <2>3, <2>5 DEF FileInv
  <1>11. CASE written # "none"
    <2>1. PICK e \in Events : decoded = Decoded(e)
      BY <1>2, <1>3, <1>11
    <2>2. decoded.event = e /\ a.line = L /\ record(e) \in Lines /\ Junk \in Lines
      BY <1>5, <1>11, <2>1 DEF Decoded, Lines
    <2> PICK whole, what :
            /\ whole = IF file.torn = {} THEN record(e) ELSE Junk
            /\ what = IF file.torn = {} /\ written # "partial" THEN record(e) ELSE Junk
      OBVIOUS
    <2>3. /\ whole \in Lines /\ what \in Lines
          /\ written # "partial" => whole = what
          /\ written = "partial" => what = Junk
      BY <2>2
    <2>4. file' = Write(e, written)
      BY <1>3, <1>11, <2>2
    <2>5. /\ file' \in [lines : Seq(Lines), torn : OptionOf(Lines)]
          /\ \/ file'.lines = Append(file.lines, what) /\ file'.torn = {}
             \/ file'.lines = file.lines /\ file'.torn = {what}
      <3>1. CASE written = "all"
        <4>1. file' = [lines |-> Append(file.lines, whole), torn |-> {}]
          BY <2>4, <3>1 DEF Write
        <4>2. Append(file.lines, whole) \in Seq(Lines) /\ {} \in OptionOf(Lines)
          BY <1>1, <2>3 DEF OptionOf
        <4> QED
          BY <2>3, <3>1, <4>1, <4>2
      <3>2. CASE written = "partial"
        <4>1. file' = [file EXCEPT !.torn = {Junk}]
          BY <2>4, <3>2 DEF Write
        <4>2. {Junk} \in OptionOf(Lines)
          BY <2>2 DEF OptionOf
        <4> QED
          BY <1>1, <2>3, <3>2, <4>1, <4>2
      <3>3. CASE written = "newline"
        <4>1. file' = [file EXCEPT !.torn = {whole}]
          BY <2>4, <3>3 DEF Write
        <4>2. {whole} \in OptionOf(Lines)
          BY <2>3 DEF OptionOf
        <4> QED
          BY <1>1, <2>3, <3>3, <4>1, <4>2
      <3> QED
        BY <1>11, <3>1, <3>2, <3>3 DEF Extents
    <2>6. LogTypes'
      <3>1. attempts' \in Seq(Attempts)
        BY <1>6
      <3> QED
        BY <1>9, <2>5, <3>1, Zenon DEF LogTypes
    <2>7. /\ Len(file'.lines) + (IF file'.torn = {} THEN 0 ELSE 1) = L
          /\ file'.torn # {} => Len(file'.lines) + 1 = L
      <3>1. CASE file'.lines = Append(file.lines, what) /\ file'.torn = {}
        <4>1. Len(file'.lines) = Len(file.lines) + 1
          BY <1>1, <2>3, <3>1
        <4> QED
          BY <1>1, <3>1, <4>1
      <3>2. CASE file'.lines = file.lines /\ file'.torn = {what}
        <4>1. file'.torn # {}
          BY <3>2
        <4> QED
          BY <1>1, <3>2, <4>1
      <3> QED
        BY <2>5, <3>1, <3>2
    <2>8. LinesInOrder'
      <3>1. \A i \in 1..m : attempts'[i].line \in Nat /\ attempts'[i].line <= L
        <4> SUFFICES ASSUME NEW i \in 1..m
                     PROVE  attempts'[i].line \in Nat /\ attempts'[i].line <= L
          OBVIOUS
        <4>1. CASE i = m
          BY <1>1, <1>6, <2>2, <4>1
        <4>2. CASE i # m
          <5>1. i \in 1..m - 1
            BY <1>1, <4>2
          <5> QED
            BY <1>6, <1>7, <5>1
        <4> QED
          BY <4>1, <4>2
      <3>2. \A i, j \in 1..m : i < j /\ attempts'[i].line # 0 /\ attempts'[j].line # 0
                                  => attempts'[i].line <= attempts'[j].line
        <4> SUFFICES ASSUME NEW i \in 1..m, NEW j \in 1..m, i < j,
                            attempts'[i].line # 0, attempts'[j].line # 0
                     PROVE  attempts'[i].line <= attempts'[j].line
          OBVIOUS
        <4>1. i \in 1..m - 1
          BY <1>1
        <4>2. CASE j = m
          BY <1>6, <2>2, <3>1, <4>1, <4>2
        <4>3. CASE j # m
          <5>1. j \in 1..m - 1
            BY <1>1, <4>3
          <5> QED
            BY <1>1, <1>6, <4>1, <5>1 DEF FileInv, LinesInOrder
        <4> QED
          BY <4>2, <4>3
      <3>3. m \in 1..m /\ attempts'[m].line = L
        BY <1>1, <1>6, <2>2
      <3> QED
        BY <1>6, <2>7, <3>1, <3>2, <3>3 DEF LinesInOrder
    <2>9. \A i \in 1..m - 1 : attempts[i].line # L => (Intact(i)' <=> Intact(i))
      <3> SUFFICES ASSUME NEW i \in 1..m - 1, attempts[i].line # L
                   PROVE  Intact(i)' <=> Intact(i)
        OBVIOUS
      <3>1. attempts'[i] = attempts[i] /\ attempts'[m].line # attempts'[i].line
        BY <1>6, <2>2
      <3>2. Intact(i)' => Intact(i)
        BY <1>1, <1>6, <3>1 DEF Intact
      <3>3. Intact(i) => Intact(i)'
        <4> SUFFICES ASSUME Intact(i), NEW j \in 1..m, j # i
                     PROVE  attempts'[j].line # attempts'[i].line
          BY <1>6, <3>1 DEF Intact
        <4>1. CASE j = m
          BY <3>1, <4>1
        <4>2. CASE j # m
          <5>1. j \in 1..m - 1
            BY <1>1, <4>2
          <5> QED
            BY <1>1, <1>6, <5>1 DEF Intact
        <4> QED
          BY <4>1, <4>2
      <3> QED
        BY <3>2, <3>3
    <2>10. \A i \in 1..m - 1 : attempts[i].line = L => ~Intact(i)'
      BY <1>1, <1>6, <2>2 DEF Intact
    <2>11. \A i \in 1..m - 1 : Intact(i)' => attempts'[i].line # L
      BY <1>6, <2>10
    <2>12. IsLine(L, what)'
      <3>1. CASE file.torn = {} /\ written # "partial"
        <4>1. \A i \in 1..m - 1 : attempts[i].line # L
          <5>1. \A i \in 1..m - 1 : attempts[i].line <= Len(file.lines)
            BY <1>1, <1>7, <3>1 DEF FileInv, LinesInOrder
          <5> QED
            BY <1>1, <1>7, <5>1
        <4>2. Intact(m)'
          <5>1. attempts'[m].line = L /\ L # 0 /\ attempts'[m].written = written
            BY <1>1, <1>5, <1>6, <2>2
          <5>2. \A j \in 1..m \ {m} : attempts'[j].line # L
            <6>1. \A j \in 1..m \ {m} : j \in 1..m - 1
              BY <1>1
            <6> QED
              BY <1>6, <4>1, <6>1
          <5> QED
            BY <1>6, <3>1, <5>1, <5>2 DEF Intact
        <4>3. attempts'[m].line = L /\ what = record(attempts'[m].decoded.event)
          BY <1>5, <1>6, <2>2, <3>1
        <4>4. m \in DOMAIN attempts'
          BY <1>1, <1>6
        <4> QED
          BY <4>2, <4>3, <4>4 DEF IsLine
      <3>2. CASE ~(file.torn = {} /\ written # "partial")
        <4>1. ~Intact(m)'
          <5>1. CASE written = "partial"
            BY <1>5, <1>6, <5>1 DEF Intact
          <5>2. CASE file.torn # {}
            <6>1. PICK i \in 1..m - 1 : attempts[i].line = L
              BY <1>1, <5>2 DEF FileInv, LinesInOrder
            <6> QED
              BY <1>1, <1>6, <2>2, <6>1 DEF Intact
          <5> QED
            BY <3>2, <5>1, <5>2
        <4>2. \A i \in 1..m : Intact(i)' => attempts'[i].line # L
          BY <1>1, <2>11, <4>1
        <4>3. what = Junk
          BY <3>2
        <4> QED
          BY <1>6, <4>2, <4>3 DEF IsLine
      <3> QED
        BY <3>1, <3>2
    <2>13. ASSUME NEW n \in 1..L - 1, NEW line, IsLine(n, line) PROVE IsLine(n, line)'
      <3>1. n # L
        BY <1>1
      <3>2. CASE \E i \in 1..m - 1 :
                     Intact(i) /\ attempts[i].line = n /\ line = record(attempts[i].decoded.event)
        BY <1>1, <1>6, <2>9, <3>1, <3>2 DEF IsLine
      <3>3. CASE line = Junk /\ \A i \in 1..m - 1 : Intact(i) => attempts[i].line # n
        <4>1. \A i \in 1..m : Intact(i)' => attempts'[i].line # n
          <5> SUFFICES ASSUME NEW i \in 1..m, Intact(i)' PROVE attempts'[i].line # n
            OBVIOUS
          <5>1. CASE i = m
            BY <1>6, <2>2, <3>1, <5>1
          <5>2. CASE i # m
            <6>1. i \in 1..m - 1
              BY <1>1, <5>2
            <6> QED
              BY <1>6, <2>9, <2>10, <3>3, <6>1
          <5> QED
            BY <5>1, <5>2
        <4> QED
          BY <1>6, <3>3, <4>1 DEF IsLine
      <3> QED
        BY <1>1, <2>13, <3>2, <3>3 DEF IsLine
    <2>14. \A n \in 1..L - 1 : \E line : line = file.lines[n] /\ IsLine(n, line)'
      <3> SUFFICES ASSUME NEW n \in 1..L - 1
                   PROVE  \E line : line = file.lines[n] /\ IsLine(n, line)'
        OBVIOUS
      <3>1. PICK line : line = file.lines[n]
        OBVIOUS
      <3>2. IsLine(n, line)
        BY <1>1, <3>1 DEF FileInv
      <3> QED
        BY <2>13, <3>1, <3>2
    <2>15. /\ \A n \in 1..Len(file'.lines) :
                 \E line : line = file'.lines[n] /\ IsLine(n, line)'
           /\ \A line \in file'.torn : Len(file'.lines) + 1 = L /\ line = what
      <3>1. CASE file'.lines = Append(file.lines, what) /\ file'.torn = {}
        <4>1. /\ Len(file'.lines) = L /\ file'.lines[L] = what
              /\ \A n \in 1..L - 1 : file'.lines[n] = file.lines[n]
          BY <1>1, <2>3, <3>1
        <4>2. ASSUME NEW n \in 1..L
              PROVE  \E line : line = file'.lines[n] /\ IsLine(n, line)'
          BY <1>1, <2>12, <2>14, <4>1
        <4> QED
          BY <3>1, <4>1, <4>2
      <3>2. CASE file'.lines = file.lines /\ file'.torn = {what}
        BY <1>1, <2>14, <3>2
      <3> QED
        BY <2>5, <3>1, <3>2
    <2> QED
      BY <2>6, <2>8, <2>12, <2>15 DEF FileInv, IsLine
  <1> QED
    BY <1>10, <1>11

\* The same of the next state.
LEMMA LinesInFileNext == FileInv' => (Len(LinesInFile) \in Nat)'
  <1>1. FileInv => Len(LinesInFile) \in Nat
    BY LinesInFileFacts
  <1> QED
    BY <1>1, PTL

\* While frames are recorded the reader has not started.
LEMMA RecordKeepsReader ==
    ASSUME LogInv, FileInv', position = 0, UNCHANGED <<position, read>>
    PROVE  ReaderInv'
  <1>1. position' = 0 /\ read' = read /\ DOMAIN read = {} /\ read' \in Seq(Reads(0))
    <2>1. read \in Seq(Reads(0))
      BY DEF LogInv, ReaderInv
    <2>2. \A k \in DOMAIN read : read[k] \in Reads(0)
      BY <2>1
    <2>3. \A r \in Reads(0) : FALSE
      BY DEF Reads
    <2>4. DOMAIN read = {}
      BY <2>2, <2>3
    <2> QED
      BY <2>1, <2>4
  <1>2. (Len(LinesInFile) \in Nat)'
    BY LinesInFileNext
  <1>3. \A i \in DOMAIN attempts' : attempts'[i].line \in Nat
    <2>1. attempts' \in Seq(Attempts)
      BY DEF FileInv, LogTypes
    <2>2. \A i \in DOMAIN attempts' : attempts'[i] \in Attempts
      BY <2>1
    <2> QED
      BY <2>2 DEF Attempts
  <1>4. \A i \in DOMAIN attempts' : Intact(i)' => ~(attempts'[i].line <= 0)
    BY <1>3 DEF Intact
  <1> QED
    BY <1>1, <1>2, <1>4 DEF ReaderInv

\* The reader goes through one more line (Recorder.cpp:144-238).
LEMMA ReadLineKeepsReader ==
    ASSUME LogInv, ReadLine
    PROVE  ReaderInv'
  <1> PICK n : n = position + 1
    OBVIOUS
  <1> PICK line : line = LinesInFile[n]
    OBVIOUS
  <1>1. /\ FileInv /\ LogTypes /\ position \in Nat /\ n \in 1..Len(LinesInFile)
        /\ Len(LinesInFile) \in Nat
        /\ position' = n /\ file' = file /\ attempts' = attempts
        /\ read \in Seq(Reads(position))
        /\ read' = IF next(line) = {} THEN read
                   ELSE Append(read, [line |-> n, event |-> CHOOSE e \in next(line) : TRUE])
    <2>1. FileInv /\ LogTypes /\ ReaderInv
      BY DEF LogInv, FileInv
    <2>2. Len(LinesInFile) \in Nat
      BY <2>1, LinesInFileFacts
    <2>3. position \in 0..Len(LinesInFile) /\ read \in Seq(Reads(position))
      BY <2>1 DEF ReaderInv
    <2>4. /\ position < Len(LinesInFile) /\ position' = n /\ UNCHANGED <<file, attempts>>
          /\ read' = IF next(line) = {} THEN read
                     ELSE Append(read, [line |-> n, event |-> CHOOSE e \in next(line) : TRUE])
      BY DEF ReadLine
    <2> QED
      BY <2>1, <2>2, <2>3, <2>4
  <1>2. IsLine(n, line)
    <2>1. \A k \in 1..Len(LinesInFile) : IsLine(k, LinesInFile[k])
      BY <1>1, LinesInFileFacts
    <2> QED
      BY <1>1, <2>1
  <1>3. (position \in 0..Len(LinesInFile))'
    <2>1. LinesInFile' = LinesInFile
      BY <1>1 DEF LinesInFile
    <2>2. n \in 0..Len(LinesInFile)
      BY <1>1
    <2> QED
      BY <1>1, <2>1, <2>2
  <1>4. /\ \A i : Intact(i)' <=> Intact(i)
        /\ \A i \in DOMAIN attempts : attempts[i].line \in Nat
    <2>1. \A i : Intact(i)' <=> Intact(i)
      BY <1>1 DEF Intact
    <2>2. \A i \in DOMAIN attempts : attempts[i] \in Attempts
      BY <1>1 DEF LogTypes
    <2> QED
      BY <2>1, <2>2 DEF Attempts
  <1>5. Len(read) \in Nat /\ DOMAIN read = 1..Len(read)
    BY <1>1
  <1>6. /\ \A k \in DOMAIN read : \E i \in DOMAIN attempts : ReadFrom(k, i)
        /\ \A k, l \in DOMAIN read : k < l => read[k].line < read[l].line
        /\ \A i \in DOMAIN attempts : Intact(i) /\ attempts[i].line <= position
                                          => \E k \in DOMAIN read : ReadFrom(k, i)
        /\ \A k \in DOMAIN read : read[k].line \in 1..position
    <2>1. \A k \in DOMAIN read : read[k] \in Reads(position)
      BY <1>1
    <2>2. \A k \in DOMAIN read : read[k].line \in 1..position
      BY <2>1 DEF Reads
    <2> QED
      BY <2>2 DEF LogInv, ReaderInv
  <1>7. read \in Seq(Reads(n))
    <2>1. 1..position \subseteq 1..n
      BY <1>1
    <2>2. Reads(position) \subseteq Reads(n)
      BY <2>1 DEF Reads
    <2> QED
      BY <1>1, <2>2
  <1>8. CASE \E i \in DOMAIN attempts :
                 Intact(i) /\ attempts[i].line = n /\ line = record(attempts[i].decoded.event)
    <2>1. PICK i \in DOMAIN attempts :
              Intact(i) /\ attempts[i].line = n /\ line = record(attempts[i].decoded.event)
      BY <1>8
    <2>2. PICK e \in Events : e = attempts[i].decoded.event
      <3>1. attempts[i].line # 0
        BY <2>1 DEF Intact
      <3> QED
        BY <1>1, <3>1, RecordedIsEvent
    <2> PICK m, last : m = Len(read) + 1 /\ last = [line |-> n, event |-> e]
      OBVIOUS
    <2>3. read' = Append(read, last)
      <3>1. next(line) = {e}
        BY <2>1, <2>2, RoundTrip
      <3>2. (CHOOSE f \in next(line) : TRUE) = e
        BY <3>1
      <3> QED
        BY <1>1, <3>1, <3>2
    <2>4. last \in Reads(n) /\ last.line = n
      BY <1>1 DEF Reads
    <2>5. /\ read' \in Seq(Reads(n)) /\ DOMAIN read' = 1..m /\ m \in Nat
          /\ read'[m] = last /\ DOMAIN read = 1..m - 1 /\ m \in 1..m
          /\ \A k \in 1..m - 1 : k \in 1..m /\ read'[k] = read[k]
      BY <1>5, <1>7, <2>3, <2>4
    <2>6. \A j : ReadFrom(m, j)' <=> Intact(j) /\ last = [line |-> attempts[j].line,
                                                         event |-> attempts[j].decoded.event]
      BY <1>1, <1>4, <2>5 DEF ReadFrom
    <2>7. \A k \in 1..m - 1 : \A j : ReadFrom(k, j)' <=> ReadFrom(k, j)
      BY <1>1, <1>4, <2>5 DEF ReadFrom
    <2>8. ReadFrom(m, i)'
      BY <2>1, <2>2, <2>6
    <2>9. \A k \in 1..m : \E j \in DOMAIN attempts : ReadFrom(k, j)'
      <3> SUFFICES ASSUME NEW k \in 1..m PROVE \E j \in DOMAIN attempts : ReadFrom(k, j)'
        OBVIOUS
      <3>1. CASE k = m
        BY <2>8, <3>1
      <3>2. CASE k # m
        <4>1. k \in 1..m - 1
          BY <2>5, <3>2
        <4> QED
          BY <1>6, <2>5, <2>7, <4>1
      <3> QED
        BY <3>1, <3>2
    <2>10. \A k, l \in 1..m : k < l => read'[k].line < read'[l].line
      <3> SUFFICES ASSUME NEW k \in 1..m, NEW l \in 1..m, k < l
                   PROVE  read'[k].line < read'[l].line
        OBVIOUS
      <3>1. k \in 1..m - 1
        BY <2>5
      <3>2. CASE l = m
        <4>1. read'[k] = read[k] /\ read[k].line \in 1..position
          BY <1>6, <2>5, <3>1
        <4>2. read'[l].line = n
          BY <2>4, <2>5, <3>2
        <4>3. position \in Nat /\ n = position + 1
          BY <1>1
        <4> QED
          BY <4>1, <4>2, <4>3
      <3>3. CASE l # m
        <4>1. l \in 1..m - 1
          BY <2>5, <3>3
        <4> QED
          BY <1>6, <2>5, <3>1, <4>1
      <3> QED
        BY <3>2, <3>3
    <2>11. ASSUME NEW j \in DOMAIN attempts, Intact(j), attempts[j].line <= n
           PROVE  \E k \in 1..m : ReadFrom(k, j)'
      <3>1. CASE j = i
        BY <2>5, <2>8, <3>1
      <3>2. CASE j # i
        <4>1. attempts[j].line # n
          BY <2>1, <3>2 DEF Intact
        <4>2. attempts[j].line <= position
          BY <1>1, <1>4, <2>11, <4>1
        <4>3. PICK k \in DOMAIN read : ReadFrom(k, j)
          BY <1>6, <2>11, <4>2
        <4> QED
          BY <2>5, <2>7, <4>3
      <3> QED
        BY <3>1, <3>2
    <2> QED
      BY <1>1, <1>3, <1>4, <2>5, <2>9, <2>10, <2>11 DEF ReaderInv
  <1>9. CASE line = Junk /\ \A i \in DOMAIN attempts : Intact(i) => attempts[i].line # n
    <2>1. read' = read
      BY <1>1, <1>9, RoundTrip
    <2>2. \A k, j : ReadFrom(k, j)' <=> ReadFrom(k, j)
      BY <1>1, <1>4, <2>1 DEF ReadFrom
    <2>3. ASSUME NEW j \in DOMAIN attempts, Intact(j), attempts[j].line <= n
          PROVE  \E k \in DOMAIN read : ReadFrom(k, j)
      <3>1. attempts[j].line <= position
        BY <1>1, <1>4, <1>9, <2>3
      <3> QED
        BY <1>6, <2>3, <3>1
    <2> QED
      BY <1>1, <1>3, <1>4, <1>6, <1>7, <2>1, <2>2, <2>3 DEF ReaderInv
  <1> QED
    BY <1>2, <1>8, <1>9 DEF IsLine

\* The invariant of the log.
LEMMA LogIsInvariant == SpecLog => []LogInv
  <1>1. InitLog => LogInv
    <2> SUFFICES ASSUME InitLog PROVE LogInv
      OBVIOUS
    <2>1. /\ file = [lines |-> <<>>, torn |-> {}] /\ attempts = <<>>
          /\ position = 0 /\ read = <<>>
      BY DEF InitLog, EmptyFile
    <2>2. LogTypes
      BY <2>1 DEF LogTypes, OptionOf
    <2>3. LinesInFile = <<>>
      BY <2>1 DEF LinesInFile
    <2>4. FileInv
      BY <2>1, <2>2 DEF FileInv, LinesInOrder
    <2>5. ReaderInv
      BY <2>1, <2>3 DEF ReaderInv
    <2> QED
      BY <2>4, <2>5 DEF LogInv
  <1>2. LogInv /\ [NextLog]_logVars => LogInv'
    <2> SUFFICES ASSUME LogInv, [NextLog]_logVars PROVE LogInv'
      OBVIOUS
    <2>1. ASSUME NEW written \in Extents,
                 NEW format \in DOMAIN Frames, NEW frame \in Frames[format],
                 DecodeAndRecord(frame, format, written)
          PROVE  LogInv'
      <3>1. FileInv'
        BY <2>1, RecordKeepsFile DEF LogInv
      <3>2. position = 0 /\ UNCHANGED <<position, read>>
        BY <2>1 DEF DecodeAndRecord
      <3> QED
        BY <3>1, <3>2, RecordKeepsReader DEF LogInv
    <2>2. CASE Record
      <3>1. PICK written \in Extents :
                \/ \E format \in DOMAIN Frames : \E frame \in Frames[format] :
                       DecodeAndRecord(frame, format, written)
                \/ \E frame \in OrdinaryFrames : DecodeAndRecord(frame, "OkxBooks", written)
        BY <2>2 DEF Record
      <3> QED
        BY <2>1, <3>1, LogAssumption
    <2>3. CASE ReadLine
      <3>1. FileInv'
        BY <2>3 DEF LogInv, ReadLine, FileInv, LogTypes, LinesInOrder, IsLine, Intact
      <3> QED
        BY <2>3, <3>1, ReadLineKeepsReader DEF LogInv
    <2>4. CASE NewRecorder \/ UNCHANGED logVars
      <3>1. file' = file /\ attempts' = attempts /\ position' = position /\ read' = read
        BY <2>4 DEF NewRecorder, logVars
      <3>2. FileInv'
        BY <3>1 DEF LogInv, FileInv, LogTypes, LinesInOrder, IsLine, Intact
      <3>3. ReaderInv'
        <4>1. ReaderInv
          BY DEF LogInv
        <4>2. (position \in 0..Len(LinesInFile))'
          BY <3>1, <4>1 DEF ReaderInv, LinesInFile
        <4>3. \A k, i : ReadFrom(k, i)' <=> ReadFrom(k, i)
          BY <3>1 DEF ReadFrom, Intact
        <4>4. \A i : Intact(i)' <=> Intact(i)
          BY <3>1 DEF Intact
        <4> QED
          BY <3>1, <4>1, <4>2, <4>3, <4>4 DEF ReaderInv
      <3> QED
        BY <3>2, <3>3 DEF LogInv
    <2> QED
      BY <2>2, <2>3, <2>4 DEF NextLog
  <1> QED
    BY <1>1, <1>2, PTL DEF SpecLog

\* Whatever the widths of the integers, a frame of the exchange is decoded iff its
\* numbers lie in their domains, and then to exactly those numbers
\* (Decoder.cpp:37-251).
THEOREM DecoderIsExact == SpecLog => []DecodeIsExact
  <1>1. LogInv => DecodeIsExact
    <2> SUFFICES ASSUME LogInv, NEW i \in DOMAIN attempts, attempts[i].format = "OkxBooks"
                 PROVE  DecodesExactly(attempts[i].frame)
      BY DEF DecodeIsExact
    <2>1. attempts[i].frame \in Frames["OkxBooks"]
      BY DEF LogInv, FileInv, LogTypes
    <2> QED
      BY <2>1, FramesDecodeExactly, LogAssumption
  <1> QED
    BY <1>1, LogIsInvariant, PTL

\* Whatever was decoded, in whatever number and however its lines were cut short,
\* is read back unchanged and in order wherever it has a line to itself
\* (Recorder.cpp:91-137, 144-238).
THEOREM LogRoundTrip == SpecLog => []LogReadsBack
  <1>1. LogInv => LogReadsBack
    <2> SUFFICES ASSUME LogInv PROVE LogReadsBack
      OBVIOUS
    <2>1. \A k \in DOMAIN read : \E i \in DOMAIN attempts : ReadFrom(k, i)
      BY DEF LogInv, ReaderInv
    <2>2. ASSUME NEW k \in DOMAIN read, NEW l \in DOMAIN read,
                 NEW i \in DOMAIN attempts, NEW j \in DOMAIN attempts,
                 ReadFrom(k, i), ReadFrom(l, j)
          PROVE  k < l <=> i < j
      <3>1. /\ Intact(i) /\ Intact(j)
            /\ read[k].line = attempts[i].line /\ read[l].line = attempts[j].line
            /\ attempts[i].line # 0 /\ attempts[j].line # 0
        BY <2>2 DEF ReadFrom, Intact
      <3>2. /\ i \in Nat /\ j \in Nat /\ k \in Nat /\ l \in Nat
            /\ attempts[i].line \in Nat /\ attempts[j].line \in Nat
        <4>1. attempts \in Seq(Attempts) /\ read \in Seq(Reads(position))
          BY DEF LogInv, FileInv, LogTypes, ReaderInv
        <4>2. attempts[i] \in Attempts /\ attempts[j] \in Attempts
          BY <4>1
        <4>3. attempts[i].line \in Nat /\ attempts[j].line \in Nat
          BY <4>2 DEF Attempts
        <4>4. i \in Nat /\ j \in Nat /\ k \in Nat /\ l \in Nat
          BY <4>1
        <4> QED
          BY <4>3, <4>4
      <3>3. /\ k < l => attempts[i].line < attempts[j].line
            /\ l < k => attempts[j].line < attempts[i].line
        BY <3>1 DEF LogInv, ReaderInv
      <3>4. /\ i < j => attempts[i].line <= attempts[j].line
            /\ j < i => attempts[j].line <= attempts[i].line
        BY <3>1 DEF LogInv, FileInv, LinesInOrder
      <3>5. i # j => attempts[i].line # attempts[j].line
        BY <3>1 DEF Intact
      <3>6. i = j => attempts[i].line = attempts[j].line
        OBVIOUS
      <3> QED
        BY <3>1, <3>2, <3>3, <3>4, <3>5, <3>6
    <2>3. ASSUME position = Len(LinesInFile), NEW i \in DOMAIN attempts, Intact(i)
          PROVE  \E k \in DOMAIN read : ReadFrom(k, i)
      <3>1. attempts[i].line <= position
        BY <2>3, LinesInFileFacts DEF LogInv, FileInv, LinesInOrder
      <3> QED
        BY <2>3, <3>1 DEF LogInv, ReaderInv
    <2> QED
      BY <2>1, <2>2, <2>3 DEF LogReadsBack
  <1> QED
    BY <1>1, LogIsInvariant, PTL

-----------------------------------------------------------------------------
(***************************************************************************)
(* Facts about natural numbers and sums that the execution simulator's     *)
(* proofs need.  Induction is by the least counterexample: a set of        *)
(* natural numbers is a first-order object.                                *)
(***************************************************************************)

\* A set of natural numbers that is not empty has a least element.
LEMMA LeastElement ==
    ASSUME NEW S, S \subseteq Nat, S # {}
    PROVE  \E n \in S : \A m \in S : n <= m
  <1>1. PICK n \in S : \A m \in S : ~(<<m, n>> \in OpToRel(<, Nat))
    BY NatLessThanWellFounded, WFMin
  <1>2. \A m \in S : <<m, n>> \in Nat \X Nat /\ <<m, n>>[1] = m /\ <<m, n>>[2] = n
    OBVIOUS
  <1>3. \A m \in S : ~(m < n)
    BY <1>1, <1>2 DEF OpToRel
  <1>4. \A m \in S : n <= m
    BY <1>3
  <1> QED
    BY <1>4

\* A bounded one has a greatest.
LEMMA GreatestElement ==
    ASSUME NEW S, S \subseteq Nat, S # {}, NEW bound \in Nat, \A n \in S : n <= bound
    PROVE  \E n \in S : \A m \in S : m <= n
  <1> DEFINE T == {bound - n : n \in S}
  <1>1. T \subseteq Nat /\ T # {}
    <2>1. \A n \in S : bound - n \in Nat /\ bound - n \in T
      OBVIOUS
    <2>2. PICK n \in S : TRUE
      OBVIOUS
    <2> QED
      BY <2>1, <2>2
  <1>2. PICK t \in T : \A u \in T : t <= u
    BY <1>1, LeastElement
  <1>3. PICK n \in S : t = bound - n
    OBVIOUS
  <1>4. \A m \in S : bound - n <= bound - m
    BY <1>2, <1>3
  <1> QED
    BY <1>4

\* Induction over an initial segment, by the least element left out.
LEMMA SegmentInduction ==
    ASSUME NEW n \in Nat, NEW A, 0 \in A, \A k \in 0..n - 1 : k \in A => k + 1 \in A
    PROVE  0..n \subseteq A
  <1> SUFFICES ASSUME (0..n) \ A # {} PROVE FALSE
    OBVIOUS
  <1>1. PICK k \in (0..n) \ A : \A m \in (0..n) \ A : k <= m
    <2>1. (0..n) \ A \subseteq Nat
      OBVIOUS
    <2> QED
      BY <2>1, LeastElement
  <1>2. k # 0 /\ k - 1 \in 0..n - 1
    OBVIOUS
  <1>3. k - 1 \in A
    BY <1>1, <1>2
  <1>4. (k - 1) + 1 \in A
    BY <1>2, <1>3
  <1> QED
    BY <1>4

\* The division of a multiple is exact.
LEMMA DivisionIsExact ==
    ASSUME NEW p \in Nat \ {0}, NEW m \in Nat
    PROVE  (p * m) \div p = m
  <1> DEFINE q == (p * m) \div p
             r == (p * m) % p
  <1>1. p * m \in Nat
    OBVIOUS
  <1>2. q \in Nat /\ r \in Nat /\ r < p /\ p * m = p * q + r
    BY <1>1
  <1> HIDE DEF q, r
  <1>3. ASSUME q < m PROVE FALSE
    <2>1. (q + 1) * p <= m * p
      BY <1>2, <1>3, ProductIsMonotonic
    <2>2. (q + 1) * p = p * q + p /\ m * p = p * m
      BY <1>2
    <2> QED
      BY <1>1, <1>2, <2>1, <2>2
  <1>4. ASSUME q > m PROVE FALSE
    <2>1. (m + 1) * p <= q * p
      BY <1>2, <1>4, ProductIsMonotonic
    <2>2. (m + 1) * p = p * m + p /\ q * p = p * q
      BY <1>2
    <2> QED
      BY <1>1, <1>2, <2>1, <2>2
  <1>5. q = m
    BY <1>2, <1>3, <1>4
  <1> QED
    BY <1>5 DEF q

-----------------------------------------------------------------------------
(***************************************************************************)
(* Sums over finite sets: SumFunctionOnSet picks its elements in an order  *)
(* of its own; with natural summands it is the sum in every order.         *)
(***************************************************************************)

AnyOf(s) == CHOOSE x \in s : TRUE

IsSumTable(g, f, S) ==
    g = [s \in SUBSET S |-> IF s = {} THEN 0 ELSE f[AnyOf(s)] + g[s \ {AnyOf(s)}]]

SumTable(f, S) == CHOOSE g : IsSumTable(g, f, S)

LEMMA SumIsTable ==
    ASSUME NEW f, NEW S
    PROVE  SumFunctionOnSet(f, S) = SumTable(f, S)[S]
  BY DEF SumFunctionOnSet, FoldFunctionOnSet, MapThenFoldSet, SumTable, IsSumTable, AnyOf

\* An element taken out of a nonempty finite set leaves a smaller one.
LEMMA OneOut ==
    ASSUME NEW S, IsFiniteSet(S), NEW x \in S
    PROVE  /\ IsFiniteSet(S \ {x}) /\ Cardinality(S) \in Nat \ {0}
           /\ Cardinality(S \ {x}) = Cardinality(S) - 1
           /\ Cardinality(S \ {x}) \in Nat
  BY FS_RemoveElement, FS_CardinalityType, FS_EmptySet

LEMMA AnyOfIsElement == \A s : s # {} => AnyOf(s) \in s
  BY DEF AnyOf

\* The table is built one cardinality at a time.
LEMMA SumTableExists ==
    ASSUME NEW S, IsFiniteSet(S), NEW f, \A x \in S : f[x] \in Nat
    PROVE  \E g \in [SUBSET S -> Nat] : IsSumTable(g, f, S)
  <1> DEFINE UpTo(k) == {s \in SUBSET S : Cardinality(s) <= k}
             Entry(g, s) == IF s = {} THEN 0 ELSE f[AnyOf(s)] + g[s \ {AnyOf(s)}]
             Partial(g, k) == /\ g \in [UpTo(k) -> Nat]
                              /\ \A s \in UpTo(k) : g[s] = Entry(g, s)
             A == {k \in Nat : \E g : Partial(g, k)}
  <1>1. \A s \in SUBSET S : IsFiniteSet(s) /\ Cardinality(s) \in Nat /\ Cardinality(s) <= Cardinality(S)
    BY FS_Subset, FS_CardinalityType
  <1>2. Cardinality(S) \in Nat
    BY FS_CardinalityType
  <1>3. 0 \in A
    <2>1. \A s \in UpTo(0) : s = {}
      BY <1>1, FS_EmptySet
    <2> DEFINE g == [s \in UpTo(0) |-> 0]
    <2>2. g \in [UpTo(0) -> Nat] /\ \A s \in UpTo(0) : g[s] = Entry(g, s)
      BY <2>1
    <2>3. Partial(g, 0)
      BY <2>2
    <2> HIDE DEF Partial, g
    <2> QED
      BY <2>3
  <1>4. ASSUME NEW k \in 0..Cardinality(S) - 1, k \in A PROVE k + 1 \in A
    <2>1. PICK g : Partial(g, k)
      BY <1>4
    <2> DEFINE h == [s \in UpTo(k + 1) |-> Entry(g, s)]
    <2>2. ASSUME NEW s \in UpTo(k + 1), s # {}
          PROVE  AnyOf(s) \in S /\ s \ {AnyOf(s)} \in UpTo(k)
      <3>1. AnyOf(s) \in s /\ AnyOf(s) \in S /\ s \ {AnyOf(s)} \in SUBSET S
        BY <2>2, AnyOfIsElement
      <3>2. Cardinality(s \ {AnyOf(s)}) = Cardinality(s) - 1
        BY <1>1, <3>1, OneOut
      <3> QED
        BY <1>1, <3>1, <3>2
    <2>3. \A s \in UpTo(k + 1) : Entry(g, s) \in Nat
      BY <2>1, <2>2
    <2>4. \A s \in UpTo(k) : s \in UpTo(k + 1) /\ h[s] = g[s]
      BY <1>1, <2>1
    <2>5. \A s \in UpTo(k + 1) : h[s] = Entry(h, s)
      BY <2>2, <2>4
    <2>6. Partial(h, k + 1)
      BY <2>3, <2>5
    <2> HIDE DEF Partial, h
    <2> QED
      BY <2>6
  <1>5. Cardinality(S) \in A
    <2> HIDE DEF A
    <2>1. 0..Cardinality(S) \subseteq A
      BY <1>2, <1>3, <1>4, SegmentInduction
    <2> QED
      BY <1>2, <2>1
  <1>6. UpTo(Cardinality(S)) = SUBSET S
    BY <1>1
  <1>7. PICK g : Partial(g, Cardinality(S))
    BY <1>5
  <1>8. g \in [SUBSET S -> Nat] /\ \A s \in SUBSET S : g[s] = Entry(g, s)
    BY <1>6, <1>7
  <1>9. g = [s \in SUBSET S |-> Entry(g, s)]
    BY <1>8
  <1> QED
    BY <1>8, <1>9 DEF IsSumTable

\* Two tables agree on the sets they share.
LEMMA SumTablesAgree ==
    ASSUME NEW S, NEW T, T \subseteq S, IsFiniteSet(S), NEW f, NEW g, NEW h,
           IsSumTable(g, f, S), IsSumTable(h, f, T)
    PROVE  \A s \in SUBSET T : g[s] = h[s]
  <1> DEFINE Differ == {s \in SUBSET T : g[s] # h[s]}
             Sizes == {Cardinality(s) : s \in Differ}
  <1> SUFFICES ASSUME Differ # {} PROVE FALSE
    OBVIOUS
  <1>1. \A s \in SUBSET T : IsFiniteSet(s) /\ Cardinality(s) \in Nat /\ s \in SUBSET S
    BY FS_Subset, FS_CardinalityType
  <1>2. Sizes \subseteq Nat /\ Sizes # {}
    BY <1>1
  <1>3. PICK s \in Differ : \A t \in Differ : Cardinality(s) <= Cardinality(t)
    <2> HIDE DEF Sizes
    <2>1. PICK n \in Sizes : \A m \in Sizes : n <= m
      BY <1>2, LeastElement
    <2> QED
      BY <2>1 DEF Sizes
  <1>4. /\ g[s] = IF s = {} THEN 0 ELSE f[AnyOf(s)] + g[s \ {AnyOf(s)}]
        /\ h[s] = IF s = {} THEN 0 ELSE f[AnyOf(s)] + h[s \ {AnyOf(s)}]
    BY <1>1, <1>3 DEF IsSumTable
  <1>5. s # {}
    BY <1>3, <1>4
  <1>6. /\ s \ {AnyOf(s)} \in SUBSET T
        /\ Cardinality(s \ {AnyOf(s)}) = Cardinality(s) - 1 /\ Cardinality(s) \in Nat
    BY <1>1, <1>3, <1>5, AnyOfIsElement, OneOut
  <1>7. s \ {AnyOf(s)} \notin Differ
    BY <1>3, <1>6
  <1> QED
    BY <1>3, <1>4, <1>6, <1>7

\* The sum as the module Functions unfolds it.
LEMMA SumUnfolds ==
    ASSUME NEW S, IsFiniteSet(S), NEW f, \A x \in S : f[x] \in Nat
    PROVE  /\ SumFunctionOnSet(f, S) \in Nat
           /\ S = {} => SumFunctionOnSet(f, S) = 0
           /\ S # {} => SumFunctionOnSet(f, S) =
                            f[AnyOf(S)] + SumFunctionOnSet(f, S \ {AnyOf(S)})
  <1>1. \A T \in SUBSET S : SumTable(f, T) \in [SUBSET T -> Nat] /\ IsSumTable(SumTable(f, T), f, T)
    <2> SUFFICES ASSUME NEW T \in SUBSET S
                 PROVE  SumTable(f, T) \in [SUBSET T -> Nat] /\ IsSumTable(SumTable(f, T), f, T)
      OBVIOUS
    <2>1. IsFiniteSet(T) /\ \A x \in T : f[x] \in Nat
      BY FS_Subset
    <2>2. PICK g \in [SUBSET T -> Nat] : IsSumTable(g, f, T)
      BY <2>1, SumTableExists
    <2>3. IsSumTable(SumTable(f, T), f, T)
      BY <2>2 DEF SumTable
    <2>4. \A s \in SUBSET T : SumTable(f, T)[s] = g[s]
      BY <2>1, <2>2, <2>3, SumTablesAgree
    <2>5. SumTable(f, T) = [s \in SUBSET T |-> SumTable(f, T)[s]]
      BY <2>3 DEF IsSumTable
    <2> QED
      BY <2>2, <2>3, <2>4, <2>5
  <1>2. SumFunctionOnSet(f, S) = SumTable(f, S)[S] /\ S \in SUBSET S
    BY SumIsTable
  <1>3. SumTable(f, S)[S] = IF S = {} THEN 0
                            ELSE f[AnyOf(S)] + SumTable(f, S)[S \ {AnyOf(S)}]
    BY <1>1, <1>2 DEF IsSumTable
  <1>4. ASSUME S # {}
        PROVE  SumTable(f, S)[S \ {AnyOf(S)}] = SumFunctionOnSet(f, S \ {AnyOf(S)})
    <2> DEFINE T == S \ {AnyOf(S)}
    <2>1. T \in SUBSET S /\ T \in SUBSET T
      OBVIOUS
    <2>2. IsSumTable(SumTable(f, S), f, S) /\ IsSumTable(SumTable(f, T), f, T)
      BY <1>1, <1>2, <2>1
    <2> HIDE DEF T
    <2>3. SumTable(f, S)[T] = SumTable(f, T)[T]
      BY <2>1, <2>2, SumTablesAgree
    <2>4. SumFunctionOnSet(f, T) = SumTable(f, T)[T]
      BY SumIsTable
    <2>5. SumTable(f, S)[T] = SumFunctionOnSet(f, T)
      BY <2>3, <2>4
    <2> QED
      BY <2>5 DEF T
  <1>5. SumFunctionOnSet(f, S) \in Nat
    <2>1. SumTable(f, S) \in [SUBSET S -> Nat]
      BY <1>1, <1>2
    <2> QED
      BY <1>2, <2>1
  <1> QED
    BY <1>2, <1>3, <1>4, <1>5

\* Of a family of finite sets one has the fewest elements.
LEMMA SmallestSet ==
    ASSUME NEW S, IsFiniteSet(S), NEW Family, Family \subseteq SUBSET S, Family # {}
    PROVE  \E T \in Family : \A x \in T : T \ {x} \notin Family
  <1> DEFINE Sizes == {Cardinality(T) : T \in Family}
  <1>1. \A T \in Family : IsFiniteSet(T) /\ Cardinality(T) \in Nat
    BY FS_Subset, FS_CardinalityType
  <1>2. Sizes \subseteq Nat /\ Sizes # {}
    BY <1>1
  <1>3. PICK T \in Family : \A other \in Family : Cardinality(T) <= Cardinality(other)
    <2> HIDE DEF Sizes
    <2>1. PICK n \in Sizes : \A m \in Sizes : n <= m
      BY <1>2, LeastElement
    <2> QED
      BY <2>1 DEF Sizes
  <1>4. ASSUME NEW x \in T, T \ {x} \in Family PROVE FALSE
    <2>1. Cardinality(T \ {x}) = Cardinality(T) - 1 /\ Cardinality(T) \in Nat
      BY <1>1, OneOut
    <2>2. Cardinality(T) <= Cardinality(T \ {x})
      BY <1>3, <1>4
    <2> QED
      BY <2>1, <2>2
  <1> QED
    BY <1>4

\* Any element may be counted apart from the others.
LEMMA SumWithout ==
    ASSUME NEW S, IsFiniteSet(S), NEW f, \A x \in S : f[x] \in Nat, NEW x \in S
    PROVE  SumFunctionOnSet(f, S) = f[x] + SumFunctionOnSet(f, S \ {x})
  <1> DEFINE Apart(T, y) == SumFunctionOnSet(f, T) = f[y] + SumFunctionOnSet(f, T \ {y})
             Wrong == {T \in SUBSET S : \E y \in T : ~Apart(T, y)}
  <1> SUFFICES ASSUME Wrong # {} PROVE FALSE
    <2>1. S \in SUBSET S
      OBVIOUS
    <2>2. S \notin Wrong => Apart(S, x)
      BY <2>1
    <2> QED
      BY <2>2
  <1>1. PICK T \in Wrong : \A y \in T : T \ {y} \notin Wrong
    <2>1. Wrong \subseteq SUBSET S
      OBVIOUS
    <2> HIDE DEF Wrong
    <2> QED
      BY <2>1, SmallestSet
  <1>2. PICK y \in T : ~Apart(T, y)
    OBVIOUS
  <1> DEFINE c == AnyOf(T)
             rest == (T \ {c}) \ {y}
  <1>3. c \in T /\ IsFiniteSet(T) /\ \A z \in T : f[z] \in Nat /\ z \in S
    BY FS_Subset, AnyOfIsElement
  <1>4. Apart(T, c)
    BY <1>3, SumUnfolds
  <1>5. c # y
    BY <1>2, <1>4
  <1>6. Apart(T \ {c}, y) /\ Apart(T \ {y}, c)
    <2>1. T \ {c} \notin Wrong /\ T \ {y} \notin Wrong
      BY <1>1, <1>3
    <2>2. T \ {c} \in SUBSET S /\ T \ {y} \in SUBSET S
      OBVIOUS
    <2>3. y \in T \ {c} /\ c \in T \ {y}
      BY <1>3, <1>5
    <2> HIDE DEF c, Apart
    <2> QED
      BY <2>1, <2>2, <2>3
  <1>7. (T \ {y}) \ {c} = rest
    OBVIOUS
  <1>8. SumFunctionOnSet(f, rest) \in Nat
    <2>1. rest \in SUBSET T /\ IsFiniteSet(rest)
      BY <1>3, FS_Subset
    <2> HIDE DEF rest
    <2> QED
      BY <1>3, <2>1, SumUnfolds
  <1>9. /\ SumFunctionOnSet(f, T) = f[c] + SumFunctionOnSet(f, T \ {c})
        /\ SumFunctionOnSet(f, T \ {c}) = f[y] + SumFunctionOnSet(f, rest)
        /\ SumFunctionOnSet(f, T \ {y}) = f[c] + SumFunctionOnSet(f, rest)
    BY <1>4, <1>6, <1>7
  <1>10. f[c] \in Nat /\ f[y] \in Nat
    BY <1>3
  <1> HIDE DEF c, rest
  <1>11. SumFunctionOnSet(f, T) = f[y] + SumFunctionOnSet(f, T \ {y})
    BY <1>8, <1>9, <1>10
  <1> QED
    BY <1>2, <1>11

\* The sum over a subset is no larger, and the same if the rest counts nothing.
LEMMA SumOfSubset ==
    ASSUME NEW S, IsFiniteSet(S), NEW f, \A x \in S : f[x] \in Nat, NEW T, T \subseteq S
    PROVE  /\ SumFunctionOnSet(f, T) \in Nat /\ SumFunctionOnSet(f, S) \in Nat
           /\ SumFunctionOnSet(f, T) <= SumFunctionOnSet(f, S)
           /\ (\A x \in S \ T : f[x] = 0) => SumFunctionOnSet(f, T) = SumFunctionOnSet(f, S)
  <1> DEFINE Zero == \A x \in S \ T : f[x] = 0
             Bounded(R) == /\ SumFunctionOnSet(f, T) <= SumFunctionOnSet(f, R)
                           /\ Zero => SumFunctionOnSet(f, T) = SumFunctionOnSet(f, R)
             Wrong == {R \in SUBSET S : T \subseteq R /\ ~Bounded(R)}
  <1>1. \A R \in SUBSET S : IsFiniteSet(R) /\ SumFunctionOnSet(f, R) \in Nat
    <2> SUFFICES ASSUME NEW R \in SUBSET S
                 PROVE  IsFiniteSet(R) /\ SumFunctionOnSet(f, R) \in Nat
      OBVIOUS
    <2>1. IsFiniteSet(R) /\ \A x \in R : f[x] \in Nat
      BY FS_Subset
    <2> QED
      BY <2>1, SumUnfolds
  <1>2. T \in SUBSET S /\ S \in SUBSET S
    OBVIOUS
  <1>3. ASSUME Wrong # {} PROVE FALSE
    <2>1. PICK R \in Wrong : \A x \in R : R \ {x} \notin Wrong
      <3>1. Wrong \subseteq SUBSET S
        OBVIOUS
      <3> HIDE DEF Wrong
      <3> QED
        BY <1>3, <3>1, SmallestSet
    <2>2. R # T
      BY <1>1, <1>2
    <2>3. PICK x \in R : x \notin T
      BY <2>2
    <2>4. Bounded(R \ {x})
      <3>1. R \ {x} \in SUBSET S /\ T \subseteq R \ {x} /\ R \ {x} \notin Wrong
        BY <2>1, <2>3
      <3> HIDE DEF Bounded
      <3> QED
        BY <3>1
    <2>5. SumFunctionOnSet(f, R) = f[x] + SumFunctionOnSet(f, R \ {x})
      <3>1. IsFiniteSet(R) /\ \A y \in R : f[y] \in Nat
        BY <1>1
      <3> QED
        BY <3>1, SumWithout
    <2>6. /\ f[x] \in Nat /\ (Zero => f[x] = 0)
          /\ SumFunctionOnSet(f, R) \in Nat /\ SumFunctionOnSet(f, R \ {x}) \in Nat
          /\ SumFunctionOnSet(f, T) \in Nat
      <3>1. f[x] \in Nat /\ (Zero => f[x] = 0)
        BY <2>3
      <3>2. R \in SUBSET S /\ R \ {x} \in SUBSET S
        OBVIOUS
      <3> QED
        BY <1>1, <1>2, <3>1, <3>2
    <2> HIDE DEF Zero
    <2>7. Bounded(R)
      BY <2>4, <2>5, <2>6
    <2> QED
      BY <2>7
  <1>4. Bounded(S)
    <2> HIDE DEF Bounded
    <2> QED
      BY <1>2, <1>3
  <1> QED
    BY <1>1, <1>2, <1>4

-----------------------------------------------------------------------------
(***************************************************************************)
(* The execution simulator.  A trail is a walk of an order over a book:    *)
(* this is what every level taken adds, whichever order it was.            *)
(***************************************************************************)

Orders == [side : {"Buy", "Sell"}, sizeMode : {"BaseQuantity", "Notional"}, size : Nat]

Totals == [price : Nat, remaining : Nat, base : Nat, notional : Nat]

Ladder(o) == IF o.side = "Buy" THEN book.asks ELSE book.bids

Ahead(o, p, q) == IF o.side = "Buy" THEN p < q ELSE p > q

Unit(o, p) == IF o.sizeMode = "Notional" THEN p ELSE 1

IsMultiple(n) == \E m \in Nat : n = Scale * m

Passed(t, k) == {t[j].price : j \in 2..k}

TakeOf(o, totals, p) == Lesser(Scale * Ladder(o)[p], totals.remaining \div Unit(o, p))

Taken(o, totals, p) ==
    LET take == TakeOf(o, totals, p)
    IN  [price |-> p,
         remaining |-> totals.remaining - take * Unit(o, p),
         base |-> totals.base + take,
         notional |-> totals.notional + take * p]

IsBest(o, t, k, p) ==
    /\ p \in DOMAIN Ladder(o) \ Passed(t, k)
    /\ \A q \in DOMAIN Ladder(o) \ (Passed(t, k) \cup {p}) : Ahead(o, p, q)

IsStep(o, t, k) ==
    /\ t[k].remaining # 0
    /\ IsBest(o, t, k, t[k + 1].price)
    /\ t[k + 1] = Taken(o, t[k], t[k + 1].price)

IsWalk(o, t) ==
    /\ t \in Seq(Totals) /\ Len(t) # 0
    /\ t[1] = [price |-> 0, remaining |-> Scale * o.size, base |-> 0, notional |-> 0]
    /\ \A k \in 1..Len(t) - 1 : IsStep(o, t, k)
    /\ \A k \in 1..Len(t) : IsMultiple(t[k].remaining) /\ IsMultiple(t[k].notional)
    /\ \A j, k \in 1..Len(t) : j < k => t[j].notional < t[k].notional

\* A price is a divisor of Scale, which makes the prices finitely many.
LEMMA PriceFacts ==
    ASSUME NEW p \in Price
    PROVE  /\ p \in Nat \ {0} /\ p <= Scale
           /\ \E c \in Nat \ {0} : Scale = p * c
  <1> DEFINE c == Scale \div p
  <1>1. p \in Nat \ {0} /\ Scale \in Nat \ {0} /\ Scale % p = 0
    BY BookAssumption, SimulatorAssumption
  <1>2. c \in Nat /\ Scale = p * c + 0
    BY <1>1
  <1> HIDE DEF c
  <1>3. c # 0
    BY <1>1, <1>2
  <1>4. 1 * p <= c * p /\ c * p = p * c
    BY <1>1, <1>2, <1>3, ProductIsMonotonic
  <1> QED
    BY <1>1, <1>2, <1>3, <1>4

\* A factor cancels.
LEMMA FactorCancels ==
    ASSUME NEW a \in Int, NEW b \in Int, NEW p \in Nat \ {0}, a * p <= b * p
    PROVE  a <= b
  <1> SUFFICES ASSUME b + 1 <= a PROVE FALSE
    OBVIOUS
  <1>1. (b + 1) * p <= a * p
    BY ProductIsMonotonic
  <1>2. (b + 1) * p = b * p + p
    OBVIOUS
  <1> QED
    BY <1>1, <1>2

\* What is taken of a level: all of it, or exactly what the order still wants,
\* because both are multiples of Scale (ExecutionSimulator.cpp, the walk).
LEMMA LevelIsTaken ==
    ASSUME NEW p \in Price, NEW u \in {1, p}, NEW size \in Nat \ {0},
           NEW left \in Nat, left # 0, IsMultiple(left),
           NEW take, take = Lesser(Scale * size, left \div u)
    PROVE  /\ take \in Nat \ {0} /\ take * u <= left
           /\ IsMultiple(left - take * u) /\ IsMultiple(take * p)
           /\ \/ take = Scale * size
              \/ take * u = left /\ take <= Scale * size
  <1>1. /\ p \in Nat \ {0} /\ Scale \in Nat \ {0} /\ u \in Nat \ {0}
    BY PriceFacts, SimulatorAssumption
  <1>2. PICK n \in Nat : left = Scale * n
    BY DEF IsMultiple
  <1>3. PICK v \in Nat \ {0} : Scale = u * v
    <2>1. CASE u = 1
      BY <1>1, <2>1
    <2>2. CASE u = p
      BY <2>2, PriceFacts
    <2> QED
      BY <2>1, <2>2
  <1>4. n # 0
    BY <1>1, <1>2
  <1> DEFINE m == v * n
  <1>5. m \in Nat \ {0}
    BY <1>3, <1>4
  <1>6. left = u * m
    BY <1>1, <1>2, <1>3
  <1>7. left \div u = m
    BY <1>1, <1>5, <1>6, DivisionIsExact
  <1> HIDE DEF m
  <1>8. Scale * size \in Nat \ {0}
    BY <1>1
  <1>9. CASE Scale * size <= m
    <2>1. take = Scale * size
      BY <1>5, <1>7, <1>8, <1>9 DEF Lesser
    <2>2. take * u <= m * u /\ m * u = left
      BY <1>1, <1>5, <1>6, <1>8, <1>9, <2>1, ProductIsMonotonic
    <2>3. left - take * u = Scale * (n - size * u)
      BY <1>1, <1>2, <2>1
    <2>4. n - size * u \in Nat
      <3>1. Scale * (n - size * u) >= 0 /\ n - size * u \in Int
        BY <1>1, <1>8, <2>1, <2>2, <2>3
      <3>2. 0 * Scale <= (n - size * u) * Scale
        BY <1>1, <3>1
      <3> QED
        BY <1>1, <3>1, <3>2, FactorCancels
    <2>5. take * p = Scale * (size * p) /\ size * p \in Nat
      BY <1>1, <2>1
    <2> QED
      BY <1>8, <2>1, <2>2, <2>3, <2>4, <2>5 DEF IsMultiple
  <1>10. CASE ~(Scale * size <= m)
    <2>1. take = m /\ take <= Scale * size
      BY <1>5, <1>7, <1>8, <1>10 DEF Lesser
    <2>2. take * u = left
      BY <1>1, <1>5, <1>6, <2>1
    <2>3. left - take * u = Scale * 0
      BY <1>1, <2>2
    <2>4. IsMultiple(take * p)
      <3>1. CASE u = p
        BY <2>2, <3>1
      <3>2. CASE u = 1
        <4>1. take = left
          BY <1>5, <2>1, <2>2, <3>2
        <4>2. take * p = Scale * (n * p) /\ n * p \in Nat
          BY <1>1, <1>2, <4>1
        <4> QED
          BY <4>2 DEF IsMultiple
      <3> QED
        BY <3>1, <3>2
    <2> QED
      BY <1>5, <2>1, <2>2, <2>3, <2>4 DEF IsMultiple
  <1> QED
    BY <1>9, <1>10

\* One step of a walk.
LEMMA TakenFacts ==
    ASSUME book \in Content, NEW o \in Orders, NEW totals \in Totals,
           NEW p \in DOMAIN Ladder(o),
           totals.remaining # 0, IsMultiple(totals.remaining)
    PROVE  LET take == TakeOf(o, totals, p)
               x == Taken(o, totals, p)
           IN  /\ p \in Price /\ Ladder(o)[p] \in Nat \ {0} /\ Unit(o, p) \in {1, p}
               /\ take \in Nat \ {0}
               /\ x \in Totals
               /\ x.price = p
               /\ x.base = totals.base + take
               /\ x.notional = totals.notional + take * p
               /\ x.remaining = totals.remaining - take * Unit(o, p)
               /\ IsMultiple(x.remaining)
               /\ IsMultiple(totals.notional) => IsMultiple(x.notional)
               /\ x.notional > totals.notional
               /\ \/ take = Scale * Ladder(o)[p]
                  \/ x.remaining = 0 /\ take <= Scale * Ladder(o)[p]
  <1> DEFINE take == TakeOf(o, totals, p)
             x == Taken(o, totals, p)
  <1>1. Ladder(o) \in Side
    BY DEF Content, Ladder, Orders
  <1>2. p \in Price /\ Ladder(o)[p] \in Nat \ {0}
    <2>1. DOMAIN Ladder(o) \subseteq Price /\ Ladder(o) \in [DOMAIN Ladder(o) -> Size \ {0}]
      BY <1>1, SideMembership
    <2> QED
      BY <2>1, BookAssumption
  <1>3. Unit(o, p) \in {1, p}
    BY DEF Unit
  <1>4. /\ totals.remaining \in Nat /\ totals.base \in Nat /\ totals.notional \in Nat
    BY DEF Totals
  <1>5. /\ take \in Nat \ {0} /\ take * Unit(o, p) <= totals.remaining
        /\ IsMultiple(totals.remaining - take * Unit(o, p)) /\ IsMultiple(take * p)
        /\ \/ take = Scale * Ladder(o)[p]
           \/ take * Unit(o, p) = totals.remaining /\ take <= Scale * Ladder(o)[p]
    <2>1. take = Lesser(Scale * Ladder(o)[p], totals.remaining \div Unit(o, p))
      BY DEF TakeOf
    <2> HIDE DEF take
    <2> QED
      BY <1>2, <1>3, <1>4, <2>1, LevelIsTaken
  <1>6. /\ x.price = p
        /\ x.base = totals.base + take
        /\ x.notional = totals.notional + take * p
        /\ x.remaining = totals.remaining - take * Unit(o, p)
        /\ x = [price |-> x.price, remaining |-> x.remaining,
                base |-> x.base, notional |-> x.notional]
    BY DEF Taken
  <1> HIDE DEF take, x
  <1>7. p \in Nat \ {0} /\ Unit(o, p) \in Nat /\ take * p \in Nat \ {0}
        /\ take * Unit(o, p) \in Nat
    BY <1>2, <1>3, <1>5, PriceFacts
  <1>8. x \in Totals
    BY <1>4, <1>5, <1>6, <1>7 DEF Totals
  <1>9. ASSUME IsMultiple(totals.notional) PROVE IsMultiple(x.notional)
    <2>1. PICK a \in Nat : totals.notional = Scale * a
      BY <1>9 DEF IsMultiple
    <2>2. PICK b \in Nat : take * p = Scale * b
      BY <1>5 DEF IsMultiple
    <2>3. x.notional = Scale * (a + b) /\ a + b \in Nat
      BY <1>6, <2>1, <2>2, SimulatorAssumption
    <2> QED
      BY <2>3 DEF IsMultiple
  <1>10. /\ x.notional > totals.notional
         /\ \/ take = Scale * Ladder(o)[p]
            \/ x.remaining = 0 /\ take <= Scale * Ladder(o)[p]
    BY <1>4, <1>5, <1>6, <1>7
  <1> QED
    BY <1>2, <1>3, <1>5, <1>6, <1>8, <1>9, <1>10 DEF take, x

\* A walk goes on with the best level it has not passed.
LEMMA WalkExtends ==
    ASSUME book \in Content, NEW o \in Orders, NEW t, IsWalk(o, t),
           t[Len(t)].remaining # 0,
           NEW p, IsBest(o, t, Len(t), p)
    PROVE  IsWalk(o, Append(t, Taken(o, t[Len(t)], p)))
  <1> DEFINE n == Len(t)
             x == Taken(o, t[n], p)
             longer == Append(t, x)
  <1>1. t \in Seq(Totals) /\ n \in Nat \ {0} /\ t[n] \in Totals
    BY DEF IsWalk
  <1>2. /\ p \in DOMAIN Ladder(o) /\ IsMultiple(t[n].remaining) /\ IsMultiple(t[n].notional)
    BY <1>1 DEF IsBest, IsWalk
  <1>3. /\ x \in Totals /\ x.price = p /\ IsMultiple(x.remaining) /\ IsMultiple(x.notional)
        /\ x.notional > t[n].notional
    BY <1>1, <1>2, TakenFacts
  <1>4. x = Taken(o, t[n], p)
    OBVIOUS
  <1> HIDE DEF x
  <1>5. /\ longer \in Seq(Totals) /\ Len(longer) = n + 1 /\ longer[n + 1] = x
        /\ \A k \in 1..n : longer[k] = t[k]
    BY <1>1, <1>3
  <1> HIDE DEF longer
  <1>6. \A k \in 1..n : Passed(longer, k) = Passed(t, k)
    <2> SUFFICES ASSUME NEW k \in 1..n PROVE Passed(longer, k) = Passed(t, k)
      OBVIOUS
    <2>1. \A j \in 2..k : longer[j] = t[j]
      BY <1>1, <1>5
    <2> QED
      BY <2>1 DEF Passed
  <1>7. \A k \in 1..Len(longer) - 1 : IsStep(o, longer, k)
    <2> SUFFICES ASSUME NEW k \in 1..n PROVE IsStep(o, longer, k)
      BY <1>1, <1>5
    <2>1. CASE k = n
      <3>1. longer[k] = t[n] /\ longer[k + 1] = x /\ Passed(longer, k) = Passed(t, n)
        BY <1>1, <1>5, <1>6, <2>1
      <3> QED
        BY <1>3, <1>4, <3>1, <2>1 DEF IsStep, IsBest
    <2>2. CASE k # n
      <3>1. k \in 1..n - 1
        BY <1>1, <2>2
      <3>2. longer[k] = t[k] /\ longer[k + 1] = t[k + 1] /\ Passed(longer, k) = Passed(t, k)
        BY <1>1, <1>5, <1>6, <3>1
      <3>3. IsStep(o, t, k)
        BY <3>1 DEF IsWalk
      <3> QED
        BY <3>2, <3>3 DEF IsStep, IsBest
    <2> QED
      BY <2>1, <2>2
  <1>8. \A k \in 1..n + 1 : IsMultiple(longer[k].remaining) /\ IsMultiple(longer[k].notional)
    <2> SUFFICES ASSUME NEW k \in 1..n + 1
                 PROVE  IsMultiple(longer[k].remaining) /\ IsMultiple(longer[k].notional)
      OBVIOUS
    <2>1. CASE k = n + 1
      BY <1>3, <1>5, <2>1
    <2>2. CASE k # n + 1
      <3>1. k \in 1..n
        BY <1>1, <2>2
      <3> QED
        BY <1>5, <3>1 DEF IsWalk
    <2> QED
      BY <2>1, <2>2
  <1>9. \A j, k \in 1..n + 1 : j < k => longer[j].notional < longer[k].notional
    <2> SUFFICES ASSUME NEW j \in 1..n + 1, NEW k \in 1..n + 1, j < k
                 PROVE  longer[j].notional < longer[k].notional
      OBVIOUS
    <2>1. j \in 1..n /\ longer[j] = t[j] /\ t[j].notional \in Nat /\ t[n].notional \in Nat
      <3>1. j \in 1..n
        BY <1>1
      <3>2. t[j] \in Totals
        BY <1>1, <3>1
      <3> QED
        BY <1>1, <1>5, <3>1, <3>2 DEF Totals
    <2>2. CASE k = n + 1
      <3>1. t[j].notional <= t[n].notional
        <4>1. CASE j = n
          BY <2>1, <4>1
        <4>2. CASE j # n
          BY <1>1, <2>1, <4>2 DEF IsWalk
        <4> QED
          BY <4>1, <4>2
      <3>2. longer[k] = x /\ x.notional \in Nat
        BY <1>3, <1>5, <2>2 DEF Totals
      <3> QED
        BY <1>3, <2>1, <3>1, <3>2
    <2>3. CASE k # n + 1
      <3>1. k \in 1..n
        BY <1>1, <2>3
      <3> QED
        BY <1>5, <2>1, <3>1 DEF IsWalk
    <2> QED
      BY <2>2, <2>3
  <1>10. longer[1] = [price |-> 0, remaining |-> Scale * o.size, base |-> 0, notional |-> 0]
    BY <1>1, <1>5 DEF IsWalk
  <1>11. Len(longer) # 0
    BY <1>1, <1>5
  <1>12. IsWalk(o, longer)
    BY <1>5, <1>7, <1>8, <1>9, <1>10, <1>11 DEF IsWalk
  <1> QED
    BY <1>12 DEF longer, x

\* What has been walked stays walked while the book stays.
LEMMA WalkKept ==
    ASSUME book' = book, NEW o, NEW t,
           IsWalk(o, t), earlier'.order = o, earlier'.trail = t
    PROVE  IsWalk(earlier.order, earlier.trail)'
  <1>1. Ladder(earlier.order)' = Ladder(o)
    BY DEF Ladder
  <1>2. \A totals, p : Taken(earlier.order, totals, p)' = Taken(o, totals, p)
    BY <1>1 DEF Taken, TakeOf, Ladder
  <1>3. \A k, p : IsBest(earlier.order, earlier.trail, k, p)' <=> IsBest(o, t, k, p)
    BY <1>1 DEF IsBest, Ladder
  <1>4. \A k : IsStep(earlier.order, earlier.trail, k)' <=> IsStep(o, t, k)
    BY <1>2, <1>3 DEF IsStep
  <1> QED
    BY <1>4 DEF IsWalk

\* An order for what an earlier one cost walks in step with it: at every level it
\* has the same totals, and what the rest of the first fill cost left.
InStep(o, first) ==
    LET last == first[Len(first)]
    IN  /\ o \in Orders /\ o.side = order.side
        /\ o.sizeMode = "BaseQuantity" /\ order.sizeMode = "Notional"
        /\ IsWalk(o, first)
        /\ last.remaining = 0
        /\ last.notional = Scale * order.size /\ order.size # 0
        /\ Len(trail) <= Len(first)
        /\ \A k \in 1..Len(trail) :
               /\ trail[k].price = first[k].price
               /\ trail[k].base = first[k].base
               /\ trail[k].notional = first[k].notional
               /\ trail[k].remaining = last.notional - first[k].notional

SimulatorInv ==
    /\ book \in Content
    /\ order \in Orders
    /\ IsWalk(order, trail)
    /\ earlier.trail # <<>> => InStep(earlier.order, earlier.trail)

\* The operators of the module, in terms of the order given.
LEMMA OrderGiven ==
    ASSUME order \in Orders
    PROVE  /\ Quotes = Ladder(order)
           /\ Walked = Passed(trail, Len(trail))
           /\ \A p, q : IsBetter(p, q) <=> Ahead(order, p, q)
           /\ \A p : UnitCost(p) = Unit(order, p)
           /\ \A totals, p : Take(totals, p, Scale * Quotes[p]) = Taken(order, totals, p)
  <1>1. Quotes = Ladder(order)
    BY DEF Quotes, Ladder
  <1>2. Walked = Passed(trail, Len(trail))
    BY DEF Walked, Passed
  <1>3. \A p, q : IsBetter(p, q) <=> Ahead(order, p, q)
    BY DEF IsBetter, Ahead
  <1>4. \A p : UnitCost(p) = Unit(order, p)
    BY DEF UnitCost, Unit
  <1>5. \A totals, p : Take(totals, p, Scale * Quotes[p]) = Taken(order, totals, p)
    BY <1>1, <1>4 DEF Take, Taken, TakeOf
  <1> QED
    BY <1>1, <1>2, <1>3, <1>4, <1>5

\* A level walked extends the trail as a walk does.
LEMMA WalkLevelExtends ==
    ASSUME SimulatorInv, WalkLevel
    PROVE  /\ UNCHANGED <<book, order, earlier>>
           /\ Now.remaining # 0
           /\ \E p : /\ IsBest(order, trail, Len(trail), p)
                     /\ trail' = Append(trail, Taken(order, Now, p))
           /\ IsWalk(order, trail)'
  <1>1. PICK p \in DOMAIN Quotes \ Walked :
            /\ \A q \in DOMAIN Quotes \ (Walked \cup {p}) : IsBetter(p, q)
            /\ trail' = Append(trail, Take(Now, p, Scale * Quotes[p]))
    BY DEF WalkLevel
  <1>2. UNCHANGED <<book, order, earlier>> /\ Now.remaining # 0
    BY DEF WalkLevel, Finished
  <1>3. order \in Orders /\ book \in Content /\ IsWalk(order, trail)
    BY DEF SimulatorInv
  <1>4. IsBest(order, trail, Len(trail), p)
    BY <1>1, <1>3, OrderGiven DEF IsBest
  <1>5. trail' = Append(trail, Taken(order, Now, p))
    BY <1>1, <1>3, OrderGiven
  <1>6. IsWalk(order, trail')
    BY <1>2, <1>3, <1>4, <1>5, WalkExtends DEF Now
  <1>7. IsWalk(order, trail)'
    BY <1>2, <1>6 DEF IsWalk, IsStep, IsBest, Ladder, Taken, TakeOf
  <1> QED
    BY <1>2, <1>4, <1>5, <1>7

\* What one level more costs each of two walks in step.
LEMMA NextInStep ==
    ASSUME SimulatorInv, earlier.trail # <<>>, Now.remaining # 0,
           NEW p, IsBest(order, trail, Len(trail), p)
    PROVE  LET first == earlier.trail
               n == Len(trail)
               x == Taken(order, Now, p)
           IN  /\ n < Len(first)
               /\ x.price = first[n + 1].price
               /\ x.base = first[n + 1].base
               /\ x.notional = first[n + 1].notional
               /\ x.remaining = first[Len(first)].notional - first[n + 1].notional
  <1> DEFINE first == earlier.trail
             o == earlier.order
             n == Len(trail)
             last == first[Len(first)]
             x == Taken(order, Now, p)
             y == first[n + 1]
  <1>1. /\ o \in Orders /\ order \in Orders /\ o.side = order.side
        /\ o.sizeMode = "BaseQuantity" /\ order.sizeMode = "Notional"
        /\ IsWalk(o, first) /\ IsWalk(order, trail) /\ book \in Content
        /\ last.remaining = 0 /\ n <= Len(first)
        /\ \A k \in 1..n : /\ trail[k].price = first[k].price
                           /\ trail[k].base = first[k].base
                           /\ trail[k].notional = first[k].notional
                           /\ trail[k].remaining = last.notional - first[k].notional
    BY DEF SimulatorInv, InStep
  <1>2. /\ first \in Seq(Totals) /\ trail \in Seq(Totals)
        /\ n \in Nat \ {0} /\ Len(first) \in Nat \ {0} /\ n \in 1..n
    BY <1>1 DEF IsWalk
  <1>3. Now = trail[n] /\ Now \in Totals /\ IsMultiple(Now.remaining)
    BY <1>1, <1>2 DEF Now, IsWalk
  <1>4. /\ last \in Totals /\ last.notional \in Nat
        /\ first[n].notional \in Nat /\ first[n].base \in Nat
        /\ first[n] \in Totals /\ Len(first) \in 1..Len(first) /\ n \in 1..Len(first)
    <2>1. n \in 1..Len(first) /\ Len(first) \in 1..Len(first)
      BY <1>1, <1>2
    <2>2. first[n] \in Totals /\ last \in Totals
      BY <1>2, <2>1
    <2> QED
      BY <2>1, <2>2 DEF Totals
  <1>5. n < Len(first)
    <2>1. n # Len(first)
      BY <1>1, <1>2, <1>3, <1>4
    <2> QED
      BY <1>1, <1>2, <2>1
  <1>6. IsStep(o, first, n)
    BY <1>1, <1>2, <1>5 DEF IsWalk
  <1>7. Ladder(o) = Ladder(order) /\ \A a, b : Ahead(o, a, b) <=> Ahead(order, a, b)
    BY <1>1 DEF Ladder, Ahead
  <1>8. Passed(trail, n) = Passed(first, n)
    BY <1>1, <1>2 DEF Passed
  <1>9. \A a \in DOMAIN Ladder(order) : a \in Nat
    <2>1. Ladder(order) \in Side
      BY <1>1 DEF Content, Ladder, Orders
    <2> QED
      BY <2>1, SideMembership, BookAssumption
  <1>10. y.price = p
    <2>1. /\ y.price \in DOMAIN Ladder(order) \ Passed(first, n)
          /\ \A q \in DOMAIN Ladder(order) \ (Passed(first, n) \cup {y.price}) :
                 Ahead(order, y.price, q)
      BY <1>6, <1>7 DEF IsStep, IsBest
    <2>2. /\ p \in DOMAIN Ladder(order) \ Passed(first, n)
          /\ \A q \in DOMAIN Ladder(order) \ (Passed(first, n) \cup {p}) : Ahead(order, p, q)
      BY <1>8 DEF IsBest
    <2> QED
      BY <1>9, <2>1, <2>2 DEF Ahead
  <1>11. p \in DOMAIN Ladder(order) /\ p \in DOMAIN Ladder(o)
    BY <1>7 DEF IsBest
  <1> DEFINE size == Scale * Ladder(order)[p]
             takeX == TakeOf(order, Now, p)
             takeY == TakeOf(o, first[n], p)
  <1>12. /\ p \in Price /\ takeX \in Nat \ {0} /\ x.price = p
         /\ x.base = Now.base + takeX
         /\ x.notional = Now.notional + takeX * p
         /\ x.remaining = Now.remaining - takeX * Unit(order, p)
         /\ x.remaining \in Nat
         /\ takeX = size \/ (x.remaining = 0 /\ takeX <= size)
    <2>1. x \in Totals => x.remaining \in Nat
      BY DEF Totals
    <2> QED
      BY <1>1, <1>3, <1>11, <2>1, TakenFacts
  <1>13. /\ takeY \in Nat \ {0}
         /\ y.base = first[n].base + takeY
         /\ y.notional = first[n].notional + takeY * p
         /\ takeY = size \/ (y.remaining = 0 /\ takeY <= size)
    <2>1. y = Taken(o, first[n], p) /\ first[n].remaining # 0
      BY <1>6, <1>10 DEF IsStep
    <2>2. IsMultiple(first[n].remaining)
      BY <1>1, <1>4 DEF IsWalk
    <2>3. size = Scale * Ladder(o)[p]
      BY <1>7
    <2> DEFINE z == Taken(o, first[n], p)
    <2>4. /\ takeY \in Nat \ {0}
          /\ z.base = first[n].base + takeY
          /\ z.notional = first[n].notional + takeY * p
          /\ takeY = Scale * Ladder(o)[p] \/ (z.remaining = 0 /\ takeY <= Scale * Ladder(o)[p])
      <3> HIDE DEF y, size, first, o, n, last
      <3> QED
        BY <1>1, <1>4, <1>11, <2>1, <2>2, TakenFacts
    <2>5. y = z
      BY <2>1
    <2> HIDE DEF y, z, size, takeY
    <2> QED
      BY <2>3, <2>4, <2>5
  <1>14. Unit(order, p) = p /\ p \in Nat \ {0} /\ size \in Nat
    <2>1. Ladder(order)[p] \in Nat
      BY <1>1, <1>3, <1>11, TakenFacts
    <2> QED
      BY <1>1, <1>12, <2>1, PriceFacts, SimulatorAssumption DEF Unit
  <1>15. Now.remaining = last.notional - first[n].notional
         /\ Now.base = first[n].base /\ Now.notional = first[n].notional
    BY <1>1, <1>2, <1>3
  <1>16. y.notional <= last.notional /\ (y.remaining = 0 => y.notional = last.notional)
    <2>1. CASE n + 1 = Len(first)
      BY <1>4, <2>1
    <2>2. CASE n + 1 # Len(first)
      <3>1. n + 1 \in 1..Len(first) - 1 /\ n + 1 \in 1..Len(first) /\ n + 1 < Len(first)
        BY <1>2, <1>5, <2>2
      <3>2. y.remaining # 0
        BY <1>1, <3>1 DEF IsWalk, IsStep
      <3>3. y.notional < last.notional
        BY <1>1, <1>4, <3>1 DEF IsWalk
      <3>4. y.notional \in Nat
        <4>1. y \in Totals
          BY <1>2, <3>1
        <4> QED
          BY <4>1 DEF Totals
      <3> QED
        BY <1>4, <3>2, <3>3, <3>4
    <2> QED
      BY <2>1, <2>2
  <1> HIDE DEF x, y, size, takeX, takeY, last, first, o, n
  <1>17. takeX = takeY
    <2> DEFINE costX == takeX * p
               costY == takeY * p
               rest == last.notional - first[n].notional
    <2>1. costX \in Nat /\ costY \in Nat /\ rest \in Int
      BY <1>4, <1>12, <1>13, <1>14
    <2>2. costY <= rest /\ (y.remaining = 0 => costY = rest)
      BY <1>4, <1>13, <1>16, <2>1
    <2>3. costX <= rest /\ (x.remaining = 0 => costX = rest)
      BY <1>12, <1>14, <1>15, <2>1
    <2>4. takeX <= takeY
      <3>1. CASE takeY = size
        BY <1>12, <1>13, <1>14, <3>1
      <3>2. CASE y.remaining = 0
        <4>1. costX <= costY
          BY <2>1, <2>2, <2>3, <3>2
        <4> QED
          BY <1>12, <1>13, <1>14, <4>1, FactorCancels
      <3> QED
        BY <1>13, <3>1, <3>2
    <2>5. takeY <= takeX
      <3>1. CASE takeX = size
        BY <1>12, <1>13, <1>14, <3>1
      <3>2. CASE x.remaining = 0
        <4>1. costY <= costX
          BY <2>1, <2>2, <2>3, <3>2
        <4> QED
          BY <1>12, <1>13, <1>14, <4>1, FactorCancels
      <3> QED
        BY <1>12, <3>1, <3>2
    <2> QED
      BY <1>12, <1>13, <2>4, <2>5
  <1>18. /\ x.price = y.price /\ x.base = y.base /\ x.notional = y.notional
         /\ x.remaining = last.notional - y.notional
    <2>1. takeY * p \in Nat
      BY <1>13, <1>14
    <2> QED
      BY <1>4, <1>10, <1>12, <1>13, <1>14, <1>15, <1>17, <2>1
  <1> QED
    BY <1>5, <1>18 DEF x, y, last, first, n

\* The walk of one order is the only state there is besides its predecessor's.
LEMMA SimulatorIsInvariant == SpecSimulator => []SimulatorInv
  <1>1. ASSUME NEW o \in Orders PROVE IsWalk(o, Opening(o))
    <2> DEFINE start_ == [price |-> 0, remaining |-> Scale * o.size, base |-> 0, notional |-> 0]
    <2>1. o.size \in Nat /\ Scale \in Nat
      BY SimulatorAssumption DEF Orders
    <2>2. start_ \in Totals
      BY <2>1 DEF Totals
    <2>3. IsMultiple(start_.remaining) /\ IsMultiple(start_.notional)
      <3>1. start_.remaining = Scale * o.size /\ start_.notional = Scale * 0
        BY <2>1
      <3> QED
        BY <2>1, <3>1 DEF IsMultiple
    <2>4. Opening(o) = <<start_>>
      BY DEF Opening
    <2>5. /\ Opening(o) \in Seq(Totals) /\ Len(Opening(o)) = 1 /\ Opening(o)[1] = start_
      BY <2>2, <2>4
    <2> HIDE DEF start_
    <2>6. \A k \in 1..1 : k = 1
      OBVIOUS
    <2>7. \A j, k \in 1..1 : ~(j < k)
      OBVIOUS
    <2> QED
      BY <2>3, <2>5, <2>6, <2>7 DEF IsWalk, start_
  <1>2. InitSimulator => SimulatorInv
    <2> SUFFICES ASSUME InitSimulator PROVE SimulatorInv
      OBVIOUS
    <2>1. book \in Content /\ order \in Orders /\ trail = Opening(order) /\ earlier.trail = <<>>
      BY SimulatorAssumption DEF InitSimulator, Order, Orders
    <2> QED
      BY <1>1, <2>1 DEF SimulatorInv
  <1>3. SimulatorInv /\ [NextSimulator]_simulatorVars => SimulatorInv'
    <2> SUFFICES ASSUME SimulatorInv, [NextSimulator]_simulatorVars PROVE SimulatorInv'
      OBVIOUS
    <2>1. CASE WalkLevel
      <3>1. /\ UNCHANGED <<book, order, earlier>> /\ IsWalk(order, trail)'
            /\ Now.remaining # 0
        BY <2>1, WalkLevelExtends
      <3>2. PICK p : /\ IsBest(order, trail, Len(trail), p)
                     /\ trail' = Append(trail, Taken(order, Now, p))
        BY <2>1, WalkLevelExtends
      <3>3. ASSUME earlier.trail # <<>> PROVE InStep(earlier.order, earlier.trail)'
        <4> PICK n, first, o, last, x :
                /\ n = Len(trail) /\ first = earlier.trail /\ o = earlier.order
                /\ last = first[Len(first)] /\ x = Taken(order, Now, p)
          OBVIOUS
        <4>1. /\ o \in Orders /\ o.side = order.side
              /\ o.sizeMode = "BaseQuantity" /\ order.sizeMode = "Notional"
              /\ IsWalk(o, first)
              /\ last.remaining = 0
              /\ last.notional = Scale * order.size /\ order.size # 0
              /\ \A k \in 1..n :
                     /\ trail[k].price = first[k].price
                     /\ trail[k].base = first[k].base
                     /\ trail[k].notional = first[k].notional
                     /\ trail[k].remaining = last.notional - first[k].notional
          BY <3>3 DEF SimulatorInv, InStep
        <4>2. /\ n < Len(first) /\ x.price = first[n + 1].price /\ x.base = first[n + 1].base
              /\ x.notional = first[n + 1].notional
              /\ x.remaining = last.notional - first[n + 1].notional
          BY <3>1, <3>2, <3>3, NextInStep
        <4>3. /\ Len(trail') = n + 1 /\ trail'[n + 1] = x /\ n \in Nat
              /\ \A k \in 1..n : trail'[k] = trail[k]
          <5>1. trail' \in Seq(Totals) /\ trail \in Seq(Totals)
            BY <3>1 DEF SimulatorInv, IsWalk
          <5> QED
            BY <3>2, <5>1
        <4>5. Len(trail') <= Len(first)
          <5>1. Len(first) \in Nat
            BY <4>1 DEF IsWalk
          <5> QED
            BY <4>2, <4>3, <5>1
        <4>6. \A k \in 1..n + 1 :
                  /\ trail'[k].price = first[k].price
                  /\ trail'[k].base = first[k].base
                  /\ trail'[k].notional = first[k].notional
                  /\ trail'[k].remaining = last.notional - first[k].notional
          <5> SUFFICES ASSUME NEW k \in 1..n + 1
                       PROVE  /\ trail'[k].price = first[k].price
                              /\ trail'[k].base = first[k].base
                              /\ trail'[k].notional = first[k].notional
                              /\ trail'[k].remaining = last.notional - first[k].notional
            OBVIOUS
          <5>1. CASE k = n + 1
            BY <4>2, <4>3, <5>1
          <5>2. CASE k # n + 1
            <6>1. k \in 1..n
              BY <4>3, <5>2
            <6> QED
              BY <4>1, <4>3, <6>1
          <5> QED
            BY <5>1, <5>2
        <4>7. order' = order /\ earlier'.order = o /\ earlier'.trail = first
          BY <3>1
        <4>8. IsWalk(earlier.order, earlier.trail)'
          BY <3>1, <4>1, <4>7, WalkKept
        <4>9. \A k \in 1..Len(trail') :
                  /\ trail'[k].price = first[k].price
                  /\ trail'[k].base = first[k].base
                  /\ trail'[k].notional = first[k].notional
                  /\ trail'[k].remaining = last.notional - first[k].notional
          BY <4>3, <4>6
        <4> QED
          BY <4>1, <4>5, <4>7, <4>8, <4>9 DEF InStep
      <3> QED
        BY <3>1, <3>3 DEF SimulatorInv
    <2>2. CASE SpendTheSame
      <3> PICK n, last : n = Len(trail) /\ last = trail[n]
        OBVIOUS
      <3>1. /\ Finished /\ ~Result.insufficient /\ order.sizeMode = "BaseQuantity"
            /\ earlier' = [order |-> order, trail |-> trail]
            /\ order' = [order EXCEPT !.sizeMode = "Notional", !.size = last.notional \div Scale]
            /\ trail' = Opening(order') /\ book' = book
        BY <2>2 DEF SpendTheSame, Now
      <3>2. /\ order \in Orders /\ book \in Content /\ IsWalk(order, trail)
            /\ trail \in Seq(Totals) /\ n \in Nat \ {0} /\ last \in Totals
            /\ n \in 1..n /\ 1 \in 1..n
        BY DEF SimulatorInv, IsWalk
      <3>3. order.size # 0 /\ last.remaining = 0
        <4>1. ~(order.size = 0 \/ DOMAIN Quotes = {})
          BY <3>1 DEF Result, NoFill
        <4>2. ~(last.remaining > 0)
          BY <3>1, <4>1 DEF Result, Now
        <4> QED
          BY <3>2, <4>1, <4>2 DEF Totals
      <3>4. /\ trail[1].notional = 0 /\ trail[1].base = 0 /\ trail[1].price = 0
            /\ trail[1].remaining = Scale * order.size
        BY <3>2 DEF IsWalk
      <3>5. trail[1].notional < last.notional
        <4>1. trail[1].remaining # 0
          BY <3>2, <3>3, <3>4, SimulatorAssumption DEF Orders
        <4>2. 1 < n
          BY <3>2, <3>3, <4>1
        <4> QED
          BY <3>2, <4>2 DEF IsWalk
      <3>6. PICK m \in Nat : last.notional = Scale * m
        BY <3>2 DEF IsWalk, IsMultiple
      <3>7. last.notional \div Scale = m /\ m # 0
        BY <3>2, <3>4, <3>5, <3>6, DivisionIsExact, SimulatorAssumption DEF Totals
      <3>8. order' \in Orders /\ order'.side = order.side /\ order'.sizeMode = "Notional"
            /\ order'.size = m
        BY <3>1, <3>2, <3>7 DEF Orders
      <3>9. /\ Len(trail') = 1 /\ trail'[1].price = 0 /\ trail'[1].base = 0
            /\ trail'[1].notional = 0 /\ trail'[1].remaining = Scale * m
        BY <3>1, <3>8 DEF Opening
      <3>10. IsWalk(order', trail')
        BY <1>1, <3>1, <3>8
      <3>11. IsWalk(order, trail)'
        <4>1. book' = book
          BY <3>1
        <4> QED
          BY <3>10, <4>1 DEF IsWalk, IsStep, IsBest, Ladder, Taken, TakeOf
      <3>12. earlier'.order = order /\ earlier'.trail = trail
        BY <3>1
      <3>13. IsWalk(earlier.order, earlier.trail)'
        <4>1. book' = book /\ IsWalk(order, trail)
          BY <3>1, <3>2
        <4> QED
          BY <3>12, <4>1 DEF IsWalk, IsStep, IsBest, Ladder, Taken, TakeOf
      <3>14. \A k \in 1..1 : /\ trail'[k].price = trail[k].price
                             /\ trail'[k].base = trail[k].base
                             /\ trail'[k].notional = trail[k].notional
                             /\ trail'[k].remaining = last.notional - trail[k].notional
        <4>1. last.notional - 0 = Scale * m
          BY <3>6, SimulatorAssumption
        <4> QED
          BY <3>4, <3>9, <4>1
      <3>15. InStep(earlier.order, earlier.trail)'
        <4>1. earlier'.trail[Len(earlier'.trail)] = last
          BY <3>12
        <4>2. last.remaining = 0 /\ last.notional = Scale * order'.size /\ order'.size # 0
          BY <3>3, <3>6, <3>7, <3>8
        <4>3. earlier'.order \in Orders /\ earlier'.order.side = order'.side
              /\ earlier'.order.sizeMode = "BaseQuantity" /\ order'.sizeMode = "Notional"
          BY <3>1, <3>2, <3>8, <3>12
        <4>4. Len(trail') <= Len(earlier'.trail)
          BY <3>2, <3>9, <3>12
        <4>5. \A k \in 1..Len(trail') :
                  /\ trail'[k].price = earlier'.trail[k].price
                  /\ trail'[k].base = earlier'.trail[k].base
                  /\ trail'[k].notional = earlier'.trail[k].notional
                  /\ trail'[k].remaining = last.notional - earlier'.trail[k].notional
          BY <3>9, <3>12, <3>14
        <4> QED
          BY <3>13, <4>1, <4>2, <4>3, <4>4, <4>5 DEF InStep
      <3> QED
        BY <3>1, <3>2, <3>8, <3>11, <3>15 DEF SimulatorInv
    <2>3. CASE UNCHANGED simulatorVars
      <3>1. book' = book /\ order' = order /\ trail' = trail /\ earlier' = earlier
        BY <2>3 DEF simulatorVars
      <3> QED
        BY <3>1 DEF SimulatorInv, InStep, IsWalk, IsStep, IsBest, Ladder, Taken, TakeOf
    <2> QED
      BY <2>1, <2>2, <2>3 DEF NextSimulator
  <1> QED
    BY <1>2, <1>3, PTL DEF SpecSimulator

\* The best level comes first in a walk, and no fill is better than its price.
LEMMA FirstIsBest ==
    ASSUME book \in Content, NEW o \in Orders, NEW t, IsWalk(o, t), Len(t) > 1
    PROVE  /\ t[2].price \in DOMAIN Ladder(o) /\ t[2].price \in Nat
           /\ \A q \in DOMAIN Ladder(o) : q = t[2].price \/ Ahead(o, t[2].price, q)
           /\ \A k \in 1..Len(t) :
                  IF o.side = "Buy" THEN t[k].notional >= t[2].price * t[k].base
                  ELSE t[k].notional <= t[2].price * t[k].base
  <1> DEFINE n == Len(t)
             f == t[2].price
             Bound(k) == IF o.side = "Buy" THEN t[k].notional >= f * t[k].base
                         ELSE t[k].notional <= f * t[k].base
  <1>1. t \in Seq(Totals) /\ n \in Nat /\ 1 \in 1..n - 1
    BY DEF IsWalk
  <1>2. IsStep(o, t, 1)
    BY <1>1 DEF IsWalk
  <1>3. f \in DOMAIN Ladder(o) /\ \A q \in DOMAIN Ladder(o) : q = f \/ Ahead(o, f, q)
    <2>1. Passed(t, 1) = {}
      BY DEF Passed
    <2> QED
      BY <1>2, <2>1 DEF IsStep, IsBest
  <1>4. \A q \in DOMAIN Ladder(o) : q \in Nat
    <2>1. Ladder(o) \in Side
      BY DEF Content, Ladder, Orders
    <2> QED
      BY <2>1, SideMembership, BookAssumption
  <1>5. Bound(1)
    <2>1. t[1].notional = 0 /\ t[1].base = 0
      BY DEF IsWalk
    <2>2. f * 0 = 0
      BY <1>3, <1>4
    <2> QED
      BY <2>1, <2>2
  <1>6. ASSUME NEW k \in 1..n - 1, Bound(k) PROVE Bound(k + 1)
    <2> DEFINE p == t[k + 1].price
               take == TakeOf(o, t[k], p)
    <2>1. IsStep(o, t, k) /\ IsMultiple(t[k].remaining) /\ t[k] \in Totals
      BY <1>1 DEF IsWalk
    <2>2. p \in DOMAIN Ladder(o) /\ t[k].remaining # 0 /\ t[k + 1] = Taken(o, t[k], p)
      BY <2>1 DEF IsStep, IsBest
    <2>3. /\ take \in Nat
          /\ t[k + 1].base = t[k].base + take
          /\ t[k + 1].notional = t[k].notional + take * p
      <3> HIDE DEF p
      <3> QED
        BY <2>1, <2>2, TakenFacts
    <2>4. p \in Nat /\ f \in Nat /\ (p = f \/ Ahead(o, f, p))
      BY <1>3, <1>4, <2>2
    <2>5. t[k].base \in Nat /\ t[k].notional \in Nat
      BY <2>1 DEF Totals
    <2> HIDE DEF p, take, f
    <2>6. f * (t[k].base + take) = f * t[k].base + take * f
      BY <1>3, <1>4, <2>3, <2>5
    <2>7. /\ f * t[k].base \in Int /\ take * f \in Int /\ take * p \in Int
          /\ f * take = take * f /\ p * take = take * p
      BY <1>3, <1>4, <2>2, <2>3, <2>5
    <2>8. CASE o.side = "Buy"
      <3>1. f <= p
        BY <1>3, <1>4, <2>2, <2>8 DEF Ahead
      <3>2. f * take <= p * take
        BY <1>3, <1>4, <2>2, <2>3, <3>1, ProductIsMonotonic
      <3> QED
        BY <1>6, <2>3, <2>5, <2>6, <2>7, <2>8, <3>2
    <2>9. CASE o.side # "Buy"
      <3>1. p <= f
        BY <1>3, <1>4, <2>2, <2>9 DEF Ahead
      <3>2. p * take <= f * take
        BY <1>3, <1>4, <2>2, <2>3, <3>1, ProductIsMonotonic
      <3> QED
        BY <1>6, <2>3, <2>5, <2>6, <2>7, <2>9, <3>2
    <2> QED
      BY <2>8, <2>9
  <1> HIDE DEF Bound, f
  <1>7. \A k \in 1..n : Bound(k)
    <2> DEFINE A == {k \in Nat : Bound(k + 1)}
    <2>1. 0 \in A
      BY <1>5
    <2>2. ASSUME NEW k \in 0..(n - 1) - 1, k \in A PROVE k + 1 \in A
      <3>1. k + 1 \in 1..n - 1
        BY <1>1
      <3> QED
        BY <1>6, <2>2, <3>1
    <2>3. n - 1 \in Nat
      BY <1>1
    <2>4. 0..n - 1 \subseteq A
      <3> HIDE DEF A
      <3> QED
        BY <2>1, <2>2, <2>3, SegmentInduction
    <2> SUFFICES ASSUME NEW k \in 1..n PROVE Bound(k)
      OBVIOUS
    <2>5. k - 1 \in 0..n - 1 /\ (k - 1) + 1 = k
      BY <1>1
    <2> QED
      BY <2>4, <2>5
  <1> QED
    BY <1>3, <1>4, <1>7 DEF Bound, f

\* Both sides of a book that has them have a best price.
LEMMA BestPrices ==
    ASSUME book \in Content, TwoSided
    PROVE  /\ BestBid \in DOMAIN book.bids /\ BestBid \in Nat
           /\ \A q \in DOMAIN book.bids : q <= BestBid
           /\ BestAsk \in DOMAIN book.asks /\ BestAsk \in Nat
           /\ \A q \in DOMAIN book.asks : q >= BestAsk
  <1>1. book.bids \in Side /\ book.asks \in Side
    BY DEF Content
  <1>2. DOMAIN book.bids \subseteq Price /\ DOMAIN book.asks \subseteq Price
    BY <1>1, SideMembership
  <1>3. /\ DOMAIN book.bids \subseteq Nat /\ DOMAIN book.asks \subseteq Nat
        /\ \A p \in DOMAIN book.bids : p <= Scale
        /\ Scale \in Nat
    BY <1>2, PriceFacts, SimulatorAssumption
  <1>4. \E p \in DOMAIN book.bids : \A q \in DOMAIN book.bids : q <= p
    BY <1>3, GreatestElement DEF TwoSided
  <1>5. \E p \in DOMAIN book.asks : \A q \in DOMAIN book.asks : p <= q
    BY <1>3, LeastElement DEF TwoSided
  <1>6. \E p \in DOMAIN book.asks : \A q \in DOMAIN book.asks : q >= p
    BY <1>3, <1>5
  <1>7. BestBid \in DOMAIN book.bids /\ \A q \in DOMAIN book.bids : q <= BestBid
    BY <1>4 DEF BestBid
  <1>8. BestAsk \in DOMAIN book.asks /\ \A q \in DOMAIN book.asks : q >= BestAsk
    BY <1>6 DEF BestAsk
  <1> QED
    BY <1>3, <1>7, <1>8

\* Half-spread arithmetic: a fill against the mid.
LEMMA FillAgainstMid ==
    ASSUME NEW base \in Nat, NEW notional \in Nat, NEW f \in Nat, NEW mid \in Nat
    PROVE  /\ notional >= f * base /\ mid <= 2 * f => 2 * notional >= base * mid
           /\ notional <= f * base /\ 2 * f <= mid => 2 * notional <= base * mid
  <1>1. (2 * f) * base = 2 * (f * base) /\ base * mid = mid * base /\ f * base \in Nat
        /\ mid * base \in Nat
    OBVIOUS
  <1>2. ASSUME notional >= f * base, mid <= 2 * f PROVE 2 * notional >= base * mid
    <2>1. mid * base <= (2 * f) * base
      BY <1>2, ProductIsMonotonic
    <2> QED
      BY <1>1, <1>2, <2>1
  <1>3. ASSUME notional <= f * base, 2 * f <= mid PROVE 2 * notional <= base * mid
    <2>1. (2 * f) * base <= mid * base
      BY <1>3, ProductIsMonotonic
    <2> QED
      BY <1>1, <1>3, <2>1
  <1> QED
    BY <1>2, <1>3

\* On a book that is not crossed no fill is better than the mid it is measured
\* against, whatever the order (ExecutionSimulator.cpp, slippageUsd).
THEOREM SlippageCosts == SpecSimulator => []SlippageIsACost
  <1>1. SimulatorInv => SlippageIsACost
    <2> SUFFICES ASSUME SimulatorInv, Finished, ~isCrossed
                 PROVE  IF order.side = "Buy"
                        THEN 2 * Result.notional >= Result.base * Result.mid
                        ELSE 2 * Result.notional <= Result.base * Result.mid
      BY DEF SlippageIsACost
    <2>1. /\ book \in Content /\ order \in Orders /\ IsWalk(order, trail)
          /\ Quotes = Ladder(order) /\ Walked = Passed(trail, Len(trail))
          /\ Len(trail) \in Nat \ {0}
      BY OrderGiven DEF SimulatorInv, IsWalk
    <2>2. CASE order.size = 0 \/ DOMAIN Quotes = {}
      BY <2>2 DEF Result, NoFill
    <2>3. CASE ~(order.size = 0 \/ DOMAIN Quotes = {})
      <3>1. Len(trail) > 1
        <4>1. ASSUME Len(trail) = 1 PROVE FALSE
          <5>1. Now.remaining = Scale * order.size
            BY <2>1, <4>1 DEF Now, IsWalk
          <5>2. Scale * order.size # 0
            BY <2>1, <2>3, SimulatorAssumption DEF Orders
          <5>3. Walked = {}
            BY <4>1 DEF Walked
          <5> QED
            BY <2>3, <5>1, <5>2, <5>3 DEF Finished
        <4> PICK n : n = Len(trail)
          OBVIOUS
        <4>2. n \in Nat \ {0} /\ n # 1
          BY <2>1, <4>1
        <4>3. n > 1
          BY <4>2
        <4> QED
          BY <4>3
      <3> DEFINE f == trail[2].price
      <3>2. /\ f \in DOMAIN Quotes /\ f \in Nat
            /\ \A q \in DOMAIN Quotes : q = f \/ Ahead(order, f, q)
        BY <2>1, <3>1, FirstIsBest
      <3>3. /\ Now.base \in Nat /\ Now.notional \in Nat
            /\ IF order.side = "Buy" THEN Now.notional >= f * Now.base
               ELSE Now.notional <= f * Now.base
        <4>1. Len(trail) \in 1..Len(trail) /\ trail \in Seq(Totals)
          BY <2>1 DEF IsWalk
        <4>2. Now \in Totals
          BY <4>1 DEF Now
        <4>3. IF order.side = "Buy" THEN Now.notional >= f * Now.base
              ELSE Now.notional <= f * Now.base
          BY <2>1, <3>1, <4>1, FirstIsBest DEF Now
        <4> QED
          BY <4>2, <4>3 DEF Totals
      <3>4. Result.base = Now.base /\ Result.notional = Now.notional /\ Result.mid = referenceMid
        BY <2>3 DEF Result
      <3>5. /\ referenceMid \in Nat
            /\ order.side = "Buy" => referenceMid <= 2 * f
            /\ order.side # "Buy" => 2 * f <= referenceMid
        <4>1. CASE ~TwoSided
          BY <3>2, <4>1 DEF referenceMid
        <4>2. CASE TwoSided
          <5>1. /\ BestBid \in DOMAIN book.bids /\ BestBid \in Nat
                /\ \A q \in DOMAIN book.bids : q <= BestBid
                /\ BestAsk \in DOMAIN book.asks /\ BestAsk \in Nat
                /\ \A q \in DOMAIN book.asks : q >= BestAsk
            BY <2>1, <4>2, BestPrices
          <5>2. BestBid < BestAsk /\ referenceMid = BestBid + BestAsk
            BY <4>2, <5>1 DEF isCrossed, referenceMid
          <5>3. ASSUME order.side = "Buy" PROVE BestAsk <= f
            BY <3>2, <5>1, <5>3 DEF Quotes
          <5>4. ASSUME order.side # "Buy" PROVE f <= BestBid
            BY <3>2, <5>1, <5>4 DEF Quotes
          <5> HIDE DEF f
          <5> QED
            BY <3>2, <5>1, <5>2, <5>3, <5>4
        <4> QED
          BY <4>1, <4>2
      <3> HIDE DEF f
      <3> QED
        BY <3>2, <3>3, <3>4, <3>5, FillAgainstMid
    <2> QED
      BY <2>2, <2>3
  <1> QED
    BY <1>1, SimulatorIsInvariant, PTL

\* Spending what a quantity cost buys that quantity again, at any sizes and
\* prices (ExecutionSimulator.cpp, the two size modes).
THEOREM SizingsAlwaysAgree == SpecSimulator => []SizingsAgree
  <1>1. SimulatorInv => SizingsAgree
    <2> SUFFICES ASSUME SimulatorInv, Finished, earlier.trail # <<>>
                 PROVE  LET first == earlier.trail[Len(earlier.trail)]
                        IN  /\ Result.base = first.base
                            /\ Result.notional = first.notional
                            /\ ~Result.insufficient
      BY DEF SizingsAgree
    <2> PICK first, o, last, n, m :
            /\ first = earlier.trail /\ o = earlier.order /\ last = first[Len(first)]
            /\ n = Len(trail) /\ m = Len(first)
      OBVIOUS
    <2>1. /\ book \in Content /\ order \in Orders /\ o \in Orders /\ o.side = order.side
          /\ IsWalk(o, first) /\ IsWalk(order, trail)
          /\ last.remaining = 0
          /\ last.notional = Scale * order.size /\ order.size # 0
          /\ n <= m
          /\ \A k \in 1..n :
                 /\ trail[k].price = first[k].price
                 /\ trail[k].base = first[k].base
                 /\ trail[k].notional = first[k].notional
                 /\ trail[k].remaining = last.notional - first[k].notional
      BY DEF SimulatorInv, InStep
    <2>2. /\ first \in Seq(Totals) /\ n \in Nat \ {0} /\ m \in Nat \ {0} /\ n \in 1..n
          /\ m \in 1..m /\ n \in 1..m /\ Now = trail[n]
      BY <2>1 DEF IsWalk, Now
    <2>3. /\ last \in Totals /\ last.notional \in Nat
          /\ first[n].notional \in Nat
      <3>1. last \in Totals /\ first[n] \in Totals
        BY <2>2
      <3> QED
        BY <3>1 DEF Totals
    <2>4. Ladder(o) = Quotes
      BY <2>1 DEF Ladder, Quotes
    <2>5. n = m
      <3> SUFFICES ASSUME n < m PROVE FALSE
        BY <2>1, <2>2
      <3>1. IsStep(o, first, n)
        BY <2>1, <2>2 DEF IsWalk
      <3>2. first[n + 1].price \in DOMAIN Quotes \ Passed(first, n)
        BY <2>4, <3>1 DEF IsStep, IsBest
      <3>3. Passed(first, n) = Walked
        BY <2>1, <2>2 DEF Passed, Walked
      <3>4. Now.remaining = 0
        BY <3>2, <3>3 DEF Finished
      <3>5. first[n].notional < first[m].notional
        BY <2>1, <2>2 DEF IsWalk
      <3> QED
        BY <2>1, <2>2, <2>3, <3>4, <3>5
    <2>6. m # 1
      <3>1. first[1].notional = 0
        BY <2>1 DEF IsWalk
      <3>2. Scale * order.size # 0
        BY <2>1, SimulatorAssumption DEF Orders
      <3> QED
        BY <2>1, <3>1, <3>2
    <2>7. DOMAIN Quotes # {}
      <3>1. m \in Nat \ {0} /\ m = Len(first)
        BY <2>2
      <3>2. 1 \in 1..Len(first) - 1
        <4>1. \A j \in Nat \ {0} : j # 1 => 1 \in 1..j - 1
          OBVIOUS
        <4> QED
          BY <2>6, <3>1, <4>1
      <3>3. IsStep(o, first, 1)
        BY <2>1, <3>2 DEF IsWalk
      <3> QED
        BY <2>4, <3>3 DEF IsStep, IsBest
    <2>8. Now.base = last.base /\ Now.notional = last.notional /\ Now.remaining = 0
      BY <2>1, <2>2, <2>3, <2>5
    <2>9. /\ Result.base = Now.base /\ Result.notional = Now.notional
          /\ Result.insufficient <=> Now.remaining > 0
      BY <2>1, <2>7 DEF Result
    <2> QED
      BY <2>8, <2>9
  <1> QED
    BY <1>1, SimulatorIsInvariant, PTL

-----------------------------------------------------------------------------
(* What the walk adds up to. *)

\* An order's quotes: finitely many prices, with natural worths and shares.
LEMMA QuoteFacts ==
    ASSUME book \in Content, order \in Orders
    PROVE  /\ IsFiniteSet(DOMAIN Quotes) /\ Quotes = Ladder(order)
           /\ \A p \in DOMAIN Quotes :
                  /\ p \in Price /\ p \in Nat \ {0}
                  /\ UnitCost(p) = Unit(order, p)
                  /\ UnitCost(p) \in Nat \ {0} /\ UnitCost(p) \in {1, p}
                  /\ Scale * Quotes[p] \in Nat \ {0}
                  /\ Worth[p] = (Scale * Quotes[p]) * UnitCost(p) /\ Worth[p] \in Nat
           /\ \A P \in SUBSET DOMAIN Quotes : WorthOf(P) \in Nat /\ IsFiniteSet(P)
           /\ Scale * order.size \in Nat
  <1>1. Quotes = Ladder(order) /\ \A p : UnitCost(p) = Unit(order, p)
    BY OrderGiven
  <1>2. DOMAIN Quotes \subseteq Price /\ Quotes \in [DOMAIN Quotes -> Size \ {0}]
    <2>1. Ladder(order) \in Side
      BY DEF Content, Ladder, Orders
    <2> QED
      BY <1>1, <2>1, SideMembership
  <1>3. IsFiniteSet(DOMAIN Quotes)
    <2>1. DOMAIN Quotes \subseteq 1..Scale
      <3> SUFFICES ASSUME NEW p \in DOMAIN Quotes PROVE p \in 1..Scale
        OBVIOUS
      <3>1. p \in Nat \ {0} /\ p <= Scale
        BY <1>2, PriceFacts
      <3> QED
        BY <3>1, SimulatorAssumption
    <2>2. IsFiniteSet(1..Scale)
      BY SimulatorAssumption, FS_Interval
    <2> QED
      BY <2>1, <2>2, FS_Subset
  <1>4. ASSUME NEW p \in DOMAIN Quotes
        PROVE  /\ p \in Price /\ p \in Nat \ {0}
               /\ UnitCost(p) \in Nat \ {0} /\ UnitCost(p) \in {1, p}
               /\ Scale * Quotes[p] \in Nat \ {0}
               /\ Worth[p] = (Scale * Quotes[p]) * UnitCost(p) /\ Worth[p] \in Nat
    <2>1. p \in Price /\ p \in Nat \ {0}
      BY <1>2, PriceFacts
    <2>2. UnitCost(p) \in Nat \ {0} /\ UnitCost(p) \in {1, p}
      BY <2>1 DEF UnitCost
    <2>3. Quotes[p] \in Nat \ {0} /\ Scale \in Nat \ {0}
      BY <1>2, BookAssumption, SimulatorAssumption
    <2>4. Scale * Quotes[p] \in Nat \ {0}
      BY <2>3
    <2>5. Worth[p] = (Scale * Quotes[p]) * UnitCost(p)
      BY DEF Worth
    <2>6. Worth[p] \in Nat
      BY <2>2, <2>4, <2>5
    <2> QED
      BY <2>1, <2>2, <2>4, <2>5, <2>6
  <1>5. ASSUME NEW P \in SUBSET DOMAIN Quotes PROVE WorthOf(P) \in Nat /\ IsFiniteSet(P)
    <2>1. IsFiniteSet(P) /\ \A p \in P : Worth[p] \in Nat
      BY <1>3, <1>4, FS_Subset
    <2> QED
      BY <2>1, SumUnfolds DEF WorthOf
  <1>6. Scale * order.size \in Nat
    BY SimulatorAssumption DEF Orders
  <1> QED
    BY <1>1, <1>3, <1>4, <1>5, <1>6

\* A level's share of the order, in base and in money.
LEMMA ShareFacts ==
    ASSUME book \in Content, order \in Orders
    PROVE  /\ \A p \in DOMAIN Quotes :
                  /\ Better(p) \in SUBSET DOMAIN Quotes
                  /\ Share(p) \in Nat
                  /\ ShareInBase[p] = Share(p) \div UnitCost(p)
                  /\ ShareInBase[p] \in Nat
                  /\ CostOfShare[p] = p * ShareInBase[p]
                  /\ CostOfShare[p] \in Nat
           /\ DOMAIN ShareInBase = DOMAIN Quotes /\ DOMAIN CostOfShare = DOMAIN Quotes
  <1>1. ASSUME NEW p \in DOMAIN Quotes
        PROVE  /\ Better(p) \in SUBSET DOMAIN Quotes
               /\ Share(p) \in Nat
               /\ ShareInBase[p] = Share(p) \div UnitCost(p)
               /\ ShareInBase[p] \in Nat
               /\ CostOfShare[p] = p * ShareInBase[p]
               /\ CostOfShare[p] \in Nat
    <2>1. Better(p) \in SUBSET DOMAIN Quotes
      BY DEF Better
    <2>2. WorthOf(Better(p)) \in Nat /\ Worth[p] \in Nat /\ Scale * order.size \in Nat
          /\ UnitCost(p) \in Nat \ {0} /\ p \in Nat
      BY <2>1, QuoteFacts
    <2>3. Share(p) \in Nat
      BY <2>2 DEF Share, Lesser
    <2>4. ShareInBase[p] = Share(p) \div UnitCost(p)
      BY DEF ShareInBase
    <2>5. ShareInBase[p] \in Nat
      BY <2>2, <2>3, <2>4
    <2>6. CostOfShare[p] = p * ShareInBase[p]
      BY DEF CostOfShare
    <2>7. CostOfShare[p] \in Nat
      BY <2>2, <2>5, <2>6
    <2> QED
      BY <2>1, <2>3, <2>4, <2>5, <2>6, <2>7
  <1>2. DOMAIN ShareInBase = DOMAIN Quotes /\ DOMAIN CostOfShare = DOMAIN Quotes
    BY DEF ShareInBase, CostOfShare
  <1> QED
    BY <1>1, <1>2

\* What a walk takes of its next level is the level's share of the order.
LEMMA ShareIsTaken ==
    ASSUME NEW u \in Nat \ {0}, NEW s \in Nat, NEW q \in Nat
    PROVE  /\ Lesser(s, q) = Lesser(q * u, s * u) \div u
           /\ q * u - Lesser(s, q) * u =
                  IF q * u - s * u <= 0 THEN 0 ELSE q * u - s * u
  <1>1. (s * u) \div u = s /\ (q * u) \div u = q
    <2>1. s * u = u * s /\ q * u = u * q
      OBVIOUS
    <2> QED
      BY <2>1, DivisionIsExact
  <1> DEFINE left == q * u
             worth == s * u
  <1>2. left \in Nat /\ worth \in Nat
    OBVIOUS
  <1>3. CASE s < q
    <2>1. worth <= left
      BY <1>3, ProductIsMonotonic
    <2> HIDE DEF left, worth
    <2>2. Lesser(s, q) = s /\ Lesser(left, worth) = worth
      BY <1>2, <1>3, <2>1 DEF Lesser
    <2>3. left - worth = IF left - worth <= 0 THEN 0 ELSE left - worth
      BY <1>2, <2>1
    <2> QED
      BY <1>1, <2>2, <2>3 DEF left, worth
  <1>4. CASE ~(s < q)
    <2>1. left <= worth
      <3>1. q <= s
        BY <1>4
      <3> QED
        BY <3>1, ProductIsMonotonic
    <2> HIDE DEF left, worth
    <2>2. Lesser(s, q) = q /\ Lesser(left, worth) = left
      BY <1>2, <1>4, <2>1 DEF Lesser
    <2>3. left - left = IF left - worth <= 0 THEN 0 ELSE left - worth
      BY <1>2, <2>1
    <2> QED
      BY <1>1, <2>2, <2>3 DEF left, worth
  <1> QED
    BY <1>3, <1>4

\* The levels passed before a level are exactly the better ones.
LEMMA BetterIsPassed ==
    ASSUME book \in Content, order \in Orders, IsWalk(order, trail),
           NEW k \in 1..Len(trail) - 1
    PROVE  LET p == trail[k + 1].price
           IN  /\ p \in DOMAIN Quotes /\ p \notin Passed(trail, k)
               /\ Passed(trail, k + 1) = Passed(trail, k) \cup {p}
               /\ Passed(trail, k) \subseteq DOMAIN Quotes => Better(p) = Passed(trail, k)
  <1> DEFINE p == trail[k + 1].price
  <1>1. Len(trail) \in Nat
    BY DEF IsWalk
  <1>2. \A j \in 1..k : IsBest(order, trail, j, trail[j + 1].price)
    BY <1>1 DEF IsWalk, IsStep
  <1>3. /\ p \in DOMAIN Quotes \ Passed(trail, k)
        /\ \A q \in DOMAIN Quotes \ (Passed(trail, k) \cup {p}) : Ahead(order, p, q)
    <2>1. k \in 1..k
      BY <1>1
    <2>2. IsBest(order, trail, k, p)
      BY <1>2, <2>1
    <2>3. Quotes = Ladder(order)
      BY QuoteFacts
    <2> HIDE DEF p
    <2> QED
      BY <2>2, <2>3 DEF IsBest
  <1>4. Passed(trail, k + 1) = Passed(trail, k) \cup {p}
    <2>1. 2..k + 1 = (2..k) \cup {k + 1}
      BY <1>1
    <2> QED
      BY <2>1 DEF Passed
  <1>5. \A q \in DOMAIN Quotes : q \in Nat
    BY QuoteFacts
  <1>6. ASSUME Passed(trail, k) \subseteq DOMAIN Quotes, NEW q \in Passed(trail, k)
        PROVE  q \in Better(p)
    <2>1. PICK j \in 2..k : q = trail[j].price
      BY DEF Passed
    <2>2. j - 1 \in 1..k /\ (j - 1) + 1 = j
      BY <1>1, <2>1
    <2>3. IsBest(order, trail, j - 1, q)
      BY <1>2, <2>1, <2>2
    <2>4. Passed(trail, j - 1) \subseteq Passed(trail, k)
      BY <1>1, <2>1 DEF Passed
    <2>5. p \in DOMAIN Quotes \ (Passed(trail, j - 1) \cup {q})
      BY <1>3, <2>4
    <2>6. Ahead(order, q, p)
      BY <2>3, <2>5, QuoteFacts DEF IsBest
    <2> QED
      BY <1>3, <1>5, <1>6, <2>6 DEF Better, Ahead
  <1>7. ASSUME NEW q \in Better(p) PROVE q \in Passed(trail, k)
    <2>1. q \in DOMAIN Quotes /\ Ahead(order, q, p)
      BY <1>7 DEF Better, Ahead
    <2>2. q # p /\ ~Ahead(order, p, q)
      BY <1>3, <1>5, <2>1 DEF Ahead
    <2> QED
      BY <1>3, <2>1, <2>2
  <1> QED
    BY <1>3, <1>4, <1>6, <1>7

\* After every level the totals are the sums over the levels passed.
LEMMA FilledSoFar ==
    ASSUME book \in Content, order \in Orders, IsWalk(order, trail),
           NEW k \in 1..Len(trail)
    PROVE  LET passed == Passed(trail, k)
               left == Scale * order.size - WorthOf(passed)
           IN  /\ passed \subseteq DOMAIN Quotes
               /\ trail[k].remaining = IF left <= 0 THEN 0 ELSE left
               /\ trail[k].base = SumFunctionOnSet(ShareInBase, passed)
               /\ trail[k].notional = SumFunctionOnSet(CostOfShare, passed)
  <1> DEFINE Left(W) == Scale * order.size - WorthOf(W)
             Filled(j) ==
                 /\ Passed(trail, j) \subseteq DOMAIN Quotes
                 /\ trail[j].remaining =
                        IF Left(Passed(trail, j)) <= 0 THEN 0 ELSE Left(Passed(trail, j))
                 /\ trail[j].base = SumFunctionOnSet(ShareInBase, Passed(trail, j))
                 /\ trail[j].notional = SumFunctionOnSet(CostOfShare, Passed(trail, j))
             n == Len(trail)
  <1>1. n \in Nat \ {0} /\ n - 1 \in Nat
    BY DEF IsWalk
  <1>2. Filled(1)
    <2>1. Passed(trail, 1) = {}
      BY DEF Passed
    <2>2. \A f : SumFunctionOnSet(f, {}) = 0
      BY SumUnfolds, FS_EmptySet
    <2>3. Left({}) = Scale * order.size /\ Scale * order.size \in Nat
      BY <2>2, QuoteFacts DEF WorthOf
    <2>4. trail[1].remaining = Scale * order.size /\ trail[1].base = 0 /\ trail[1].notional = 0
      BY DEF IsWalk
    <2>5. trail[1].remaining = IF Left({}) <= 0 THEN 0 ELSE Left({})
      BY <2>3, <2>4
    <2>6. trail[1].base = SumFunctionOnSet(ShareInBase, {})
          /\ trail[1].notional = SumFunctionOnSet(CostOfShare, {})
      BY <2>2, <2>4
    <2> HIDE DEF Left
    <2> QED
      BY <2>1, <2>5, <2>6
  <1>3. ASSUME NEW j \in 1..n - 1, Filled(j) PROVE Filled(j + 1)
    <2> DEFINE W == Passed(trail, j)
               p == trail[j + 1].price
               take == TakeOf(order, trail[j], p)
    <2>1. /\ IsStep(order, trail, j) /\ IsMultiple(trail[j].remaining)
          /\ trail[j] \in Totals
      BY <1>1 DEF IsWalk
    <2>2. /\ p \in DOMAIN Quotes /\ p \notin W /\ W \subseteq DOMAIN Quotes
          /\ Passed(trail, j + 1) = W \cup {p} /\ Better(p) = W
      BY <1>3, BetterIsPassed
    <2>3. /\ trail[j].remaining # 0
          /\ trail[j + 1] = Taken(order, trail[j], p)
      BY <2>1 DEF IsStep
    <2> HIDE DEF p, W
    <2>4. /\ trail[j + 1].base = trail[j].base + take
          /\ trail[j + 1].notional = trail[j].notional + take * p
          /\ trail[j + 1].remaining = trail[j].remaining - take * UnitCost(p)
          /\ take \in Nat
      BY <2>1, <2>2, <2>3, TakenFacts, QuoteFacts
    <2>5. /\ WorthOf(W) \in Nat /\ Scale * order.size \in Nat /\ Worth[p] \in Nat
          /\ p \in Price /\ p \in Nat \ {0}
          /\ UnitCost(p) \in Nat \ {0} /\ UnitCost(p) \in {1, p}
          /\ Scale * Quotes[p] \in Nat /\ Worth[p] = (Scale * Quotes[p]) * UnitCost(p)
          /\ UnitCost(p) = Unit(order, p) /\ Quotes = Ladder(order)
      BY <2>2, QuoteFacts
    <2>6. trail[j].remaining = Left(W) /\ Left(W) \in Nat \ {0}
      BY <1>3, <2>3, <2>5 DEF W
    <2>7. take = Lesser(Scale * Quotes[p], Left(W) \div UnitCost(p))
      BY <2>5, <2>6 DEF TakeOf
    <2>8. Share(p) = Lesser(Left(W), Worth[p])
      BY <2>2, <2>5, <2>6 DEF Share
    <2> HIDE DEF take
    <2>9. PICK q \in Nat : Left(W) = UnitCost(p) * q
      <3>1. PICK m \in Nat : Left(W) = Scale * m
        BY <2>1, <2>6 DEF IsMultiple
      <3>2. PICK c \in Nat : Scale = UnitCost(p) * c
        <4>1. CASE UnitCost(p) = 1
          BY <4>1, SimulatorAssumption
        <4>2. CASE UnitCost(p) = p
          BY <2>5, <4>2, PriceFacts
        <4> QED
          BY <2>5, <4>1, <4>2
      <3>3. c * m \in Nat /\ (UnitCost(p) * c) * m = UnitCost(p) * (c * m)
        BY <2>5, <3>1, <3>2
      <3> HIDE DEF Left
      <3> QED
        BY <3>1, <3>2, <3>3
    <2>10. /\ take = ShareInBase[p]
           /\ trail[j + 1].remaining =
                  IF Left(W) - Worth[p] <= 0 THEN 0 ELSE Left(W) - Worth[p]
      <3> HIDE DEF Left
      <3>3. /\ take = Share(p) \div UnitCost(p)
            /\ Left(W) - take * UnitCost(p)
                   = IF Left(W) - Worth[p] <= 0 THEN 0 ELSE Left(W) - Worth[p]
        <4>1. PICK l, u, size, worth, share, taken :
                /\ l = Left(W) /\ u = UnitCost(p) /\ size = Scale * Quotes[p]
                /\ worth = Worth[p] /\ share = Share(p) /\ taken = take
          OBVIOUS
        <4>2. u \in Nat \ {0} /\ size \in Nat /\ worth = size * u
          BY <2>5, <4>1
        <4>3. q \in Nat /\ l = q * u /\ l \div u = q
          <5>1. q \in Nat /\ l = u * q
            BY <2>9, <4>1
          <5>2. l \div u = q
            BY <4>2, <5>1, DivisionIsExact
          <5> QED
            BY <4>2, <5>1, <5>2
        <4>4. taken = Lesser(size, q) /\ share = Lesser(l, worth)
          BY <2>7, <2>8, <4>1, <4>3
        <4>5. taken = share \div u /\ l - taken * u = IF l - worth <= 0 THEN 0 ELSE l - worth
          BY <4>2, <4>3, <4>4, ShareIsTaken
        <4> QED
          BY <4>1, <4>5
      <3>2. ShareInBase[p] = Share(p) \div UnitCost(p)
        BY <2>2, ShareFacts
      <3> QED
        BY <2>4, <2>6, <3>2, <3>3
    <2>11. ASSUME NEW f, \A r \in DOMAIN Quotes : f[r] \in Nat
           PROVE  /\ SumFunctionOnSet(f, W \cup {p}) = f[p] + SumFunctionOnSet(f, W)
                  /\ SumFunctionOnSet(f, W) \in Nat
      <3>1. W \cup {p} \in SUBSET DOMAIN Quotes /\ W \in SUBSET DOMAIN Quotes
        BY <2>2
      <3>2. IsFiniteSet(W \cup {p}) /\ IsFiniteSet(W)
        BY <3>1, QuoteFacts
      <3>3. (W \cup {p}) \ {p} = W
        BY <2>2
      <3>4. (\A r \in W \cup {p} : f[r] \in Nat) /\ (\A r \in W : f[r] \in Nat)
        BY <2>11, <3>1
      <3>5. SumFunctionOnSet(f, W \cup {p}) = f[p] + SumFunctionOnSet(f, (W \cup {p}) \ {p})
        BY <3>2, <3>4, SumWithout
      <3>6. SumFunctionOnSet(f, W) \in Nat
        BY <3>2, <3>4, SumUnfolds
      <3> QED
        BY <3>3, <3>5, <3>6
    <2>12. /\ \A r \in DOMAIN Quotes : Worth[r] \in Nat
           /\ \A r \in DOMAIN Quotes : ShareInBase[r] \in Nat
           /\ \A r \in DOMAIN Quotes : CostOfShare[r] \in Nat
           /\ CostOfShare[p] = p * ShareInBase[p]
      BY <2>2, QuoteFacts, ShareFacts
    <2>13. /\ Left(W \cup {p}) = Left(W) - Worth[p]
           /\ SumFunctionOnSet(ShareInBase, W \cup {p}) =
                  ShareInBase[p] + SumFunctionOnSet(ShareInBase, W)
           /\ SumFunctionOnSet(CostOfShare, W \cup {p}) =
                  CostOfShare[p] + SumFunctionOnSet(CostOfShare, W)
           /\ SumFunctionOnSet(ShareInBase, W) \in Nat
           /\ SumFunctionOnSet(CostOfShare, W) \in Nat
      <3>1. WorthOf(W \cup {p}) = Worth[p] + WorthOf(W)
        BY <2>11, <2>12 DEF WorthOf
      <3>2. Left(W \cup {p}) = Left(W) - Worth[p]
        BY <2>5, <3>1
      <3> QED
        BY <2>11, <2>12, <3>2
    <2>14. /\ trail[j].base = SumFunctionOnSet(ShareInBase, W)
           /\ trail[j].notional = SumFunctionOnSet(CostOfShare, W)
      BY <1>3 DEF W
    <2>15. /\ trail[j + 1].base = SumFunctionOnSet(ShareInBase, W \cup {p})
           /\ trail[j + 1].notional = SumFunctionOnSet(CostOfShare, W \cup {p})
      <3>1. take * p = p * take /\ p * take \in Nat
        BY <2>4, <2>5
      <3>2. trail[j + 1].base = SumFunctionOnSet(ShareInBase, W) + take
        BY <2>4, <2>14
      <3>3. trail[j + 1].notional = SumFunctionOnSet(CostOfShare, W) + p * take
        BY <2>4, <2>14, <3>1
      <3>4. SumFunctionOnSet(ShareInBase, W \cup {p}) = take + SumFunctionOnSet(ShareInBase, W)
        BY <2>10, <2>13
      <3>5. SumFunctionOnSet(CostOfShare, W \cup {p})
                = p * take + SumFunctionOnSet(CostOfShare, W)
        BY <2>10, <2>12, <2>13
      <3> QED
        BY <2>4, <2>13, <3>1, <3>2, <3>3, <3>4, <3>5
    <2>16. W \cup {p} \subseteq DOMAIN Quotes
      BY <2>2
    <2> HIDE DEF Left
    <2> QED
      BY <2>2, <2>10, <2>13, <2>15, <2>16
  <1> HIDE DEF Filled
  <1>4. \A j \in 1..n : Filled(j)
    <2> DEFINE A == {j \in Nat : Filled(j + 1)}
    <2>1. 0 \in A
      BY <1>2
    <2>2. ASSUME NEW j \in 0..(n - 1) - 1, j \in A PROVE j + 1 \in A
      <3>1. j + 1 \in 1..n - 1
        BY <1>1
      <3> QED
        BY <1>3, <2>2, <3>1
    <2>3. 0..n - 1 \subseteq A
      <3> HIDE DEF A
      <3> QED
        BY <1>1, <2>1, <2>2, SegmentInduction
    <2>4. ASSUME NEW j \in 1..n PROVE Filled(j)
      <3>1. j - 1 \in 0..n - 1 /\ (j - 1) + 1 = j
        BY <1>1
      <3>2. j - 1 \in A
        BY <2>3, <3>1
      <3> QED
        BY <3>1, <3>2
    <2> QED
      BY <2>4
  <1> QED
    BY <1>4 DEF Filled

\* An order is filled best price first, by exactly what each level can still
\* give, and is reported insufficient iff its side is worth less than it
\* (ExecutionSimulator.cpp, execute).
THEOREM FillIsBestFirst == SpecSimulator => []FillsBestFirst
  <1>1. SimulatorInv => FillsBestFirst
    <2> SUFFICES ASSUME SimulatorInv, Finished
                 PROVE  /\ Result.base = SumFunction(ShareInBase)
                        /\ Result.notional = SumFunction(CostOfShare)
                        /\ Result.insufficient <=>
                              \/ order.size = 0
                              \/ WorthOf(DOMAIN Quotes) < Scale * order.size
      BY DEF FillsBestFirst
    <2> DEFINE D == DOMAIN Quotes
               W == Passed(trail, Len(trail))
               left == Scale * order.size - WorthOf(W)
    <2>1. /\ book \in Content /\ order \in Orders /\ IsWalk(order, trail)
          /\ Len(trail) \in Nat \ {0} /\ Len(trail) \in 1..Len(trail)
          /\ Walked = W /\ order.size \in Nat
      BY OrderGiven DEF SimulatorInv, IsWalk, Orders
    <2>2. /\ W \subseteq D
          /\ Now.remaining = IF left <= 0 THEN 0 ELSE left
          /\ Now.base = SumFunctionOnSet(ShareInBase, W)
          /\ Now.notional = SumFunctionOnSet(CostOfShare, W)
      BY <2>1, FilledSoFar DEF Now
    <2>3. IsFiniteSet(D) /\ WorthOf(W) \in Nat /\ WorthOf(D) \in Nat /\ Scale * order.size \in Nat
      BY <2>1, <2>2, QuoteFacts
    <2>4. Now.remaining = 0 \/ D \subseteq W
      BY <2>1 DEF Finished
    <2>5. ASSUME NEW A \in SUBSET D, NEW B \in SUBSET D, A \subseteq B
          PROVE  WorthOf(A) <= WorthOf(B)
      <3>1. IsFiniteSet(B) /\ \A p \in B : Worth[p] \in Nat
        BY <2>1, QuoteFacts
      <3> QED
        BY <2>5, <3>1, SumOfSubset DEF WorthOf
    <2>6. ASSUME NEW x \in D \ W PROVE ShareInBase[x] = 0 /\ CostOfShare[x] = 0
      <3>1. left <= 0
        BY <2>2, <2>3, <2>4
      <3>2. W \subseteq Better(x)
        <4> SUFFICES ASSUME NEW q \in W PROVE q \in Better(x)
          OBVIOUS
        <4>1. PICK k \in 2..Len(trail) : q = trail[k].price
          BY DEF Passed
        <4>2. k - 1 \in 1..Len(trail) - 1 /\ (k - 1) + 1 = k
          BY <2>1
        <4>3. IsBest(order, trail, k - 1, q)
          BY <2>1, <4>1, <4>2 DEF IsWalk, IsStep
        <4>4. Passed(trail, k - 1) \subseteq W
          BY <2>1 DEF Passed
        <4>5. Ahead(order, q, x)
          BY <2>1, <4>3, <4>4, QuoteFacts DEF IsBest
        <4>6. q \in D
          BY <2>2
        <4> QED
          BY <4>5, <4>6 DEF Better, Ahead
      <3>3. WorthOf(W) <= WorthOf(Better(x)) /\ WorthOf(Better(x)) \in Nat
        BY <2>1, <2>2, <2>5, <3>2, QuoteFacts, ShareFacts
      <3>4. Share(x) = 0
        BY <2>3, <3>1, <3>3 DEF Share
      <3>5. UnitCost(x) \in Nat \ {0} /\ x \in Nat
        BY <2>1, QuoteFacts
      <3>6. ShareInBase[x] = 0
        <4>1. ShareInBase[x] = 0 \div UnitCost(x)
          BY <2>1, <3>4, ShareFacts
        <4>2. \A u \in Nat \ {0} : 0 \div u = 0
          OBVIOUS
        <4> QED
          BY <3>5, <4>1, <4>2
      <3>7. CostOfShare[x] = 0
        BY <2>1, <3>5, <3>6, ShareFacts
      <3> QED
        BY <3>6, <3>7
    <2>7. /\ SumFunction(ShareInBase) = SumFunctionOnSet(ShareInBase, W)
          /\ SumFunction(CostOfShare) = SumFunctionOnSet(CostOfShare, W)
      <3>1. /\ \A p \in D : ShareInBase[p] \in Nat
            /\ \A p \in D : CostOfShare[p] \in Nat
            /\ DOMAIN ShareInBase = D /\ DOMAIN CostOfShare = D
        BY <2>1, ShareFacts
      <3> HIDE DEF W, D
      <3> QED
        BY <2>2, <2>3, <2>6, <3>1, SumOfSubset DEF SumFunction
    <2>8. CASE order.size = 0 \/ D = {}
      <3>1. Len(trail) = 1
        <4> SUFFICES ASSUME Len(trail) # 1 PROVE FALSE
          OBVIOUS
        <4>1. \A n \in Nat \ {0} : n # 1 => 1 \in 1..n - 1
          OBVIOUS
        <4>2. IsStep(order, trail, 1)
          BY <2>1, <4>1 DEF IsWalk
        <4>3. trail[1].remaining # 0 /\ D # {}
          BY <2>1, <4>2, QuoteFacts DEF IsStep, IsBest
        <4>4. trail[1].remaining = Scale * order.size
          BY <2>1 DEF IsWalk
        <4> QED
          BY <2>8, <4>3, <4>4, SimulatorAssumption
      <3>2. Now.base = 0 /\ Now.notional = 0
        BY <2>1, <3>1 DEF Now, IsWalk
      <3>3. Result = NoFill
        BY <2>8 DEF Result
      <3>4. Result.base = 0 /\ Result.notional = 0 /\ Result.insufficient = TRUE
        BY <3>3 DEF NoFill
      <3>5. order.size = 0 \/ WorthOf(D) < Scale * order.size
        <4> SUFFICES ASSUME order.size # 0 PROVE WorthOf(D) < Scale * order.size
          OBVIOUS
        <4>1. WorthOf({}) = 0
          BY SumUnfolds, FS_EmptySet DEF WorthOf
        <4>2. Scale * order.size \in Nat \ {0}
          BY <2>1, SimulatorAssumption
        <4> QED
          BY <2>8, <4>1, <4>2
      <3> QED
        BY <2>2, <2>7, <3>2, <3>4, <3>5
    <2>9. CASE ~(order.size = 0 \/ D = {})
      <3>1. /\ Result.base = Now.base /\ Result.notional = Now.notional
            /\ Result.insufficient <=> Now.remaining > 0
        BY <2>9 DEF Result
      <3>2. Now.remaining > 0 <=> WorthOf(D) < Scale * order.size
        <4>1. CASE Now.remaining = 0
          <5>1. WorthOf(W) <= WorthOf(D)
            BY <2>2, <2>5
          <5> QED
            BY <2>2, <2>3, <4>1, <5>1
        <4>2. CASE Now.remaining # 0
          <5>1. W = D
            BY <2>2, <2>4, <4>2
          <5> HIDE DEF W
          <5> QED
            BY <2>2, <2>3, <4>2, <5>1
        <4> QED
          BY <4>1, <4>2
      <3> QED
        BY <2>2, <2>7, <2>9, <3>1, <3>2
    <2> QED
      BY <2>8, <2>9
  <1> QED
    BY <1>1, SimulatorIsInvariant, PTL

=============================================================================
