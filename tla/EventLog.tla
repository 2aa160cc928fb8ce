------------------------------ MODULE EventLog ------------------------------
(***************************************************************************)
(* core/src/Recorder.cpp: the log of events, one JSON object per line, and *)
(* its reader.  A line is a record of its fields; Junk is a line that does *)
(* not parse.  captured_at_ns, which nothing reads, is left out, and so is *)
(* the text of the numbers (shortest form that reads back as the same      *)
(* double).                                                                *)
(*                                                                         *)
(* As in the repository's parity test, the log is given every event that   *)
(* was decoded, and is read once it is complete.  The behaviour is a       *)
(* sequence of frames decoded and recorded, by one Recorder on the file    *)
(* after another, then of lines read.                                      *)
(***************************************************************************)
EXTENDS Decoder

CONSTANTS
    Frames,         \* Frames[format]: the frames that arrive in that format
    OrdinaryFrames, \* frames of the exchange that several are recorded of
    MaxAttempts     \* bound: frames in a behaviour

ASSUME LogAssumption ==
    /\ DOMAIN Frames = {"OkxBooks", "ProxyBooks"}
    /\ OrdinaryFrames \subseteq Frames["OkxBooks"]
    /\ Frames["OkxBooks"] \subseteq OkxFrames
    /\ Frames["ProxyBooks"] \subseteq ProxyFrames
    /\ MaxAttempts \in Nat

VARIABLES
    file,       \* the file: its complete lines, and its torn end if any
    stream,     \* out_ of the Recorder on it: "good", or "failed" for good, as
                \* it is from the start when the file could not be opened
    attempts,   \* history variable: what was decoded, how much of its line was
                \* written, and to which line; 0 if nothing was
    position,   \* the lines the reader has been through
    read        \* the events it returned, with the line of each for history

logVars == <<file, stream, attempts, position, read>>

Absent == [kind |-> "absent", n |-> 0]
Number(n) == [kind |-> "number", n |-> n]
OptionalNumber(option) == IF option = {} THEN Absent ELSE Number(CHOOSE n \in option : TRUE)

-----------------------------------------------------------------------------
(* One line. *)

record(event) ==
    [type |-> event.type, seqId |-> Number(event.sequence), sequence |-> Absent,
     prevSeqId |-> OptionalNumber(event.prevSequence),
     sequenced |-> event.hasSequence,
     timestamp_ns |-> Number(event.timestampNs),
     bids |-> event.bids, asks |-> event.asks,
     checksum |-> OptionalNumber(event.checksum)]

Junk == [type |-> "absent"]

IsUnsigned(field) == field.kind = "number" /\ Stored(field.n) = "unsigned"

\* The sequence number of a line: seqId or, in a legacy log, sequence.
SeqIdOf(line) ==
    IF IsUnsigned(line.seqId) THEN {line.seqId.n}
    ELSE IF IsUnsigned(line.sequence) THEN {line.sequence.n}
    ELSE {}

Optional(field) == IF IsInteger(field) THEN {ToSigned(field.n)} ELSE {}

\* The event on a line; nothing if the line is malformed.  (A timestamp_ns that
\* was stored as a double would be truncated; no Recorder writes one.)
next(line) ==
    IF \/ line.type = "absent"
       \/ ~parseLevels(line.bids) \/ ~parseLevels(line.asks)
       \/ line.timestamp_ns.kind # "absent" /\ ~IsInteger(line.timestamp_ns)
    THEN {}
    ELSE LET seq == SeqIdOf(line)
             sequenced == seq # {} /\ line.sequenced
         IN {[type |-> IF line.type = "Snapshot" THEN "Snapshot" ELSE "Delta",
              sequence |-> IF seq = {} THEN 0 ELSE CHOOSE n \in seq : TRUE,
              hasSequence |-> sequenced,
              prevSequence |-> IF sequenced THEN Optional(line.prevSeqId) ELSE {},
              timestampNs |-> IF line.timestamp_ns.kind = "absent"
                              THEN 0 ELSE ToSigned(line.timestamp_ns.n),
              bids |-> line.bids, asks |-> line.asks,
              checksum |-> Optional(line.checksum)]}

-----------------------------------------------------------------------------
(***************************************************************************)
(* The file.  It is only ever appended to.  A write may be cut short, by a *)
(* full disk or by the end of the process.  The stream then writes nothing *)
(* more, and what the next Recorder on the file writes first continues the *)
(* torn line.  The file is its complete lines and the torn end.            *)
(***************************************************************************)

EmptyFile == [lines |-> <<>>, torn |-> {}]

\* How much of the line is written: "all", all but the "newline", "partial" or
\* "none".
Extents == {"all", "newline", "partial", "none"}

Write(event, written) ==
    LET line == IF file.torn = {} THEN record(event) ELSE Junk
    IN  CASE written = "all"     -> [lines |-> Append(file.lines, line), torn |-> {}]
          [] written = "partial" -> [file EXCEPT !.torn = {Junk}]
          [] written = "newline" -> [file EXCEPT !.torn = {line}]

InitLog ==
    /\ file = EmptyFile
    /\ stream \in {"good", "failed"}
    /\ attempts = <<>>
    /\ position = 0
    /\ read = <<>>

\* A frame is decoded and, unless it is malformed, recorded.  record() returns
\* whether the stream is still good.
DecodeAndRecord(frame, format, written) ==
    LET decoded == decodeFrame(frame, format)
        line == IF written = "none" THEN 0 ELSE Len(file.lines) + 1
    IN  /\ position = 0
        /\ Len(attempts) < MaxAttempts
        /\ decoded = Malformed \/ stream = "failed" => written = "none"
        /\ attempts' = Append(attempts, [frame |-> frame, format |-> format, decoded |-> decoded,
                                         written |-> written, line |-> line])
        /\ file' = IF written = "none" THEN file ELSE Write(decoded.event, written)
        /\ stream' = IF decoded = Malformed \/ written = "all" THEN stream ELSE "failed"
        /\ UNCHANGED <<position, read>>

\* One frame of any kind, or several ordinary ones.
Record ==
    \E written \in Extents :
        \/ /\ attempts = <<>>
           /\ \E format \in DOMAIN Frames : \E frame \in Frames[format] :
                 DecodeAndRecord(frame, format, written)
        \/ /\ \A i \in DOMAIN attempts : attempts[i].frame \in OrdinaryFrames
           /\ \E frame \in OrdinaryFrames : DecodeAndRecord(frame, "OkxBooks", written)

\* The Recorder is gone, with its process perhaps, and another one opens the
\* file to append to it, or fails to.
NewRecorder ==
    /\ position = 0
    /\ stream' \in {"good", "failed"}
    /\ UNCHANGED <<file, attempts, position, read>>

\* getline also returns an end that has no newline.
LinesInFile ==
    file.lines \o (IF file.torn = {} THEN <<>> ELSE <<CHOOSE l \in file.torn : TRUE>>)

\* Mutant: reading ends at the first malformed line.
Bug_ReadUntilMalformed ==
    /\ position < Len(LinesInFile)
    /\ LET event == next(LinesInFile[position + 1])
       IN  IF event = {}
           THEN position' = Len(LinesInFile) /\ UNCHANGED read
           ELSE /\ position' = position + 1
                /\ read' = Append(read, [line |-> position + 1, event |-> CHOOSE e \in event : TRUE])
    /\ UNCHANGED <<file, stream, attempts>>

\* One iteration of the loop in next(): a line that gives no event is skipped.
ReadLine ==
    /\ position < Len(LinesInFile)
    /\ position' = position + 1
    /\ LET event == next(LinesInFile[position'])
       IN  read' = IF event = {} THEN read
                   ELSE Append(read, [line |-> position', event |-> CHOOSE e \in event : TRUE])
    /\ UNCHANGED <<file, stream, attempts>>

NextLog == Record \/ NewRecorder \/ ReadLine

SpecLog == InitLog /\ [][NextLog]_logVars

-----------------------------------------------------------------------------

\* A frame of the exchange is decoded iff its numbers lie in their domains, and
\* then to exactly those numbers, whether they were written as numbers or as
\* strings: no width the number passes through on the way truncates it.
DecodeIsExact ==
    \A i \in DOMAIN attempts :
        attempts[i].format = "OkxBooks" => DecodesExactly(attempts[i].frame)

\* An event has a line to itself, and all of that line but perhaps its newline.
Intact(i) ==
    /\ attempts[i].line # 0
    /\ attempts[i].written # "partial"
    /\ \A j \in DOMAIN attempts \ {i} : attempts[j].line # attempts[i].line

ReadFrom(k, i) ==
    Intact(i) /\ read[k] = [line |-> attempts[i].line, event |-> attempts[i].decoded.event]

\* What was decoded comes back from the log unchanged and in order, for both
\* formats and at every edge of the numbers' widths.  A write cut short costs its
\* own line, all that the same Recorder is given after it, and the first line of
\* the next Recorder, which runs into the torn one.
LogReadsBack ==
    /\ \A k \in DOMAIN read : \E i \in DOMAIN attempts : ReadFrom(k, i)
    /\ \A k, l \in DOMAIN read : \A i, j \in DOMAIN attempts :
            ReadFrom(k, i) /\ ReadFrom(l, j) => (k < l <=> i < j)
    /\ position = Len(LinesInFile) =>
            \A i \in DOMAIN attempts : Intact(i) => \E k \in DOMAIN read : ReadFrom(k, i)

=============================================================================
