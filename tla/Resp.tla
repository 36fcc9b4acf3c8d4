-------------------------------- MODULE Resp --------------------------------
(***************************************************************************)
(* RESP framing: the encoder (internal/protocol/writer.go), the decoder of *)
(* the event loop (decode.go) with the read buffer it is fed from          *)
(* (ConnMachine.Feed of internal/server/conn_machine.go), and the blocking *)
(* parser of the goroutine path (parser.go).  A wire is what a client      *)
(* sends; it reaches Feed in chunks of any size.                           *)
(*                                                                         *)
(* A byte is a string.  A value is a pair of its type and what it holds.   *)
(***************************************************************************)
EXTENDS Integers, Sequences, SequencesExt, FiniteSetsExt

CONSTANTS
    Wires,           \* names of what clients send
    Sent,            \* the values each wire encodes
    Trailing,        \* bytes that follow them
    IntMax,          \* math.MaxInt64
    MaxReadBuffer,   \* maxReadBuffer, and the parser's maxBulkStringLength
    MaxElements,     \* maxArrayElements of the parser
    MaxDepth         \* maxNestingDepth

Digits == <<"0", "1", "2", "3", "4", "5", "6", "7", "8", "9">>
DigitOf(b) == CHOOSE d \in 0..9 : Digits[d + 1] = b
CRLF == <<"CR", "LF">>

-----------------------------------------------------------------------------
(* The encoder.                                                            *)

DigitsOf(n) == IF n < 10 THEN <<Digits[n + 1]>>
               ELSE <<Digits[(n \div 10) + 1], Digits[(n % 10) + 1]>>
FormatInt(n) == IF n < 0 THEN <<"-">> \o DigitsOf(-n) ELSE DigitsOf(n)

\* appendEncodedValue.
RECURSIVE Encode(_)
Encode(v) ==
    CASE v[1] = "simple" -> <<"+">> \o v[2] \o CRLF
      [] v[1] = "error" -> <<"-">> \o v[2] \o CRLF
      [] v[1] = "boolean" -> <<"#", v[2]>> \o CRLF
      [] v[1] = "null" -> <<"_">> \o CRLF
      [] v[1] = "integer" -> <<":">> \o FormatInt(v[2]) \o CRLF
      [] v[1] = "bulk" -> <<"$">> \o FormatInt(Len(v[2])) \o CRLF \o v[2] \o CRLF
      [] v[1] = "null bulk" -> <<"$", "-", "1">> \o CRLF
      [] v[1] = "null array" -> <<"*", "-", "1">> \o CRLF
      [] v[1] = "array" ->
            <<"*">> \o FormatInt(Len(v[2])) \o CRLF
            \o FlattenSeq([i \in DOMAIN v[2] |-> Encode(v[2][i])])

Wire(w) == FlattenSeq([i \in DOMAIN Sent[w] |-> Encode(Sent[w][i])]) \o Trailing[w]

-----------------------------------------------------------------------------
(* The decoder.  A result is a value and the bytes it took, a shortfall    *)
(* with the bytes known to be needed (0 if unknown), or an error.          *)

Got(v, n) == [is |-> "value", v |-> v, n |-> n]
Incomplete(need) == [is |-> "incomplete", n |-> need]
Error == [is |-> "error", n |-> 0]

\* parseIntBytes, digit by digit with its check against the limit.
Accumulated(ds, limit) ==
    FoldLeft(LAMBDA acc, b :
                IF acc < 0 \/ ~(b \in Range(Digits)) THEN -1
                ELSE IF acc > limit \div 10
                        \/ (acc = limit \div 10 /\ DigitOf(b) > limit % 10) THEN -1
                ELSE acc * 10 + DigitOf(b), 0, ds)

Signed(line) == line # <<>> /\ line[1] \in {"-", "+"}
Negative(line) == line # <<>> /\ line[1] = "-"
Body(line) == IF Signed(line) THEN Tail(line) ELSE line
Magnitude(line) == Accumulated(Body(line), IF Negative(line) THEN IntMax + 1 ELSE IntMax)
IsInt(line) == Body(line) # <<>> /\ Magnitude(line) >= 0
IntOfLine(line) == IF Negative(line) THEN -Magnitude(line) ELSE Magnitude(line)

\* decodeLine and trimCRLF from position at (the bytes before it are taken):
\* where the line ends, 0 if no newline has come, -1 if it lacks its CR.
LineEnd(buf, at) ==
    LET ends == {i \in at + 1..Len(buf) : buf[i] = "LF"}
        lf == Min(ends)
    IN  IF ends = {} THEN 0
        ELSE IF lf < at + 2 \/ buf[lf - 1] # "CR" THEN -1 ELSE lf
LineOf(buf, at) == SubSeq(buf, at + 1, LineEnd(buf, at) - 2)

\* The total that decodeBulkString reports as needed.
Shortfall(taken, length) == taken + length + 2

\* decodeBulkString.
DecodeBulk(buf, line, taken) ==
    LET length == IntOfLine(line)
        end == taken + length
    IN  IF ~IsInt(line) THEN Error
        ELSE IF length = -1 THEN Got(<<"null bulk">>, taken)
        ELSE IF length < -1 THEN Error
        ELSE IF length > Len(buf) - taken - 2
             THEN Incomplete(Shortfall(taken, length))
        ELSE IF SubSeq(buf, end + 1, end + 2) # CRLF THEN Error
        ELSE Got(<<"bulk", SubSeq(buf, taken + 1, end)>>, end + 2)

\* The values that are one line: integerFromLine, booleanFromMarker,
\* nullFromPayload and the two that take any line.
LineValue(prefix, line, taken) ==
    CASE prefix = "+" -> Got(<<"simple", line>>, taken)
      [] prefix = "-" -> Got(<<"error", line>>, taken)
      [] prefix = ":" -> IF IsInt(line) THEN Got(<<"integer", IntOfLine(line)>>, taken)
                         ELSE Error
      [] prefix = "#" -> IF line \in {<<"t">>, <<"f">>}
                         THEN Got(<<"boolean", line[1]>>, taken) ELSE Error
      [] prefix = "_" -> IF line = <<>> THEN Got(<<"null">>, taken) ELSE Error

LinePrefixes == {"+", "-", ":", "#", "_"}

\* decode, and the elements of decodeArray.
RECURSIVE Decode(_, _), DecodeElements(_, _, _, _, _)
DecodeElements(buf, depth, left, taken, elements) ==
    LET next == Decode(SubSeq(buf, taken + 1, Len(buf)), depth)
    IN  IF left = 0 THEN Got(<<"array", elements>>, taken)
        ELSE CASE next.is = "error" -> Error
               [] next.is = "incomplete" ->
                     Incomplete(IF next.n = 0 THEN 0 ELSE taken + next.n)
               [] next.is = "value" ->
                     DecodeElements(buf, depth, left - 1, taken + next.n,
                                    Append(elements, next.v))
Decode(buf, depth) ==
    LET end == LineEnd(buf, 1)
        line == LineOf(buf, 1)
    IN  IF buf = <<>> THEN Incomplete(0)
        ELSE IF buf[1] \notin LinePrefixes \cup {"$", "*"} THEN Error
        ELSE IF buf[1] = "*" /\ depth >= MaxDepth THEN Error
        ELSE IF end = 0 THEN Incomplete(0)
        ELSE IF end = -1 THEN Error
        ELSE CASE buf[1] \in LinePrefixes -> LineValue(buf[1], line, end)
               [] buf[1] = "$" -> DecodeBulk(buf, line, end)
               [] buf[1] = "*" ->
                     IF ~IsInt(line) \/ (IsInt(line) /\ IntOfLine(line) < -1) THEN Error
                     ELSE IF IntOfLine(line) = -1 THEN Got(<<"null array">>, end)
                     ELSE DecodeElements(buf, depth + 1, IntOfLine(line), end, <<>>)

-----------------------------------------------------------------------------
(* The read buffer.                                                        *)

VARIABLES
    wire,        \* what the client sends
    received,    \* the bytes of it that were fed
    readBuf, resumeAt, pending, active   \* ConnMachine

respVars == <<wire, received, readBuf, resumeAt, pending, active>>

RespInit ==
    /\ wire \in Wires
    /\ received = 0 /\ readBuf = <<>> /\ resumeAt = 0 /\ pending = <<>>
    /\ active = TRUE

ProtocolError == <<"protocol error">>

\* The loop of Feed: what it parses, what is left, and how it stops.
RECURSIVE ParseAll(_, _)
ParseAll(buf, parsed) ==
    LET next == Decode(buf, 0)
    IN  IF next.is = "value"
        THEN ParseAll(SubSeq(buf, next.n + 1, Len(buf)), Append(parsed, next.v))
        ELSE [parsed |-> parsed, rest |-> buf, stop |-> next]

\* Mutant of EnterProtocolError: what the same chunk held before is dropped.
EnterProtocolErrorAlone(parsed) ==
    /\ pending' = pending \o <<ProtocolError>>
    /\ active' = FALSE /\ readBuf' = <<>> /\ resumeAt' = 0

\* enterProtocolError, after the values that came before it.
EnterProtocolError(parsed) ==
    /\ pending' = pending \o parsed \o <<ProtocolError>>
    /\ active' = FALSE /\ readBuf' = <<>> /\ resumeAt' = 0

\* The frame at the end of the buffer is, or is known to become, too large.
Oversized(rest, need) == Len(rest) > MaxReadBuffer \/ need > MaxReadBuffer

Feed(data) ==
    LET buf == readBuf \o data
        done == ParseAll(buf, <<>>)
    IN  \/ /\ resumeAt > 0 /\ Len(buf) < resumeAt
           /\ readBuf' = buf
           /\ UNCHANGED <<resumeAt, pending, active>>
        \/ /\ ~(resumeAt > 0 /\ Len(buf) < resumeAt)
           /\ done.stop.is = "error" \/ Oversized(done.rest, done.stop.n)
           /\ EnterProtocolError(done.parsed)
        \/ /\ ~(resumeAt > 0 /\ Len(buf) < resumeAt)
           /\ done.stop.is # "error" /\ ~Oversized(done.rest, done.stop.n)
           /\ pending' = pending \o done.parsed
           /\ readBuf' = done.rest /\ resumeAt' = done.stop.n
           /\ UNCHANGED active

\* The socket has n more bytes.
Receive ==
    /\ active
    /\ \E n \in 1..Len(Wire(wire)) - received :
          /\ Feed(SubSeq(Wire(wire), received + 1, received + n))
          /\ received' = received + n
    /\ UNCHANGED wire

RespNext == Receive

RespSpec == RespInit /\ [][RespNext]_respVars
-----------------------------------------------------------------------------
(* The blocking parser, on the bytes in which it has read up to position   *)
(* at.  Incomplete means that it waits for more.                           *)

\* parseBulkString.
ParseBulk(s, line, at) ==
    LET length == IntOfLine(line)
        end == at + length
    IN  IF ~IsInt(line) THEN Error
        ELSE IF length = -1 THEN Got(<<"null bulk">>, at)
        ELSE IF length < -1 \/ length > MaxReadBuffer THEN Error
        ELSE IF end + 2 > Len(s) THEN Incomplete(0)
        ELSE IF SubSeq(s, end + 1, end + 2) # CRLF THEN Error
        ELSE Got(<<"bulk", SubSeq(s, at + 1, end)>>, end + 2)

RECURSIVE Parse(_, _, _), ParseElements(_, _, _, _, _)
ParseElements(s, depth, left, at, elements) ==
    LET next == Parse(s, at, depth)
    IN  IF left = 0 THEN Got(<<"array", elements>>, at)
        ELSE IF next.is # "value" THEN next
        ELSE ParseElements(s, depth, left - 1, next.n, Append(elements, next.v))
Parse(s, at, depth) ==
    LET prefix == s[at + 1]
        end == LineEnd(s, at + 1)
        line == LineOf(s, at + 1)
    IN  IF at >= Len(s) THEN Incomplete(0)
        ELSE IF prefix \notin LinePrefixes \cup {"$", "*"} THEN Error
        ELSE IF prefix = "*" /\ depth >= MaxDepth THEN Error
        ELSE IF end = 0 THEN Incomplete(0)
        ELSE IF end = -1 THEN Error
        ELSE CASE prefix \in LinePrefixes -> LineValue(prefix, line, end)
               [] prefix = "$" -> ParseBulk(s, line, end)
               [] prefix = "*" ->
                     IF ~IsInt(line) THEN Error
                     ELSE IF IntOfLine(line) = -1 THEN Got(<<"null array">>, end)
                     ELSE IF IntOfLine(line) < -1 \/ IntOfLine(line) > MaxElements
                          THEN Error
                     ELSE ParseElements(s, depth + 1, IntOfLine(line), end, <<>>)

RECURSIVE ParseStream(_, _, _)
ParseStream(s, at, parsed) ==
    LET next == Parse(s, at, 0)
    IN  CASE next.is = "value" -> ParseStream(s, next.n, Append(parsed, next.v))
          [] next.is = "error" -> Append(parsed, ProtocolError)
          [] next.is = "incomplete" -> parsed

-----------------------------------------------------------------------------
Arrived == SubSeq(Wire(wire), 1, received)

\* How many values of the wire have arrived in full.
Complete ==
    LET ends == [i \in DOMAIN Sent[wire] |->
                   Len(FlattenSeq([j \in 1..i |-> Encode(Sent[wire][j])]))]
    IN  Cardinality({i \in DOMAIN ends : ends[i] <= received})

\* However the bytes are cut into chunks, Feed has parsed exactly the values
\* that have arrived in full, as they were encoded and in their order: waiting
\* for resumeAt never holds a complete request back, and no cut inside a
\* number, a terminator or a payload changes what is read.  A malformed or an
\* oversized frame adds one protocol error and no value.  And the two front
\* ends agree: the blocking parser of the goroutine path finds the same values
\* in the same bytes, and fails at the same frame (parser.go, decode.go; arrays
\* stay within maxArrayElements, a limit that only the parser has).
FramesInOrder ==
    /\ pending = SubSeq(Sent[wire], 1, Complete)
                 \o (IF active THEN <<>> ELSE <<ProtocolError>>)
    /\ ~active => Trailing[wire] # <<>> /\ Complete = Len(Sent[wire])
    /\ pending = ParseStream(Arrived, 0, <<>>)
=============================================================================
