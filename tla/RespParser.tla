----------------------------- MODULE RespParser -----------------------------
(***************************************************************************)
(* RespParser (protocol/resp_parser.cpp) and its inverse, serialize       *)
(* (protocol/resp_serializer.hpp), over sequences of bytes, fed the way   *)
(* handle_data feeds it: one chunk of the stream, then empty chunks until *)
(* no value comes back.  Offsets count from 1.                            *)
(***************************************************************************)
EXTENDS Integers, Sequences

CONSTANTS
    CR, LF,    \* the bytes of the line end
    Payload,   \* the bytes that are none of the protocol's own
    IntMax,    \* the greatest int64_t
    MaxCount,  \* the most elements vector::reserve has room for
    Depth,     \* how deep the arrays that a peer sends are nested
    Messages,  \* the sequences of values a peer may serialize
    Streams    \* other sequences of bytes a peer may send

VARIABLES
    sent,    \* history: the values whose serialization is the stream, if any
    input,   \* history: the whole stream
    rest,    \* the bytes of it that have not arrived
    buf,     \* RespParser::buf_
    out,     \* the values feed returned
    loop     \* handle_data: "idle", "drain" inside the loop, "threw" after it

vars == <<sent, input, rest, buf, out, loop>>

Digits == <<"0", "1", "2", "3", "4", "5", "6", "7", "8", "9">>
IsDigit(b) == \E d \in 1..10 : Digits[d] = b
Digit(b) == (CHOOSE d \in 1..10 : Digits[d] = b) - 1

Types == {"+", "-", ":", "$", "*"}
Bytes == Types \cup {Digits[d] : d \in 1..10} \cup {CR, LF} \cup Payload
Int64 == (-IntMax - 1)..IntMax

ASSUME LineEndAssumption == CR # LF /\ \A b \in {CR, LF} : b # "-" /\ ~IsDigit(b)
ASSUME RangeAssumption == IntMax \in Nat /\ MaxCount \in 0..IntMax /\ Depth \in Nat

(***************************************************************************)
(* RespValue: the alternative and its payload.  A line has no line end in *)
(* it, or it would not be one.                                            *)
(***************************************************************************)
NullValue  == <<"null", <<>>>>
Simple(s)  == <<"simple", s>>
Failure(s) == <<"error", s>>
Integer(n) == <<"integer", n>>
BulkOf(s)  == <<"bulk", s>>
ArrayOf(s) == <<"array", s>>

EndsAt(b, j) == j < Len(b) /\ b[j] = CR /\ b[j + 1] = LF
Lines == {s \in Seq(Bytes) : \A j \in 1..Len(s) : ~EndsAt(s, j)}

Plain ==
    {NullValue} \cup ({"simple", "error"} \X Lines) \cup ({"integer"} \X Int64)
    \cup ({"bulk"} \X {s \in Seq(Bytes) : Len(s) <= IntMax})

\* The values whose arrays are nested at most d deep.
Deeper(V) == Plain \cup ({"array"} \X {s \in Seq(V) : Len(s) <= MaxCount})
Nested[d \in 0..Depth] == IF d = 0 THEN Plain ELSE Deeper(Nested[d - 1])

RespValue == Nested[Depth]

ASSUME SentAssumption == Messages \subseteq Seq(RespValue) /\ Streams \subseteq Seq(Bytes)

(***************************************************************************)
(* serialize.                                                             *)
(***************************************************************************)
\* std::to_string of a natural number, and of any.
Decimal(n) ==
    LET text[m \in 0..n] ==
            IF m < 10 THEN <<Digits[m + 1]>>
            ELSE text[m \div 10] \o <<Digits[(m % 10) + 1]>>
    IN  text[n]
ToString(n) == IF n < 0 THEN <<"-">> \o Decimal(-n) ELSE Decimal(n)

CRLF == <<CR, LF>>

\* The first k parts put together, for every k.
Concats(parts) ==
    LET upto[k \in 0..Len(parts)] ==
            IF k = 0 THEN <<>> ELSE upto[k - 1] \o parts[k]
    IN  upto
Concat(parts) == Concats(parts)[Len(parts)]

\* A value, when serialize gives its elements' bytes.
Wire(serialize, v) ==
    CASE v[1] = "null"    -> <<"$", "-", "1">> \o CRLF
      [] v[1] = "simple"  -> <<"+">> \o v[2] \o CRLF
      [] v[1] = "error"   -> <<"-">> \o v[2] \o CRLF
      [] v[1] = "integer" -> <<":">> \o ToString(v[2]) \o CRLF
      [] v[1] = "bulk"    -> <<"$">> \o ToString(Len(v[2])) \o CRLF \o v[2] \o CRLF
      [] v[1] = "array"   -> <<"*">> \o ToString(Len(v[2])) \o CRLF
                             \o Concat([k \in 1..Len(v[2]) |-> serialize[v[2][k]]])

Serialize[v \in RespValue] == Wire(Serialize, v)

\* The bytes of the first k values of s, for every k, and of all of them.
Stream(s) == Concats([k \in 1..Len(s) |-> Serialize[s[k]]])
SerializeAll(s) == Stream(s)[Len(s)]

(***************************************************************************)
(* Parsing b from offset i on: a value and the offset behind it, "more"   *)
(* for {nullopt, 0}, or "throw".                                          *)
(***************************************************************************)
Value(v, i) == [is |-> "value", value |-> v, next |-> i]
More        == [is |-> "more", value |-> NullValue, next |-> 0]
Throw       == [is |-> "throw", value |-> NullValue, next |-> 0]

\* find_crlf: the offset of the next line end, 0 when there is none.
LineEnd(b, i) ==
    LET at == {j \in i..Len(b) : EndsAt(b, j)}
    IN  IF at = {} THEN 0 ELSE CHOOSE j \in at : \A k \in at : j <= k

\* from_chars over the whole of s, and the number it reads.
AllDigits(s) == s # <<>> /\ \A i \in 1..Len(s) : IsDigit(s[i])
Natural(s) ==
    LET upto[k \in 0..Len(s)] ==
            IF k = 0 THEN 0 ELSE 10 * upto[k - 1] + Digit(s[k])
    IN  upto[Len(s)]
Number(s) == IF s[1] = "-" THEN -Natural(Tail(s)) ELSE Natural(s)
IsNumber(s) ==
    /\ AllDigits(s) \/ (s # <<>> /\ s[1] = "-" /\ AllDigits(Tail(s)))
    /\ Number(s) \in Int64

\* parse_bulk_string behind its length; the two bytes of the terminator are
\* counted and not looked at.
BulkDataBare(b, i, n) ==
    IF i + n - 1 > Len(b) THEN More
    ELSE Value(BulkOf(SubSeq(b, i, i + n - 1)), i + n)
BulkData(b, i, n) ==
    IF i + n + 1 > Len(b) THEN More
    ELSE Value(BulkOf(SubSeq(b, i, i + n - 1)), i + n + 2)

\* The loop of parse_array, when parse gives the value at every offset: one
\* element more, the first n from offset i on, and the array of them.
Element(parse, prev) ==
    LET e == parse[prev.next]
    IN  IF prev.is # "value" THEN prev
        ELSE IF e.is # "value" THEN e
        ELSE Value(Append(prev.value, e.value), e.next)

Elements(parse, i, n) ==
    LET upto[k \in 0..n] ==
            IF k = 0 THEN Value(<<>>, i) ELSE Element(parse, upto[k - 1])
    IN  upto

ArrayData(parse, i, n) ==
    LET all == Elements(parse, i, n)[n]
    IN  IF all.is = "value" THEN Value(ArrayOf(all.value), all.next) ELSE all

\* What parse_bulk_string and parse_array make of a length of n.
Sized(b, parse, type, i, n) ==
    CASE n = -1 -> Value(NullValue, i)
      [] n < -1 -> Throw
      [] n >= 0 /\ type = "$" -> BulkData(b, i, n)
      [] n > MaxCount /\ type = "*" -> Throw
      [] n \in 0..MaxCount /\ type = "*" -> ArrayData(parse, i, n)

\* The type parsers, with the line they all read first.
Typed(b, parse, type, line, after) ==
    CASE type = "+" -> Value(Simple(line), after)
      [] type = "-" -> Value(Failure(line), after)
      [] type \in {":", "$", "*"} /\ ~IsNumber(line) -> Throw
      [] type = ":" /\ IsNumber(line) -> Value(Integer(Number(line)), after)
      [] type \in {"$", "*"} /\ IsNumber(line) ->
             Sized(b, parse, type, after, Number(line))

ParseAt(b, parse, i) ==
    IF i > Len(b) THEN More
    ELSE IF b[i] \notin Types THEN Throw
    ELSE LET end == LineEnd(b, i + 1)
         IN  IF end = 0 THEN More
             ELSE Typed(b, parse, b[i], SubSeq(b, i + 1, end - 1), end + 2)

\* parse, at every offset of b; an element lies behind the array's first byte.
Parsed(b) ==
    LET parse[i \in 1..Len(b) + 1] == ParseAt(b, parse, i)
    IN  parse
Parse(b, i) == Parsed(b)[i]

(***************************************************************************)
(* The stream arrives in chunks.                                          *)
(***************************************************************************)
Init ==
    /\ \/ sent \in Messages /\ input = SerializeAll(sent)
       \/ sent = <<>> /\ input \in Streams
    /\ rest = input
    /\ buf = <<>>
    /\ out = <<>>
    /\ loop = "idle"

\* feed, and what handle_data does with its result; an exception resets the
\* parser.
FeedForgets(chunk) ==
    LET b == buf \o chunk
        r == Parse(b, 1)
    IN  \/ /\ r.is = "value"
           /\ buf' = <<>> /\ out' = Append(out, r.value) /\ loop' = "drain"
        \/ r.is = "more" /\ buf' = b /\ out' = out /\ loop' = "idle"
        \/ r.is = "throw" /\ buf' = <<>> /\ out' = out /\ loop' = "threw"
Feed(chunk) ==
    LET b == buf \o chunk
        r == Parse(b, 1)
    IN  \/ /\ r.is = "value"
           /\ buf' = SubSeq(b, r.next, Len(b))
           /\ out' = Append(out, r.value)
           /\ loop' = "drain"
        \/ r.is = "more" /\ buf' = b /\ out' = out /\ loop' = "idle"
        \/ r.is = "throw" /\ buf' = <<>> /\ out' = out /\ loop' = "threw"

Receive ==
    /\ loop = "idle"
    /\ \E n \in 1..Len(rest) :
           /\ Feed(SubSeq(rest, 1, n))
           /\ rest' = SubSeq(rest, n + 1, Len(rest))
    /\ UNCHANGED <<sent, input>>

Drain ==
    /\ loop = "drain"
    /\ Feed(<<>>)
    /\ UNCHANGED <<sent, input, rest>>

Next == Receive \/ Drain

Spec == Init /\ [][Next]_vars

(***************************************************************************)
(* Properties.                                                            *)
(***************************************************************************)
\* How many of the values sent have arrived to their last byte.
Arrived ==
    LET got == Len(input) - Len(rest)
        whole == {k \in 0..Len(sent) : Len(Stream(sent)[k]) <= got}
    IN  CHOOSE k \in whole : \A j \in whole : j <= k

\* Safety, of feed and serialize together: however the bytes of serialized
\* values are cut into chunks, the parser never throws, gives back the values
\* themselves in order, and whenever it waits for bytes it has given back
\* every value that has arrived whole.
DecodesPromptly ==
    sent # <<>> =>
        /\ loop # "threw"
        /\ loop = "idle" => out = SubSeq(sent, 1, Arrived)
        /\ loop = "drain" => out = SubSeq(sent, 1, Len(out))

\* What the parser makes of b when all of it is there from the start: the
\* values, the offset behind them and the kind of the last result, after k
\* calls of parse, and in the end.
Again(b, prev) ==
    LET r == Parse(b, prev.at)
    IN  IF prev.is # "value" THEN prev
        ELSE IF r.is # "value" THEN [prev EXCEPT !.is = r.is]
        ELSE [out |-> Append(prev.out, r.value), at |-> r.next, is |-> "value"]

Batches(b) ==
    LET upto[k \in 0..Len(b) + 1] ==
            IF k = 0 THEN [out |-> <<>>, at |-> 1, is |-> "value"]
            ELSE Again(b, upto[k - 1])
    IN  upto
Batch(b) == Batches(b)[Len(b) + 1]

\* Safety, of feed's buffer: for any bytes at all, the values and the
\* exception do not depend on where the stream was cut; what the parser saw
\* of a value earlier never changes what it makes of the rest.
ChunkingIrrelevant ==
    /\ loop = "threw" => Batch(input).is = "throw" /\ Batch(input).out = out
    /\ loop = "idle" /\ rest = <<>> => Batch(input).is = "more" /\ Batch(input).out = out

\* Safety, of buffered_size, by which replay finds the end of the last whole
\* entry and handle_data limits a request: between two chunks the buffer is
\* exactly the bytes behind the last value.
BufferExact ==
    sent # <<>> /\ loop = "idle" =>
        Len(buf) = Len(input) - Len(rest) - Len(Stream(sent)[Arrived])

\* What resp_parser.hpp says of feed: it throws on a protocol violation.  The
\* bytes it takes for a value must then end in CRLF, as all of RESP's do.
ViolationsThrow ==
    loop \in {"idle", "drain"} /\ out # <<>> =>
        LET taken == Len(input) - Len(rest) - Len(buf)
        IN  taken > 1 /\ input[taken - 1] = CR /\ input[taken] = LF
=============================================================================
