-------------------------------- MODULE Utf8 --------------------------------
(***************************************************************************)
(* The conversions between Latin-1 and UTF-8 (src/common/utf8.cpp), byte   *)
(* for byte and with the limits of their destinations.  A run converts a   *)
(* Latin-1 string to UTF-8 and, if it fits, back; or converts any bytes,   *)
(* well-formed or not, to Latin-1.                                         *)
(***************************************************************************)
EXTENDS Integers, Sequences

CONSTANTS
    Latin1Strings,    \* inputs of latin1_to_utf8
    ByteStrings,      \* inputs of utf8_to_latin1
    Texts,            \* code points, whose UTF-8 form is such an input too
    Capacities        \* of the destinations

VARIABLES
    loop,             \* the loop that runs: "to_utf8", "to_latin1" or "done"
    kind, origin,     \* what the run began with
    src, read_pos,
    dest,             \* per offset: a byte, -1 if none was stored
    write_pos,
    dest_capacity

conversionVars == <<loop, kind, origin, src, read_pos, dest, write_pos, dest_capacity>>

QuestionMark == 63

utf8_sequence_size(b) ==
    IF b < 128 THEN 1 ELSE IF b < 192 THEN 0 ELSE IF b < 224 THEN 2
    ELSE IF b < 240 THEN 3 ELSE IF b < 248 THEN 4 ELSE 0

utf8_is_trailing_byte(b) == b \in 128 .. 191

MaxCodePoint == 1114111

utf8_encoded_size(cp) ==
    IF cp < 0 \/ cp > MaxCodePoint THEN 0 ELSE IF cp <= 127 THEN 1 ELSE IF cp <= 2047 THEN 2
    ELSE IF cp <= 65535 THEN 3 ELSE 4

utf8_encode_one(cp) ==
    LET n == utf8_encoded_size(cp)
        Trailing(q) == 128 + (q % 64)
    IN  IF n = 0 THEN <<>>
        ELSE IF n = 1 THEN <<cp>>
        ELSE IF n = 2 THEN <<192 + (cp \div 64), Trailing(cp)>>
        ELSE IF n = 3 THEN <<224 + (cp \div 4096), Trailing(cp \div 64), Trailing(cp)>>
        ELSE <<240 + (cp \div 262144), Trailing(cp \div 4096), Trailing(cp \div 64), Trailing(cp)>>

\* The size of the sequence at the start of s, 0 if there is none, and its code point
utf8_decode_one(s) ==
    LET n == utf8_sequence_size(s[1])
        valid == n > 0 /\ n <= Len(s) /\ \A k \in 2 .. n : utf8_is_trailing_byte(s[k])
        Low(k) == s[k] % 64
    IN  [ size |-> IF valid THEN n ELSE 0,
          codepoint |-> IF ~valid THEN -1
                        ELSE IF n = 1 THEN s[1]
                        ELSE IF n = 2 THEN 64 * (s[1] - 192) + Low(2)
                        ELSE IF n = 3 THEN 4096 * (s[1] - 224) + 64 * Low(2) + Low(3)
                        ELSE 262144 * (s[1] - 240) + 4096 * Low(2) + 64 * Low(3) + Low(4) ]

\* Mutated form: a byte that follows is taken for granted.
find_by_size(s) ==
    LET n == utf8_sequence_size(s[1]) IN IF n \in 1 .. Len(s) THEN n ELSE 1

utf8_find_next_leading_byte(s) ==
    CHOOSE n \in 1 .. Len(s) :
      /\ \A i \in 2 .. n : utf8_is_trailing_byte(s[i])
      /\ n = Len(s) \/ ~utf8_is_trailing_byte(s[n + 1])

\* The bytes of the first n characters of a text, for each n
Encodings(text) ==
    LET bytes[n \in 0 .. Len(text)] ==
          IF n = 0 THEN <<>> ELSE bytes[n - 1] \o utf8_encode_one(text[n])
    IN  bytes

CodePoints == {cp \in Nat : cp <= MaxCodePoint}

ASSUME Utf8Assumption ==
    /\ Latin1Strings \subseteq Seq(0 .. 255) /\ ByteStrings \subseteq Seq(0 .. 255)
    /\ Texts \subseteq Seq(CodePoints) /\ Capacities \subseteq Nat

-----------------------------------------------------------------------------
Fresh(capacity) == [i \in 0 .. capacity - 1 |-> -1]

Begin(first, what, from, bytes) ==
    /\ loop = first /\ kind = what /\ origin = from /\ src = bytes
    /\ read_pos = 0 /\ write_pos = 0
    /\ dest_capacity \in Capacities /\ dest = Fresh(dest_capacity)

ConversionInit ==
    \/ \E s \in Latin1Strings : Begin("to_utf8", "latin1", s, s)
    \/ \E s \in ByteStrings : Begin("to_latin1", "bytes", s, s)
    \/ \E t \in Texts : Begin("to_latin1", "text", t, Encodings(t)[Len(t)])

\* The bytes stored from "at" on; ones past the end of the destination would be cells
\* that it does not have.
Placed(bytes, at, to) ==
    [i \in DOMAIN to \cup (at .. at + Len(bytes) - 1) |->
       IF i \in at .. at + Len(bytes) - 1 THEN bytes[i - at + 1] ELSE to[i]]

Fits(bytes) == Len(bytes) <= dest_capacity - write_pos

\* One turn of the loop of latin1_to_utf8.  A character that does not fit is
\* counted all the same.
EncodeNext ==
    /\ loop = "to_utf8" /\ read_pos < Len(src)
    /\ LET bytes == utf8_encode_one(src[read_pos + 1]) IN
         /\ dest' = IF Fits(bytes) THEN Placed(bytes, write_pos, dest) ELSE dest
         /\ write_pos' = write_pos + Len(bytes)
    /\ read_pos' = read_pos + 1
    /\ UNCHANGED <<loop, kind, origin, src, dest_capacity>>

\* Its caller keeps what fits, and here converts it back.
TurnRound ==
    /\ loop = "to_utf8" /\ read_pos = Len(src)
    /\ \/ /\ write_pos <= dest_capacity
          /\ loop' = "to_latin1" /\ src' = [i \in 1 .. write_pos |-> dest[i - 1]]
          /\ read_pos' = 0 /\ write_pos' = 0
          /\ dest' = Fresh(dest_capacity)
          /\ UNCHANGED <<kind, origin, dest_capacity>>
       \/ /\ write_pos > dest_capacity /\ loop' = "done"
          /\ UNCHANGED <<kind, origin, src, read_pos, dest, write_pos, dest_capacity>>

ConvertOne ==
    LET rest == SubSeq(src, read_pos + 1, Len(src))
        one == utf8_decode_one(rest)
        byte == IF one.codepoint \in 0 .. 255 THEN one.codepoint ELSE QuestionMark
    IN  /\ read_pos' = read_pos + (IF one.size > 0 THEN one.size
                                   ELSE utf8_find_next_leading_byte(rest))
        /\ dest' = IF Fits(<<byte>>) THEN Placed(<<byte>>, write_pos, dest) ELSE dest
        /\ write_pos' = write_pos + 1
        /\ UNCHANGED <<loop, kind, origin, src, dest_capacity>>

\* Mutated form: a byte that starts no sequence is not passed over.
DecodeLeading ==
    /\ loop = "to_latin1" /\ read_pos < Len(src)
    /\ utf8_sequence_size(src[read_pos + 1]) > 0 /\ ConvertOne

\* One turn of the loop of utf8_to_latin1
DecodeNext ==
    /\ loop = "to_latin1" /\ read_pos < Len(src) /\ ConvertOne

ConversionReturn ==
    /\ loop = "to_latin1" /\ read_pos >= Len(src) /\ loop' = "done"
    /\ UNCHANGED <<kind, origin, src, read_pos, dest, write_pos, dest_capacity>>

ConversionNext == EncodeNext \/ TurnRound \/ DecodeNext \/ ConversionReturn

\* A conversion is a function that is not left before it returns.
ConversionSpec == ConversionInit /\ [][ConversionNext]_conversionVars /\ WF_conversionVars(ConversionNext)

-----------------------------------------------------------------------------
\* the destination, as far as it was written
Result == [i \in 1 .. (IF write_pos < dest_capacity THEN write_pos ELSE dest_capacity) |-> dest[i - 1]]

ConversionTypeOK ==
    /\ loop \in {"to_utf8", "to_latin1", "done"}
    /\ \A i \in 1 .. Len(src) : src[i] \in 0 .. 255
    /\ read_pos \in 0 .. Len(src) /\ write_pos \in Nat
    /\ dest \in [0 .. dest_capacity - 1 -> -1 .. 255]

\* What latin1_to_utf8 stores are whole characters, the first of the string: one
\* that does not fit is left out together with all after it, also if these would fit.
WholeCharacters ==
    loop = "to_utf8" =>
      \E k \in 0 .. read_pos :
        LET encoded == Encodings(src)[k]
        IN  dest = Placed(encoded, 0, Fresh(dest_capacity)) /\ Len(encoded) <= dest_capacity

\* What fits comes back as it was: BufferWriter writes what BufferReader read.
Latin1RoundTrip ==
    loop = "done" /\ kind = "latin1" /\ write_pos <= dest_capacity =>
      Result = origin /\ write_pos = Len(origin)

\* Of a well-formed text every code point becomes one byte, itself if it is
\* Latin-1, and a short destination gets the first of them.  The number returned
\* is that of the code points whatever the capacity: write_string asserts that its
\* dry run and its conversion agree.
TextConverted ==
    loop = "done" /\ kind = "text" =>
      LET bytes == [i \in 1 .. Len(origin) |-> IF origin[i] < 256 THEN origin[i] ELSE QuestionMark]
      IN  write_pos = Len(origin) /\ Result = SubSeq(bytes, 1, Len(Result))

\* The ASCII characters among the first n bytes, for each n; a question mark may
\* stand for anything.
Ascii(s) ==
    LET kept[n \in 0 .. Len(s)] ==
          IF n = 0 THEN <<>>
          ELSE IF s[n] < 128 /\ s[n] # QuestionMark THEN Append(kept[n - 1], s[n])
          ELSE kept[n - 1]
    IN  kept

\* Nothing of one byte is written in more, which the code does not look for.
NoOverlongForms(s) ==
    \A n \in 1 .. Len(s) :
      LET one == utf8_decode_one(SubSeq(s, n, Len(s))) IN one.size > 1 => one.codepoint > 127

\* A broken sequence takes no character after it along: the ASCII characters of any
\* bytes come out, all and in their order (NoOverlongForms: the code takes
\* these for the characters they encode).
AsciiSurvives ==
    loop = "done" /\ kind = "bytes" /\ write_pos <= dest_capacity /\ NoOverlongForms(origin) =>
      Ascii(Result)[Len(Result)] = Ascii(origin)[Len(origin)]

\* latin1_to_utf8 and back gives the text again; utf8_to_latin1 gives each character of
\* a text or a question mark, and of bytes that are no text it keeps the ASCII; neither
\* stores a character in part or writes past its destination.  (Wire has behaviours
\* without a conversion, whose loop is "none".)
TextSurvives ==
    loop # "none" => /\ ConversionTypeOK /\ WholeCharacters /\ Latin1RoundTrip
                     /\ TextConverted /\ AsciiSurvives

=============================================================================
