------------------------------ MODULE Buffers -------------------------------
(***************************************************************************)
(* BufferWriter and BufferReader (src/common/buffer_*.cpp) with the byte   *)
(* orders of byte_order.h: a query is written field by field, completed    *)
(* with its size as execute_query does, and read again by a receiver, to   *)
(* which less of it than was written may arrive.                           *)
(*                                                                         *)
(* A byte has Base values, 256 in the code: a length that does not fit     *)
(* two bytes is then met with short strings.  A text is a sequence of      *)
(* code points; as bytes, those below Base are Latin-1, and those of them  *)
(* below Base \div 2 take one byte of UTF-8, the others two.               *)
(***************************************************************************)
EXTENDS Integers, Sequences

CONSTANTS
    Base,             \* values of a byte
    Question,         \* the code of '?'
    Size,             \* of the writer's buffer
    Capacity,         \* dest_capacity of the strings that are read
    Fields,           \* what may be written: a type and a value each
    MaxFields         \* bounds the fields of a query

VARIABLES
    mode,             \* "write", "read" or, if nothing is sent, "failed"
    buffer,           \* the writer's, then the reader's: a byte, -1 if none was stored
    position,         \* of the writer
    fields,           \* history: what was written
    limit,            \* where what the receiver has ends
    read_at,          \* position of the reader
    values            \* what was read

exchangeVars == <<mode, buffer, position, fields, limit, read_at, values>>

Offsets == 0 .. Size - 1

\* 0xFFFF: the length follows in four bytes
Mark == Base * Base - 1

\* Numbers are little-endian unless their type says otherwise.
Order(type) == IF type \in {"u16_be", "u32_be"} THEN "be" ELSE "le"
Width(type) == IF type \in {"flag", "u8"} THEN 1 ELSE IF type \in {"u16", "u16_be"} THEN 2 ELSE 4

\* The numbers of so many bytes
Numbers(width) ==
    0 .. (IF width = 1 THEN Base ELSE IF width = 2 THEN Base * Base
          ELSE Base * (Base * (Base * Base))) - 1

\* Sizes, in the code, are ints.
ASSUME BuffersAssumption ==
    /\ Base \in Nat /\ Base >= 2 /\ Question \in 0 .. Base - 1 /\ Size \in Numbers(4)
    /\ \A f \in Fields :
         \/ f.type = "string" /\ f.value \in Seq(Nat) /\ Len(f.value) \in Numbers(4)
         \/ /\ f.type \in {"flag", "u8", "u16", "u16_be", "u32", "u32_be"}
            /\ f.value \in Numbers(Width(f.type))

\* Byte i of a number, the lowest first
Byte(n, i) ==
    LET n1 == n \div Base
        n2 == n1 \div Base
        n3 == n2 \div Base
    IN  (IF i = 1 THEN n ELSE IF i = 2 THEN n1 ELSE IF i = 3 THEN n2 ELSE n3) % Base

Encode(n, width, order) ==
    [i \in 1 .. width |-> Byte(n, IF order = "be" THEN width + 1 - i ELSE i)]

\* utf8_to_latin1, and the bytes latin1_to_utf8 needs
ToLatin1(text) == [i \in 1 .. Len(text) |-> IF text[i] < Base THEN text[i] ELSE Question]
Utf8Length(latin1) ==
    Len(latin1) + Len(SelectSeq(latin1, LAMBDA c : c >= Base \div 2))

-----------------------------------------------------------------------------
(* BufferWriter                                                            *)

Store(bytes, from, to) ==
    [i \in Offsets |-> IF i \in to .. to + Len(bytes) - 1 THEN bytes[i - to + 1] ELSE from[i]]

\* can_write decides whether anything is stored; the position moves in any case.
Put(w, bytes) ==
    [ buffer |-> IF w.position + Len(bytes) <= Size
                 THEN Store(bytes, w.buffer, w.position) ELSE w.buffer,
      position |-> w.position + Len(bytes) ]

write_string(w, text) ==
    LET latin1 == ToLatin1(text)
        length == Len(latin1)
    IN  Put(IF length < Mark THEN Put(w, Encode(length, 2, "le"))
            ELSE Put(Put(w, Encode(Mark, 2, "le")), Encode(length, 4, "le")),
            latin1)

\* Mutated form: one byte order for all.
LittleEndianWrite(w, f) ==
    IF f.type = "string" THEN write_string(w, f.value)
    ELSE Put(w, Encode(f.value, Width(f.type), "le"))

Write(w, f) ==
    IF f.type = "string" THEN write_string(w, f.value)
    ELSE Put(w, Encode(f.value, Width(f.type), Order(f.type)))

rewrite_u16(w, offset, n) ==
    IF offset + 2 <= w.position /\ w.position <= Size
    THEN [buffer |-> Store(Encode(n, 2, "le"), w.buffer, offset), position |-> w.position]
    ELSE w

insert_u32(w, offset, n) ==
    LET moved == [i \in Offsets |-> IF i \in offset + 4 .. w.position + 3
                                    THEN w.buffer[i - 4] ELSE w.buffer[i]]
    IN  IF offset > w.position THEN w
        ELSE [ buffer |-> IF w.position + 4 <= Size
                          THEN Store(Encode(n, 4, "le"), moved, offset) ELSE w.buffer,
               position |-> w.position + 4 ]

Writer == [buffer |-> buffer, position |-> position]

\* prepare_query
ExchangeInit ==
    /\ mode = "write"
    /\ LET w == Put([buffer |-> [i \in Offsets |-> -1], position |-> 0], Encode(0, 2, "le"))
       IN  buffer = w.buffer /\ position = w.position
    /\ fields = <<>> /\ limit = 0 /\ read_at = 0 /\ values = <<>>

WriteField(f) ==
    /\ mode = "write" /\ Len(fields) < MaxFields
    /\ LET w == Write(Writer, f) IN buffer' = w.buffer /\ position' = w.position
    /\ fields' = Append(fields, f)
    /\ UNCHANGED <<mode, limit, read_at, values>>

\* The size of a query is written last; a long one is moved to make room for it.
Complete(w) ==
    LET request_size == w.position - 2
    IN  IF request_size < Mark THEN rewrite_u16(w, 0, request_size)
        ELSE insert_u32(rewrite_u16(w, 0, Mark), 2, request_size)

-----------------------------------------------------------------------------
(* BufferReader                                                            *)

can_read(from, n, end) == from + n <= end

ReadNumber(from, n, order, end) ==
    LET b(i) == buffer[IF order = "be" THEN from + n - i ELSE from + i - 1]
    IN  IF ~can_read(from, n, end) THEN 0
        ELSE IF n = 1 THEN b(1) ELSE IF n = 2 THEN b(1) + Base * b(2)
        ELSE b(1) + Base * (b(2) + Base * (b(3) + Base * b(4)))

\* A length, of a string or of a query, and where what it measures begins
ReadLength(from, end) ==
    LET short == ReadNumber(from, 2, "le", end)
    IN  IF short # Mark THEN [length |-> short, start |-> from + 2]
        ELSE [length |-> ReadNumber(from + 2, 4, "le", end), start |-> from + 6]

\* A string that has not arrived or does not fit its destination is empty.
Text(from, length, end) ==
    LET latin1 == [i \in 1 .. length |-> buffer[from + i - 1]]
    IN  IF can_read(from, length, end) /\ Utf8Length(latin1) < Capacity THEN latin1 ELSE <<>>

\* What is read of a field, and where the reader is then
ReadOne(type, from, end) ==
    IF type = "string" THEN
      LET l == ReadLength(from, end)
      IN  [value |-> Text(l.start, l.length, end), at |-> l.start + l.length]
    ELSE [value |-> ReadNumber(from, Width(type), Order(type), end),
          at |-> from + Width(type)]

\* execute_query: an overflowed query fails; of another, the receiver may get less.
Send ==
    /\ mode = "write" /\ fields # <<>>
    /\ LET w == Complete(Writer) IN
         /\ position' = w.position
         /\ \/ /\ w.position > Size /\ mode' = "failed"
               /\ buffer' = w.buffer /\ UNCHANGED <<limit, read_at>>
            \/ /\ w.position <= Size /\ mode' = "read"
               /\ read_at' = IF w.position - 2 < Mark THEN 2 ELSE 6
               /\ limit' \in read_at' .. w.position
               /\ buffer' = [i \in Offsets |-> IF i < limit' THEN w.buffer[i] ELSE -1]
    /\ UNCHANGED <<fields, values>>

ReadField ==
    /\ mode = "read" /\ Len(values) < Len(fields)
    /\ LET r == ReadOne(fields[Len(values) + 1].type, read_at, limit)
       IN  values' = Append(values, r.value) /\ read_at' = r.at
    /\ UNCHANGED <<mode, buffer, position, fields, limit>>

ExchangeNext == (\E f \in Fields : WriteField(f)) \/ Send \/ ReadField

ExchangeSpec == ExchangeInit /\ [][ExchangeNext]_exchangeVars

-----------------------------------------------------------------------------
ExchangeTypeOK ==
    /\ mode \in {"write", "read", "failed"}
    /\ buffer \in [Offsets -> {-1} \cup 0 .. Base - 1]
    /\ position \in Nat /\ read_at \in Nat /\ limit \in 0 .. Size
    /\ fields \in Seq(Fields) /\ Len(values) <= Len(fields)

\* The bytes before a text or a query of this length
Lead(length) == IF length < Mark THEN 2 ELSE 6

\* The bytes a field takes, and what should come of it at its receiver
Taken(f) ==
    IF f.type = "string" THEN Lead(Len(f.value)) + Len(f.value) ELSE Width(f.type)

Arrives(f) ==
    IF f.type # "string" THEN f.value
    ELSE LET latin1 == ToLatin1(f.value) IN IF Utf8Length(latin1) < Capacity THEN latin1 ELSE <<>>

Blank(f) == IF f.type = "string" THEN <<>> ELSE 0

\* The bytes the first n of some fields take, for each n
Ends(fs) ==
    LET end[n \in 0 .. Len(fs)] == IF n = 0 THEN 0 ELSE end[n - 1] + Taken(fs[n]) IN end

Total(fs) == Ends(fs)[Len(fs)]

Done == mode = "read" /\ Len(values) = Len(fields)

\* A query of which all arrives is read as it was written, up to its last byte and
\* with its size known, also if its size was inserted afterwards and also if a
\* string in its middle does not fit its destination.
RoundTrip ==
    Done /\ limit = position =>
      /\ values = [i \in 1 .. Len(fields) |-> Arrives(fields[i])]
      /\ read_at = limit
      /\ ReadLength(0, limit).length = Total(fields)

\* A reader to which less arrives makes nothing up: a field is what was sent or
\* blank; and overflowed tells, at the end, whether anything was missing.
NothingMadeUp ==
    mode = "read" =>
      /\ \A i \in 1 .. Len(values) : values[i] \in {Arrives(fields[i]), Blank(fields[i])}
      /\ Done => (read_at > limit <=> limit < position)

\* A query fails exactly if it is too long for its buffer: an overflow is never
\* forgotten, whatever is written after it, and nothing else looks like one.
FailsIfTooLong ==
    mode # "write" => (mode = "failed" <=> Total(fields) + Lead(Total(fields)) > Size)

\* A query that arrives is read as BufferWriter was given it, with its size, which is
\* inserted afterwards; one of which the end is missing gives blanks, never other
\* values, and BufferReader::overflowed tells; one too long is never sent.  (Wire
\* has behaviours without a query, whose mode is "none".)
QueriesArrive ==
    mode # "none" => ExchangeTypeOK /\ RoundTrip /\ NothingMadeUp /\ FailsIfTooLong

=============================================================================
