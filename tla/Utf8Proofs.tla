----------------------------- MODULE Utf8Proofs -----------------------------
(***************************************************************************)
(* Proofs about Utf8, for any strings, texts and bytes and any capacity.   *)
(***************************************************************************)
EXTENDS Utf8, DataInduction

-----------------------------------------------------------------------------
(* The inductive invariant                                                 *)

\* The bytes, and the cells of a destination: -1 if nothing was stored
Octets == 0 .. 255

Stored == -1 .. 255

Cells(capacity) == [0 .. capacity - 1 -> Stored]

\* What becomes of a character, and of all of a text
AsLatin1(cp) == IF cp < 256 THEN cp ELSE QuestionMark

Encoding(text) == Encodings(text)[Len(text)]

\* The types of the variables
ConversionTypes ==
    /\ loop \in {"to_utf8", "to_latin1", "done"} /\ kind \in {"latin1", "bytes", "text"}
    /\ src \in Seq(Octets) /\ origin \in Seq(CodePoints)
    /\ kind # "text" => origin \in Seq(Octets)
    /\ dest_capacity \in Nat /\ write_pos \in Nat /\ read_pos \in 0 .. Len(src)
    /\ dest \in Cells(dest_capacity)

\* The destination has the first k characters, and they fit.
WholeIn(k, s, d, capacity) ==
    d = Placed(Encodings(s)[k], 0, Fresh(capacity)) /\ Len(Encodings(s)[k]) <= capacity

\* Of the string, the destination has all characters up to one that did not fit.
EncodeInv ==
    loop = "to_utf8" =>
      /\ kind = "latin1" /\ src = origin /\ write_pos = Len(Encodings(src)[read_pos])
      /\ \E k \in 0 .. read_pos :
           /\ WholeIn(k, src, dest, dest_capacity)
           /\ k = read_pos \/ write_pos > dest_capacity

\* A text is read in whole characters, and those that fit are stored.
DecodedSoFar ==
    /\ src = Encoding(origin)
    /\ write_pos \in 0 .. Len(origin) /\ read_pos = Len(Encodings(origin)[write_pos])
    /\ \A k \in 0 .. dest_capacity - 1 : k < write_pos => dest[k] = AsLatin1(origin[k + 1])

\* Both ways, a text that was not cut off is read and stored to its end.
DecodeInv ==
    /\ loop = "to_latin1" /\ kind # "bytes" => DecodedSoFar
    /\ loop = "done" /\ kind # "bytes" =>
         \/ DecodedSoFar /\ write_pos = Len(origin)
         \/ kind = "latin1" /\ write_pos > dest_capacity

\* What was written of bytes that are no text
Written == [n \in 1 .. write_pos |-> dest[n - 1]]

\* The ASCII of what was read was written.
BytesInv ==
    kind = "bytes" =>
      /\ origin = src
      /\ write_pos <= dest_capacity /\ NoOverlongForms(src)
           => Ascii(Written)[write_pos] = Ascii(src)[read_pos]
      /\ loop = "done" => read_pos = Len(src)

\* The inductive invariant of a conversion
ConversionIInv == ConversionTypes /\ EncodeInv /\ DecodeInv /\ BytesInv

-----------------------------------------------------------------------------
(* Characters and their bytes                                              *)

\* The code points that n bytes can encode
Coded(n) ==
    {cp \in Nat : cp <= IF n = 1 THEN 127 ELSE IF n = 2 THEN 2047 ELSE IF n = 3 THEN 65535
      ELSE MaxCodePoint}

\* A code point can be encoded in as many bytes as utf8_encoded_size says.
LEMMA EncodedSize ==
  ASSUME NEW cp \in CodePoints
  PROVE  cp \in Nat /\ utf8_encoded_size(cp) \in 1 .. 4 /\ cp \in Coded(utf8_encoded_size(cp))
<1>1. cp \in Nat /\ cp <= 1114111
  BY SMT DEF CodePoints, MaxCodePoint
<1>2. CASE cp <= 127
  BY <1>1, <1>2, SMT DEF utf8_encoded_size, Coded, MaxCodePoint
<1>3. CASE cp > 127 /\ cp <= 2047
  BY <1>1, <1>3, SMT DEF utf8_encoded_size, Coded, MaxCodePoint
<1>4. CASE cp > 2047 /\ cp <= 65535
  BY <1>1, <1>4, SMT DEF utf8_encoded_size, Coded, MaxCodePoint
<1>5. CASE cp > 65535
  BY <1>1, <1>5, SMT DEF utf8_encoded_size, Coded, MaxCodePoint
<1> QED
  BY <1>1, <1>2, <1>3, <1>4, <1>5, SMT

\* utf8_sequence_size, case by case
LEMMA SequenceSize ==
  ASSUME NEW b \in Octets
  PROVE  LET n == utf8_sequence_size(b)
         IN  /\ b < 128 => n = 1
             /\ b \in 128 .. 191 => n = 0
             /\ b \in 192 .. 223 => n = 2
             /\ b \in 224 .. 239 => n = 3
             /\ b \in 240 .. 247 => n = 4
             /\ b >= 248 => n = 0
<1> DEFINE n == utf8_sequence_size(b)
<1>1. n = IF b < 128 THEN 1 ELSE IF b < 192 THEN 0 ELSE IF b < 224 THEN 2
          ELSE IF b < 240 THEN 3 ELSE IF b < 248 THEN 4 ELSE 0
  BY Zenon DEF utf8_sequence_size
<1>2. b \in Int
  BY SMT DEF Octets
<1> HIDE DEF n
<1> QED
  BY <1>1, <1>2, SMT DEF n

\* A shift by twelve or eighteen bits is two or three by six.
LEMMA Quotients ==
  ASSUME NEW n \in Nat
  PROVE  /\ n % 64 \in 0 .. 63 /\ n = 64 * (n \div 64) + (n % 64) /\ n \div 64 \in Nat
         /\ n \div 4096 = (n \div 64) \div 64
         /\ n \div 262144 = ((n \div 64) \div 64) \div 64
BY SMT

\* utf8_encode_one, case by case
LEMMA EncodeOne ==
  ASSUME NEW cp \in CodePoints
  PROVE  LET e == utf8_encode_one(cp)
             n == utf8_encoded_size(cp)
         IN  /\ e \in Seq(Octets) /\ Len(e) = n /\ n \in 1 .. 4
             /\ utf8_sequence_size(e[1]) = n
             /\ \A k \in 2 .. n : utf8_is_trailing_byte(e[k])
<1> DEFINE e == utf8_encode_one(cp)
           n == utf8_encoded_size(cp)
           q1 == cp \div 64
           q2 == cp \div 4096
           q3 == cp \div 262144
           T(q) == 128 + (q % 64)
<1>1. n \in 1 .. 4 /\ cp \in Nat
  BY EncodedSize, Zenon
<1>2. /\ q1 \in Nat /\ q2 \in Nat /\ q3 \in Nat
      /\ \A q \in Nat : T(q) \in 128 .. 191
  BY <1>1, SMT
<1>3. CASE n = 1
  <2>1. e = <<cp>>
    BY <1>1, <1>3, SMT DEF utf8_encode_one
  <2>2. cp \in 0 .. 127
    <3>1. cp \in Coded(1)
      BY <1>3, EncodedSize, Zenon
    <3> QED
      BY <1>1, <3>1, SMT DEF Coded, MaxCodePoint
  <2> HIDE DEF e, n
  <2>3. e \in Seq(Octets) /\ Len(e) = 1 /\ e[1] = cp
    BY <2>1, <2>2, SMT DEF Octets
  <2>4. utf8_sequence_size(e[1]) = 1
    <3>1. cp \in Octets /\ cp < 128
      BY <2>2, SMT DEF Octets
    <3> QED
      BY <2>3, <3>1, SequenceSize, Zenon
  <2>5. \A k \in 2 .. n : FALSE
    BY <1>3, SMT
  <2> QED
    BY <1>1, <1>3, <2>3, <2>4, <2>5, Zenon DEF e, n
<1>4. CASE n = 2
  <2>1. e = <<192 + q1, T(cp)>>
    BY <1>1, <1>4, SMT DEF utf8_encode_one
  <2>2. 192 + q1 \in 192 .. 223 /\ T(cp) \in 128 .. 191
    <3>1. cp \in Coded(2)
      BY <1>4, EncodedSize, Zenon
    <3> QED
      BY <1>1, <3>1, SMT DEF Coded, MaxCodePoint
  <2> HIDE DEF e, n, q1, T
  <2>3. e \in Seq(Octets) /\ Len(e) = 2 /\ e[1] = 192 + q1 /\ e[2] = T(cp)
    BY <2>1, <2>2, SMT DEF Octets
  <2>4. utf8_sequence_size(e[1]) = 2 /\ utf8_is_trailing_byte(e[2])
    <3>1. e[1] \in Octets
      BY <2>2, <2>3, SMT DEF Octets
    <3> QED
      BY <2>2, <2>3, <3>1, SequenceSize, SMT DEF utf8_is_trailing_byte
  <2>5. \A k \in 2 .. n : k = 2
    BY <1>4, SMT
  <2> QED
    BY <1>1, <1>4, <2>3, <2>4, <2>5, Zenon DEF e, n
<1>5. CASE n = 3
  <2>1. e = <<224 + q2, T(q1), T(cp)>>
    BY <1>1, <1>5, SMT DEF utf8_encode_one
  <2>2. 224 + q2 \in 224 .. 239 /\ T(q1) \in 128 .. 191 /\ T(cp) \in 128 .. 191
    <3>1. cp \in Coded(3)
      BY <1>5, EncodedSize, Zenon
    <3> QED
      BY <1>1, <3>1, SMT DEF Coded, MaxCodePoint
  <2> HIDE DEF e, n, q1, q2, T
  <2>3. e \in Seq(Octets) /\ Len(e) = 3 /\ e[1] = 224 + q2 /\ e[2] = T(q1) /\ e[3] = T(cp)
    BY <2>1, <2>2, SMT DEF Octets
  <2>4. utf8_sequence_size(e[1]) = 3 /\ utf8_is_trailing_byte(e[2]) /\ utf8_is_trailing_byte(e[3])
    <3>1. e[1] \in Octets
      BY <2>2, <2>3, SMT DEF Octets
    <3> QED
      BY <2>2, <2>3, <3>1, SequenceSize, SMT DEF utf8_is_trailing_byte
  <2>5. \A k \in 2 .. n : k = 2 \/ k = 3
    BY <1>5, SMT
  <2> QED
    BY <1>1, <1>5, <2>3, <2>4, <2>5, Zenon DEF e, n
<1>6. CASE n = 4
  <2>1. e = <<240 + q3, T(q2), T(q1), T(cp)>>
    BY <1>1, <1>6, SMT DEF utf8_encode_one
  <2>2. 240 + q3 \in 240 .. 247 /\ T(q2) \in 128 .. 191 /\ T(q1) \in 128 .. 191
        /\ T(cp) \in 128 .. 191
    <3>1. cp \in Coded(4)
      BY <1>6, EncodedSize, Zenon
    <3> QED
      BY <1>1, <3>1, SMT DEF Coded, MaxCodePoint
  <2> HIDE DEF e, n, q1, q2, q3, T
  <2>3. e \in Seq(Octets) /\ Len(e) = 4 /\ e[1] = 240 + q3 /\ e[2] = T(q2) /\ e[3] = T(q1)
        /\ e[4] = T(cp)
    BY <2>1, <2>2, SMT DEF Octets
  <2>4. /\ utf8_sequence_size(e[1]) = 4 /\ utf8_is_trailing_byte(e[2])
        /\ utf8_is_trailing_byte(e[3]) /\ utf8_is_trailing_byte(e[4])
    <3>1. e[1] \in Octets
      BY <2>2, <2>3, SMT DEF Octets
    <3> QED
      BY <2>2, <2>3, <3>1, SequenceSize, SMT DEF utf8_is_trailing_byte
  <2>5. \A k \in 2 .. n : k = 2 \/ k = 3 \/ k = 4
    BY <1>6, SMT
  <2> QED
    BY <1>1, <1>6, <2>3, <2>4, <2>5, Zenon DEF e, n
<1> QED
  BY <1>1, <1>3, <1>4, <1>5, <1>6, SMT


\* The six bits of a trailing byte
LEMMA LowBits == ASSUME NEW q \in Nat PROVE (128 + (q % 64)) % 64 = q % 64
BY SMT

\* utf8_decode_one gives back what utf8_encode_one encoded.
LEMMA DecodeEncoded ==
  ASSUME NEW cp \in CodePoints, NEW s \in Seq(Octets), utf8_encoded_size(cp) <= Len(s),
         \A k \in 1 .. utf8_encoded_size(cp) : s[k] = utf8_encode_one(cp)[k]
  PROVE  /\ utf8_decode_one(s).size = utf8_encoded_size(cp)
         /\ utf8_decode_one(s).codepoint = cp
<1> DEFINE e == utf8_encode_one(cp)
           n == utf8_encoded_size(cp)
           q1 == cp \div 64
           q2 == cp \div 4096
           q3 == cp \div 262144
           valid == n > 0 /\ n <= Len(s) /\ \A k \in 2 .. n : utf8_is_trailing_byte(s[k])
<1>1. n \in 1 .. 4 /\ cp \in Nat
  BY EncodedSize, Zenon
<1>2. utf8_sequence_size(e[1]) = n /\ \A k \in 2 .. n : utf8_is_trailing_byte(e[k])
  BY EncodeOne, Zenon
<1>3. 1 \in 1 .. n /\ n > 0 /\ \A k \in 2 .. n : k \in 1 .. n
  <2> HIDE DEF n
  <2> QED
    BY <1>1, SMT
<1>4. utf8_sequence_size(s[1]) = n /\ valid
  <2> HIDE DEF n, e
  <2>1. s[1] = e[1] /\ \A k \in 2 .. n : s[k] = e[k]
    BY <1>3, Zenon DEF e, n
  <2> QED
    BY <1>2, <1>3, <2>1, Zenon DEF n
<1>5. /\ q1 \in Nat /\ q2 \in Nat /\ q3 \in Nat
      /\ cp = 64 * q1 + (cp % 64) /\ q1 = 64 * q2 + (q1 % 64) /\ q2 = 64 * q3 + (q2 % 64)
  BY <1>1, SMT
<1>9. /\ (128 + (cp % 64)) % 64 = cp % 64
      /\ (128 + (q1 % 64)) % 64 = q1 % 64
      /\ (128 + (q2 % 64)) % 64 = q2 % 64
  <2> HIDE DEF q1, q2, q3
  <2> QED
    BY <1>1, <1>5, LowBits, SMT
<1> DEFINE d == utf8_decode_one(s)
<1>8. d.size = n
  BY <1>4, SMT DEF utf8_decode_one
<1>6. d.codepoint = IF n = 1 THEN s[1]
                       ELSE IF n = 2 THEN 64 * (s[1] - 192) + (s[2] % 64)
                       ELSE IF n = 3 THEN 4096 * (s[1] - 224) + 64 * (s[2] % 64) + (s[3] % 64)
                       ELSE 262144 * (s[1] - 240) + 4096 * (s[2] % 64) + 64 * (s[3] % 64) + (s[4] % 64)
  BY <1>4, SMT DEF utf8_decode_one
<1>7. d.codepoint = cp
  <2>1. CASE n = 1
    <3>1. e = <<cp>> /\ s[1] = e[1]
      BY <1>1, <1>3, <2>1, SMT DEF utf8_encode_one
    <3> QED
      BY <1>6, <2>1, <3>1, SMT
  <2>2. CASE n = 2
    <3>1. e = <<192 + q1, 128 + (cp % 64)>>
      BY <1>1, <2>2, SMT DEF utf8_encode_one
    <3>2. s[1] = e[1] /\ s[2] = e[2]
      BY <2>2, SMT
    <3> HIDE DEF e, n
    <3>3. s[1] = 192 + q1 /\ s[2] = 128 + (cp % 64)
      BY <3>1, <3>2, SMT
    <3>4. d.codepoint = 64 * (s[1] - 192) + (s[2] % 64)
      BY <1>6, <2>2, SMT
    <3>5. s[2] % 64 = cp % 64
      BY <1>9, <3>3, SMT
    <3> HIDE DEF q1, d
    <3> QED
      BY <1>1, <1>5, <3>3, <3>4, <3>5, SMT
  <2>3. CASE n = 3
    <3>1. e = <<224 + q2, 128 + (q1 % 64), 128 + (cp % 64)>>
      BY <1>1, <2>3, SMT DEF utf8_encode_one
    <3>2. s[1] = e[1] /\ s[2] = e[2] /\ s[3] = e[3]
      BY <2>3, SMT
    <3> HIDE DEF e, n
    <3>3. s[1] = 224 + q2 /\ s[2] = 128 + (q1 % 64) /\ s[3] = 128 + (cp % 64)
      BY <3>1, <3>2, SMT
    <3>4. d.codepoint = 4096 * (s[1] - 224) + 64 * (s[2] % 64) + (s[3] % 64)
      BY <1>6, <2>3, SMT
    <3> HIDE DEF q1, q2, d
    <3>5. s[2] % 64 = q1 % 64 /\ s[3] % 64 = cp % 64
      BY <1>9, <3>3, SMT
    <3> QED
      BY <1>1, <1>5, <3>3, <3>4, <3>5, SMT
  <2>4. CASE n = 4
    <3>1. e = <<240 + q3, 128 + (q2 % 64), 128 + (q1 % 64), 128 + (cp % 64)>>
      BY <1>1, <2>4, SMT DEF utf8_encode_one
    <3>2. s[1] = e[1] /\ s[2] = e[2] /\ s[3] = e[3] /\ s[4] = e[4]
      BY <2>4, SMT
    <3> HIDE DEF e, n
    <3>3. s[1] = 240 + q3 /\ s[2] = 128 + (q2 % 64) /\ s[3] = 128 + (q1 % 64)
          /\ s[4] = 128 + (cp % 64)
      BY <3>1, <3>2, SMT
    <3>4. d.codepoint = 262144 * (s[1] - 240) + 4096 * (s[2] % 64) + 64 * (s[3] % 64) + (s[4] % 64)
      BY <1>6, <2>4, SMT
    <3> HIDE DEF q1, q2, q3, d
    <3>5. s[2] % 64 = q2 % 64 /\ s[3] % 64 = q1 % 64 /\ s[4] % 64 = cp % 64
      BY <1>9, <3>3, SMT
    <3> QED
      BY <1>1, <1>5, <3>3, <3>4, <3>5, SMT
  <2> HIDE DEF n, d
  <2> QED
    BY <1>1, <2>1, <2>2, <2>3, <2>4, SMT
<1> QED
  BY <1>7, <1>8, Zenon

-----------------------------------------------------------------------------
(* Texts and their bytes                                                   *)

\* Encodings, as its definition says
LEMMA EncodingsFacts ==
  ASSUME NEW t \in Seq(CodePoints)
  PROVE  /\ Len(t) \in Nat /\ Encodings(t) \in [0 .. Len(t) -> Seq(Octets)]
            /\ Encodings(t)[0] = <<>>
         /\ \A n \in 1 .. Len(t) : Encodings(t)[n] = Encodings(t)[n - 1] \o utf8_encode_one(t[n])
<1> DEFINE N == Len(t)
           step == [n \in 1 .. N |-> [s \in Seq(Octets) |-> s \o utf8_encode_one(t[n])]]
           D(g) == g = [n \in 0 .. N |-> IF n = 0 THEN <<>> ELSE g[n - 1] \o utf8_encode_one(t[n])]
           e == Encodings(t)
<1>1. N \in Nat /\ <<>> \in Seq(Octets) /\ \A n \in 1 .. N : utf8_encode_one(t[n]) \in Seq(Octets)
  BY LenProperties, EmptySeq, ElementOfSeq, EncodeOne, Zenon
<1>2. \A a, b \in Seq(Octets) : a \o b \in Seq(Octets)
  BY ConcatProperties, Zenon
<1>3. step \in [1 .. N -> [Seq(Octets) -> Seq(Octets)]]
  BY <1>1, <1>2, Zenon
<1>4. PICK f : Iterated(f, N, Seq(Octets), <<>>, step)
  <2> HIDE DEF step, N
  <2> QED
    BY <1>1, <1>3, Iteration, Zenon
<1>5. ASSUME NEW n \in 0 .. N, n # 0 PROVE n \in 1 .. N /\ n - 1 \in 0 .. N
  BY <1>1, <1>5, SMT
<1>6. D(f)
  <2>1. f \in [0 .. N -> Seq(Octets)] /\ f[0] = <<>> /\ \A n \in 1 .. N : f[n] = step[n][f[n - 1]]
    BY <1>4, Zenon DEF Iterated
  <2>2. ASSUME NEW n \in 0 .. N PROVE f[n] = IF n = 0 THEN <<>>
                 ELSE f[n - 1] \o utf8_encode_one(t[n])
    BY <1>5, <2>1, Zenon
  <2> QED
    BY <2>1, <2>2, Zenon
<1>7. D(e)
  BY <1>6, Zenon DEF Encodings
<1> HIDE DEF e
<1>8. 0 \in 0 .. N /\ \A n \in 1 .. N : n \in 0 .. N /\ n # 0
  BY <1>1, SMT
<1>9. e[0] = <<>> /\ \A n \in 1 .. N : e[n] = e[n - 1] \o utf8_encode_one(t[n])
  BY <1>7, <1>8, Zenon
<1> DEFINE Typed == { n \in 0 .. N : e[n] \in Seq(Octets) }
<1>10. \A n \in 0 .. N : n \in Typed
  <2>1. 0 \in Typed
    BY <1>1, <1>8, <1>9, Zenon
  <2>2. ASSUME NEW n \in 1 .. N, n - 1 \in Typed PROVE n \in Typed
    BY <1>1, <1>2, <1>8, <1>9, <2>2, Zenon
  <2> HIDE DEF Typed, N
  <2> QED
    BY <1>1, <2>1, <2>2, UpTo, Zenon
<1>11. e \in [0 .. N -> Seq(Octets)]
  <2>1. e = [n \in 0 .. N |-> IF n = 0 THEN <<>> ELSE e[n - 1] \o utf8_encode_one(t[n])]
    BY <1>7, Zenon
  <2> QED
    BY <1>10, <2>1, Zenon
<1> QED
  BY <1>1, <1>9, <1>11, Zenon DEF e

\* One character more
LEMMA EncodingsStep ==
  ASSUME NEW t \in Seq(CodePoints), NEW n \in 1 .. Len(t)
  PROVE  LET e == Encodings(t)
             c == utf8_encode_one(t[n])
         IN  /\ e[n] \in Seq(Octets) /\ e[n - 1] \in Seq(Octets) /\ t[n] \in CodePoints
             /\ c \in Seq(Octets) /\ Len(c) \in 1 .. 4 /\ Len(e[n - 1]) \in Nat
             /\ Len(e[n]) = Len(e[n - 1]) + Len(c)
             /\ \A j \in 1 .. Len(e[n - 1]) : e[n][j] = e[n - 1][j]
             /\ \A j \in 1 .. Len(c) : e[n][Len(e[n - 1]) + j] = c[j]
<1> DEFINE e == Encodings(t)
           c == utf8_encode_one(t[n])
           p == e[n - 1]
<1>1. n \in 0 .. Len(t) /\ n - 1 \in 0 .. Len(t)
  BY LenProperties, SMT
<1>2. e[n] \in Seq(Octets) /\ p \in Seq(Octets) /\ e[n] = p \o c
  BY <1>1, EncodingsFacts, Zenon
<1>3. t[n] \in CodePoints
  BY ElementOfSeq, Zenon
<1>4. c \in Seq(Octets) /\ Len(c) \in 1 .. 4
  BY <1>3, EncodeOne, Zenon
<1> HIDE DEF e, c, p
<1>5. Len(p) \in Nat /\ Len(c) \in Nat
  BY <1>2, <1>4, LenProperties, Zenon
<1>6. /\ Len(p \o c) = Len(p) + Len(c)
      /\ \A j \in 1 .. Len(p) + Len(c) : (p \o c)[j] = IF j <= Len(p) THEN p[j] ELSE c[j - Len(p)]
  BY <1>2, <1>4, ConcatProperties, Zenon
<1>7. \A j \in 1 .. Len(p) : e[n][j] = p[j]
  <2>1. \A j \in 1 .. Len(p) : j \in 1 .. Len(p) + Len(c) /\ j <= Len(p)
    BY <1>5, SMT
  <2> QED
    BY <1>2, <1>6, <2>1, Zenon
<1>8. ASSUME NEW j \in 1 .. Len(c) PROVE e[n][Len(p) + j] = c[j]
  <2>1. Len(p) + j \in 1 .. Len(p) + Len(c) /\ ~(Len(p) + j <= Len(p)) /\ (Len(p) + j) - Len(p) = j
    BY <1>5, SMT
  <2> QED
    BY <1>2, <1>6, <2>1, Zenon
<1> QED
  BY <1>2, <1>3, <1>4, <1>5, <1>6, <1>7, <1>8, Zenon DEF e, c, p

\* The bytes of the first characters are the first bytes of all.
LEMMA EncodingsPrefix ==
  ASSUME NEW t \in Seq(CodePoints), NEW n \in 0 .. Len(t)
  PROVE  /\ Encodings(t)[n] \in Seq(Octets) /\ Encoding(t) \in Seq(Octets)
         /\ Len(Encodings(t)[n]) \in Nat /\ Len(Encoding(t)) \in Nat
         /\ Len(Encodings(t)[n]) <= Len(Encoding(t))
         /\ \A j \in 1 .. Len(Encodings(t)[n]) : Encoding(t)[j] = Encodings(t)[n][j]
<1> DEFINE e == Encodings(t)
           N == Len(t)
           Before(m) == Len(e[n]) <= Len(e[m]) /\ \A j \in 1 .. Len(e[n]) : e[m][j] = e[n][j]
           T == { m \in 0 .. N : n <= m => Before(m) }
<1>1. N \in Nat /\ \A m \in 0 .. N : e[m] \in Seq(Octets) /\ Len(e[m]) \in Nat
  <2>1. N \in Nat /\ \A m \in 0 .. N : e[m] \in Seq(Octets)
    BY EncodingsFacts, Zenon
  <2> HIDE DEF e, N
  <2> QED
    BY <2>1, LenProperties, Zenon
<1>2. N \in 0 .. N /\ 0 \in 0 .. N /\ n <= N /\ n <= n /\ n \in Nat
  BY <1>1, SMT
<1>3. ASSUME n <= 0 PROVE n = 0
  BY <1>2, <1>3, SMT
<1>9. ASSUME NEW m \in 1 .. N PROVE m \in 0 .. N /\ m - 1 \in 0 .. N /\ (n <= m
               => n = m \/ n <= m - 1)
  BY <1>1, <1>2, SMT
<1>10. Before(n)
  <2>1. Len(e[n]) <= Len(e[n])
    BY <1>1, SMT
  <2> QED
    BY <2>1, Zenon
<1>4. 0 \in T
  BY <1>2, <1>3, <1>10, Zenon
<1>5. ASSUME NEW m \in 1 .. N, m - 1 \in T PROVE m \in T
  <2>1. m - 1 \in 0 .. N /\ (n <= m - 1 => Before(m - 1))
    BY <1>5, Zenon
  <2>2. CASE n = m
    BY <1>9, <1>10, <2>2, Zenon
  <2>3. CASE n <= m - 1
    <3> DEFINE a == Len(e[n])
               b == Len(e[m - 1])
               c == Len(e[m])
    <3>1. /\ c = b + Len(utf8_encode_one(t[m])) /\ Len(utf8_encode_one(t[m])) \in 1 .. 4
          /\ \A j \in 1 .. b : e[m][j] = e[m - 1][j]
      BY EncodingsStep, Zenon
    <3>2. a <= b /\ \A j \in 1 .. a : e[m - 1][j] = e[n][j]
      BY <2>1, <2>3, Zenon
    <3>3. a \in Nat /\ b \in Nat
      BY <1>1, <2>1, Zenon
    <3> HIDE DEF a, b, c
    <3>4. a <= c /\ \A j \in 1 .. a : j \in 1 .. b
      BY <3>1, <3>2, <3>3, SMT
    <3>5. \A j \in 1 .. a : e[m][j] = e[n][j]
      BY <3>1, <3>2, <3>4, Zenon
    <3> QED
      BY <1>9, <3>4, <3>5, Zenon DEF a, c
  <2> QED
    BY <1>9, <2>2, <2>3, Zenon
<1>6. \A m \in 0 .. N : m \in T
  <2> HIDE DEF T, N
  <2> QED
    BY <1>1, <1>4, <1>5, UpTo, Zenon
<1> QED
  BY <1>1, <1>2, <1>6, Zenon DEF Encoding

\* Where a character is among the bytes of its text
LEMMA EncodedAt ==
  ASSUME NEW t \in Seq(CodePoints), NEW n \in 1 .. Len(t)
  PROVE  LET p == Len(Encodings(t)[n - 1])
             c == utf8_encode_one(t[n])
         IN  /\ p \in Nat /\ Len(c) \in 1 .. 4 /\ p + Len(c) = Len(Encodings(t)[n])
             /\ t[n] \in CodePoints /\ p + Len(c) <= Len(Encoding(t))
             /\ \A j \in 1 .. Len(c) : Encoding(t)[p + j] = c[j]
<1> DEFINE e == Encodings(t)
           p == Len(e[n - 1])
           c == utf8_encode_one(t[n])
<1>1. n \in 0 .. Len(t)
  BY LenProperties, SMT
<1>2. /\ t[n] \in CodePoints /\ Len(c) \in 1 .. 4 /\ p \in Nat /\ Len(e[n]) = p + Len(c)
      /\ \A j \in 1 .. Len(c) : e[n][p + j] = c[j]
  BY EncodingsStep, Zenon
<1>3. Len(e[n]) <= Len(Encoding(t)) /\ \A j \in 1 .. Len(e[n]) : Encoding(t)[j] = e[n][j]
  BY <1>1, EncodingsPrefix, Zenon
<1> HIDE DEF e, p, c
<1>4. \A j \in 1 .. Len(c) : p + j \in 1 .. Len(e[n])
  BY <1>2, SMT
<1>5. \A j \in 1 .. Len(c) : Encoding(t)[p + j] = c[j]
  BY <1>2, <1>3, <1>4, Zenon
<1>6. p + Len(c) <= Len(Encoding(t)) /\ p + Len(c) = Len(e[n])
  BY <1>2, <1>3, Zenon
<1> QED
  BY <1>2, <1>5, <1>6, Zenon DEF e, p, c

\* The bytes from one on
LEMMA RestOf ==
  ASSUME NEW s \in Seq(Octets), NEW r \in 0 .. Len(s) - 1
  PROVE  LET rest == SubSeq(s, r + 1, Len(s))
         IN  /\ rest \in Seq(Octets) /\ Len(rest) = Len(s) - r /\ Len(rest) \in Nat
         /\ Len(rest) >= 1
             /\ \A k \in 1 .. Len(rest) : rest[k] = s[r + k] /\ rest[k] \in Octets
<1> DEFINE L == Len(s)
           rest == SubSeq(s, r + 1, L)
<1>1. L \in Nat
  BY LenProperties, Zenon
<1>2. r + 1 \in Int /\ L \in Int /\ r + 1 <= L /\ \A k \in r + 1 .. L : k \in 1 .. L
  BY <1>1, SMT
<1>3. \A k \in r + 1 .. L : s[k] \in Octets
  BY <1>2, ElementOfSeq, Zenon
<1>4. /\ rest \in Seq(Octets)
      /\ Len(rest) = IF r + 1 <= L THEN (L - (r + 1)) + 1 ELSE 0
      /\ \A k \in 1 .. (L - (r + 1)) + 1 : rest[k] = s[(r + 1) + k - 1]
  BY <1>2, <1>3, SubSeqProperties
<1> HIDE DEF rest, L
<1>5. Len(rest) = L - r /\ Len(rest) \in Nat /\ Len(rest) >= 1
  BY <1>1, <1>2, <1>4, SMT
<1>6. \A k \in 1 .. Len(rest) : rest[k] \in Octets
  BY <1>4, ElementOfSeq, Zenon
<1>7. ASSUME NEW k \in 1 .. Len(rest) PROVE rest[k] = s[r + k]
  <2>1. k \in 1 .. (L - (r + 1)) + 1 /\ (r + 1) + k - 1 = r + k
    BY <1>1, <1>5, SMT
  <2> QED
    BY <1>4, <2>1, Zenon
<1> QED
  BY <1>4, <1>5, <1>6, <1>7, Zenon DEF rest, L


\* utf8_find_next_leading_byte goes on, past trailing bytes alone.
LEMMA FindNext ==
  ASSUME NEW s \in Seq(Octets), Len(s) >= 1
  PROVE  /\ utf8_find_next_leading_byte(s) \in 1 .. Len(s)
         /\ \A k \in 2 .. utf8_find_next_leading_byte(s) : utf8_is_trailing_byte(s[k])
<1> DEFINE L == Len(s)
           T == { n \in 1 .. L : n = L \/ ~utf8_is_trailing_byte(s[n + 1]) }
           Q(n) == /\ \A k \in 2 .. n : utf8_is_trailing_byte(s[k])
                   /\ n = L \/ ~utf8_is_trailing_byte(s[n + 1])
<1>1. L \in Nat /\ L >= 1
  BY LenProperties, Zenon
<1>2. L \in T
  <2>1. L \in 1 .. L
    BY <1>1, SMT
  <2> QED
    BY <2>1, Zenon
<1>3. T \subseteq Nat
  <2>1. 1 .. L \subseteq Nat
    BY <1>1, SMT
  <2> QED
    BY <2>1, Zenon
<1>4. PICK n \in T : \A m \in T : n <= m
  <2> HIDE DEF T
  <2> QED
    BY <1>2, <1>3, Least, Zenon
<1>5. n \in 1 .. L /\ (n = L \/ ~utf8_is_trailing_byte(s[n + 1]))
  BY <1>4, Zenon
<1>6. ASSUME NEW k \in 2 .. n PROVE utf8_is_trailing_byte(s[k])
  <2>1. k - 1 \in 1 .. L /\ ~(n <= k - 1) /\ (k - 1) + 1 = k
    BY <1>1, <1>5, SMT
  <2>2. ~(k - 1 \in T)
    BY <1>4, <2>1, Zenon
  <2> QED
    BY <2>1, <2>2, Zenon
<1>7. Q(n)
  BY <1>5, <1>6, Zenon
<1>8. utf8_find_next_leading_byte(s) = CHOOSE m \in 1 .. L : Q(m)
  BY Zenon DEF utf8_find_next_leading_byte
<1> DEFINE f == utf8_find_next_leading_byte(s)
<1>9. f \in 1 .. L /\ Q(f)
  <2> HIDE DEF Q, f
  <2> QED
    BY <1>5, <1>7, <1>8, Zenon DEF f
<1> QED
  BY <1>9, Zenon

-----------------------------------------------------------------------------
(* The ASCII of bytes                                                      *)

\* ASCII that stands for itself alone
Kept(b) == b < 128 /\ b # QuestionMark

\* Ascii, as its definition says
LEMMA AsciiFacts ==
  ASSUME NEW s \in Seq(Int)
  PROVE  /\ Len(s) \in Nat /\ Ascii(s) \in [0 .. Len(s) -> Seq(Int)] /\ Ascii(s)[0] = <<>>
         /\ \A n \in 1 .. Len(s) :
              Ascii(s)[n] = IF Kept(s[n]) THEN Append(Ascii(s)[n - 1], s[n]) ELSE Ascii(s)[n - 1]
<1> DEFINE N == Len(s)
           step == [n \in 1 .. N |-> [q \in Seq(Int) |-> IF Kept(s[n]) THEN Append(q, s[n]) ELSE q]]
           D(g) == g = [n \in 0 .. N |-> IF n = 0 THEN <<>>
                                         ELSE IF Kept(s[n]) THEN Append(g[n - 1], s[n])
      ELSE g[n - 1]]
           e == Ascii(s)
<1>1. N \in Nat /\ <<>> \in Seq(Int) /\ \A n \in 1 .. N : s[n] \in Int
  BY LenProperties, EmptySeq, ElementOfSeq, Zenon
<1>2. ASSUME NEW n \in 1 .. N, NEW q \in Seq(Int) PROVE Append(q, s[n]) \in Seq(Int)
  BY <1>1, AppendProperties
<1>3. step \in [1 .. N -> [Seq(Int) -> Seq(Int)]]
  BY <1>1, <1>2, Zenon
<1>4. PICK f : Iterated(f, N, Seq(Int), <<>>, step)
  <2> HIDE DEF step, N
  <2> QED
    BY <1>1, <1>3, Iteration, Zenon
<1>5. ASSUME NEW n \in 0 .. N, n # 0 PROVE n \in 1 .. N /\ n - 1 \in 0 .. N
  BY <1>1, <1>5, SMT
<1>6. D(f)
  <2>1. f \in [0 .. N -> Seq(Int)] /\ f[0] = <<>> /\ \A n \in 1 .. N : f[n] = step[n][f[n - 1]]
    BY <1>4, Zenon DEF Iterated
  <2>2. ASSUME NEW n \in 0 .. N
        PROVE f[n] = IF n = 0 THEN <<>> ELSE IF Kept(s[n]) THEN Append(f[n - 1], s[n]) ELSE f[n - 1]
    BY <1>5, <2>1, Zenon
  <2> QED
    BY <2>1, <2>2, Zenon
<1>7. D(e)
  BY <1>6, Zenon DEF Ascii, Kept
<1> HIDE DEF e
<1>8. 0 \in 0 .. N /\ \A n \in 1 .. N : n \in 0 .. N /\ n # 0
  BY <1>1, SMT
<1>9. e[0] = <<>> /\ \A n \in 1 .. N : e[n] = IF Kept(s[n]) THEN Append(e[n - 1], s[n])
        ELSE e[n - 1]
  BY <1>7, <1>8, Zenon
<1> DEFINE Typed == { n \in 0 .. N : e[n] \in Seq(Int) }
<1>10. \A n \in 0 .. N : n \in Typed
  <2>1. 0 \in Typed
    BY <1>1, <1>8, <1>9, Zenon
  <2>2. ASSUME NEW n \in 1 .. N, n - 1 \in Typed PROVE n \in Typed
    BY <1>1, <1>2, <1>8, <1>9, <2>2, Zenon
  <2> HIDE DEF Typed, N
  <2> QED
    BY <1>1, <2>1, <2>2, UpTo, Zenon
<1>11. e \in [0 .. N -> Seq(Int)]
  <2>1. e = [n \in 0 .. N |-> IF n = 0 THEN <<>>
                              ELSE IF Kept(s[n]) THEN Append(e[n - 1], s[n]) ELSE e[n - 1]]
    BY <1>7, Zenon
  <2> QED
    BY <1>10, <2>1, Zenon
<1> QED
  BY <1>1, <1>9, <1>11, Zenon DEF e

\* It depends on these bytes alone.
LEMMA AsciiAgree ==
  ASSUME NEW s \in Seq(Int), NEW t \in Seq(Int), NEW n \in Nat, n <= Len(s), n <= Len(t),
         \A k \in 1 .. n : s[k] = t[k]
  PROVE  Ascii(s)[n] = Ascii(t)[n]
<1> DEFINE T == { m \in 0 .. n : Ascii(s)[m] = Ascii(t)[m] }
<1>1. Len(s) \in Nat /\ Len(t) \in Nat
  BY LenProperties, Zenon
<1>2. 0 \in 0 .. n /\ n \in 0 .. n
  BY SMT
<1>3. 0 \in T
  BY <1>2, AsciiFacts, Zenon
<1>4. ASSUME NEW m \in 1 .. n, m - 1 \in T PROVE m \in T
  <2>1. m \in 1 .. Len(s) /\ m \in 1 .. Len(t) /\ m \in 0 .. n
    BY <1>1, SMT
  <2>2. Ascii(s)[m] = IF Kept(s[m]) THEN Append(Ascii(s)[m - 1], s[m]) ELSE Ascii(s)[m - 1]
    BY <2>1, AsciiFacts, Zenon
  <2>3. Ascii(t)[m] = IF Kept(t[m]) THEN Append(Ascii(t)[m - 1], t[m]) ELSE Ascii(t)[m - 1]
    BY <2>1, AsciiFacts, Zenon
  <2>4. s[m] = t[m] /\ Ascii(s)[m - 1] = Ascii(t)[m - 1]
    BY <1>4, Zenon
  <2>5. Ascii(s)[m] = Ascii(t)[m]
    BY <2>2, <2>3, <2>4
  <2> QED
    BY <2>1, <2>5, Zenon
<1>5. \A m \in 0 .. n : m \in T
  <2> HIDE DEF T
  <2> QED
    BY <1>3, <1>4, UpTo, Zenon
<1> QED
  BY <1>2, <1>5, Zenon

\* Bytes that are none are passed over.
LEMMA AsciiSkip ==
  ASSUME NEW s \in Seq(Int), NEW r \in Nat, NEW n \in Nat, r + n <= Len(s),
         \A k \in 1 .. n : ~Kept(s[r + k])
  PROVE  Ascii(s)[r + n] = Ascii(s)[r]
<1> DEFINE T == { m \in 0 .. n : Ascii(s)[r + m] = Ascii(s)[r] }
<1>1. Len(s) \in Nat
  BY LenProperties, Zenon
<1>2. 0 \in 0 .. n /\ n \in 0 .. n /\ r + 0 = r
  BY SMT
<1>3. 0 \in T
  BY <1>2, Zenon
<1>4. ASSUME NEW m \in 1 .. n, m - 1 \in T PROVE m \in T
  <2>1. r + m \in 1 .. Len(s) /\ m \in 0 .. n /\ (r + m) - 1 = r + (m - 1)
    BY <1>1, SMT
  <2>2. Ascii(s)[r + m] = IF Kept(s[r + m]) THEN Append(Ascii(s)[(r + m) - 1], s[r + m])
                          ELSE Ascii(s)[(r + m) - 1]
    BY <2>1, AsciiFacts, Zenon
  <2> QED
    BY <1>4, <2>1, <2>2, Zenon
<1>5. \A m \in 0 .. n : m \in T
  <2> HIDE DEF T
  <2> QED
    BY <1>3, <1>4, UpTo, Zenon
<1> QED
  BY <1>2, <1>5, Zenon

-----------------------------------------------------------------------------
(* A turn of utf8_to_latin1                                                *)

\* The byte a turn of utf8_to_latin1 makes, and the number of those it takes
Made(rest) ==
    IF utf8_decode_one(rest).codepoint \in 0 .. 255 THEN utf8_decode_one(rest).codepoint
      ELSE QuestionMark

Past(rest) ==
    IF utf8_decode_one(rest).size > 0 THEN utf8_decode_one(rest).size
      ELSE utf8_find_next_leading_byte(rest)

\* A turn takes no ASCII.
NotKept(s) == \A k \in 1 .. Past(s) : ~Kept(s[k])

\* Bytes are numbers.
LEMMA OctetInt == \A b \in Octets : b \in Int /\ b >= 0 /\ b <= 255
BY SMT DEF Octets

\* What is above 127 is no ASCII.
LEMMA NotAscii ==
  ASSUME NEW c \in Int, c > 127
  PROVE  ~Kept(c)
BY SMT DEF Kept

\* Neither is a trailing byte.
LEMMA TrailingNotKept ==
  ASSUME NEW b, utf8_is_trailing_byte(b)
  PROVE  ~Kept(b)
BY SMT DEF utf8_is_trailing_byte, Kept

\* A turn goes on, and ASCII that it takes is what it makes.
LEMMA TurnOf ==
  ASSUME NEW s \in Seq(Octets), Len(s) >= 1
  PROVE  /\ Past(s) \in 1 .. Len(s) /\ Made(s) \in Octets
         /\ (utf8_decode_one(s).size > 1 => utf8_decode_one(s).codepoint > 127) =>
              \/ Past(s) = 1 /\ Made(s) = s[1]
              \/ ~Kept(Made(s)) /\ NotKept(s)
<1> DEFINE d == utf8_decode_one(s)
           n == utf8_sequence_size(s[1])
           valid == n > 0 /\ n <= Len(s) /\ \A k \in 2 .. n : utf8_is_trailing_byte(s[k])
<1>1. Len(s) \in Nat /\ 1 \in 1 .. Len(s)
  BY LenProperties, SMT
<1>2. s[1] \in Octets
  BY <1>1, ElementOfSeq, Zenon
<1>3. /\ n \in 0 .. 4
      /\ s[1] < 128 => n = 1
      /\ n = 1 => s[1] < 128
      /\ s[1] \in Int
  <2>1. n = IF s[1] < 128 THEN 1 ELSE IF s[1] < 192 THEN 0 ELSE IF s[1] < 224 THEN 2
            ELSE IF s[1] < 240 THEN 3 ELSE IF s[1] < 248 THEN 4 ELSE 0
    BY Zenon DEF utf8_sequence_size
  <2>2. s[1] \in Int
    BY <1>2, OctetInt, Zenon
  <2> HIDE DEF n
  <2> QED
    BY <2>1, <2>2, SMT
<1>4. d.size = IF valid THEN n ELSE 0
  BY SMT DEF utf8_decode_one
<1>5. ~valid => d.codepoint = -1
  BY SMT DEF utf8_decode_one
<1>6. valid /\ n = 1 => d.codepoint = s[1]
  BY SMT DEF utf8_decode_one
<1>7. Made(s) \in Octets
  BY SMT DEF Made, Octets, QuestionMark
<1> HIDE DEF d
<1>8. CASE valid /\ n = 1
  <2>1. d.size = 1 /\ d.codepoint = s[1]
    BY <1>4, <1>6, <1>8, Zenon
  <2>2. d.codepoint \in 0 .. 255 /\ d.size > 0
    BY <1>2, <2>1, SMT DEF Octets
  <2>3. Past(s) = 1 /\ Made(s) = s[1]
    BY <2>1, <2>2, Zenon DEF Past, Made, d
  <2> QED
    BY <1>1, <1>7, <2>3, Zenon
<1>9. CASE valid /\ n # 1
  <2>1. d.size = n
    BY <1>4, <1>9, Zenon
  <2> HIDE DEF n
  <2>2. n > 1 /\ n \in 1 .. Len(s) /\ d.size > 0 /\ d.size > 1
    BY <1>1, <1>3, <1>9, <2>1, SMT
  <2>3. Past(s) = n
    BY <2>1, <2>2, Zenon DEF Past, d
  <2>4. ASSUME d.codepoint > 127 PROVE ~Kept(Made(s))
    <3> DEFINE c == d.codepoint
               m == Made(s)
    <3>1. m = IF c \in 0 .. 255 THEN c ELSE QuestionMark
      BY Zenon DEF Made, d
    <3>2. c > 127
      BY <2>4, Zenon
    <3> HIDE DEF c, m
    <3>3. ~Kept(m)
      <4>1. ~Kept(QuestionMark)
        BY Zenon DEF Kept
      <4>2. c \in 0 .. 255 => c \in Int
        BY SMT
      <4> QED
        BY <3>1, <3>2, <4>1, <4>2, NotAscii, Zenon
    <3> QED
      BY <3>3, Zenon DEF m
  <2>5. ~Kept(s[1])
    BY <1>3, <2>2, SMT DEF Kept
  <2>6. ASSUME NEW k \in 1 .. n PROVE ~Kept(s[k])
    <3>1. k = 1 \/ k \in 2 .. n
      BY <2>2, SMT
    <3> QED
      BY <1>9, <2>5, <3>1, TrailingNotKept, Zenon
  <2> QED
    BY <1>7, <2>2, <2>3, <2>4, <2>6, Zenon DEF NotKept, d
<1>10. CASE ~valid
  <2>1. d.size = 0 /\ d.codepoint = -1
    BY <1>4, <1>5, <1>10, Zenon
  <2>2. ~(d.size > 0) /\ ~(d.codepoint \in 0 .. 255)
    BY <2>1, SMT
  <2>3. Past(s) = utf8_find_next_leading_byte(s) /\ Made(s) = QuestionMark
    BY <2>2, Zenon DEF Past, Made, d
  <2>4. ~Kept(Made(s))
    BY <2>3, Zenon DEF Kept
  <2>5. n # 1
    <3>1. n = 1 => n > 0 /\ n <= Len(s) /\ 2 .. n = {}
      <4> HIDE DEF n
      <4> QED
        BY <1>1, SMT
    <3> QED
      BY <1>10, <3>1, Zenon
  <2>6. ~Kept(s[1])
    <3> HIDE DEF n
    <3> QED
      BY <1>3, <2>5, Zenon DEF Kept
  <2>7. Past(s) \in 1 .. Len(s) /\ \A k \in 2 .. Past(s) : utf8_is_trailing_byte(s[k])
    BY <2>3, FindNext, Zenon
  <2>8. ASSUME NEW k \in 1 .. Past(s) PROVE ~Kept(s[k])
    <3>1. k = 1 \/ k \in 2 .. Past(s)
      BY <1>1, <2>7, SMT
    <3> QED
      BY <2>6, <2>7, <3>1, TrailingNotKept, Zenon
  <2> QED
    BY <1>7, <2>4, <2>7, <2>8, Zenon DEF NotKept
<1> QED
  BY <1>8, <1>9, <1>10, Zenon

\* A turn over a character that was encoded
LEMMA TurnOfEncoded ==
  ASSUME NEW cp \in CodePoints, NEW s \in Seq(Octets), Len(utf8_encode_one(cp)) <= Len(s),
         \A k \in 1 .. Len(utf8_encode_one(cp)) : s[k] = utf8_encode_one(cp)[k]
  PROVE  Past(s) = Len(utf8_encode_one(cp)) /\ Made(s) = AsLatin1(cp)
<1>1. Len(utf8_encode_one(cp)) = utf8_encoded_size(cp) /\ utf8_encoded_size(cp) \in 1 .. 4
      /\ cp \in Nat
  BY EncodeOne, EncodedSize, Zenon
<1>2. utf8_decode_one(s).size = utf8_encoded_size(cp) /\ utf8_decode_one(s).codepoint = cp
  BY <1>1, DecodeEncoded, Zenon
<1>3. utf8_encoded_size(cp) > 0
  BY <1>1, SMT
<1>4. Past(s) = Len(utf8_encode_one(cp))
  BY <1>1, <1>2, <1>3, Zenon DEF Past
<1>5. Made(s) = IF cp \in 0 .. 255 THEN cp ELSE QuestionMark
  BY <1>2, Zenon DEF Made
<1>6. cp \in 0 .. 255 <=> cp < 256
  BY <1>1, SMT
<1> QED
  BY <1>4, <1>5, <1>6, Zenon DEF AsLatin1

-----------------------------------------------------------------------------
(* The destination                                                         *)

\* p is d with the bytes of c from w on.
PlacedIn(p, c, w, d, capacity) ==
    /\ p \in Cells(capacity)
    /\ \A k \in 0 .. capacity - 1 : p[k] = IF k \in w .. w + Len(c) - 1 THEN c[k - w + 1] ELSE d[k]

\* Bytes are code points: Latin-1 is the first part of Unicode.
LEMMA OctetsAreCodePoints == Octets \subseteq CodePoints /\ Octets \subseteq Stored
                             /\ Octets \subseteq Int
BY SMT DEF Octets, Stored, CodePoints, MaxCodePoint

\* A sequence over a set is one over a larger set.
LEMMA Widen ==
  ASSUME NEW S, NEW R, S \subseteq R, NEW s \in Seq(S)
  PROVE  s \in Seq(R)
<1>1. Len(s) \in Nat /\ s \in [1 .. Len(s) -> S]
  BY LenProperties, Zenon
<1>2. s \in [1 .. Len(s) -> R]
  BY <1>1, Zenon
<1> QED
  BY <1>1, <1>2, FunctionSeq, Zenon

\* Destinations with the same cells are equal.
LEMMA CellsEqual ==
  ASSUME NEW capacity \in Nat, NEW a \in Cells(capacity), NEW b \in Cells(capacity),
         \A k \in 0 .. capacity - 1 : a[k] = b[k]
  PROVE  a = b
BY SMT DEF Cells

\* A fresh destination is one.
LEMMA FreshFacts ==
  ASSUME NEW capacity \in Nat
  PROVE  Fresh(capacity) \in Cells(capacity)
<1>1. -1 \in Stored
  BY SMT DEF Stored
<1> QED
  BY <1>1, Zenon DEF Fresh, Cells

\* Placed stores bytes that fit in their cells, and changes no other.
LEMMA PlacedFacts ==
  ASSUME NEW capacity \in Nat, NEW d \in Cells(capacity), NEW c \in Seq(Octets), NEW w \in Nat,
         Len(c) <= capacity - w
  PROVE  PlacedIn(Placed(c, w, d), c, w, d, capacity)
<1> DEFINE p == Placed(c, w, d)
<1>1. Len(c) \in Nat
  BY LenProperties, Zenon
<1>2. p = [k \in 0 .. capacity - 1 |-> IF k \in w .. w + Len(c) - 1 THEN c[k - w + 1] ELSE d[k]]
  <2>1. (0 .. capacity - 1) \cup (w .. w + Len(c) - 1) = 0 .. capacity - 1
    BY <1>1, SMT
  <2>2. DOMAIN d = 0 .. capacity - 1
    BY Zenon DEF Cells
  <2> QED
    BY <2>1, <2>2, Zenon DEF Placed
<1>3. ASSUME NEW k \in 0 .. capacity - 1, k \in w .. w + Len(c) - 1 PROVE c[k - w + 1] \in Stored
  <2>1. k - w + 1 \in 1 .. Len(c)
    BY <1>1, <1>3, SMT
  <2>2. c[k - w + 1] \in Octets
    BY <2>1, ElementOfSeq, Zenon
  <2> QED
    BY <2>2, OctetsAreCodePoints, Zenon
<1> HIDE DEF p
<1>4. ASSUME NEW k \in 0 .. capacity - 1 PROVE p[k] \in Stored
  <2>1. p[k] = IF k \in w .. w + Len(c) - 1 THEN c[k - w + 1] ELSE d[k]
    BY <1>2, Zenon
  <2>2. d[k] \in Stored
    BY Zenon DEF Cells
  <2> QED
    BY <1>3, <2>1, <2>2, Zenon
<1>5. p \in Cells(capacity)
  BY <1>2, <1>4, Zenon DEF Cells
<1> QED
  BY <1>2, <1>5, Zenon DEF p, PlacedIn

\* No bytes
LEMMA PlacedNone ==
  ASSUME NEW capacity \in Nat, NEW d \in Cells(capacity)
  PROVE  Placed(<<>>, 0, d) = d
<1> DEFINE z == Placed(<<>>, 0, d)
           I == 0 .. capacity - 1
<1>1. 0 \in Nat /\ <<>> \in Seq(Octets) /\ Len(<<>>) = 0
  BY EmptySeq, SMT
<1>2. Len(<<>>) <= capacity - 0
  BY <1>1, SMT
<1>3. z \in Cells(capacity) /\ \A k \in I :
        z[k] = IF k \in 0 .. 0 + Len(<<>>) - 1 THEN <<>>[k - 0 + 1] ELSE d[k]
  <2>1. PlacedIn(z, <<>>, 0, d, capacity)
    BY <1>1, <1>2, PlacedFacts, Zenon
  <2> HIDE DEF z
  <2> QED
    BY <2>1, Zenon DEF PlacedIn
<1>4. \A k \in I : ~(k \in 0 .. 0 + Len(<<>>) - 1)
  BY <1>1, SMT
<1>5. \A k \in I : z[k] = d[k]
  BY <1>3, <1>4, Zenon
<1> QED
  <2> HIDE DEF z
  <2>1. z = d
    BY <1>3, <1>5, CellsEqual, Zenon
  <2> QED
    BY <2>1, Zenon DEF z

\* More bytes after some
LEMMA PlacedMore ==
  ASSUME NEW capacity \in Nat, NEW d \in Cells(capacity), NEW p \in Seq(Octets),
         NEW c \in Seq(Octets), Len(c) <= capacity - Len(p)
  PROVE  Placed(c, Len(p), Placed(p, 0, d)) = Placed(p \o c, 0, d)
<1> DEFINE lp == Len(p)
           lc == Len(c)
           I == 0 .. capacity - 1
           q == Placed(p, 0, d)
           a == Placed(c, lp, q)
           b == Placed(p \o c, 0, d)
<1>1. lp \in Nat /\ lc \in Nat
  BY LenProperties, Zenon
<1>2. /\ p \o c \in Seq(Octets) /\ Len(p \o c) = lp + lc
      /\ \A k \in 1 .. lp + lc : (p \o c)[k] = IF k <= lp THEN p[k] ELSE c[k - lp]
  BY ConcatProperties, Zenon
<1>3. 0 \in Nat /\ lp <= capacity - 0 /\ Len(p \o c) <= capacity - 0 /\ lc <= capacity - lp
  <2>1. Len(p \o c) = lp + lc /\ lc <= capacity - lp
    BY <1>2, Zenon
  <2> HIDE DEF lp, lc
  <2> QED
    BY <1>1, <2>1, SMT
<1>4. q \in Cells(capacity) /\ \A k \in I :
        q[k] = IF k \in 0 .. 0 + lp - 1 THEN p[k - 0 + 1] ELSE d[k]
  <2>1. PlacedIn(q, p, 0, d, capacity)
    BY <1>3, PlacedFacts, Zenon
  <2> QED
    BY <2>1, Zenon DEF PlacedIn
<1>5. a \in Cells(capacity) /\ \A k \in I :
        a[k] = IF k \in lp .. lp + lc - 1 THEN c[k - lp + 1] ELSE q[k]
  <2> HIDE DEF q, lp
  <2>1. PlacedIn(a, c, lp, q, capacity)
    BY <1>1, <1>3, <1>4, PlacedFacts, Zenon DEF lc
  <2> HIDE DEF a
  <2> QED
    BY <2>1, Zenon DEF PlacedIn
<1>6. /\ b \in Cells(capacity)
      /\ \A k \in I : b[k] = IF k \in 0 .. 0 + Len(p \o c) - 1 THEN (p \o c)[k - 0 + 1] ELSE d[k]
  <2>1. PlacedIn(b, p \o c, 0, d, capacity)
    BY <1>2, <1>3, PlacedFacts, Zenon
  <2> HIDE DEF b
  <2> QED
    BY <2>1, Zenon DEF PlacedIn
<1>7. ASSUME NEW k \in I PROVE a[k] = b[k]
  <2> DEFINE pc1 == p \o c
             l1 == Len(pc1)
  <2> HIDE DEF a, b, q, lp, lc, pc1, l1
  <2>1. k \in Nat /\ k - 0 + 1 = k + 1 /\ 0 + lp - 1 = lp - 1
    BY <1>1, SMT
  <2>2. b[k] = IF k \in 0 .. 0 + l1 - 1 THEN pc1[k + 1] ELSE d[k]
    BY <1>6, <2>1, Zenon DEF l1, pc1
  <2>3. q[k] = IF k \in 0 .. 0 + lp - 1 THEN p[k + 1] ELSE d[k]
    BY <1>4, <2>1, Zenon
  <2>4. l1 = lp + lc
    BY <1>2, Zenon DEF l1, pc1
  <2>5. CASE k < lp
    <3>1. k \in 0 .. 0 + l1 - 1 /\ k \in 0 .. 0 + lp - 1 /\ ~(k \in lp .. lp + lc - 1)
          /\ k + 1 \in 1 .. lp + lc /\ k + 1 <= lp
      BY <1>1, <2>1, <2>4, <2>5, SMT
    <3>2. pc1[k + 1] = p[k + 1]
      BY <1>2, <3>1, Zenon DEF pc1
    <3> QED
      BY <1>5, <2>2, <2>3, <3>1, <3>2, Zenon
  <2>6. CASE k >= lp /\ k < lp + lc
    <3>1. k \in 0 .. 0 + l1 - 1 /\ k \in lp .. lp + lc - 1
          /\ k + 1 \in 1 .. lp + lc /\ ~(k + 1 <= lp) /\ (k + 1) - lp = k - lp + 1
      BY <1>1, <2>1, <2>4, <2>6, SMT
    <3>3. pc1[k + 1] = c[(k + 1) - lp]
      BY <1>2, <3>1, Zenon DEF pc1
    <3>2. pc1[k + 1] = c[k - lp + 1]
      BY <3>1, <3>3
    <3> QED
      BY <1>5, <2>2, <3>1, <3>2, Zenon
  <2>7. CASE k >= lp + lc
    <3>1. ~(k \in 0 .. 0 + l1 - 1) /\ ~(k \in 0 .. 0 + lp - 1) /\ ~(k \in lp .. lp + lc - 1)
      BY <1>1, <2>1, <2>4, <2>7, SMT
    <3> QED
      BY <1>5, <2>2, <2>3, <3>1, Zenon
  <2>8. k < lp \/ (k >= lp /\ k < lp + lc) \/ k >= lp + lc
    BY <1>1, <2>1, SMT
  <2> QED
    BY <2>5, <2>6, <2>7, <2>8, Zenon
<1>8. a = b
  <2> HIDE DEF a, b
  <2> QED
    BY <1>5, <1>6, <1>7, CellsEqual, Zenon
<1> QED
  BY <1>8, Zenon

\* A byte is stored if there is a place for it.
PutOne(b, w, d, capacity) == IF Len(<<b>>) <= capacity - w THEN Placed(<<b>>, w, d) ELSE d

PutIn(p, b, w, d, capacity) ==
    /\ p \in Cells(capacity)
    /\ \A k \in 0 .. capacity - 1 : p[k] = IF k = w THEN b ELSE d[k]

\* A byte without a cell changes nothing.
LEMMA StoreOne ==
  ASSUME NEW capacity \in Nat, NEW d \in Cells(capacity), NEW w \in Nat, NEW b \in Octets
  PROVE  PutIn(PutOne(b, w, d, capacity), b, w, d, capacity)
<1> DEFINE d1 == PutOne(b, w, d, capacity)
<1>1. <<b>> \in Seq(Octets) /\ Len(<<b>>) = 1 /\ <<b>>[1] = b
  BY SMT
<1> DEFINE o == <<b>>
           l == Len(o)
<1>2. o \in Seq(Octets) /\ l = 1 /\ o[1] = b
  BY <1>1, Zenon
<1> HIDE DEF o, l
<1>3. d1 = IF l <= capacity - w THEN Placed(o, w, d) ELSE d
  BY Zenon DEF o, l, PutOne
<1> HIDE DEF d1
<1>4. CASE l <= capacity - w
  <2>1. d1 = Placed(o, w, d)
    BY <1>3, <1>4, Zenon
  <2>2. d1 \in Cells(capacity) /\ \A k \in 0 .. capacity - 1 :
          d1[k] = IF k \in w .. w + l - 1 THEN o[k - w + 1] ELSE d[k]
    <3>1. PlacedIn(d1, o, w, d, capacity)
      BY <1>2, <1>4, <2>1, PlacedFacts, Zenon DEF l
    <3> QED
      BY <3>1, Zenon DEF l, PlacedIn
  <2>3. ASSUME NEW k \in 0 .. capacity - 1 PROVE k \in w .. w + l - 1 <=> k = w
    BY <1>2, SMT
  <2>4. w - w + 1 = 1
    BY SMT
  <2>5. \A k \in 0 .. capacity - 1 : d1[k] = IF k = w THEN b ELSE d[k]
    BY <1>2, <2>2, <2>3, <2>4, Zenon
  <2>6. PutIn(d1, b, w, d, capacity)
    BY <2>2, <2>5, Zenon DEF PutIn
  <2> QED
    BY <2>6, Zenon DEF d1
<1>5. CASE ~(l <= capacity - w)
  <2>1. d1 = d
    BY <1>3, <1>5, Zenon
  <2>2. \A k \in 0 .. capacity - 1 : k # w
    BY <1>2, <1>5, SMT
  <2>3. d1 \in Cells(capacity) /\ \A k \in 0 .. capacity - 1 : d1[k] = IF k = w THEN b ELSE d[k]
    BY <2>1, <2>2, Zenon
  <2>4. PutIn(d1, b, w, d, capacity)
    BY <2>3, Zenon DEF PutIn
  <2> QED
    BY <2>4, Zenon DEF d1
<1> QED
  BY <1>4, <1>5, Zenon

-----------------------------------------------------------------------------
(* The inductive invariant holds                                           *)

\* The invariant of a conversion holds at the start.
LEMMA InitConversion ==
  ASSUME ConversionInit
  PROVE  ConversionIInv
<1>1. 0 \in Nat /\ \A n \in Nat : 0 \in 0 .. n /\ 0 <= n
  BY SMT
<1>2. ASSUME NEW first, NEW what, NEW from, NEW bytes, Begin(first, what, from, bytes),
             first \in {"to_utf8", "to_latin1"}, what \in {"latin1", "bytes", "text"},
             bytes \in Seq(Octets), from \in Seq(CodePoints), what # "text" => from \in Seq(Octets)
      PROVE  ConversionTypes /\ dest = Fresh(dest_capacity)
  <2>1. /\ loop = first /\ kind = what /\ origin = from /\ src = bytes /\ read_pos = 0
           /\ write_pos = 0
        /\ dest_capacity \in Capacities /\ dest = Fresh(dest_capacity)
    BY <1>2, Zenon DEF Begin
  <2>2. dest_capacity \in Nat
    BY <2>1, Utf8Assumption, Zenon
  <2>3. dest \in Cells(dest_capacity)
    BY <2>1, <2>2, FreshFacts, Zenon
  <2>4. Len(src) \in Nat
    BY <1>2, <2>1, LenProperties, Zenon
  <2> QED
    BY <1>1, <1>2, <2>1, <2>2, <2>3, <2>4, Zenon DEF ConversionTypes
<1>3. ASSUME NEW s \in Latin1Strings, Begin("to_utf8", "latin1", s, s) PROVE ConversionIInv
  <2>1. s \in Seq(Octets)
    BY Utf8Assumption, Zenon DEF Octets
  <2>2. s \in Seq(CodePoints)
    BY <2>1, Widen, OctetsAreCodePoints, Zenon
  <2>3. ConversionTypes /\ dest = Fresh(dest_capacity)
    BY <1>2, <1>3, <2>1, <2>2, Zenon
  <2>4. loop = "to_utf8" /\ kind = "latin1" /\ origin = s /\ src = s /\ read_pos = 0
        /\ write_pos = 0
    BY <1>3, Zenon DEF Begin
  <2>5. Encodings(s)[0] = <<>> /\ Len(<<>>) = 0
    BY <2>2, EncodingsFacts, EmptySeq, Zenon
  <2>6. dest_capacity \in Nat
    BY <2>3, Zenon DEF ConversionTypes
  <2>7. Placed(<<>>, 0, Fresh(dest_capacity)) = Fresh(dest_capacity)
    BY <2>6, FreshFacts, PlacedNone, Zenon
  <2>8. WholeIn(0, src, dest, dest_capacity)
    BY <1>1, <2>3, <2>4, <2>5, <2>6, <2>7, Zenon DEF WholeIn
  <2>9. EncodeInv
    BY <1>1, <2>4, <2>5, <2>8, Zenon DEF EncodeInv
  <2> QED
    BY <2>3, <2>4, <2>9, Zenon DEF ConversionIInv, DecodeInv, BytesInv
<1>4. ASSUME NEW s \in ByteStrings, Begin("to_latin1", "bytes", s, s) PROVE ConversionIInv
  <2>1. s \in Seq(Octets)
    BY Utf8Assumption, Zenon DEF Octets
  <2>2. s \in Seq(CodePoints) /\ s \in Seq(Int)
    BY <2>1, Widen, OctetsAreCodePoints, Zenon
  <2>3. ConversionTypes /\ dest = Fresh(dest_capacity)
    BY <1>2, <1>4, <2>1, <2>2, Zenon
  <2>4. loop = "to_latin1" /\ kind = "bytes" /\ origin = s /\ src = s /\ read_pos = 0
        /\ write_pos = 0
    BY <1>4, Zenon DEF Begin
  <2>5. Ascii(src)[0] = <<>>
    BY <2>2, <2>4, AsciiFacts, Zenon
  <2>6. Ascii(Written)[0] = <<>>
    <3>1. 1 .. 0 = {}
      BY SMT
    <3>2. Written \in [1 .. 0 -> Int]
      BY <2>4, <3>1, Zenon DEF Written
    <3>3. Written \in Seq(Int)
      BY <1>1, <3>2, FunctionSeq, Zenon
    <3> QED
      BY <3>3, AsciiFacts, Zenon
  <2>7. BytesInv
    BY <2>4, <2>5, <2>6, Zenon DEF BytesInv
  <2> QED
    BY <2>3, <2>4, <2>7, Zenon DEF ConversionIInv, EncodeInv, DecodeInv
<1>5. ASSUME NEW t \in Texts, Begin("to_latin1", "text", t, Encodings(t)[Len(t)]) PROVE ConversionIInv
  <2>1. t \in Seq(CodePoints)
    BY Utf8Assumption, Zenon
  <2>2. Len(t) \in Nat /\ Encodings(t)[0] = <<>> /\ Len(<<>>) = 0
    BY <2>1, EncodingsFacts, EmptySeq, Zenon
  <2>3. Encodings(t)[Len(t)] \in Seq(Octets)
    BY <1>1, <2>1, <2>2, EncodingsPrefix, Zenon DEF Encoding
  <2>4. ConversionTypes /\ dest = Fresh(dest_capacity)
    BY <1>2, <1>5, <2>1, <2>3, Zenon
  <2>5. loop = "to_latin1" /\ kind = "text" /\ origin = t /\ src = Encodings(t)[Len(t)]
        /\ read_pos = 0 /\ write_pos = 0
    BY <1>5, Zenon DEF Begin
  <2>6. \A k \in 0 .. dest_capacity - 1 : ~(k < 0)
    BY SMT
  <2>7. DecodedSoFar
    BY <1>1, <2>2, <2>5, <2>6, Zenon DEF DecodedSoFar, Encoding
  <2> QED
    BY <2>4, <2>5, <2>7, Zenon DEF ConversionIInv, EncodeInv, DecodeInv, BytesInv
<1> QED
  BY <1>3, <1>4, <1>5, Zenon DEF ConversionInit

\* A turn of latin1_to_utf8 keeps it.
LEMMA EncodeNextInv ==
  ASSUME ConversionIInv, EncodeNext
  PROVE  ConversionIInv'
<1> DEFINE n == read_pos + 1
           c == utf8_encode_one(src[n])
           e == Encodings(src)
<1>1. /\ loop = "to_utf8" /\ read_pos < Len(src) /\ write_pos' = write_pos + Len(c) /\ read_pos' = n
      /\ dest' = IF Len(c) <= dest_capacity - write_pos THEN Placed(c, write_pos, dest) ELSE dest
      /\ loop' = loop /\ kind' = kind /\ origin' = origin /\ src' = src
         /\ dest_capacity' = dest_capacity
  BY Zenon DEF EncodeNext, Fits
<1>2. /\ ConversionTypes /\ kind = "latin1" /\ src = origin /\ write_pos = Len(e[read_pos])
  BY <1>1, Zenon DEF ConversionIInv, EncodeInv
<1>3. PICK k \in 0 .. read_pos : WholeIn(k, src, dest, dest_capacity)
           /\ (k = read_pos \/ write_pos > dest_capacity)
  BY <1>1, Zenon DEF ConversionIInv, EncodeInv
<1>4. /\ src \in Seq(CodePoints) /\ dest_capacity \in Nat /\ write_pos \in Nat
         /\ read_pos \in 0 .. Len(src)
      /\ dest \in Cells(dest_capacity) /\ Len(src) \in Nat
  BY <1>2, LenProperties, Zenon DEF ConversionTypes
<1>5. /\ n \in 1 .. Len(src) /\ n \in 0 .. Len(src) /\ n - 1 = read_pos /\ n \in 0 .. n
      /\ k \in 0 .. n
  BY <1>1, <1>4, SMT
<1>6. /\ c \in Seq(Octets) /\ Len(c) \in 1 .. 4 /\ e[n - 1] \in Seq(Octets)
      /\ Len(e[n]) = Len(e[n - 1]) + Len(c)
  BY <1>4, <1>5, EncodingsStep, Zenon
<1>7. e[n] = e[n - 1] \o c
  BY <1>4, <1>5, EncodingsFacts, Zenon
<1> HIDE DEF n, c, e
<1>8. write_pos' = Len(e[n])
  BY <1>1, <1>2, <1>5, <1>6, Zenon
<1>9. write_pos' \in Nat
  BY <1>1, <1>4, <1>6, SMT
<1>10. dest' \in Cells(dest_capacity)
  <2>1. ASSUME Len(c) <= dest_capacity - write_pos
        PROVE  PlacedIn(Placed(c, write_pos, dest), c, write_pos, dest, dest_capacity)
    BY <1>4, <1>6, <2>1, PlacedFacts, Zenon
  <2>2. Len(c) <= dest_capacity - write_pos => Placed(c, write_pos, dest) \in Cells(dest_capacity)
    BY <2>1, Zenon DEF PlacedIn
  <2> QED
    BY <1>1, <1>4, <2>2, Zenon
<1>11. ConversionTypes'
  BY <1>1, <1>2, <1>5, <1>9, <1>10, Zenon DEF ConversionTypes
<1>12. \E m \in 0 .. n : WholeIn(m, src, dest', dest_capacity)
       /\ (m = n \/ write_pos' > dest_capacity)
  <2>1. CASE Len(c) <= dest_capacity - write_pos
    <3>1. write_pos <= dest_capacity /\ write_pos + Len(c) <= dest_capacity
          /\ ~(write_pos > dest_capacity)
      BY <1>4, <1>6, <2>1, SMT
    <3>2. dest = Placed(e[n - 1], 0, Fresh(dest_capacity)) /\ dest' = Placed(c, write_pos, dest)
      BY <1>1, <1>3, <1>5, <2>1, <3>1, Zenon DEF WholeIn, e
    <3>3. dest' = Placed(e[n - 1] \o c, 0, Fresh(dest_capacity))
      <4>1. write_pos = Len(e[n - 1]) /\ Len(c) <= dest_capacity - Len(e[n - 1])
        BY <1>2, <1>5, <2>1, Zenon
      <4>2. Fresh(dest_capacity) \in Cells(dest_capacity)
        BY <1>4, FreshFacts, Zenon
      <4> DEFINE F == Fresh(dest_capacity)
                 q == e[n - 1]
      <4>3. /\ dest_capacity \in Nat /\ F \in Cells(dest_capacity) /\ q \in Seq(Octets) /\ c \in Seq(Octets)
            /\ Len(c) <= dest_capacity - Len(q)
        BY <1>4, <1>6, <4>1, <4>2, Zenon
      <4>4. dest' = Placed(c, Len(q), Placed(q, 0, F))
        BY <3>2, <4>1, Zenon
      <4> HIDE DEF F, q
      <4>5. Placed(c, Len(q), Placed(q, 0, F)) = Placed(q \o c, 0, F)
        BY ONLY <4>3, PlacedMore, Zenon
      <4> QED
        BY <4>4, <4>5, Zenon DEF F, q
    <3>4. WholeIn(n, src, dest', dest_capacity)
      BY <1>1, <1>7, <1>8, <3>1, <3>3, Zenon DEF WholeIn, e
    <3> QED
      BY <1>5, <3>4, Zenon
  <2>2. CASE ~(Len(c) <= dest_capacity - write_pos)
    <3>1. write_pos + Len(c) > dest_capacity
      BY <1>4, <1>6, <2>2, SMT
    <3>2. dest' = dest
      BY <1>1, <2>2, Zenon
    <3>3. write_pos' > dest_capacity
      BY <1>1, <3>1, Zenon
    <3> QED
      BY <1>3, <1>5, <3>2, <3>3, Zenon
  <2> QED
    BY <2>1, <2>2, Zenon
<1>13. EncodeInv'
  BY <1>1, <1>2, <1>8, <1>12, Zenon DEF EncodeInv, e
<1> QED
  BY <1>1, <1>2, <1>11, <1>13, Zenon DEF ConversionIInv, DecodeInv, BytesInv

\* So does the start of the way back.
LEMMA TurnRoundInv ==
  ASSUME ConversionIInv, TurnRound
  PROVE  ConversionIInv'
<1>1. loop = "to_utf8" /\ read_pos = Len(src) /\ dest_capacity' = dest_capacity
      /\ kind' = kind /\ origin' = origin
  BY Zenon DEF TurnRound
<1>2. /\ ConversionTypes /\ kind = "latin1" /\ src = origin /\ write_pos = Len(Encoding(origin))
  BY <1>1, Zenon DEF ConversionIInv, EncodeInv, Encoding
<1>3. PICK k \in 0 .. read_pos : WholeIn(k, src, dest, dest_capacity)
           /\ (k = read_pos \/ write_pos > dest_capacity)
  BY <1>1, Zenon DEF ConversionIInv, EncodeInv
<1>4. /\ src \in Seq(CodePoints) /\ dest_capacity \in Nat /\ write_pos \in Nat
      /\ Len(origin) \in Nat
  BY <1>2, LenProperties, Zenon DEF ConversionTypes
<1>5. 0 \in 0 .. Len(origin) /\ Len(origin) \in 0 .. Len(origin) /\ 0 \in Nat
  BY <1>4, SMT
<1>6. Encoding(origin) \in Seq(Octets) /\ Encodings(origin)[0] = <<>> /\ Len(<<>>) = 0
  BY <1>2, <1>4, <1>5, EncodingsPrefix, EncodingsFacts, EmptySeq, Zenon
<1>7. ASSUME write_pos <= dest_capacity, loop' = "to_latin1", read_pos' = 0, write_pos' = 0,
             dest' = Fresh(dest_capacity), src' = [j \in 1 .. write_pos |-> dest[j - 1]]
      PROVE  ConversionIInv'
  <2> DEFINE E == Encoding(origin)
  <2>1. ~(write_pos > dest_capacity)
    BY <1>4, <1>7, SMT
  <2>2. dest = Placed(E, 0, Fresh(dest_capacity))
    BY <1>1, <1>2, <1>3, <2>1, Zenon DEF WholeIn, Encoding
  <2> HIDE DEF E
  <2>3. PlacedIn(dest, E, 0, Fresh(dest_capacity), dest_capacity)
    <3>1. write_pos <= dest_capacity - 0 /\ write_pos = Len(E)
      BY <1>2, <1>4, <1>7 DEF E
    <3> QED
      BY <1>4, <1>5, <1>6, <2>2, <3>1, FreshFacts, PlacedFacts, Zenon DEF E
  <2>4. E \in [1 .. write_pos -> Octets]
    BY <1>2, <1>6, LenProperties, Zenon DEF E
  <2>5. ASSUME NEW j \in 1 .. write_pos PROVE dest[j - 1] = E[j]
    <3>1. j - 1 \in 0 .. dest_capacity - 1 /\ j - 1 \in 0 .. 0 + write_pos - 1
          /\ (j - 1) - 0 + 1 = j
      BY <1>4, <1>7, SMT
    <3>2. dest[j - 1] = E[(j - 1) - 0 + 1]
      BY <1>2, <2>3, <3>1, Zenon DEF PlacedIn, E
    <3> QED
      BY <3>1, <3>2
  <2>6. src' = E
    BY <1>7, <2>4, <2>5, Zenon
  <2>7. src' \in Seq(Octets) /\ Len(src') \in Nat
    BY <1>6, <2>6, LenProperties, Zenon DEF E
  <2>8. 0 \in 0 .. Len(src')
    BY <2>7, SMT
  <2>9. ConversionTypes'
    BY <1>1, <1>2, <1>4, <1>5, <1>7, <2>7, <2>8, FreshFacts, Zenon DEF ConversionTypes
  <2>10. \A j \in 0 .. dest_capacity - 1 : ~(j < 0)
    BY SMT
  <2>11. DecodedSoFar'
    BY <1>1, <1>5, <1>6, <1>7, <2>6, <2>10, Zenon DEF DecodedSoFar, E
  <2> QED
    BY <1>1, <1>2, <1>7, <2>9, <2>11, Zenon DEF ConversionIInv, EncodeInv, DecodeInv, BytesInv
<1>8. ASSUME write_pos > dest_capacity, loop' = "done", src' = src, read_pos' = read_pos, dest' = dest,
             write_pos' = write_pos
      PROVE  ConversionIInv'
  <2>1. ConversionTypes'
    BY <1>1, <1>2, <1>8, Zenon DEF ConversionTypes
  <2> QED
    BY <1>1, <1>2, <1>8, <2>1, Zenon DEF ConversionIInv, EncodeInv, DecodeInv, BytesInv
<1> QED
  BY <1>7, <1>8, Zenon DEF TurnRound

\* What is left to read
Rest == SubSeq(src, read_pos + 1, Len(src))

\* A turn of utf8_to_latin1
LEMMA Turn ==
  ASSUME ConversionIInv, DecodeNext
  PROVE  /\ loop = "to_latin1" /\ read_pos' = read_pos + Past(Rest) /\ write_pos' = write_pos + 1
         /\ Rest \in Seq(Octets) /\ Len(Rest) >= 1 /\ read_pos \in 0 .. Len(src) - 1
         /\ Len(Rest) = Len(src) - read_pos
         /\ \A k \in 1 .. Len(Rest) : Rest[k] = src[read_pos + k]
         /\ Past(Rest) \in 1 .. Len(Rest) /\ Made(Rest) \in Octets
         /\ \A k \in 0 .. dest_capacity - 1 :
              dest'[k] = IF k = write_pos THEN Made(Rest) ELSE dest[k]
         /\ loop' = loop /\ kind' = kind /\ origin' = origin /\ src' = src
            /\ dest_capacity' = dest_capacity
         /\ ConversionTypes'
<1>1. /\ loop = "to_latin1" /\ read_pos < Len(src) /\ read_pos' = read_pos + Past(Rest)
      /\ write_pos' = write_pos + 1
      /\ loop' = loop /\ kind' = kind /\ origin' = origin /\ src' = src
         /\ dest_capacity' = dest_capacity
      /\ dest' = PutOne(Made(Rest), write_pos, dest, dest_capacity)
  BY Zenon DEF DecodeNext, ConvertOne, Past, Made, Rest, Fits, PutOne
<1>2. ConversionTypes
  BY Zenon DEF ConversionIInv
<1>3. /\ src \in Seq(Octets) /\ dest_capacity \in Nat /\ write_pos \in Nat
         /\ read_pos \in 0 .. Len(src)
      /\ dest \in Cells(dest_capacity) /\ Len(src) \in Nat
  BY <1>2, LenProperties, Zenon DEF ConversionTypes
<1>4. read_pos \in 0 .. Len(src) - 1
  BY <1>1, <1>3, SMT
<1>5. /\ Rest \in Seq(Octets) /\ Len(Rest) = Len(src) - read_pos /\ Len(Rest) \in Nat
         /\ Len(Rest) >= 1
      /\ \A k \in 1 .. Len(Rest) : Rest[k] = src[read_pos + k]
  BY <1>3, <1>4, RestOf, Zenon DEF Rest
<1>6. Past(Rest) \in 1 .. Len(Rest) /\ Made(Rest) \in Octets
  BY <1>5, TurnOf, Zenon
<1>7. /\ dest' \in Cells(dest_capacity)
      /\ \A k \in 0 .. dest_capacity - 1 : dest'[k] = IF k = write_pos THEN Made(Rest) ELSE dest[k]
  <2>1. PutIn(dest', Made(Rest), write_pos, dest, dest_capacity)
    BY <1>1, <1>3, <1>6, StoreOne, Zenon
  <2> QED
    BY <2>1, Zenon DEF PutIn
<1>8. read_pos' \in 0 .. Len(src) /\ write_pos' \in Nat
  <2> DEFINE n == Past(Rest)
             l == Len(Rest)
  <2>1. read_pos' = read_pos + n /\ l = Len(src) - read_pos /\ n \in 1 .. l
    BY <1>1, <1>5, <1>6, Zenon
  <2> HIDE DEF n, l
  <2> QED
    BY <1>1, <1>3, <2>1, SMT
<1>9. ConversionTypes'
  BY <1>1, <1>2, <1>7, <1>8, Zenon DEF ConversionTypes
<1> QED
  BY <1>1, <1>4, <1>5, <1>6, <1>7, <1>9, Zenon

\* A text has a character more as long as it has a byte more.
LEMMA MoreToRead ==
  ASSUME NEW t \in Seq(CodePoints), NEW w \in 0 .. Len(t)
  PROVE  /\ Len(Encodings(t)[w]) < Len(Encoding(t)) => w + 1 \in 1 .. Len(t)
         /\ Len(Encodings(t)[w]) >= Len(Encoding(t)) => w = Len(t)
<1>1. Len(t) \in Nat
  BY LenProperties, Zenon
<1>2. CASE w = Len(t)
  <2>1. Len(Encodings(t)[w]) = Len(Encoding(t))
    BY <1>2, Zenon DEF Encoding
  <2>2. Len(Encoding(t)) \in Nat
    BY EncodingsPrefix, Zenon
  <2>3. ~(Len(Encodings(t)[w]) < Len(Encoding(t)))
    BY <2>1, <2>2, SMT
  <2> QED
    BY <1>2, <2>3, Zenon
<1>3. CASE w # Len(t)
  <2> DEFINE n == w + 1
             p == Len(Encodings(t)[n - 1])
             q == Len(Encodings(t)[w])
             c == Len(utf8_encode_one(t[n]))
             a == Len(Encoding(t))
  <2>1. n \in 1 .. Len(t) /\ n - 1 = w
    BY <1>1, <1>3, SMT
  <2>2. p \in Nat /\ c \in 1 .. 4 /\ p + c <= a
    <3> HIDE DEF n
    <3> QED
      BY <2>1, EncodedAt, Zenon
  <2>3. a \in Nat /\ q = p
    BY <2>1, EncodingsPrefix, Zenon
  <2> HIDE DEF a, p, c, q
  <2>4. ~(q >= a)
    BY <2>2, <2>3, SMT
  <2> QED
    BY <2>1, <2>4, Zenon DEF a, q
<1> QED
  BY <1>2, <1>3, Zenon

\* A turn of utf8_to_latin1 over a text reads and stores one character.
LEMMA DecodeTextInv ==
  ASSUME ConversionIInv, DecodeNext, kind # "bytes"
  PROVE  DecodedSoFar'
<1> DEFINE n == write_pos + 1
           c == utf8_encode_one(origin[n])
           p == Len(Encodings(origin)[n - 1])
<1>1. ConversionTypes /\ DecodedSoFar /\ read_pos < Len(src)
  BY Zenon DEF ConversionIInv, DecodeInv, DecodeNext
<1>2. origin \in Seq(CodePoints) /\ dest_capacity \in Nat /\ write_pos \in Nat
  BY <1>1, Zenon DEF ConversionTypes
<1>3. /\ src = Encoding(origin) /\ write_pos \in 0 .. Len(origin)
         /\ read_pos = Len(Encodings(origin)[write_pos])
      /\ \A k \in 0 .. dest_capacity - 1 : k < write_pos => dest[k] = AsLatin1(origin[k + 1])
  BY <1>1, Zenon DEF DecodedSoFar
<1>4. n \in 1 .. Len(origin)
  BY <1>1, <1>2, <1>3, MoreToRead, Zenon
<1>5. n - 1 = write_pos /\ write_pos' = n
  BY <1>2, Turn, SMT
<1>6. read_pos = p
  BY <1>3, <1>5, Zenon
<1> HIDE DEF n, c
<1>7. /\ p \in Nat /\ Len(c) \in 1 .. 4 /\ p + Len(c) = Len(Encodings(origin)[n])
      /\ origin[n] \in CodePoints /\ p + Len(c) <= Len(src)
      /\ \A j \in 1 .. Len(c) : src[p + j] = c[j]
  BY <1>2, <1>3, <1>4, EncodedAt, Zenon DEF c
<1> HIDE DEF p
<1>8. /\ Rest \in Seq(Octets) /\ Len(Rest) = Len(src) - read_pos
      /\ \A k \in 1 .. Len(Rest) : Rest[k] = src[read_pos + k]
  BY Turn, Zenon
<1>9. Len(c) <= Len(Rest) /\ \A k \in 1 .. Len(c) : k \in 1 .. Len(Rest)
  <2> DEFINE lc == Len(c)
             ls == Len(src)
             lr == Len(Rest)
  <2>1. p \in Nat /\ lc \in 1 .. 4 /\ p + lc <= ls /\ lr = ls - p /\ ls \in Nat
    BY <1>1, <1>6, <1>7, <1>8, LenProperties, Zenon DEF ConversionTypes
  <2> HIDE DEF lc, ls, lr
  <2>2. lc <= lr /\ \A k \in 1 .. lc : k \in 1 .. lr
    BY <2>1, SMT
  <2> QED
    BY <2>2, Zenon DEF lc, lr
<1>10. \A k \in 1 .. Len(c) : Rest[k] = c[k]
  BY <1>6, <1>7, <1>8, <1>9, Zenon
<1>11. Past(Rest) = Len(c) /\ Made(Rest) = AsLatin1(origin[n])
  BY <1>7, <1>8, <1>9, <1>10, TurnOfEncoded, Zenon DEF c
<1>12. read_pos' = Len(Encodings(origin)[n])
  BY <1>6, <1>7, <1>11, Turn, Zenon
<1>13. ASSUME NEW k \in 0 .. dest_capacity - 1, k < n PROVE dest'[k] = AsLatin1(origin[k + 1])
  <2>1. dest'[k] = IF k = write_pos THEN AsLatin1(origin[n]) ELSE dest[k]
    BY <1>11, Turn, Zenon
  <2>2. k = write_pos => k + 1 = n
    BY Zenon DEF n
  <2>3. k # write_pos => k < write_pos
    BY <1>2, <1>5, <1>13, SMT DEF n
  <2> QED
    BY <1>3, <2>1, <2>2, <2>3, Zenon
<1>14. n \in 0 .. Len(origin)
  BY <1>4, SMT
<1> QED
  BY <1>3, <1>5, <1>12, <1>13, <1>14, Turn, Zenon DEF DecodedSoFar


\* What is written so far, as a sequence
FirstStored(d, w) == [n \in 1 .. w |-> d[n - 1]]

\* As many bytes as were written
LEMMA WrittenSeq ==
  ASSUME NEW capacity \in Nat, NEW d \in Cells(capacity), NEW w \in Nat, w <= capacity
  PROVE  FirstStored(d, w) \in Seq(Int) /\ Len(FirstStored(d, w)) = w
<1> DEFINE f == FirstStored(d, w)
<1>1. ASSUME NEW n \in 1 .. w PROVE d[n - 1] \in Int
  <2>1. n - 1 \in 0 .. capacity - 1
    BY SMT
  <2>2. d[n - 1] \in Stored
    BY <2>1, Zenon DEF Cells
  <2>3. Stored \subseteq Int
    BY SMT DEF Stored
  <2> QED
    BY <2>2, <2>3, Zenon
<1>2. f \in [1 .. w -> Int]
  BY <1>1, Zenon DEF FirstStored
<1> HIDE DEF f
<1>3. f \in Seq(Int) /\ Len(f) = w
  BY <1>2, FunctionSeq, Zenon
<1> QED
  BY <1>3, Zenon DEF f

\* A turn over any bytes keeps the ASCII.
LEMMA DecodeBytesInv ==
  ASSUME ConversionIInv, DecodeNext, kind = "bytes"
  PROVE  BytesInv'
<1> DEFINE r == read_pos
           w == write_pos
           a == Written
           b == Written'
           n == Past(Rest)
           m == Made(Rest)
<1>1. ConversionTypes /\ BytesInv
  BY Zenon DEF ConversionIInv
<1>2. /\ dest_capacity \in Nat /\ w \in Nat /\ dest \in Cells(dest_capacity) /\ src \in Seq(Octets)
      /\ Len(src) \in Nat /\ dest' \in Cells(dest_capacity)
  BY <1>1, Turn, LenProperties, Zenon DEF ConversionTypes
<1>3. /\ read_pos' = r + n /\ write_pos' = w + 1 /\ Rest \in Seq(Octets) /\ Len(Rest) >= 1
      /\ r \in 0 .. Len(src) - 1 /\ Len(Rest) = Len(src) - r
      /\ \A k \in 1 .. Len(Rest) : Rest[k] = src[r + k]
      /\ n \in 1 .. Len(Rest) /\ m \in Octets
      /\ \A k \in 0 .. dest_capacity - 1 : dest'[k] = IF k = w THEN m ELSE dest[k]
      /\ loop = "to_latin1" /\ loop' = loop /\ kind' = kind /\ origin' = origin /\ src' = src
      /\ dest_capacity' = dest_capacity
  BY Turn, Zenon
<1>4. ASSUME w + 1 <= dest_capacity, NoOverlongForms(src)
      PROVE  Ascii(b)[w + 1] = Ascii(src)[r + n]
  <2>1. w <= dest_capacity /\ w + 1 \in Nat /\ w \in 0 .. dest_capacity - 1 /\ w + 1 \in 1 .. w + 1
        /\ (w + 1) - 1 = w /\ w <= w /\ w <= w + 1
    BY <1>2, <1>4, SMT
  <2>2. a = [k \in 1 .. w |-> dest[k - 1]] /\ b = [k \in 1 .. w + 1 |-> dest'[k - 1]]
    BY <1>3, Zenon DEF Written
  <2> HIDE DEF a, b
  <2>3. a \in Seq(Int) /\ Len(a) = w
    <3>1. a = FirstStored(dest, w)
      BY <2>2, Zenon DEF FirstStored
    <3> QED
      BY <1>2, <2>1, <3>1, WrittenSeq, Zenon
  <2>4. b \in Seq(Int) /\ Len(b) = w + 1
    <3> DEFINE v == w + 1
    <3>1. v \in Nat /\ v <= dest_capacity /\ b = FirstStored(dest', v)
      BY <1>4, <2>1, <2>2, Zenon DEF FirstStored
    <3> HIDE DEF v
    <3>2. b \in Seq(Int) /\ Len(b) = v
      BY <1>2, <3>1, WrittenSeq, Zenon
    <3> QED
      BY <3>2, Zenon DEF v
  <2>5. ASSUME NEW k \in 1 .. w PROVE a[k] = b[k]
    <3>1. k \in 1 .. w + 1 /\ k - 1 \in 0 .. dest_capacity - 1 /\ k - 1 # w
      BY <1>2, <1>4, SMT
    <3>2. a[k] = dest[k - 1] /\ b[k] = dest'[k - 1]
      BY <2>2, <3>1, Zenon
    <3> QED
      BY <1>3, <3>1, <3>2, Zenon
  <2>6. b[w + 1] = m
    BY <1>3, <2>1, <2>2, Zenon
  <2>7. Ascii(b)[w] = Ascii(src)[r]
    <3>1. Ascii(a)[w] = Ascii(b)[w]
      BY <1>2, <2>1, <2>3, <2>4, <2>5, AsciiAgree, Zenon
    <3>2. Ascii(a)[w] = Ascii(src)[r]
      BY <1>1, <1>4, <2>1, Zenon DEF BytesInv, a
    <3> QED
      BY <3>1, <3>2, Zenon
  <2>8. Ascii(b)[w + 1] = IF Kept(m) THEN Append(Ascii(src)[r], m) ELSE Ascii(src)[r]
    <3>1. Ascii(b)[w + 1] = IF Kept(b[w + 1]) THEN Append(Ascii(b)[(w + 1) - 1], b[w + 1])
            ELSE Ascii(b)[(w + 1) - 1]
      BY <2>1, <2>4, AsciiFacts, Zenon
    <3> QED
      BY <2>1, <2>6, <2>7, <3>1
  <2>9. utf8_decode_one(Rest).size > 1 => utf8_decode_one(Rest).codepoint > 127
    <3>1. r + 1 \in 1 .. Len(src)
      BY <1>2, <1>3, SMT
    <3> QED
      BY <1>4, <3>1, Zenon DEF NoOverlongForms, Rest
  <2>10. \/ n = 1 /\ m = Rest[1]
         \/ ~Kept(m) /\ NotKept(Rest)
    BY <1>3, <2>9, TurnOf, Zenon
  <2>11. src \in Seq(Int)
    BY <1>2, OctetsAreCodePoints, Widen, Zenon
  <2>12. r \in Nat /\ n \in Nat /\ r + n <= Len(src) /\ 1 \in 1 .. Len(Rest)
         /\ r + 1 \in 1 .. Len(src) /\ (r + 1) - 1 = r
    <3> DEFINE l == Len(Rest)
    <3>1. l = Len(src) - r /\ n \in 1 .. l /\ l >= 1
      BY <1>3, Zenon
    <3> HIDE DEF n, l
    <3> QED
      BY <1>2, <1>3, <3>1, SMT DEF l
  <2>13. CASE n = 1 /\ m = Rest[1]
    <3>1. m = src[r + 1] /\ r + n = r + 1
      BY <1>3, <2>12, <2>13, Zenon
    <3>2. Ascii(src)[r + 1] = IF Kept(src[r + 1])
            THEN Append(Ascii(src)[(r + 1) - 1], src[r + 1]) ELSE Ascii(src)[(r + 1) - 1]
      BY <2>11, <2>12, AsciiFacts, Zenon
    <3> HIDE DEF n, m
    <3> QED
      BY <2>8, <2>12, <3>1, <3>2
  <2>14. CASE ~Kept(m) /\ NotKept(Rest)
    <3>1. Ascii(b)[w + 1] = Ascii(src)[r]
      BY <2>8, <2>14, Zenon
    <3>2. \A k \in 1 .. n : k \in 1 .. Len(Rest)
      <4> DEFINE l == Len(Rest)
      <4>1. n \in 1 .. l /\ l = Len(src) - r
        BY <1>3, Zenon
      <4> HIDE DEF n, l
      <4>2. \A k \in 1 .. n : k \in 1 .. l
        BY <1>2, <1>3, <4>1, SMT
      <4> QED
        BY <4>2, Zenon DEF l
    <3>3. \A k \in 1 .. n : ~Kept(src[r + k])
      BY <1>3, <2>14, <3>2, Zenon DEF NotKept
    <3>4. Ascii(src)[r + n] = Ascii(src)[r]
      <4> HIDE DEF n
      <4> QED
        BY <2>11, <2>12, <3>3, AsciiSkip, Zenon
    <3> QED
      BY <3>1, <3>4, Zenon
  <2> QED
    BY <2>10, <2>13, <2>14, Zenon
<1>5. write_pos' <= dest_capacity' /\ NoOverlongForms(src')
        => Ascii(Written')[write_pos'] = Ascii(src')[read_pos']
  BY <1>3, <1>4, Zenon
<1> QED
  BY <1>1, <1>3, <1>5, Zenon DEF BytesInv

\* A turn of utf8_to_latin1 keeps the invariant.
LEMMA DecodeNextInv ==
  ASSUME ConversionIInv, DecodeNext
  PROVE  ConversionIInv'
<1>1. loop = "to_latin1" /\ loop' = loop /\ kind' = kind /\ ConversionTypes'
  BY Turn, Zenon
<1>2. EncodeInv'
  BY <1>1, Zenon DEF EncodeInv
<1>3. CASE kind = "bytes"
  BY <1>1, <1>2, <1>3, DecodeBytesInv, Zenon DEF ConversionIInv, DecodeInv
<1>4. CASE kind # "bytes"
  BY <1>1, <1>2, <1>4, DecodeTextInv, Zenon DEF ConversionIInv, DecodeInv, BytesInv
<1> QED
  BY <1>3, <1>4, Zenon

\* So does the return.
LEMMA ReturnInv ==
  ASSUME ConversionIInv, ConversionReturn
  PROVE  ConversionIInv'
<1>1. /\ loop = "to_latin1" /\ read_pos >= Len(src) /\ loop' = "done" /\ kind' = kind
         /\ origin' = origin
      /\ src' = src /\ read_pos' = read_pos /\ dest' = dest /\ write_pos' = write_pos
      /\ dest_capacity' = dest_capacity
  BY Zenon DEF ConversionReturn
<1>2. ConversionTypes /\ BytesInv /\ DecodeInv
  BY Zenon DEF ConversionIInv
<1>3. read_pos = Len(src)
  <2>1. read_pos \in 0 .. Len(src) /\ Len(src) \in Nat
    BY <1>2, LenProperties, Zenon DEF ConversionTypes
  <2> QED
    BY <1>1, <2>1, SMT
<1>4. ConversionTypes'
  BY <1>1, <1>2, Zenon DEF ConversionTypes
<1>5. BytesInv'
  BY <1>1, <1>2, <1>3, Zenon DEF BytesInv, Written
<1>6. ASSUME kind # "bytes" PROVE DecodedSoFar /\ write_pos = Len(origin)
  <2>1. DecodedSoFar
    BY <1>1, <1>2, <1>6, Zenon DEF DecodeInv
  <2>2. origin \in Seq(CodePoints)
    BY <1>2, Zenon DEF ConversionTypes
  <2> QED
    BY <1>1, <2>1, <2>2, MoreToRead, Zenon DEF DecodedSoFar
<1>7. DecodedSoFar => DecodedSoFar'
  BY <1>1, Zenon DEF DecodedSoFar
<1>8. DecodeInv'
  BY <1>1, <1>6, <1>7, Zenon DEF DecodeInv
<1> QED
  BY <1>1, <1>4, <1>5, <1>8, Zenon DEF ConversionIInv, EncodeInv

\* The invariant of a conversion is inductive.
LEMMA ConversionStep ==
  ASSUME ConversionIInv, [ConversionNext]_conversionVars
  PROVE  ConversionIInv'
<1>1. CASE UNCHANGED conversionVars
  BY <1>1, Zenon DEF ConversionIInv, ConversionTypes, EncodeInv, DecodeInv, DecodedSoFar,
     BytesInv, Written,
     conversionVars
<1> QED
  BY <1>1, EncodeNextInv, TurnRoundInv, DecodeNextInv, ReturnInv, Zenon DEF ConversionNext

-----------------------------------------------------------------------------
(* The results                                                             *)

\* What the invariant says of the results
LEMMA ConversionResults ==
  ASSUME ConversionIInv
  PROVE  ConversionTypeOK /\ WholeCharacters /\ Latin1RoundTrip /\ TextConverted /\ AsciiSurvives
<1> DEFINE cap == dest_capacity
           got == IF write_pos < cap THEN write_pos ELSE cap
<1>1. ConversionTypes /\ EncodeInv /\ DecodeInv /\ BytesInv
  BY Zenon DEF ConversionIInv
<1>2. /\ src \in Seq(Octets) /\ origin \in Seq(CodePoints) /\ (kind # "text"
           => origin \in Seq(Octets))
      /\ cap \in Nat /\ write_pos \in Nat /\ dest \in Cells(cap) /\ Len(origin) \in Nat
  BY <1>1, LenProperties, Zenon DEF ConversionTypes
<1>3. ConversionTypeOK
  <2>1. \A k \in 1 .. Len(src) : src[k] \in 0 .. 255
    BY <1>2, ElementOfSeq, Zenon DEF Octets
  <2> QED
    BY <1>1, <2>1, Zenon DEF ConversionTypes, ConversionTypeOK, Cells, Stored
<1>4. WholeCharacters
  BY <1>1, Zenon DEF EncodeInv, WholeIn, WholeCharacters
<1>5. got \in Nat /\ got <= cap /\ got <= write_pos
  BY <1>2, SMT
<1>6. /\ Result = FirstStored(dest, got) /\ Len(Result) = got
      /\ \A k \in 1 .. got : Result[k] = dest[k - 1]
  <2>1. Result = FirstStored(dest, got)
    BY Zenon DEF Result, FirstStored
  <2> HIDE DEF got
  <2>2. Len(Result) = got
    BY <1>2, <1>5, <2>1, WrittenSeq, Zenon
  <2> QED
    BY <2>1, <2>2, Zenon DEF FirstStored
<1>7. ASSUME DecodedSoFar, write_pos = Len(origin)
      PROVE  \A k \in 1 .. got : k \in 1 .. Len(origin) /\ Result[k] = AsLatin1(origin[k])
  <2> SUFFICES ASSUME NEW k \in 1 .. got
               PROVE  k \in 1 .. Len(origin) /\ Result[k] = AsLatin1(origin[k])
    BY Zenon
  <2> HIDE DEF got
  <2>1. k \in 1 .. Len(origin) /\ k - 1 \in 0 .. cap - 1 /\ k - 1 < write_pos /\ (k - 1) + 1 = k
    BY <1>2, <1>5, <1>7, SMT
  <2>2. dest[k - 1] = AsLatin1(origin[(k - 1) + 1])
    BY <1>7, <2>1, Zenon DEF DecodedSoFar
  <2> QED
    BY <1>6, <2>1, <2>2
<1>8. ASSUME loop = "done", kind = "latin1", write_pos <= cap
      PROVE  Result = origin /\ write_pos = Len(origin)
  <2>1. ~(write_pos > cap)
    BY <1>2, <1>8, SMT
  <2>2. DecodedSoFar /\ write_pos = Len(origin)
    BY <1>1, <1>8, <2>1, Zenon DEF DecodeInv
  <2>3. got = Len(origin)
    BY <1>2, <1>8, <2>2, SMT
  <2>4. origin \in Seq(Octets)
    BY <1>2, <1>8, Zenon
  <2>5. ASSUME NEW k \in 1 .. got PROVE Result[k] = origin[k]
    <3>1. k \in 1 .. Len(origin) /\ Result[k] = AsLatin1(origin[k])
      BY <1>7, <2>2, Zenon
    <3>2. origin[k] \in Octets
      BY <2>4, <3>1, ElementOfSeq, Zenon
    <3> DEFINE o == origin[k]
    <3>3. o \in Octets
      BY <3>2, Zenon
    <3> HIDE DEF o
    <3>4. o < 256
      BY <3>3, SMT DEF Octets
    <3> QED
      BY <3>1, <3>4, Zenon DEF o, AsLatin1
  <2>6. Result \in [1 .. Len(origin) -> Octets] /\ origin \in [1 .. Len(origin) -> Octets]
    <3>1. origin \in [1 .. Len(origin) -> Octets]
      BY <2>4, LenProperties, Zenon
    <3>2. Result = [k \in 1 .. Len(origin) |-> dest[k - 1]]
      BY <1>6, <2>3, Zenon DEF FirstStored
    <3>3. \A k \in 1 .. Len(origin) : dest[k - 1] \in Octets
      BY <1>6, <2>3, <2>5, <3>1, Zenon
    <3> QED
      BY <3>1, <3>2, <3>3, Zenon
  <2>7. Result = origin
    <3> DEFINE a == Result
               N == Len(origin)
    <3>1. a \in [1 .. N -> Octets] /\ origin \in [1 .. N -> Octets]
          /\ \A k \in 1 .. N : a[k] = origin[k]
      BY <2>3, <2>5, <2>6, Zenon
    <3> HIDE DEF a, N
    <3>2. a \in Seq(Octets) /\ Len(a) = N
      BY <1>2, <3>1, FunctionSeq, Zenon DEF N
    <3>3. a = origin
      BY <2>4, <3>1, <3>2, SeqEqual, Zenon DEF N
    <3> QED
      BY <3>3, Zenon DEF a
  <2> QED
    BY <2>2, <2>7, Zenon
<1>9. Latin1RoundTrip
  BY <1>8, Zenon DEF Latin1RoundTrip
<1>10. ASSUME loop = "done", kind = "text"
       PROVE  LET bytes == [k \in 1 .. Len(origin) |-> IF origin[k] < 256 THEN origin[k]
                ELSE QuestionMark]
              IN  write_pos = Len(origin) /\ Result = SubSeq(bytes, 1, Len(Result))
  <2> DEFINE bytes == [k \in 1 .. Len(origin) |-> IF origin[k] < 256 THEN origin[k]
    ELSE QuestionMark]
             sub == SubSeq(bytes, 1, got)
  <2>1. DecodedSoFar /\ write_pos = Len(origin)
    BY <1>1, <1>10, Zenon DEF DecodeInv
  <2>2. \A k \in 1 .. got : k \in 1 .. Len(origin) /\ Result[k] = AsLatin1(origin[k])
    BY <1>7, <2>1, Zenon
  <2>3. \A k \in 1 .. got : Result[k] = bytes[k]
    <3> HIDE DEF got
    <3> QED
      BY <2>2, Zenon DEF AsLatin1
  <2>4. Result \in Seq(Int)
    <3> HIDE DEF got
    <3> QED
      BY <1>2, <1>5, <1>6, WrittenSeq, Zenon
  <2> HIDE DEF bytes, got
  <2>5. 1 \in Int /\ got \in Int /\ (IF 1 <= got THEN got - 1 + 1 ELSE 0) = got /\ got - 1 + 1 = got
    BY <1>5, SMT
  <2>6. \A k \in 1 .. got : bytes[k] \in Int
    <3>1. \A k \in 1 .. got : Result[k] \in Int
      BY <1>6, <2>4, ElementOfSeq, Zenon
    <3> QED
      BY <2>3, <3>1, Zenon
  <2>7. /\ sub \in Seq(Int) /\ Len(sub) = IF 1 <= got THEN got - 1 + 1 ELSE 0
        /\ \A k \in 1 .. got - 1 + 1 : sub[k] = bytes[1 + k - 1]
    BY <2>5, <2>6, SubSeqProperties
  <2>8. \A k \in 1 .. got : 1 + k - 1 = k
    BY <1>5, SMT
  <2> HIDE DEF sub
  <2>9. Len(sub) = got /\ \A k \in 1 .. got : sub[k] = bytes[k]
    BY <2>5, <2>7, <2>8
  <2>10. Result = sub
    BY <1>6, <2>3, <2>4, <2>7, <2>9, SeqEqual, Zenon
  <2> QED
    BY <1>6, <2>1, <2>10, Zenon DEF sub, bytes
<1>11. TextConverted
  BY <1>10, Zenon DEF TextConverted
<1>12. ASSUME loop = "done", kind = "bytes", write_pos <= cap, NoOverlongForms(origin)
       PROVE  Ascii(Result)[Len(Result)] = Ascii(origin)[Len(origin)]
  <2>1. got = write_pos
    BY <1>2, <1>12, SMT
  <2>2. Result = Written
    BY <1>6, <2>1, Zenon DEF Written, FirstStored
  <2> QED
    BY <1>1, <1>6, <1>12, <2>1, <2>2, Zenon DEF BytesInv
<1>13. AsciiSurvives
  BY <1>12, Zenon DEF AsciiSurvives
<1> QED
  BY <1>3, <1>4, <1>9, <1>11, <1>13, Zenon

(* latin1_to_utf8 and utf8_to_latin1 lose nothing that Latin-1 has, make one byte
   of each character of a text, keep the ASCII of any bytes, and store no character
   in part and nothing past the capacity.  For all strings and all capacities. *)
THEOREM TextSurvivesHolds == ConversionSpec => [](loop # "none" /\ TextSurvives)
<1>1. ConversionIInv => loop # "none" /\ TextSurvives
  <2>1. ConversionIInv => /\ ConversionTypeOK /\ WholeCharacters /\ Latin1RoundTrip
                          /\ TextConverted /\ AsciiSurvives
    BY ConversionResults, Zenon
  <2>2. ConversionTypeOK => loop # "none"
    BY Zenon DEF ConversionTypeOK
  <2> QED
    BY <2>1, <2>2, Zenon DEF TextSurvives
<1>2. ConversionInit => ConversionIInv
  BY InitConversion, Zenon
<1>3. ConversionIInv /\ [ConversionNext]_conversionVars => ConversionIInv'
  BY ConversionStep, Zenon
<1> QED
  BY <1>1, <1>2, <1>3, PTL DEF ConversionSpec

=============================================================================
