---------------------------- MODULE PacketProofs ----------------------------
(***************************************************************************)
(* Proofs about what a packet goes through: Buffers, for any fields and    *)
(* any size of the buffer, and Xtea, for any keys, messages and number of  *)
(* rounds.                                                                 *)
(***************************************************************************)
EXTENDS Buffers, Xtea, DataInduction

-----------------------------------------------------------------------------
(* Numbers and their bytes                                                 *)

\* What a byte may be, and a buffer with some bytes not stored yet
ByteSet == 0 .. Base - 1
Cells == [Offsets -> {-1} \cup ByteSet]
\* The two kinds of fields
StringField(f) == f.type = "string" /\ f.value \in Seq(Nat) /\ Len(f.value) \in Numbers(4)
NumberField(f) == f.type # "string" /\ f.value \in Numbers(Width(f.type))

\* The constants
LEMMA BaseFacts == Base \in Nat /\ Base >= 2 /\ Question \in ByteSet /\ Size \in Nat
                   /\ Size \in Numbers(4)
  BY BuffersAssumption, SMT DEF Numbers, ByteSet

\* A field is a text or a number that fits its type.
LEMMA FieldFacts == ASSUME NEW f \in Fields PROVE StringField(f) \/ NumberField(f)
  BY BuffersAssumption, Zenon DEF StringField, NumberField

\* A number is its last byte and the rest.
LEMMA Division == ASSUME NEW n \in Nat
  PROVE /\ n \div Base \in Nat /\ n % Base \in ByteSet
        /\ n = (n % Base) + Base * (n \div Base)
  BY BaseFacts, SMT DEF ByteSet

\* The rest has one byte less.
LEMMA QuotientLess == ASSUME NEW n \in Nat, NEW k \in Nat, n < Base * k
  PROVE n \div Base < k
<1> DEFINE q == n \div Base
<1>1. q \in Nat /\ Base * q <= n
  BY Division, BaseFacts, SMT DEF ByteSet
<1> HIDE DEF q
<1>2. SUFFICES ASSUME q >= k PROVE FALSE
  BY <1>1, SMT DEF q
<1>3. Base * q >= Base * k
  BY <1>1, <1>2, BaseFacts, SMT
<1> QED BY <1>1, <1>3, BaseFacts, SMT

\* A byte of a number is one.
LEMMA ByteType == ASSUME NEW n \in Nat, NEW j PROVE Byte(n, j) \in ByteSet
<1> DEFINE n1 == n \div Base
           n2 == n1 \div Base
           n3 == n2 \div Base
<1>1. n1 \in Nat /\ n2 \in Nat /\ n3 \in Nat
  BY Division, Zenon
<1>2. n % Base \in ByteSet /\ n1 % Base \in ByteSet /\ n2 % Base \in ByteSet
      /\ n3 % Base \in ByteSet
  BY <1>1, Division, Zenon
<1> QED
  BY <1>2, Zenon DEF Byte

\* The number that four bytes make
Value(b1, b2, b3, b4) == b1 + Base * (b2 + Base * (b3 + Base * b4))

\* The bytes of a number make it again, if it fits in them.
LEMMA Decoded ==
  /\ \A n \in Numbers(1) : Byte(n, 1) = n
  /\ \A n \in Numbers(2) : Byte(n, 1) + Base * Byte(n, 2) = n
  /\ \A n \in Numbers(4) : Value(Byte(n, 1), Byte(n, 2), Byte(n, 3), Byte(n, 4)) = n
<1> DEFINE q1(n) == n \div Base
           q2(n) == q1(n) \div Base
           q3(n) == q2(n) \div Base
<1>1. \A n \in Nat : Byte(n, 1) = n % Base /\ Byte(n, 2) = q1(n) % Base
                     /\ Byte(n, 3) = q2(n) % Base /\ Byte(n, 4) = q3(n) % Base
  BY SMT DEF Byte
<1>2. ASSUME NEW n \in Nat, n < Base PROVE n % Base = n /\ n \div Base = 0
  <2>1. n \div Base < 1
    <3>1. n < Base * 1 /\ 1 \in Nat
      BY <1>2, BaseFacts, SMT
    <3> QED
      BY <3>1, QuotientLess, Zenon
  <2>2. n \div Base = 0
    BY <2>1, Division, SMT
  <2> QED
    BY <2>2, Division, BaseFacts, SMT
<1>3. ASSUME NEW n \in Nat PROVE n = (n % Base) + Base * q1(n) /\ q1(n) \in Nat
  BY Division, Zenon
<1>4. ASSUME NEW n \in Numbers(1) PROVE Byte(n, 1) = n
  <2>1. n \in Nat /\ n < Base
    BY BaseFacts, SMT DEF Numbers
  <2> QED
    BY <2>1, <1>1, <1>2, Zenon
<1>5. ASSUME NEW n \in Numbers(2) PROVE Byte(n, 1) + Base * Byte(n, 2) = n
  <2>1. n \in Nat /\ n < Base * Base
    BY BaseFacts, SMT DEF Numbers
  <2>2. q1(n) \in Nat /\ q1(n) < Base
    BY <2>1, BaseFacts, QuotientLess, <1>3, Zenon
  <2>3. q1(n) % Base = q1(n)
    BY <2>2, <1>2, Zenon
  <2> QED
    BY <2>1, <2>3, <1>1, <1>3, Zenon
<1>6. ASSUME NEW n \in Numbers(4)
      PROVE  Value(Byte(n, 1), Byte(n, 2), Byte(n, 3), Byte(n, 4)) = n
  <2>1. n \in Nat /\ n < Base * (Base * (Base * Base)) /\ Base * (Base * Base) \in Nat
        /\ Base * Base \in Nat
    BY BaseFacts, SMT DEF Numbers
  <2>2. q1(n) \in Nat /\ q1(n) < Base * (Base * Base)
    BY <2>1, QuotientLess, <1>3, Zenon
  <2>3. q2(n) \in Nat /\ q2(n) < Base * Base
    BY <2>1, <2>2, QuotientLess, Division, Zenon
  <2>4. q3(n) \in Nat /\ q3(n) < Base
    BY <2>3, BaseFacts, QuotientLess, Division, Zenon
  <2>5. q3(n) % Base = q3(n)
    BY <2>4, <1>2, Zenon
  <2>6. q2(n) = (q2(n) % Base) + Base * q3(n)
    BY <2>3, Division, Zenon
  <2>7. q1(n) = (q1(n) % Base) + Base * q2(n)
    BY <2>2, Division, Zenon
  <2>8. n = (n % Base) + Base * q1(n)
    BY <2>1, Division, Zenon
  <2> QED
    BY <2>1, <2>5, <2>6, <2>7, <2>8, <1>1, Zenon DEF Value
<1> QED
  BY <1>4, <1>5, <1>6, Zenon

\* The widths of numbers
Widths == {1, 2, 4}

\* What is written of a number are its bytes, in the order asked for.
LEMMA EncodeFacts ==
  ASSUME NEW n \in Nat, NEW width \in Widths, NEW order
  PROVE  /\ Encode(n, width, order) \in Seq(ByteSet) /\ Len(Encode(n, width, order)) = width
         /\ \A j \in 1 .. width : Encode(n, width, order)[j] = Byte(n, IF order = "be"
              THEN width + 1 - j ELSE j)
<1>1. Encode(n, width, order) \in [1 .. width -> ByteSet]
  BY ByteType, Zenon DEF Encode
<1>2. width \in Nat
  BY SMT DEF Widths
<1>3. \A j \in 1 .. width : Encode(n, width, order)[j] = Byte(n, IF order = "be"
        THEN width + 1 - j ELSE j)
  BY Zenon DEF Encode
<1> QED
  BY <1>1, <1>2, <1>3, FunctionSeq, Zenon

\* The same for one of them
LEMMA EncodeAt ==
  ASSUME NEW n \in Nat, NEW width \in Widths, NEW order, NEW j \in 1 .. width
  PROVE  /\ Len(Encode(n, width, order)) = width
         /\ Encode(n, width, order)[j] = Byte(n, IF order = "be" THEN width + 1 - j ELSE j)
BY EncodeFacts, Zenon

\* A text becomes as many bytes as it has characters.
LEMMA LatinFacts ==
  ASSUME NEW text \in Seq(Nat)
  PROVE  ToLatin1(text) \in Seq(ByteSet) /\ Len(ToLatin1(text)) = Len(text)
<1>1. Len(text) \in Nat /\ \A j \in 1 .. Len(text) : text[j] \in Nat
  BY LenProperties, ElementOfSeq, Zenon
<1>2. \A n \in Nat : (IF n < Base THEN n ELSE Question) \in ByteSet
  BY BaseFacts, SMT DEF ByteSet
<1>3. ToLatin1(text) \in [1 .. Len(text) -> ByteSet]
  BY <1>1, <1>2, Zenon DEF ToLatin1
<1> QED
  BY <1>1, <1>3, FunctionSeq, Zenon

-----------------------------------------------------------------------------
(* Fields and where they end                                               *)

\* The bytes before a text, and those of a field
Measure(n) ==
    IF n < Mark THEN Encode(n, 2, "le")
    ELSE Encode(Mark, 2, "le") \o Encode(n, 4, "le")

Encoded(f) ==
    IF f.type = "string" THEN Measure(Len(f.value)) \o ToLatin1(f.value)
    ELSE Encode(f.value, Width(f.type), Order(f.type))

\* Every number has one of the widths.
LEMMA WidthFacts == ASSUME NEW t PROVE Width(t) \in Widths /\ Width(t) \in Nat
  BY SMT DEF Width, Widths

\* Numbers of a width are numbers.
LEMMA NumbersNat == ASSUME NEW w, NEW n \in Numbers(w) PROVE n \in Nat
  BY SMT DEF Numbers

\* The length that announces a longer one fits in two bytes.
LEMMA MarkFacts == Mark \in Nat /\ Mark >= 3 /\ Mark \in Numbers(2)
  BY BaseFacts, SMT DEF Mark, Numbers

\* The bytes before a text are two or six.
LEMMA MeasureFacts ==
  ASSUME NEW n \in Nat
  PROVE  Measure(n) \in Seq(ByteSet) /\ Len(Measure(n)) = Lead(n) /\ Lead(n) \in {2, 6}
<1>1. CASE n < Mark
  BY <1>1, EncodeFacts, Zenon DEF Measure, Lead, Widths
<1>2. CASE ~(n < Mark)
  <2>1. /\ Encode(Mark, 2, "le") \in Seq(ByteSet) /\ Len(Encode(Mark, 2, "le")) = 2
        /\ Encode(n, 4, "le") \in Seq(ByteSet) /\ Len(Encode(n, 4, "le")) = 4
    BY EncodeFacts, MarkFacts, Zenon DEF Widths
  <2>2. Measure(n) \in Seq(ByteSet) /\ Len(Measure(n)) = 2 + 4
    <3> DEFINE a == Encode(Mark, 2, "le")
               b == Encode(n, 4, "le")
    <3>1. Measure(n) = a \o b
      BY <1>2, Zenon DEF Measure
    <3> HIDE DEF a, b
    <3>2. a \o b \in Seq(ByteSet) /\ Len(a \o b) = Len(a) + Len(b)
      BY <2>1, ConcatProperties, Zenon DEF a, b
    <3> QED
      BY <2>1, <3>1, <3>2, Zenon DEF a, b
  <2>3. Lead(n) = 2 + 4
    BY <1>2, SMT DEF Lead
  <2> QED
    BY <2>2, <2>3, SMT
<1> QED
  BY <1>1, <1>2, Zenon

\* A field is written in as many bytes as it should take, one at least.
LEMMA EncodedFacts ==
  ASSUME NEW f \in Fields
  PROVE  /\ Encoded(f) \in Seq(ByteSet) /\ Len(Encoded(f)) = Taken(f)
         /\ Taken(f) \in Nat /\ Taken(f) >= 1
<1>1. CASE StringField(f)
  <2>1. Len(f.value) \in Nat
    BY <1>1, LenProperties, Zenon DEF StringField
  <2>2. /\ ToLatin1(f.value) \in Seq(ByteSet) /\ Len(ToLatin1(f.value)) = Len(f.value)
    BY <1>1, LatinFacts, Zenon DEF StringField
  <2>3. /\ Encoded(f) \in Seq(ByteSet)
        /\ Len(Encoded(f)) = Lead(Len(f.value)) + Len(f.value)
        /\ Lead(Len(f.value)) \in {2, 6}
    <3> DEFINE a == Measure(Len(f.value))
               b == ToLatin1(f.value)
    <3>1. Encoded(f) = a \o b
      BY <1>1, Zenon DEF Encoded, StringField
    <3>2. a \in Seq(ByteSet) /\ Len(a) = Lead(Len(f.value)) /\ Lead(Len(f.value)) \in {2, 6}
      BY <2>1, MeasureFacts, Zenon
    <3> HIDE DEF a, b
    <3>3. a \o b \in Seq(ByteSet) /\ Len(a \o b) = Len(a) + Len(b)
      BY <2>2, <3>2, ConcatProperties, Zenon DEF b
    <3> QED
      BY <2>2, <3>1, <3>2, <3>3, Zenon DEF b
  <2>4. Taken(f) = Lead(Len(f.value)) + Len(f.value)
    BY <1>1, Zenon DEF Taken, StringField
  <2> QED
    BY <2>1, <2>3, <2>4, SMT
<1>2. CASE NumberField(f)
  <2>1. f.value \in Nat
    BY <1>2, NumbersNat, Zenon DEF NumberField
  <2>2. Encoded(f) \in Seq(ByteSet) /\ Len(Encoded(f)) = Width(f.type)
    <3>1. Encoded(f) = Encode(f.value, Width(f.type), Order(f.type))
      BY <1>2, Zenon DEF Encoded, NumberField
    <3>2. Width(f.type) \in Widths
      BY WidthFacts, Zenon
    <3>3. /\ Encode(f.value, Width(f.type), Order(f.type)) \in Seq(ByteSet)
          /\ Len(Encode(f.value, Width(f.type), Order(f.type))) = Width(f.type)
      BY <2>1, <3>2, EncodeFacts, Zenon
    <3> QED
      BY <3>1, <3>3, Zenon
  <2>3. Taken(f) = Width(f.type)
    BY <1>2, Zenon DEF Taken, NumberField
  <2> QED
    BY <2>2, <2>3, WidthFacts, SMT DEF Widths
<1> QED
  BY <1>1, <1>2, FieldFacts, Zenon

\* Ends, as its definition says
LEMMA EndsFacts ==
  ASSUME NEW fs \in Seq(Fields)
  PROVE  /\ Ends(fs) \in [0 .. Len(fs) -> Nat] /\ Ends(fs)[0] = 0
         /\ \A n \in 1 .. Len(fs) : Ends(fs)[n] = Ends(fs)[n - 1] + Taken(fs[n])
<1> DEFINE N == Len(fs)
           step == [n \in 1 .. N |-> [s \in Nat |-> s + Taken(fs[n])]]
           D(g) == g = [n \in 0 .. N |-> IF n = 0 THEN 0 ELSE g[n - 1] + Taken(fs[n])]
           e == Ends(fs)
<1>1. N \in Nat /\ 0 \in Nat /\ \A n \in 1 .. N : Taken(fs[n]) \in Nat
  <2>1. \A n \in 1 .. N : Taken(fs[n]) \in Nat
    BY EncodedFacts, ElementOfSeq, Zenon
  <2> QED
    BY <2>1, LenProperties, SMT
<1>2. step \in [1 .. N -> [Nat -> Nat]]
  <2>1. \A a, b \in Nat : a + b \in Nat
    BY SMT
  <2> QED
    BY <1>1, <2>1, Zenon
<1>3. PICK f : Iterated(f, N, Nat, 0, step)
  <2> HIDE DEF step, N
  <2> QED
    BY <1>1, <1>2, Iteration, Zenon
<1>4. ASSUME NEW n \in 0 .. N, n # 0 PROVE n \in 1 .. N /\ n - 1 \in 0 .. N
  BY <1>1, <1>4, SMT
<1>5. D(f)
  <2>1. f \in [0 .. N -> Nat] /\ f[0] = 0 /\ \A n \in 1 .. N : f[n] = step[n][f[n - 1]]
    BY <1>3, Zenon DEF Iterated
  <2>2. ASSUME NEW n \in 0 .. N PROVE f[n] = IF n = 0 THEN 0 ELSE f[n - 1] + Taken(fs[n])
    BY <1>4, <2>1, Zenon
  <2> QED
    BY <2>1, <2>2, Zenon
<1>6. D(e)
  BY <1>5, Zenon DEF Ends
<1> HIDE DEF e
<1>7. 0 \in 0 .. N /\ \A n \in 1 .. N : n \in 0 .. N /\ n # 0
  BY <1>1, SMT
<1>8. e[0] = 0 /\ \A n \in 1 .. N : e[n] = e[n - 1] + Taken(fs[n])
  BY <1>6, <1>7, Zenon
<1> DEFINE Typed == { n \in 0 .. N : e[n] \in Nat }
<1>9. \A n \in 0 .. N : n \in Typed
  <2>1. 0 \in Typed
    BY <1>1, <1>7, <1>8, Zenon
  <2>2. ASSUME NEW n \in 1 .. N, n - 1 \in Typed PROVE n \in Typed
    <3>1. \A a, b \in Nat : a + b \in Nat
      BY SMT
    <3> QED
      BY <1>1, <1>7, <1>8, <2>2, <3>1, Zenon
  <2> HIDE DEF Typed, N
  <2> QED
    BY <1>1, <2>1, <2>2, UpTo, Zenon
<1>10. e \in [0 .. N -> Nat]
  <2>1. e = [n \in 0 .. N |-> IF n = 0 THEN 0 ELSE e[n - 1] + Taken(fs[n])]
    BY <1>6, Zenon
  <2> QED
    BY <1>9, <2>1, Zenon
<1> QED
  BY <1>8, <1>10, Zenon DEF e

\* A field more
LEMMA EndsAppend ==
  ASSUME NEW fs \in Seq(Fields), NEW f \in Fields
  PROVE  /\ \A n \in 0 .. Len(fs) : Ends(Append(fs, f))[n] = Ends(fs)[n]
         /\ Total(Append(fs, f)) = Total(fs) + Taken(f)
<1> DEFINE gs == Append(fs, f)
           Same == { n \in 0 .. Len(fs) : Ends(gs)[n] = Ends(fs)[n] }
<1>1. /\ gs \in Seq(Fields) /\ Len(gs) = Len(fs) + 1 /\ Len(fs) \in Nat
      /\ \A j \in 1 .. Len(fs) : gs[j] = fs[j]
      /\ gs[Len(fs) + 1] = f
  <2>1. Len(fs) \in Nat
    BY LenProperties, Zenon
  <2> QED
    BY <2>1, AppendProperties
<1> HIDE DEF gs
<1>2. /\ Ends(fs)[0] = 0 /\ \A n \in 1 .. Len(fs) : Ends(fs)[n] = Ends(fs)[n - 1] + Taken(fs[n])
      /\ Ends(gs)[0] = 0 /\ \A n \in 1 .. Len(gs) : Ends(gs)[n] = Ends(gs)[n - 1] + Taken(gs[n])
  BY <1>1, EndsFacts, Zenon
<1>3. 0 \in 0 .. Len(fs) /\ \A n \in 1 .. Len(fs) : n \in 0 .. Len(fs) /\ n \in 1 .. Len(gs)
  BY <1>1, SMT
<1>4. \A n \in 0 .. Len(fs) : n \in Same
  <2>1. 0 \in Same
    BY <1>2, <1>3, Zenon
  <2>2. ASSUME NEW n \in 1 .. Len(fs), n - 1 \in Same PROVE n \in Same
    <3>1. /\ Ends(gs)[n] = Ends(gs)[n - 1] + Taken(gs[n])
          /\ Ends(fs)[n] = Ends(fs)[n - 1] + Taken(fs[n])
      BY <1>2, <1>3, Zenon
    <3> QED
      BY <1>1, <1>3, <2>2, <3>1, Zenon
  <2> HIDE DEF Same
  <2> QED
    BY <1>1, <2>1, <2>2, UpTo, Zenon
<1>5. Len(gs) \in 1 .. Len(gs) /\ Len(gs) - 1 = Len(fs) /\ Len(fs) \in 0 .. Len(fs)
  BY <1>1, SMT
<1>6. Ends(gs)[Len(gs)] = Ends(gs)[Len(gs) - 1] + Taken(gs[Len(gs)])
  BY <1>2, <1>5, Zenon
<1>7. Total(gs) = Total(fs) + Taken(f)
  BY <1>1, <1>4, <1>5, <1>6, Zenon DEF Total
<1> QED
  BY <1>4, <1>7, Zenon DEF gs

\* A field ends where the fields after it begin.
LEMMA EndsOrdered ==
  ASSUME NEW fs \in Seq(Fields), NEW m \in 0 .. Len(fs), NEW n \in 0 .. Len(fs), m <= n
  PROVE  /\ Ends(fs)[m] \in Nat /\ Ends(fs)[n] \in Nat /\ Ends(fs)[m] <= Ends(fs)[n]
         /\ Total(fs) \in Nat /\ Ends(fs)[n] <= Total(fs)
<1> DEFINE N == Len(fs)
           e == Ends(fs)
           Above(b) == { k \in 0 .. N : b <= k => e[b] <= e[k] }
<1>1. N \in Nat
  BY LenProperties, Zenon
<1>2. e \in [0 .. N -> Nat] /\ \A k \in 1 .. N : e[k] = e[k - 1] + Taken(fs[k])
  BY EndsFacts, Zenon
<1>3. \A k \in 1 .. N : Taken(fs[k]) \in Nat
  BY ElementOfSeq, EncodedFacts, Zenon
<1> HIDE DEF e, N
<1>4. ASSUME NEW b \in 0 .. N PROVE \A k \in 0 .. N : k \in Above(b)
  <2>0. b \in Nat /\ 0 \in 0 .. N /\ e[b] \in Nat /\ e[0] \in Nat
    BY <1>1, <1>2, SMT
  <2>1. 0 \in Above(b)
    <3>1. b <= 0 => e[b] <= e[0]
      BY <2>0, SMT
    <3> QED
      BY <2>0, <3>1, Zenon
  <2>2. ASSUME NEW k \in 1 .. N, k - 1 \in Above(b) PROVE k \in Above(b)
    <3>1. ASSUME b <= k PROVE e[b] <= e[k]
      <4>1. CASE b = k
        BY <4>1, <2>0, SMT
      <4>2. CASE b # k
        <5>1. b <= k - 1 /\ k - 1 \in 0 .. N
          BY <3>1, <4>2, <2>0, <1>1, SMT
        <5>2. e[b] <= e[k - 1]
          BY <2>2, <5>1, Zenon
        <5>3. e[k] = e[k - 1] + Taken(fs[k]) /\ Taken(fs[k]) \in Nat /\ e[k - 1] \in Nat
          BY <5>1, <1>2, <1>3, Zenon
        <5>4. \A x, y, z \in Nat : x <= y => x <= y + z
          BY SMT
        <5> QED
          BY <2>0, <5>2, <5>3, <5>4, Zenon
      <4> QED
        BY <4>1, <4>2, Zenon
    <3>2. k \in 0 .. N
      BY <1>1, SMT
    <3> QED
      BY <3>1, <3>2, Zenon
  <2> HIDE DEF Above
  <2> QED
    BY <1>1, <2>1, <2>2, UpTo, Zenon
<1>5. n <= N /\ N \in 0 .. N /\ n \in 0 .. N /\ m \in 0 .. N
  BY <1>1, SMT DEF N
<1>6. e[m] \in Nat /\ e[n] \in Nat /\ e[N] \in Nat
  BY <1>2, <1>5, Zenon
<1>7. e[m] <= e[n] /\ e[n] <= e[N]
  BY <1>4, <1>5, Zenon
<1> QED
  BY <1>6, <1>7, Zenon DEF Total, e, N

-----------------------------------------------------------------------------
(* BufferWriter                                                            *)

\* A writer
Wr(b, pos) == [buffer |-> b, position |-> pos]

\* w is what a writer with buffer b at pos became by writing some bytes.
Wrote(w, b, pos, bytes) ==
    /\ w = Wr(w.buffer, w.position) /\ w.buffer \in Cells /\ w.position = pos + Len(bytes)
    /\ w.position <= Size =>
         \A k \in Offsets : w.buffer[k] = IF k \in pos .. pos + Len(bytes) - 1
                                          THEN bytes[k - pos + 1] ELSE b[k]

\* Store changes the cells from pos on, and no other.
LEMMA StoreFacts ==
  ASSUME NEW b \in Cells, NEW pos \in Nat, NEW bytes \in Seq(ByteSet)
  PROVE  /\ Store(bytes, b, pos) \in Cells
         /\ \A k \in Offsets : Store(bytes, b, pos)[k] =
              IF k \in pos .. pos + Len(bytes) - 1 THEN bytes[k - pos + 1] ELSE b[k]
<1>1. ASSUME NEW k \in Offsets, k \in pos .. pos + Len(bytes) - 1 PROVE bytes[k - pos + 1] \in ByteSet
  <2>1. k - pos + 1 \in 1 .. Len(bytes)
    BY <1>1, LenProperties, SMT
  <2> QED
    BY <2>1, ElementOfSeq, Zenon
<1>2. \A k \in Offsets : b[k] \in {-1} \cup ByteSet
  BY Zenon DEF Cells
<1> QED
  BY <1>1, <1>2, Zenon DEF Store, Cells

\* write_bytes writes the bytes or, past the end of the buffer, goes on alone.
LEMMA PutWrote ==
  ASSUME NEW b \in Cells, NEW pos \in Nat, NEW bytes \in Seq(ByteSet)
  PROVE  Wrote(Put(Wr(b, pos), bytes), b, pos, bytes)
<1> DEFINE w == Put(Wr(b, pos), bytes)
<1>1. Wr(b, pos).buffer = b /\ Wr(b, pos).position = pos
  BY Zenon DEF Wr
<1>2. /\ w.buffer = IF pos + Len(bytes) <= Size THEN Store(bytes, b, pos) ELSE b
      /\ w.position = pos + Len(bytes)
      /\ w = Wr(w.buffer, w.position)
  BY <1>1, Zenon DEF Put, Wr
<1> HIDE DEF w
<1>3. w.buffer \in Cells
  BY <1>2, StoreFacts, Zenon
<1>4. ASSUME w.position <= Size, NEW k \in Offsets
      PROVE  w.buffer[k] = IF k \in pos .. pos + Len(bytes) - 1 THEN bytes[k - pos + 1] ELSE b[k]
  <2>1. w.buffer = Store(bytes, b, pos)
    BY <1>2, <1>4, Zenon
  <2>2. Store(bytes, b, pos)[k] = IF k \in pos .. pos + Len(bytes) - 1
          THEN bytes[k - pos + 1] ELSE b[k]
    BY StoreFacts, Zenon
  <2> QED
    BY <2>1, <2>2, Zenon
<1> QED
  BY <1>2, <1>3, <1>4, Zenon DEF Wrote, w

\* Bytes written after bytes are written together.
LEMMA WroteMore ==
  ASSUME NEW b \in Cells, NEW pos \in Nat, NEW bytes \in Seq(ByteSet), NEW more \in Seq(ByteSet),
         NEW v, Wrote(v, b, pos, bytes), NEW w, Wrote(w, v.buffer, v.position, more)
  PROVE  Wrote(w, b, pos, bytes \o more)
<1> DEFINE all == bytes \o more
<1>1. Len(bytes) \in Nat /\ Len(more) \in Nat /\ v.position = pos + Len(bytes)
      /\ w.position = v.position + Len(more)
  BY LenProperties, Zenon DEF Wrote
<1>2. /\ Len(all) = Len(bytes) + Len(more)
      /\ \A j \in 1 .. Len(bytes) + Len(more) : all[j] = IF j <= Len(bytes) THEN bytes[j]
           ELSE more[j - Len(bytes)]
  BY ConcatProperties, Zenon
<1> HIDE DEF all
<1>3. w.position = pos + Len(all)
  BY <1>1, <1>2, SMT
<1>4. ASSUME w.position <= Size, NEW k \in Offsets
      PROVE  w.buffer[k] = IF k \in pos .. pos + Len(all) - 1 THEN all[k - pos + 1] ELSE b[k]
  <2>1. v.position <= Size
    BY <1>4, <1>1, BaseFacts, SMT
  <2>2. w.buffer[k] = IF k \in v.position .. v.position + Len(more) - 1
                      THEN more[k - v.position + 1] ELSE v.buffer[k]
    BY <1>4, Zenon DEF Wrote
  <2>3. v.buffer[k] = IF k \in pos .. pos + Len(bytes) - 1 THEN bytes[k - pos + 1] ELSE b[k]
    BY <2>1, Zenon DEF Wrote
  <2>4. k \in Nat
    BY BaseFacts, SMT DEF Offsets
  <2>5. CASE k \in pos .. pos + Len(bytes) - 1
    <3>1. k \notin v.position .. v.position + Len(more) - 1 /\ k \in pos .. pos + Len(all) - 1
      BY <2>4, <2>5, <1>1, <1>2, SMT
    <3>2. k - pos + 1 \in 1 .. Len(bytes) + Len(more) /\ k - pos + 1 <= Len(bytes)
      BY <2>4, <2>5, <1>1, SMT
    <3> QED
      BY <2>2, <2>3, <2>5, <3>1, <3>2, <1>2, Zenon
  <2>6. CASE k \in v.position .. v.position + Len(more) - 1
    <3>1. k \in pos .. pos + Len(all) - 1
      BY <2>4, <2>6, <1>1, <1>2, SMT
    <3>2. /\ k - pos + 1 \in 1 .. Len(bytes) + Len(more) /\ ~(k - pos + 1 <= Len(bytes))
          /\ (k - pos + 1) - Len(bytes) = k - v.position + 1
      BY <2>4, <2>6, <1>1, SMT
    <3> QED
      BY <2>2, <2>6, <3>1, <3>2, <1>2, Zenon
  <2>7. CASE k \notin pos .. pos + Len(bytes) - 1
        /\ k \notin v.position .. v.position + Len(more) - 1
    <3>1. k \notin pos .. pos + Len(all) - 1
      BY <2>4, <2>7, <1>1, <1>2, SMT
    <3> QED
      BY <2>2, <2>3, <2>7, <3>1, Zenon
  <2> QED
    BY <2>5, <2>6, <2>7, Zenon
<1>5. w = Wr(w.buffer, w.position) /\ w.buffer \in Cells
  BY Zenon DEF Wrote
<1> QED
  BY <1>3, <1>4, <1>5, Zenon DEF Wrote, all

\* Every write of a field writes its bytes.
LEMMA WriteWrote ==
  ASSUME NEW b \in Cells, NEW pos \in Nat, NEW f \in Fields
  PROVE  Wrote(Write(Wr(b, pos), f), b, pos, Encoded(f))
<1>1. CASE StringField(f)
  <2> DEFINE latin1 == ToLatin1(f.value)
             chars == Len(f.value)
             head == IF chars < Mark THEN Put(Wr(b, pos), Encode(chars, 2, "le"))
                     ELSE Put(Put(Wr(b, pos), Encode(Mark, 2, "le")), Encode(chars, 4, "le"))
  <2>1. chars \in Nat /\ latin1 \in Seq(ByteSet) /\ Len(latin1) = chars
    BY <1>1, LatinFacts, LenProperties, Zenon DEF StringField
  <2>2. Write(Wr(b, pos), f) = Put(head, latin1)
    BY <1>1, <2>1, Zenon DEF Write, write_string, StringField
  <2>3. Encoded(f) = Measure(chars) \o latin1
    BY <1>1, Zenon DEF Encoded, StringField
  <2> HIDE DEF latin1, chars
  <2>4. Wrote(head, b, pos, Measure(chars))
    <3>1. CASE chars < Mark
      <4>1. Encode(chars, 2, "le") \in Seq(ByteSet)
        BY <2>1, EncodeFacts, Zenon DEF Widths
      <4> QED
        BY <3>1, <4>1, PutWrote, Zenon DEF Measure
    <3>2. CASE ~(chars < Mark)
      <4> DEFINE m == Encode(Mark, 2, "le")
                 l == Encode(chars, 4, "le")
                 v == Put(Wr(b, pos), m)
                 w == Put(v, l)
      <4>1. m \in Seq(ByteSet) /\ l \in Seq(ByteSet)
        BY <2>1, EncodeFacts, MarkFacts, Zenon DEF Widths
      <4>2. head = w /\ Measure(chars) = m \o l
        BY <3>2, Zenon DEF Measure
      <4> HIDE DEF m, l, head
      <4>3. Wrote(v, b, pos, m)
        BY <4>1, PutWrote, Zenon
      <4>4. v = Wr(v.buffer, v.position) /\ v.buffer \in Cells /\ v.position \in Nat
        <5> HIDE DEF v
        <5>1. v.position = pos + Len(m) /\ Len(m) \in Nat
          BY <4>1, <4>3, LenProperties, Zenon DEF Wrote
        <5>2. v.position \in Nat
          BY <5>1, SMT
        <5> QED
          BY <4>3, <5>2, Zenon DEF Wrote
      <4> HIDE DEF v
      <4>5. Wrote(w, v.buffer, v.position, l)
        BY <4>1, <4>4, PutWrote, Zenon
      <4> HIDE DEF w
      <4>6. Wrote(w, b, pos, m \o l)
        BY <4>1, <4>3, <4>5, WroteMore, Zenon
      <4> QED
        BY <4>2, <4>6, Zenon
    <3> QED
      BY <3>1, <3>2, Zenon
  <2> HIDE DEF head
  <2>5. Measure(chars) \in Seq(ByteSet)
    BY <2>1, MeasureFacts, Zenon
  <2>6. head = Wr(head.buffer, head.position) /\ head.buffer \in Cells /\ head.position \in Nat
    <3>1. head.position = pos + Len(Measure(chars)) /\ Len(Measure(chars)) \in Nat
      BY <2>4, <2>5, LenProperties, Zenon DEF Wrote
    <3>2. head.position \in Nat
      BY <3>1, SMT
    <3> QED
      BY <2>4, <3>2, Zenon DEF Wrote
  <2>7. Wrote(Put(head, latin1), head.buffer, head.position, latin1)
    BY <2>1, <2>6, PutWrote, Zenon
  <2>8. Wrote(Put(head, latin1), b, pos, Measure(chars) \o latin1)
    BY <2>1, <2>4, <2>5, <2>7, WroteMore, Zenon
  <2> QED
    BY <2>2, <2>3, <2>8, Zenon
<1>2. CASE NumberField(f)
  <2>1. /\ Write(Wr(b, pos), f) = Put(Wr(b, pos), Encoded(f))
        /\ Encoded(f) \in Seq(ByteSet)
    BY <1>2, EncodedFacts, Zenon DEF Write, Encoded, NumberField
  <2> QED
    BY <2>1, PutWrote, Zenon
<1> QED
  BY <1>1, <1>2, FieldFacts, Zenon

-----------------------------------------------------------------------------
(* The inductive invariant of an exchange                                  *)

\* What a read can give
Results == { Arrives(f) : f \in Fields } \cup { Blank(f) : f \in Fields }

\* Of the fields, the first of which begins at start, b holds all below end.
Stored(b, start, end) ==
    \A n \in 1 .. Len(fields) : \A j \in 1 .. Taken(fields[n]) :
      LET k == start + Ends(fields)[n - 1] + j - 1
      IN  k < end => b[k] = Encoded(fields[n])[j]

\* The types of the variables
ExchangeTypes ==
    /\ mode \in {"write", "read", "failed"} /\ buffer \in Cells
    /\ position \in Nat /\ read_at \in Nat /\ limit \in 0 .. Size
    /\ fields \in Seq(Fields) /\ values \in Seq(Results)

\* The fields stand after the two bytes of the size, as long as there was no overflow.
WriteInv ==
    mode = "write" =>
      /\ position = 2 + Total(fields) /\ values = <<>>
      /\ position <= Size => Stored(buffer, 2, position)

\* A query that was not sent was too long.
FailInv == mode = "failed" => values = <<>> /\ Total(fields) + Lead(Total(fields)) > Size

\* A query that was sent has its size, then its fields, up to what arrived.
SentInv ==
    mode = "read" =>
      /\ position = Lead(Total(fields)) + Total(fields) /\ position <= Size
      /\ limit \in Lead(Total(fields)) .. position
      /\ \A j \in 1 .. Lead(Total(fields)) : buffer[j - 1] = Measure(Total(fields))[j]
      /\ Stored(buffer, Lead(Total(fields)), limit)

\* The reader is where the field to be read begins, and had the others.
InStep ==
    /\ read_at = Lead(Total(fields)) + Ends(fields)[Len(values)] /\ read_at <= limit
    /\ \A n \in 1 .. Len(values) : values[n] = Arrives(fields[n])

\* The reader is in step, or past the end of what arrived.
ReadInv ==
    mode = "read" =>
      /\ Len(values) <= Len(fields)
      /\ \A n \in 1 .. Len(values) : values[n] \in {Arrives(fields[n]), Blank(fields[n])}
      /\ InStep \/ (read_at > limit /\ limit < position)

\* The inductive invariant of an exchange
ExchangeIInv == ExchangeTypes /\ WriteInv /\ FailInv /\ SentInv /\ ReadInv

-----------------------------------------------------------------------------
(* Writing and sending keep it                                             *)

\* No field takes no byte.
LEMMA EmptyEnds == Total(<<>>) = 0
<1>1. <<>> \in Seq(Fields) /\ Len(<<>>) = 0
  BY EmptySeq, Zenon
<1>2. Ends(<<>>)[0] = 0
  BY <1>1, EndsFacts, Zenon
<1> QED
  BY <1>1, <1>2, Zenon DEF Total

\* A byte of a field is before the end of the field, and that before the end of all.
LEMMA FieldEnds ==
  ASSUME NEW fs \in Seq(Fields), NEW n \in 1 .. Len(fs), NEW j \in 1 .. Taken(fs[n])
  PROVE  /\ fs[n] \in Fields /\ Taken(fs[n]) \in Nat /\ n - 1 \in 0 .. Len(fs)
         /\ Ends(fs)[n - 1] \in Nat /\ Ends(fs)[n] \in Nat /\ Total(fs) \in Nat
         /\ Ends(fs)[n] = Ends(fs)[n - 1] + Taken(fs[n])
         /\ Ends(fs)[n - 1] + j <= Ends(fs)[n] /\ Ends(fs)[n] <= Total(fs)
<1>1. Len(fs) \in Nat /\ fs[n] \in Fields
  BY LenProperties, ElementOfSeq, Zenon
<1>2. n - 1 \in 0 .. Len(fs) /\ n \in 0 .. Len(fs) /\ n - 1 <= n
  BY <1>1, SMT
<1>3. /\ Ends(fs)[n - 1] \in Nat /\ Ends(fs)[n] \in Nat /\ Ends(fs)[n] <= Total(fs)
         /\ Total(fs) \in Nat
  BY <1>2, EndsOrdered, Zenon
<1>4. Ends(fs)[n] = Ends(fs)[n - 1] + Taken(fs[n])
  BY EndsFacts, Zenon
<1>5. Taken(fs[n]) \in Nat
  BY <1>1, EncodedFacts, Zenon
<1>6. Ends(fs)[n - 1] + j <= Ends(fs)[n]
  <2> DEFINE a == Ends(fs)[n - 1]
             t == Taken(fs[n])
  <2>1. a \in Nat /\ t \in Nat /\ j \in 1 .. t
    BY <1>3, <1>5, Zenon
  <2> HIDE DEF a, t
  <2>2. a + j <= a + t
    BY <2>1, SMT
  <2> QED
    BY <2>2, <1>4, Zenon DEF a, t
<1> QED
  BY <1>1, <1>2, <1>3, <1>4, <1>5, <1>6, Zenon

\* The two fields of a writer
LEMMA RecordFields == ASSUME NEW b, NEW pos PROVE Wr(b, pos).buffer = b /\ Wr(b, pos).position = pos
  BY Zenon DEF Wr

\* A fresh buffer is one.
LEMMA EmptyCells == [k \in Offsets |-> -1] \in Cells
  BY SMT DEF Cells

\* It holds at the start.
LEMMA InitExchange == ExchangeInit => ExchangeIInv
<1> SUFFICES ASSUME ExchangeInit PROVE ExchangeIInv
  BY Zenon
<1> DEFINE b == [k \in Offsets |-> -1]
           w == Put(Wr(b, 0), Encode(0, 2, "le"))
<1>1. Encode(0, 2, "le") \in Seq(ByteSet) /\ Len(Encode(0, 2, "le")) = 2 /\ 0 \in Nat
  <2>1. 0 \in Nat
    BY SMT
  <2> QED
    BY <2>1, EncodeFacts, Zenon DEF Widths
<1>2. buffer = w.buffer /\ position = w.position
  BY Zenon DEF ExchangeInit, Wr
<1>3. Wrote(w, b, 0, Encode(0, 2, "le"))
  BY <1>1, EmptyCells, PutWrote, Zenon
<1> HIDE DEF w, b
<1>4. buffer \in Cells /\ position = 0 + 2
  BY <1>1, <1>2, <1>3, Zenon DEF Wrote
<1>5. fields = <<>> /\ values = <<>> /\ Len(fields) = 0 /\ Total(fields) = 0
      /\ fields \in Seq(Fields) /\ values \in Seq(Results)
  BY EmptyEnds, EmptySeq, Zenon DEF ExchangeInit
<1>6. ExchangeTypes
  <2>1. position \in Nat /\ read_at \in Nat /\ limit \in 0 .. Size
    BY <1>4, BaseFacts, SMT DEF ExchangeInit
  <2> QED
    BY <1>4, <1>5, <2>1, Zenon DEF ExchangeInit, ExchangeTypes
<1>7. position = 2 + Total(fields)
  BY <1>4, <1>5, SMT
<1>8. Stored(buffer, 2, position)
  <2>1. \A n \in 1 .. Len(fields) : FALSE
    BY <1>5, SMT
  <2> QED
    BY <2>1, Zenon DEF Stored
<1>9. mode = "write" /\ mode # "read" /\ mode # "failed"
  BY Zenon DEF ExchangeInit
<1> QED
  BY <1>5, <1>6, <1>7, <1>8, <1>9, Zenon DEF ExchangeIInv, WriteInv, FailInv, SentInv, ReadInv

\* Writing a field keeps it.
LEMMA WriteFieldExchange ==
  ASSUME ExchangeIInv, NEW f \in Fields, WriteField(f) PROVE ExchangeIInv'
<1> DEFINE w == Write(Wr(buffer, position), f)
<1>1. /\ buffer \in Cells /\ position \in Nat /\ fields \in Seq(Fields) /\ mode = "write"
      /\ position = 2 + Total(fields) /\ values = <<>>
      /\ position <= Size => Stored(buffer, 2, position)
  BY Zenon DEF ExchangeIInv, ExchangeTypes, WriteInv, WriteField
<1>2. buffer' = w.buffer /\ position' = w.position /\ fields' = Append(fields, f)
  BY Zenon DEF WriteField, Writer, Wr
<1>3. Wrote(w, buffer, position, Encoded(f))
  BY <1>1, WriteWrote, Zenon
<1>4. Len(Encoded(f)) = Taken(f) /\ Taken(f) \in Nat
  BY EncodedFacts, Zenon
<1> HIDE DEF w
<1>5. /\ buffer' \in Cells /\ position' = position + Taken(f)
      /\ position' <= Size =>
           \A k \in Offsets : buffer'[k] = IF k \in position .. position + Taken(f) - 1
                                           THEN Encoded(f)[k - position + 1] ELSE buffer[k]
  BY <1>2, <1>3, <1>4, Zenon DEF Wrote
<1>6. /\ Len(fields) \in Nat /\ fields' \in Seq(Fields) /\ Len(fields') = Len(fields) + 1
      /\ \A n \in 1 .. Len(fields) : fields'[n] = fields[n]
      /\ fields'[Len(fields) + 1] = f
  <2>1. Len(fields) \in Nat
    BY <1>1, LenProperties, Zenon
  <2> QED
    BY <1>1, <1>2, <2>1, AppendProperties
<1>7. /\ \A n \in 0 .. Len(fields) : Ends(fields')[n] = Ends(fields)[n]
      /\ Total(fields') = Total(fields) + Taken(f)
  BY <1>1, <1>2, EndsAppend, Zenon
<1>8. Total(fields) \in Nat
  <2>1. 0 \in 0 .. Len(fields) /\ 0 <= 0
    BY <1>6, SMT
  <2> QED
    BY <1>1, <2>1, EndsOrdered, Zenon
<1>9. position' = 2 + Total(fields') /\ position' \in Nat /\ position <= position'
  BY <1>1, <1>4, <1>5, <1>7, <1>8, SMT
<1>10. ASSUME position' <= Size, NEW n \in 1 .. Len(fields'), NEW j \in 1 .. Taken(fields'[n])
       PROVE  buffer'[2 + Ends(fields')[n - 1] + j - 1] = Encoded(fields'[n])[j]
  <2> DEFINE k == 2 + Ends(fields')[n - 1] + j - 1
  <2>1. CASE n \in 1 .. Len(fields)
    <3>1. /\ fields'[n] = fields[n] /\ n - 1 \in 0 .. Len(fields)
             /\ Ends(fields')[n - 1] = Ends(fields)[n - 1]
      <4>1. n - 1 \in 0 .. Len(fields)
        BY <2>1, <1>6, SMT
      <4> QED
        BY <2>1, <4>1, <1>6, <1>7, Zenon
    <3>2. j \in 1 .. Taken(fields[n])
      BY <3>1, Zenon
    <3>3. /\ Ends(fields)[n - 1] \in Nat /\ Ends(fields)[n] \in Nat
          /\ Ends(fields)[n - 1] + j <= Ends(fields)[n] /\ Ends(fields)[n] <= Total(fields)
          /\ Taken(fields[n]) \in Nat
      BY <1>1, <2>1, <3>2, FieldEnds, Zenon
    <3>4. /\ 2 + Ends(fields)[n - 1] + j - 1 < position
          /\ 2 + Ends(fields)[n - 1] + j - 1 \in 0 .. Size - 1
          /\ 2 + Ends(fields)[n - 1] + j - 1 \notin position .. position + Taken(f) - 1
          /\ position <= Size
      <4> DEFINE a == Ends(fields)[n - 1]
                 z == Ends(fields)[n]
                 t == Taken(fields[n])
                 all == Total(fields)
      <4>1. a \in Nat /\ z \in Nat /\ t \in Nat /\ all \in Nat /\ a + j <= z /\ z <= all
            /\ position = 2 + all /\ j \in 1 .. t
        BY <1>1, <1>8, <3>2, <3>3, Zenon
      <4> HIDE DEF a, z, t, all
      <4>2. 2 + a + j - 1 < position /\ 2 + a + j - 1 \in Nat
        BY <4>1, SMT
      <4>3. position <= Size
        BY <1>10, <1>1, <1>9, BaseFacts, SMT
      <4>4. 2 + a + j - 1 \in 0 .. Size - 1
            /\ 2 + a + j - 1 \notin position .. position + Taken(f) - 1
        BY <4>2, <4>3, <1>1, <1>4, BaseFacts, SMT
      <4> QED
        BY <4>2, <4>3, <4>4, Zenon DEF a
    <3>5. buffer[2 + Ends(fields)[n - 1] + j - 1] = Encoded(fields[n])[j]
      BY <1>1, <2>1, <3>2, <3>4, Zenon DEF Stored
    <3>6. buffer'[2 + Ends(fields)[n - 1] + j - 1] = buffer[2 + Ends(fields)[n - 1] + j - 1]
      BY <1>5, <1>10, <3>4, Zenon DEF Offsets
    <3> QED
      BY <3>1, <3>5, <3>6, Zenon
  <2>2. CASE n = Len(fields) + 1
    <3>1. n - 1 = Len(fields) /\ Len(fields) \in 0 .. Len(fields)
      BY <2>2, <1>6, SMT
    <3>2. Ends(fields')[n - 1] = Total(fields) /\ fields'[n] = f /\ j \in 1 .. Taken(f)
      BY <2>2, <3>1, <1>6, <1>7, Zenon DEF Total
    <3>3. /\ 2 + Total(fields) + j - 1 \in position .. position + Taken(f) - 1
          /\ 2 + Total(fields) + j - 1 \in 0 .. Size - 1
          /\ (2 + Total(fields) + j - 1) - position + 1 = j
      <4> DEFINE t == Taken(f)
                 all == Total(fields)
      <4>1. t \in Nat /\ all \in Nat /\ position = 2 + all /\ j \in 1 .. t /\ position + t <= Size
        BY <3>2, <1>1, <1>4, <1>5, <1>8, <1>10, Zenon
      <4> HIDE DEF t, all
      <4>2. /\ 2 + all + j - 1 \in position .. position + t - 1
            /\ 2 + all + j - 1 \in 0 .. Size - 1
            /\ (2 + all + j - 1) - position + 1 = j
        BY <4>1, BaseFacts, SMT
      <4> QED
        BY <4>2, Zenon DEF t, all
    <3>4. buffer'[2 + Total(fields) + j - 1] = Encoded(f)[(2 + Total(fields) + j - 1) - position + 1]
      <4> DEFINE m == 2 + Total(fields) + j - 1
      <4>1. m \in Offsets /\ m \in position .. position + Taken(f) - 1
        BY <3>3, Zenon DEF Offsets
      <4> HIDE DEF m
      <4>2. buffer'[m] = Encoded(f)[m - position + 1]
        BY <4>1, <1>5, <1>10, Zenon
      <4> QED
        BY <4>2, Zenon DEF m
    <3> QED
      BY <3>2, <3>3, <3>4, Zenon
  <2> QED
    BY <2>1, <2>2, <1>6, SMT
<1>11. position' <= Size => Stored(buffer, 2, position)'
  BY <1>10, Zenon DEF Stored
<1>12. mode' = mode /\ limit' = limit /\ read_at' = read_at /\ values' = values
  BY Zenon DEF WriteField
<1>13. ExchangeTypes'
  BY <1>5, <1>6, <1>9, <1>12, Zenon DEF ExchangeIInv, ExchangeTypes, Cells, Offsets
<1>14. mode' = "write" /\ values' = <<>>
  BY <1>1, <1>12, Zenon
<1> QED
  BY <1>9, <1>11, <1>13, <1>14, Zenon DEF ExchangeIInv, WriteInv, FailInv, SentInv, ReadInv


\* c is the writer that had L bytes after the two of its size, its size now written.
Completed(c, b, L) ==
    /\ c.position = Lead(L) + L /\ c.buffer \in Cells
    /\ c.position <= Size =>
         \A k \in Offsets : /\ k < Lead(L) => c.buffer[k] = Measure(L)[k + 1]
                            /\ k >= Lead(L) /\ k < c.position => c.buffer[k] = b[k - Lead(L) + 2]

\* A short size goes where two bytes were left for it.
LEMMA CompleteShort ==
  ASSUME NEW b \in Cells, NEW L \in Nat, L < Mark
  PROVE  Completed(Complete(Wr(b, L + 2)), b, L)
<1> DEFINE pos == L + 2
           m == Encode(L, 2, "le")
           c == Complete(Wr(b, pos))
<1>1. pos \in Nat /\ pos - 2 = L /\ 0 + 2 <= pos /\ 0 \in Nat
  BY SMT
<1>2. m \in Seq(ByteSet) /\ Len(m) = 2 /\ Measure(L) = m /\ Lead(L) = 2
  BY EncodeFacts, Zenon DEF Widths, Measure, Lead
<1> HIDE DEF pos
<1>3. c = IF pos <= Size THEN Wr(Store(m, b, 0), pos) ELSE Wr(b, pos)
  BY <1>1, RecordFields, Zenon DEF Complete, rewrite_u16, Wr
<1> HIDE DEF m, c
<1>4. Store(m, b, 0) \in Cells /\ \A k \in Offsets :
        Store(m, b, 0)[k] = IF k \in 0 .. 0 + Len(m) - 1 THEN m[k - 0 + 1] ELSE b[k]
  BY <1>1, <1>2, StoreFacts, Zenon
<1>5. c.buffer \in Cells /\ c.position = pos /\ (pos <= Size => c.buffer = Store(m, b, 0))
  BY <1>3, <1>4, RecordFields, Zenon
<1>6. pos = Lead(L) + L
  BY <1>2, SMT DEF pos
<1>7. ASSUME NEW k \in Offsets
      PROVE  /\ k < 2 => k \in 0 .. 0 + 2 - 1 /\ k - 0 + 1 = k + 1
             /\ k >= 2 => k \notin 0 .. 0 + 2 - 1 /\ k - 2 + 2 = k
  BY BaseFacts, SMT DEF Offsets
<1>8. ASSUME pos <= Size, NEW k \in Offsets
      PROVE  /\ k < 2 => c.buffer[k] = m[k + 1]
             /\ k >= 2 => c.buffer[k] = b[k - 2 + 2]
  BY <1>2, <1>4, <1>5, <1>7, <1>8, Zenon
<1> QED
  BY <1>2, <1>5, <1>6, <1>8, Zenon DEF Completed, c, pos

\* A long one moves the fields by the four bytes it takes more.
LEMMA CompleteLong ==
  ASSUME NEW b \in Cells, NEW L \in Nat, ~(L < Mark)
  PROVE  Completed(Complete(Wr(b, L + 2)), b, L)
<1> DEFINE pos == L + 2
           m == Encode(Mark, 2, "le")
           l == Encode(L, 4, "le")
           b1 == IF pos <= Size THEN Store(m, b, 0) ELSE b
           moved == [k \in Offsets |-> IF k \in 2 + 4 .. pos + 3 THEN b1[k - 4] ELSE b1[k]]
           c == Complete(Wr(b, pos))
<1>1. pos \in Nat /\ pos - 2 = L /\ 0 + 2 <= pos /\ ~(2 > pos) /\ 0 \in Nat /\ 2 \in Nat
  BY SMT
<1>2. /\ m \in Seq(ByteSet) /\ Len(m) = 2 /\ l \in Seq(ByteSet) /\ Len(l) = 4
      /\ Measure(L) = m \o l /\ Lead(L) = 6
  BY EncodeFacts, MarkFacts, Zenon DEF Widths, Measure, Lead
<1> HIDE DEF pos
<1>3. rewrite_u16(Wr(b, pos), 0, Mark) = Wr(b1, pos)
  BY <1>1, RecordFields, Zenon DEF rewrite_u16, Wr
<1>4. c = insert_u32(Wr(b1, pos), 2, L)
  BY <1>1, <1>3, RecordFields, Zenon DEF Complete
<1>5. c = Wr(IF pos + 4 <= Size THEN Store(l, moved, 2) ELSE b1, pos + 4)
  <2> HIDE DEF b1
  <2> QED
    BY <1>1, <1>4, RecordFields, Zenon DEF insert_u32, Wr
<1>6. b1 \in Cells /\ (pos <= Size => \A k \in Offsets :
        b1[k] = IF k \in 0 .. 0 + Len(m) - 1 THEN m[k - 0 + 1] ELSE b[k])
  <2> HIDE DEF m
  <2>1. /\ Store(m, b, 0) \in Cells
        /\ \A k \in Offsets :
             Store(m, b, 0)[k] = IF k \in 0 .. 0 + Len(m) - 1 THEN m[k - 0 + 1] ELSE b[k]
    BY <1>1, <1>2, StoreFacts, Zenon
  <2>2. (pos <= Size => b1 = Store(m, b, 0)) /\ (~(pos <= Size) => b1 = b)
    BY Zenon
  <2> HIDE DEF b1
  <2> QED
    BY <2>1, <2>2, Zenon
<1> HIDE DEF m, l, c, b1
<1>7. moved \in Cells /\ \A k \in Offsets :
        moved[k] = IF k \in 2 + 4 .. pos + 3 THEN b1[k - 4] ELSE b1[k]
  <2>1. ASSUME NEW k \in Offsets, k \in 2 + 4 .. pos + 3 PROVE k - 4 \in Offsets
    BY <2>1, <1>1, BaseFacts, SMT DEF Offsets
  <2>2. \A k \in Offsets : b1[k] \in {-1} \cup ByteSet
    BY <1>6, Zenon DEF Cells
  <2> QED
    BY <2>1, <2>2, Zenon DEF Cells
<1> HIDE DEF moved
<1>8. Store(l, moved, 2) \in Cells /\ \A k \in Offsets :
        Store(l, moved, 2)[k] = IF k \in 2 .. 2 + Len(l) - 1 THEN l[k - 2 + 1] ELSE moved[k]
  <2>1. moved \in Cells /\ l \in Seq(ByteSet) /\ 2 \in Nat
    BY <1>1, <1>2, <1>7, Zenon
  <2> QED
    BY <2>1, StoreFacts, Zenon
<1>9. c.buffer \in Cells /\ c.position = pos + 4 /\ (pos + 4 <= Size
        => c.buffer = Store(l, moved, 2))
  <2>1. b1 \in Cells /\ Store(l, moved, 2) \in Cells
    BY <1>6, <1>8, Zenon
  <2> DEFINE s == Store(l, moved, 2)
  <2>2. c = Wr(IF pos + 4 <= Size THEN s ELSE b1, pos + 4)
    BY <1>5, Zenon
  <2> HIDE DEF s
  <2>3. c.buffer = (IF pos + 4 <= Size THEN s ELSE b1) /\ c.position = pos + 4
    BY <2>2, RecordFields, Zenon
  <2> QED
    BY <2>1, <2>3, Zenon DEF s
<1>10. pos + 4 = Lead(L) + L /\ (pos + 4 <= Size => pos <= Size)
  BY <1>2, BaseFacts, SMT DEF pos
<1>11. \A j \in 1 .. 2 + 4 : (m \o l)[j] = IF j <= 2 THEN m[j] ELSE l[j - 2]
  <2>1. \A j \in 1 .. Len(m) + Len(l) : (m \o l)[j] = IF j <= Len(m) THEN m[j] ELSE l[j - Len(m)]
    BY <1>2, ConcatProperties, Zenon
  <2> QED
    BY <1>2, <2>1, Zenon
<1>12. ASSUME pos + 4 <= Size, NEW k \in Offsets
       PROVE  /\ k < 6 => c.buffer[k] = (m \o l)[k + 1]
              /\ k >= 6 /\ k < pos + 4 => c.buffer[k] = b[k - 6 + 2]
  <2>1. k \in Nat
    BY BaseFacts, SMT DEF Offsets
  <2>2. CASE k < 2
    <3>1. /\ k \notin 2 .. 2 + 4 - 1 /\ k \notin 2 + 4 .. pos + 3 /\ k \in 0 .. 0 + 2 - 1
             /\ k - 0 + 1 = k + 1
          /\ k + 1 \in 1 .. 2 + 4 /\ k + 1 <= 2 /\ ~(k >= 6)
      BY <2>1, <2>2, <1>1, SMT
    <3>2. c.buffer[k] = moved[k] /\ moved[k] = b1[k] /\ b1[k] = m[k + 1]
          /\ (m \o l)[k + 1] = m[k + 1]
      BY <1>2, <1>6, <1>7, <1>8, <1>9, <1>10, <1>11, <1>12, <3>1, Zenon
    <3> QED
      BY <3>1, <3>2, Zenon
  <2>3. CASE k \in 2 .. 5
    <3>1. /\ k \in 2 .. 2 + 4 - 1 /\ (k + 1) - 2 = k - 2 + 1
          /\ k + 1 \in 1 .. 2 + 4 /\ ~(k + 1 <= 2) /\ ~(k >= 6)
      BY <2>1, <2>3, SMT
    <3>2. c.buffer[k] = l[k - 2 + 1] /\ (m \o l)[k + 1] = l[(k + 1) - 2]
      BY <1>2, <1>8, <1>9, <1>11, <1>12, <3>1, Zenon
    <3> QED
      BY <3>1, <3>2, Zenon
  <2>4. CASE k >= 6 /\ k < pos + 4
    <3>1. /\ k \notin 2 .. 2 + 4 - 1 /\ k \in 2 + 4 .. pos + 3 /\ ~(k < 6)
          /\ k - 4 \in Offsets /\ k - 4 \notin 0 .. 0 + 2 - 1 /\ k - 6 + 2 = k - 4
      BY <2>1, <2>4, <1>1, BaseFacts, SMT DEF Offsets
    <3>2. c.buffer[k] = moved[k] /\ moved[k] = b1[k - 4] /\ b1[k - 4] = b[k - 4]
      BY <1>2, <1>6, <1>7, <1>8, <1>9, <1>10, <1>12, <3>1, Zenon
    <3> QED
      BY <3>1, <3>2, Zenon
  <2>5. k < 2 \/ k \in 2 .. 5 \/ k >= 6
    BY <2>1, SMT
  <2>7. k >= 6 => ~(k < 6)
    BY <2>1, SMT
  <2> QED
    BY <2>2, <2>3, <2>4, <2>5, <2>7, Zenon
<1> QED
  BY <1>2, <1>9, <1>10, <1>12, Zenon DEF Completed, c, pos


\* The bytes of all fields are a number of them.
LEMMA TotalNat == ASSUME NEW fs \in Seq(Fields) PROVE Total(fs) \in Nat /\ Len(fs) \in Nat
<1>1. Len(fs) \in Nat
  BY LenProperties, Zenon
<1>2. 0 \in 0 .. Len(fs) /\ 0 <= 0
  BY <1>1, SMT
<1> QED
  BY <1>1, <1>2, EndsOrdered, Zenon

\* Completing and sending a query keeps it.
LEMMA SendExchange == ASSUME ExchangeIInv, Send PROVE ExchangeIInv'
<1> DEFINE L == Total(fields)
           c == Complete(Wr(buffer, position))
<1>1. /\ buffer \in Cells /\ fields \in Seq(Fields) /\ mode = "write" /\ limit \in 0 .. Size
         /\ read_at \in Nat
      /\ position = 2 + Total(fields) /\ values = <<>> /\ values \in Seq(Results)
      /\ position <= Size => Stored(buffer, 2, position)
  BY Zenon DEF ExchangeIInv, ExchangeTypes, WriteInv, Send
<1>2. L \in Nat /\ Len(fields) \in Nat
  BY <1>1, TotalNat, Zenon
<1>3. /\ position' = c.position /\ fields' = fields /\ values' = values
      /\ \/ /\ c.position > Size /\ mode' = "failed"
            /\ buffer' = c.buffer /\ limit' = limit /\ read_at' = read_at
         \/ /\ c.position <= Size /\ mode' = "read"
            /\ read_at' = IF c.position - 2 < Mark THEN 2 ELSE 6
            /\ limit' \in read_at' .. c.position
            /\ buffer' = [k \in Offsets |-> IF k < limit' THEN c.buffer[k] ELSE -1]
  BY Zenon DEF Send, Writer, Wr
<1>4. Completed(c, buffer, L)
  <2> HIDE DEF L
  <2>1. position = L + 2
    BY <1>1, <1>2, SMT DEF L
  <2> QED
    BY <1>1, <1>2, <2>1, CompleteShort, CompleteLong, Zenon
<1> HIDE DEF c
<1>5. /\ c.position = Lead(L) + L /\ c.buffer \in Cells /\ Lead(L) \in {2, 6}
      /\ c.position <= Size =>
           \A k \in Offsets : /\ k < Lead(L) => c.buffer[k] = Measure(L)[k + 1]
                              /\ k >= Lead(L) /\ k < c.position
                                   => c.buffer[k] = buffer[k - Lead(L) + 2]
  BY <1>2, <1>4, MeasureFacts, Zenon DEF Completed
<1>6. c.position \in Nat /\ position <= c.position
  <2> HIDE DEF L
  <2> QED
    BY <1>1, <1>2, <1>5, SMT DEF L
<1>7. CASE mode' = "failed"
  <2>1. /\ c.position > Size /\ buffer' = c.buffer /\ limit' = limit /\ read_at' = read_at
    BY <1>3, <1>7, Zenon
  <2>2. ExchangeTypes'
    BY <1>1, <1>3, <1>5, <1>6, <1>7, <2>1, Zenon DEF ExchangeTypes, Cells, Offsets
  <2>3. Total(fields') + Lead(Total(fields')) > Size
    <3>1. L + Lead(L) > Size
      <4> HIDE DEF L
      <4> QED
        BY <1>2, <1>5, <2>1, BaseFacts, SMT
    <3> QED
      BY <1>3, <3>1, Zenon
  <2> QED
    BY <1>1, <1>3, <1>7, <2>2, <2>3, Zenon DEF ExchangeIInv, WriteInv, FailInv, SentInv, ReadInv
<1>8. CASE mode' = "read"
  <2>1. /\ c.position <= Size
        /\ read_at' = IF c.position - 2 < Mark THEN 2 ELSE 6
        /\ limit' \in read_at' .. c.position
        /\ buffer' = [k \in Offsets |-> IF k < limit' THEN c.buffer[k] ELSE -1]
    BY <1>3, <1>8, Zenon
  <2>2. read_at' = Lead(L)
    <3> HIDE DEF L
    <3> QED
      BY <1>2, <1>5, <2>1, MarkFacts, SMT DEF Lead
  <2>3. /\ limit' \in Lead(L) .. c.position /\ limit' \in 0 .. Size /\ read_at' \in Nat
           /\ limit' \in Nat
        /\ read_at' <= limit'
    <3> HIDE DEF L
    <3> QED
      BY <1>5, <1>6, <2>1, <2>2, BaseFacts, SMT
  <2>4. /\ buffer' \in Cells /\ \A k \in Offsets : k < limit' => buffer'[k] = c.buffer[k]
    BY <1>5, <2>1, Zenon DEF Cells
  <2>5. ASSUME NEW j \in 1 .. Lead(L) PROVE buffer'[j - 1] = Measure(L)[j]
    <3> HIDE DEF L
    <3>1. j - 1 \in Offsets /\ j - 1 < limit' /\ j - 1 < Lead(L) /\ (j - 1) + 1 = j
      BY <1>5, <1>6, <2>1, <2>3, BaseFacts, SMT DEF Offsets
    <3>2. c.buffer[j - 1] = Measure(L)[(j - 1) + 1]
      BY <1>5, <2>1, <3>1, Zenon
    <3> QED
      BY <2>4, <3>1, <3>2, Zenon
  <2>6. ASSUME NEW n \in 1 .. Len(fields),
               NEW j \in 1 .. Taken(fields[n]), Lead(L) + Ends(fields)[n - 1] + j - 1 < limit'
        PROVE  buffer'[Lead(L) + Ends(fields)[n - 1] + j - 1] = Encoded(fields[n])[j]
    <3> DEFINE a == Ends(fields)[n - 1]
               z == Ends(fields)[n]
               t == Taken(fields[n])
               k == Lead(L) + a + j - 1
    <3>1. /\ a \in Nat /\ z \in Nat /\ t \in Nat /\ a + j <= z /\ z <= L /\ j \in 1 .. t
             /\ k < limit'
      BY <1>1, <2>6, FieldEnds, Zenon
    <3> HIDE DEF a, z, t, L
    <3>2. /\ k \in Offsets /\ k >= Lead(L) /\ k < c.position /\ k - Lead(L) + 2 = 2 + a + j - 1
          /\ 2 + a + j - 1 < position /\ position <= Size
      <4>1. position = 2 + L
        BY <1>1, Zenon DEF L
      <4> DEFINE d == Lead(L)
                 p == c.position
      <4>2. /\ d \in Nat /\ p = d + L /\ L \in Nat /\ p <= Size /\ position = 2 + L /\ position <= p
            /\ limit' \in Nat /\ limit' <= p
        BY <4>1, <1>2, <1>5, <1>6, <2>1, <2>3, SMT
      <4>3. a \in Nat /\ z \in Nat /\ t \in Nat /\ a + j <= z /\ z <= L /\ j \in 1 .. t
            /\ d + a + j - 1 < limit'
        BY <3>1, Zenon
      <4> HIDE DEF d, p
      <4>4. /\ d + a + j - 1 \in Offsets /\ d + a + j - 1 >= d /\ d + a + j - 1 < p
            /\ (d + a + j - 1) - d + 2 = 2 + a + j - 1
            /\ 2 + a + j - 1 < position /\ position <= Size
        BY <4>2, <4>3, BaseFacts, SMT DEF Offsets
      <4> QED
        BY <4>4, Zenon DEF d, p
    <3> HIDE DEF k
    <3>3. buffer'[k] = c.buffer[k] /\ c.buffer[k] = buffer[k - Lead(L) + 2]
      BY <1>5, <2>1, <2>4, <3>1, <3>2, Zenon
    <3>4. buffer[2 + a + j - 1] = Encoded(fields[n])[j]
      BY <1>1, <3>2, Zenon DEF Stored, a
    <3>5. buffer'[k] = Encoded(fields[n])[j]
      BY <3>2, <3>3, <3>4, Zenon
    <3> QED
      BY <3>5, Zenon DEF k, a
  <2>7. Stored(buffer, Lead(L), limit)'
    BY <1>3, <2>6, Zenon DEF Stored
  <2>8. ExchangeTypes'
    BY <1>1, <1>3, <1>6, <1>8, <2>3, <2>4, Zenon DEF ExchangeTypes, Cells, Offsets
  <2>9. L' = L
    BY <1>3, Zenon
  <2>10. SentInv'
    <3>1. /\ position' = Lead(L) + L /\ position' <= Size /\ limit' \in Lead(L) .. position'
      BY <1>3, <1>5, <2>1, <2>3, Zenon
    <3> QED
      BY <3>1, <2>5, <2>7, <1>3, Zenon DEF SentInv
  <2>11. ReadInv'
    <3>1. Len(values') = 0 /\ Ends(fields)[0] = 0
      BY <1>1, <1>3, EmptySeq, EndsFacts, Zenon
    <3>2. read_at' = Lead(L) + Ends(fields)[0]
      <4> HIDE DEF L
      <4> QED
        BY <2>2, <3>1, <1>5, SMT
    <3>3. (\A n \in 1 .. Len(values') : FALSE) /\ Len(values') <= Len(fields')
      BY <1>2, <1>3, <3>1, SMT
    <3>4. InStep'
      BY <1>3, <2>3, <3>1, <3>2, <3>3, Zenon DEF InStep
    <3> QED
      BY <3>3, <3>4, Zenon DEF ReadInv
  <2> QED
    BY <1>8, <2>8, <2>10, <2>11, Zenon DEF ExchangeIInv, WriteInv, FailInv
<1> QED
  BY <1>3, <1>7, <1>8, Zenon

-----------------------------------------------------------------------------
(* Reading keeps it                                                        *)

\* The buffer holds these bytes at from, as far as they are below end.
Holds(from, bytes, end) ==
    \A j \in 1 .. Len(bytes) : from + j - 1 < end => buffer[from + j - 1] = bytes[j]

\* A number that arrived is read as it was written.
LEMMA NumberRead ==
  ASSUME NEW from \in Nat, NEW end \in Nat, NEW width \in Widths, NEW order,
         NEW v \in Numbers(width),
         Holds(from, Encode(v, width, order), end), from + width <= end
  PROVE  ReadNumber(from, width, order, end) = v
<1> DEFINE b(k) == buffer[IF order = "be" THEN from + width - k ELSE from + k - 1]
<1>0. v \in Nat /\ width \in Nat
  BY NumbersNat, SMT DEF Widths
<1>1. ASSUME NEW k \in 1 .. width PROVE b(k) = Byte(v, k)
  <2> DEFINE j == IF order = "be" THEN width + 1 - k ELSE k
  <2>1. /\ j \in 1 .. width /\ from + j - 1 < end
        /\ from + j - 1 = (IF order = "be" THEN from + width - k ELSE from + k - 1)
        /\ (IF order = "be" THEN width + 1 - j ELSE j) = k
    BY <1>0, SMT
  <2> HIDE DEF j
  <2>2. /\ Len(Encode(v, width, order)) = width
        /\ Encode(v, width, order)[j] = Byte(v, IF order = "be" THEN width + 1 - j ELSE j)
    <3>1. j \in 1 .. width
      BY <2>1, Zenon
    <3> QED
      BY <1>0, <3>1, EncodeAt, Zenon
  <2>3. buffer[from + j - 1] = Encode(v, width, order)[j]
    BY <2>1, <2>2, Zenon DEF Holds
  <2> QED
    BY <2>1, <2>2, <2>3, Zenon
<1>2. ReadNumber(from, width, order, end) =
        IF width = 1 THEN b(1) ELSE IF width = 2 THEN b(1) + Base * b(2)
        ELSE Value(b(1), b(2), b(3), b(4))
  BY Zenon DEF ReadNumber, can_read, Value
<1> HIDE DEF b
<1>3. CASE width = 1
  <2>1. b(1) = Byte(v, 1)
    BY <1>1, <1>3, SMT
  <2> QED
    BY <1>2, <1>3, <2>1, Decoded, Zenon
<1>4. CASE width = 2
  <2>1. b(1) = Byte(v, 1) /\ b(2) = Byte(v, 2) /\ width # 1
    BY <1>1, <1>4, SMT
  <2> QED
    BY <1>2, <1>4, <2>1, Decoded, Zenon
<1>5. CASE width = 4
  <2>1. b(1) = Byte(v, 1) /\ b(2) = Byte(v, 2) /\ b(3) = Byte(v, 3) /\ b(4) = Byte(v, 4)
        /\ width # 1 /\ width # 2
    BY <1>1, <1>5, SMT
  <2> QED
    BY <1>2, <1>5, <2>1, Decoded, Zenon
<1> QED
  BY <1>3, <1>4, <1>5, Zenon DEF Widths

\* One of which a byte is missing is read as 0.
LEMMA NumberMissing ==
  ASSUME NEW from \in Nat, NEW end \in Nat, NEW width \in Widths, NEW order, from + width > end
  PROVE  ReadNumber(from, width, order, end) = 0
<1>1. ~(from + width <= end)
  BY SMT DEF Widths
<1> QED
  BY <1>1, Zenon DEF ReadNumber, can_read

\* The parts of what the buffer holds
LEMMA HoldsParts ==
  ASSUME NEW from \in Nat, NEW end \in Nat, NEW s \in Seq(ByteSet),
         NEW t \in Seq(ByteSet), Holds(from, s \o t, end)
  PROVE  Holds(from, s, end) /\ Holds(from + Len(s), t, end)
<1>1. Len(s) \in Nat /\ Len(t) \in Nat
  BY LenProperties, Zenon
<1>2. /\ Len(s \o t) = Len(s) + Len(t)
      /\ \A j \in 1 .. Len(s) + Len(t) : (s \o t)[j] = IF j <= Len(s) THEN s[j] ELSE t[j - Len(s)]
  BY ConcatProperties, Zenon
<1>3. ASSUME NEW j \in 1 .. Len(s), from + j - 1 < end PROVE buffer[from + j - 1] = s[j]
  <2>1. j \in 1 .. Len(s) + Len(t) /\ j <= Len(s)
    BY <1>1, SMT
  <2> QED
    BY <1>2, <1>3, <2>1, Zenon DEF Holds
<1>4. ASSUME NEW j \in 1 .. Len(t), from + Len(s) + j - 1 < end PROVE buffer[from + Len(s) + j - 1] = t[j]
  <2> DEFINE k == Len(s) + j
  <2>1. /\ k \in 1 .. Len(s) + Len(t) /\ ~(k <= Len(s)) /\ k - Len(s) = j
        /\ from + k - 1 = from + Len(s) + j - 1
    BY <1>1, SMT
  <2> HIDE DEF k
  <2>2. buffer[from + k - 1] = (s \o t)[k]
    BY <1>2, <1>4, <2>1, Zenon DEF Holds
  <2> QED
    BY <1>2, <2>1, <2>2, Zenon
<1> QED
  BY <1>3, <1>4, Zenon DEF Holds

\* What ReadLength gives
Length(n, start) == [length |-> n, start |-> start]

\* The length of a text is read as it was written, or as 0 with the reader past the end.
LEMMA LengthRead ==
  ASSUME NEW from \in Nat, NEW end \in Nat, NEW n \in Numbers(4), Holds(from, Measure(n), end)
  PROVE  /\ from + Lead(n) <= end => ReadLength(from, end) = Length(n, from + Lead(n))
         /\ from + Lead(n) > end => \E past \in Nat : past > end
            /\ ReadLength(from, end) = Length(0, past)
<1>1. n \in Nat /\ Mark \in Nat /\ Mark # 0 /\ Mark \in Numbers(2) /\ 2 \in Widths /\ 4 \in Widths
  BY NumbersNat, MarkFacts, SMT DEF Widths
<1> DEFINE short == ReadNumber(from, 2, "le", end)
           long == ReadNumber(from + 2, 4, "le", end)
<1>2. ReadLength(from, end) = IF short # Mark THEN Length(short, from + 2)
        ELSE Length(long, from + 6)
  BY Zenon DEF ReadLength, Length
<1>3. CASE from + 2 > end
  <2>1. short = 0
    BY <1>1, <1>3, NumberMissing, Zenon
  <2>2. ReadLength(from, end) = Length(0, from + 2)
    BY <1>1, <1>2, <2>1, Zenon
  <2>3. from + 2 \in Nat /\ from + 2 > end /\ ~(from + Lead(n) <= end)
    BY <1>3, SMT DEF Lead
  <2> QED
    BY <2>2, <2>3, Zenon
<1>4. CASE from + 2 <= end /\ n < Mark
  <2>1. Measure(n) = Encode(n, 2, "le") /\ Lead(n) = 2
    BY <1>4, Zenon DEF Measure, Lead
  <2>2. n \in Numbers(2)
    BY <1>1, <1>4, BaseFacts, SMT DEF Mark, Numbers
  <2>3. short = n
    BY <1>1, <1>4, <2>1, <2>2, NumberRead, Zenon
  <2>4. n # Mark /\ ~(from + 2 > end)
    BY <1>1, <1>4, SMT
  <2> QED
    BY <1>2, <1>4, <2>1, <2>3, <2>4, Zenon
<1>5. CASE from + 2 <= end /\ ~(n < Mark)
  <2> DEFINE s == Encode(Mark, 2, "le")
             t == Encode(n, 4, "le")
  <2>1. Measure(n) = s \o t /\ Lead(n) = 6
    BY <1>5, Zenon DEF Measure, Lead
  <2>2. s \in Seq(ByteSet) /\ Len(s) = 2 /\ t \in Seq(ByteSet)
    BY <1>1, EncodeFacts, Zenon DEF Widths
  <2>3. Holds(from, s, end) /\ Holds(from + 2, t, end)
    <3> HIDE DEF s, t
    <3>1. Holds(from, s \o t, end)
      BY <2>1, Zenon
    <3>2. Holds(from, s, end) /\ Holds(from + Len(s), t, end)
      BY <2>2, <3>1, HoldsParts, Zenon
    <3> QED
      BY <2>2, <3>2, Zenon
  <2>4. short = Mark
    BY <1>1, <1>5, <2>3, NumberRead, Zenon
  <2>5. ReadLength(from, end) = Length(long, from + 6)
    BY <1>2, <2>4, Zenon
  <2>6. from + 2 \in Nat /\ (from + 2) + 4 = from + 6 /\ from + 6 \in Nat
    BY SMT
  <2>7. CASE from + 6 <= end
    <3>1. long = n
      BY <1>1, <2>3, <2>6, <2>7, NumberRead, Zenon
    <3>2. ~(from + 6 > end)
      BY <2>7, SMT
    <3> QED
      BY <2>1, <2>5, <3>1, <3>2, Zenon
  <2>8. CASE from + 6 > end
    <3>1. long = 0
      BY <1>1, <2>6, <2>8, NumberMissing, Zenon
    <3>2. ~(from + 6 <= end)
      BY <2>8, SMT
    <3> QED
      BY <2>1, <2>5, <2>6, <2>8, <3>1, <3>2, Zenon
  <2> QED
    BY <2>7, <2>8, SMT
<1> QED
  BY <1>3, <1>4, <1>5, SMT

\* A text that arrived is read if it fits, one that did not as empty.
LEMMA TextRead ==
  ASSUME NEW from \in Nat, NEW end \in Nat, NEW s \in Seq(ByteSet), Holds(from, s, end)
  PROVE  /\ from + Len(s) <= end => Text(from, Len(s), end) = IF Utf8Length(s) < Capacity
              THEN s ELSE <<>>
         /\ from + Len(s) > end => Text(from, Len(s), end) = <<>>
<1> DEFINE t == [j \in 1 .. Len(s) |-> buffer[from + j - 1]]
<1>1. Len(s) \in Nat /\ s \in [1 .. Len(s) -> ByteSet]
  BY LenProperties, Zenon
<1>2. ASSUME from + Len(s) <= end PROVE t = s
  <2>1. ASSUME NEW j \in 1 .. Len(s) PROVE from + j - 1 < end
    BY <1>1, <1>2, SMT
  <2>2. \A j \in 1 .. Len(s) : buffer[from + j - 1] = s[j]
    BY <2>1, Zenon DEF Holds
  <2> QED
    BY <1>1, <2>2, Zenon
<1>3. Text(from, Len(s), end) = IF from + Len(s) <= end /\ Utf8Length(t) < Capacity THEN t ELSE <<>>
  BY Zenon DEF Text, can_read
<1> HIDE DEF t
<1>4. from + Len(s) > end => ~(from + Len(s) <= end)
  BY <1>1, SMT
<1> QED
  BY <1>2, <1>3, <1>4, Zenon


\* What ReadOne gives
Got(v, next) == [value |-> v, at |-> next]

\* A field that arrived is read; one that did not is blank, with the reader past the end.
LEMMA OneRead ==
  ASSUME NEW from \in Nat, NEW end \in Nat, NEW f \in Fields, Holds(from, Encoded(f), end)
  PROVE  /\ from + Taken(f) <= end => ReadOne(f.type, from, end) = Got(Arrives(f), from + Taken(f))
         /\ from + Taken(f) > end =>
              \E next \in Nat : next > end /\ ReadOne(f.type, from, end) = Got(Blank(f), next)
<1>1. CASE NumberField(f)
  <2> DEFINE w == Width(f.type)
             o == Order(f.type)
             r == ReadNumber(from, w, o, end)
  <2>1. /\ Taken(f) = w /\ Encoded(f) = Encode(f.value, w, o) /\ Arrives(f) = f.value
           /\ Blank(f) = 0
        /\ ReadOne(f.type, from, end) = Got(r, from + w) /\ f.value \in Numbers(w)
    BY <1>1, Zenon DEF NumberField, Taken, Encoded, Arrives, Blank, ReadOne, Got
  <2>2. w \in Widths /\ w \in Nat
    BY WidthFacts, Zenon
  <2> HIDE DEF w, o
  <2>3. from + w <= end => r = f.value
    BY <2>1, <2>2, NumberRead, Zenon
  <2>4. from + w > end => r = 0
    BY <2>2, NumberMissing, Zenon
  <2>5. from + w \in Nat
    BY <2>2, SMT
  <2> HIDE DEF r
  <2> QED
    BY <2>1, <2>3, <2>4, <2>5, Zenon
<1>2. CASE StringField(f)
  <2> DEFINE n == Len(f.value)
             m == Measure(n)
             s == ToLatin1(f.value)
             d == Lead(n)
             l == ReadLength(from, end)
  <2>1. /\ Taken(f) = d + n /\ Encoded(f) = m \o s /\ Blank(f) = <<>> /\ n \in Numbers(4)
        /\ Arrives(f) = (IF Utf8Length(s) < Capacity THEN s ELSE <<>>)
        /\ ReadOne(f.type, from, end) = Got(Text(l.start, l.length, end), l.start + l.length)
    BY <1>2, Zenon DEF StringField, Taken, Encoded, Arrives, Blank, ReadOne, Got
  <2>2. n \in Nat /\ s \in Seq(ByteSet) /\ Len(s) = n
    BY <1>2, LatinFacts, LenProperties, Zenon DEF StringField
  <2>3. m \in Seq(ByteSet) /\ Len(m) = d /\ d \in Nat
    <3>1. m \in Seq(ByteSet) /\ Len(m) = d /\ d \in {2, 6}
      BY <2>2, MeasureFacts, Zenon
    <3> QED
      BY <3>1, SMT
  <2>4. Holds(from, m, end) /\ Holds(from + d, s, end)
    <3> HIDE DEF m, s, d
    <3> QED
      BY <2>1, <2>2, <2>3, HoldsParts, Zenon
  <2>5. /\ from + d <= end => l = Length(n, from + d)
        /\ from + d > end => \E next \in Nat : next > end /\ l = Length(0, next)
    <3> HIDE DEF n
    <3> QED
      BY <2>1, <2>4, LengthRead, Zenon
  <2>6. \A k, p : Length(k, p).length = k /\ Length(k, p).start = p
    BY Zenon DEF Length
  <2> HIDE DEF n, m, s, d, l
  <2>7. from + d \in Nat /\ (from + d) + n = from + (d + n) /\ from + (d + n) \in Nat
    BY <2>2, <2>3, SMT
  <2>8. CASE from + d <= end
    <3>1. l.length = n /\ l.start = from + d
      BY <2>5, <2>6, <2>8, Zenon
    <3>2. ReadOne(f.type, from, end) = Got(Text(from + d, n, end), from + (d + n))
      BY <2>1, <2>7, <3>1, Zenon
    <3>3. /\ from + (d + n) <= end => Text(from + d, n, end) = IF Utf8Length(s) < Capacity
               THEN s ELSE <<>>
          /\ from + (d + n) > end => Text(from + d, n, end) = <<>>
      BY <2>2, <2>4, <2>7, TextRead, Zenon
    <3> QED
      BY <2>1, <2>7, <3>2, <3>3, Zenon
  <2>9. CASE from + d > end
    <3>1. PICK next \in Nat : next > end /\ l = Length(0, next)
      BY <2>5, <2>9, Zenon
    <3>2. l.length = 0 /\ l.start = next
      BY <2>6, <3>1, Zenon
    <3>3. next + 0 = next /\ ~(next + 0 <= end) /\ ~(from + (d + n) <= end)
      BY <2>2, <2>3, <2>9, <3>1, SMT
    <3>4. Text(next, 0, end) = <<>>
      BY <3>3, Zenon DEF Text, can_read
    <3>5. ReadOne(f.type, from, end) = Got(Blank(f), next)
      BY <2>1, <3>2, <3>3, <3>4, Zenon
    <3> QED
      BY <2>1, <3>1, <3>3, <3>5, Zenon
  <2> QED
    BY <2>8, <2>9, <2>7, SMT
<1> QED
  BY <1>1, <1>2, FieldFacts, Zenon

\* Reading a field keeps it.
LEMMA ReadFieldExchange == ASSUME ExchangeIInv, ReadField PROVE ExchangeIInv'
<1> DEFINE n == Len(values) + 1
           f == fields[n]
           r == ReadOne(f.type, read_at, limit)
           lead == Lead(Total(fields))
<1>1. /\ mode = "read" /\ buffer \in Cells /\ position \in Nat /\ read_at \in Nat
         /\ limit \in 0 .. Size
      /\ fields \in Seq(Fields) /\ values \in Seq(Results)
      /\ position = lead + Total(fields) /\ position <= Size /\ limit \in lead .. position
      /\ Stored(buffer, lead, limit) /\ Len(values) <= Len(fields)
      /\ \A k \in 1 .. Len(values) : values[k] \in {Arrives(fields[k]), Blank(fields[k])}
      /\ InStep \/ (read_at > limit /\ limit < position)
  BY Zenon DEF ExchangeIInv, ExchangeTypes, SentInv, ReadInv, ReadField
<1>2. /\ values' = Append(values, r.value) /\ read_at' = r.at /\ Len(values) < Len(fields)
      /\ mode' = mode /\ buffer' = buffer /\ position' = position /\ fields' = fields
         /\ limit' = limit
  BY Zenon DEF ReadField
<1>3. Len(values) \in Nat /\ Len(fields) \in Nat /\ Total(fields) \in Nat /\ lead \in {2, 6}
      /\ limit \in Nat
  <2>1. Len(values) \in Nat /\ Len(fields) \in Nat /\ Total(fields) \in Nat
    BY <1>1, TotalNat, LenProperties, Zenon
  <2> QED
    BY <1>1, <2>1, MeasureFacts, BaseFacts, SMT
<1>4. n \in 1 .. Len(fields) /\ n - 1 = Len(values) /\ n \in Nat
  BY <1>2, <1>3, SMT
<1> HIDE DEF lead, n
<1>5. f \in Fields /\ Taken(f) \in Nat /\ Taken(f) >= 1 /\ Len(Encoded(f)) = Taken(f)
  BY <1>1, <1>4, ElementOfSeq, EncodedFacts, Zenon
<1> DEFINE a == Ends(fields)[n - 1]
           t == Taken(f)
<1>6. /\ a \in Nat /\ Ends(fields)[n] = a + t /\ a + t <= Total(fields) /\ t \in Nat /\ t >= 1
  <2>1. 1 \in 1 .. Taken(f)
    BY <1>5, SMT
  <2>2. Ends(fields)[n - 1] \in Nat
        /\ Ends(fields)[n] = Ends(fields)[n - 1] + Taken(fields[n]) /\ Ends(fields)[n] <= Total(fields)
    BY <1>1, <1>4, <2>1, FieldEnds, Zenon
  <2> QED
    BY <1>5, <2>2, Zenon
<1>7. Holds(read_at, Encoded(f), limit)
  <2>1. CASE InStep
    <3>1. read_at = lead + a
      BY <1>4, <2>1, Zenon DEF InStep, lead
    <3>2. \A j \in 1 .. Taken(f) : lead + a + j - 1 < limit
            => buffer[lead + a + j - 1] = Encoded(f)[j]
      BY <1>1, <1>4, Zenon DEF Stored
    <3> QED
      BY <1>5, <3>1, <3>2, Zenon DEF Holds
  <2>2. CASE read_at > limit
    <3>1. ASSUME NEW j \in 1 .. Len(Encoded(f)) PROVE ~(read_at + j - 1 < limit)
      <4>1. j \in Nat /\ j >= 1
        BY <1>5, SMT
      <4> QED
        BY <2>2, <4>1, <1>1, <1>3, SMT
    <3> QED
      BY <3>1, Zenon DEF Holds
  <2> QED
    BY <1>1, <2>1, <2>2, Zenon
<1>8. /\ read_at + t <= limit => r = Got(Arrives(f), read_at + t)
      /\ read_at + t > limit => \E next \in Nat : next > limit /\ r = Got(Blank(f), next)
  <2> HIDE DEF f
  <2> QED
    BY <1>1, <1>3, <1>5, <1>7, OneRead, Zenon
<1>9. \A v, next : Got(v, next).value = v /\ Got(v, next).at = next
  BY Zenon DEF Got
<1>10. Arrives(f) \in Results /\ Blank(f) \in Results
  BY <1>5, Zenon DEF Results
<1> HIDE DEF r
<1>11. /\ r.value \in {Arrives(f), Blank(f)} /\ r.value \in Results /\ r.at \in Nat
       /\ \/ InStep /\ r.value = Arrives(f) /\ r.at = read_at + t /\ r.at <= limit
          \/ r.at > limit /\ limit < position
  <2>1. read_at + t \in Nat /\ (read_at + t <= limit \/ read_at + t > limit)
    BY <1>1, <1>3, <1>6, SMT
  <2>2. CASE read_at + t <= limit
    <3>1. r.value = Arrives(f) /\ r.at = read_at + t
      BY <1>8, <1>9, <2>2, Zenon
    <3>2. ~(read_at > limit)
      BY <1>1, <1>3, <1>6, <2>2, SMT
    <3> QED
      BY <1>1, <1>10, <2>1, <2>2, <3>1, <3>2, Zenon
  <2>3. CASE read_at + t > limit
    <3>1. PICK next \in Nat : next > limit /\ r = Got(Blank(f), next)
      BY <1>8, <2>3, Zenon
    <3>2. r.value = Blank(f) /\ r.at = next
      BY <1>9, <3>1, Zenon
    <3>3. limit < position
      <4>1. CASE InStep
        <5>1. read_at = lead + a /\ position = lead + Total(fields)
          BY <1>1, <1>4, <4>1, Zenon DEF InStep, lead
        <5> DEFINE all == Total(fields)
        <5>2. a \in Nat /\ t \in Nat /\ all \in Nat /\ a + t <= all /\ lead \in Nat
              /\ read_at = lead + a /\ position = lead + all
          BY <1>3, <1>6, <5>1, SMT
        <5> HIDE DEF a, t, all
        <5> QED
          BY <5>2, <2>3, <1>3, SMT
      <4> QED
        BY <1>1, <4>1, Zenon
    <3> QED
      BY <1>10, <3>1, <3>2, <3>3, Zenon
  <2> QED
    BY <2>1, <2>2, <2>3, Zenon
<1>12. /\ values' \in Seq(Results) /\ Len(values') = n
       /\ \A k \in 1 .. Len(values) : values'[k] = values[k]
       /\ values'[n] = r.value
  <2>1. values \in Seq(Results) /\ r.value \in Results /\ Len(values) \in Nat
    BY <1>1, <1>3, <1>11, Zenon
  <2> QED
    BY <1>2, <2>1, AppendProperties DEF n
<1>13. ASSUME NEW k \in 1 .. n PROVE k \in 1 .. Len(values) \/ k = n
  BY <1>3, SMT DEF n
<1>14. ExchangeTypes'
  BY <1>1, <1>2, <1>11, <1>12, Zenon DEF ExchangeTypes, Cells, Offsets
<1>15. ReadInv'
  <2>1. n <= Len(fields)
    BY <1>3, <1>4, SMT
  <2>2. \A k \in 1 .. n : values'[k] \in {Arrives(fields[k]), Blank(fields[k])}
    BY <1>1, <1>11, <1>12, <1>13, Zenon
  <2>3. InStep' \/ (read_at' > limit' /\ limit' < position')
    <3>1. CASE InStep /\ r.value = Arrives(f) /\ r.at = read_at + t /\ r.at <= limit
      <4>1. read_at = lead + a /\ \A k \in 1 .. Len(values) : values[k] = Arrives(fields[k])
        BY <1>4, <3>1, Zenon DEF InStep, lead
      <4>2. (lead + a) + t = lead + (a + t)
        BY <1>3, <1>6, SMT
      <4>3. read_at' = lead + Ends(fields)[n]
        BY <1>2, <1>6, <3>1, <4>1, <4>2, Zenon
      <4>4. \A k \in 1 .. n : values'[k] = Arrives(fields[k])
        BY <1>12, <1>13, <3>1, <4>1, Zenon
      <4> QED
        BY <1>2, <1>12, <3>1, <4>3, <4>4, Zenon DEF InStep, lead
    <3>2. CASE r.at > limit /\ limit < position
      BY <1>2, <3>2, Zenon
    <3> QED
      BY <1>11, <3>1, <3>2, Zenon
  <2> QED
    BY <1>2, <1>12, <2>1, <2>2, <2>3, Zenon DEF ReadInv
<1>16. SentInv'
  BY <1>1, <1>2, Zenon DEF ExchangeIInv, SentInv, Stored
<1> QED
  BY <1>1, <1>2, <1>14, <1>15, <1>16, Zenon DEF ExchangeIInv, WriteInv, FailInv


\* The invariant of an exchange is inductive.
LEMMA ExchangeStep == ExchangeIInv /\ [ExchangeNext]_exchangeVars => ExchangeIInv'
<1> SUFFICES ASSUME ExchangeIInv, [ExchangeNext]_exchangeVars PROVE ExchangeIInv'
  OBVIOUS
<1>1. CASE ExchangeNext
  BY <1>1, WriteFieldExchange, SendExchange, ReadFieldExchange, Zenon DEF ExchangeNext
<1>2. CASE UNCHANGED exchangeVars
  BY <1>2, Zenon DEF exchangeVars, ExchangeIInv, ExchangeTypes, WriteInv, FailInv, SentInv, ReadInv,
                     InStep, Stored, Cells, Offsets
<1> QED
  BY <1>1, <1>2

-----------------------------------------------------------------------------
(* What BufferReader gives                                                 *)

\* What it says of the results
LEMMA ExchangeResults ==
  ASSUME ExchangeIInv PROVE ExchangeTypeOK /\ RoundTrip /\ NothingMadeUp /\ FailsIfTooLong
<1> DEFINE L == Total(fields)
<1>1. /\ fields \in Seq(Fields) /\ values \in Seq(Results) /\ limit \in 0 .. Size
         /\ read_at \in Nat /\ position \in Nat
      /\ mode \in {"write", "read", "failed"} /\ buffer \in Cells
  BY Zenon DEF ExchangeIInv, ExchangeTypes
<1>2. L \in Nat /\ Len(fields) \in Nat /\ Len(values) \in Nat /\ limit \in Nat
  BY <1>1, TotalNat, LenProperties, BaseFacts, SMT
<1>3. Lead(L) \in {2, 6} /\ Measure(L) \in Seq(ByteSet) /\ Len(Measure(L)) = Lead(L)
  BY <1>2, MeasureFacts, Zenon
<1>4. mode = "read" =>
        /\ position = Lead(L) + L /\ position <= Size /\ limit \in Lead(L) .. position
        /\ \A j \in 1 .. Lead(L) : buffer[j - 1] = Measure(L)[j]
        /\ Len(values) <= Len(fields)
        /\ \A n \in 1 .. Len(values) : values[n] \in {Arrives(fields[n]), Blank(fields[n])}
        /\ InStep \/ (read_at > limit /\ limit < position)
  BY Zenon DEF ExchangeIInv, SentInv, ReadInv
<1>5. InStep /\ Done => read_at = position /\ read_at <= limit
                        /\ \A n \in 1 .. Len(fields) : values[n] = Arrives(fields[n])
  BY <1>4, Zenon DEF InStep, Done, Total
<1>6. ExchangeTypeOK
  <2>1. Len(values) <= Len(fields)
    <3>1. mode # "read" => values = <<>>
      BY <1>1, Zenon DEF ExchangeIInv, WriteInv, FailInv
    <3>2. Len(<<>>) = 0
      BY EmptySeq, Zenon
    <3> QED
      BY <1>2, <1>4, <3>1, <3>2, SMT
  <2> QED
    BY <1>1, <2>1, Zenon DEF ExchangeTypeOK, Cells, ByteSet
<1>7. RoundTrip
  <2> SUFFICES ASSUME Done, limit = position
               PROVE  /\ values = [k \in 1 .. Len(fields) |-> Arrives(fields[k])]
                      /\ read_at = limit
                      /\ ReadLength(0, limit).length = Total(fields)
    BY Zenon DEF RoundTrip
  <2>1. mode = "read" /\ Len(values) = Len(fields)
    BY Zenon DEF Done
  <2>2. ~(limit < position)
    BY <1>1, SMT
  <2>3. InStep
    BY <1>4, <2>1, <2>2, Zenon
  <2>4. read_at = limit /\ \A n \in 1 .. Len(fields) : values[n] = Arrives(fields[n])
    BY <1>5, <2>3, Zenon
  <2>5. values = [k \in 1 .. Len(fields) |-> Arrives(fields[k])]
    <3>1. values \in [1 .. Len(fields) -> Results]
      BY <1>1, <2>1, LenProperties, Zenon
    <3> QED
      BY <2>4, <3>1, Zenon
  <2>6. Holds(0, Measure(L), limit)
    <3>1. ASSUME NEW j \in 1 .. Lead(L) PROVE 0 + j - 1 = j - 1
      <4>1. j \in Int
        BY <1>3, SMT
      <4> QED
        BY <4>1, SMT
    <3> HIDE DEF L
    <3> QED
      BY <1>3, <1>4, <2>1, <3>1, Zenon DEF Holds
  <2>7. 0 \in Nat /\ 0 + Lead(L) <= limit /\ L \in Numbers(4)
    <3> DEFINE d == Lead(L)
    <3>1. position = d + L /\ position <= Size /\ d \in {2, 6} /\ L \in Nat
      BY <1>2, <1>3, <1>4, <2>1, Zenon
    <3> HIDE DEF d, L
    <3>2. 0 + d <= limit /\ L <= Size
      BY <3>1, BaseFacts, SMT
    <3>3. L \in Numbers(4)
      BY <3>1, <3>2, BaseFacts, SMT DEF Numbers
    <3> QED
      BY <3>2, <3>3, SMT DEF d
  <2>8. ReadLength(0, limit) = Length(L, 0 + Lead(L))
    <3> HIDE DEF L
    <3> QED
      BY <1>2, <2>6, <2>7, LengthRead, Zenon
  <2>9. ReadLength(0, limit).length = L
    <3>1. \A k, p : Length(k, p).length = k
      BY Zenon DEF Length
    <3> QED
      BY <2>8, <3>1, Zenon
  <2> QED
    BY <2>4, <2>5, <2>9, Zenon
<1>8. NothingMadeUp
  <2> SUFFICES ASSUME mode = "read"
               PROVE  /\ \A k \in 1 .. Len(values) : values[k] \in {Arrives(fields[k]), Blank(fields[k])}
                      /\ Done => (read_at > limit <=> limit < position)
    BY Zenon DEF NothingMadeUp
  <2>1. ASSUME Done PROVE read_at > limit <=> limit < position
    <3>1. CASE InStep
      <4>1. read_at = position /\ read_at <= limit
        BY <1>5, <2>1, <3>1, Zenon
      <4> QED
        BY <4>1, <1>1, <1>2, SMT
    <3> QED
      BY <1>4, <3>1, Zenon
  <2> QED
    BY <1>4, <2>1, Zenon
<1>9. FailsIfTooLong
  <2>1. CASE mode = "failed"
    BY <2>1, Zenon DEF ExchangeIInv, FailInv, FailsIfTooLong
  <2>2. CASE mode = "read"
    <3>1. ~(L + Lead(L) > Size)
      <4> DEFINE d == Lead(L)
      <4>1. position = d + L /\ position <= Size /\ d \in {2, 6} /\ L \in Nat
        BY <1>2, <1>3, <1>4, <2>2, Zenon
      <4> HIDE DEF d, L
      <4>2. ~(L + d > Size)
        BY <4>1, BaseFacts, SMT
      <4> QED
        BY <4>2, Zenon DEF d
    <3> QED
      BY <2>2, <3>1, Zenon DEF FailsIfTooLong
  <2>3. CASE mode = "write"
    BY <2>3, Zenon DEF FailsIfTooLong
  <2> QED
    BY <1>1, <2>1, <2>2, <2>3, Zenon
<1> QED
  BY <1>6, <1>7, <1>8, <1>9, Zenon

(* What BufferWriter was given is what BufferReader reads if all of it arrives,
   with the size that the query inserts last; what does not arrive is read as blank
   and overflowed says so; what does not fit the buffer is not sent.  For fields of
   every type, in any number and order, and any size of the buffer. *)
THEOREM QueriesArriveHolds == ExchangeSpec => [](mode # "none" /\ QueriesArrive)
<1>1. ExchangeIInv => mode # "none" /\ QueriesArrive
  <2>1. ExchangeIInv => ExchangeTypeOK /\ RoundTrip /\ NothingMadeUp /\ FailsIfTooLong
    BY ExchangeResults, Zenon
  <2>2. ExchangeTypeOK => mode # "none"
    BY Zenon DEF ExchangeTypeOK
  <2> QED
    BY <2>1, <2>2, Zenon DEF QueriesArrive
<1> QED
  BY <1>1, InitExchange, ExchangeStep, PTL DEF ExchangeSpec

-----------------------------------------------------------------------------
(* XTEA: the inductive invariant                                           *)

Blocks == 1 .. (length \div BlockSize)

Pair == Word \X Word

\* y comes of x by round r of the encryption
Follows(x, y, r) ==
    /\ y[1] = Add(x[1], MixV0(key, x[2], Sums[r]))
    /\ y[2] = Add(x[2], MixV1(key, y[1], Sums[r + 1]))

\* The first n rounds of block b are in the trail.
Recorded(b, n) ==
    /\ \A r \in 0 .. n : trail[b][r] \in Pair
    /\ \A r \in 0 .. n - 1 : Follows(trail[b][r], trail[b][r + 1], r)

\* Where the loops are
LoopInv ==
    /\ pc \in {"encrypt", "decrypt", "done"} /\ key \in Keys /\ length \in Nat
    /\ at \in Nat \ {0} /\ size \in Nat /\ size = length - BlockSize * (at - 1)
    /\ i \in -1 .. Rounds
    /\ i >= 0 => at \in Blocks
    /\ pc = "done" => i = -1

WordInv == sum \in Word /\ v0 \in Word /\ v1 \in Word /\ data \in [Blocks -> Pair]
           /\ plain \in [Blocks -> Pair]

TrailInv ==
    /\ DOMAIN trail = Blocks
    /\ \A b \in Blocks : DOMAIN trail[b] = 0 .. Rounds /\ trail[b][0] = plain[b]

EncryptInv ==
    pc = "encrypt" =>
      /\ \A b \in Blocks : b < at => Recorded(b, Rounds) /\ data[b] = trail[b][Rounds]
      /\ \A b \in Blocks : b >= at => data[b] = plain[b]
      /\ i >= 0 => Recorded(at, i) /\ sum = Sums[i] /\ v0 = trail[at][i][1] /\ v1 = trail[at][i][2]

DecryptInv ==
    pc = "decrypt" =>
      /\ \A b \in Blocks : Recorded(b, Rounds)
      /\ \A b \in Blocks : b < at => data[b] = plain[b]
      /\ \A b \in Blocks : b >= at => data[b] = trail[b][Rounds]
      /\ i >= 0 => /\ sum = Sums[Rounds - i]
                   /\ v0 = trail[at][Rounds - i][1] /\ v1 = trail[at][Rounds - i][2]

CipherIInv == LoopInv /\ WordInv /\ TrailInv /\ EncryptInv /\ DecryptInv /\ DecryptInverts

-----------------------------------------------------------------------------
(* It holds                                                                *)

\* The number of rounds and the modulus are numbers.
LEMMA RoundsNat == Rounds \in Nat /\ Modulus \in Nat \ {0}
BY XteaAssumption, Zenon

\* Sums and differences of words are words.
LEMMA WordOps ==
    ASSUME NEW a \in Word, NEW b \in Word
    PROVE  Add(a, b) \in Word /\ Sub(a, b) \in Word /\ Sub(Add(a, b), b) = a
BY RoundsNat DEF Word, Add, Sub

\* So is what a round mixes in.
LEMMA MixIsWord ==
    ASSUME NEW k \in Keys, NEW v \in Word, NEW s \in Word
    PROVE  MixV0(k, v, s) \in Word /\ MixV1(k, v, s) \in Word
BY XteaAssumption, Zenon

\* sum in the encryption, and backwards in the decryption
LEMMA SumStep ==
    ASSUME NEW r \in 0 .. Rounds - 1
    PROVE  /\ Sums[r] \in Word /\ Sums[r + 1] \in Word
           /\ Add(Sums[r], Delta) = Sums[r + 1]
           /\ Sub(Sums[r + 1], Delta) = Sums[r]
<1>1. r \in 0 .. Rounds /\ r + 1 \in 0 .. Rounds
  BY RoundsNat
<1>2. Sums[r] \in Word /\ Sums[r + 1] \in Word
  BY <1>1, XteaAssumption, Zenon
<1>3. Sums[r + 1] = Add(Sums[r], Delta) /\ Delta \in Word
  BY XteaAssumption, Zenon
<1>4. QED
  BY <1>2, <1>3, WordOps, Zenon

\* One round of the decryption takes a pair back to the one it followed.
LEMMA RoundInverts ==
    ASSUME key \in Keys, NEW x \in Pair, NEW y \in Pair, NEW r \in 0 .. Rounds - 1, Follows(x, y, r)
    PROVE  /\ Sub(y[2], MixV1(key, y[1], Sums[r + 1])) = x[2]
           /\ Sub(y[1], MixV0(key, x[2], Sums[r])) = x[1]
<1>1. x[1] \in Word /\ x[2] \in Word /\ y[1] \in Word /\ y[2] \in Word
  BY Zenon DEF Pair
<1>2. MixV1(key, y[1], Sums[r + 1]) \in Word /\ MixV0(key, x[2], Sums[r]) \in Word
  BY <1>1, SumStep, MixIsWord, Zenon
<1>3. QED
  BY <1>1, <1>2, WordOps DEF Follows

\* A block is left exactly if at is one.
LEMMA BlockLeft ==
    ASSUME length \in Nat, at \in Nat \ {0}, size \in Nat, size = length - BlockSize * (at - 1)
    PROVE  /\ size >= BlockSize <=> at \in Blocks
           /\ size < BlockSize => \A b \in Blocks : b < at
BY DEF Blocks, BlockSize

\* The invariant of the cipher holds at the start.
LEMMA InitCipher == CipherInit => CipherIInv
<1> SUFFICES ASSUME CipherInit PROVE CipherIInv
  BY Zenon
<1>1. PICK m \in Messages : length = m.size /\ plain = m.blocks
  BY Zenon DEF CipherInit
<1>2. length \in Nat /\ plain \in [Blocks -> Pair]
  BY <1>1, XteaAssumption, Zenon DEF Blocks, Pair
<1>3. LoopInv
  BY <1>2, RoundsNat DEF CipherInit, LoopInv, BlockSize
<1>4. WordInv
  <2>1. 0 \in Word
    BY RoundsNat DEF Word
  <2>2. QED
    BY <1>2, <2>1, Zenon DEF CipherInit, WordInv
<1>5. TrailInv
  BY <1>2, RoundsNat DEF CipherInit, TrailInv
<1>6. EncryptInv /\ DecryptInv /\ DecryptInverts
  BY <1>2 DEF CipherInit, EncryptInv, DecryptInv, DecryptInverts, Blocks
<1>7. QED
  BY <1>3, <1>4, <1>5, <1>6, Zenon DEF CipherIInv

\* Reading a block keeps it.
LEMMA ReadBlockIInv == CipherIInv /\ ReadBlock => CipherIInv'
<1> SUFFICES ASSUME CipherIInv, ReadBlock PROVE CipherIInv'
  BY Zenon
<1> USE DEF CipherIInv
<1>1. at \in Blocks
  BY BlockLeft, Zenon DEF LoopInv, ReadBlock, WholeBlock
<1>2. UNCHANGED <<pc, key, length, plain, data, at, size, trail, Blocks>>
  BY Zenon DEF ReadBlock, Blocks
<1>3. data[at] \in Pair /\ v0' = data[at][1] /\ v1' = data[at][2]
  BY <1>1, Zenon DEF WordInv, ReadBlock
<1>4. 0 \in Word /\ LastSum \in Word /\ Sums[0] = 0 /\ Sums[Rounds] = LastSum /\ Rounds \in Nat
  <2>1. 0 \in 0 .. Rounds /\ Rounds \in 0 .. Rounds
    BY RoundsNat
  <2>2. QED
    BY <2>1, XteaAssumption, Zenon
<1>5. LoopInv'
  BY <1>1, <1>2, <1>4 DEF LoopInv, ReadBlock
<1>6. WordInv'
  BY <1>2, <1>3, <1>4, Zenon DEF WordInv, ReadBlock, Pair
<1>7. TrailInv'
  BY <1>2, Zenon DEF TrailInv
<1>8. EncryptInv'
  <2>1. SUFFICES ASSUME pc = "encrypt" PROVE EncryptInv'
    BY <1>2, Zenon DEF EncryptInv
  <2>2. \A b \in Blocks : b < at => Recorded(b, Rounds)' /\ data[b] = trail[b][Rounds]
    BY <1>2, <2>1, ZenonT(60) DEF EncryptInv, Recorded, Follows
  <2>3. data[at] = plain[at] /\ trail[at][0] = plain[at]
    BY <1>1, <2>1 DEF EncryptInv, TrailInv, LoopInv
  <2>4. Recorded(at, 0)'
    BY <1>2, <1>3, <2>3 DEF Recorded
  <2>5. i' = 0 /\ sum' = Sums[0]
    BY <1>4, <2>1, Zenon DEF ReadBlock
  <2>6. QED
    BY <1>2, <1>3, <2>1, <2>2, <2>3, <2>4, <2>5, Zenon DEF EncryptInv
<1>9. DecryptInv'
  <2>1. SUFFICES ASSUME pc = "decrypt" PROVE DecryptInv'
    BY <1>2, Zenon DEF DecryptInv
  <2>2. \A b \in Blocks : Recorded(b, Rounds)'
    BY <1>2, <2>1, Zenon DEF DecryptInv, Recorded, Follows
  <2>3. data[at] = trail[at][Rounds]
    BY <1>1, <2>1 DEF DecryptInv, LoopInv
  <2>4. i' = 0 /\ sum' = Sums[Rounds - 0] /\ Rounds - 0 = Rounds
    BY <1>4, <2>1 DEF ReadBlock
  <2>5. QED
    BY <1>2, <1>3, <2>1, <2>2, <2>3, <2>4, Zenon DEF DecryptInv
<1>10. DecryptInverts'
  BY Zenon DEF ReadBlock, DecryptInverts
<1>11. QED
  BY <1>5, <1>6, <1>7, <1>8, <1>9, <1>10, Zenon

\* A round of xtea_encrypt keeps it.
LEMMA EncryptRoundIInv == CipherIInv /\ EncryptRound => CipherIInv'
<1> SUFFICES ASSUME CipherIInv, EncryptRound PROVE CipherIInv'
  BY Zenon
<1> USE DEF CipherIInv
<1>1. i \in 0 .. Rounds - 1 /\ i' = i + 1 /\ i + 1 \in 0 .. Rounds /\ at \in Blocks
      /\ pc = "encrypt"
  BY RoundsNat DEF EncryptRound, LoopInv
<1>2. UNCHANGED <<pc, key, length, plain, data, at, size, Blocks>>
  BY Zenon DEF EncryptRound, Blocks
<1>3. Recorded(at, i) /\ sum = Sums[i] /\ v0 = trail[at][i][1] /\ v1 = trail[at][i][2]
  BY <1>1 DEF EncryptInv
<1>4. sum' = Sums[i + 1] /\ sum' \in Word /\ Sums[i] \in Word
  BY <1>1, <1>3, SumStep, Zenon DEF EncryptRound
<1>5. v0' \in Word /\ v1' \in Word
  <2>1. v0' \in Word
    BY <1>3, <1>4, WordOps, MixIsWord, Zenon DEF EncryptRound, WordInv, LoopInv
  <2>2. QED
    BY <2>1, <1>4, WordOps, MixIsWord, Zenon DEF EncryptRound, WordInv, LoopInv
<1>6. /\ DOMAIN trail' = Blocks
      /\ \A b \in Blocks : DOMAIN trail'[b] = 0 .. Rounds
      /\ \A b \in Blocks : b # at => trail'[b] = trail[b]
      /\ \A r \in 0 .. i : trail'[at][r] = trail[at][r]
      /\ trail'[at][i + 1] = <<v0', v1'>>
  <2>1. trail' = [trail EXCEPT ![at] = [trail[at] EXCEPT ![i + 1] = <<v0', v1'>>]]
    BY Zenon DEF EncryptRound
  <2>2. at \in DOMAIN trail /\ DOMAIN trail = Blocks
    BY <1>1, Zenon DEF TrailInv
  <2>3. trail'[at] = [trail[at] EXCEPT ![i + 1] = <<v0', v1'>>]
    BY <2>1, <2>2, Zenon
  <2>4. \A b \in Blocks : b # at => trail'[b] = trail[b]
    BY <2>1, <2>2, Zenon
  <2>5. DOMAIN trail[at] = 0 .. Rounds
    BY <1>1, Zenon DEF TrailInv
  <2>6. DOMAIN trail'[at] = 0 .. Rounds /\ trail'[at][i + 1] = <<v0', v1'>>
    BY <1>1, <2>3, <2>5, Zenon
  <2>7. ASSUME NEW r \in 0 .. i PROVE trail'[at][r] = trail[at][r]
    <3>1. r \in 0 .. Rounds /\ r # i + 1
      BY <1>1, RoundsNat
    <3>2. QED
      BY <2>3, <2>5, <3>1, Zenon
  <2>8. \A b \in Blocks : DOMAIN trail'[b] = 0 .. Rounds
    BY <2>4, <2>6, Zenon DEF TrailInv
  <2>9. DOMAIN trail' = Blocks
    BY <2>1, <2>2, Zenon
  <2>10. QED
    BY <2>4, <2>6, <2>7, <2>8, <2>9, Zenon
<1>7. Recorded(at, i)'
  <2>1. \A r \in 0 .. i + 1 : trail'[at][r] \in Pair
    BY <1>1, <1>3, <1>5, <1>6 DEF Recorded, Pair
  <2>2. ASSUME NEW r \in 0 .. i - 1 PROVE Follows(trail[at][r], trail[at][r + 1], r)'
    <3>1. Follows(trail[at][r], trail[at][r + 1], r)
      BY <1>3, Zenon DEF Recorded
    <3>2. r \in 0 .. i /\ r + 1 \in 0 .. i
      BY <1>1
    <3>3. trail'[at][r] = trail[at][r] /\ trail'[at][r + 1] = trail[at][r + 1]
      BY <1>6, <3>2, Zenon
    <3>4. QED
      BY <1>2, <3>1, <3>3, Zenon DEF Follows
  <2>3. /\ trail'[at][i + 1][1] = Add(trail'[at][i][1], MixV0(key, trail'[at][i][2], Sums[i]))
        /\ trail'[at][i + 1][2] = Add(trail'[at][i][2], MixV1(key, trail'[at][i + 1][1], Sums[i + 1]))
    <3>1. trail'[at][i] = trail[at][i] /\ trail'[at][i + 1][1] = v0' /\ trail'[at][i + 1][2] = v1'
      BY <1>1, <1>6
    <3>2. v0' = Add(v0, MixV0(key, v1, Sums[i])) /\ v1' = Add(v1, MixV1(key, v0', Sums[i + 1]))
      BY <1>3, <1>4, Zenon DEF EncryptRound
    <3>3. QED
      BY <1>3, <3>1, <3>2, Zenon
  <2>4. ASSUME NEW r \in 0 .. i PROVE Follows(trail[at][r], trail[at][r + 1], r)'
    <3>1. CASE r = i
      BY <1>2, <2>3, <3>1, Zenon DEF Follows
    <3>2. CASE r # i
      <4>1. r \in 0 .. i - 1
        BY <1>1, <3>2
      <4>2. QED
        BY <2>2, <4>1, Zenon
    <3>3. QED
      BY <3>1, <3>2, Zenon
  <2>5. 0 .. i' = 0 .. i + 1 /\ 0 .. i' - 1 = 0 .. i
    BY <1>1
  <2>6. QED
    BY <1>2, <2>1, <2>4, <2>5, Zenon DEF Recorded
<1>8. LoopInv'
  BY <1>1, <1>2 DEF LoopInv
<1>9. WordInv'
  BY <1>2, <1>4, <1>5, Zenon DEF WordInv
<1>10. TrailInv'
  BY <1>1, <1>2, <1>6 DEF TrailInv
<1>11. EncryptInv'
  <2>1. ASSUME NEW b \in Blocks, b < at PROVE Recorded(b, Rounds)' /\ data[b] = trail'[b][Rounds]
    <3>1. Recorded(b, Rounds) /\ data[b] = trail[b][Rounds]
      BY <1>1, <2>1, Zenon DEF EncryptInv
    <3>2. b # at
      BY <2>1 DEF Blocks, LoopInv
    <3>3. trail'[b] = trail[b]
      BY <1>6, <3>2, Zenon
    <3>4. QED
      BY <1>2, <3>1, <3>3, ZenonT(60) DEF Recorded, Follows
  <2>2. QED
    <3>1. \A b \in Blocks : b >= at => data[b] = plain[b]
      BY <1>1, Zenon DEF EncryptInv
    <3>2. v0' = trail'[at][i + 1][1] /\ v1' = trail'[at][i + 1][2]
      BY <1>6
    <3>3. QED
      BY <1>1, <1>2, <1>4, <1>7, <2>1, <3>1, <3>2, Zenon DEF EncryptInv
<1>12. DecryptInv' /\ DecryptInverts'
  BY <1>1, <1>2, Zenon DEF DecryptInv, DecryptInverts
<1>13. QED
  BY <1>8, <1>9, <1>10, <1>11, <1>12, Zenon

\* A round of xtea_decrypt takes back the last one.
LEMMA DecryptRoundIInv == CipherIInv /\ DecryptRound => CipherIInv'
<1> SUFFICES ASSUME CipherIInv, DecryptRound PROVE CipherIInv'
  BY Zenon
<1> USE DEF CipherIInv
<1> DEFINE r == Rounds - (i + 1)
<1>1. /\ i \in 0 .. Rounds - 1 /\ i' = i + 1 /\ at \in Blocks /\ pc = "decrypt"
      /\ r \in 0 .. Rounds - 1 /\ r + 1 = Rounds - i /\ r = Rounds - i'
  BY RoundsNat DEF DecryptRound, LoopInv
<1>2. UNCHANGED <<pc, key, length, plain, data, at, size, trail, Blocks>>
  BY Zenon DEF DecryptRound, Blocks
<1> HIDE DEF r
<1>3. /\ sum = Sums[r + 1] /\ v0 = trail[at][r + 1][1] /\ v1 = trail[at][r + 1][2]
      /\ Recorded(at, Rounds)
  BY <1>1 DEF DecryptInv
<1>4. trail[at][r] \in Pair /\ trail[at][r + 1] \in Pair
      /\ Follows(trail[at][r], trail[at][r + 1], r)
  BY <1>1, <1>3, RoundsNat DEF Recorded
<1>5. sum' = Sums[r] /\ sum' \in Word
  BY <1>1, <1>3, SumStep, Zenon DEF DecryptRound
<1>6. v1' = trail[at][r][2] /\ v0' = trail[at][r][1]
  <2>1. /\ Sub(trail[at][r + 1][2], MixV1(key, trail[at][r + 1][1], Sums[r + 1])) = trail[at][r][2]
        /\ Sub(trail[at][r + 1][1], MixV0(key, trail[at][r][2], Sums[r])) = trail[at][r][1]
    BY <1>1, <1>4, RoundInverts DEF LoopInv
  <2>2. v1' = Sub(v1, MixV1(key, v0, sum)) /\ v0' = Sub(v0, MixV0(key, v1', sum'))
    BY Zenon DEF DecryptRound
  <2>3. v1' = trail[at][r][2]
    BY <1>3, <2>1, <2>2, Zenon
  <2>4. QED
    BY <1>3, <1>5, <2>1, <2>2, <2>3, Zenon
<1>7. LoopInv'
  <2>1. i' \in -1 .. Rounds /\ i' >= 0
    BY <1>1, RoundsNat, SMT
  <2>2. QED
    BY <1>1, <1>2, <2>1, Zenon DEF LoopInv
<1>8. WordInv'
  BY <1>2, <1>4, <1>5, <1>6, Zenon DEF WordInv, Pair
<1>9. TrailInv'
  BY <1>2, Zenon DEF TrailInv
<1>10. DecryptInv'
  <2>1. \A b \in Blocks : Recorded(b, Rounds)'
    BY <1>1, <1>2 DEF DecryptInv, Recorded, Follows
  <2>2. QED
    BY <1>1, <1>2, <1>5, <1>6, <2>1, Zenon DEF DecryptInv
<1>11. EncryptInv' /\ DecryptInverts'
  BY <1>1, <1>2, Zenon DEF EncryptInv, DecryptInverts
<1>12. QED
  BY <1>7, <1>8, <1>9, <1>10, <1>11, Zenon

\* Writing a block back keeps it.
LEMMA WriteBlockIInv == CipherIInv /\ WriteBlock => CipherIInv'
<1> SUFFICES ASSUME CipherIInv, WriteBlock PROVE CipherIInv'
  BY Zenon
<1> USE DEF CipherIInv
<1>1. at \in Blocks /\ i = Rounds /\ i >= 0 /\ i' = -1 /\ at' = at + 1 /\ Rounds \in Nat
  <2>1. i = Rounds /\ i' = -1 /\ at' = at + 1 /\ Rounds \in Nat
    BY RoundsNat, Zenon DEF WriteBlock
  <2>2. i >= 0
    BY <2>1, SMT
  <2>3. QED
    BY <2>1, <2>2, Zenon DEF LoopInv
<1>2. UNCHANGED <<pc, key, length, plain, sum, v0, v1, trail, Blocks>>
  BY Zenon DEF WriteBlock, Blocks
<1>3. /\ data' \in [Blocks -> Pair] /\ data'[at] = <<v0, v1>>
      /\ \A b \in Blocks : b # at => data'[b] = data[b]
  BY <1>1, Zenon DEF WriteBlock, WordInv, Pair
<1>4. LoopInv'
  <2>1. size >= BlockSize
    BY <1>1, BlockLeft, Zenon DEF LoopInv
  <2>2. QED
    BY <1>1, <1>2, <2>1 DEF LoopInv, WriteBlock, BlockSize
<1>5. WordInv'
  BY <1>2, <1>3, Zenon DEF WordInv
<1>6. TrailInv'
  BY <1>2, Zenon DEF TrailInv
<1>7. EncryptInv'
  <2>1. SUFFICES ASSUME pc = "encrypt" PROVE EncryptInv'
    BY <1>2, Zenon DEF EncryptInv
  <2>2. Recorded(at, Rounds) /\ v0 = trail[at][Rounds][1] /\ v1 = trail[at][Rounds][2]
    BY <1>1, <2>1, Zenon DEF EncryptInv
  <2>3. trail[at][Rounds] \in Pair
    BY <1>1, <2>2 DEF Recorded
  <2>4. data'[at] = trail[at][Rounds]
    BY <1>3, <2>2, <2>3 DEF Pair
  <2>5. \A b \in Blocks : b < at + 1 => Recorded(b, Rounds) /\ data'[b] = trail[b][Rounds]
    BY <1>1, <1>3, <2>1, <2>2, <2>4 DEF EncryptInv, Blocks, LoopInv
  <2>6. \A b \in Blocks : b < at + 1 => Recorded(b, Rounds)'
    BY <1>2, <2>5, ZenonT(60) DEF Recorded, Follows
  <2>7. \A b \in Blocks : b >= at + 1 => data'[b] = plain[b]
    BY <1>1, <1>3, <2>1 DEF EncryptInv, Blocks, LoopInv
  <2>8. QED
    BY <1>1, <1>2, <2>5, <2>6, <2>7 DEF EncryptInv
<1>8. DecryptInv'
  <2>1. SUFFICES ASSUME pc = "decrypt" PROVE DecryptInv'
    BY <1>2, Zenon DEF DecryptInv
  <2>2. v0 = trail[at][0][1] /\ v1 = trail[at][0][2]
    BY <1>1, <2>1 DEF DecryptInv
  <2>3. data'[at] = plain[at]
    BY <1>1, <1>3, <2>2 DEF TrailInv, WordInv, Pair
  <2>4. \A b \in Blocks : b < at + 1 => data'[b] = plain[b]
    BY <1>1, <1>3, <2>1, <2>3 DEF DecryptInv, Blocks, LoopInv
  <2>5. \A b \in Blocks : b >= at + 1 => data'[b] = trail[b][Rounds]
    BY <1>1, <1>3, <2>1 DEF DecryptInv, Blocks, LoopInv
  <2>6. \A b \in Blocks : Recorded(b, Rounds)'
    BY <1>2, <2>1, ZenonT(60) DEF DecryptInv, Recorded, Follows
  <2>7. QED
    BY <1>1, <1>2, <2>4, <2>5, <2>6 DEF DecryptInv
<1>9. DecryptInverts'
  BY Zenon DEF WriteBlock, DecryptInverts
<1>10. QED
  BY <1>4, <1>5, <1>6, <1>7, <1>8, <1>9, Zenon

\* So does the return.
LEMMA CipherReturnIInv == CipherIInv /\ CipherReturn => CipherIInv'
<1> SUFFICES ASSUME CipherIInv, CipherReturn PROVE CipherIInv'
  BY Zenon
<1> USE DEF CipherIInv
<1>1. i = -1 /\ i' = -1 /\ at' = 1 /\ size' = length
  BY Zenon DEF CipherReturn
<1>2. UNCHANGED <<key, length, plain, data, sum, v0, v1, trail, Blocks>>
  BY Zenon DEF CipherReturn, Blocks
<1>3. \A b \in Blocks : b < at
  BY BlockLeft DEF LoopInv, CipherReturn, WholeBlock, BlockSize
<1>4. LoopInv'
  BY <1>1, <1>2, RoundsNat DEF LoopInv, CipherReturn, BlockSize
<1>5. WordInv' /\ TrailInv'
  BY <1>2, Zenon DEF WordInv, TrailInv
<1>6. EncryptInv'
  BY Zenon DEF EncryptInv, CipherReturn
<1>7. DecryptInv'
  <2>1. SUFFICES ASSUME pc = "encrypt" PROVE DecryptInv'
    BY Zenon DEF DecryptInv, CipherReturn
  <2>2. \A b \in Blocks : Recorded(b, Rounds)' /\ data[b] = trail[b][Rounds]
    BY <1>2, <1>3, <2>1 DEF EncryptInv, Recorded, Follows
  <2>3. \A b \in Blocks : ~(b < 1)
    BY DEF Blocks
  <2>4. QED
    <3>1. ~(i' >= 0)
      BY <1>1, SMT
    <3>2. QED
      BY <1>1, <1>2, <2>2, <2>3, <3>1, Zenon DEF DecryptInv
<1>8. DecryptInverts'
  <2>1. SUFFICES ASSUME pc = "decrypt" PROVE data = plain
    <3>1. pc' = "done" => pc = "decrypt"
      BY Zenon DEF CipherReturn, LoopInv
    <3>2. QED
      BY <1>2, <3>1, Zenon DEF DecryptInverts
  <2>2. \A b \in Blocks : data[b] = plain[b]
    BY <1>3, <2>1, Zenon DEF DecryptInv
  <2>3. QED
    BY <2>2 DEF WordInv
<1>9. QED
  BY <1>4, <1>5, <1>6, <1>7, <1>8, Zenon

\* The invariant of the cipher is inductive.
LEMMA CipherStep == CipherIInv /\ [CipherNext]_cipherVars => CipherIInv'
<1>1. CipherIInv /\ UNCHANGED cipherVars => CipherIInv'
  <2> SUFFICES ASSUME CipherIInv, UNCHANGED cipherVars PROVE CipherIInv'
    BY Zenon
  <2>1. UNCHANGED <<pc, key, length, plain, data, at, size, i, sum, v0, v1, trail, Blocks>>
    BY Zenon DEF cipherVars, Blocks
  <2>2. \A b, n : Recorded(b, n)' <=> Recorded(b, n)
    BY <2>1 DEF Recorded, Follows
  <2>3. LoopInv' /\ WordInv' /\ TrailInv' /\ DecryptInverts'
    BY <2>1, Zenon DEF CipherIInv, LoopInv, WordInv, TrailInv, DecryptInverts
  <2>4. EncryptInv' /\ DecryptInv'
    BY <2>1, <2>2, ZenonT(60) DEF CipherIInv, EncryptInv, DecryptInv
  <2>5. QED
    BY <2>3, <2>4, Zenon DEF CipherIInv
<1>2. QED
  BY <1>1, ReadBlockIInv, EncryptRoundIInv, DecryptRoundIInv, WriteBlockIInv, CipherReturnIInv,
     Zenon DEF CipherNext

\* It always holds.
LEMMA CipherIInvHolds == CipherSpec => []CipherIInv
BY InitCipher, CipherStep, PTL DEF CipherSpec

\* The loops of xtea.cpp keep the types of their variables.
THEOREM XteaTypeCorrect == CipherSpec => []CipherTypeOK
<1>1. CipherIInv => CipherTypeOK
  <2> SUFFICES ASSUME CipherIInv PROVE CipherTypeOK
    BY Zenon
  <2>1. DOMAIN plain = Blocks
    BY Zenon DEF CipherIInv, WordInv
  <2>2. data \in [DOMAIN plain -> Word \X Word] /\ sum \in Word /\ v0 \in Word /\ v1 \in Word
    BY <2>1, Zenon DEF CipherIInv, WordInv, Pair
  <2>3. QED
    BY <2>2, Zenon DEF CipherIInv, LoopInv, CipherTypeOK
<1>2. QED
  BY <1>1, CipherIInvHolds, PTL

\* xtea_decrypt gives back what xtea_encrypt was given, for every number of rounds,
\* round function, key and message, if its first sum is the last of the encryption.
THEOREM DecryptInvertsHolds == CipherSpec => []DecryptInverts
BY CipherIInvHolds, PTL DEF CipherIInv

\* xtea_encrypt leaves no whole block out.
THEOREM EveryBlockEncryptedHolds == CipherSpec => []EveryBlockEncrypted
<1>1. CipherIInv => EveryBlockEncrypted
  BY DEF CipherIInv, LoopInv, DecryptInv, EveryBlockEncrypted, Blocks
<1>2. QED
  BY <1>1, CipherIInvHolds, PTL

=============================================================================
