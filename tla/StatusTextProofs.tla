-------------------------- MODULE StatusTextProofs --------------------------
(***************************************************************************)
(* Proofs about the status document (XmlBuilder), for any calls and any    *)
(* size of the buffer, and about the three parts of StatusText together.   *)
(* The document is the concatenation of what its pieces are written as;    *)
(* the reader of XML reads each piece as what was meant (StatusTextLemmas),*)
(* and the loops write the pieces one after the other.                     *)
(***************************************************************************)
EXTENDS StatusTextLemmas

-----------------------------------------------------------------------------
(* Pieces and calls                                                        *)

\* The formats and the arguments of a call, piece by piece
FormatList(c) == [k \in 1 .. Len(c.pieces) |-> c.pieces[k].format]
ArgumentList(c) == [k \in 1 .. Len(c.pieces) |-> c.pieces[k].args]

\* The document as far as the first m pieces of call c
SoFar(d, c, m) ==
    Joined(Renderings(d))[c - 1] \o (IF c <= Len(d) THEN Joined(Writing(d[c]))[m] ELSE <<>>)

\* A buffer holds t as far as it goes.
Holds(b, n, t) == n = Len(t) /\ \A k \in 0 .. Size - 1 : k < Len(t) => b[k] = t[k + 1]

\* It holds t, or what fits, and a zero.
Ended(b, n, t) ==
    LET length == IF Len(t) < Size THEN Len(t) ELSE Size - 1
    IN  n = Len(t) /\ b[length] = Nul /\ \A k \in 0 .. length - 1 : b[k] = t[k + 1]

\* The first m pieces of call c are done: the next character and argument are q and r.
Reached(d, c, m, q, r) ==
    IF c <= Len(d) /\ d[c].formatted
    THEN /\ m \in 0 .. Len(d[c].pieces)
         /\ q = 1 + Len(Joined(FormatList(d[c]))[m]) /\ r = 1 + Len(Joined(ArgumentList(d[c]))[m])
    ELSE m = 0 /\ q = 1 /\ r = 1

Buffer == [0 .. Size - 1 -> Char \cup {Nul}]

Building(d, c, q, r, b, n) ==
    /\ d \in Documents /\ c \in 1 .. Len(d) + 1
    /\ \E m \in Nat : Reached(d, c, m, q, r) /\ Holds(b, n, SoFar(d, c, m))

\* The inductive invariant: while a document is built, the buffer holds what should be
\* written for the pieces that are done; afterwards it holds the whole and a zero.
XmlInv ==
    /\ builder \in {"idle", "build"} /\ data \in Buffer /\ position \in Nat
    /\ renderings \in 0 .. MaxRenderings
    /\ builder = "build" => renderings < MaxRenderings /\ Building(document, call, p, arg, data, position)
    /\ Built => document \in Documents /\ Ended(data, position, Rendering(document))

LEMMA PieceFields ==
  ASSUME NEW e \in PieceObject
  PROVE  e.format \in Text /\ e.meaning \in Text /\ e.args \in Seq([text : Text, num : Int])
BY SMT DEF PieceObject

\* One character by itself
LEMMA OneCharacter ==
  ASSUME NEW x \in Text, Len(x) = 1
  PROVE  x[1] \in Char /\ x = <<x[1]>> /\ 1 \in 1 .. Len(x) /\ \A k \in 1 .. Len(x) : k = 1
<1>1. 1 \in 1 .. Len(x) /\ \A k \in 1 .. Len(x) : k = 1
  BY SMT
<1>2. x[1] \in Char
  BY <1>1, ElementOfSeq, Zenon DEF Text
<1>3. x = <<x[1]>>
  BY <1>2, SMT DEF Text
<1> QED
  BY <1>1, <1>2, <1>3, Zenon

LEMMA Subset1 ==
  ASSUME NEW T, NEW x \in Seq(Char \ T), Len(x) = 1
  PROVE  x[1] \notin T
<1>1. 1 \in 1 .. Len(x)
  BY SMT
<1> DEFINE S == Char \ T
<1>2. x \in Seq(S)
  BY Zenon
<1> HIDE DEF S
<1>3. x[1] \in S
  BY <1>1, <1>2, ElementOfSeq, Zenon
<1> QED
  BY <1>3, Zenon DEF S

LEMMA LengthWords ==
  ASSUME NEW l \in Lengths, NEW v
  PROVE  /\ Len(<<"%">> \o l) \in 1 .. 3 /\ (<<"%">> \o l)[1] = "%"
         /\ Len(<<"%">> \o l \o <<v>>) \in 2 .. 4 /\ (<<"%">> \o l \o <<v>>)[1] = "%"
<1>1. CASE l = <<>>
  BY <1>1, SMT
<1>2. CASE l = <<"h">>
  BY <1>2, SMT
<1>3. CASE l = <<"h", "h">>
  BY <1>3, SMT
<1>4. CASE l = <<"l">>
  BY <1>4, SMT
<1>5. CASE l = <<"l", "l">>
  BY <1>5, SMT
<1> QED
  BY <1>1, <1>2, <1>3, <1>4, <1>5, Zenon DEF Lengths

IsPiece(e) == IsCharacter(e, Reserved) \/ IsSpecifier(e) \/ IsUnfinished(e)

\* What should be written for a piece is text, is read as what the piece means, and has
\* the markup of the format alone.
LEMMA PieceWritten ==
  ASSUME NEW e \in PieceObject, IsPiece(e)
  PROVE  /\ Written(e) \in Text /\ Fixed(e) \in Text /\ Len(e.format) \in Nat /\ Len(e.format) >= 1
         /\ Reads(Written(e), e.meaning) /\ Kept(Written(e)) = Kept(Fixed(e))
         /\ Legal(Written(e)) <=> Legal(e.meaning)
<1>1. e.format \in Text /\ e.meaning \in Text /\ <<>> \in Text /\ Len(<<>>) = 0
  BY PieceFields, EmptySeq, Zenon DEF Text
<1>5. Len(e.format) \in Nat /\ Len(e.format) >= 1
  <2>1. Len(e.format) \in Nat
    BY <1>1, LenProperties, Zenon DEF Text
  <2>2. Len(e.format) \in 1 .. 4
    <3>1. CASE IsCharacter(e, Reserved)
      <4>1. Len(e.format) = 1 /\ 1 \in 1 .. 4
        BY <3>1, SMT DEF IsCharacter
      <4> QED
        BY <4>1, Zenon
    <3>2. CASE IsSpecifier(e)
      <4>1. PICK l \in Lengths : e.format = <<"%">> \o l \o <<e.format[Len(e.format)]>>
        BY <3>2, Zenon DEF IsSpecifier
      <4>2. Len(e.format) \in 2 .. 4
        BY <4>1, LengthWords, Zenon
      <4>3. 2 .. 4 \subseteq 1 .. 4
        BY SMT
      <4> QED
        BY <4>2, <4>3, Zenon
    <3>3. CASE IsUnfinished(e)
      <4>1. PICK l \in Lengths : e.format = <<"%">> \o l
        BY <3>3, Zenon DEF IsUnfinished
      <4>2. Len(e.format) \in 1 .. 3
        BY <4>1, LengthWords, Zenon
      <4>3. 1 .. 3 \subseteq 1 .. 4
        BY SMT
      <4> QED
        BY <4>2, <4>3, Zenon
    <3> QED
      BY <3>1, <3>2, <3>3, Zenon DEF IsPiece
  <2> QED
    <3>1. \A l \in 1 .. 4 : l >= 1
      BY SMT
    <3> QED
      BY <2>1, <2>2, <3>1, Zenon
<1>2. CASE e.args # <<>>
  <2>1. Written(e) = string_escaped(e.meaning) /\ Fixed(e) = <<>>
    BY <1>2, Zenon DEF Written, Fixed
  <2> QED
    BY <1>1, <1>5, <2>1, ReadsEscaped, LegalEscaped, Zenon
<1>3. ASSUME e.args = <<>>
      PROVE  e.meaning = <<>> \/ \E c \in Char : c # "&" /\ e.meaning = <<c>>
  <2>1. CASE IsCharacter(e, Reserved)
    <3>1. Len(e.format) = 1 /\ e.format \in Seq(Char \ Reserved) /\ e.meaning = e.format
      BY <2>1, Zenon DEF IsCharacter
    <3>2. e.format[1] \in Char /\ e.format = <<e.format[1]>> /\ e.format[1] \notin Reserved
      BY <1>1, <3>1, OneCharacter, Subset1, Zenon
    <3> QED
      BY <3>1, <3>2, Zenon DEF Reserved
  <2>2. CASE IsSpecifier(e)
    <3> DEFINE verb == e.format[Len(e.format)]
    <3>1. IF verb \notin {"c", "d", "s"}
          THEN e.args = <<>> /\ e.meaning = IF verb = "%" THEN <<"%">> ELSE <<>>
          ELSE Len(e.args) = 1
      BY <2>2, Zenon DEF IsSpecifier
    <3>2. Len(e.args) # 1
      <4>1. 0 # 1
        BY SMT
      <4> QED
        BY <1>1, <1>3, <4>1, Zenon
    <3>3. "%" \in Char /\ "%" # "&"
      <4>1. "%" # "&"
        BY SMT
      <4> QED
        BY <4>1, CharAssumption, Zenon
    <3>4. e.meaning = IF verb = "%" THEN <<"%">> ELSE <<>>
      BY <3>1, <3>2, Zenon
    <3> QED
      BY <3>3, <3>4, Zenon
  <2>3. CASE IsUnfinished(e)
    BY <2>3, Zenon DEF IsUnfinished
  <2> QED
    BY <2>1, <2>2, <2>3, Zenon DEF IsPiece
<1>4. CASE e.args = <<>>
  <2>1. Written(e) = e.meaning /\ Fixed(e) = e.meaning
    BY <1>4, Zenon DEF Written, Fixed
  <2>2. Reads(e.meaning, e.meaning)
    BY <1>3, <1>4, ReadsNothing, ReadsCharacter, Zenon
  <2> QED
    BY <1>1, <1>5, <2>1, <2>2, Zenon
<1> QED
  BY <1>2, <1>4, Zenon

LEMMA AllText ==
  ASSUME NEW a \in Seq(Text)
  PROVE  All(a) \in Text
<1>1. Len(a) \in Nat /\ Joined(a) \in [0 .. Len(a) -> Text]
  BY JoinedFacts, Zenon DEF Text
<1>2. Len(a) \in 0 .. Len(a)
  BY <1>1, SMT
<1> QED
  BY <1>1, <1>2, Zenon DEF All

ArgumentObject == [text : Text, num : Int]

IsPieceOf(c, k) ==
    LET e == c.pieces[k]
    IN  IF c.formatted
        THEN IsCharacter(e, Reserved \cup {"%"}) \/ IsSpecifier(e) \/ (k = Len(c.pieces) /\ IsUnfinished(e))
        ELSE IsCharacter(e, Reserved)

LEMMA FewerCharacters ==
  ASSUME NEW e, IsCharacter(e, Reserved \cup {"%"})
  PROVE  IsCharacter(e, Reserved)
<1> DEFINE S == Char \ (Reserved \cup {"%"})
           T == Char \ Reserved
<1>1. S \subseteq T /\ e.format \in Seq(S)
  BY Zenon DEF IsCharacter
<1> HIDE DEF S, T
<1>2. e.format \in Seq(T)
  BY <1>1, SeqMonotonic, Zenon
<1> QED
  BY <1>2, Zenon DEF IsCharacter, T

LEMMA CallPieces ==
  ASSUME NEW d \in Documents, NEW k \in 1 .. Len(d)
  PROVE  /\ d[k].formatted \in BOOLEAN /\ d[k].pieces \in Seq(PieceObject) /\ Len(d[k].pieces) \in Nat
         /\ \A j \in 1 .. Len(d[k].pieces) :
              d[k].pieces[j] \in PieceObject /\ IsPieceOf(d[k], j) /\ IsPiece(d[k].pieces[j])
<1> DEFINE C == [formatted : BOOLEAN, pieces : Seq(PieceObject)]
           c == d[k]
<1>1. d \in Seq(C) /\ IsCall(c)
  BY XmlAssumption, Zenon
<1>2. c \in C
  <2> HIDE DEF C, c
  <2> QED
    BY <1>1, ElementOfSeq, Zenon DEF c
<1> HIDE DEF c
<1>3. c.formatted \in BOOLEAN /\ c.pieces \in Seq(PieceObject)
  BY <1>2, SMT
<1>4. Len(c.pieces) \in Nat /\ \A j \in 1 .. Len(c.pieces) : c.pieces[j] \in PieceObject
  BY <1>3, LenProperties, ElementOfSeq, Zenon
<1>5. \A j \in 1 .. Len(c.pieces) : IsPieceOf(c, j)
  BY <1>1, Zenon DEF IsCall, IsPieceOf
<1>6. \A j \in 1 .. Len(c.pieces) : IsPiece(c.pieces[j])
  BY <1>5, FewerCharacters, Zenon DEF IsPieceOf, IsPiece
<1> QED
  BY <1>3, <1>4, <1>5, <1>6, Zenon DEF c

\* The sequences that a call is made of
LEMMA CallFacts ==
  ASSUME NEW d \in Documents, NEW k \in 1 .. Len(d)
  PROVE  LET c == d[k]
             N == Len(c.pieces)
         IN  /\ FormatList(c) \in Seq(Text) /\ Len(FormatList(c)) = N
             /\ ArgumentList(c) \in Seq(Seq(ArgumentObject)) /\ Len(ArgumentList(c)) = N
             /\ Writing(c) \in Seq(Text) /\ Len(Writing(c)) = N
             /\ Format(c) = All(FormatList(c)) /\ Arguments(c) = All(ArgumentList(c))
             /\ \A j \in 1 .. N : /\ FormatList(c)[j] = c.pieces[j].format
                                  /\ ArgumentList(c)[j] = c.pieces[j].args
                                  /\ Writing(c)[j] = Written(c.pieces[j])
             /\ ~c.formatted => Format(c) = All(Writing(c))
<1> DEFINE c == d[k]
           N == Len(c.pieces)
           A == Seq(ArgumentObject)
<1>1. N \in Nat /\ \A j \in 1 .. N : c.pieces[j] \in PieceObject /\ IsPieceOf(c, j) /\ IsPiece(c.pieces[j])
  BY CallPieces, Zenon
<1> HIDE DEF c
<1>2. \A j \in 1 .. N : c.pieces[j].format \in Text /\ c.pieces[j].args \in A /\ Written(c.pieces[j]) \in Text
  BY <1>1, PieceFields, PieceWritten, Zenon DEF ArgumentObject
<1>3. FormatList(c) \in [1 .. N -> Text] /\ ArgumentList(c) \in [1 .. N -> A] /\ Writing(c) \in [1 .. N -> Text]
  BY <1>2, Zenon DEF FormatList, ArgumentList, Writing
<1>4. /\ FormatList(c) \in Seq(Text) /\ Len(FormatList(c)) = N
      /\ ArgumentList(c) \in Seq(A) /\ Len(ArgumentList(c)) = N
      /\ Writing(c) \in Seq(Text) /\ Len(Writing(c)) = N
  <2> HIDE DEF N, A
  <2> QED
    BY <1>1, <1>3, FunctionSeq, Zenon
<1>5. Format(c) = All(FormatList(c)) /\ Arguments(c) = All(ArgumentList(c))
  BY Zenon DEF Format, Arguments, FormatList, ArgumentList
<1>6. \A j \in 1 .. N : /\ FormatList(c)[j] = c.pieces[j].format /\ ArgumentList(c)[j] = c.pieces[j].args
                        /\ Writing(c)[j] = Written(c.pieces[j])
  BY Zenon DEF FormatList, ArgumentList, Writing
<1>7. ASSUME ~c.formatted PROVE Format(c) = All(Writing(c))
  <2>1. \A j \in 1 .. N : Written(c.pieces[j]) = c.pieces[j].format
    <3> SUFFICES ASSUME NEW j \in 1 .. N PROVE Written(c.pieces[j]) = c.pieces[j].format
      BY Zenon
    <3>1. IsCharacter(c.pieces[j], Reserved)
      BY <1>1, <1>7, Zenon DEF IsPieceOf
    <3> QED
      BY <3>1, Zenon DEF IsCharacter, Written
  <2>2. FormatList(c) = Writing(c)
    BY <2>1, Zenon DEF FormatList, Writing
  <2> QED
    BY <1>5, <2>2, Zenon
<1> QED
  BY <1>4, <1>5, <1>6, <1>7, Zenon DEF c

\* The whole document: how it is read, and its markup
LEMMA DocumentFacts ==
  ASSUME NEW d \in Documents
  PROVE  /\ Len(d) \in Nat /\ Renderings(d) \in Seq(Text) /\ Len(Renderings(d)) = Len(d)
         /\ Rendering(d) \in Text /\ AsRead(Rendering(d)) = Seen(Meaning(d))
         /\ Legal(Rendering(d)) <=> Legal(Meaning(d))
         /\ Skeleton(d) \in Text /\ Kept(Rendering(d)) = Kept(Skeleton(d))
         /\ \A k \in 1 .. Len(d) : Renderings(d)[k] = All(Writing(d[k]))
<1> DEFINE Ms(c) == [n \in 1 .. Len(c.pieces) |-> c.pieces[n].meaning]
           Fs(c) == [n \in 1 .. Len(c.pieces) |-> Fixed(c.pieces[n])]
           R == Renderings(d)
           M == [k \in 1 .. Len(d) |-> All(Ms(d[k]))]
           F == [k \in 1 .. Len(d) |-> All(Fs(d[k]))]
<1>1. Len(d) \in Nat
  BY XmlAssumption, LenProperties, Zenon
<1>2. ASSUME NEW k \in 1 .. Len(d)
      PROVE  /\ All(Writing(d[k])) \in Text /\ All(Ms(d[k])) \in Text /\ All(Fs(d[k])) \in Text
             /\ Reads(All(Writing(d[k])), All(Ms(d[k]))) /\ Kept(All(Writing(d[k]))) = Kept(All(Fs(d[k])))
             /\ Legal(All(Writing(d[k]))) <=> Legal(All(Ms(d[k])))
  <2> DEFINE c == d[k]
             N == Len(c.pieces)
             a == Writing(c)
             m == Ms(c)
             f == Fs(c)
  <2>1. N \in Nat /\ \A j \in 1 .. N : c.pieces[j] \in PieceObject /\ IsPiece(c.pieces[j])
    BY CallPieces, Zenon
  <2>2. a \in Seq(Text) /\ Len(a) = N /\ \A j \in 1 .. N : a[j] = Written(c.pieces[j])
    BY CallFacts, Zenon
  <2> HIDE DEF c
  <2>3. /\ \A j \in 1 .. N : m[j] = c.pieces[j].meaning /\ f[j] = Fixed(c.pieces[j])
        /\ m = [j \in 1 .. N |-> m[j]] /\ f = [j \in 1 .. N |-> f[j]]
    BY Zenon
  <2> HIDE DEF m, f, a, N
  <2>4. ASSUME NEW j \in 1 .. N
        PROVE  /\ m[j] \in Text /\ f[j] \in Text /\ Reads(a[j], m[j]) /\ Kept(a[j]) = Kept(f[j])
               /\ Legal(a[j]) <=> Legal(m[j])
    <3>1. c.pieces[j] \in PieceObject /\ IsPiece(c.pieces[j])
      BY <2>1, Zenon
    <3>2. a[j] = Written(c.pieces[j]) /\ m[j] = c.pieces[j].meaning /\ f[j] = Fixed(c.pieces[j])
      BY <2>2, <2>3, Zenon
    <3> QED
      BY <3>1, <3>2, PieceWritten, PieceFields, Zenon
  <2>5. m \in [1 .. N -> Text] /\ f \in [1 .. N -> Text]
    BY <2>3, <2>4, Zenon
  <2>6. m \in Seq(Text) /\ Len(m) = N /\ f \in Seq(Text) /\ Len(f) = N
    BY <2>1, <2>5, FunctionSeq, Zenon
  <2>7. All(a) \in Text /\ All(m) \in Text /\ Reads(All(a), All(m))
    BY <2>2, <2>4, <2>6, ReadsJoined, Zenon
  <2>8. Kept(All(a)) = Kept(All(f))
    BY <2>2, <2>4, <2>6, KeptJoined, Zenon
  <2>9. All(f) \in Text
    BY <2>6, AllText, Zenon
  <2>10. Legal(All(a)) <=> Legal(All(m))
    BY <2>2, <2>4, <2>6, LegalJoined, Zenon
  <2> QED
    BY <2>7, <2>8, <2>9, <2>10, Zenon DEF a, m, f, c
<1>3. /\ \A k \in 1 .. Len(d) : R[k] = All(Writing(d[k])) /\ M[k] = All(Ms(d[k])) /\ F[k] = All(Fs(d[k]))
      /\ R = [k \in 1 .. Len(d) |-> R[k]] /\ M = [k \in 1 .. Len(d) |-> M[k]] /\ F = [k \in 1 .. Len(d) |-> F[k]]
  BY Zenon DEF Renderings
<1>4. Meaning(d) = All(M) /\ Skeleton(d) = All(F) /\ Rendering(d) = All(R)
  BY Zenon DEF Meaning, Skeleton, Rendering
<1> HIDE DEF R, M, F, Ms, Fs
<1>5. R \in [1 .. Len(d) -> Text] /\ M \in [1 .. Len(d) -> Text] /\ F \in [1 .. Len(d) -> Text]
  <2>1. \A k \in 1 .. Len(d) : R[k] \in Text /\ M[k] \in Text /\ F[k] \in Text
    BY <1>2, <1>3, Zenon
  <2> QED
    BY <1>3, <2>1, Zenon
<1>6. /\ R \in Seq(Text) /\ Len(R) = Len(d) /\ M \in Seq(Text) /\ Len(M) = Len(d)
      /\ F \in Seq(Text) /\ Len(F) = Len(d)
  BY <1>1, <1>5, FunctionSeq, Zenon
<1>7. \A k \in 1 .. Len(d) : Reads(R[k], M[k]) /\ Kept(R[k]) = Kept(F[k]) /\ (Legal(R[k]) <=> Legal(M[k]))
  BY <1>2, <1>3, Zenon
<1>8. All(R) \in Text /\ All(M) \in Text /\ Reads(All(R), All(M))
  BY <1>6, <1>7, ReadsJoined, Zenon
<1>9. Kept(All(R)) = Kept(All(F)) /\ All(F) \in Text
  BY <1>6, <1>7, KeptJoined, AllText, Zenon
<1>10. AsRead(All(R)) = Seen(All(M))
  BY <1>8, ReadsAll, Zenon
<1>11. Legal(All(R)) <=> Legal(All(M))
  BY <1>6, <1>7, LegalJoined, Zenon
<1> QED
  BY <1>1, <1>3, <1>4, <1>6, <1>8, <1>9, <1>10, <1>11, Zenon DEF R

-----------------------------------------------------------------------------
(* The buffer                                                              *)

\* What append_chars and xml_null_terminate make of a buffer
Appended(b, n, w) ==
    [k \in 0 .. Size - 1 |-> IF k \in n .. n + Len(w) - 1 THEN w[k - n + 1] ELSE b[k]]
Terminated(b, n) == [b EXCEPT ![IF n < Size THEN n ELSE Size - 1] = Nul]

LEMMA AppendHolds ==
  ASSUME NEW b \in Buffer, NEW n \in Nat, NEW t \in Text, NEW w \in Text,
         Holds(b, n, t)
  PROVE  /\ Appended(b, n, w) \in Buffer /\ n + Len(w) \in Nat
         /\ Holds(Appended(b, n, w), n + Len(w), t \o w)
<1> DEFINE b2 == Appended(b, n, w)
<1>5. b2 = [k \in 0 .. Size - 1 |-> IF k \in n .. n + Len(w) - 1 THEN w[k - n + 1] ELSE b[k]]
  BY Zenon DEF Appended
<1> HIDE DEF b2
<1>1. /\ Len(t) \in Nat /\ Len(w) \in Nat /\ n = Len(t) /\ Len(t \o w) = Len(t) + Len(w)
      /\ \A k \in 1 .. Len(t) + Len(w) : (t \o w)[k] = IF k <= Len(t) THEN t[k] ELSE w[k - Len(t)]
      /\ \A k \in 1 .. Len(w) : w[k] \in Char
  BY ConcatProperties, LenProperties, ElementOfSeq, Zenon DEF Text, Holds
<1>2. n + Len(w) \in Nat /\ Size \in Nat
  BY <1>1, XmlAssumption, SMT
<1>3. ASSUME NEW k \in 0 .. Size - 1
      PROVE  b2[k] \in Char \cup {Nul} /\ (k < Len(t \o w) => b2[k] = (t \o w)[k + 1])
  <2>1. b2[k] = IF k \in n .. n + Len(w) - 1 THEN w[k - n + 1] ELSE b[k]
    BY <1>5, Zenon
  <2>2. CASE k \in n .. n + Len(w) - 1
    <3>1. k - n + 1 \in 1 .. Len(w) /\ k + 1 \in 1 .. Len(t) + Len(w) /\ ~(k + 1 <= Len(t)) /\ (k + 1) - Len(t) = k - n + 1
      BY <1>1, <1>2, <2>2, SMT
    <3>2. (t \o w)[k + 1] = w[k - n + 1]
      BY <1>1, <3>1, Zenon
    <3> QED
      BY <1>1, <2>1, <2>2, <3>1, <3>2, Zenon
  <2>3. CASE k \notin n .. n + Len(w) - 1
    <3>1. k < Len(t \o w) => k < Len(t) /\ k + 1 \in 1 .. Len(t) + Len(w) /\ k + 1 <= Len(t)
      BY <1>1, <1>2, <2>3, SMT
    <3>2. k < Len(t \o w) => b[k] = t[k + 1] /\ (t \o w)[k + 1] = t[k + 1]
      BY <1>1, <3>1, Zenon DEF Holds
    <3> QED
      BY <2>1, <2>3, <3>2, Zenon DEF Buffer
  <2> QED
    BY <2>2, <2>3, Zenon
<1>4. b2 \in Buffer
  BY <1>3, <1>5, Zenon DEF Buffer
<1> QED
  BY <1>1, <1>2, <1>3, <1>4, Zenon DEF Holds, b2

\* The zero at the end
LEMMA TerminateEnds ==
  ASSUME NEW b \in Buffer, NEW n \in Nat, NEW t \in Text, Holds(b, n, t)
  PROVE  Terminated(b, n) \in Buffer /\ Ended(Terminated(b, n), n, t)
<1> DEFINE b2 == Terminated(b, n)
<1> DEFINE z == IF n < Size THEN n ELSE Size - 1
<1>1. Size \in Nat \ {0} /\ n = Len(t) /\ \A k \in 0 .. Size - 1 : k < Len(t) => b[k] = t[k + 1]
  BY XmlAssumption, Zenon DEF Holds
<1>2. z \in 0 .. Size - 1 /\ z = (IF Len(t) < Size THEN Len(t) ELSE Size - 1)
  BY <1>1, SMT
<1>3. \A k \in 0 .. z - 1 : k \in 0 .. Size - 1 /\ k < Len(t) /\ k # z
  BY <1>1, SMT
<1>4. b2 = [b EXCEPT ![z] = Nul]
  BY Zenon DEF Terminated
<1> HIDE DEF z, b2
<1>5. b2 \in Buffer /\ b2[z] = Nul /\ \A k \in 0 .. z - 1 : b2[k] = b[k]
  <2> DEFINE S == Char \cup {Nul}
             D == 0 .. Size - 1
  <2>1. b \in [D -> S] /\ Nul \in S /\ z \in D
    BY <1>2, Zenon DEF Buffer
  <2>2. \A k \in 0 .. z - 1 : k \in D /\ k # z
    BY <1>3, Zenon
  <2> HIDE DEF S, D
  <2>3. b2 \in [D -> S] /\ b2[z] = Nul /\ \A k \in D : k # z => b2[k] = b[k]
    BY <1>4, <2>1, Zenon
  <2>4. \A k \in 0 .. z - 1 : b2[k] = b[k]
    BY <2>2, <2>3, Zenon
  <2> QED
    BY <2>3, <2>4, Zenon DEF S, D, Buffer
<1>6. \A k \in 0 .. z - 1 : b2[k] = t[k + 1]
  BY <1>1, <1>3, <1>5, Zenon
<1> QED
  BY <1>1, <1>2, <1>5, <1>6, Zenon DEF Ended, b2

-----------------------------------------------------------------------------
(* The document as far as it is written                                    *)

LEMMA SoFarStart ==
  ASSUME NEW d \in Documents, NEW c \in 1 .. Len(d) + 1
  PROVE  /\ SoFar(d, c, 0) = Joined(Renderings(d))[c - 1] /\ SoFar(d, c, 0) \in Text
         /\ Joined(Renderings(d))[c - 1] \in Text
<1>1. Len(d) \in Nat /\ Renderings(d) \in Seq(Text) /\ Len(Renderings(d)) = Len(d)
  BY DocumentFacts, Zenon
<1>2. c - 1 \in 0 .. Len(d) /\ (c <= Len(d) => c \in 1 .. Len(d))
  BY <1>1, SMT
<1>3. Joined(Renderings(d))[c - 1] \in Text
  BY <1>1, <1>2, JoinedFacts, Zenon DEF Text
<1>4. c <= Len(d) => Joined(Writing(d[c]))[0] = <<>>
  <2>1. c <= Len(d) => Writing(d[c]) \in Seq(Seq(Char))
    BY <1>2, CallFacts, Zenon DEF Text
  <2> QED
    BY <2>1, JoinedFacts, Zenon
<1>5. SoFar(d, c, 0) = Joined(Renderings(d))[c - 1] \o <<>>
  BY <1>4, Zenon DEF SoFar
<1>6. Joined(Renderings(d))[c - 1] \o <<>> = Joined(Renderings(d))[c - 1]
  BY <1>3, ConcatEmptySeq, Zenon DEF Text
<1> QED
  BY <1>3, <1>5, <1>6, Zenon

LEMMA SoFarEnds ==
  ASSUME NEW d \in Documents
  PROVE  SoFar(d, 1, 0) = <<>> /\ SoFar(d, Len(d) + 1, 0) = Rendering(d)
<1>1. Len(d) \in Nat /\ Renderings(d) \in Seq(Seq(Char)) /\ Len(Renderings(d)) = Len(d)
  BY DocumentFacts, Zenon DEF Text
<1>2. 1 \in 1 .. Len(d) + 1 /\ Len(d) + 1 \in 1 .. Len(d) + 1 /\ 1 - 1 = 0 /\ (Len(d) + 1) - 1 = Len(d)
  BY <1>1, SMT
<1>3. Joined(Renderings(d))[0] = <<>>
  BY <1>1, JoinedFacts, Zenon
<1>4. SoFar(d, 1, 0) = Joined(Renderings(d))[1 - 1] /\ SoFar(d, Len(d) + 1, 0) = Joined(Renderings(d))[(Len(d) + 1) - 1]
  BY <1>2, SoFarStart, Zenon
<1> QED
  BY <1>1, <1>2, <1>3, <1>4, Zenon DEF Rendering, All

\* A call, piece by piece and as a whole
LEMMA SoFarCall ==
  ASSUME NEW d \in Documents, NEW c \in 1 .. Len(d)
  PROVE  LET N == Len(d[c].pieces)
         IN  /\ N \in Nat
             /\ \A m \in 0 .. N : SoFar(d, c, m) \in Text
             /\ \A m \in 1 .. N : /\ Written(d[c].pieces[m]) \in Text
                                  /\ SoFar(d, c, m) = SoFar(d, c, m - 1) \o Written(d[c].pieces[m])
             /\ SoFar(d, c, N) = SoFar(d, c + 1, 0)
             /\ All(Writing(d[c])) \in Text
             /\ SoFar(d, c, 0) \o All(Writing(d[c])) = SoFar(d, c + 1, 0)
<1> DEFINE N == Len(d[c].pieces)
           a == Writing(d[c])
           J == Joined(a)
           R == Renderings(d)
           K == Joined(R)[c - 1]
<1>1. N \in Nat /\ a \in Seq(Seq(Char)) /\ Len(a) = N /\ \A j \in 1 .. N : a[j] = Written(d[c].pieces[j])
  BY CallPieces, CallFacts, Zenon DEF Text
<1>2. Len(d) \in Nat /\ R \in Seq(Seq(Char)) /\ Len(R) = Len(d) /\ R[c] = All(a)
  BY DocumentFacts, Zenon DEF Text
<1> HIDE DEF N, R
<1>3. /\ c \in 1 .. Len(d) + 1 /\ c + 1 \in 1 .. Len(d) + 1 /\ (c + 1) - 1 = c /\ c <= Len(d) /\ N \in 0 .. N
      /\ \A m \in 1 .. N : m \in 0 .. N /\ m - 1 \in 0 .. N
  BY <1>1, <1>2, SMT
<1>4. K \in Seq(Char) /\ SoFar(d, c, 0) = K /\ SoFar(d, c + 1, 0) = Joined(R)[(c + 1) - 1]
  BY <1>3, SoFarStart, Zenon DEF Text, R
<1>5. \A m : SoFar(d, c, m) = K \o J[m]
  BY <1>3, Zenon DEF SoFar, R
<1> HIDE DEF K
<1>6. J \in [0 .. N -> Seq(Char)] /\ \A m \in 1 .. N : a[m] \in Seq(Char) /\ J[m] = J[m - 1] \o a[m]
  <2> HIDE DEF a
  <2> QED
    BY <1>1, JoinedFacts, Zenon
<1>7. Joined(R)[c] = K \o All(a)
  BY <1>2, JoinedFacts, Zenon DEF K
<1>8. All(a) = J[N]
  BY <1>1, Zenon DEF All
<1> HIDE DEF J, a
<1>9. \A m \in 0 .. N : J[m] \in Seq(Char) /\ K \o J[m] \in Seq(Char)
  BY <1>4, <1>6, ConcatProperties, Zenon
<1>10. \A m \in 1 .. N : K \o J[m] = (K \o J[m - 1]) \o a[m]
  <2> SUFFICES ASSUME NEW m \in 1 .. N PROVE K \o J[m] = (K \o J[m - 1]) \o a[m]
    BY Zenon
  <2>1. K \in Seq(Char) /\ J[m - 1] \in Seq(Char) /\ a[m] \in Seq(Char) /\ J[m] = J[m - 1] \o a[m]
    BY <1>3, <1>4, <1>6, <1>9, Zenon
  <2>2. (K \o J[m - 1]) \o a[m] = K \o (J[m - 1] \o a[m])
    <3> DEFINE y == J[m - 1]
               z == a[m]
    <3>1. K \in Seq(Char) /\ y \in Seq(Char) /\ z \in Seq(Char)
      BY <2>1, Zenon
    <3> HIDE DEF y, z
    <3>2. (K \o y) \o z = K \o (y \o z)
      BY <3>1, Associative, Zenon
    <3> QED
      BY <3>2, Zenon DEF y, z
  <2> QED
    BY <2>1, <2>2, Zenon
<1>11. \A m \in 0 .. N : SoFar(d, c, m) \in Text
  BY <1>5, <1>9, Zenon DEF Text
<1>12. \A m \in 1 .. N : /\ Written(d[c].pieces[m]) \in Text
                         /\ SoFar(d, c, m) = SoFar(d, c, m - 1) \o Written(d[c].pieces[m])
  <2> SUFFICES ASSUME NEW m \in 1 .. N
               PROVE  /\ Written(d[c].pieces[m]) \in Text
                      /\ SoFar(d, c, m) = SoFar(d, c, m - 1) \o Written(d[c].pieces[m])
    BY Zenon
  <2>1. a[m] = Written(d[c].pieces[m]) /\ a[m] \in Seq(Char) /\ K \o J[m] = (K \o J[m - 1]) \o a[m]
    BY <1>1, <1>6, <1>10, Zenon
  <2>2. SoFar(d, c, m) = K \o J[m] /\ SoFar(d, c, m - 1) = K \o J[m - 1]
    BY <1>5, Zenon
  <2> QED
    BY <2>1, <2>2, Zenon DEF Text
<1>13. SoFar(d, c, N) = SoFar(d, c + 1, 0) /\ SoFar(d, c, 0) \o All(a) = SoFar(d, c + 1, 0) /\ All(a) \in Text
  <2>1. SoFar(d, c, N) = K \o J[N] /\ SoFar(d, c + 1, 0) = K \o All(a) /\ SoFar(d, c, 0) = K
    BY <1>3, <1>4, <1>5, <1>7, Zenon
  <2>2. J[N] \in Text
    BY <1>3, <1>9, Zenon DEF Text
  <2> QED
    BY <1>8, <2>1, <2>2, Zenon
<1> QED
  BY <1>1, <1>11, <1>12, <1>13, Zenon DEF N, a

-----------------------------------------------------------------------------
(* Positions in a format                                                   *)

AtIn(x, q) == IF q <= Len(x) THEN x[q] ELSE Nul
AfterIn(x, q) ==
    IF AtIn(x, q) \notin {"h", "l"} THEN q ELSE IF AtIn(x, q + 1) = AtIn(x, q) THEN q + 2 ELSE q + 1

LEMMA AtIs ==
  /\ \A q : At(q) = AtIn(Format(document[call]), q)
  /\ \A q : AfterLength(q) = AfterIn(Format(document[call]), q)
BY Zenon DEF At, AtIn, AfterLength, AfterIn

\* A part of a joined text, where it is
LEMMA PartAt ==
  ASSUME NEW S, NEW t \in Seq(Seq(S)), NEW m \in 0 .. Len(t)
  PROVE  LET n == Len(Joined(t)[m])
         IN  /\ n \in Nat /\ n <= Len(All(t)) /\ Len(All(t)) \in Nat /\ (m = Len(t) => n = Len(All(t)))
             /\ m < Len(t) => /\ m + 1 \in 1 .. Len(t) /\ t[m + 1] \in Seq(S) /\ Len(t[m + 1]) \in Nat
                              /\ Len(Joined(t)[m + 1]) = n + Len(t[m + 1])
                              /\ n + Len(t[m + 1]) <= Len(All(t))
                              /\ \A j \in 1 .. Len(t[m + 1]) : All(t)[n + j] = t[m + 1][j]
<1> DEFINE n == Len(Joined(t)[m])
           L == Len(t)
<1>1. L \in Nat
  BY LenProperties, Zenon
<1>2. L \in m .. L /\ (m < L => m + 1 \in 1 .. L /\ (m + 1) - 1 = m)
  BY <1>1, SMT
<1>3. Joined(t)[m] \in Seq(S) /\ All(t) \in Seq(S) /\ Occurs(Joined(t)[m], All(t), 0)
  BY <1>2, JoinedPrefix, Zenon DEF All
<1>4. n \in Nat /\ Len(All(t)) \in Nat /\ 0 + n <= Len(All(t))
  BY <1>3, LenProperties, Zenon DEF Occurs
<1>5. n <= Len(All(t))
  <2> HIDE DEF n
  <2> QED
    BY <1>4, SMT
<1>6. m = L => n = Len(All(t))
  BY Zenon DEF All
<1>7. ASSUME m < L
      PROVE  /\ m + 1 \in 1 .. L /\ t[m + 1] \in Seq(S) /\ Len(t[m + 1]) \in Nat
             /\ Len(Joined(t)[m + 1]) = n + Len(t[m + 1]) /\ n + Len(t[m + 1]) <= Len(All(t))
             /\ \A j \in 1 .. Len(t[m + 1]) : All(t)[n + j] = t[m + 1][j]
  <2> DEFINE k == m + 1
  <2>1. k \in 1 .. Len(t) /\ Joined(t)[k - 1] = Joined(t)[m]
    BY <1>2, <1>7, Zenon
  <2> HIDE DEF k
  <2>2. /\ t[k] \in Seq(S) /\ Len(t[k]) \in Nat
        /\ Len(Joined(t)[k]) = Len(Joined(t)[k - 1]) + Len(t[k]) /\ Len(Joined(t)[k]) <= Len(All(t))
        /\ Occurs(t[k], All(t), Len(Joined(t)[k - 1]))
    BY <2>1, JoinedAt, Zenon
  <2> QED
    BY <2>1, <2>2, Zenon DEF k, Occurs
<1> QED
  BY <1>4, <1>5, <1>6, <1>7, Zenon

\* A specifier, and one that is not finished
Word(l, v) == <<"%">> \o l \o <<v>>
IsVerb(v) == v \notin {"h", "l"}
IsWord(w, l, v) == w = Word(l, v)
Stands(x, q, w) == \A j \in 1 .. Len(w) : AtIn(x, q + j) = w[j]
EndsIn(x, q, w, v) == AtIn(x, q + 1) = "%" /\ AfterIn(x, (q + 1) + 1) = q + Len(w) /\ AtIn(x, q + Len(w)) = v
Begun(l) == <<"%">> \o l

\* Where a specifier ends
LEMMA SpecifierEnds ==
  ASSUME NEW x, NEW q \in Nat, NEW l \in Lengths, NEW v, IsVerb(v),
         NEW w, IsWord(w, l, v), Stands(x, q, w)
  PROVE  EndsIn(x, q, w, v)
<1> USE DEF IsWord, Stands, EndsIn
<1>1. /\ (q + 1) + 1 = q + 2 /\ (q + 2) + 1 = q + 3 /\ (q + 2) + 2 = q + 4
      /\ "h" # "l" /\ {1, 2} \subseteq 1 .. 2 /\ {1, 2, 3} \subseteq 1 .. 3 /\ {1, 2, 3, 4} \subseteq 1 .. 4
  BY SMT
<1>2. CASE l = <<>>
  <2>1. Len(w) = 2 /\ w[1] = "%" /\ w[2] = v
    BY <1>2, SMT DEF Word
  <2>2. AtIn(x, q + 1) = "%" /\ AtIn(x, q + 2) = v
    BY <1>1, <2>1, Zenon
  <2> QED
    BY <1>1, <2>1, <2>2, Zenon DEF AfterIn, IsVerb
<1>3. ASSUME NEW g \in {"h", "l"}, l = <<g>>
      PROVE  AtIn(x, q + 1) = "%" /\ AfterIn(x, (q + 1) + 1) = q + Len(w) /\ AtIn(x, q + Len(w)) = v
  <2>1. Len(w) = 3 /\ w[1] = "%" /\ w[2] = g /\ w[3] = v
    BY <1>3, SMT DEF Word
  <2>2. AtIn(x, q + 1) = "%" /\ AtIn(x, q + 2) = g /\ AtIn(x, q + 3) = v
    BY <1>1, <2>1, Zenon
  <2>3. v # g
    BY Zenon DEF IsVerb
  <2> QED
    BY <1>1, <2>1, <2>2, <2>3, Zenon DEF AfterIn
<1>4. ASSUME NEW g \in {"h", "l"}, l = <<g, g>>
      PROVE  AtIn(x, q + 1) = "%" /\ AfterIn(x, (q + 1) + 1) = q + Len(w) /\ AtIn(x, q + Len(w)) = v
  <2>1. Len(w) = 4 /\ w[1] = "%" /\ w[2] = g /\ w[3] = g /\ w[4] = v
    BY <1>4, SMT DEF Word
  <2>2. AtIn(x, q + 1) = "%" /\ AtIn(x, q + 2) = g /\ AtIn(x, q + 3) = g /\ AtIn(x, q + 4) = v
    BY <1>1, <2>1, Zenon
  <2> QED
    BY <1>1, <2>1, <2>2, Zenon DEF AfterIn
<1> QED
  BY <1>2, <1>3, <1>4, Zenon DEF Lengths

\* Where the format ends within one
LEMMA UnfinishedEnds ==
  ASSUME NEW x, NEW q \in Nat, NEW l \in Lengths,
         NEW w, w = Begun(l), \A j \in 1 .. Len(w) : AtIn(x, q + j) = w[j],
         AtIn(x, (q + Len(w)) + 1) = Nul
  PROVE  AtIn(x, q + 1) = "%" /\ AfterIn(x, (q + 1) + 1) = (q + Len(w)) + 1
<1>1. /\ (q + 1) + 1 = q + 2 /\ (q + 2) + 1 = q + 3 /\ (q + 3) + 1 = q + 4 /\ (q + 2) + 2 = q + 4
      /\ "h" # Nul /\ "l" # Nul /\ 1 \in 1 .. 1 /\ {1, 2} \subseteq 1 .. 2 /\ {1, 2, 3} \subseteq 1 .. 3
  BY SMT DEF Nul
<1>2. CASE l = <<>>
  <2>1. Len(w) = 1 /\ w[1] = "%"
    BY <1>2, SMT DEF Begun
  <2>2. AtIn(x, q + 1) = "%" /\ AtIn(x, q + 2) = Nul
    BY <1>1, <2>1, Zenon
  <2> QED
    BY <1>1, <2>1, <2>2, Zenon DEF AfterIn
<1>3. ASSUME NEW g \in {"h", "l"}, l = <<g>>
      PROVE  AtIn(x, q + 1) = "%" /\ AfterIn(x, (q + 1) + 1) = (q + Len(w)) + 1
  <2>1. Len(w) = 2 /\ w[1] = "%" /\ w[2] = g
    BY <1>3, SMT DEF Begun
  <2>2. AtIn(x, q + 1) = "%" /\ AtIn(x, q + 2) = g /\ AtIn(x, q + 3) = Nul /\ g # Nul
    BY <1>1, <2>1, Zenon
  <2> QED
    BY <1>1, <2>1, <2>2, Zenon DEF AfterIn
<1>4. ASSUME NEW g \in {"h", "l"}, l = <<g, g>>
      PROVE  AtIn(x, q + 1) = "%" /\ AfterIn(x, (q + 1) + 1) = (q + Len(w)) + 1
  <2>1. Len(w) = 3 /\ w[1] = "%" /\ w[2] = g /\ w[3] = g
    BY <1>4, SMT DEF Begun
  <2>2. AtIn(x, q + 1) = "%" /\ AtIn(x, q + 2) = g /\ AtIn(x, q + 3) = g
    BY <1>1, <2>1, Zenon
  <2> QED
    BY <1>1, <2>1, <2>2, Zenon DEF AfterIn
<1> QED
  BY <1>2, <1>3, <1>4, Zenon DEF Lengths

\* What a specifier appends is what should be written for it.
LEMMA ConvertedIs ==
  ASSUME NEW e \in PieceObject, IsSpecifier(e), NEW a,
         e.format[Len(e.format)] \in {"c", "d", "s"} => a = e.args[1]
  PROVE  /\ Converted(e.format[Len(e.format)], a) = Written(e)
         /\ Len(e.args) = IF e.format[Len(e.format)] \in {"c", "d", "s"} THEN 1 ELSE 0
<1> DEFINE v == e.format[Len(e.format)]
<1>1. e.meaning \in Text /\ <<>> \in Text /\ Len(<<>>) = 0 /\ 0 # 1
  <2>1. 0 # 1
    BY SMT
  <2> QED
    BY <2>1, PieceFields, EmptySeq, Zenon DEF Text
<1>2. IF v \notin {"c", "d", "s"}
      THEN e.args = <<>> /\ e.meaning = IF v = "%" THEN <<"%">> ELSE <<>>
      ELSE /\ Len(e.args) = 1 /\ e.args \in Seq([text : Text, num : Int])
           /\ v \in {"c", "s"} => e.meaning = e.args[1].text
           /\ v = "c" => Len(e.meaning) = 1 /\ Entity(e.meaning[1]) = e.meaning
           /\ v = "d" => IsDecimal(e.meaning, e.args[1].num)
  BY Zenon DEF IsSpecifier
<1> HIDE DEF v
<1>3. CASE v \notin {"c", "d", "s"}
  <2>1. Converted(v, a) = IF v = "%" THEN <<"%">> ELSE <<>>
    BY <1>3, SMT DEF Converted
  <2>2. Written(e) = e.meaning
    BY <1>2, <1>3, Zenon DEF Written
  <2> QED
    BY <1>1, <1>2, <1>3, <2>1, <2>2, Zenon DEF v
<1>4. CASE v \in {"c", "d", "s"}
  <2>1. Len(e.args) = 1 /\ e.args # <<>> /\ a = e.args[1] /\ Written(e) = string_escaped(e.meaning)
    BY <1>1, <1>2, <1>4, Zenon DEF Written, v
  <2>2. a.num \in Int
    <3>1. e.args[1] \in [text : Text, num : Int]
      <4> DEFINE S == [text : Text, num : Int]
      <4>1. e.args \in Seq(S) /\ 1 \in 1 .. Len(e.args)
        <5>1. 1 \in 1 .. 1
          BY SMT
        <5> QED
          BY <1>2, <1>4, <2>1, <5>1, Zenon
      <4> HIDE DEF S
      <4>2. e.args[1] \in S
        BY <4>1, ElementOfSeq, Zenon
      <4> QED
        BY <4>2, Zenon DEF S
    <3> QED
      BY <2>1, <3>1, SMT
  <2>3. CASE v = "c"
    <3>1. Converted(v, a) = a.text
      BY <2>3, SMT DEF Converted
    <3>2. Len(e.meaning) = 1 /\ Entity(e.meaning[1]) = e.meaning /\ e.meaning = a.text
      BY <1>2, <1>4, <2>1, <2>3, Zenon
    <3>3. e.meaning = <<e.meaning[1]>> /\ \A k \in 1 .. Len(e.meaning) : k = 1
      BY <1>1, <3>2, OneCharacter, Zenon
    <3>4. string_escaped(e.meaning) = e.meaning
      BY <1>1, <3>2, <3>3, NothingEscaped, Zenon
    <3> QED
      BY <1>4, <2>1, <3>1, <3>2, <3>4, Zenon DEF v
  <2>4. CASE v = "d"
    <3>1. Converted(v, a) = number(a.num)
      BY <2>4, SMT DEF Converted
    <3>2. IsDecimal(e.meaning, a.num)
      BY <1>2, <1>4, <2>1, <2>4, Zenon
    <3>3. number(a.num) = e.meaning /\ \A k \in 1 .. Len(e.meaning) : e.meaning[k] \notin Escaped
      BY <2>2, <3>2, DecimalIs, Zenon
    <3>4. \A k \in 1 .. Len(e.meaning) : Entity(e.meaning[k]) = <<e.meaning[k]>>
      BY <3>3, EntityOther, Zenon
    <3>5. string_escaped(e.meaning) = e.meaning
      BY <1>1, <3>4, NothingEscaped, Zenon
    <3> QED
      BY <1>4, <2>1, <3>1, <3>3, <3>5, Zenon DEF v
  <2>5. CASE v = "s"
    <3>1. Converted(v, a) = string_escaped(a.text)
      BY <2>5, SMT DEF Converted
    <3>2. e.meaning = a.text
      BY <1>2, <1>4, <2>1, <2>5, Zenon
    <3> QED
      BY <1>4, <2>1, <3>1, <3>2, Zenon DEF v
  <2> QED
    BY <1>4, <2>3, <2>4, <2>5, Zenon
<1> QED
  BY <1>3, <1>4, Zenon

\* One turn of the loop over a format takes one piece and appends what should be written
\* for it.
TakesCharacter(d, c, m) ==
    LET x == Format(d[c])
        q == 1 + Len(Joined(FormatList(d[c]))[m])
    IN  AtIn(x, q) # "%" =>
          /\ Written(d[c].pieces[m + 1]) = <<AtIn(x, q)>>
          /\ 1 + Len(Joined(FormatList(d[c]))[m + 1]) = q + 1
          /\ 1 + Len(Joined(ArgumentList(d[c]))[m + 1]) = 1 + Len(Joined(ArgumentList(d[c]))[m])

TakesSpecifier(d, c, m) ==
    LET x == Format(d[c])
        q == 1 + Len(Joined(FormatList(d[c]))[m])
        r == 1 + Len(Joined(ArgumentList(d[c]))[m])
        z == AfterIn(x, q + 1)
    IN  AtIn(x, q) = "%" =>
          /\ Written(d[c].pieces[m + 1]) = Converted(AtIn(x, z), Arguments(d[c])[r])
          /\ 1 + Len(Joined(ArgumentList(d[c]))[m + 1]) = IF AtIn(x, z) \in {"c", "d", "s"} THEN r + 1 ELSE r
          /\ 1 + Len(Joined(FormatList(d[c]))[m + 1]) = IF AtIn(x, z) # Nul THEN z + 1 ELSE z

LEMMA FormatPiece ==
  ASSUME NEW d \in Documents, NEW c \in 1 .. Len(d), d[c].formatted, NEW m \in 0 .. Len(d[c].pieces)
  PROVE  LET x == Format(d[c])
             q == 1 + Len(Joined(FormatList(d[c]))[m])
             r == 1 + Len(Joined(ArgumentList(d[c]))[m])
         IN  /\ q \in 1 .. Len(x) + 1 /\ r \in 1 .. Len(Arguments(d[c])) + 1
             /\ m = Len(d[c].pieces) => AtIn(x, q) = Nul
             /\ m # Len(d[c].pieces) => AtIn(x, q) # Nul /\ TakesCharacter(d, c, m) /\ TakesSpecifier(d, c, m)
<1> DEFINE N == Len(d[c].pieces)
           x == Format(d[c])
           y == Arguments(d[c])
           fs == FormatList(d[c])
           as == ArgumentList(d[c])
           f == Len(Joined(fs)[m])
           g == Len(Joined(as)[m])
           f2 == Len(Joined(fs)[m + 1])
           g2 == Len(Joined(as)[m + 1])
           e == d[c].pieces[m + 1]
           L == Len(e.format)
           K == Len(e.args)
           z == AfterIn(x, (1 + f) + 1)
<1>1. N \in Nat /\ \A j \in 1 .. N : d[c].pieces[j] \in PieceObject /\ IsPieceOf(d[c], j) /\ IsPiece(d[c].pieces[j])
  BY CallPieces, Zenon
<1>2. /\ fs \in Seq(Seq(Char)) /\ Len(fs) = N /\ as \in Seq(Seq(ArgumentObject)) /\ Len(as) = N
      /\ x = All(fs) /\ y = All(as)
      /\ \A j \in 1 .. N : fs[j] = d[c].pieces[j].format /\ as[j] = d[c].pieces[j].args
  BY CallFacts, Zenon DEF Text
<1>3. /\ f \in Nat /\ f <= Len(x) /\ Len(x) \in Nat /\ (m = N => f = Len(x))
      /\ (m < N => m + 1 \in 1 .. N /\ f2 = f + Len(fs[m + 1]) /\ f + Len(fs[m + 1]) <= Len(x) /\ Len(fs[m + 1]) \in Nat)
      /\ (m < N => \A j \in 1 .. Len(fs[m + 1]) : x[f + j] = fs[m + 1][j])
  <2>1. fs \in Seq(Seq(Char)) /\ m \in 0 .. Len(fs)
    BY <1>2, Zenon
  <2>2. x = All(fs) /\ Len(fs) = N
    BY <1>2, Zenon
  <2> HIDE DEF fs, x, N
  <2>3. /\ f \in Nat /\ f <= Len(All(fs)) /\ Len(All(fs)) \in Nat /\ (m = Len(fs) => f = Len(All(fs)))
        /\ m < Len(fs) => /\ m + 1 \in 1 .. Len(fs) /\ Len(fs[m + 1]) \in Nat
                          /\ f2 = f + Len(fs[m + 1]) /\ f + Len(fs[m + 1]) <= Len(All(fs))
                          /\ \A j \in 1 .. Len(fs[m + 1]) : All(fs)[f + j] = fs[m + 1][j]
    BY <2>1, PartAt, ZenonT(40)
  <2> QED
    BY <2>2, <2>3, Zenon
<1>4. /\ g \in Nat /\ g <= Len(y) /\ Len(y) \in Nat
      /\ (m < N => g2 = g + Len(as[m + 1]) /\ Len(as[m + 1]) \in Nat)
      /\ (m < N => \A j \in 1 .. Len(as[m + 1]) : y[g + j] = as[m + 1][j])
  <2>1. as \in Seq(Seq(ArgumentObject)) /\ m \in 0 .. Len(as)
    BY <1>2, Zenon
  <2>2. y = All(as) /\ Len(as) = N
    BY <1>2, Zenon
  <2> HIDE DEF as, y, N
  <2>3. /\ g \in Nat /\ g <= Len(All(as)) /\ Len(All(as)) \in Nat
        /\ m < Len(as) => /\ Len(as[m + 1]) \in Nat /\ g2 = g + Len(as[m + 1])
                          /\ \A j \in 1 .. Len(as[m + 1]) : All(as)[g + j] = as[m + 1][j]
    BY <2>1, PartAt, ZenonT(40)
  <2> QED
    BY <2>2, <2>3, Zenon
<1> HIDE DEF N, fs, as, x, y, f, g, f2, g2
<1>5. 1 + f \in 1 .. Len(x) + 1 /\ 1 + g \in 1 .. Len(y) + 1 /\ (m # N => m < N) /\ 1 + f = f + 1 /\ 1 + g = g + 1
  BY <1>1, <1>3, <1>4, SMT DEF N
<1>6. m = N => AtIn(x, 1 + f) = Nul
  <2>1. m = N => ~(1 + f <= Len(x))
    BY <1>3, SMT
  <2> QED
    BY <2>1, Zenon DEF AtIn
<1>7. ASSUME m # N
      PROVE  /\ m + 1 \in 1 .. N /\ e \in PieceObject /\ IsPieceOf(d[c], m + 1) /\ IsPiece(e)
             /\ e.format \in Seq(Char) /\ L \in Nat /\ L >= 1 /\ K \in Nat
             /\ f2 = f + L /\ g2 = g + K /\ f + L <= Len(x)
             /\ (\A j \in 1 .. L : AtIn(x, f + j) = e.format[j]) /\ (\A j \in 1 .. K : y[g + j] = e.args[j])
  <2>1. m < N /\ m + 1 \in 1 .. N
    BY <1>3, <1>5, <1>7, Zenon
  <2>2. e \in PieceObject /\ IsPieceOf(d[c], m + 1) /\ IsPiece(e) /\ fs[m + 1] = e.format /\ as[m + 1] = e.args
    BY <1>1, <1>2, <2>1, Zenon
  <2>3. e.format \in Seq(Char) /\ L \in Nat /\ L >= 1
    BY <2>2, PieceWritten, PieceFields, Zenon DEF Text
  <2>4. /\ f2 = f + L /\ f + L <= Len(x) /\ \A j \in 1 .. L : x[f + j] = e.format[j]
    BY <1>3, <2>1, <2>2, Zenon
  <2>5. g2 = g + K /\ K \in Nat /\ \A j \in 1 .. K : y[g + j] = e.args[j]
    BY <1>4, <2>1, <2>2, Zenon
  <2>6. \A j \in 1 .. L : f + j <= Len(x)
    <3> HIDE DEF L
    <3> QED
      BY <1>3, <2>3, <2>4, SMT
  <2>7. \A j \in 1 .. L : AtIn(x, f + j) = e.format[j]
    BY <2>4, <2>6, Zenon DEF AtIn
  <2> QED
    BY <2>1, <2>2, <2>3, <2>4, <2>5, <2>7, Zenon
<1> DEFINE Done == /\ AtIn(x, 1 + f) # Nul
                   /\ AtIn(x, 1 + f) # "%" => Written(e) = <<AtIn(x, 1 + f)>> /\ 1 + f2 = (1 + f) + 1 /\ 1 + g2 = 1 + g
                   /\ AtIn(x, 1 + f) = "%" =>
                        /\ Written(e) = Converted(AtIn(x, z), y[1 + g])
                        /\ 1 + g2 = IF AtIn(x, z) \in {"c", "d", "s"} THEN (1 + g) + 1 ELSE 1 + g
                        /\ 1 + f2 = IF AtIn(x, z) # Nul THEN z + 1 ELSE z
<1>8. ASSUME m # N PROVE Done
  <2>9. "%" # Nul /\ Nul \notin {"c", "d", "s"}
    BY SMT DEF Nul
  <2>1. CASE IsCharacter(e, Reserved \cup {"%"})
    <3>1. Len(e.format) = 1 /\ e.format \in Seq(Char \ (Reserved \cup {"%"})) /\ e.args = <<>> /\ e.meaning = e.format
      BY <2>1, Zenon DEF IsCharacter
    <3>2. e.format[1] \in Char /\ e.format = <<e.format[1]>> /\ e.format[1] \notin Reserved \cup {"%"} /\ 1 \in 1 .. L
      BY <1>7, <1>8, <3>1, OneCharacter, Subset1, Zenon DEF Text
    <3>3. AtIn(x, 1 + f) = e.format[1] /\ Written(e) = e.format /\ K = 0 /\ L = 1
      BY <1>5, <1>7, <1>8, <3>1, <3>2, EmptySeq, ZenonT(40) DEF Written
    <3>4. AtIn(x, 1 + f) # Nul /\ AtIn(x, 1 + f) # "%"
      BY <3>2, <3>3, CharAssumption, Zenon
    <3>5. f2 = f + 1 /\ g2 = g + 0
      BY <1>7, <1>8, <3>3, Zenon
    <3>6. 1 + f2 = (1 + f) + 1 /\ 1 + g2 = 1 + g
      BY <1>3, <1>4, <3>5, SMT
    <3> QED
      BY <3>2, <3>3, <3>4, <3>6, Zenon
  <2>2. CASE IsSpecifier(e)
    <3> DEFINE v == e.format[L]
    <3>1. PICK l \in Lengths : e.format = <<"%">> \o l \o <<v>>
      BY <2>2, Zenon DEF IsSpecifier
    <3>2. v \in Char /\ v \notin {"h", "l"} /\ v # Nul
      BY <2>2, CharAssumption, Zenon DEF IsSpecifier
    <3>3. AtIn(x, f + 1) = "%" /\ AfterIn(x, (f + 1) + 1) = f + L /\ AtIn(x, f + L) = v
      <4> DEFINE u == e.format
      <4>1. u = Word(l, v) /\ \A j \in 1 .. Len(u) : AtIn(x, f + j) = u[j]
        BY <1>7, <1>8, <3>1, Zenon DEF Word
      <4> HIDE DEF u, v
      <4>2. AtIn(x, f + 1) = "%" /\ AfterIn(x, (f + 1) + 1) = f + Len(u) /\ AtIn(x, f + Len(u)) = v
        <5>1. f \in Nat
          BY <1>3, Zenon
        <5> QED
          <6>1. IsVerb(v)
            BY <3>2, Zenon DEF IsVerb
          <6>2. IsWord(u, l, v) /\ Stands(x, f, u)
            BY <4>1, Zenon DEF IsWord, Stands
          <6>3. EndsIn(x, f, u, v)
            BY <5>1, <6>1, <6>2, SpecifierEnds, Zenon
          <6> QED
            BY <6>3, Zenon DEF EndsIn
      <4> QED
        BY <4>2, Zenon DEF u
    <3>4. z = f + L /\ AtIn(x, z) = v /\ AtIn(x, 1 + f) = "%"
      BY <1>5, <3>3, Zenon
    <3>5. K = 1 => y[1 + g] = e.args[1]
      <4>1. 1 \in 1 .. 1
        BY SMT
      <4> QED
        BY <1>5, <1>7, <1>8, <4>1, Zenon
    <3>10. K = IF v \in {"c", "d", "s"} THEN 1 ELSE 0
      <4>1. v \in {"c", "d", "s"} => e.args[1] = e.args[1]
        OBVIOUS
      <4> QED
        BY <1>7, <1>8, <2>2, <4>1, ConvertedIs, Zenon
    <3>6. Converted(v, y[1 + g]) = Written(e)
      BY <1>7, <1>8, <2>2, <3>5, <3>10, ConvertedIs, Zenon
    <3>7. 1 + f2 = z + 1
      <4>1. f2 = f + L /\ L \in Nat
        BY <1>7, <1>8, Zenon
      <4> HIDE DEF L, z
      <4> QED
        BY <1>3, <3>4, <4>1, SMT
    <3>8. 1 + g2 = IF v \in {"c", "d", "s"} THEN (1 + g) + 1 ELSE 1 + g
      <4>1. g2 = g + K
        BY <1>7, <1>8, Zenon
      <4> HIDE DEF v, K
      <4>2. K = 1 => 1 + g2 = (1 + g) + 1
        BY <1>4, <4>1, SMT
      <4>3. K = 0 => 1 + g2 = 1 + g
        BY <1>4, <4>1, SMT
      <4> QED
        BY <3>10, <4>2, <4>3, Zenon
    <3> HIDE DEF z, v
    <3> QED
      BY <2>9, <3>2, <3>4, <3>6, <3>7, <3>8, Zenon
  <2>3. CASE m + 1 = N /\ IsUnfinished(e)
    <3>1. PICK l \in Lengths : e.format = <<"%">> \o l
      BY <2>3, Zenon DEF IsUnfinished
    <3>2. e.args = <<>> /\ e.meaning = <<>>
      BY <2>3, Zenon DEF IsUnfinished
    <3>3. f + L = Len(x)
      <4>1. Joined(fs)[m + 1] = x
        BY <1>2, <2>3, Zenon DEF All
      <4> QED
        BY <1>7, <1>8, <4>1, Zenon DEF f2
    <3>4. AtIn(x, (f + L) + 1) = Nul
      <4>1. ~((f + L) + 1 <= Len(x))
        <5> HIDE DEF L
        <5> QED
          BY <1>3, <3>3, SMT
      <4> QED
        BY <4>1, Zenon DEF AtIn
    <3>5. AtIn(x, f + 1) = "%" /\ AfterIn(x, (f + 1) + 1) = (f + L) + 1
      <4> DEFINE u == e.format
      <4>1. u = Begun(l) /\ (\A j \in 1 .. Len(u) : AtIn(x, f + j) = u[j]) /\ AtIn(x, (f + Len(u)) + 1) = Nul
        BY <1>7, <1>8, <3>1, <3>4, Zenon DEF Begun
      <4> HIDE DEF u
      <4>2. AtIn(x, f + 1) = "%" /\ AfterIn(x, (f + 1) + 1) = (f + Len(u)) + 1
        <5>1. f \in Nat
          BY <1>3, Zenon
        <5> QED
          BY <4>1, <5>1, UnfinishedEnds, Zenon
      <4> QED
        BY <4>2, Zenon DEF u
    <3>6. z = (f + L) + 1 /\ AtIn(x, z) = Nul /\ AtIn(x, 1 + f) = "%"
      BY <1>5, <3>4, <3>5, Zenon
    <3>7. Converted(Nul, y[1 + g]) = <<>> /\ Written(e) = <<>>
      <4>1. Converted(Nul, y[1 + g]) = <<>>
        BY SMT DEF Converted, Nul
      <4> QED
        BY <3>2, <4>1, Zenon DEF Written
    <3>8. 1 + f2 = z
      <4>1. f2 = f + L /\ L \in Nat
        BY <1>7, <1>8, Zenon
      <4> HIDE DEF L, z
      <4> QED
        BY <1>3, <3>6, <4>1, SMT
    <3>9. 1 + g2 = 1 + g
      <4>1. g2 = g + 0
        BY <1>7, <1>8, <3>2, EmptySeq, Zenon
      <4> QED
        BY <1>4, <4>1, SMT
    <3> HIDE DEF z
    <3> QED
      BY <2>9, <3>6, <3>7, <3>8, <3>9, Zenon
  <2> QED
    BY <1>7, <1>8, <2>1, <2>2, <2>3, Zenon DEF IsPieceOf, N
<1>9. m # N => AtIn(x, 1 + f) # Nul /\ TakesCharacter(d, c, m) /\ TakesSpecifier(d, c, m)
  BY <1>8, Zenon DEF TakesCharacter, TakesSpecifier, x, y, f, g, f2, g2, fs, as
<1> QED
  BY <1>5, <1>6, <1>9, Zenon DEF N, fs, as, x, y, f, g

-----------------------------------------------------------------------------
(* The steps                                                               *)

\* A call begins.
LEMMA CallBegins ==
  ASSUME NEW d \in Documents, NEW c \in 1 .. Len(d) + 1, NEW b, NEW n, Holds(b, n, SoFar(d, c, 0))
  PROVE  Building(d, c, 1, 1, b, n)
<1>1. Len(d) \in Nat
  BY DocumentFacts, Zenon
<1>2. 0 \in Nat /\ 1 + 0 = 1 /\ (c <= Len(d) => c \in 1 .. Len(d))
  BY <1>1, SMT
<1>3. ASSUME c <= Len(d), d[c].formatted
      PROVE  /\ 0 \in 0 .. Len(d[c].pieces)
             /\ 1 = 1 + Len(Joined(FormatList(d[c]))[0]) /\ 1 = 1 + Len(Joined(ArgumentList(d[c]))[0])
  <2>1. c \in 1 .. Len(d)
    BY <1>2, <1>3, Zenon
  <2>2. FormatList(d[c]) \in Seq(Seq(Char)) /\ ArgumentList(d[c]) \in Seq(Seq(ArgumentObject)) /\ Len(d[c].pieces) \in Nat
    BY <2>1, CallFacts, CallPieces, Zenon DEF Text
  <2>3. Joined(FormatList(d[c]))[0] = <<>> /\ Joined(ArgumentList(d[c]))[0] = <<>>
    BY <2>2, JoinedFacts, Zenon
  <2>4. \A N \in Nat : 0 \in 0 .. N
    BY SMT
  <2> QED
    BY <1>2, <2>2, <2>3, <2>4, EmptySeq, Zenon
<1>4. Reached(d, c, 0, 1, 1)
  BY <1>3, Zenon DEF Reached
<1> QED
  BY <1>2, <1>4, Zenon DEF Building

\* xml_append_string
LEMMA StringStep ==
  ASSUME NEW d, NEW c, NEW q, NEW r, NEW b \in Buffer, NEW n \in Nat, Building(d, c, q, r, b, n),
         c <= Len(d), ~d[c].formatted
  PROVE  LET w == Format(d[c])
         IN  /\ Appended(b, n, w) \in Buffer /\ n + Len(w) \in Nat
             /\ Building(d, c + 1, q, r, Appended(b, n, w), n + Len(w))
<1> DEFINE w == Format(d[c])
<1>1. d \in Documents /\ c \in 1 .. Len(d) + 1
  BY Zenon DEF Building
<1>2. PICK m \in Nat : Reached(d, c, m, q, r) /\ Holds(b, n, SoFar(d, c, m))
  BY Zenon DEF Building
<1>3. m = 0 /\ q = 1 /\ r = 1
  BY <1>2, Zenon DEF Reached
<1>4. c \in 1 .. Len(d) /\ c + 1 \in 1 .. Len(d) + 1
  <2>1. Len(d) \in Nat
    BY <1>1, DocumentFacts, Zenon
  <2> QED
    BY <1>1, <2>1, SMT
<1>5. SoFar(d, c, 0) \in Text
  BY <1>1, SoFarStart, Zenon
<1>6. w = All(Writing(d[c]))
  BY <1>1, <1>4, CallFacts, Zenon
<1>7. w \in Text /\ SoFar(d, c, 0) \o w = SoFar(d, c + 1, 0)
  BY <1>1, <1>4, <1>6, SoFarCall, Zenon
<1> HIDE DEF w
<1>8. /\ Appended(b, n, w) \in Buffer /\ n + Len(w) \in Nat
      /\ Holds(Appended(b, n, w), n + Len(w), SoFar(d, c, 0) \o w)
  BY <1>2, <1>3, <1>5, <1>7, AppendHolds, Zenon
<1>9. Holds(Appended(b, n, w), n + Len(w), SoFar(d, c + 1, 0))
  BY <1>7, <1>8, Zenon
<1>10. Building(d, c + 1, 1, 1, Appended(b, n, w), n + Len(w))
  BY <1>1, <1>4, <1>9, CallBegins, Zenon
<1> QED
  BY <1>3, <1>8, <1>10, Zenon DEF w

\* A piece of a format that is appended as it should be written
LEMMA PieceStep ==
  ASSUME NEW d \in Documents, NEW c \in 1 .. Len(d), d[c].formatted, NEW m \in 0 .. Len(d[c].pieces),
         m # Len(d[c].pieces), NEW b \in Buffer, NEW n \in Nat, Holds(b, n, SoFar(d, c, m)),
         NEW w, w = Written(d[c].pieces[m + 1]), NEW q, NEW r,
         q = 1 + Len(Joined(FormatList(d[c]))[m + 1]), r = 1 + Len(Joined(ArgumentList(d[c]))[m + 1])
  PROVE  /\ Appended(b, n, w) \in Buffer /\ n + Len(w) \in Nat
         /\ Building(d, c, q, r, Appended(b, n, w), n + Len(w))
<1> DEFINE N == Len(d[c].pieces)
           j == m + 1
<1>1. /\ N \in Nat /\ SoFar(d, c, m) \in Text
      /\ \A k \in 1 .. N : /\ Written(d[c].pieces[k]) \in Text
                           /\ SoFar(d, c, k) = SoFar(d, c, k - 1) \o Written(d[c].pieces[k])
  BY SoFarCall, Zenon
<1>2. /\ m + 1 \in 1 .. N /\ (m + 1) - 1 = m /\ m + 1 \in Nat /\ m + 1 \in 0 .. N
  <2>1. m \in 0 .. N /\ m # N
    BY Zenon
  <2> HIDE DEF N
  <2> QED
    BY <1>1, <2>1, SMT
<1>3. w \in Text /\ SoFar(d, c, m + 1) = SoFar(d, c, m) \o w
  <2>1. SoFar(d, c, m + 1) = SoFar(d, c, (m + 1) - 1) \o Written(d[c].pieces[m + 1])
    BY <1>1, <1>2, Zenon
  <2>2. Written(d[c].pieces[m + 1]) \in Text
    BY <1>1, <1>2, Zenon
  <2> QED
    BY <1>2, <2>1, <2>2, Zenon
<1>4. /\ Appended(b, n, w) \in Buffer /\ n + Len(w) \in Nat
      /\ Holds(Appended(b, n, w), n + Len(w), SoFar(d, c, m) \o w)
  BY <1>1, <1>3, AppendHolds, Zenon
<1>5. Holds(Appended(b, n, w), n + Len(w), SoFar(d, c, m + 1))
  BY <1>3, <1>4, Zenon
<1>6. c <= Len(d) /\ c \in 1 .. Len(d) + 1
  <2>1. Len(d) \in Nat
    BY DocumentFacts, Zenon
  <2> QED
    BY <2>1, SMT
<1>7. Reached(d, c, m + 1, q, r)
  BY <1>2, <1>6, Zenon DEF Reached
<1>8. Building(d, c, q, r, Appended(b, n, w), n + Len(w))
  BY <1>2, <1>5, <1>6, <1>7, Zenon DEF Building
<1> QED
  BY <1>4, <1>8, Zenon

After(d, c, m, q, r) ==
    q = 1 + Len(Joined(FormatList(d[c]))[m]) /\ r = 1 + Len(Joined(ArgumentList(d[c]))[m])

\* Within a format: which pieces are done
LEMMA WithinFormat ==
  ASSUME NEW d, NEW c, NEW q, NEW r, NEW b, NEW n, Building(d, c, q, r, b, n), c <= Len(d), d[c].formatted
  PROVE  /\ d \in Documents /\ c \in 1 .. Len(d)
         /\ \E m \in 0 .. Len(d[c].pieces) : After(d, c, m, q, r) /\ Holds(b, n, SoFar(d, c, m))
<1>1. d \in Documents /\ c \in 1 .. Len(d) + 1
  BY Zenon DEF Building
<1>2. PICK m \in Nat : Reached(d, c, m, q, r) /\ Holds(b, n, SoFar(d, c, m))
  BY Zenon DEF Building
<1>3. /\ m \in 0 .. Len(d[c].pieces)
      /\ After(d, c, m, q, r)
  BY <1>2, Zenon DEF Reached, After
<1>4. c \in 1 .. Len(d)
  <2>1. Len(d) \in Nat
    BY <1>1, DocumentFacts, Zenon
  <2> QED
    BY <1>1, <2>1, SMT
<1> QED
  BY <1>1, <1>2, <1>3, <1>4, Zenon

LEMMA LiteralStep ==
  ASSUME NEW d, NEW c, NEW q, NEW r, NEW b \in Buffer, NEW n \in Nat, Building(d, c, q, r, b, n),
         c <= Len(d), d[c].formatted, AtIn(Format(d[c]), q) # Nul, AtIn(Format(d[c]), q) # "%"
  PROVE  LET w == <<AtIn(Format(d[c]), q)>>
         IN  /\ Appended(b, n, w) \in Buffer /\ n + Len(w) \in Nat
             /\ Building(d, c, q + 1, r, Appended(b, n, w), n + Len(w))
<1> DEFINE w == <<AtIn(Format(d[c]), q)>>
<1>1. d \in Documents /\ c \in 1 .. Len(d)
  BY WithinFormat, Zenon
<1>9. PICK m \in 0 .. Len(d[c].pieces) : After(d, c, m, q, r) /\ Holds(b, n, SoFar(d, c, m))
  BY WithinFormat, Zenon
<1>2. /\ q = 1 + Len(Joined(FormatList(d[c]))[m]) /\ r = 1 + Len(Joined(ArgumentList(d[c]))[m])
      /\ Holds(b, n, SoFar(d, c, m))
  BY <1>9, Zenon DEF After
<1>8. AtIn(Format(d[c]), q) # Nul /\ AtIn(Format(d[c]), q) # "%"
  BY Zenon
<1>3. m # Len(d[c].pieces)
  <2>1. m = Len(d[c].pieces) => AtIn(Format(d[c]), 1 + Len(Joined(FormatList(d[c]))[m])) = Nul
    BY <1>1, FormatPiece, Zenon
  <2> QED
    BY <1>2, <1>8, <2>1, Zenon
<1>4. /\ w = Written(d[c].pieces[m + 1])
      /\ q + 1 = 1 + Len(Joined(FormatList(d[c]))[m + 1]) /\ r = 1 + Len(Joined(ArgumentList(d[c]))[m + 1])
  <2>1. TakesCharacter(d, c, m)
    BY <1>1, <1>3, FormatPiece, Zenon
  <2> QED
    BY <1>2, <1>8, <2>1, Zenon DEF TakesCharacter
<1> HIDE DEF w
<1>5. /\ Appended(b, n, w) \in Buffer /\ n + Len(w) \in Nat
      /\ Building(d, c, q + 1, r, Appended(b, n, w), n + Len(w))
  <2> DEFINE q2 == q + 1
  <2>1. q2 = 1 + Len(Joined(FormatList(d[c]))[m + 1])
    BY <1>4, Zenon
  <2> HIDE DEF q2
  <2>2. /\ Appended(b, n, w) \in Buffer /\ n + Len(w) \in Nat
        /\ Building(d, c, q2, r, Appended(b, n, w), n + Len(w))
    BY <1>1, <1>2, <1>3, <1>4, <2>1, PieceStep, Zenon
  <2> QED
    BY <2>2, Zenon DEF q2
<1> QED
  BY <1>5, Zenon DEF w

LEMMA SpecifierStep ==
  ASSUME NEW d, NEW c, NEW q, NEW r, NEW b \in Buffer, NEW n \in Nat, Building(d, c, q, r, b, n),
         c <= Len(d), d[c].formatted, AtIn(Format(d[c]), q) = "%",
         NEW z, z = AfterIn(Format(d[c]), q + 1)
  PROVE  LET v == AtIn(Format(d[c]), z)
             w == Converted(v, Arguments(d[c])[r])
         IN  /\ Appended(b, n, w) \in Buffer /\ n + Len(w) \in Nat
             /\ Building(d, c, IF v # Nul THEN z + 1 ELSE z, IF v \in {"c", "d", "s"} THEN r + 1 ELSE r,
                         Appended(b, n, w), n + Len(w))
<1> DEFINE v == AtIn(Format(d[c]), z)
           w == Converted(v, Arguments(d[c])[r])
           q2 == IF v # Nul THEN z + 1 ELSE z
           r2 == IF v \in {"c", "d", "s"} THEN r + 1 ELSE r
<1>1. d \in Documents /\ c \in 1 .. Len(d)
  BY WithinFormat, Zenon
<1>9. PICK m \in 0 .. Len(d[c].pieces) : After(d, c, m, q, r) /\ Holds(b, n, SoFar(d, c, m))
  BY WithinFormat, Zenon
<1>2. /\ q = 1 + Len(Joined(FormatList(d[c]))[m]) /\ r = 1 + Len(Joined(ArgumentList(d[c]))[m])
      /\ Holds(b, n, SoFar(d, c, m))
  BY <1>9, Zenon DEF After
<1>3. m # Len(d[c].pieces)
  <2>1. "%" # Nul
    BY SMT DEF Nul
  <2> QED
    BY <1>1, <1>2, <2>1, FormatPiece, Zenon
<1>4. /\ w = Written(d[c].pieces[m + 1])
      /\ q2 = 1 + Len(Joined(FormatList(d[c]))[m + 1]) /\ r2 = 1 + Len(Joined(ArgumentList(d[c]))[m + 1])
  <2>1. TakesSpecifier(d, c, m)
    BY <1>1, <1>3, FormatPiece, Zenon
  <2> QED
    BY <1>2, <2>1, Zenon DEF TakesSpecifier
<1> HIDE DEF w, q2, r2
<1>5. /\ Appended(b, n, w) \in Buffer /\ n + Len(w) \in Nat
      /\ Building(d, c, q2, r2, Appended(b, n, w), n + Len(w))
  BY <1>1, <1>2, <1>3, <1>4, PieceStep, Zenon
<1> QED
  BY <1>5, Zenon DEF w, q2, r2

LEMMA EndStep ==
  ASSUME NEW d, NEW c, NEW q, NEW r, NEW b, NEW n, Building(d, c, q, r, b, n),
         c <= Len(d), d[c].formatted, AtIn(Format(d[c]), q) = Nul
  PROVE  Building(d, c + 1, 1, 1, b, n)
<1>1. d \in Documents /\ c \in 1 .. Len(d)
  BY WithinFormat, Zenon
<1>9. PICK m \in 0 .. Len(d[c].pieces) : After(d, c, m, q, r) /\ Holds(b, n, SoFar(d, c, m))
  BY WithinFormat, Zenon
<1>2. /\ q = 1 + Len(Joined(FormatList(d[c]))[m]) /\ r = 1 + Len(Joined(ArgumentList(d[c]))[m])
      /\ Holds(b, n, SoFar(d, c, m))
  BY <1>9, Zenon DEF After
<1>3. m = Len(d[c].pieces)
  BY <1>1, <1>2, FormatPiece, Zenon
<1>4. SoFar(d, c, m) = SoFar(d, c + 1, 0)
  BY <1>1, <1>3, SoFarCall, Zenon
<1>5. c + 1 \in 1 .. Len(d) + 1
  <2>1. Len(d) \in Nat
    BY <1>1, DocumentFacts, Zenon
  <2> QED
    BY <1>1, <2>1, SMT
<1>6. Holds(b, n, SoFar(d, c + 1, 0))
  BY <1>2, <1>4, Zenon
<1> QED
  BY <1>1, <1>5, <1>6, CallBegins, Zenon

LEMMA LastStep ==
  ASSUME NEW d, NEW c, NEW q, NEW r, NEW b \in Buffer, NEW n \in Nat, Building(d, c, q, r, b, n), c > Len(d)
  PROVE  d \in Documents /\ Terminated(b, n) \in Buffer /\ Ended(Terminated(b, n), n, Rendering(d))
<1>1. d \in Documents /\ c \in 1 .. Len(d) + 1
  BY Zenon DEF Building
<1>2. c = Len(d) + 1 /\ ~(c <= Len(d))
  <2>1. Len(d) \in Nat
    BY <1>1, DocumentFacts, Zenon
  <2> QED
    BY <1>1, <2>1, SMT
<1>3. PICK m \in Nat : Reached(d, c, m, q, r) /\ Holds(b, n, SoFar(d, c, m))
  BY Zenon DEF Building
<1>4. m = 0
  BY <1>2, <1>3, Zenon DEF Reached
<1>5. Rendering(d) \in Text /\ Holds(b, n, Rendering(d))
  BY <1>1, <1>2, <1>3, <1>4, SoFarEnds, DocumentFacts, Zenon
<1> QED
  BY <1>1, <1>5, TerminateEnds, Zenon

LEMMA AppendCharsIs ==
  ASSUME NEW w, append_chars(w)
  PROVE  data' = Appended(data, position, w) /\ position' = position + Len(w)
BY Zenon DEF append_chars, Appended

LEMMA XmlInitially == XmlInit => XmlInv
<1> SUFFICES ASSUME XmlInit PROVE XmlInv
  OBVIOUS
<1>1. /\ builder = "idle" /\ data = [k \in 0 .. Size - 1 |-> Nul] /\ position = 0 /\ renderings = 0
  BY Zenon DEF XmlInit
<1>2. 0 \in Nat /\ 0 \in 0 .. MaxRenderings /\ ~(0 > 0) /\ "idle" # "build"
  BY XmlAssumption, SMT
<1>3. data \in Buffer
  BY <1>1, Zenon DEF Buffer
<1> QED
  BY <1>1, <1>2, <1>3, Zenon DEF XmlInv, Built

LEMMA XmlPreserved == XmlInv /\ [XmlNext]_xmlVars => XmlInv'
<1> SUFFICES ASSUME XmlInv, [XmlNext]_xmlVars PROVE XmlInv'
  OBVIOUS
<1>1. /\ builder \in {"idle", "build"} /\ data \in Buffer /\ position \in Nat /\ renderings \in 0 .. MaxRenderings
      /\ builder = "build" => renderings < MaxRenderings /\ Building(document, call, p, arg, data, position)
      /\ Built => document \in Documents /\ Ended(data, position, Rendering(document))
  BY Zenon DEF XmlInv
<1>2. "idle" # "build"
  BY SMT
<1>3. ASSUME builder' = "build", data' \in Buffer, position' \in Nat, renderings' = renderings,
             renderings < MaxRenderings, Building(document', call', p', arg', data', position')
      PROVE  XmlInv'
  BY <1>1, <1>2, <1>3, Zenon DEF XmlInv, Built
<1>4. CASE BeginDocument
  <2>1. /\ builder' = "build" /\ document' \in Documents /\ call' = 1 /\ p' = 1 /\ arg' = 1 /\ position' = 0
        /\ data' = data /\ renderings' = renderings /\ renderings < MaxRenderings
    BY <1>4, Zenon DEF BeginDocument
  <2> DEFINE d == document'
  <2>2. d \in Documents
    BY <2>1, Zenon
  <2> HIDE DEF d
  <2>3. Len(d) \in Nat /\ SoFar(d, 1, 0) = <<>>
    BY <2>2, DocumentFacts, SoFarEnds, Zenon
  <2>4. 1 \in 1 .. Len(d) + 1 /\ 0 \in Nat
    BY <2>3, SMT
  <2>5. Holds(data, 0, SoFar(d, 1, 0))
    <3>1. Len(<<>>) = 0 /\ \A k \in 0 .. Size - 1 : ~(k < 0)
      BY XmlAssumption, SMT
    <3>2. Holds(data, 0, <<>>)
      BY <3>1, Zenon DEF Holds
    <3> QED
      BY <2>3, <3>2, Zenon
  <2>6. Building(d, 1, 1, 1, data, 0)
    BY <2>2, <2>4, <2>5, CallBegins, Zenon
  <2>7. Building(document', call', p', arg', data', position')
    BY <2>1, <2>6, Zenon DEF d
  <2> QED
    BY <1>1, <1>3, <2>1, <2>4, <2>7, Zenon
<1>5. CASE AppendString
  <2> DEFINE w == Format(document[call])
  <2>1. /\ builder = "build" /\ call <= Len(document) /\ ~document[call].formatted /\ append_chars(w)
        /\ call' = call + 1 /\ builder' = builder /\ document' = document /\ p' = p /\ arg' = arg
        /\ renderings' = renderings
    BY <1>5, Zenon DEF AppendString
  <2>2. renderings < MaxRenderings /\ Building(document, call, p, arg, data, position)
    BY <1>1, <2>1, Zenon
  <2>3. /\ Appended(data, position, w) \in Buffer /\ position + Len(w) \in Nat
        /\ Building(document, call + 1, p, arg, Appended(data, position, w), position + Len(w))
    BY <1>1, <2>1, <2>2, StringStep, Zenon
  <2> HIDE DEF w
  <2>4. data' = Appended(data, position, w) /\ position' = position + Len(w)
    BY <2>1, AppendCharsIs, Zenon
  <2> QED
    BY <1>3, <2>1, <2>2, <2>3, <2>4, Zenon
<1>6. CASE AppendLiteral
  <2> DEFINE x == Format(document[call])
             w == <<AtIn(x, p)>>
  <2>1. /\ builder = "build" /\ call <= Len(document) /\ document[call].formatted /\ append_chars(w)
        /\ AtIn(x, p) # Nul /\ AtIn(x, p) # "%"
        /\ p' = p + 1 /\ builder' = builder /\ document' = document /\ call' = call /\ arg' = arg
        /\ renderings' = renderings
    <3>1. /\ Formatting /\ At(p) \notin {Nul, "%"} /\ append_chars(<<At(p)>>)
          /\ p' = p + 1 /\ builder' = builder /\ document' = document /\ call' = call /\ arg' = arg
          /\ renderings' = renderings
      BY <1>6, Zenon DEF AppendLiteral
    <3>2. At(p) = AtIn(x, p)
      BY AtIs, Zenon
    <3> QED
      BY <3>1, <3>2, Zenon DEF Formatting
  <2>2. renderings < MaxRenderings /\ Building(document, call, p, arg, data, position)
    BY <1>1, <2>1, Zenon
  <2>3. /\ Appended(data, position, w) \in Buffer /\ position + Len(w) \in Nat
        /\ Building(document, call, p + 1, arg, Appended(data, position, w), position + Len(w))
    BY <1>1, <2>1, <2>2, LiteralStep, Zenon
  <2> HIDE DEF w
  <2>4. data' = Appended(data, position, w) /\ position' = position + Len(w)
    BY <2>1, AppendCharsIs, Zenon
  <2> QED
    BY <1>3, <2>1, <2>2, <2>3, <2>4, Zenon
<1>7. CASE AppendSpecifier
  <2> DEFINE x == Format(document[call])
             z == AfterIn(x, p + 1)
             v == AtIn(x, z)
             w == Converted(v, Arguments(document[call])[arg])
             q2 == IF v # Nul THEN z + 1 ELSE z
             r2 == IF v \in {"c", "d", "s"} THEN arg + 1 ELSE arg
  <2>1. /\ builder = "build" /\ call <= Len(document) /\ document[call].formatted /\ append_chars(w)
        /\ AtIn(x, p) = "%" /\ p' = q2 /\ arg' = r2
        /\ builder' = builder /\ document' = document /\ call' = call /\ renderings' = renderings
    <3>1. /\ Formatting /\ At(p) = "%"
          /\ builder' = builder /\ document' = document /\ call' = call /\ renderings' = renderings
      BY <1>7, Zenon DEF AppendSpecifier
    <3>2. At(p) = AtIn(x, p) /\ AfterLength(p + 1) = z /\ At(z) = v
      BY AtIs, Zenon
    <3>3. /\ append_chars(Converted(At(AfterLength(p + 1)), Arguments(document[call])[arg]))
          /\ arg' = IF At(AfterLength(p + 1)) \in {"c", "d", "s"} THEN arg + 1 ELSE arg
          /\ p' = IF At(AfterLength(p + 1)) # Nul THEN AfterLength(p + 1) + 1 ELSE AfterLength(p + 1)
      BY <1>7, Zenon DEF AppendSpecifier
    <3> QED
      BY <3>1, <3>2, <3>3, Zenon DEF Formatting
  <2>2. renderings < MaxRenderings /\ Building(document, call, p, arg, data, position)
    BY <1>1, <2>1, Zenon
  <2>3. /\ Appended(data, position, w) \in Buffer /\ position + Len(w) \in Nat
        /\ Building(document, call, q2, r2, Appended(data, position, w), position + Len(w))
    BY <1>1, <2>1, <2>2, SpecifierStep, Zenon
  <2> HIDE DEF w, q2, r2
  <2>4. data' = Appended(data, position, w) /\ position' = position + Len(w)
    BY <2>1, AppendCharsIs, Zenon
  <2> QED
    BY <1>3, <2>1, <2>2, <2>3, <2>4, Zenon
<1>8. CASE EndFormat
  <2> DEFINE x == Format(document[call])
  <2>1. /\ builder = "build" /\ call <= Len(document) /\ document[call].formatted /\ AtIn(x, p) = Nul
        /\ call' = call + 1 /\ p' = 1 /\ arg' = 1 /\ data' = data /\ position' = position
        /\ builder' = builder /\ document' = document /\ renderings' = renderings
    <3>1. At(p) = AtIn(x, p)
      BY AtIs, Zenon
    <3> QED
      BY <1>8, <3>1, Zenon DEF EndFormat, Formatting
  <2>2. renderings < MaxRenderings /\ Building(document, call, p, arg, data, position)
    BY <1>1, <2>1, Zenon
  <2>3. Building(document, call + 1, 1, 1, data, position)
    BY <2>1, <2>2, EndStep, Zenon
  <2> QED
    BY <1>1, <1>3, <2>1, <2>2, <2>3, Zenon
<1>9. CASE xml_null_terminate
  <2>1. /\ builder = "build" /\ call > Len(document) /\ data' = Terminated(data, position)
        /\ builder' = "idle" /\ renderings' = renderings + 1 /\ document' = document /\ position' = position
    BY <1>9, Zenon DEF xml_null_terminate, Terminated
  <2>2. renderings < MaxRenderings /\ Building(document, call, p, arg, data, position)
    BY <1>1, <2>1, Zenon
  <2>3. /\ document \in Documents /\ Terminated(data, position) \in Buffer
        /\ Ended(Terminated(data, position), position, Rendering(document))
    BY <1>1, <2>1, <2>2, LastStep, Zenon
  <2>4. renderings + 1 \in 0 .. MaxRenderings
    BY <1>1, <2>2, XmlAssumption, SMT
  <2> QED
    BY <1>1, <1>2, <2>1, <2>3, <2>4, Zenon DEF XmlInv, Built
<1>10. CASE UNCHANGED xmlVars
  <2>1. /\ builder' = builder /\ document' = document /\ call' = call /\ p' = p /\ arg' = arg
        /\ data' = data /\ position' = position /\ renderings' = renderings
    BY <1>10, Zenon DEF xmlVars
  <2> QED
    BY <1>1, <2>1, Zenon DEF XmlInv, Built
<1> QED
  BY <1>4, <1>5, <1>6, <1>7, <1>8, <1>9, <1>10, Zenon DEF XmlNext

-----------------------------------------------------------------------------
(* What is shown                                                           *)

LEMMA ShownIs ==
  ASSUME NEW t \in Text, data \in Buffer, Ended(data, position, t)
  PROVE  LET length == IF Len(t) < Size THEN Len(t) ELSE Size - 1
         IN  /\ Shown = SubSeq(t, 1, length) /\ Shown \in Text /\ Occurs(Shown, t, 0)
             /\ position = Len(t) /\ (position < Size => Shown = t)
<1> DEFINE L == IF Len(t) < Size THEN Len(t) ELSE Size - 1
           IsEnd(n) == (n = Size \/ data[n] = Nul) /\ \A k \in 0 .. n - 1 : data[k] # Nul
           end == CHOOSE n \in 0 .. Size : IsEnd(n)
           s == SubSeq(t, 1, L)
<1>1. Size \in Nat \ {0} /\ Len(t) \in Nat
  BY XmlAssumption, LenProperties, Zenon DEF Text
<1>2. L \in 0 .. Size - 1 /\ L \in 0 .. Len(t) /\ L \in 0 .. Size /\ L \in Nat /\ (Len(t) < Size => L = Len(t))
  BY <1>1, SMT
<1>3. data[L] = Nul /\ position = Len(t) /\ \A k \in 0 .. L - 1 : data[k] = t[k + 1]
  BY Zenon DEF Ended
<1>4. Shown = [k \in 1 .. end |-> data[k - 1]]
  BY Zenon DEF Shown
<1> HIDE DEF L
<1>5. \A k \in 0 .. L - 1 : data[k] # Nul
  <2>1. \A k \in 0 .. L - 1 : k + 1 \in 1 .. Len(t)
    BY <1>1, <1>2, SMT
  <2>2. \A k \in 1 .. Len(t) : t[k] \in Char
    BY ElementOfSeq, Zenon DEF Text
  <2> QED
    BY <1>3, <2>1, <2>2, CharAssumption, Zenon
<1>6. end = L
  <2>1. IsEnd(L)
    BY <1>3, <1>5, Zenon
  <2>2. end \in 0 .. Size /\ IsEnd(end)
    BY <1>2, <2>1, Zenon
  <2> HIDE DEF end
  <2>3. end # L => end \in 0 .. L - 1 \/ L \in 0 .. end - 1
    BY <1>1, <1>2, <2>2, SMT
  <2>4. end \in 0 .. L - 1 => end # Size
    BY <1>1, <1>2, SMT
  <2> QED
    BY <1>3, <1>5, <2>2, <2>3, <2>4, Zenon
<1> HIDE DEF end, IsEnd
<1>7. s \in Seq(Char) /\ Len(s) = L /\ Occurs(s, t, 0)
  <2>1. 0 \in 0 .. Len(t) /\ L \in 0 .. Len(t) /\ 0 + 1 = 1 /\ L - 0 = L
    BY <1>1, <1>2, SMT
  <2>2. SubSeq(t, 0 + 1, L) \in Seq(Char) /\ Len(SubSeq(t, 0 + 1, L)) = L - 0 /\ Occurs(SubSeq(t, 0 + 1, L), t, 0)
    BY <2>1, Part, Zenon DEF Text
  <2> QED
    BY <2>1, <2>2, Zenon
<1> HIDE DEF s
<1>8. Shown = s
  <2>1. Shown = [k \in 1 .. L |-> data[k - 1]]
    BY <1>4, <1>6, Zenon
  <2>2. s = [k \in 1 .. L |-> s[k]]
    BY <1>7, LenProperties, Zenon
  <2>3. ASSUME NEW k \in 1 .. L PROVE data[k - 1] = s[k]
    <3>1. k - 1 \in 0 .. L - 1 /\ (k - 1) + 1 = k /\ 0 + k = k
      BY <1>2, SMT
    <3>2. data[k - 1] = t[k]
      BY <1>3, <3>1, Zenon
    <3>3. t[0 + k] = s[k]
      BY <1>7, Zenon DEF Occurs
    <3> QED
      BY <3>1, <3>2, <3>3, Zenon
  <2> QED
    BY <2>1, <2>2, <2>3, Zenon
<1>9. ASSUME position < Size PROVE s = t
  <2>1. L = Len(t)
    BY <1>2, <1>3, <1>9, Zenon
  <2>2. t \in Seq(Char)
    BY Zenon DEF Text
  <2> QED
    BY <1>7, <2>1, <2>2, OccursAll, Zenon
<1> QED
  BY <1>3, <1>7, <1>8, <1>9, Zenon DEF s, L, Text

LEMMA XmlReadable == XmlInv => builder # "none" /\ DocumentReadable
<1> SUFFICES ASSUME XmlInv PROVE builder # "none" /\ DocumentReadable
  OBVIOUS
<1>1. /\ builder \in {"idle", "build"} /\ data \in Buffer /\ position \in Nat /\ renderings \in 0 .. MaxRenderings
      /\ builder = "build" => renderings < MaxRenderings /\ Building(document, call, p, arg, data, position)
      /\ Built => document \in Documents /\ Ended(data, position, Rendering(document))
  BY Zenon DEF XmlInv
<1>2. builder # "none"
  <2>1. "idle" # "none" /\ "build" # "none"
    BY SMT
  <2> QED
    BY <1>1, <2>1, Zenon
<1>3. XmlTypeOK
  <2>1. DOMAIN data = 0 .. Size - 1
    BY <1>1, Zenon DEF Buffer
  <2>2. builder = "build" => call \in 1 .. Len(document) + 1
    BY <1>1, Zenon DEF Building
  <2>3. ASSUME Formatting
        PROVE  p \in 1 .. Len(Format(document[call])) + 1 /\ arg \in 1 .. Len(Arguments(document[call])) + 1
    <3>1. call <= Len(document) /\ document[call].formatted /\ Building(document, call, p, arg, data, position)
      BY <1>1, <2>3, Zenon DEF Formatting
    <3>2. document \in Documents /\ call \in 1 .. Len(document)
      BY <3>1, WithinFormat, Zenon
    <3>3. PICK m \in 0 .. Len(document[call].pieces) : After(document, call, m, p, arg)
      BY <3>1, WithinFormat, Zenon
    <3> QED
      BY <3>1, <3>2, <3>3, FormatPiece, Zenon DEF After
  <2> QED
    BY <1>1, <2>1, <2>2, <2>3, Zenon DEF XmlTypeOK
<1>4. ASSUME Built PROVE /\ document \in Documents /\ Rendering(document) \in Text
                         /\ Ended(data, position, Rendering(document))
                         /\ Shown \in Text /\ Occurs(Shown, Rendering(document), 0)
  BY <1>1, <1>4, DocumentFacts, ShownIs, Zenon
<1>5. WholeOrCut
  BY <1>1, <1>4, ShownIs, Zenon DEF WholeOrCut
<1>6. ReaderFindsArguments
  BY <1>1, <1>4, ShownIs, DocumentFacts, Zenon DEF ReaderFindsArguments
<1>7. MarkupFromFormats
  <2> SUFFICES ASSUME Built PROVE BeginsWith(Kept(Skeleton(document)), Kept(Shown))
    BY Zenon DEF MarkupFromFormats, Kept
  <2> DEFINE R == Rendering(document)
  <2>1. R \in Text /\ Shown \in Text /\ Occurs(Shown, R, 0) /\ Kept(R) = Kept(Skeleton(document))
    BY <1>4, DocumentFacts, Zenon
  <2> HIDE DEF R
  <2>2. Len(Shown) \in 0 .. Len(R) /\ \A n \in 0 .. Len(Shown) : Markup(Shown)[n] = Markup(R)[n]
    BY <2>1, MarkupPrefix, Zenon
  <2>3. Len(Shown) \in 0 .. Len(Shown)
    <3>1. Len(Shown) \in Nat
      BY <2>1, LenProperties, Zenon DEF Text
    <3> QED
      BY <3>1, SMT
  <2>4. Kept(Shown) = Markup(R)[Len(Shown)]
    BY <2>2, <2>3, Zenon DEF Kept
  <2>5. Kept(Shown) \in Text /\ Kept(R) \in Text /\ Occurs(Kept(Shown), Kept(R), 0)
    BY <2>1, <2>2, <2>4, MarkupGrows, Zenon
  <2>6. BeginsWith(Kept(R), Kept(Shown))
    <3> DEFINE a == Kept(Shown)
               b == Kept(R)
    <3>1. Len(a) \in Nat /\ Len(b) \in Nat /\ 0 + Len(a) <= Len(b) /\ \A k \in 1 .. Len(a) : b[0 + k] = a[k]
      BY <2>5, LenProperties, Zenon DEF Text, Occurs
    <3> HIDE DEF a, b
    <3>2. Len(a) <= Len(b) /\ \A k \in 1 .. Len(a) : 0 + k = k
      BY <3>1, SMT
    <3>3. \A k \in 1 .. Len(a) : a[k] = b[k]
      BY <3>1, <3>2, Zenon
    <3> QED
      BY <3>2, <3>3, Zenon DEF BeginsWith, a, b
  <2> QED
    BY <2>1, <2>6, Zenon
<1> QED
  BY <1>2, <1>3, <1>5, <1>6, <1>7, Zenon DEF DocumentReadable

\* What get_status_string returns can be read, for every document of xml_append_string
\* and xml_append_format calls and every size of the buffer: it is the document from its
\* start, whole if it fits; if no argument has a control character that XML does not
\* allow, a reader of XML takes it and finds the arguments in it, but for carriage
\* returns, which it takes for other white space; and the arguments add no markup.
THEOREM DocumentReadableHolds == XmlSpec => [](builder # "none" /\ DocumentReadable)
<1>1. XmlInit => XmlInv
  BY XmlInitially
<1>2. XmlInv /\ [XmlNext]_xmlVars => XmlInv'
  BY XmlPreserved
<1>3. XmlInv => builder # "none" /\ DocumentReadable
  BY XmlReadable
<1> QED
  BY <1>1, <1>2, <1>3, PTL DEF XmlSpec

-----------------------------------------------------------------------------
(* The three parts of StatusText, of which a behaviour runs one            *)

StatusTextInv ==
    \/ WorldIInv /\ NoDocument /\ NoConfig
    \/ NoQuery /\ XmlInv /\ NoConfig
    \/ NoQuery /\ NoDocument /\ ConfigInv

LEMMA NoPartSteps ==
    /\ NoQuery => ~WorldNext
    /\ NoDocument => ~XmlNext
    /\ NoConfig => ~ConfigNext
<1>1. NoQuery => ~WorldNext
  BY Zenon DEF NoQuery, None, WorldNext, Query, Look, EndLoop, Publish
<1>2. NoDocument => ~XmlNext
  BY Zenon DEF NoDocument, None, XmlNext, BeginDocument, AppendString, AppendLiteral,
     AppendSpecifier, EndFormat, xml_null_terminate, Formatting
<1>3. NoConfig => ~ConfigNext
  BY Zenon DEF NoConfig, None, ConfigNext, ReadHost, ReadPassword, ReadInfo, ReadMotd, ReadTransport,
     Preview, ShowStatus
<1> QED
  BY <1>1, <1>2, <1>3, Zenon

LEMMA NoPartStays ==
    /\ NoQuery /\ UNCHANGED worldVars => NoQuery'
    /\ NoDocument /\ UNCHANGED xmlVars => NoDocument'
    /\ NoConfig /\ UNCHANGED configVars => NoConfig'
<1>1. NoQuery /\ UNCHANGED worldVars => NoQuery'
  BY Zenon DEF NoQuery, worldVars
<1>2. NoDocument /\ UNCHANGED xmlVars => NoDocument'
  BY Zenon DEF NoDocument, xmlVars
<1>3. NoConfig /\ UNCHANGED configVars => NoConfig'
  BY Zenon DEF NoConfig, configVars
<1> QED
  BY <1>1, <1>2, <1>3, Zenon

LEMMA StatusTextStep ==
    [StatusTextNext]_statusTextVars
      => /\ [WorldNext]_worldVars /\ [XmlNext]_xmlVars /\ [ConfigNext]_configVars
         /\ NoQuery => UNCHANGED worldVars
         /\ NoDocument => UNCHANGED xmlVars
         /\ NoConfig => UNCHANGED configVars
<1>1. UNCHANGED <<xmlVars, configVars>> => UNCHANGED xmlVars /\ UNCHANGED configVars
  BY Zenon
<1>2. UNCHANGED <<worldVars, configVars>> => UNCHANGED worldVars /\ UNCHANGED configVars
  BY Zenon
<1>3. UNCHANGED <<worldVars, xmlVars>> => UNCHANGED worldVars /\ UNCHANGED xmlVars
  BY Zenon
<1>4. UNCHANGED statusTextVars => UNCHANGED worldVars /\ UNCHANGED xmlVars /\ UNCHANGED configVars
  BY Zenon DEF statusTextVars
<1> QED
  BY <1>1, <1>2, <1>3, <1>4, NoPartSteps, Zenon
     DEF StatusTextNext, ChooseWorld, BuildDocument, ReadSettings

\* The three parts keep their promises wherever they run, so the behaviours that are
\* model-checked have them for every size and every text: get_world finds the world
\* asked for, get_status_string returns a document in which a reader of XML finds the
\* arguments (as DocumentReadable says: carriage returns and characters that XML does
\* not allow excepted), and read_config takes the settings as they were set.
THEOREM StatusTextSafety == StatusTextSpec => [](ChosenWorld /\ DocumentReadable /\ SettingsTaken)
<1>1. StatusTextInit => StatusTextInv
  BY WorldInitially, XmlInitially, ConfigInitially, Zenon DEF StatusTextInit, StatusTextInv
<1>2. StatusTextInv /\ [StatusTextNext]_statusTextVars => StatusTextInv'
  BY StatusTextStep, NoPartStays, WorldPreserved, XmlPreserved, ConfigPreserved, Zenon DEF StatusTextInv
<1>3. StatusTextInv => ChosenWorld /\ DocumentReadable /\ SettingsTaken
  <2>1. NoQuery => ChosenWorld
    BY Zenon DEF NoQuery, None, ChosenWorld, BusiestWorld, ConfiguredWorld, NoWorldMadeUp
  <2>2. NoDocument => DocumentReadable
    BY Zenon DEF NoDocument, None, DocumentReadable
  <2>3. NoConfig => SettingsTaken
    BY Zenon DEF NoConfig, None, SettingsTaken
  <2> QED
    BY <2>1, <2>2, <2>3, WorldChosen, XmlReadable, ConfigSafe, Zenon DEF StatusTextInv
<1> QED
  BY <1>1, <1>2, <1>3, PTL DEF StatusTextSpec

=============================================================================
