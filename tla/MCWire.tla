------------------------------- MODULE MCWire -------------------------------
(* Small words, bytes, fields and texts for Wire *)
EXTENDS Wire, Bitwise

-----------------------------------------------------------------------------
(* Words of four bits and keys of four words                               *)

Shifted(v) == (((v * 2) % 16) ^^ (v \div 4)) + v

MCMixV0(k, v, s) == (Shifted(v) % 16) ^^ ((s + k[(s % 4) + 1]) % 16)
MCMixV1(k, v, s) == (Shifted(v) % 16) ^^ ((s + k[((s \div 2) % 4) + 1]) % 16)

\* 9 * i modulo 16
MCSums == [r \in 0 .. 3 |-> (9 * r) % 16]

MCKeys == {<<0, 0, 0, 0>>, <<3, 14, 7, 9>>, <<15, 1, 8, 2>>}

OneBlock == {<<a>> : a \in Word \X Word}
TwoBlocks == {<<a, b>> : a \in {<<0, 15>>, <<7, 8>>}, b \in {1, 14} \X {0, 9}}

MCMessages ==
    [size : {8, 15}, blocks : OneBlock] \cup [size : {16, 23}, blocks : TwoBlocks]
      \cup {[size |-> 7, blocks |-> <<>>]}

-----------------------------------------------------------------------------
(* Fields, with four values to a byte                                      *)

Field(type, value) == [type |-> type, value |-> value]

Repeated(c, n) == [k \in 1 .. n |-> c]

\* Numbers whose bytes differ, texts with every kind of character, and texts just
\* below and at the length that needs four bytes.
MCFields ==
    { Field("flag", 1), Field("u8", 3), Field("u16", 9), Field("u16_be", 9),
      Field("u32", 228), Field("u32_be", 228), Field("string", <<>>),
      Field("string", <<1, 2, 3>>), Field("string", <<4, 1>>),
      Field("string", <<2, 2, 2, 2>>), Field("string", Repeated(1, 6)),
      Field("string", Repeated(1, 14)), Field("string", Repeated(1, 15)) }

-----------------------------------------------------------------------------
(* Texts and bytes                                                         *)

UpTo(S, n) == UNION {[1 .. k -> S] : k \in 0 .. n}

\* The ends of the one-byte and two-byte ranges
MCLatin1Strings == UpTo({0, 65, 127, 128, 233, 255}, 3)

\* ASCII, trailing bytes, leads of every length, one of them of overlong forms, and
\* bytes that are none of these
MCByteStrings == UpTo({65, 128, 169, 193, 195, 226, 243, 255}, 4)

\* The ends of all ranges of utf8_encoded_size
MCTexts == UpTo({65, 127, 128, 255, 256, 2047, 2048, 65535, 65536, 1114111}, 3)

=============================================================================
