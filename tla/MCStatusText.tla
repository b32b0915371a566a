---------------------------- MODULE MCStatusText ----------------------------
(* Worlds, documents and environments for StatusText *)
EXTENDS StatusText, Bitwise

-----------------------------------------------------------------------------
(* Worlds                                                                  *)

MCNames == {"", "senja", "Senja", "nova"}
MCLowerCase == [n \in MCNames |-> IF n = "Senja" THEN "senja" ELSE n]

MCWorlds ==
    { World("Senja", 1, 2, 3, 0), World("senja", 2, 1, 0, 0), World("nova", 2, 2, 3, 4),
      World("nova", 0, 5, 0, 0),
      World("", 3, 3, 2, 0) }

MCWorldLists == UNION {[1 .. n -> MCWorlds] : n \in 0 .. 3}

-----------------------------------------------------------------------------
(* Documents                                                               *)

MCChar ==
    { "0", "1", "2", "3", "4", "5", "6", "7", "8", "9", "-", "%", "\\", "n", "newline", "tab",
      "&", "#", "q", "u", "o", "t", "a", "m", "p", "s", "l", "g", "semi", "<", ">", "quote", "'",
      "b", "c", "d", "f", "h", "r", "v", "w", "x", "C", "T", "return", "alert" }

LiteralPiece(text) == [format |-> text, args |-> <<>>, meaning |-> text]
TextPiece(format, text) ==
    [format |-> format, args |-> <<[text |-> text, num |-> 0]>>, meaning |-> text]
NumberPiece(format, num, meaning) ==
    [format |-> format, args |-> <<[text |-> <<>>, num |-> num]>>, meaning |-> meaning]
NoArgument(format, meaning) == [format |-> format, args |-> <<>>, meaning |-> meaning]

\* Texts with each character that is escaped, one that looks escaped already, and ones
\* with control characters that are not escaped; numbers of each sign; each length; specifiers that are not known.
Pieces ==
    { LiteralPiece(<<"<">>), LiteralPiece(<<"quote">>), LiteralPiece(<<"a">>),
      TextPiece(<<"%", "s">>, <<>>),
      TextPiece(<<"%", "s">>, <<"quote", "a">>),
      TextPiece(<<"%", "s">>, <<"<", ">", "'">>),
      TextPiece(<<"%", "s">>, <<"&", "l", "t", "semi">>),
      TextPiece(<<"%", "s">>, <<"tab", "newline">>),
      TextPiece(<<"%", "s">>, <<"return", "newline">>), TextPiece(<<"%", "s">>, <<"a", "alert">>),
      TextPiece(<<"%", "c">>, <<"c">>),
      NumberPiece(<<"%", "d">>, 0, <<"0">>),
      NumberPiece(<<"%", "h", "d">>, -105, <<"-", "1", "0", "5">>),
      NumberPiece(<<"%", "l", "l", "d">>, 320, <<"3", "2", "0">>),
      NumberPiece(<<"%", "h", "h", "d">>, 7, <<"7">>),
      NumberPiece(<<"%", "l", "d">>, 12, <<"1", "2">>),
      NoArgument(<<"%", "%">>, <<"%">>), NoArgument(<<"%", "x">>, <<>>) }

\* Formats that end within a specifier
LastPieces == { NoArgument(<<"%">>, <<>>), NoArgument(<<"%", "l">>, <<>>) }

Call(formatted, pieces) == [formatted |-> formatted, pieces |-> pieces]

FirstPieces == { LiteralPiece(<<"<">>), TextPiece(<<"%", "s">>, <<"quote", "a">>), NoArgument(<<"%", "x">>, <<>>) }

Formats == { <<x>> : x \in Pieces \cup LastPieces } \cup { <<x, y>> : x \in FirstPieces, y \in Pieces \cup LastPieces }

Plain(text) == Call(FALSE, [k \in 1 .. Len(text) |-> LiteralPiece(<<text[k]>>)])

MCDocuments ==
    { <<Call(TRUE, f)>> : f \in Formats }
      \cup { <<Plain(<<"<", "%", "s">>), Call(TRUE, <<x>>), Plain(<<"%", ">">>)>> : x \in Pieces }

-----------------------------------------------------------------------------
(* Environments, with a hash of eight bits                                 *)

A(n) == [k \in 1 .. n |-> "a"]

\* For every string: not set, empty, and around its capacity
PasswordTexts == { Unset, <<>>, A(1), A(2), A(3) }

Motds ==
    { Unset, <<>>, <<"b">>, <<Newline>>, <<"a", Newline, "b">>, <<"quote", "\\", "tab">> }
    \cup { A(n) : n \in 4 .. 9 }

ModeTexts ==
    { Unset, <<>>, <<"t", "c", "p">>, <<"T", "C", "p">>, <<"t", "c">>, <<"t", "c", "p", "p">>,
      <<"w", "s">>, <<"w">>, <<"b">> }

MCEnvironments ==
    { [host |-> h, password |-> pw, world |-> w, address |-> Unset, motd |-> m, mode |-> o] :
        h \in { Unset, A(2), A(3) }, pw \in PasswordTexts, w \in {Unset, A(2)}, m \in Motds, o \in ModeTexts }

MCExclusiveOr(a, b) == a ^^ b

MCCapacity == [host |-> 3, password |-> 3, world |-> 2, address |-> 3]
MCDefault ==
    [host |-> A(1), world |-> A(1), address |-> A(2), motd |-> <<"a", "b">>, mode |-> <<"b">>]

MCCharCode == [c \in {"a", "b", Newline, "tab", "quote", "\\"} |->
                 CASE c = "a" -> 97 [] c = "b" -> 98 [] c = Newline -> 10 [] c = "tab" -> 9
                   [] c = "quote" -> 34 [] c = "\\" -> 92]

=============================================================================
