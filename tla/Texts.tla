------------------------------- MODULE Texts --------------------------------
(***************************************************************************)
(* Texts: sequences of characters, each a string of length 1 or the name   *)
(* of one that has no such string.  What a loop computes is a recursive    *)
(* function of the number of its turns.                                    *)
(***************************************************************************)
EXTENDS Integers, Sequences

CONSTANT Char           \* the characters of a C string

Nul == "nul"            \* the zero that ends it
Text == Seq(Char)

Digit == <<"0", "1", "2", "3", "4", "5", "6", "7", "8", "9">>

\* The characters that the code writes or looks for are among them.
ASSUME CharAssumption ==
    /\ Nul \notin Char /\ \A v \in 1 .. 10 : Digit[v] \in Char
    /\ {"-", "%", "\\", "n", "newline", "tab", "quote", "'", "<", ">"} \subseteq Char
    /\ {"&", "#", "q", "u", "o", "t", "a", "m", "p", "s", "l", "g", "semi"} \subseteq Char

\* The first n parts one after the other, for each n
Joined(parts) ==
    LET joined[n \in 0 .. Len(parts)] == IF n = 0 THEN <<>> ELSE joined[n - 1] \o parts[n]
    IN  joined

All(parts) == Joined(parts)[Len(parts)]

\* The part is in the text after its first n characters.
Occurs(part, text, n) ==
    n + Len(part) <= Len(text) /\ \A k \in 1 .. Len(part) : text[n + k] = part[k]

BeginsWith(text, start) == Len(start) <= Len(text) /\ \A k \in 1 .. Len(start) : start[k] = text[k]

-----------------------------------------------------------------------------
MaxDigits == 64         \* the array of xml_append_number

\* What is left of num when its last n digits are taken away, for each n
Left(num) ==
    LET left[n \in 0 .. MaxDigits] == IF n = 0 THEN num ELSE left[n - 1] \div 10
    IN  left

string_len(num) == CHOOSE n \in 0 .. MaxDigits : Left(num)[n] = 0 /\ \A k \in 0 .. n - 1 : Left(num)[k] # 0

\* The digits of num, of which the loop takes the last first
Digits(num) ==
    [k \in 1 .. string_len(num) |-> Digit[(Left(num)[string_len(num) - k] % 10) + 1]]

\* What xml_append_number appends; %u in a format is printed so as well
number(num) ==
    IF num = 0 THEN <<"0">> ELSE IF num < 0 THEN <<"-">> \o Digits(-num) ELSE Digits(num)

=============================================================================
