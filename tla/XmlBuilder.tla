----------------------------- MODULE XmlBuilder -----------------------------
(***************************************************************************)
(* The status document (src/status/xml_builder.cpp), as get_status_string  *)
(* builds it: calls of xml_append_string and xml_append_format into one    *)
(* static buffer that is used again and again and is never cleared.        *)
(*                                                                         *)
(* A document is a sequence of calls.  The pieces of a call say what its   *)
(* format is made of: a character or a specifier, the argument it takes (a *)
(* text or a number), and the text a reader of the document should find    *)
(* there.  The code sees the format and the arguments only.                *)
(*                                                                         *)
(* Bytes beyond ASCII are characters like any other: that they are the     *)
(* UTF-8 the document declares is left to who configures the texts.        *)
(***************************************************************************)
EXTENDS Texts

CONSTANTS
    Size,               \* of the buffer; sizeof(g_status_string) is 2048
    Documents,          \* sequences of [formatted, pieces]
    MaxRenderings       \* bound: documents built in a row

VARIABLES
    builder,            \* "idle" or "build"
    document, call,     \* the document and the call being made
    p, arg,             \* in its format: the next character and the next argument
    data, position,     \* the XmlBuffer
    renderings          \* documents built so far

xmlVars == <<builder, document, call, p, arg, data, position, renderings>>

-----------------------------------------------------------------------------
Entity(c) ==
    CASE c = "tab"     -> <<"&", "#", "9", "semi">>
      [] c = "newline" -> <<"&", "#", "1", "0", "semi">>
      [] c = "quote"   -> <<"&", "q", "u", "o", "t", "semi">>
      [] c = "&"       -> <<"&", "a", "m", "p", "semi">>
      [] c = "'"       -> <<"&", "a", "p", "o", "s", "semi">>
      [] c = "<"       -> <<"&", "l", "t", "semi">>
      [] c = ">"       -> <<"&", "g", "t", "semi">>
      [] OTHER         -> <<c>>

\* Mutated form: a quotation mark is left as it is.
string_mostly_escaped(str) ==
    All([k \in 1 .. Len(str) |-> IF str[k] = "quote" THEN <<str[k]>> ELSE Entity(str[k])])

\* What xml_append_string_escaped appends
string_escaped(str) == All([k \in 1 .. Len(str) |-> Entity(str[k])])

Format(c) == All([k \in 1 .. Len(c.pieces) |-> c.pieces[k].format])
Arguments(c) == All([k \in 1 .. Len(c.pieces) |-> c.pieces[k].args])

\* The character at q of the format of the call, which ends with a zero
At(q) == IF q <= Len(Format(document[call])) THEN Format(document[call])[q] ELSE Nul

-----------------------------------------------------------------------------
(* Documents and what they should be                                       *)

\* A text in decimal notation without a sign, and its value
Value(digits) ==
    LET value[n \in 0 .. Len(digits)] ==
          IF n = 0 THEN 0 ELSE 10 * value[n - 1] + (CHOOSE v \in 0 .. 9 : Digit[v + 1] = digits[n])
    IN  value[Len(digits)]

IsDecimal(text, num) ==
    LET digits == IF num < 0 THEN Tail(text) ELSE text
    IN  /\ text \in Text /\ text # <<>> /\ (num < 0 => text[1] = "-") /\ Len(digits) \in 1 .. MaxDigits
        /\ \A k \in 1 .. Len(digits) : \E v \in 0 .. 9 : digits[k] = Digit[v + 1]
        /\ (num # 0 => digits[1] # "0") /\ (num = 0 => Len(digits) = 1)
        /\ Value(digits) = IF num < 0 THEN -num ELSE num

Lengths == {<<>>, <<"h">>, <<"h", "h">>, <<"l">>, <<"l", "l">>}

\* What stands for something else in a document, or is not taken as it is when it
\* stands there by itself; no format of get_status_string has one.
Reserved == {"&", "tab", "newline", "return"}

\* A character of a format, or of a text given to xml_append_string
IsCharacter(e, but) ==
    /\ Len(e.format) = 1 /\ e.format \in Seq(Char \ but) /\ e.args = <<>> /\ e.meaning = e.format

\* A specifier and what it stands for.  A character given with %c is appended as it is
\* and has to be one that needs no escape; an unknown specifier stands for nothing.
IsSpecifier(e) ==
    LET verb == e.format[Len(e.format)]
    IN  /\ \E l \in Lengths : e.format = <<"%">> \o l \o <<verb>>
        /\ verb \in Char \ {"h", "l"}
        /\ IF verb \notin {"c", "d", "s"}
           THEN e.args = <<>> /\ e.meaning = IF verb = "%" THEN <<"%">> ELSE <<>>
           ELSE /\ Len(e.args) = 1 /\ e.args \in Seq([text : Text, num : Int])
                /\ verb \in {"c", "s"} => e.meaning = e.args[1].text
                /\ verb = "c" => Len(e.meaning) = 1 /\ Entity(e.meaning[1]) = e.meaning
                /\ verb = "d" => IsDecimal(e.meaning, e.args[1].num)

\* A format may end within a specifier.
IsUnfinished(e) ==
    (\E l \in Lengths : e.format = <<"%">> \o l) /\ e.args = <<>> /\ e.meaning = <<>>

IsCall(c) ==
    \A k \in 1 .. Len(c.pieces) :
      LET e == c.pieces[k]
      IN  IF c.formatted
          THEN IsCharacter(e, Reserved \cup {"%"}) \/ IsSpecifier(e) \/ (k = Len(c.pieces) /\ IsUnfinished(e))
          ELSE IsCharacter(e, Reserved)

PieceObject == [format : Text, args : Seq([text : Text, num : Int]), meaning : Text]

ASSUME XmlAssumption ==
    /\ Size \in Nat \ {0} /\ MaxRenderings \in Nat
    /\ Documents \subseteq Seq([formatted : BOOLEAN, pieces : Seq(PieceObject)])
    /\ \A d \in Documents : \A k \in 1 .. Len(d) : IsCall(d[k])

\* The document as it should be written: arguments escaped, the rest as it is
Written(e) == IF e.args = <<>> THEN e.meaning ELSE string_escaped(e.meaning)

Writing(c) == [k \in 1 .. Len(c.pieces) |-> Written(c.pieces[k])]

Renderings(d) == [k \in 1 .. Len(d) |-> All(Writing(d[k]))]

Rendering(d) == All(Renderings(d))

\* What a reader should find
Meaning(d) ==
    All([k \in 1 .. Len(d) |-> All([n \in 1 .. Len(d[k].pieces) |-> d[k].pieces[n].meaning])])

\* What the formats say by themselves
Fixed(e) == IF e.args = <<>> THEN e.meaning ELSE <<>>

Skeleton(d) ==
    All([k \in 1 .. Len(d) |-> All([n \in 1 .. Len(d[k].pieces) |-> Fixed(d[k].pieces[n])])])

-----------------------------------------------------------------------------
XmlInit ==
    /\ builder = "idle" /\ document = <<>> /\ call = 1 /\ p = 1 /\ arg = 1
    /\ data = [k \in 0 .. Size - 1 |-> Nul] /\ position = 0 /\ renderings = 0

\* A fresh XmlBuffer over the old contents
BeginDocument ==
    /\ builder = "idle" /\ renderings < MaxRenderings
    /\ document' \in Documents
    /\ builder' = "build" /\ call' = 1 /\ p' = 1 /\ arg' = 1 /\ position' = 0
    /\ UNCHANGED <<data, renderings>>

\* xml_append_char, for each character: what does not fit is counted and dropped.
append_chars(text) ==
    /\ data' = [k \in 0 .. Size - 1 |-> IF k \in position .. position + Len(text) - 1
                                        THEN text[k - position + 1] ELSE data[k]]
    /\ position' = position + Len(text)

AppendString ==
    /\ builder = "build" /\ call <= Len(document) /\ ~document[call].formatted
    /\ append_chars(Format(document[call]))
    /\ call' = call + 1
    /\ UNCHANGED <<builder, document, p, arg, renderings>>

Formatting == builder = "build" /\ call <= Len(document) /\ document[call].formatted

AppendLiteral ==
    /\ Formatting /\ At(p) \notin {Nul, "%"}
    /\ append_chars(<<At(p)>>)
    /\ p' = p + 1
    /\ UNCHANGED <<builder, document, call, arg, renderings>>

\* Where a specifier ends its hh, h, ll or l
AfterLength(q) ==
    IF At(q) \notin {"h", "l"} THEN q ELSE IF At(q + 1) = At(q) THEN q + 2 ELSE q + 1

\* What a specifier appends
Converted(verb, a) ==
    CASE verb = "%" -> <<"%">>
      [] verb = "c" -> a.text
      [] verb = "d" -> number(a.num)
      [] verb = "s" -> string_escaped(a.text)
      [] OTHER      -> <<>>

\* Mutated form: a specifier that is not known is not stepped over.
AppendKnownSpecifier ==
    /\ Formatting /\ At(p) = "%"
    /\ LET q == AfterLength(p + 1)
       IN  /\ append_chars(Converted(At(q), Arguments(document[call])[arg]))
           /\ arg' = IF At(q) \in {"c", "d", "s"} THEN arg + 1 ELSE arg
           /\ p' = IF At(q) \in {"%", "c", "d", "s"} THEN q + 1 ELSE p
    /\ UNCHANGED <<builder, document, call, renderings>>

\* A specifier; one that is not known is logged and takes no argument, and a format
\* that ends within one is not left.
AppendSpecifier ==
    /\ Formatting /\ At(p) = "%"
    /\ LET q == AfterLength(p + 1)
       IN  /\ append_chars(Converted(At(q), Arguments(document[call])[arg]))
           /\ arg' = IF At(q) \in {"c", "d", "s"} THEN arg + 1 ELSE arg
           /\ p' = IF At(q) # Nul THEN q + 1 ELSE q
    /\ UNCHANGED <<builder, document, call, renderings>>

EndFormat ==
    /\ Formatting /\ At(p) = Nul
    /\ call' = call + 1 /\ p' = 1 /\ arg' = 1
    /\ UNCHANGED <<builder, document, data, position, renderings>>

xml_null_terminate ==
    /\ builder = "build" /\ call > Len(document)
    /\ data' = [data EXCEPT ![IF position < Size THEN position ELSE Size - 1] = Nul]
    /\ builder' = "idle" /\ renderings' = renderings + 1
    /\ UNCHANGED <<document, call, p, arg, position>>

XmlNext ==
    \/ BeginDocument \/ AppendString \/ AppendLiteral \/ AppendSpecifier \/ EndFormat
    \/ xml_null_terminate

\* The calls are made without waiting for anything.
XmlSpec == XmlInit /\ [][XmlNext]_xmlVars /\ WF_xmlVars(XmlNext)

-----------------------------------------------------------------------------
\* The text in the buffer, of which the end is the first zero
Shown ==
    LET end == CHOOSE n \in 0 .. Size :
                 (n = Size \/ data[n] = Nul) /\ \A k \in 0 .. n - 1 : data[k] # Nul
    IN  [k \in 1 .. end |-> data[k - 1]]

\* The predefined entities of XML and two references to characters
Entities ==
    { <<<<"&", "#", "9", "semi">>, "tab">>, <<<<"&", "#", "1", "0", "semi">>, "newline">>,
      <<<<"&", "q", "u", "o", "t", "semi">>, "quote">>, <<<<"&", "a", "m", "p", "semi">>, "&">>,
      <<<<"&", "a", "p", "o", "s", "semi">>, "'">>, <<<<"&", "l", "t", "semi">>, "<">>,
      <<<<"&", "g", "t", "semi">>, ">">> }

\* A reader of XML sees the n-th character, with what it has found before and where the
\* next thing to be read begins: an entity stands for one character.
ReadOn(text, n, before) ==
    LET Found(e) == Occurs(e[1], text, n - 1)
        entity   == CHOOSE e \in Entities : Found(e)
    IN  IF n < before.next THEN before
        ELSE IF \E e \in Entities : Found(e)
             THEN [found |-> Append(before.found, entity[2]), next |-> n + Len(entity[1])]
        ELSE [found |-> Append(before.found, text[n]), next |-> n + 1]

\* What it has found when it has seen n characters, for each n
Reading(text) ==
    LET read[n \in 0 .. Len(text)] ==
          IF n = 0 THEN [found |-> <<>>, next |-> 1] ELSE ReadOn(text, n, read[n - 1])
    IN  read

\* A carriage return is taken for a newline, and within a value for a space.
White == "white"

Seen(text) == [k \in 1 .. Len(text) |-> IF text[k] = "return" THEN White ELSE text[k]]

\* No entity stands for a carriage return: one that is found stood in the text.
AsRead(text) == Seen(Reading(text)[Len(text)].found)

\* The other control characters are not allowed in XML, and a reader takes no text with
\* one ("control" stands for those that have no name).
Illegal == {"alert", "backspace", "vertical", "feed", "control"}

Legal(text) == \A k \in 1 .. Len(text) : text[k] \notin Illegal

\* The markup among the first n characters of a text, for each n
Markup(text) ==
    LET kept[n \in 0 .. Len(text)] ==
          IF n = 0 THEN <<>>
          ELSE IF text[n] \in {"<", ">", "quote", "'"} THEN Append(kept[n - 1], text[n])
          ELSE kept[n - 1]
    IN  kept

Built == builder = "idle" /\ renderings > 0

XmlTypeOK ==
    /\ builder \in {"idle", "build"} /\ DOMAIN data = 0 .. Size - 1 /\ position \in Nat
    /\ builder = "build" => call \in 1 .. Len(document) + 1
    /\ renderings \in 0 .. MaxRenderings
    /\ Formatting => /\ p \in 1 .. Len(Format(document[call])) + 1
                     /\ arg \in 1 .. Len(Arguments(document[call])) + 1

\* A reader of XML takes a document that fits if no text in it has a control character
\* that XML does not allow: xml_append_string_escaped writes those as they are.  It then
\* finds the texts and the numbers as they were given to xml_append_format, but for
\* carriage returns, which are not escaped and are found as other white space.
ReaderFindsArguments ==
    Built /\ position < Size =>
      /\ Legal(Shown) <=> Legal(Meaning(document))
      /\ Legal(Shown) => AsRead(Shown) = Seen(Meaning(document))

\* No character of an argument opens or closes a tag or a value, not even in a
\* document that is cut: the markup is that of the formats, as far as it goes.
MarkupFromFormats ==
    LET skeleton == Skeleton(document)
    IN  Built => BeginsWith(Markup(skeleton)[Len(skeleton)], Markup(Shown)[Len(Shown)])

\* What get_status_string returns ends within the buffer and is the document from its
\* start, all of it if it fits, and nothing of a longer one built before.
WholeOrCut ==
    LET written == Rendering(document)
        length  == IF Len(written) < Size THEN Len(written) ELSE Size - 1
    IN  Built => Shown = SubSeq(written, 1, length) /\ position = Len(written)

\* What get_status_string returns is the document from its start and ends within the
\* buffer, without a rest of a longer one built before; a reader of XML finds in it the
\* texts and numbers that were given to xml_append_format (as ReaderFindsArguments says:
\* but for carriage returns, and unless a text has a character XML does not allow); and
\* no character of theirs opens or closes a tag, not even where it is cut.
\* (StatusText has behaviours without a document, whose builder is "none".)
DocumentReadable ==
    builder # "none" => XmlTypeOK /\ WholeOrCut /\ ReaderFindsArguments /\ MarkupFromFormats

=============================================================================
