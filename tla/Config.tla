------------------------------- MODULE Config -------------------------------
(***************************************************************************)
(* read_config (src/config/config.cpp) with the string functions it uses   *)
(* (src/common/string_utils.cpp), and what becomes of the message of the   *)
(* day: main logs a preview of it, the status shows it without the line    *)
(* that holds its hash.                                                    *)
(*                                                                         *)
(* The strings are the host and the password of the query manager, the     *)
(* address of the WebSocket server and "world", which stands for the six   *)
(* strings of the service info.  The settings that are numbers are read    *)
(* with atoi and are constants of the other modules.                       *)
(***************************************************************************)
EXTENDS Texts

CONSTANTS
    Environments,       \* per setting its text, or Unset
    Capacity,           \* per string: the size of its array
    Default,            \* per setting but the password
    MotdCapacity,       \* of config->motd and of motd_buf, 256 in the code
    PreviewCapacity,    \* of MotdPreview, 30 in the code
    CharCode,           \* per character of a message: its value
    ExclusiveOr(_, _),  \* the operator ^ on numbers
    HashOffset, HashPrime, HashModulus

Strings == {"host", "password", "world", "address"}
Unset == <<"unset">>
Newline == "newline"

VARIABLES
    setting,            \* "host", "password", "world", "motd", "transport", "preview",
                        \* "status" and then "done"; or "failed"
    env,
    config,             \* the strings
    motd,
    transport_mode,     \* "tcp", "websocket", "both", or "" before it is read
    preview,            \* what main logs: a text, and whether it is all of it
    shown               \* the message of the day in the status

configVars == <<setting, env, config, motd, transport_mode, preview, shown>>

-----------------------------------------------------------------------------
EnvStr(name) == IF env[name] = Unset THEN Default[name] ELSE env[name]

\* What the array holds after string_copy
string_copy(capacity, src) == IF Len(src) < capacity THEN src ELSE <<>>

\* What it holds after string_format, which cuts
string_format(capacity, text) == SubSeq(text, 1, IF Len(text) < capacity THEN Len(text) ELSE capacity - 1)

\* The hash after n characters, for each n
Hashes(str) ==
    LET hash[n \in 0 .. Len(str)] ==
          IF n = 0 THEN HashOffset ELSE (ExclusiveOr(hash[n - 1], CharCode[str[n]]) * HashPrime) % HashModulus
    IN  hash

string_hash(str) == Hashes(str)[Len(str)]

HashLine(str) == number(string_hash(str)) \o <<Newline>>

\* What parse_motd leaves in config->motd, which is empty before
parse_motd(str) ==
    LET motd_buf == string_copy(MotdCapacity, str)
    IN  IF motd_buf = <<>> THEN <<>> ELSE string_format(MotdCapacity, HashLine(motd_buf) \o motd_buf)

\* Of the letters of the modes; the case of others does not matter to them.
Lower == [T |-> "t", C |-> "c", P |-> "p", W |-> "w", S |-> "s"]

tolower(c) == IF c \in DOMAIN Lower THEN Lower[c] ELSE c

\* The character of a at index, or the zero at its end
CharAt(a, index) == IF index <= Len(a) THEN tolower(a[index]) ELSE Nul

string_equals_ignore_case(a, b) ==
    LET Stops(index) == index = Len(a) + 1 \/ CharAt(a, index) # CharAt(b, index)
        index == CHOOSE n \in 1 .. Len(a) + 1 : Stops(n) /\ \A k \in 1 .. n - 1 : ~Stops(k)
    IN  CharAt(a, index) = CharAt(b, index)

\* The letter after the backslash, for the characters that have one
Letter ==
    [alert |-> "a", backspace |-> "b", tab |-> "t", newline |-> "n", vertical |-> "v", feed |-> "f", return |-> "r"]

Escape(c) ==
    IF c \in DOMAIN Letter THEN <<"\\", Letter[c]>> ELSE IF c \in {"quote", "'", "\\"} THEN <<"\\", c>> ELSE <<c>>

Cut(capacity, text) == IF Len(text) < capacity THEN text ELSE SubSeq(text, 1, capacity)

\* What string_escape has written after n characters, for each n: it stops when the
\* array is full.
Escapes(capacity, src) ==
    LET dest[n \in 0 .. Len(src)] ==
          IF n = 0 THEN <<>>
          ELSE IF Len(dest[n - 1]) >= capacity THEN dest[n - 1]
          ELSE Cut(capacity, dest[n - 1] \o Escape(src[n]))
    IN  dest

string_escape(capacity, src) ==
    LET dest == Escapes(capacity, src)[Len(src)]
    IN  IF Len(dest) < capacity THEN [text |-> dest, whole |-> TRUE]
        ELSE [text |-> SubSeq(dest, 1, capacity - 1), whole |-> FALSE]

\* The array has room for the digits of any hash, the end of the line and a character
\* of the message.
ASSUME ConfigAssumption ==
    /\ \A c \in DOMAIN Letter : Letter[c] \in Char
    /\ \A e \in Environments :
         /\ \A name \in Strings \cup {"mode"} : e[name] \in Text \cup {Unset}
         /\ e["motd"] \in Seq(DOMAIN CharCode) \cup {Unset}
    /\ \A name \in (Strings \ {"password"}) \cup {"mode"} : Default[name] \in Text
    /\ Default["motd"] \in Seq(DOMAIN CharCode) /\ DOMAIN CharCode \subseteq Char
    /\ Capacity \in [Strings -> Nat \ {0}] /\ PreviewCapacity \in Nat \ {0}
    /\ MotdCapacity \in Nat /\ HashModulus \in Nat /\ HashPrime \in Nat
    /\ HashOffset \in 0 .. HashModulus - 1
    /\ \A hash \in 0 .. HashModulus - 1, c \in DOMAIN CharCode : ExclusiveOr(hash, CharCode[c]) \in Nat
    /\ \E n \in 1 .. MaxDigits : Left(HashModulus - 1)[n] = 0 /\ n + 2 < MotdCapacity

-----------------------------------------------------------------------------
ConfigInit ==
    /\ setting = "host" /\ env \in Environments
    /\ config = [s \in Strings |-> <<>>] /\ motd = <<>> /\ transport_mode = ""
    /\ preview = [text |-> <<>>, whole |-> TRUE] /\ shown = <<>>

Copy(s) == config' = [config EXCEPT ![s] = string_copy(Capacity[s], EnvStr(s))]

ReadHost ==
    /\ setting = "host" /\ setting' = "password" /\ Copy("host")
    /\ UNCHANGED <<env, motd, transport_mode, preview, shown>>

\* The one setting that has no default
ReadPassword ==
    /\ setting = "password"
    /\ \/ env["password"] = Unset /\ setting' = "failed" /\ UNCHANGED config
       \/ env["password"] # Unset /\ setting' = "world" /\ Copy("password")
    /\ UNCHANGED <<env, motd, transport_mode, preview, shown>>

ReadInfo ==
    /\ setting = "world" /\ setting' = "motd" /\ Copy("world")
    /\ UNCHANGED <<env, motd, transport_mode, preview, shown>>

ReadMotd ==
    /\ setting = "motd" /\ setting' = "transport"
    /\ motd' = IF EnvStr("motd") = <<>> THEN <<>> ELSE parse_motd(EnvStr("motd"))
    /\ UNCHANGED <<env, config, transport_mode, preview, shown>>

Tcp == <<"t", "c", "p">>
WebSocket == <<"w", "s">>   \* "websocket" in the code

ReadTransport ==
    /\ setting = "transport" /\ setting' = "preview" /\ Copy("address")
    /\ transport_mode' = IF string_equals_ignore_case(EnvStr("mode"), Tcp) THEN "tcp"
                         ELSE IF string_equals_ignore_case(EnvStr("mode"), WebSocket) THEN "websocket"
                         ELSE "both"
    /\ UNCHANGED <<env, motd, preview, shown>>

Preview ==
    /\ setting = "preview" /\ setting' = "status"
    /\ preview' = string_escape(PreviewCapacity, motd)
    /\ UNCHANGED <<env, config, motd, transport_mode, shown>>

HasLineEnd(text) == \E n \in 1 .. Len(text) : text[n] = Newline

LineEnd(text) ==
    CHOOSE n \in 1 .. Len(text) : text[n] = Newline /\ \A k \in 1 .. n - 1 : text[k] # Newline

\* Mutated form: the end of the line is not stepped over.
FromFirstLineEnd(text) == IF HasLineEnd(text) THEN SubSeq(text, LineEnd(text), Len(text)) ELSE <<>>

\* The text after its first line; empty if it has one line only
AfterFirstLine(text) == IF HasLineEnd(text) THEN SubSeq(text, LineEnd(text) + 1, Len(text)) ELSE <<>>

ShowStatus ==
    /\ setting = "status" /\ setting' = "done"
    /\ shown' = AfterFirstLine(motd)
    /\ UNCHANGED <<env, config, motd, transport_mode, preview>>

ConfigNext ==
    \/ ReadHost \/ ReadPassword \/ ReadInfo \/ ReadMotd \/ ReadTransport \/ Preview \/ ShowStatus

ConfigSpec == ConfigInit /\ [][ConfigNext]_configVars

-----------------------------------------------------------------------------
Read == setting \in {"preview", "status", "done"}

ConfigTypeOK ==
    /\ setting \in {"host", "password", "world", "motd", "transport", "preview", "status", "done", "failed"}
    /\ \A s \in Strings : Len(config[s]) < Capacity[s]
    /\ Len(motd) < MotdCapacity /\ Len(preview.text) < PreviewCapacity
    /\ transport_mode \in {"", "tcp", "websocket", "both"}

\* What the server runs with is what was set: no string is cut or replaced by its
\* default, one that is too long is empty, and no server runs without a password
\* having been set.
SettingsAsSet ==
    Read => /\ env["password"] # Unset
            /\ \A s \in Strings : config[s] \in {EnvStr(s), <<>>}
            /\ \A s \in Strings : config[s] = <<>> => EnvStr(s) = <<>> \/ Len(EnvStr(s)) >= Capacity[s]

\* A mode is taken for another only by the case of its letters; any other text is
\* both, never a part of a name or a name with something behind it.
ModeAsNamed ==
    Read =>
      LET mode  == EnvStr("mode")
          lower == [k \in 1 .. Len(mode) |-> tolower(mode[k])]
      IN  transport_mode = IF lower = Tcp THEN "tcp" ELSE IF lower = WebSocket THEN "websocket" ELSE "both"

\* The status shows the message of the day from its start and never its hash,
\* whatever lines the message has itself; all of it if it fits with the hash, and
\* none of it only if it is too long to be read.
MotdAsSet ==
    setting = "done" =>
      LET text == EnvStr("motd")
      IN  /\ BeginsWith(text, shown)
          /\ Len(HashLine(text)) + Len(text) < MotdCapacity => shown = text
          /\ shown = <<>> => text = <<>> \/ Len(text) >= MotdCapacity

\* The preview is the beginning of the message with its escapes, and the log says so
\* exactly if something of it is missing.
PreviewTold ==
    setting \in {"status", "done"} =>
      LET all == All([k \in 1 .. Len(motd) |-> Escape(motd[k])])
      IN  BeginsWith(all, preview.text) /\ (preview.whole <=> preview.text = all)

\* read_config takes each string whole or not at all, a mode by its full name, and the
\* message of the day so that the status shows it from its start and never its hash;
\* the log says of its preview whether it is all of the message.
\* (StatusText has behaviours without a configuration, whose setting is "none".)
SettingsTaken ==
    setting # "none" => ConfigTypeOK /\ SettingsAsSet /\ ModeAsNamed /\ MotdAsSet /\ PreviewTold

=============================================================================
