---------------------------- MODULE LoginHandler ----------------------------
(***************************************************************************)
(* process_login_request (src/login/login_handler.cpp) with its queries    *)
(* resolve_email and login_account (src/query/login_query.cpp), composed   *)
(* with the service its QueryClient provides.                              *)
(*                                                                         *)
(* Texts are values with the two lengths the code tells apart: the bytes   *)
(* of a Latin-1 string on the wire and those of its UTF-8 form.  Of a      *)
(* response only its kind and its sizes are kept.  The query manager       *)
(* (external) knows accounts and passwords; of its answers the code        *)
(* depends on no more than Replies says.                                   *)
(***************************************************************************)
EXTENDS Integers

CONSTANTS
    MaxQueries,       \* bounds the queries asked
    Requests,         \* the login requests that clients send
    Lists,            \* the character lists the query manager may return
    AccountOf,        \* per email: its account, 0 if there is none
    PasswordOf,       \* per account
    MotdLength        \* of config.motd

VARIABLES
    phase, query, outcome, executed,   \* of QueryService
    step,             \* of process_login_request: the query it waits for
    request,          \* the request being processed, or processed last
    asked,            \* what the query in progress asks
    response,         \* what the last response says
    result            \* what became of the request

Service == INSTANCE QueryService

serviceVars == <<phase, query, outcome, executed>>
loginVars == <<serviceVars, step, request, asked, response, result>>

\* Mutated form: a buffer half the size.
SmallBuffer == 1024

\* sizeof Connection::buffer, of the asymmetric data and of a login request
BufferSize == 2048
BlockSize == 128
RequestSize == 145

\* sizeof the local arrays email, password and characters
EmailCapacity == 51
PasswordCapacity == 30
max_characters == 50

Empty == ""

\* sizeof the members of CharacterLoginData, less the terminator
NameLength == 29

ASSUME LoginAssumption ==
    /\ MaxQueries \in Nat
    /\ AccountOf \in [DOMAIN AccountOf -> Nat]
    /\ \A e \in DOMAIN AccountOf : AccountOf[e] # 0 => AccountOf[e] \in DOMAIN PasswordOf
    /\ Empty \notin DOMAIN AccountOf
    /\ \A a \in DOMAIN PasswordOf : a \in Nat \ {0} /\ PasswordOf[a] # Empty
    /\ \A r \in Requests :
         /\ r.size \in Nat /\ r.opened \in BOOLEAN /\ r.version \in Nat
         /\ r.email.value \in DOMAIN AccountOf \cup {Empty}
         /\ \A f \in {r.email, r.password} :
              f.length \in Int /\ f.encoded \in Nat /\ (f.length < 0 => f.value = Empty)
    /\ \A l \in Lists :
         l.count \in 0 .. 255 /\ l.text \in Nat /\ l.text <= l.count * (2 * NameLength)
    /\ MotdLength \in 0 .. 255

-----------------------------------------------------------------------------
(* The request                                                             *)

\* BufferReader::read_string: where it leaves the reader, and what it stores.  A
\* length of 2^31 or more is a negative int: nothing is stored, the reader goes back.
After(position, field) ==
    position + 2 + (IF field.length \in 0 .. 65534 THEN 0 ELSE 4) + field.length

Content(position, field, capacity) ==
    IF After(position, field) <= BlockSize /\ field.encoded < capacity
    THEN field.value ELSE Empty

\* a zero byte and four words of key come first
EmailAt == 1 + 4 * 4
PasswordAt(r) == After(EmailAt, r.email)

EmailOf(r) == Content(EmailAt, r.email, EmailCapacity)
PasswordIn(r) == Content(PasswordAt(r), r.password, PasswordCapacity)

Overflowed(r) == After(PasswordAt(r), r.password) > BlockSize

\* The connection is closed without an answer.
Malformed(r) == r.size # RequestSize \/ ~r.opened \/ Overflowed(r)

TERMINALVERSION == 770

-----------------------------------------------------------------------------
(* The response                                                            *)

MessageLength ==
    [ no_email |-> 32, version |-> 83, incorrect |-> 33, disabled |-> 47,
      blocked |-> 47, banished |-> 25, ip_banished |-> 28, internal |-> 35 ]

Messages == DOMAIN MessageLength

Pad8(n) == n + ((8 - (n % 8)) % 8)

Unsent(kind) == [kind |-> kind, message |-> "none", count |-> 0,
                 data_size |-> 0, encrypted_size |-> 0, rw_size |-> 0]

Closed == Unsent("closed")

\* Mutated form: the padding is not counted.
UnpaddedResponse(kind, message, count, position) ==
    IF position > BufferSize THEN Closed
    ELSE [kind |-> kind, message |-> message, count |-> count,
          data_size |-> position - 4, encrypted_size |-> position - 2, rw_size |-> position]

\* send_xtea_response, with what is written up to position
Response(kind, message, count, position) ==
    LET encrypted_size == Pad8(position - 2)
    IN  IF encrypted_size + 2 > BufferSize THEN Closed
        ELSE [kind |-> kind, message |-> message, count |-> count,
              data_size |-> position - 4, encrypted_size |-> encrypted_size,
              rw_size |-> encrypted_size + 2]

LoginError(message) == Response("error", message, 0, 4 + 1 + 2 + MessageLength[message])

\* where send_character_list leaves the writer
ListEnd(list) ==
    4 + (IF MotdLength > 0 THEN 1 + 2 + MotdLength ELSE 0) + 2
      + list.count * (2 + 2 + 4 + 2) + list.text + 2

CharacterList(list) == Response("list", "none", list.count, ListEnd(list))

-----------------------------------------------------------------------------
(* The query manager (external)                                            *)

ResolveEmail(email) == [type |-> "ResolveEmail", email |-> email]
LoginAccount(account, password) ==
    [type |-> "LoginAccount", account |-> account, password |-> password]

NoList == [count |-> 0, text |-> 0]
Reply(value, list) == [value |-> value, list |-> list]

\* What a response may say: the account of an email or, cut short, nothing; the
\* characters of an account to whoever knows its password; or an error code.
Replies(query_, status) ==
    IF status = "Ok" THEN
      IF query_.type = "ResolveEmail"
      THEN {Reply(a, NoList) : a \in {AccountOf[query_.email], 0}}
      ELSE {Reply(0, l) : l \in Lists}
    ELSE {Reply(code, NoList) : code \in 0 .. 7}

Grants(query_) ==
    IF query_.type = "ResolveEmail" THEN AccountOf[query_.email] # 0
    ELSE query_.account \in DOMAIN PasswordOf /\ PasswordOf[query_.account] = query_.password

Answer(status) ==
    /\ Service!Respond(status)
    /\ status = "Ok" => Grants(asked)
    /\ response' \in Replies(asked, status)
    /\ UNCHANGED <<step, request, asked, result>>

-----------------------------------------------------------------------------
(* process_login_request                                                   *)

LoginInit ==
    /\ Service!Init
    /\ step = "waiting" /\ request \in Requests
    /\ asked = ResolveEmail(Empty) /\ response = Reply(0, NoList) /\ result = Unsent("none")

\* The request ends.
Finish(outcome_) ==
    /\ step' = "waiting" /\ result' = outcome_
    /\ UNCHANGED <<serviceVars, request, asked, response>>

\* A request that is closed or refused before any query
Refusal(r) ==
    IF Malformed(r) THEN Closed
    ELSE IF EmailOf(r) = Empty THEN LoginError("no_email")
    ELSE LoginError("version")

Rejected(r) ==
    Malformed(r) \/ EmailOf(r) = Empty \/ r.version # TERMINALVERSION

Receive(r) ==
    /\ step = "waiting" /\ phase = "idle"
    /\ request' = r
    /\ \/ /\ Rejected(r)
          /\ result' = Refusal(r)
          /\ UNCHANGED <<serviceVars, step, asked, response>>
       \/ /\ ~Rejected(r) /\ query + 2 <= MaxQueries   \* bound
          /\ Service!Ask
          /\ asked' = ResolveEmail(EmailOf(r)) /\ step' = "resolve"
          /\ result' = Unsent("none")
          /\ UNCHANGED response

\* what resolve_email returns
ResolveCode ==
    IF outcome.status = "Ok" THEN 0
    ELSE IF outcome.status = "Error" THEN response.value ELSE -1

\* account_id keeps its initial value if resolve_email stores none
AccountId == IF outcome.status = "Ok" THEN response.value ELSE 0

Resolved ==
    /\ step = "resolve" /\ phase = "idle"
    /\ \/ ResolveCode # 0 /\ Finish(LoginError("incorrect"))
       \/ /\ ResolveCode = 0
          /\ Service!Ask
          /\ asked' = LoginAccount(AccountId, PasswordIn(request)) /\ step' = "login"
          /\ UNCHANGED <<request, response, result>>

\* Mutated form: an unknown error code leaves the result at 0.
LenientLoginCode ==
    IF outcome.status = "Ok" THEN IF response.list.count > max_characters THEN -1 ELSE 0
    ELSE IF outcome.status = "Error" THEN IF response.value \in 1 .. 6 THEN response.value ELSE 0
    ELSE -1

\* Mutated form: the number of characters is not compared with the array.
UncheckedLoginCode ==
    IF outcome.status = "Ok" THEN 0
    ELSE IF outcome.status = "Error" /\ response.value \in 1 .. 6 THEN response.value ELSE -1

\* what login_account returns
LoginCode ==
    IF outcome.status = "Ok" THEN IF response.list.count > max_characters THEN -1 ELSE 0
    ELSE IF outcome.status = "Error" /\ response.value \in 1 .. 6 THEN response.value ELSE -1

LoginMessage(code) ==
    CASE code \in {1, 2} -> "incorrect"
      [] code = 3 -> "disabled"
      [] code = 4 -> "blocked"
      [] code = 5 -> "banished"
      [] code = 6 -> "ip_banished"
      [] OTHER -> "internal"

LoggedIn ==
    /\ step = "login" /\ phase = "idle"
    /\ Finish(IF LoginCode = 0 THEN CharacterList(response.list)
              ELSE LoginError(LoginMessage(LoginCode)))

-----------------------------------------------------------------------------
Handler == (\E r \in Requests : Receive(r)) \/ Resolved \/ LoggedIn

\* The query in progress is carried out, answered or given up.
Manager ==
    \/ \E status \in Service!Statuses : Answer(status)
    \/ (Service!Start \/ Service!Fail) /\ UNCHANGED <<step, request, asked, response, result>>

Late(q) == Service!Execute(q) /\ UNCHANGED <<step, request, asked, response, result>>

\* exit_query, or the end of a WebSocket worker
Delete ==
    /\ step = "waiting" /\ Service!Delete
    /\ UNCHANGED <<step, request, asked, response, result>>

LoginNext == Handler \/ Manager \/ Delete \/ \E q \in Service!Queries : Late(q)

LoginSpec == LoginInit /\ [][LoginNext]_loginVars

-----------------------------------------------------------------------------
ResultObject ==
    [ kind : {"none", "closed", "error", "list"}, message : Messages \cup {"none"},
      count : 0 .. 255, data_size : 0 .. BufferSize, encrypted_size : 0 .. BufferSize,
      rw_size : 0 .. BufferSize ]

LoginTypeOK ==
    /\ step \in {"waiting", "resolve", "login"} /\ request \in Requests
    /\ asked.type = "ResolveEmail" => asked.email \in DOMAIN AccountOf \cup {Empty}
    /\ response.value \in Nat /\ response.list \in Lists \cup {NoList}
    /\ result \in ResultObject

\* Only a client that named an account by its email and knew its password gets a
\* list of characters, in whatever way the two queries ended: failed, answered
\* with an unknown error code, or answered in part.
ListIsEarned ==
    result.kind = "list" =>
      /\ request.email.value # Empty /\ AccountOf[request.email.value] # 0
      /\ PasswordOf[AccountOf[request.email.value]] = request.password.value

SoundFrame(r) ==
    /\ r.rw_size = 2 + r.encrypted_size /\ r.rw_size <= 2048
    /\ r.encrypted_size % 8 = 0
    /\ r.data_size > 0
    /\ r.encrypted_size - (2 + r.data_size) \in 0 .. 7

\* A response fits the connection's buffer with its padding, is encrypted to its
\* last byte (xtea_encrypt leaves an incomplete block as it is), and says how much
\* of it is padding: less than a block.
FrameSound == result.kind \in {"error", "list"} => SoundFrame(result)

\* The characters that are sent are those login_account stored, and no more than
\* its caller's array has room for.
ListWithinArray == result.kind = "list" => result.count <= 50 /\ result.count = response.list.count

\* A well-formed request is closed without an answer only if the account has so
\* many characters that its list may be too long for the buffer.
ClosedOnlyForLongLists ==
    result.kind = "closed" /\ ~Malformed(request) => response.list.count > 26

=============================================================================
