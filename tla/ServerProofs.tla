---------------------------- MODULE ServerProofs ----------------------------
(***************************************************************************)
(* Proofs about the two handlers of requests and about main: LoginHandler, *)
(* for any requests, accounts and lists of characters; StatusService, for  *)
(* any number of addresses and records and any interval; and Lifecycle,    *)
(* for any slots and workers.  The status limit rests on the table         *)
(* mirroring the history of the addresses in it; the cache on the two      *)
(* clocks never being more than a second apart; the end of the server on   *)
(* which parts exist at each stage of main.                                *)
(***************************************************************************)
EXTENDS LoginHandler, StatusService, Lifecycle, SequenceTheorems, TLAPS

-----------------------------------------------------------------------------
(* process_login_request                                                   *)

-----------------------------------------------------------------------------
(* The inductive invariant                                                 *)

\* Where process_login_request is in its queries, and what they are.
ProgressInv ==
    /\ phase \in {"starting", "gone"} => step = "waiting"
    /\ phase = "busy" => step # "waiting"
    /\ step # "waiting" => result = Unsent("none") /\ ~Rejected(request)
    /\ step = "resolve" => asked = ResolveEmail(EmailOf(request))
    /\ step = "login" => \E a \in {AccountOf[EmailOf(request)], 0} :
                           asked = LoginAccount(a, PasswordIn(request))

\* A query that was answered with Ok was granted.
GrantInv ==
    phase = "idle" /\ step # "waiting" /\ outcome.status = "Ok" =>
      Grants(asked) /\ response \in Replies(asked, "Ok")

LoginIInv ==
    /\ LoginTypeOK /\ ProgressInv /\ GrantInv
    /\ ListIsEarned /\ FrameSound /\ ListWithinArray /\ ClosedOnlyForLongLists

-----------------------------------------------------------------------------
(* Responses                                                               *)

(* The padding loop ends at the next multiple of 8. *)
LEMMA PadFacts ==
  ASSUME NEW n \in Nat
  PROVE  Pad8(n) \in Nat /\ Pad8(n) % 8 = 0 /\ Pad8(n) - n \in 0 .. 7
BY DEF Pad8

(* A padded response that fits the buffer: what its sizes are. *)
LEMMA PaddedSizes ==
  ASSUME NEW p \in Nat, NEW e \in Nat, NEW b \in Nat, p > 4, e - (p - 2) \in 0 .. 7, ~(e + 2 > b)
  PROVE  /\ p - 4 \in 0 .. b /\ e \in 0 .. b /\ e + 2 \in 0 .. b /\ e + 2 <= b
         /\ p - 4 > 0 /\ e - (2 + (p - 4)) \in 0 .. 7
<1>1. e >= p - 2 /\ e + 2 <= b
  BY SMT
<1>2. p - 4 \in Nat /\ p - 4 <= b /\ p - 4 > 0
  BY <1>1, SMT
<1>3. e + 2 \in Nat /\ e <= b
  BY <1>1, SMT
<1>4. e - (2 + (p - 4)) = e - (p - 2)
  BY SMT
<1> QED
  BY <1>1, <1>2, <1>3, <1>4, SMT

\* A position from which padding can leave the buffer
Beyond(position) == position > 2042

\* A response is closed only if it may be, and otherwise sent as it should be.
Fate(r, kind, count, mayClose) ==
    /\ r \in ResultObject
    /\ r.kind = "closed" => mayClose
    /\ r.kind # "closed" => r.kind = kind /\ r.count = count /\ SoundFrame(r)

(* send_xtea_response closes the connection or sends a sound frame. *)
LEMMA ResponseFacts ==
  ASSUME NEW kind \in {"error", "list"}, NEW message \in Messages \cup {"none"},
         NEW count \in 0 .. 255, NEW position \in Nat, position > 4
  PROVE  Fate(Response(kind, message, count, position), kind, count, Beyond(position))
<1> DEFINE r == Response(kind, message, count, position)
<1> DEFINE e == Pad8(position - 2)
<1>1. e \in Nat /\ e % 8 = 0 /\ e - (position - 2) \in 0 .. 7
  BY PadFacts
<1> HIDE DEF e
<1>2. CASE e + 2 > BufferSize
  <2>1. r = Closed
    BY <1>2, Zenon DEF Response, e
  <2>2. Beyond(position)
    BY <1>1, <1>2 DEF BufferSize, Beyond
  <2>3. r \in ResultObject /\ r.kind = "closed"
    BY <2>1 DEF Closed, Unsent, ResultObject, BufferSize
  <2> QED
    BY <2>2, <2>3 DEF Fate
<1>3. CASE ~(e + 2 > BufferSize)
  <2>1. /\ position - 4 \in 0 .. BufferSize /\ e \in 0 .. BufferSize
        /\ e + 2 \in 0 .. BufferSize /\ e + 2 <= BufferSize /\ position - 4 > 0
        /\ e - (2 + (position - 4)) \in 0 .. 7
    <3>1. e \in Nat /\ e - (position - 2) \in 0 .. 7
      BY <1>1, Zenon
    <3>2. BufferSize \in Nat
      BY SMT DEF BufferSize
    <3> QED
      BY <1>3, <3>1, <3>2, PaddedSizes, Zenon
  <2>2. r = [kind |-> kind, message |-> message, count |-> count,
             data_size |-> position - 4, encrypted_size |-> e, rw_size |-> e + 2]
    BY <1>3, Zenon DEF Response, e
  <2>3. /\ r.kind = kind /\ r.count = count
        /\ r.data_size = position - 4 /\ r.encrypted_size = e /\ r.rw_size = e + 2
    BY <2>2
  <2>4. r \in ResultObject
    BY <2>1, <2>2 DEF ResultObject
  <2>5. SoundFrame(r)
    <3> HIDE DEF r
    <3> QED
      BY <1>1, <2>1, <2>3, SMT DEF SoundFrame, BufferSize
  <2> QED
    BY <2>3, <2>4, <2>5 DEF Fate
<1> QED
  BY <1>2, <1>3

(* Every error message fits. *)
LEMMA ErrorFacts ==
  ASSUME NEW message \in Messages
  PROVE  Fate(LoginError(message), "error", 0, FALSE)
<1> DEFINE n == 4 + 1 + 2 + MessageLength[message]
<1>1. MessageLength[message] \in 25 .. 83
  BY DEF Messages, MessageLength
<1>2. n \in Nat /\ n > 4 /\ ~Beyond(n)
  BY <1>1 DEF Beyond
<1>3. LoginError(message) = Response("error", message, 0, n)
  BY Zenon DEF LoginError
<1>4. message \in Messages \cup {"none"} /\ 0 \in 0 .. 255
  OBVIOUS
<1> HIDE DEF n
<1> QED
  <2>1. Fate(LoginError(message), "error", 0, Beyond(n))
    <3>1. "error" \in {"error", "list"} /\ n \in Nat /\ n > 4
      BY <1>2, Zenon
    <3>2. Fate(Response("error", message, 0, n), "error", 0, Beyond(n))
      BY <1>4, <3>1, ResponseFacts, Zenon
    <3> QED
      BY <1>3, <3>2, Zenon
  <2> QED
    BY <1>2, <2>1 DEF Fate

(* A list is sent as it is, unless it has too many characters. *)
LEMMA ListFacts ==
  ASSUME NEW list \in Lists \cup {NoList}
  PROVE  Fate(CharacterList(list), "list", list.count, list.count > 26)
<1>1. list.count \in 0 .. 255 /\ list.text \in Nat /\ list.text <= list.count * 58
  BY LoginAssumption DEF NoList, NameLength
<1>2. PICK c \in 0 .. 255, t \in Nat : c = list.count /\ t = list.text /\ t <= c * 58
  BY <1>1, ZenonT(60)
<1> DEFINE e == ListEnd(list)
<1>4. e \in Nat /\ e > 4 /\ (Beyond(e) => c > 26)
  <2> DEFINE m == IF MotdLength > 0 THEN 1 + 2 + MotdLength ELSE 0
  <2>1. m \in 0 .. 258
    BY LoginAssumption
  <2>2. e = 4 + m + 2 + c * (2 + 2 + 4 + 2) + t + 2
    BY <1>2, ZenonT(60) DEF ListEnd
  <2> HIDE DEF m, e
  <2>3. t <= c * 58 /\ c \in Nat /\ m \in Nat /\ m <= 258
    BY <1>2, <2>1
  <2>4. e = m + 10 * c + t + 8 /\ e \in Nat
    BY <2>2, <2>3
  <2> QED
    BY <2>3, <2>4 DEF Beyond
<1>3. CharacterList(list) = Response("list", "none", c, e)
  BY <1>2, Zenon DEF CharacterList
<1> HIDE DEF e
<1> QED
  <2>1. Fate(CharacterList(list), "list", c, Beyond(e))
    <3>1. "list" \in {"error", "list"} /\ "none" \in Messages \cup {"none"}
      BY Zenon
    <3>2. e \in Nat /\ e > 4
      BY <1>4, Zenon
    <3>3. Fate(Response("list", "none", c, e), "list", c, Beyond(e))
      BY <3>1, <3>2, ResponseFacts, Zenon
    <3> QED
      BY <1>3, <3>3, Zenon
  <2> QED
    BY <1>2, <1>4, <2>1 DEF Fate

-----------------------------------------------------------------------------
(* The request                                                             *)

(* What is read of a request is what was sent, or nothing. *)
LEMMA ContentFacts ==
  ASSUME NEW r \in Requests
  PROVE  /\ EmailOf(r) # Empty => EmailOf(r) = r.email.value /\ r.email.value \in DOMAIN AccountOf
         /\ EmailOf(r) \in DOMAIN AccountOf \cup {Empty}
         /\ PasswordIn(r) # Empty => PasswordIn(r) = r.password.value
BY LoginAssumption DEF EmailOf, PasswordIn, Content

(* A login of the account of the email, granted, names the client's password. *)
LEMMA GrantFacts ==
  ASSUME NEW r \in Requests, EmailOf(r) # Empty,
         NEW a \in {AccountOf[EmailOf(r)], 0}, Grants(LoginAccount(a, PasswordIn(r)))
  PROVE  /\ r.email.value # Empty /\ AccountOf[r.email.value] # 0
         /\ PasswordOf[AccountOf[r.email.value]] = r.password.value
<1>1. a \in DOMAIN PasswordOf /\ PasswordOf[a] = PasswordIn(r)
  BY Zenon DEF Grants, LoginAccount
<1>2. a # 0 /\ PasswordOf[a] # Empty
  BY <1>1, LoginAssumption, ZenonT(60)
<1> QED
  BY <1>1, <1>2, ContentFacts, Zenon

-----------------------------------------------------------------------------
(* The inductive invariant holds                                           *)

\* What is claimed of a result that a request r ended with
ResultSound(res, r, rep) ==
    /\ res \in ResultObject
    /\ res.kind = "list" =>
         /\ r.email.value # Empty /\ AccountOf[r.email.value] # 0
         /\ PasswordOf[AccountOf[r.email.value]] = r.password.value
         /\ res.count <= 50 /\ res.count = rep.list.count
    /\ res.kind \in {"error", "list"} => SoundFrame(res)
    /\ res.kind = "closed" /\ ~Malformed(r) => rep.list.count > 26

LEMMA ResultMeaning ==
  (result \in ResultObject /\ ListIsEarned /\ FrameSound /\ ListWithinArray /\ ClosedOnlyForLongLists)
    <=> ResultSound(result, request, response)
BY Zenon DEF ResultSound, ListIsEarned, FrameSound, ListWithinArray, ClosedOnlyForLongLists

LEMMA ErrorSound ==
  ASSUME NEW message \in Messages, NEW r, NEW rep
  PROVE  ResultSound(LoginError(message), r, rep)
BY ErrorFacts, Zenon DEF Fate, ResultSound

LEMMA UnsentSound ==
  ASSUME NEW r, NEW rep
  PROVE  ResultSound(Unsent("none"), r, rep)
BY DEF Unsent, ResultSound, ResultObject, BufferSize

LEMMA ClosedSound ==
  ASSUME NEW r, Malformed(r), NEW rep
  PROVE  ResultSound(Closed, r, rep)
BY DEF Closed, Unsent, ResultSound, ResultObject, BufferSize

LEMMA MessageNames ==
  /\ {"no_email", "version", "incorrect"} \subseteq Messages
  /\ \A code : LoginMessage(code) \in Messages
BY Zenon DEF Messages, MessageLength, LoginMessage

\* LoginIInv with the claims about the result in one piece
Inv ==
    /\ step \in {"waiting", "resolve", "login"} /\ request \in Requests
    /\ asked.type = "ResolveEmail" => asked.email \in DOMAIN AccountOf \cup {Empty}
    /\ response.value \in Nat /\ response.list \in Lists \cup {NoList}
    /\ ProgressInv /\ GrantInv
    /\ ResultSound(result, request, response)

LEMMA InvMeaning == LoginIInv <=> Inv
BY ResultMeaning, Zenon DEF LoginIInv, Inv, LoginTypeOK

LEMMA InitInv == LoginInit => Inv
<1> SUFFICES ASSUME LoginInit PROVE Inv
  BY Zenon
<1>1. phase = "starting" /\ step = "waiting" /\ request \in Requests /\ result = Unsent("none")
  BY Zenon DEF LoginInit, Service!Init
<1>2. /\ asked.type = "ResolveEmail" /\ asked.email = Empty
      /\ response.value \in Nat /\ response.list = NoList
  BY Zenon DEF LoginInit, ResolveEmail, Reply
<1>3. ResultSound(result, request, response)
  BY <1>1, UnsentSound, Zenon
<1> QED
  BY <1>1, <1>2, <1>3, Zenon DEF Inv, ProgressInv, GrantInv

LEMMA ReceiveInv ==
  ASSUME Inv, NEW r \in Requests, Receive(r)
  PROVE  Inv'
<1>1. step = "waiting" /\ phase = "idle" /\ request' = r /\ response' = response
  BY Zenon DEF Receive, Service!Ask
<1>2. CASE Rejected(r)
  <2>1. result' = Refusal(r) /\ UNCHANGED <<serviceVars, step, asked, response>>
    BY <1>2, Zenon DEF Receive
  <2>2. ResultSound(Refusal(r), r, response)
    BY ErrorSound, ClosedSound, MessageNames, Zenon DEF Refusal
  <2> QED
    BY <1>1, <2>1, <2>2, Zenon DEF Inv, ProgressInv, GrantInv, serviceVars
<1>3. CASE ~Rejected(r)
  <2>1. /\ phase' = "busy" /\ asked' = ResolveEmail(EmailOf(r)) /\ step' = "resolve"
        /\ result' = Unsent("none")
    BY <1>3, Zenon DEF Receive, Service!Ask
  <2>2. asked'.type = "ResolveEmail" /\ asked'.email = EmailOf(r)
    BY <2>1, Zenon DEF ResolveEmail
  <2>3. ResultSound(result', r, response)
    BY <2>1, UnsentSound, Zenon
  <2>4. ProgressInv' /\ GrantInv'
    BY <1>1, <1>3, <2>1, Zenon DEF ProgressInv, GrantInv
  <2> QED
    BY <1>1, <2>1, <2>2, <2>3, <2>4, ContentFacts, Zenon DEF Inv
<1> QED
  BY <1>2, <1>3, Zenon

LEMMA ResolvedInv ==
  ASSUME Inv, Resolved
  PROVE  Inv'
<1>1. /\ step = "resolve" /\ phase = "idle" /\ request' = request /\ response' = response
      /\ asked = ResolveEmail(EmailOf(request)) /\ result = Unsent("none") /\ ~Rejected(request)
  BY Zenon DEF Inv, ProgressInv, Resolved, Finish
<1>2. CASE ResolveCode # 0
  <2>1. /\ step' = "waiting" /\ result' = LoginError("incorrect")
        /\ UNCHANGED <<phase, outcome, asked>>
    BY <1>2, Zenon DEF Resolved, Finish, serviceVars
  <2>2. ResultSound(result', request, response)
    BY <2>1, ErrorSound, MessageNames, Zenon
  <2> QED
    BY <1>1, <2>1, <2>2, Zenon DEF Inv, ProgressInv, GrantInv
<1>3. CASE ResolveCode = 0
  <2>1. /\ phase' = "busy" /\ step' = "login" /\ result' = result
        /\ asked' = LoginAccount(AccountId, PasswordIn(request))
    BY <1>3, Zenon DEF Resolved, Service!Ask
  <2>2. AccountId \in {AccountOf[EmailOf(request)], 0}
    <3>1. CASE outcome.status = "Ok"
      <4>1. response \in {Reply(a, NoList) : a \in {AccountOf[asked.email], 0}}
        BY <1>1, <3>1, Zenon DEF Inv, GrantInv, Replies, ResolveEmail
      <4>2. response.value \in {AccountOf[asked.email], 0}
        BY <4>1 DEF Reply
      <4> QED
        BY <1>1, <3>1, <4>2, Zenon DEF AccountId, ResolveEmail
    <3>2. CASE outcome.status # "Ok"
      BY <3>2, Zenon DEF AccountId
    <3> QED
      BY <3>1, <3>2, Zenon
  <2>3. asked'.type = "LoginAccount"
    BY <2>1, Zenon DEF LoginAccount
  <2>4. ProgressInv' /\ GrantInv'
    <3>1. Rejected(request)' <=> Rejected(request)
      BY <1>1, Zenon DEF Rejected, Malformed, Overflowed, EmailOf, PasswordAt
    <3>2. EmailOf(request') = EmailOf(request) /\ PasswordIn(request') = PasswordIn(request)
      BY <1>1, Zenon
    <3> QED
      BY <1>1, <2>1, <2>2, <3>1, <3>2, Zenon DEF ProgressInv, GrantInv
  <2> QED
    BY <1>1, <2>1, <2>3, <2>4, Zenon DEF Inv
<1> QED
  BY <1>2, <1>3, Zenon

LEMMA LoggedInInv ==
  ASSUME Inv, LoggedIn
  PROVE  Inv'
<1>1. /\ step = "login" /\ phase = "idle"
      /\ step' = "waiting" /\ UNCHANGED <<phase, outcome, request, asked, response>>
      /\ request \in Requests /\ ~Rejected(request) /\ response.list \in Lists \cup {NoList}
  BY Zenon DEF Inv, ProgressInv, LoggedIn, Finish, serviceVars
<1>2. CASE LoginCode = 0
  <2>1. result' = CharacterList(response.list)
    BY <1>2, Zenon DEF LoggedIn, Finish
  <2>2. outcome.status = "Ok" /\ ~(response.list.count > max_characters)
    BY <1>2 DEF LoginCode
  <2>3. PICK a \in {AccountOf[EmailOf(request)], 0} : asked = LoginAccount(a, PasswordIn(request))
    BY <1>1, Zenon DEF Inv, ProgressInv
  <2>4. /\ request.email.value # Empty /\ AccountOf[request.email.value] # 0
        /\ PasswordOf[AccountOf[request.email.value]] = request.password.value
    BY <1>1, <2>2, <2>3, GrantFacts, Zenon DEF Inv, GrantInv, Rejected
  <2>5. response.list.count \in 0 .. 255
    <3>1. \A l \in Lists \cup {NoList} : l.count \in 0 .. 255
      BY LoginAssumption DEF NoList
    <3> QED
      BY <1>1, <3>1
  <2>6. Fate(result', "list", response.list.count, response.list.count > 26)
    BY <1>1, <2>1, ListFacts, Zenon
  <2>7. ResultSound(result', request, response)
    BY <2>2, <2>4, <2>5, <2>6 DEF Fate, ResultSound, max_characters
  <2> QED
    BY <1>1, <2>7, Zenon DEF Inv, ProgressInv, GrantInv
<1>3. CASE LoginCode # 0
  <2>1. result' = LoginError(LoginMessage(LoginCode))
    BY <1>3, Zenon DEF LoggedIn, Finish
  <2>2. ResultSound(result', request, response)
    BY <2>1, ErrorSound, MessageNames, Zenon
  <2> QED
    BY <1>1, <2>2, Zenon DEF Inv, ProgressInv, GrantInv
<1> QED
  BY <1>2, <1>3, Zenon

LEMMA AnswerInv ==
  ASSUME Inv, NEW answer \in Service!Statuses, Answer(answer)
  PROVE  Inv'
<1>1. /\ phase = "busy" /\ phase' = "idle" /\ outcome' = Service!Outcome(query, answer)
      /\ UNCHANGED <<step, request, asked, result>>
      /\ answer = "Ok" => Grants(asked)
      /\ response' \in Replies(asked, answer)
  BY Zenon DEF Answer, Service!Respond
<1>2. step # "waiting" /\ result = Unsent("none")
  BY <1>1, Zenon DEF Inv, ProgressInv
<1>3. outcome'.status = answer
  BY <1>1, Zenon DEF Service!Outcome
<1>4. response'.value \in Nat /\ response'.list \in Lists \cup {NoList}
  <2>1. CASE answer = "Ok" /\ asked.type = "ResolveEmail"
    <3>1. PICK a \in {AccountOf[asked.email], 0} : response' = Reply(a, NoList)
      BY <1>1, <2>1, Zenon DEF Replies
    <3>2. asked.email \in DOMAIN AccountOf
      BY <1>1, <1>2, <2>1, ContentFacts
         DEF Inv, ProgressInv, Rejected, ResolveEmail, LoginAccount
    <3>3. a \in Nat
      BY <3>1, <3>2, LoginAssumption
    <3> QED
      BY <3>1, <3>3, Zenon DEF Reply
  <2>2. CASE answer = "Ok" /\ asked.type # "ResolveEmail"
    BY <1>1, <2>2 DEF Replies, Reply
  <2>3. CASE answer # "Ok"
    BY <1>1, <2>3 DEF Replies, Reply
  <2> QED
    BY <2>1, <2>2, <2>3, Zenon
<1>5. ResultSound(result, request, response')
  BY <1>2, UnsentSound, Zenon
<1>6. Grants(asked)' <=> Grants(asked)
  BY <1>1, Zenon DEF Grants
<1>7. ProgressInv' /\ GrantInv'
  <2>1. ProgressInv'
    BY <1>1, <1>2, Zenon DEF Inv, ProgressInv
  <2>2. GrantInv'
    BY <1>1, <1>3, Zenon DEF GrantInv
  <2> QED
    BY <2>1, <2>2, Zenon
<1> QED
  BY <1>1, <1>4, <1>5, <1>7, Zenon DEF Inv

LEMMA NextInv == Inv /\ [LoginNext]_loginVars => Inv'
<1> SUFFICES ASSUME Inv, [LoginNext]_loginVars PROVE Inv'
  BY Zenon
<1> DEFINE Rest == UNCHANGED <<step, request, asked, response, result>>
<1>1. ASSUME Rest, \/ phase = "starting" /\ phase' \in {"idle", "gone"}
                   \/ phase = "busy" /\ phase' = "idle" /\ outcome'.status # "Ok"
                   \/ UNCHANGED <<phase, outcome>>
                   \/ step = "waiting" /\ phase' = "gone"
      PROVE  Inv'
  BY <1>1 DEF Inv, ProgressInv, GrantInv
<1>2. CASE Handler
  BY <1>2, ReceiveInv, ResolvedInv, LoggedInInv, Zenon DEF Handler
<1>3. CASE Manager
  <2>1. CASE Service!Start /\ Rest
    BY <1>1, <2>1, Zenon DEF Service!Start
  <2>2. CASE Service!Fail /\ Rest
    BY <1>1, <2>2, Zenon DEF Service!Fail, Service!NoResponse, Service!Outcome
  <2> QED
    BY <1>3, <2>1, <2>2, AnswerInv, Zenon DEF Manager
<1>4. CASE Delete
  BY <1>1, <1>4, Zenon DEF Delete, Service!Delete
<1>5. ASSUME NEW q \in Service!Queries, Late(q) PROVE Inv'
  BY <1>1, <1>5, Zenon DEF Late, Service!Execute
<1>6. CASE UNCHANGED loginVars
  BY <1>1, <1>6, Zenon DEF loginVars, serviceVars
<1> QED
  BY <1>2, <1>3, <1>4, <1>5, <1>6, Zenon DEF LoginNext

LEMMA InductiveInvariant == LoginSpec => []LoginIInv
BY InvMeaning, InitInv, NextInv, PTL DEF LoginSpec

(* process_login_request keeps its state within its types. *)
THEOREM LoginTypeCorrect == LoginSpec => []LoginTypeOK
<1>1. LoginIInv => LoginTypeOK
  BY Zenon DEF LoginIInv
<1> QED
  BY <1>1, InductiveInvariant, PTL

(* A list of characters goes only to a client that knows the account's password. *)
THEOREM ListIsEarnedHolds == LoginSpec => []ListIsEarned
<1>1. LoginIInv => ListIsEarned
  BY Zenon DEF LoginIInv
<1> QED
  BY <1>1, InductiveInvariant, PTL

(* send_xtea_response never sends a frame that is too long or not wholly encrypted. *)
THEOREM FrameSoundHolds == LoginSpec => []FrameSound
<1>1. LoginIInv => FrameSound
  BY Zenon DEF LoginIInv
<1> QED
  BY <1>1, InductiveInvariant, PTL

(* login_account never stores more characters than process_login_request has room for. *)
THEOREM ListWithinArrayHolds == LoginSpec => []ListWithinArray
<1>1. LoginIInv => ListWithinArray
  BY Zenon DEF LoginIInv
<1> QED
  BY <1>1, InductiveInvariant, PTL

(* An account with up to 26 characters is never closed without an answer. *)
THEOREM ClosedOnlyForLongListsHolds == LoginSpec => []ClosedOnlyForLongLists
<1>1. LoginIInv => ClosedOnlyForLongLists
  BY Zenon DEF LoginIInv
<1> QED
  BY <1>1, InductiveInvariant, PTL

-----------------------------------------------------------------------------
(* process_status_request                                                  *)

(* What a record built by StatusRecord holds. *)
LEMMA RecordFields ==
    ASSUME NEW ip \in Addresses \cup {0}, NEW t \in Nat
    PROVE  /\ StatusRecord(ip, t) \in RecordObject
           /\ StatusRecord(ip, t).ip_address = ip
           /\ StatusRecord(ip, t).timestamp = t
BY Zenon DEF StatusRecord, RecordObject

(* The types of a record's fields. *)
LEMMA RecordTypes ==
    ASSUME NEW r \in RecordObject
    PROVE  r.ip_address \in Addresses \cup {0} /\ r.timestamp \in Nat
BY Zenon DEF RecordObject

(* The numbers among the variables. *)
LEMMA NumberTypes ==
    TypeOK => /\ uptime \in Nat /\ wall \in Nat /\ g_last_status_refresh \in Nat
              /\ refreshed \in Int
              /\ refreshed # Never => refreshed \in Nat
              /\ \A ip \in Addresses : last[ip] \in Int
<1> SUFFICES ASSUME TypeOK
             PROVE  /\ uptime \in Nat /\ wall \in Nat /\ g_last_status_refresh \in Nat
                    /\ refreshed \in Int
                    /\ refreshed # Never => refreshed \in Nat
                    /\ \A ip \in Addresses : last[ip] \in Int
  BY Zenon
<1>1. /\ uptime \in Nat /\ wall \in Nat /\ g_last_status_refresh \in Nat
      /\ refreshed \in Nat \cup {Never}
      /\ last \in [Addresses -> Nat \cup {Never}]
  BY Zenon DEF TypeOK
<1> QED
  BY <1>1 DEF Never

-----------------------------------------------------------------------------
(* The type invariant *)

(* The initial state of init_connections and static storage is well typed. *)
LEMMA InitType == Init => TypeOK
<1> SUFFICES ASSUME Init PROVE TypeOK
  BY Zenon
<1>1. UnusedRecord \in RecordObject
  BY RecordFields, Zenon DEF UnusedRecord
<1> QED
  BY <1>1, StatusAssumption, Zenon DEF Init, TypeOK, Never

(* The table stays one of records. *)
LEMMA AllowType ==
    ASSUME TypeOK, NEW ip \in Addresses, Allow(ip)
    PROVE  /\ g_status_records' \in [Records -> RecordObject]
           /\ last' \in [Addresses -> Nat \cup {Never}]
<1>1. StatusRecord(ip, uptime) \in RecordObject
  BY RecordFields, Zenon DEF TypeOK
<1> QED
  BY <1>1, Zenon DEF Allow, Record, TypeOK

(* Every request and every move of a clock keeps the types. *)
LEMMA NextType == TypeOK /\ [Next]_vars => TypeOK'
<1> SUFFICES ASSUME TypeOK, [Next]_vars PROVE TypeOK'
  BY Zenon
<1>1. CASE Tick
  <2>1. half' \in BOOLEAN /\ reply' = "none" /\ UNCHANGED <<limitVars, cacheVars, clockSet>>
    BY <1>1, Zenon DEF Tick, TypeOK
  <2>2. \/ wall' = wall + 1 /\ uptime' = uptime
        \/ wall' = wall /\ uptime' = uptime + 1
    BY <1>1, Zenon DEF Tick
  <2>3. wall' \in Nat /\ uptime' \in Nat
    BY <2>2, NumberTypes
  <2> QED
    BY <2>1, <2>3, Zenon DEF TypeOK, limitVars, cacheVars
<1>2. CASE SetClock
  <2>1. /\ clockSet' = TRUE /\ reply' = "none"
        /\ UNCHANGED <<limitVars, cacheVars, uptime, half>>
        /\ wall' \in min_status_interval .. Epoch + MaxUptime
    BY <1>2, Zenon DEF SetClock
  <2>2. wall' \in Nat
    BY <2>1, StatusAssumption
  <2> QED
    BY <2>1, <2>2, Zenon DEF TypeOK, limitVars, cacheVars
<1>3. ASSUME NEW ip \in Addresses, ProcessStatusRequest(ip) PROVE TypeOK'
  <2>1. /\ g_status_records' \in [Records -> RecordObject]
        /\ last' \in [Addresses -> Nat \cup {Never}]
    BY <1>3, AllowType, Zenon DEF ProcessStatusRequest, Refuse, limitVars, TypeOK
  <2>2. /\ g_last_status_refresh' \in Nat
        /\ g_status_string' \in {"", "world", "no world"}
        /\ refreshed' \in Nat \cup {Never}
        /\ reply' \in {"none", "refused", "invalid", "cached", "fresh"}
    BY <1>3, Zenon DEF ProcessStatusRequest, GetStatusString, Refresh, cacheVars, TypeOK
  <2> QED
    BY <1>3, <2>1, <2>2, Zenon DEF ProcessStatusRequest, clockVars, TypeOK
<1>4. CASE UNCHANGED vars
  BY <1>4, Zenon DEF vars, limitVars, cacheVars, clockVars, TypeOK
<1> QED
  BY <1>1, <1>2, <1>3, <1>4, Zenon DEF Next

(* TypeOK is an invariant: the table, the cache and the clocks keep their
   types through allow_status_request and get_status_string. *)
THEOREM StatusTypes == Spec => []TypeOK
BY InitType, NextType, PTL DEF Spec

-----------------------------------------------------------------------------
(* The limit *)

(* A used record holds the moment its address was last allowed, and no address
   has two; an unused one is zero; an address that is not in the table any more
   was overrun: as many others have its timestamp or a later one.  (An address
   last allowed in the first second may be lost.)  *)
LimitInv ==
    /\ TypeOK
    /\ \A k \in Records : g_status_records[k].ip_address = 0
         => g_status_records[k].timestamp = 0
    /\ \A k \in Records : g_status_records[k].ip_address # 0
         => g_status_records[k].timestamp = last[g_status_records[k].ip_address]
    /\ \A j, k \in Records :
         /\ g_status_records[j].ip_address = g_status_records[k].ip_address
         /\ g_status_records[j].ip_address # 0
         => j = k
    /\ \A ip \in Addresses : last[ip] <= uptime
    /\ \A ip \in Addresses : last[ip] > 0 => Known(ip) \/ Overrun(ip)

(* It holds of the zeroed table. *)
LEMMA LimitInit == Init => LimitInv
<1> SUFFICES ASSUME Init PROVE LimitInv
  BY Zenon
<1>1. TypeOK
  BY InitType, Zenon
<1>2. \A k \in Records : /\ g_status_records[k].ip_address = 0
                         /\ g_status_records[k].timestamp = 0
  BY RecordFields, Zenon DEF Init, UnusedRecord
<1>3. \A ip \in Addresses : last[ip] = -1 /\ uptime = 0
  BY Zenon DEF Init, Never
<1>4. \A ip \in Addresses : last[ip] <= uptime /\ ~(last[ip] > 0)
  <2>1. -1 <= 0 /\ ~(-1 > 0)
    OBVIOUS
  <2> QED
    BY <1>3, <2>1, Zenon
<1> QED
  BY <1>1, <1>2, <1>4, Zenon DEF LimitInv

(* The record that is written is the new one, the others stay. *)
LEMMA Written ==
    ASSUME TypeOK, NEW ip \in Addresses, NEW r \in Records, Record(r, ip)
    PROVE  /\ g_status_records'[r].ip_address = ip
           /\ g_status_records'[r].timestamp = uptime
           /\ \A k \in Records \ {r} : g_status_records'[k] = g_status_records[k]
           /\ last'[ip] = uptime
           /\ \A a \in Addresses \ {ip} : last'[a] = last[a]
BY RecordFields, ZenonT(60) DEF Record, TypeOK

(* An allowed request keeps it: the record written is the address's own, or the
   oldest, whose owner is overrun by the owners of all others and the writer. *)
LEMMA AllowLimit ==
    ASSUME LimitInv, NEW n \in Addresses, Allow(n), uptime' = uptime, TypeOK'
    PROVE  LimitInv'
<1>1. PICK r \in Records :
        /\ \/ IsRecord(r, n) /\ ~TooSoon(r)
           \/ ~Known(n) /\ LeastRecentlyUsed(r)
        /\ Record(r, n)
  BY Zenon DEF Allow
<1>2. TypeOK /\ n # 0 /\ uptime \in Nat
  BY StatusAssumption, Zenon DEF LimitInv, TypeOK
<1>3. /\ g_status_records'[r].ip_address = n
      /\ g_status_records'[r].timestamp = uptime
      /\ \A k \in Records \ {r} : g_status_records'[k] = g_status_records[k]
      /\ last'[n] = uptime
      /\ \A a \in Addresses \ {n} : last'[a] = last[a]
  BY <1>1, <1>2, Written, Zenon
<1>4. \A k \in Records : /\ g_status_records[k].ip_address \in Addresses \cup {0}
                         /\ g_status_records[k].timestamp \in Nat
  BY <1>2, RecordTypes, Zenon DEF TypeOK
<1>5. \A k \in Records \ {r} : g_status_records[k].ip_address # n
  BY <1>1, <1>2, Zenon DEF LimitInv, IsRecord, Known
<1>6. \A k \in Records : g_status_records'[k].ip_address = 0
         => g_status_records'[k].timestamp = 0
  BY <1>2, <1>3, Zenon DEF LimitInv
<1>7. \A k \in Records : g_status_records'[k].ip_address # 0
         => g_status_records'[k].timestamp = last'[g_status_records'[k].ip_address]
  BY <1>3, <1>4, <1>5 DEF LimitInv
<1>8. \A j, k \in Records :
         /\ g_status_records'[j].ip_address = g_status_records'[k].ip_address
         /\ g_status_records'[j].ip_address # 0
         => j = k
  BY <1>3, <1>5 DEF LimitInv
<1>9. \A a \in Addresses : last[a] \in Nat \cup {-1} /\ last[a] <= uptime
  BY <1>2, Zenon DEF LimitInv, TypeOK, Never
<1>10. \A a \in Addresses : last'[a] <= uptime' /\ last'[a] >= last[a]
  BY <1>2, <1>3, <1>9
<1>11. ASSUME NEW a \in Addresses, last'[a] > 0
       PROVE  Known(a)' \/ Overrun(a)'
  <2>1. CASE a = n
    BY <2>1, <1>3, Zenon DEF Known, IsRecord
  <2>2. CASE a # n /\ Overrun(a)
    <3>1. last'[a] = last[a]
      BY <2>2, <1>3, Zenon
    <3>2. PICK f \in [Records -> Addresses \ {a}] :
            /\ \A j, m \in Records : f[j] = f[m] => j = m
            /\ \A k \in Records : last[f[k]] >= last[a]
      BY <2>2, Zenon DEF Overrun
    <3>3. \A k \in Records : last'[f[k]] >= last'[a]
      <4> SUFFICES ASSUME NEW k \in Records PROVE last'[f[k]] >= last'[a]
        BY Zenon
      <4>1. f[k] \in Addresses
        BY Zenon
      <4>2. CASE f[k] = n
        BY <4>2, <3>1, <1>3, <1>9, Zenon
      <4>3. CASE f[k] # n
        BY <4>1, <4>3, <3>1, <3>2, <1>3, Zenon
      <4> QED
        BY <4>2, <4>3, Zenon
    <3> QED
      BY <3>2, <3>3, Zenon DEF Overrun
  <2>3. CASE a # n /\ ~Overrun(a)
    <3>1. last'[a] = last[a] /\ last[a] > 0
      BY <2>3, <1>3, <1>11, Zenon
    <3>2. PICK k \in Records : g_status_records[k].ip_address = a
      BY <2>3, <3>1, Zenon DEF LimitInv, Known, IsRecord
    <3>3. CASE k # r
      BY <3>2, <3>3, <1>3, Zenon DEF Known, IsRecord
    <3>4. CASE k = r
      <4>1. g_status_records[r].timestamp = last[a] /\ a # 0
        BY <3>2, <3>4, StatusAssumption, Zenon DEF LimitInv
      <4>2. LeastRecentlyUsed(r)
        BY <1>1, <2>3, <3>2, <3>4, Zenon DEF IsRecord
      <4>3. \A j \in Records : g_status_records[j].timestamp >= last[a]
        BY <4>1, <4>2, <1>4 DEF LeastRecentlyUsed
      <4>4. \A j \in Records : /\ g_status_records[j].ip_address \in Addresses
                               /\ last[g_status_records[j].ip_address] >= last[a]
        BY <4>3, <3>1, <1>4, <1>9 DEF LimitInv
      <4> DEFINE f == [j \in Records |-> IF j = r THEN n ELSE g_status_records[j].ip_address]
      <4>5. \A j \in Records : f[j] \in Addresses \ {a}
        BY <4>4, <4>1, <3>2, <3>4, <2>3, Zenon DEF LimitInv
      <4>6. f \in [Records -> Addresses \ {a}]
        BY <4>5, Zenon
      <4>7. \A j, m \in Records : f[j] = f[m] => j = m
        BY <4>4, <1>5, StatusAssumption, Zenon DEF LimitInv
      <4>8. \A j \in Records : last'[f[j]] >= last'[a]
        BY <4>4, <3>1, <1>3, <1>5, <1>9, ZenonT(60)
      <4> HIDE DEF f
      <4> QED
        BY <4>6, <4>7, <4>8, Zenon DEF Overrun
    <3> QED
      BY <3>3, <3>4, Zenon
  <2> QED
    BY <2>1, <2>2, <2>3, Zenon
<1> QED
  BY <1>6, <1>7, <1>8, <1>10, <1>11, Zenon DEF LimitInv

(* Steps that leave the table alone keep it, as the clock never goes back. *)
LEMMA OtherLimit ==
    ASSUME LimitInv, TypeOK', UNCHANGED limitVars, uptime' >= uptime
    PROVE  LimitInv'
<1>1. g_status_records' = g_status_records /\ last' = last
  BY Zenon DEF limitVars
<1>2. \A a \in Addresses : last'[a] <= uptime'
  <2>1. uptime \in Nat /\ uptime' \in Nat
    BY NumberTypes, Zenon DEF LimitInv, TypeOK
  <2>2. \A a \in Addresses : last[a] \in Int /\ last[a] <= uptime
    BY NumberTypes, Zenon DEF LimitInv
  <2> QED
    BY <1>1, <2>1, <2>2
<1>3. \A a \in Addresses : (Known(a) <=> Known(a)') /\ (Overrun(a) <=> Overrun(a)')
  BY <1>1, Zenon DEF Known, IsRecord, Overrun
<1> QED
  BY <1>1, <1>2, <1>3, Zenon DEF LimitInv

(* Every step keeps it. *)
LEMMA LimitNext == LimitInv /\ [Next]_vars => LimitInv'
<1> SUFFICES ASSUME LimitInv, [Next]_vars PROVE LimitInv'
  BY Zenon
<1>1. TypeOK' /\ uptime \in Nat
  BY NextType, Zenon DEF LimitInv, TypeOK
<1>2. CASE Tick
  BY <1>1, <1>2, OtherLimit DEF Tick
<1>3. CASE SetClock
  BY <1>1, <1>3, OtherLimit DEF SetClock
<1>4. ASSUME NEW ip \in Addresses, ProcessStatusRequest(ip) PROVE LimitInv'
  BY <1>1, <1>4, AllowLimit, OtherLimit DEF ProcessStatusRequest, Refuse, clockVars
<1>5. CASE UNCHANGED vars
  BY <1>1, <1>5, OtherLimit DEF vars, clockVars
<1> QED
  BY <1>2, <1>3, <1>4, <1>5, Zenon DEF Next

(* An address in the table is refused exactly as long as the interval lasts. *)
LEMMA LimitImplies == LimitInv => LimitHeld /\ RefusedInTime
<1> SUFFICES ASSUME LimitInv, NEW ip \in Addresses
             PROVE  /\ (last[ip] > 0 /\ uptime - last[ip] < min_status_interval)
                         => Refused(ip) \/ Overrun(ip)
                    /\ Refused(ip) => last[ip] # Never
                                        /\ uptime - last[ip] < min_status_interval
  BY Zenon DEF LimitHeld, RefusedInTime
<1>1. ASSUME NEW k \in Records, IsRecord(k, ip)
      PROVE  g_status_records[k].timestamp = last[ip] /\ last[ip] \in Nat
  <2>1. g_status_records[k].timestamp = last[ip]
    BY <1>1, StatusAssumption, Zenon DEF LimitInv, IsRecord
  <2> QED
    BY <2>1, RecordTypes, Zenon DEF LimitInv, TypeOK
<1> QED
  BY <1>1 DEF LimitInv, Known, Refused, TooSoon, Never

(* The limit of allow_status_request holds: an address allowed less than an
   interval ago, and not in the first second, is refused unless as many others
   as there are records were allowed in the same second or later. *)
THEOREM LimitSafety == Spec => []LimitHeld
BY LimitInit, LimitNext, LimitImplies, PTL DEF Spec

(* allow_status_request refuses nobody whose last allowed request is an
   interval or more ago. *)
THEOREM RefusalSafety == Spec => []RefusedInTime
BY LimitInit, LimitNext, LimitImplies, PTL DEF Spec

-----------------------------------------------------------------------------
(* The cache *)

(* How far the wall clock is ahead of the uptime, the begun second counted. *)
Skew == wall - Epoch - uptime + (IF half THEN 1 ELSE 0)

(* The cache is filled or never refreshed; the skew is 0 or 1 and, while nobody
   sets the clock, does not change, so that the refresh is dated within a second
   on both clocks. *)
CacheInv ==
    /\ TypeOK
    /\ wall >= min_status_interval
    /\ refreshed = Never => g_last_status_refresh = 0
    /\ refreshed # Never => g_status_string # ""
    /\ ~clockSet => Skew \in {0, 1}
    /\ ~clockSet /\ refreshed # Never
         => g_last_status_refresh - Epoch - refreshed \in {Skew - 1, Skew}
    /\ StatusIsCurrent

(* It holds of the empty cache, which is too old whatever the time is. *)
LEMMA CacheInit == Init => CacheInv
<1> SUFFICES ASSUME Init PROVE CacheInv
  BY Zenon
<1>1. /\ wall = Epoch /\ uptime = 0 /\ g_last_status_refresh = 0
      /\ refreshed = Never /\ reply = "none"
  BY Zenon DEF Init
<1>2. wall >= min_status_interval
  BY <1>1, StatusAssumption, Zenon
<1>3. Skew \in {0, 1}
  BY <1>1, StatusAssumption DEF Skew
<1>4. StatusIsCurrent
  BY <1>1, Zenon DEF StatusIsCurrent
<1> QED
  BY <1>1, <1>2, <1>3, <1>4, InitType, Zenon DEF CacheInv

(* Every step keeps it. *)
LEMMA CacheNext == CacheInv /\ [Next]_vars => CacheInv'
<1> SUFFICES ASSUME CacheInv, [Next]_vars PROVE CacheInv'
  BY Zenon
<1>1. TypeOK /\ TypeOK'
  BY NextType, Zenon DEF CacheInv
<1> USE StatusAssumption
<1>2. CASE Tick
  <2>1. /\ cacheVars' = cacheVars /\ clockSet' = clockSet /\ reply' = "none"
        /\ wall' >= wall /\ Skew' = Skew
    <3>1. cacheVars' = cacheVars /\ clockSet' = clockSet /\ reply' = "none"
      BY <1>2, Zenon DEF Tick, cacheVars
    <3>2. \/ half /\ ~half' /\ wall' = wall + 1 /\ uptime' = uptime
          \/ ~half /\ half' /\ wall' = wall /\ uptime' = uptime + 1
      BY <1>2, Zenon DEF Tick
    <3> QED
      BY <3>1, <3>2, <1>1, NumberTypes DEF Skew
  <2>2. wall' >= min_status_interval
    <3>1. wall \in Nat /\ wall' \in Nat /\ wall >= min_status_interval
      BY <1>1, NumberTypes, Zenon DEF CacheInv, TypeOK
    <3> QED
      BY <2>1, <3>1
  <2>3. StatusIsCurrent'
    BY <2>1, Zenon DEF StatusIsCurrent
  <2> HIDE DEF Skew
  <2> QED
    BY <1>1, <2>1, <2>2, <2>3, Zenon DEF CacheInv, cacheVars
<1>3. CASE SetClock
  <2>1. /\ clockSet' = TRUE /\ reply' = "none" /\ cacheVars' = cacheVars
        /\ wall' \in min_status_interval .. Epoch + MaxUptime
    BY <1>3, Zenon DEF SetClock, cacheVars
  <2>2. wall' >= min_status_interval
    BY <2>1
  <2>3. StatusIsCurrent'
    BY <2>1, Zenon DEF StatusIsCurrent
  <2> QED
    BY <1>1, <2>1, <2>2, <2>3, Zenon DEF CacheInv, cacheVars
<1>4. ASSUME NEW ip \in Addresses, ProcessStatusRequest(ip) PROVE CacheInv'
  <2>1. Skew' = Skew /\ wall' = wall /\ uptime' = uptime /\ clockSet' = clockSet
    BY <1>4, Zenon DEF ProcessStatusRequest, clockVars, Skew
  <2>2. CASE cacheVars' = cacheVars /\ reply' \notin {"cached", "fresh"}
    BY <1>1, <2>1, <2>2, Zenon DEF CacheInv, cacheVars, StatusIsCurrent
  <2>3. CASE ~StatusIsOld /\ cacheVars' = cacheVars
    <3>1. refreshed # Never
      <4>1. wall \in Nat /\ wall >= min_status_interval
        BY <1>1, NumberTypes, Zenon DEF CacheInv
      <4>2. ~(wall - g_last_status_refresh >= min_status_interval)
        BY <2>3, Zenon DEF StatusIsOld
      <4>3. g_last_status_refresh # 0
        BY <4>1, <4>2
      <4> QED
        BY <4>3, Zenon DEF CacheInv
    <3>2. clockSet \/ uptime - refreshed <= min_status_interval
      <4> SUFFICES ASSUME ~clockSet PROVE uptime - refreshed <= min_status_interval
        BY Zenon
      <4>1. g_last_status_refresh - Epoch - refreshed \in {Skew - 1, Skew}
        BY <3>1, Zenon DEF CacheInv
      <4>2. ~(wall - g_last_status_refresh >= min_status_interval)
        BY <2>3, Zenon DEF StatusIsOld
      <4> QED
        BY <4>1, <4>2, <1>1, NumberTypes DEF Skew
    <3> QED
      BY <1>1, <2>1, <2>3, <3>1, <3>2, Zenon DEF CacheInv, cacheVars, StatusIsCurrent
  <2>4. CASE \E world \in {"world", "no world"} : Refresh(world)
    <3>1. /\ g_status_string' # "" /\ refreshed' = uptime /\ refreshed' # Never
          /\ g_last_status_refresh' = wall
      <4>1. uptime # Never
        BY <1>1, NumberTypes DEF Never
      <4> QED
        BY <2>4, <4>1, Zenon DEF Refresh
    <3>2. wall - Epoch - uptime \in {Skew - 1, Skew}
      BY <1>1, NumberTypes DEF Skew
    <3>3. uptime' - refreshed' <= min_status_interval
      <4>1. uptime - uptime <= min_status_interval
        BY <1>1, NumberTypes, StatusAssumption
      <4> QED
        BY <2>1, <3>1, <4>1, Zenon
    <3> QED
      BY <1>1, <2>1, <3>1, <3>2, <3>3, Zenon DEF CacheInv, StatusIsCurrent
  <2> QED
    BY <1>4, <2>2, <2>3, <2>4, Zenon DEF ProcessStatusRequest, GetStatusString
<1>5. CASE UNCHANGED vars
  BY <1>1, <1>5, Zenon DEF vars, cacheVars, clockVars, CacheInv, Skew, StatusIsCurrent
<1> QED
  BY <1>2, <1>3, <1>4, <1>5, Zenon DEF Next

(* A step that refreshes the cache comes an interval after the last refresh. *)
LEMMA RefreshStep ==
    ASSUME CacheInv, [Next]_vars, vars' # vars,
           reply' = "fresh", refreshed # Never, ~clockSet
    PROVE  uptime - refreshed >= min_status_interval - 1
<1>1. StatusIsOld
  BY Zenon DEF Next, Tick, SetClock, ProcessStatusRequest, GetStatusString
<1>2. wall - g_last_status_refresh >= min_status_interval
  BY <1>1, Zenon DEF StatusIsOld
<1>3. g_last_status_refresh - Epoch - refreshed \in {Skew - 1, Skew}
  BY Zenon DEF CacheInv
<1>4. TypeOK
  BY Zenon DEF CacheInv
<1> QED
  BY <1>2, <1>3, <1>4, StatusAssumption, NumberTypes DEF Skew

(* Every status answer that get_status_string gives is filled and, on an
   undisturbed clock, at most an interval old. *)
THEOREM StatusSafety == Spec => []StatusIsCurrent
<1>1. CacheInv => StatusIsCurrent
  BY Zenon DEF CacheInv
<1> QED
  BY CacheInit, CacheNext, <1>1, PTL DEF Spec

(* get_status_string does not ask the query manager again before the interval
   is over, whether it answered or not. *)
THEOREM QueryRateSafety == Spec => QueryRateHeld
<1>1. CacheInv /\ [Next]_vars
        => [(reply' = "fresh" /\ refreshed # Never /\ ~clockSet)
              => uptime - refreshed >= min_status_interval - 1]_vars
  BY RefreshStep, Zenon
<1> QED
  BY CacheInit, CacheNext, <1>1, PTL DEF Spec, QueryRateHeld

-----------------------------------------------------------------------------
(* main                                                                    *)

\* What atexit holds once everything is registered
Registered == IF Tcp THEN QueryThenConnections ELSE QueryOnly

Early == {"signals", "config", "atexit", "query"}
Running == {"loop", "stop"}

\* The type invariant, in four parts
NameTypes ==
    /\ pc \in Stages
    /\ mode \in Modes
    /\ handlers \in {<<>>, QueryOnly, QueryThenConnections}
    /\ query_client \in {"null", "created", "connected"}
    /\ thread \in ThreadStages
    /\ exit_code \in {"none", "success", "failure"}

SetTypes == tcp \in SUBSET Parts /\ connections \in SUBSET Slots /\ workers \in SUBSET Workers

CountTypes == handled \in 0 .. 3 /\ (pc = "signals" => handled < 3)

FlagTypes == g_ShutdownSignal \in BOOLEAN /\ WsRsaKey \in BOOLEAN

\* Which parts exist, stage by stage
StageInv ==
    /\ pc \in Early => query_client = "null" /\ tcp = {}
    /\ pc \in {"connect", "connections"} => tcp = {}
    /\ pc \in {"connections", "websocket", "bind", "stop after failure"} \cup Running =>
         query_client = "connected"
    /\ pc \in {"websocket", "bind", "stop after failure"} \cup Running =>
         tcp = (IF Tcp THEN Parts ELSE {})
    /\ pc \in {"websocket", "bind", "stop", "stop after failure"} => WebSocket
    /\ pc = "connections" => Tcp
    /\ pc \in Early \cup {"connect", "connections", "websocket", "bind", "stop after failure"} =>
         connections = {}

\* Who would give the rest back
HandlerInv ==
    /\ pc \in {"signals", "config", "atexit"} => handlers = <<>>
    /\ pc \in {"query", "connect", "connections", "websocket", "bind", "stop after failure"} \cup Running =>
         handlers = Registered
    /\ pc \in {"exit", "gone"} =>
         /\ tcp # {} => handlers = QueryThenConnections
         /\ query_client # "null" => handlers # <<>>
    /\ pc = "gone" => handlers = <<>>

\* The thread and the key of the WebSocket acceptor
ThreadInv ==
    /\ pc \in Early \cup {"connect", "connections", "websocket"} =>
         thread = "none" /\ WsRsaKey = FALSE
    /\ pc = "bind" => thread \in {"starting", "running", "unbound", "ended"} /\ WsRsaKey = TRUE
    /\ pc = "loop" => IF WebSocket THEN thread = "running" /\ WsRsaKey = TRUE
                      ELSE thread = "none" /\ WsRsaKey = FALSE
    /\ pc \in Stopping => thread \in {"running", "unbound", "closing", "ended", "joined"} /\ WsRsaKey = TRUE
    /\ pc \in {"exit", "gone"} => WsRsaKey = FALSE
    /\ workers # {} => WsRsaKey = TRUE

CodeInv ==
    /\ pc \in {"exit", "gone"} => exit_code # "none"
    /\ exit_code = "success" => g_ShutdownSignal = TRUE
    /\ pc = "stop" => g_ShutdownSignal = TRUE
    /\ pc \notin {"exit", "gone", "killed"} => exit_code = "none"
    /\ pc # "terminated"

IInv ==
    /\ NameTypes /\ SetTypes /\ CountTypes /\ FlagTypes
    /\ StageInv /\ HandlerInv /\ ThreadInv /\ CodeInv
    /\ ThreadsGoneFirst /\ ServedWithResources

USE DEF Goes, Stopping, Parts, Modes

\* What is needed of the two lists of handlers, and what is left without their last
LEMMA HandlerFacts ==
    /\ QueryThenConnections # QueryOnly
    /\ QueryOnly # <<>> /\ QueryThenConnections # <<>>
    /\ QueryOnly[Len(QueryOnly)] = "exit_query"
    /\ QueryThenConnections[Len(QueryThenConnections)] = "exit_connections"
    /\ SubSeq(QueryOnly, 1, Len(QueryOnly) - 1) = <<>>
    /\ SubSeq(QueryThenConnections, 1, Len(QueryThenConnections) - 1) = QueryOnly
<1>1. Len(QueryOnly) = 1 /\ Len(QueryThenConnections) = 2
  BY Zenon DEF QueryOnly, QueryThenConnections
<1>2. QueryOnly # <<>> /\ QueryThenConnections # <<>>
  BY Zenon DEF QueryOnly, QueryThenConnections
<1>3. QueryThenConnections # QueryOnly
  BY Zenon DEF QueryOnly, QueryThenConnections
<1>4. SubSeq(QueryOnly, 1, 0) = <<>>
  BY DEF QueryOnly
<1>5. SubSeq(QueryThenConnections, 1, 1) = QueryOnly
  <2>1. QueryThenConnections[1] \in {"exit_query"}
    BY Zenon DEF QueryThenConnections
  <2>5. QueryOnly \in Seq({"exit_query"})
    BY DEF QueryOnly
  <2>2. /\ SubSeq(QueryThenConnections, 1, 1) \in Seq({"exit_query"})
        /\ Len(SubSeq(QueryThenConnections, 1, 1)) = 1
        /\ SubSeq(QueryThenConnections, 1, 1)[1] = QueryThenConnections[1]
    BY <1>1, <2>1, SubSeqProperties
  <2>3. QueryThenConnections[1] = QueryOnly[1]
    BY Zenon DEF QueryOnly, QueryThenConnections
  <2>6. QED
    BY <1>1, <2>5, <2>2, <2>3, SeqEqual
<1>6. QueryOnly[1] = "exit_query" /\ QueryThenConnections[2] = "exit_connections"
  BY Zenon DEF QueryOnly, QueryThenConnections
<1>7. QED
  BY <1>1, <1>2, <1>3, <1>4, <1>5, <1>6

LEMMA InitIInv == MainInit => IInv
<1> SUFFICES ASSUME MainInit PROVE IInv
  BY Zenon
<1>1. NameTypes
  BY Zenon DEF MainInit, NameTypes, Stages, ThreadStages
<1>5. SetTypes
  BY Zenon DEF MainInit, SetTypes
<1>6. CountTypes
  BY DEF MainInit, CountTypes
<1>7. FlagTypes
  BY Zenon DEF MainInit, FlagTypes
<1>2. StageInv /\ HandlerInv /\ CodeInv
  BY Zenon DEF MainInit, StageInv, HandlerInv, CodeInv, Early, Running
<1>3. ThreadInv /\ ThreadsGoneFirst /\ ServedWithResources
  BY Zenon DEF MainInit, ThreadInv, ThreadsGoneFirst, ServedWithResources, Early
<1>8. QED
  BY <1>1, <1>2, <1>3, <1>5, <1>6, <1>7, Zenon DEF IInv

LEMMA NextIInv == IInv /\ [MainNext]_mainVars => IInv'
<1> SUFFICES ASSUME IInv, [MainNext]_mainVars PROVE IInv'
  BY Zenon
<1> USE DEF IInv
<1>1. CASE InstallHandler
  <2>1. HandlerInv'
    BY <1>1, Zenon DEF InstallHandler, frontVars, wsVars, NameTypes, Stages, ThreadStages, StageInv, HandlerInv, Registered, Early, Running, Tcp
  <2>2. NameTypes'
    BY <1>1, ZenonT(60) DEF InstallHandler, frontVars, wsVars, NameTypes, Stages, ThreadStages
  <2>3. StageInv'
    BY <1>1, Zenon DEF InstallHandler, frontVars, wsVars, NameTypes, Stages, ThreadStages, StageInv, Early, Running, Tcp, WebSocket
  <2>4. ThreadInv'
    BY <1>1, Zenon DEF InstallHandler, frontVars, wsVars, NameTypes, Stages, ThreadStages, ThreadInv, StageInv, ThreadsGoneFirst, Early, Running, WebSocket, Tcp
  <2>5. CodeInv'
    BY <1>1, Zenon DEF InstallHandler, frontVars, wsVars, NameTypes, Stages, ThreadStages, CodeInv, ThreadsGoneFirst
  <2>6. ThreadsGoneFirst'
    BY <1>1, Zenon DEF InstallHandler, frontVars, wsVars, NameTypes, Stages, ThreadStages, ThreadInv, ThreadsGoneFirst, Early
  <2>7. ServedWithResources'
    BY <1>1, Zenon DEF InstallHandler, frontVars, wsVars, NameTypes, Stages, ThreadStages, StageInv, ThreadInv, ServedWithResources, Early, Running, ThreadsGoneFirst
  <2>8. SetTypes'
    BY <1>1, Zenon DEF InstallHandler, frontVars, wsVars, SetTypes
  <2>9. CountTypes'
    BY <1>1 DEF InstallHandler, frontVars, wsVars, CountTypes
  <2>10. FlagTypes'
    BY <1>1, Zenon DEF InstallHandler, frontVars, wsVars, FlagTypes
  <2>11. QED
    BY <2>1, <2>2, <2>3, <2>4, <2>5, <2>6, <2>7, <2>8, <2>9, <2>10, Zenon
<1>2. CASE ReadConfig
  <2>1. HandlerInv'
    BY <1>2, Zenon DEF ReadConfig, frontVars, wsVars, NameTypes, Stages, ThreadStages, StageInv, HandlerInv, Registered, Early, Running, Tcp
  <2>2. NameTypes'
    BY <1>2, ZenonT(60) DEF ReadConfig, frontVars, wsVars, NameTypes, Stages, ThreadStages
  <2>3. StageInv'
    BY <1>2, Zenon DEF ReadConfig, frontVars, wsVars, NameTypes, Stages, ThreadStages, StageInv, Early, Running, Tcp, WebSocket
  <2>4. ThreadInv'
    BY <1>2, Zenon DEF ReadConfig, frontVars, wsVars, NameTypes, Stages, ThreadStages, ThreadInv, StageInv, ThreadsGoneFirst, Early, Running, WebSocket, Tcp
  <2>5. CodeInv'
    BY <1>2, Zenon DEF ReadConfig, frontVars, wsVars, NameTypes, Stages, ThreadStages, CodeInv, ThreadsGoneFirst
  <2>6. ThreadsGoneFirst'
    BY <1>2, Zenon DEF ReadConfig, frontVars, wsVars, NameTypes, Stages, ThreadStages, ThreadInv, ThreadsGoneFirst, Early
  <2>7. ServedWithResources'
    BY <1>2, Zenon DEF ReadConfig, frontVars, wsVars, NameTypes, Stages, ThreadStages, StageInv, ThreadInv, ServedWithResources, Early, Running, ThreadsGoneFirst
  <2>8. SetTypes'
    BY <1>2, Zenon DEF ReadConfig, frontVars, wsVars, SetTypes
  <2>9. CountTypes'
    BY <1>2, Zenon DEF ReadConfig, frontVars, wsVars, CountTypes
  <2>10. FlagTypes'
    BY <1>2, Zenon DEF ReadConfig, frontVars, wsVars, FlagTypes
  <2>11. QED
    BY <2>1, <2>2, <2>3, <2>4, <2>5, <2>6, <2>7, <2>8, <2>9, <2>10, Zenon
<1>3. CASE RegisterExits
  <2>1. HandlerInv'
    BY <1>3, Zenon DEF RegisterExits, frontVars, wsVars, NameTypes, Stages, ThreadStages, StageInv, HandlerInv, Registered, Early, Running, Tcp
  <2>2. NameTypes'
    BY <1>3, Zenon DEF RegisterExits, frontVars, wsVars, NameTypes, Stages, ThreadStages
  <2>3. StageInv'
    BY <1>3, Zenon DEF RegisterExits, frontVars, wsVars, NameTypes, Stages, ThreadStages, StageInv, Early, Running, Tcp, WebSocket
  <2>4. ThreadInv'
    BY <1>3, Zenon DEF RegisterExits, frontVars, wsVars, NameTypes, Stages, ThreadStages, ThreadInv, StageInv, ThreadsGoneFirst, Early, Running, WebSocket, Tcp
  <2>5. CodeInv'
    BY <1>3, Zenon DEF RegisterExits, frontVars, wsVars, NameTypes, Stages, ThreadStages, CodeInv, ThreadsGoneFirst
  <2>6. ThreadsGoneFirst'
    BY <1>3, Zenon DEF RegisterExits, frontVars, wsVars, NameTypes, Stages, ThreadStages, ThreadInv, ThreadsGoneFirst, Early
  <2>7. ServedWithResources'
    BY <1>3, Zenon DEF RegisterExits, frontVars, wsVars, NameTypes, Stages, ThreadStages, StageInv, ThreadInv, ServedWithResources, Early, Running, ThreadsGoneFirst
  <2>8. SetTypes'
    BY <1>3, Zenon DEF RegisterExits, frontVars, wsVars, SetTypes
  <2>9. CountTypes'
    BY <1>3, Zenon DEF RegisterExits, frontVars, wsVars, CountTypes
  <2>10. FlagTypes'
    BY <1>3, Zenon DEF RegisterExits, frontVars, wsVars, FlagTypes
  <2>11. QED
    BY <2>1, <2>2, <2>3, <2>4, <2>5, <2>6, <2>7, <2>8, <2>9, <2>10, Zenon
<1>4. CASE CreateClient
  <2>1. HandlerInv'
    BY <1>4, Zenon DEF CreateClient, frontVars, wsVars, NameTypes, Stages, ThreadStages, StageInv, HandlerInv, Registered, Early, Running, Tcp
  <2>2. NameTypes'
    BY <1>4, Zenon DEF CreateClient, frontVars, wsVars, NameTypes, Stages, ThreadStages
  <2>3. StageInv'
    BY <1>4, Zenon DEF CreateClient, frontVars, wsVars, NameTypes, Stages, ThreadStages, StageInv, Early, Running, Tcp, WebSocket
  <2>4. ThreadInv'
    BY <1>4, Zenon DEF CreateClient, frontVars, wsVars, NameTypes, Stages, ThreadStages, ThreadInv, StageInv, ThreadsGoneFirst, Early, Running, WebSocket, Tcp
  <2>5. CodeInv'
    BY <1>4, Zenon DEF CreateClient, frontVars, wsVars, NameTypes, Stages, ThreadStages, CodeInv, ThreadsGoneFirst
  <2>6. ThreadsGoneFirst'
    BY <1>4, Zenon DEF CreateClient, frontVars, wsVars, NameTypes, Stages, ThreadStages, ThreadInv, ThreadsGoneFirst, Early
  <2>7. ServedWithResources'
    BY <1>4, Zenon DEF CreateClient, frontVars, wsVars, NameTypes, Stages, ThreadStages, StageInv, ThreadInv, ServedWithResources, Early, Running, ThreadsGoneFirst
  <2>8. SetTypes'
    BY <1>4, Zenon DEF CreateClient, frontVars, wsVars, SetTypes
  <2>9. CountTypes'
    BY <1>4, Zenon DEF CreateClient, frontVars, wsVars, CountTypes
  <2>10. FlagTypes'
    BY <1>4, Zenon DEF CreateClient, frontVars, wsVars, FlagTypes
  <2>11. QED
    BY <2>1, <2>2, <2>3, <2>4, <2>5, <2>6, <2>7, <2>8, <2>9, <2>10, Zenon
<1>5. CASE Connect
  <2>1. HandlerInv'
    BY <1>5, HandlerFacts, Zenon DEF Connect, frontVars, wsVars, NameTypes, Stages, ThreadStages, StageInv, HandlerInv, Registered, Early, Running, Tcp
  <2>2. NameTypes'
    BY <1>5, ZenonT(60) DEF Connect, frontVars, wsVars, NameTypes, Stages, ThreadStages
  <2>3. StageInv'
    BY <1>5, Zenon DEF Connect, frontVars, wsVars, NameTypes, Stages, ThreadStages, StageInv, Early, Running, Tcp, WebSocket
  <2>4. ThreadInv'
    BY <1>5, Zenon DEF Connect, frontVars, wsVars, NameTypes, Stages, ThreadStages, ThreadInv, StageInv, ThreadsGoneFirst, Early, Running, WebSocket, Tcp
  <2>5. CodeInv'
    BY <1>5, Zenon DEF Connect, frontVars, wsVars, NameTypes, Stages, ThreadStages, CodeInv, ThreadsGoneFirst
  <2>6. ThreadsGoneFirst'
    BY <1>5, Zenon DEF Connect, frontVars, wsVars, NameTypes, Stages, ThreadStages, ThreadInv, ThreadsGoneFirst, Early
  <2>7. ServedWithResources'
    BY <1>5, Zenon DEF Connect, frontVars, wsVars, NameTypes, Stages, ThreadStages, StageInv, ThreadInv, ServedWithResources, Early, Running, ThreadsGoneFirst
  <2>8. SetTypes'
    BY <1>5, Zenon DEF Connect, frontVars, wsVars, SetTypes
  <2>9. CountTypes'
    BY <1>5, Zenon DEF Connect, frontVars, wsVars, CountTypes
  <2>10. FlagTypes'
    BY <1>5, Zenon DEF Connect, frontVars, wsVars, FlagTypes
  <2>11. QED
    BY <2>1, <2>2, <2>3, <2>4, <2>5, <2>6, <2>7, <2>8, <2>9, <2>10, Zenon
<1>6. CASE InitConnections
  <2>1. HandlerInv'
    BY <1>6, HandlerFacts, Zenon DEF InitConnections, frontVars, wsVars, NameTypes, Stages, ThreadStages, StageInv, HandlerInv, Registered, Early, Running, Tcp
  <2>2. NameTypes'
    BY <1>6, ZenonT(60) DEF InitConnections, frontVars, wsVars, NameTypes, Stages, ThreadStages
  <2>3. StageInv'
    BY <1>6, Zenon DEF InitConnections, frontVars, wsVars, NameTypes, Stages, ThreadStages, StageInv, Early, Running, Tcp, WebSocket
  <2>4. ThreadInv'
    BY <1>6, Zenon DEF InitConnections, frontVars, wsVars, NameTypes, Stages, ThreadStages, ThreadInv, StageInv, ThreadsGoneFirst, Early, Running, WebSocket, Tcp
  <2>5. CodeInv'
    BY <1>6, Zenon DEF InitConnections, frontVars, wsVars, NameTypes, Stages, ThreadStages, CodeInv, ThreadsGoneFirst
  <2>6. ThreadsGoneFirst'
    BY <1>6, Zenon DEF InitConnections, frontVars, wsVars, NameTypes, Stages, ThreadStages, ThreadInv, ThreadsGoneFirst, Early
  <2>7. ServedWithResources'
    BY <1>6, Zenon DEF InitConnections, frontVars, wsVars, NameTypes, Stages, ThreadStages, StageInv, ThreadInv, ServedWithResources, Early, Running, ThreadsGoneFirst
  <2>8. SetTypes'
    BY <1>6, Zenon DEF InitConnections, frontVars, wsVars, SetTypes
  <2>9. CountTypes'
    BY <1>6, Zenon DEF InitConnections, frontVars, wsVars, CountTypes
  <2>10. FlagTypes'
    BY <1>6, Zenon DEF InitConnections, frontVars, wsVars, FlagTypes
  <2>11. QED
    BY <2>1, <2>2, <2>3, <2>4, <2>5, <2>6, <2>7, <2>8, <2>9, <2>10, Zenon
<1>7. CASE StartAcceptor
  <2>1. HandlerInv'
    BY <1>7, HandlerFacts, Zenon DEF StartAcceptor, frontVars, wsVars, NameTypes, Stages, ThreadStages, StageInv, HandlerInv, Registered, Early, Running, Tcp
  <2>2. NameTypes'
    BY <1>7, Zenon DEF StartAcceptor, frontVars, wsVars, NameTypes, Stages, ThreadStages
  <2>3. StageInv'
    BY <1>7, Zenon DEF StartAcceptor, frontVars, wsVars, NameTypes, Stages, ThreadStages, StageInv, Early, Running, Tcp, WebSocket
  <2>4. ThreadInv'
    BY <1>7, Zenon DEF StartAcceptor, frontVars, wsVars, NameTypes, Stages, ThreadStages, ThreadInv, StageInv, ThreadsGoneFirst, Early, Running, WebSocket, Tcp
  <2>5. CodeInv'
    BY <1>7, Zenon DEF StartAcceptor, frontVars, wsVars, NameTypes, Stages, ThreadStages, CodeInv, ThreadsGoneFirst
  <2>6. ThreadsGoneFirst'
    BY <1>7, Zenon DEF StartAcceptor, frontVars, wsVars, NameTypes, Stages, ThreadStages, ThreadInv, ThreadsGoneFirst, Early
  <2>7. ServedWithResources'
    BY <1>7, Zenon DEF StartAcceptor, frontVars, wsVars, NameTypes, Stages, ThreadStages, StageInv, ThreadInv, ServedWithResources, Early, Running, ThreadsGoneFirst
  <2>8. SetTypes'
    BY <1>7, Zenon DEF StartAcceptor, frontVars, wsVars, SetTypes
  <2>9. CountTypes'
    BY <1>7, Zenon DEF StartAcceptor, frontVars, wsVars, CountTypes
  <2>10. FlagTypes'
    BY <1>7, Zenon DEF StartAcceptor, frontVars, wsVars, FlagTypes
  <2>11. QED
    BY <2>1, <2>2, <2>3, <2>4, <2>5, <2>6, <2>7, <2>8, <2>9, <2>10, Zenon
<1>8. CASE AwaitBind
  <2>1. HandlerInv'
    BY <1>8, Zenon DEF AwaitBind, frontVars, wsVars, NameTypes, Stages, ThreadStages, StageInv, HandlerInv, Registered, Early, Running, Tcp
  <2>2. NameTypes'
    BY <1>8, ZenonT(60) DEF AwaitBind, frontVars, wsVars, NameTypes, Stages, ThreadStages
  <2>3. StageInv'
    BY <1>8, Zenon DEF AwaitBind, frontVars, wsVars, NameTypes, Stages, ThreadStages, StageInv, Early, Running, Tcp, WebSocket
  <2>4. ThreadInv'
    BY <1>8, Zenon DEF AwaitBind, frontVars, wsVars, NameTypes, Stages, ThreadStages, ThreadInv, StageInv, ThreadsGoneFirst, Early, Running, WebSocket, Tcp
  <2>5. CodeInv'
    BY <1>8, Zenon DEF AwaitBind, frontVars, wsVars, NameTypes, Stages, ThreadStages, CodeInv, ThreadsGoneFirst
  <2>6. ThreadsGoneFirst'
    BY <1>8, Zenon DEF AwaitBind, frontVars, wsVars, NameTypes, Stages, ThreadStages, ThreadInv, ThreadsGoneFirst, Early
  <2>7. ServedWithResources'
    BY <1>8, Zenon DEF AwaitBind, frontVars, wsVars, NameTypes, Stages, ThreadStages, StageInv, ThreadInv, ServedWithResources, Early, Running, ThreadsGoneFirst
  <2>8. SetTypes'
    BY <1>8, Zenon DEF AwaitBind, frontVars, wsVars, SetTypes
  <2>9. CountTypes'
    BY <1>8, Zenon DEF AwaitBind, frontVars, wsVars, CountTypes
  <2>10. FlagTypes'
    BY <1>8, Zenon DEF AwaitBind, frontVars, wsVars, FlagTypes
  <2>11. QED
    BY <2>1, <2>2, <2>3, <2>4, <2>5, <2>6, <2>7, <2>8, <2>9, <2>10, Zenon
<1>9. CASE LeaveLoop
  <2>1. HandlerInv'
    BY <1>9, HandlerFacts, Zenon DEF LeaveLoop, frontVars, wsVars, NameTypes, Stages, ThreadStages, StageInv, HandlerInv, Registered, Early, Running, Tcp
  <2>2. NameTypes'
    BY <1>9, ZenonT(60) DEF LeaveLoop, frontVars, wsVars, NameTypes, Stages, ThreadStages
  <2>3. StageInv'
    BY <1>9, Zenon DEF LeaveLoop, frontVars, wsVars, NameTypes, Stages, ThreadStages, StageInv, Early, Running, Tcp, WebSocket
  <2>4. ThreadInv'
    BY <1>9, ZenonT(60) DEF LeaveLoop, frontVars, wsVars, NameTypes, Stages, ThreadStages, ThreadInv, StageInv, ThreadsGoneFirst, Early, Running, WebSocket, Tcp
  <2>5. CodeInv'
    BY <1>9, Zenon DEF LeaveLoop, frontVars, wsVars, NameTypes, Stages, ThreadStages, CodeInv, ThreadsGoneFirst
  <2>6. ThreadsGoneFirst'
    BY <1>9, Zenon DEF LeaveLoop, frontVars, wsVars, NameTypes, Stages, ThreadStages, ThreadInv, ThreadsGoneFirst, Early
  <2>7. ServedWithResources'
    BY <1>9, Zenon DEF LeaveLoop, frontVars, wsVars, NameTypes, Stages, ThreadStages, StageInv, ThreadInv, ServedWithResources, Early, Running, ThreadsGoneFirst
  <2>8. SetTypes'
    BY <1>9, Zenon DEF LeaveLoop, frontVars, wsVars, SetTypes
  <2>9. CountTypes'
    BY <1>9, Zenon DEF LeaveLoop, frontVars, wsVars, CountTypes
  <2>10. FlagTypes'
    BY <1>9, Zenon DEF LeaveLoop, frontVars, wsVars, FlagTypes
  <2>11. QED
    BY <2>1, <2>2, <2>3, <2>4, <2>5, <2>6, <2>7, <2>8, <2>9, <2>10, Zenon
<1>10. CASE DeferShutdown
  <2>1. HandlerInv'
    BY <1>10, Zenon DEF DeferShutdown, frontVars, wsVars, NameTypes, Stages, ThreadStages, StageInv, HandlerInv, Registered, Early, Running, Tcp
  <2>2. NameTypes'
    BY <1>10, Zenon DEF DeferShutdown, frontVars, wsVars, NameTypes, Stages, ThreadStages
  <2>3. StageInv'
    BY <1>10, Zenon DEF DeferShutdown, frontVars, wsVars, NameTypes, Stages, ThreadStages, StageInv, Early, Running, Tcp, WebSocket
  <2>4. ThreadInv'
    BY <1>10, Zenon DEF DeferShutdown, frontVars, wsVars, NameTypes, Stages, ThreadStages, ThreadInv, StageInv, ThreadsGoneFirst, Early, Running, WebSocket, Tcp
  <2>5. CodeInv'
    BY <1>10, Zenon DEF DeferShutdown, frontVars, wsVars, NameTypes, Stages, ThreadStages, CodeInv, ThreadsGoneFirst
  <2>6. ThreadsGoneFirst'
    BY <1>10, Zenon DEF DeferShutdown, frontVars, wsVars, NameTypes, Stages, ThreadStages, ThreadInv, ThreadsGoneFirst, Early
  <2>7. ServedWithResources'
    BY <1>10, Zenon DEF DeferShutdown, frontVars, wsVars, NameTypes, Stages, ThreadStages, StageInv, ThreadInv, ServedWithResources, Early, Running, ThreadsGoneFirst
  <2>8. SetTypes'
    BY <1>10, Zenon DEF DeferShutdown, frontVars, wsVars, SetTypes
  <2>9. CountTypes'
    BY <1>10, Zenon DEF DeferShutdown, frontVars, wsVars, CountTypes
  <2>10. FlagTypes'
    BY <1>10, Zenon DEF DeferShutdown, frontVars, wsVars, FlagTypes
  <2>11. QED
    BY <2>1, <2>2, <2>3, <2>4, <2>5, <2>6, <2>7, <2>8, <2>9, <2>10, Zenon
<1>11. CASE JoinThread
  <2>1. HandlerInv'
    BY <1>11, Zenon DEF JoinThread, frontVars, wsVars, NameTypes, Stages, ThreadStages, StageInv, HandlerInv, Registered, Early, Running, Tcp
  <2>2. NameTypes'
    BY <1>11, Zenon DEF JoinThread, frontVars, wsVars, NameTypes, Stages, ThreadStages
  <2>3. StageInv'
    BY <1>11, Zenon DEF JoinThread, frontVars, wsVars, NameTypes, Stages, ThreadStages, StageInv, Early, Running, Tcp, WebSocket
  <2>4. ThreadInv'
    BY <1>11, Zenon DEF JoinThread, frontVars, wsVars, NameTypes, Stages, ThreadStages, ThreadInv, StageInv, ThreadsGoneFirst, Early, Running, WebSocket, Tcp
  <2>5. CodeInv'
    BY <1>11, Zenon DEF JoinThread, frontVars, wsVars, NameTypes, Stages, ThreadStages, CodeInv, ThreadsGoneFirst
  <2>6. ThreadsGoneFirst'
    BY <1>11, Zenon DEF JoinThread, frontVars, wsVars, NameTypes, Stages, ThreadStages, ThreadInv, ThreadsGoneFirst, Early
  <2>7. ServedWithResources'
    BY <1>11, Zenon DEF JoinThread, frontVars, wsVars, NameTypes, Stages, ThreadStages, StageInv, ThreadInv, ServedWithResources, Early, Running, ThreadsGoneFirst
  <2>8. SetTypes'
    BY <1>11, Zenon DEF JoinThread, frontVars, wsVars, SetTypes
  <2>9. CountTypes'
    BY <1>11, Zenon DEF JoinThread, frontVars, wsVars, CountTypes
  <2>10. FlagTypes'
    BY <1>11, Zenon DEF JoinThread, frontVars, wsVars, FlagTypes
  <2>11. QED
    BY <2>1, <2>2, <2>3, <2>4, <2>5, <2>6, <2>7, <2>8, <2>9, <2>10, Zenon
<1>12. CASE DrainWorkers
  <2>1. HandlerInv'
    BY <1>12, HandlerFacts, Zenon DEF DrainWorkers, frontVars, wsVars, NameTypes, Stages, ThreadStages, StageInv, HandlerInv, Registered, Early, Running, Tcp
  <2>2. NameTypes'
    BY <1>12, Zenon DEF DrainWorkers, frontVars, wsVars, NameTypes, Stages, ThreadStages
  <2>3. StageInv'
    BY <1>12, Zenon DEF DrainWorkers, frontVars, wsVars, NameTypes, Stages, ThreadStages, StageInv, Early, Running, Tcp, WebSocket
  <2>4. ThreadInv'
    BY <1>12, Zenon DEF DrainWorkers, frontVars, wsVars, NameTypes, Stages, ThreadStages, ThreadInv, StageInv, ThreadsGoneFirst, Early, Running, WebSocket, Tcp
  <2>5. CodeInv'
    BY <1>12, Zenon DEF DrainWorkers, frontVars, wsVars, NameTypes, Stages, ThreadStages, CodeInv, ThreadsGoneFirst
  <2>6. ThreadsGoneFirst'
    BY <1>12, Zenon DEF DrainWorkers, frontVars, wsVars, NameTypes, Stages, ThreadStages, ThreadInv, ThreadsGoneFirst, Early
  <2>7. ServedWithResources'
    BY <1>12, Zenon DEF DrainWorkers, frontVars, wsVars, NameTypes, Stages, ThreadStages, StageInv, ThreadInv, ServedWithResources, Early, Running, ThreadsGoneFirst
  <2>8. SetTypes'
    BY <1>12, Zenon DEF DrainWorkers, frontVars, wsVars, SetTypes
  <2>9. CountTypes'
    BY <1>12, Zenon DEF DrainWorkers, frontVars, wsVars, CountTypes
  <2>10. FlagTypes'
    BY <1>12, Zenon DEF DrainWorkers, frontVars, wsVars, FlagTypes
  <2>11. QED
    BY <2>1, <2>2, <2>3, <2>4, <2>5, <2>6, <2>7, <2>8, <2>9, <2>10, Zenon
<1>13. CASE RunExitHandler
  <2>1. HandlerInv'
    BY <1>13, HandlerFacts, Zenon DEF RunExitHandler, frontVars, wsVars, NameTypes, Stages, ThreadStages, StageInv, HandlerInv, Registered, Early, Running, Tcp
  <2>2. NameTypes'
    BY <1>13, HandlerFacts, Zenon DEF RunExitHandler, frontVars, wsVars, NameTypes, Stages, ThreadStages, HandlerInv
  <2>3. StageInv'
    BY <1>13, Zenon DEF RunExitHandler, frontVars, wsVars, NameTypes, Stages, ThreadStages, StageInv, Early, Running, Tcp, WebSocket
  <2>4. ThreadInv'
    BY <1>13, Zenon DEF RunExitHandler, frontVars, wsVars, NameTypes, Stages, ThreadStages, ThreadInv, StageInv, ThreadsGoneFirst, Early, Running, WebSocket, Tcp
  <2>5. CodeInv'
    BY <1>13, Zenon DEF RunExitHandler, frontVars, wsVars, NameTypes, Stages, ThreadStages, CodeInv, ThreadsGoneFirst
  <2>6. ThreadsGoneFirst'
    BY <1>13, Zenon DEF RunExitHandler, frontVars, wsVars, NameTypes, Stages, ThreadStages, ThreadInv, ThreadsGoneFirst, Early
  <2>7. ServedWithResources'
    BY <1>13, HandlerFacts, Zenon DEF RunExitHandler, frontVars, wsVars, NameTypes, Stages, ThreadStages, StageInv, ThreadInv, ServedWithResources, Early, Running, ThreadsGoneFirst, HandlerInv
  <2>8. SetTypes'
    BY <1>13, Zenon DEF RunExitHandler, frontVars, wsVars, SetTypes
  <2>9. CountTypes'
    BY <1>13, Zenon DEF RunExitHandler, frontVars, wsVars, CountTypes
  <2>10. FlagTypes'
    BY <1>13, Zenon DEF RunExitHandler, frontVars, wsVars, FlagTypes
  <2>11. QED
    BY <2>1, <2>2, <2>3, <2>4, <2>5, <2>6, <2>7, <2>8, <2>9, <2>10, Zenon
<1>14. CASE Destroy
  <2>1. HandlerInv'
    BY <1>14, Zenon DEF Destroy, frontVars, wsVars, NameTypes, Stages, ThreadStages, StageInv, HandlerInv, Registered, Early, Running, Tcp
  <2>2. NameTypes'
    BY <1>14, Zenon DEF Destroy, frontVars, wsVars, NameTypes, Stages, ThreadStages
  <2>3. StageInv'
    BY <1>14, Zenon DEF Destroy, frontVars, wsVars, NameTypes, Stages, ThreadStages, StageInv, Early, Running, Tcp, WebSocket
  <2>4. ThreadInv'
    BY <1>14, Zenon DEF Destroy, frontVars, wsVars, NameTypes, Stages, ThreadStages, ThreadInv, StageInv, ThreadsGoneFirst, Early, Running, WebSocket, Tcp
  <2>5. CodeInv'
    BY <1>14, Zenon DEF Destroy, frontVars, wsVars, NameTypes, Stages, ThreadStages, CodeInv, ThreadsGoneFirst
  <2>6. ThreadsGoneFirst'
    BY <1>14, Zenon DEF Destroy, frontVars, wsVars, NameTypes, Stages, ThreadStages, ThreadInv, ThreadsGoneFirst, Early
  <2>7. ServedWithResources'
    BY <1>14, Zenon DEF Destroy, frontVars, wsVars, NameTypes, Stages, ThreadStages, StageInv, ThreadInv, ServedWithResources, Early, Running, ThreadsGoneFirst
  <2>8. SetTypes'
    BY <1>14, Zenon DEF Destroy, frontVars, wsVars, SetTypes
  <2>9. CountTypes'
    BY <1>14, Zenon DEF Destroy, frontVars, wsVars, CountTypes
  <2>10. FlagTypes'
    BY <1>14, Zenon DEF Destroy, frontVars, wsVars, FlagTypes
  <2>11. QED
    BY <2>1, <2>2, <2>3, <2>4, <2>5, <2>6, <2>7, <2>8, <2>9, <2>10, Zenon
<1>15. CASE ProcessConnections
  <2>1. HandlerInv'
    BY <1>15, Zenon DEF ProcessConnections, frontVars, wsVars, NameTypes, Stages, ThreadStages, StageInv, HandlerInv, Registered, Early, Running, Tcp
  <2>2. NameTypes'
    BY <1>15, ZenonT(60) DEF ProcessConnections, frontVars, wsVars, NameTypes, Stages, ThreadStages
  <2>3. StageInv'
    BY <1>15, Zenon DEF ProcessConnections, frontVars, wsVars, NameTypes, Stages, ThreadStages, StageInv, Early, Running, Tcp, WebSocket
  <2>4. ThreadInv'
    BY <1>15, Zenon DEF ProcessConnections, frontVars, wsVars, NameTypes, Stages, ThreadStages, ThreadInv, StageInv, ThreadsGoneFirst, Early, Running, WebSocket, Tcp
  <2>5. CodeInv'
    BY <1>15, Zenon DEF ProcessConnections, frontVars, wsVars, NameTypes, Stages, ThreadStages, CodeInv, ThreadsGoneFirst
  <2>6. ThreadsGoneFirst'
    BY <1>15, Zenon DEF ProcessConnections, frontVars, wsVars, NameTypes, Stages, ThreadStages, ThreadInv, ThreadsGoneFirst, Early
  <2>7. ServedWithResources'
    BY <1>15, Zenon DEF ProcessConnections, frontVars, wsVars, NameTypes, Stages, ThreadStages, StageInv, ThreadInv, ServedWithResources, Early, Running, ThreadsGoneFirst
  <2>8. SetTypes'
    BY <1>15, Zenon DEF ProcessConnections, frontVars, wsVars, SetTypes
  <2>9. CountTypes'
    BY <1>15, Zenon DEF ProcessConnections, frontVars, wsVars, CountTypes
  <2>10. FlagTypes'
    BY <1>15, Zenon DEF ProcessConnections, frontVars, wsVars, FlagTypes
  <2>11. QED
    BY <2>1, <2>2, <2>3, <2>4, <2>5, <2>6, <2>7, <2>8, <2>9, <2>10, Zenon
<1>16. CASE Signal
  <2>1. HandlerInv'
    BY <1>16, Zenon DEF Signal, frontVars, wsVars, NameTypes, Stages, ThreadStages, StageInv, HandlerInv, Registered, Early, Running, Tcp
  <2>2. NameTypes'
    BY <1>16, ZenonT(60) DEF Signal, frontVars, wsVars, NameTypes, Stages, ThreadStages
  <2>3. StageInv'
    BY <1>16, Zenon DEF Signal, frontVars, wsVars, NameTypes, Stages, ThreadStages, StageInv, Early, Running, Tcp, WebSocket
  <2>4. ThreadInv'
    BY <1>16, Zenon DEF Signal, frontVars, wsVars, NameTypes, Stages, ThreadStages, ThreadInv, StageInv, ThreadsGoneFirst, Early, Running, WebSocket, Tcp
  <2>5. CodeInv'
    BY <1>16, Zenon DEF Signal, frontVars, wsVars, NameTypes, Stages, ThreadStages, CodeInv, ThreadsGoneFirst
  <2>6. ThreadsGoneFirst'
    BY <1>16, Zenon DEF Signal, frontVars, wsVars, NameTypes, Stages, ThreadStages, ThreadInv, ThreadsGoneFirst, Early
  <2>7. ServedWithResources'
    BY <1>16, Zenon DEF Signal, frontVars, wsVars, NameTypes, Stages, ThreadStages, StageInv, ThreadInv, ServedWithResources, Early, Running, ThreadsGoneFirst
  <2>8. SetTypes'
    BY <1>16, Zenon DEF Signal, frontVars, wsVars, SetTypes
  <2>9. CountTypes'
    BY <1>16, Zenon DEF Signal, frontVars, wsVars, CountTypes
  <2>10. FlagTypes'
    BY <1>16, Zenon DEF Signal, frontVars, wsVars, FlagTypes
  <2>11. QED
    BY <2>1, <2>2, <2>3, <2>4, <2>5, <2>6, <2>7, <2>8, <2>9, <2>10, Zenon
<1>17. CASE ThreadStep
  <2>1. HandlerInv'
    BY <1>17, Zenon DEF ThreadStep, frontVars, wsVars, NameTypes, Stages, ThreadStages, StageInv, HandlerInv, Registered, Early, Running, Tcp
  <2>2. NameTypes'
    BY <1>17, ZenonT(60) DEF ThreadStep, frontVars, wsVars, NameTypes, Stages, ThreadStages
  <2>3. StageInv'
    BY <1>17, Zenon DEF ThreadStep, frontVars, wsVars, NameTypes, Stages, ThreadStages, StageInv, Early, Running, Tcp, WebSocket
  <2>4. ThreadInv'
    BY <1>17, Zenon DEF ThreadStep, frontVars, wsVars, NameTypes, Stages, ThreadStages, ThreadInv, StageInv, ThreadsGoneFirst, Early, Running, WebSocket, Tcp
  <2>5. CodeInv'
    BY <1>17, Zenon DEF ThreadStep, frontVars, wsVars, NameTypes, Stages, ThreadStages, CodeInv, ThreadsGoneFirst
  <2>6. ThreadsGoneFirst'
    BY <1>17, Zenon DEF ThreadStep, frontVars, wsVars, NameTypes, Stages, ThreadStages, ThreadInv, ThreadsGoneFirst, Early
  <2>7. ServedWithResources'
    BY <1>17, Zenon DEF ThreadStep, frontVars, wsVars, NameTypes, Stages, ThreadStages, StageInv, ThreadInv, ServedWithResources, Early, Running, ThreadsGoneFirst
  <2>8. SetTypes'
    BY <1>17, Zenon DEF ThreadStep, frontVars, wsVars, SetTypes
  <2>9. CountTypes'
    BY <1>17, Zenon DEF ThreadStep, frontVars, wsVars, CountTypes
  <2>10. FlagTypes'
    BY <1>17, Zenon DEF ThreadStep, frontVars, wsVars, FlagTypes
  <2>11. QED
    BY <2>1, <2>2, <2>3, <2>4, <2>5, <2>6, <2>7, <2>8, <2>9, <2>10, Zenon
<1>18. ASSUME NEW w \in Workers, Alive, BeginWorker(w) PROVE IInv'
  <2>1. HandlerInv'
    BY <1>18, Zenon DEF BeginWorker, Alive, frontVars, wsVars, NameTypes, Stages, ThreadStages, StageInv, HandlerInv, Registered, Early, Running, Tcp
  <2>2. NameTypes'
    BY <1>18, ZenonT(60) DEF BeginWorker, Alive, frontVars, wsVars, NameTypes, Stages, ThreadStages
  <2>3. StageInv'
    BY <1>18, Zenon DEF BeginWorker, Alive, frontVars, wsVars, NameTypes, Stages, ThreadStages, StageInv, Early, Running, Tcp, WebSocket
  <2>4. ThreadInv'
    BY <1>18, Zenon DEF BeginWorker, Alive, frontVars, wsVars, NameTypes, Stages, ThreadStages, ThreadInv, StageInv, ThreadsGoneFirst, Early, Running, WebSocket, Tcp
  <2>5. CodeInv'
    BY <1>18, Zenon DEF BeginWorker, Alive, frontVars, wsVars, NameTypes, Stages, ThreadStages, CodeInv, ThreadsGoneFirst
  <2>6. ThreadsGoneFirst'
    BY <1>18, Zenon DEF BeginWorker, Alive, frontVars, wsVars, NameTypes, Stages, ThreadStages, ThreadInv, ThreadsGoneFirst, Early
  <2>7. ServedWithResources'
    BY <1>18, Zenon DEF BeginWorker, Alive, frontVars, wsVars, NameTypes, Stages, ThreadStages, StageInv, ThreadInv, ServedWithResources, Early, Running, ThreadsGoneFirst
  <2>8. SetTypes'
    BY <1>18, Zenon DEF BeginWorker, Alive, frontVars, wsVars, SetTypes
  <2>9. CountTypes'
    BY <1>18, Zenon DEF BeginWorker, Alive, frontVars, wsVars, CountTypes
  <2>10. FlagTypes'
    BY <1>18, Zenon DEF BeginWorker, Alive, frontVars, wsVars, FlagTypes
  <2>11. QED
    BY <2>1, <2>2, <2>3, <2>4, <2>5, <2>6, <2>7, <2>8, <2>9, <2>10, Zenon
<1>19. ASSUME NEW w \in Workers, Alive, EndWorker(w) PROVE IInv'
  <2>0. pc' = pc /\ mode' = mode /\ handlers' = handlers /\ query_client' = query_client
        /\ thread' = thread /\ exit_code' = exit_code
    BY <1>19, Zenon DEF EndWorker, wsVars
  <2>1. HandlerInv'
    BY <1>19, Zenon DEF EndWorker, Alive, frontVars, wsVars, NameTypes, Stages, ThreadStages, StageInv, HandlerInv, Registered, Early, Running, Tcp
  <2>2. NameTypes'
    BY <2>0, Zenon DEF NameTypes
  <2>3. StageInv'
    BY <1>19, Zenon DEF EndWorker, Alive, frontVars, wsVars, NameTypes, Stages, ThreadStages, StageInv, Early, Running, Tcp, WebSocket
  <2>4. ThreadInv'
    BY <1>19, Zenon DEF EndWorker, Alive, frontVars, wsVars, NameTypes, Stages, ThreadStages, ThreadInv, StageInv, ThreadsGoneFirst, Early, Running, WebSocket, Tcp
  <2>5. CodeInv'
    BY <1>19, Zenon DEF EndWorker, Alive, frontVars, wsVars, NameTypes, Stages, ThreadStages, CodeInv, ThreadsGoneFirst
  <2>6. ThreadsGoneFirst'
    BY <1>19, Zenon DEF EndWorker, Alive, frontVars, wsVars, NameTypes, Stages, ThreadStages, ThreadInv, ThreadsGoneFirst, Early
  <2>7. ServedWithResources'
    BY <1>19, Zenon DEF EndWorker, Alive, frontVars, wsVars, NameTypes, Stages, ThreadStages, StageInv, ThreadInv, ServedWithResources, Early, Running, ThreadsGoneFirst
  <2>8. SetTypes'
    BY <1>19, Zenon DEF EndWorker, Alive, frontVars, wsVars, SetTypes
  <2>9. CountTypes'
    BY <1>19, Zenon DEF EndWorker, Alive, frontVars, wsVars, CountTypes
  <2>10. FlagTypes'
    BY <1>19, Zenon DEF EndWorker, Alive, frontVars, wsVars, FlagTypes
  <2>11. QED
    BY <2>1, <2>2, <2>3, <2>4, <2>5, <2>6, <2>7, <2>8, <2>9, <2>10, Zenon
<1>20. CASE UNCHANGED mainVars
  <2>0. pc' = pc /\ mode' = mode /\ handlers' = handlers /\ query_client' = query_client
        /\ thread' = thread /\ exit_code' = exit_code
    BY <1>20, Zenon DEF mainVars, wsVars
  <2>1. HandlerInv'
    BY <1>20, Zenon DEF mainVars, frontVars, wsVars, NameTypes, Stages, ThreadStages, StageInv, HandlerInv, Registered, Early, Running, Tcp
  <2>2. NameTypes'
    BY <2>0, Zenon DEF NameTypes
  <2>3. StageInv'
    BY <1>20, Zenon DEF mainVars, frontVars, wsVars, NameTypes, Stages, ThreadStages, StageInv, Early, Running, Tcp, WebSocket
  <2>4. ThreadInv'
    BY <1>20, ZenonT(60) DEF mainVars, frontVars, wsVars, NameTypes, Stages, ThreadStages, ThreadInv, StageInv, ThreadsGoneFirst, Early, Running, WebSocket, Tcp
  <2>5. CodeInv'
    BY <1>20, Zenon DEF mainVars, frontVars, wsVars, NameTypes, Stages, ThreadStages, CodeInv, ThreadsGoneFirst
  <2>6. ThreadsGoneFirst'
    BY <1>20, Zenon DEF mainVars, frontVars, wsVars, NameTypes, Stages, ThreadStages, ThreadInv, ThreadsGoneFirst, Early
  <2>7. ServedWithResources'
    BY <1>20, Zenon DEF mainVars, frontVars, wsVars, NameTypes, Stages, ThreadStages, StageInv, ThreadInv, ServedWithResources, Early, Running, ThreadsGoneFirst
  <2>8. SetTypes'
    BY <1>20, Zenon DEF mainVars, frontVars, wsVars, SetTypes
  <2>9. CountTypes'
    BY <1>20, Zenon DEF mainVars, frontVars, wsVars, CountTypes
  <2>10. FlagTypes'
    BY <1>20, Zenon DEF mainVars, frontVars, wsVars, FlagTypes
  <2>11. QED
    BY <2>1, <2>2, <2>3, <2>4, <2>5, <2>6, <2>7, <2>8, <2>9, <2>10, Zenon
<1>21. QED
  BY <1>1, <1>2, <1>3, <1>4, <1>5, <1>6, <1>7, <1>8, <1>9, <1>10, <1>11, <1>12, <1>13, <1>14, <1>15, <1>16, <1>17, <1>18, <1>19, <1>20, Zenon DEF MainNext, MainStep

LEMMA IInvHolds == MainSpec => []IInv
BY InitIInv, NextIInv, PTL DEF MainSpec

\* The state of the process keeps its type.
THEOREM LifecycleTypeCorrect == MainSpec => []MainTypeOK
<1>1. IInv => MainTypeOK
  BY Zenon DEF IInv, NameTypes, SetTypes, CountTypes, FlagTypes, MainTypeOK
<1>2. QED
  BY <1>1, IInvHolds, PTL

\* While main is in its loop, exactly the parts of its transport mode are up.
THEOREM ServesItsModeHolds == MainSpec => []ServesItsMode
<1>1. IInv => ServesItsMode
  BY Zenon DEF IInv, NameTypes, Stages, ThreadStages, StageInv, ThreadInv, ServesItsMode, Running, Tcp, WebSocket
<1>2. QED
  BY <1>1, IInvHolds, PTL

\* No thread of the acceptor is left when main returns, on whichever way.
THEOREM ThreadsGoneFirstHolds == MainSpec => []ThreadsGoneFirst
BY IInvHolds, PTL DEF IInv

\* Clients are served only while key, tables and query client exist.
THEOREM ServedWithResourcesHolds == MainSpec => []ServedWithResources
BY IInvHolds, PTL DEF IInv

\* A process that ends by itself leaves nothing, whichever start step failed.
THEOREM NothingLeftHolds == MainSpec => []NothingLeft
<1>1. IInv => NothingLeft
  BY HandlerFacts, Zenon DEF IInv, NameTypes, Stages, ThreadStages, HandlerInv, ThreadInv, CodeInv, ServedWithResources, NothingLeft
<1>2. QED
  BY <1>1, IInvHolds, PTL

=============================================================================
