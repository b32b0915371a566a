-------------------------- MODULE QueryClientProofs -------------------------
(***************************************************************************)
(* Machine-checked proofs about QueryClient, for any number of queries and *)
(* connections: its invariants, and that it implements QueryService.       *)
(***************************************************************************)
EXTENDS QueryClient, FiniteSetTheorems, SequenceTheorems, TLAPS

-----------------------------------------------------------------------------
(* The inductive invariant                                                 *)

Exchange == {"write", "size", "extended", "body"}

\* the message whose response execute_query waits for
Awaited == IF handshake THEN LoginQuery ELSE query

\* What the program counter says of the client's own variables.
ControlInv ==
    /\ pc \in Exchange => socket_ # -1
    /\ pc \in {"new", "connect", "gone"} => socket_ = -1
    /\ handshake => pc \in Exchange
    /\ pc = "new" => query = 0
    /\ query = 0 => outcome = NoResponse
    /\ query = 0 /\ pc \in Exchange => handshake
    /\ pc \notin {"idle", "gone"} => buffer = query

\* A connection never has more than one request on its way, and what is known
\* of a response is also known to the query manager.
QueueInv ==
    \A c \in Connections :
      /\ c > made => ~broken[c] /\ requests[c] = <<>> /\ replies[c] = <<>>
      /\ Len(requests[c]) <= 1
      /\ requests[c] # <<>> => /\ requests[c][1] \in 0 .. query
                               /\ requests[c][1] = LoginQuery \/ authed[c]
      /\ \A i \in 1 .. Len(replies[c]) :
           /\ replies[c][i].of \in Queries => executed[replies[c][i].of] > 0
           /\ replies[c][i].of = LoginQuery /\ replies[c][i].val = "Ok" => authed[c]

\* What may be left of a response when its body, its extended size or its size is
\* read next.
BodyLeft(s) ==
    Len(s) <= 1 /\ (Len(s) = 1 => s[1].val \in Statuses)

ExtendedLeft(s) ==
    /\ Len(s) <= 2
    /\ Len(s) >= 1 => s[1].val \in {"fits", "bad"}
    /\ Len(s) = 2 => s[2].val \in Statuses

SizeLeft(s) ==
    /\ Len(s) <= 3
    /\ Len(s) >= 1 => s[1].val \in Sizes
    /\ Len(s) >= 1 /\ s[1].val # "extended" =>
         Len(s) <= 2 /\ (Len(s) = 2 => s[2].val \in Statuses)
    /\ Len(s) >= 1 /\ s[1].val = "extended" =>
         /\ Len(s) >= 2 => s[2].val \in {"fits", "bad"}
         /\ Len(s) = 3 => s[3].val \in Statuses

\* The connection in use carries the message that is waited for and its response,
\* and nothing of an earlier one.
LineInv ==
    socket_ # -1 =>
      /\ ~handshake => authed[socket_]
      /\ \A i \in 1 .. Len(replies[socket_]) : replies[socket_][i].of = Awaited
      /\ pc \in {"write", "idle"} => requests[socket_] = <<>> /\ replies[socket_] = <<>>
      /\ pc = "size" /\ requests[socket_] # <<>> =>
           requests[socket_][1] = Awaited /\ replies[socket_] = <<>>
      /\ pc \in {"extended", "body"} => requests[socket_] = <<>>
      /\ pc = "size" => SizeLeft(replies[socket_])
      /\ pc = "extended" => ExtendedLeft(replies[socket_])
      /\ pc = "body" => BodyLeft(replies[socket_])

\* The connections on which a query is still on its way
Pending(q) == {c \in Connections : requests[c] # <<>> /\ requests[c][1] = q}

\* How often a query has been written so far
Written(q) ==
    IF q > query THEN 0
    ELSE IF q < query THEN max_attempts
    ELSE IF pc \in {"connect", "write"} \/ handshake THEN attempt - 1 ELSE attempt

CountInv == \A q \in Queries : executed[q] + Cardinality(Pending(q)) <= Written(q)

\* What a query returned
ResultInv ==
    pc = "idle" /\ outcome # NoResponse =>
      /\ query \in Queries /\ executed[query] > 0
      /\ outcome.of = query /\ outcome.status \in Statuses

\* While nothing goes wrong, the connection in use works, or it was lost before the
\* query was asked and a second attempt is still to come.
FaultInv ==
    ~disturbed /\ query > 0 =>
      /\ pc = "idle" => outcome # NoResponse
      /\ pc \in Exchange =>
           /\ broken[socket_] =>
                /\ attempt = 1 /\ ~handshake /\ pc \in {"write", "size"}
                /\ requests[socket_] = <<>> /\ replies[socket_] = <<>>
           /\ \A i \in 1 .. Len(replies[socket_]) :
                /\ replies[socket_][i].val # "bad"
                /\ handshake /\ replies[socket_][i].val \in Statuses
                     => replies[socket_][i].val = "Ok"

IInv ==
    /\ TypeOK /\ ControlInv /\ QueueInv /\ LineInv
    /\ CountInv /\ ResultInv /\ FaultInv

-----------------------------------------------------------------------------
(* Sequences and single actions                                            *)

(* A sequence with room for one element. *)
LEMMA SingleFacts ==
  ASSUME NEW S, NEW s \in Seq(S), s # <<>>, Len(s) <= 1
  PROVE  Head(s) = s[1] /\ s[1] \in S /\ Tail(s) = <<>>
<1>1. Len(s) = 1
  <2>1. Len(s) \in Nat \ {0}
    BY EmptySeq, Zenon
  <2> QED
    BY <2>1
<1>2. Tail(s) \in Seq(S) /\ Len(Tail(s)) = 0
  BY <1>1, HeadTailProperties
<1>3. Tail(s) = <<>>
  BY <1>2, EmptySeq, Zenon
<1>4. s[1] \in S
  BY <1>1, ElementOfSeq
<1> QED
  BY <1>1, <1>3, <1>4

(* Taking the next part of a response away leaves the others in order. *)
LEMMA ReadFacts ==
  ASSUME TypeOK, socket_ \in Connections, NEW part, Read(part)
  PROVE  /\ Len(replies[socket_]) >= 1
         /\ part = replies[socket_][1]
         /\ replies' \in [Connections -> Seq(PartObject)]
         /\ Len(replies'[socket_]) = Len(replies[socket_]) - 1
         /\ \A i \in 1 .. Len(replies'[socket_]) :
              replies'[socket_][i] = replies[socket_][i + 1]
         /\ \A c \in Connections \ {socket_} : replies'[c] = replies[c]
         /\ part \in PartObject
<1> DEFINE s == replies[socket_]
<1>1. s \in Seq(PartObject) /\ s # <<>>
  BY Zenon DEF TypeOK, Read
<1>2. Len(s) >= 1 /\ Head(s) = s[1] /\ s[1] \in PartObject
  BY <1>1
<1>3. /\ Tail(s) \in Seq(PartObject) /\ Len(Tail(s)) = Len(s) - 1
      /\ \A i \in 1 .. Len(Tail(s)) : Tail(s)[i] = s[i + 1]
  BY <1>1
<1>4. replies' = [replies EXCEPT ![socket_] = Tail(s)]
  BY Zenon DEF Read
<1>5. replies'[socket_] = Tail(s) /\ \A c \in Connections \ {socket_} : replies'[c] = replies[c]
  BY <1>4, Zenon DEF TypeOK
<1>6. replies' \in [Connections -> Seq(PartObject)]
  BY <1>3, <1>4, Zenon DEF TypeOK
<1>7. part = s[1]
  BY <1>2, Zenon DEF Read
<1> HIDE DEF s
<1> QED
  BY <1>2, <1>3, <1>5, <1>6, <1>7, Zenon DEF s

(* A message that is written is the only one on its way. *)
LEMMA WriteFacts ==
  ASSUME TypeOK, socket_ \in Connections, WriteRequest,
         requests[socket_] = <<>>, buffer \in Messages
  PROVE  /\ requests' \in [Connections -> Seq(Messages)]
         /\ Len(requests'[socket_]) <= 1
         /\ requests'[socket_] # <<>> =>
              /\ ~broken[socket_]
              /\ requests'[socket_][1] = IF handshake THEN LoginQuery ELSE buffer
         /\ \A c \in Connections \ {socket_} : requests'[c] = requests[c]
<1> DEFINE m == IF handshake THEN LoginQuery ELSE buffer
<1>1. m \in Messages
  BY Zenon DEF Messages
<1> HIDE DEF m
<1>2. /\ Append(<<>>, m) \in Seq(Messages) /\ Len(Append(<<>>, m)) = 1
      /\ Append(<<>>, m)[1] = m
  BY <1>1
<1>3. CASE broken[socket_]
  <2>1. requests' = requests
    BY <1>3, Zenon DEF WriteRequest
  <2> QED
    BY <2>1 DEF TypeOK
<1>4. CASE ~broken[socket_]
  <2>1. requests' = [requests EXCEPT ![socket_] = Append(<<>>, m)]
    BY <1>4, Zenon DEF WriteRequest, m
  <2>2. requests'[socket_] = Append(<<>>, m)
    BY <2>1, Zenon DEF TypeOK
  <2>3. requests' \in [Connections -> Seq(Messages)]
    BY <1>2, <2>1, Zenon DEF TypeOK
  <2>4. \A c \in Connections \ {socket_} : requests'[c] = requests[c]
    BY <2>1, Zenon DEF TypeOK
  <2> QED
    BY <1>2, <1>4, <2>2, <2>3, <2>4 DEF m
<1> QED
  BY <1>3, <1>4, Zenon

(* A response has its size first, then perhaps an extended one, then its status, and
   all its parts belong to the request. *)
LEMMA ResponseFacts ==
  ASSUME NEW q \in Messages, NEW status \in Statuses, NEW r \in Response(q, status)
  PROVE  /\ r \in Seq(PartObject) /\ SizeLeft(r) /\ Len(r) >= 2
         /\ \A i \in 1 .. Len(r) : r[i].of = q
         /\ \A i \in 1 .. Len(r) : r[i].val \in Statuses => r[i].val = status
         /\ ~Unusable(q, status, r) => \A i \in 1 .. Len(r) : r[i].val # "bad"
<1> DEFINE A == Part(q, "fits")  B == Part(q, "bad")  E == Part(q, "extended")
           S == Part(q, status)
<1>1. /\ A \in PartObject /\ A.of = q /\ A.val = "fits"
      /\ B \in PartObject /\ B.of = q /\ B.val = "bad"
      /\ E \in PartObject /\ E.of = q /\ E.val = "extended"
      /\ S \in PartObject /\ S.of = q /\ S.val = status
  BY Zenon DEF Part, PartObject, Sizes
<1>2. r \in {<<A, S>>, <<B, S>>, <<E, A, S>>, <<E, B, S>>}
  BY Zenon DEF Response
<1>3. (\A i \in DOMAIN r : r[i].val # "bad") \/ Unusable(q, status, r)
  BY Zenon DEF Unusable
<1> HIDE DEF A, B, E, S
<1>4. CASE r = <<A, S>>
  BY <1>1, <1>3, <1>4 DEF SizeLeft, Sizes, Statuses
<1>5. CASE r = <<B, S>>
  BY <1>1, <1>3, <1>5 DEF SizeLeft, Sizes, Statuses
<1>6. CASE r = <<E, A, S>>
  BY <1>1, <1>3, <1>6 DEF SizeLeft, Sizes, Statuses
<1>7. CASE r = <<E, B, S>>
  BY <1>1, <1>3, <1>7 DEF SizeLeft, Sizes, Statuses
<1> QED
  BY <1>2, <1>4, <1>5, <1>6, <1>7, Zenon

(* Carrying out a request takes it off its connection and adds its response there,
   unless the connection is broken. *)
LEMMA ServeFacts ==
  ASSUME TypeOK, QueueInv, NEW c \in Connections, Serve(c)
  PROVE  \E q \in Messages, status \in Statuses : \E r \in Response(q, status) :
           /\ requests[c] # <<>> /\ q = requests[c][1]
           /\ requests' \in [Connections -> Seq(Messages)] /\ requests'[c] = <<>>
           /\ replies' \in [Connections -> Seq(PartObject)]
           /\ broken[c] => replies' = replies
           /\ ~broken[c] =>
                /\ Len(replies'[c]) = Len(replies[c]) + Len(r)
                /\ \A i \in 1 .. Len(replies[c]) : replies'[c][i] = replies[c][i]
                /\ \A i \in 1 .. Len(r) : replies'[c][Len(replies[c]) + i] = r[i]
                /\ replies[c] = <<>> => replies'[c] = r
           /\ \A d \in Connections \ {c} : requests'[d] = requests[d] /\ replies'[d] = replies[d]
           /\ authed' = [authed EXCEPT ![c] = @ \/ (q = LoginQuery /\ status = "Ok")]
           /\ executed' = IF q \in Queries THEN [executed EXCEPT ![q] = @ + 1] ELSE executed
           /\ disturbed' = (disturbed \/ (c = socket_ /\ Unusable(q, status, r)))
<1> DEFINE q == Head(requests[c])
<1>1. requests[c] # <<>> /\ requests[c] \in Seq(Messages) /\ Len(requests[c]) <= 1
  BY Zenon DEF Serve, TypeOK, QueueInv
<1>2. /\ q = requests[c][1] /\ q \in Messages
      /\ Tail(requests[c]) = <<>>
  BY <1>1, SingleFacts, Zenon
<1> DEFINE Step(status, r) ==
      /\ requests' = [requests EXCEPT ![c] = Tail(@)]
      /\ replies' = IF broken[c] THEN replies ELSE [replies EXCEPT ![c] = @ \o r]
      /\ authed' = [authed EXCEPT ![c] = @ \/ (q = LoginQuery /\ status = "Ok")]
      /\ executed' = IF q \in Queries THEN [executed EXCEPT ![q] = @ + 1] ELSE executed
      /\ disturbed' = (disturbed \/ (c = socket_ /\ Unusable(q, status, r)))
<1>a. PICK status \in Statuses : \E r \in Response(q, status) : Step(status, r)
  BY Zenon DEF Serve
<1>3. PICK r \in Response(q, status) : Step(status, r)
  BY <1>a, Zenon
<1> HIDE DEF q
<1>4. /\ requests' \in [Connections -> Seq(Messages)] /\ requests'[c] = <<>>
      /\ \A d \in Connections \ {c} : requests'[d] = requests[d]
  <2>1. requests' = [requests EXCEPT ![c] = <<>>] /\ <<>> \in Seq(Messages)
    BY <1>2, <1>3, EmptySeq, Zenon
  <2> QED
    BY <2>1, Zenon DEF TypeOK
<1>5. r \in Seq(PartObject)
  BY <1>2, ResponseFacts, Zenon
<1>6. CASE broken[c]
  <2>1. replies' = replies
    BY <1>3, <1>6, Zenon
  <2> QED
    BY <1>1, <1>2, <1>3, <1>4, <1>6, <2>1, Zenon DEF TypeOK
<1>7. CASE ~broken[c]
  <2> DEFINE s == replies[c]
  <2>1. s \in Seq(PartObject)
    BY Zenon DEF TypeOK
  <2> HIDE DEF s
  <2>2. /\ s \o r \in Seq(PartObject) /\ Len(s \o r) = Len(s) + Len(r)
        /\ \A i \in 1 .. Len(s) : (s \o r)[i] = s[i]
        /\ \A i \in 1 .. Len(r) : (s \o r)[Len(s) + i] = r[i]
    BY <1>5, <2>1
  <2>3. s = <<>> => s \o r = r
    BY <1>5, <2>1
  <2>4. replies' = [replies EXCEPT ![c] = s \o r]
    BY <1>3, <1>7, Zenon DEF s
  <2>5. /\ replies' \in [Connections -> Seq(PartObject)] /\ replies'[c] = s \o r
        /\ \A d \in Connections \ {c} : replies'[d] = replies[d]
    BY <2>2, <2>4, Zenon DEF TypeOK
  <2>6. /\ Len(replies'[c]) = Len(replies[c]) + Len(r)
        /\ \A i \in 1 .. Len(replies[c]) : replies'[c][i] = replies[c][i]
        /\ \A i \in 1 .. Len(r) : replies'[c][Len(replies[c]) + i] = r[i]
        /\ replies[c] = <<>> => replies'[c] = r
    BY <2>2, <2>3, <2>5, Zenon DEF s
  <2> QED
    BY <1>1, <1>2, <1>3, <1>4, <1>7, <2>5, <2>6, Zenon
<1> QED
  BY <1>6, <1>7, Zenon

(* A break cuts the response of its connection short, and perhaps its request. *)
LEMMA BreakFacts ==
  ASSUME TypeOK, NEW c \in Connections, Break(c)
  PROVE  /\ requests' \in [Connections -> Seq(Messages)]
         /\ replies' \in [Connections -> Seq(PartObject)]
         /\ \A d \in Connections : requests'[d] \in {requests[d], <<>>}
         /\ Len(replies'[c]) <= Len(replies[c])
         /\ \A i \in 1 .. Len(replies'[c]) : replies'[c][i] = replies[c][i]
         /\ \A d \in Connections \ {c} : replies'[d] = replies[d]
         /\ broken' \in [Connections -> BOOLEAN]
         /\ \A d \in Connections \ {c} : broken'[d] = broken[d]
<1>1. PICK n \in 0 .. Len(replies[c]) : replies' = [replies EXCEPT ![c] = SubSeq(@, 1, n)]
  BY Zenon DEF Break
<1> DEFINE s == replies[c]
<1>2. s \in Seq(PartObject)
  BY Zenon DEF TypeOK
<1>3. n \in Nat /\ n <= Len(s)
  BY <1>1, <1>2
<1>4. replies' = [replies EXCEPT ![c] = SubSeq(s, 1, n)]
  BY <1>1, Zenon
<1> HIDE DEF s
<1>5. /\ SubSeq(s, 1, n) \in Seq(PartObject) /\ Len(SubSeq(s, 1, n)) = n
      /\ \A i \in 1 .. n : SubSeq(s, 1, n)[i] = s[i]
  BY <1>2, <1>3
<1>6. /\ replies' \in [Connections -> Seq(PartObject)] /\ replies'[c] = SubSeq(s, 1, n)
      /\ \A d \in Connections \ {c} : replies'[d] = replies[d]
  BY <1>4, <1>5, Zenon DEF TypeOK
<1>7. /\ requests' \in [Connections -> Seq(Messages)]
      /\ \A d \in Connections : requests'[d] \in {requests[d], <<>>}
  <2>1. <<>> \in Seq(Messages)
    OBVIOUS
  <2>2. CASE requests' = requests
    BY <2>2, Zenon DEF TypeOK
  <2>3. CASE requests' = [requests EXCEPT ![c] = <<>>]
    BY <2>1, <2>3, Zenon DEF TypeOK
  <2> QED
    BY <2>2, <2>3, Zenon DEF Break
<1>8. broken' \in [Connections -> BOOLEAN] /\ \A d \in Connections \ {c} : broken'[d] = broken[d]
  BY Zenon DEF Break, TypeOK
<1> QED
  BY <1>3, <1>5, <1>6, <1>7, <1>8, Zenon DEF s

(* Giving up: the connection is closed and the caller told. *)
LEMMA GiveUpFacts ==
  ASSUME GiveUp
  PROVE  /\ socket_' = -1 /\ handshake' = FALSE /\ outcome' = NoResponse
         /\ pc' = IF query = 0 THEN "gone" ELSE "idle"
         /\ attempt' = attempt /\ query' = query
BY Zenon DEF GiveUp, ReturnFailed

(* A connection that is lost is retried once, and never in the handshake. *)
LEMMA LostFacts ==
  ASSUME Lost
  PROVE  \/ GiveUp /\ (handshake \/ ~MayRetry)
         \/ /\ ~handshake /\ MayRetry
            /\ socket_' = -1 /\ pc' = "connect" /\ attempt' = attempt + 1
            /\ handshake' = handshake /\ query' = query /\ outcome' = outcome
BY Zenon DEF Lost

(* The connection in use is one of those made. *)
LEMMA SocketType ==
  ASSUME TypeOK
  PROVE  /\ made \in Nat /\ made <= MaxConnections
         /\ socket_ # -1 => socket_ \in Connections /\ socket_ <= made /\ socket_ >= 1
         /\ query \in Nat /\ query <= MaxQueries
         /\ attempt \in {1, 2}
BY QueryAssumption DEF TypeOK, Connections, Queries, max_attempts

-----------------------------------------------------------------------------
(* The invariant is kept, conjunct by conjunct                             *)

LEMMA TypeNext ==
  ASSUME TypeOK, ControlInv, QueueInv, LineInv, [Next]_vars
  PROVE  TypeOK'
<1> USE QueryAssumption
<1>1. NoResponse \in OutcomeObject
  BY Zenon DEF NoResponse, Outcome, OutcomeObject, Messages, Overwritten, Statuses
<1>2. ASSUME GiveUp, made' = made PROVE
        /\ pc' \in {"idle", "gone"} /\ socket_' \in {-1} \cup 1 .. made'
        /\ handshake' \in BOOLEAN /\ attempt' \in 1 .. max_attempts
        /\ query' \in {0} \cup Queries /\ outcome' \in OutcomeObject
  BY <1>1, <1>2, GiveUpFacts, Zenon DEF TypeOK
<1>3. ASSUME Lost, made' = made PROVE
        /\ pc' \in {"connect", "idle", "gone"} /\ socket_' \in {-1} \cup 1 .. made'
        /\ handshake' \in BOOLEAN /\ attempt' \in 1 .. max_attempts
        /\ query' \in {0} \cup Queries /\ outcome' \in OutcomeObject
  <2>1. CASE GiveUp
    BY <1>2, <1>3, <2>1, Zenon
  <2>2. CASE ~GiveUp
    BY <1>3, <2>2, LostFacts DEF TypeOK, MayRetry, max_attempts
  <2> QED
    BY <2>1, <2>2, Zenon
<1>4. CASE Construct
  BY <1>4, Zenon DEF Construct, netVars, TypeOK
<1>5. CASE ConnectFails
  BY <1>2, <1>5, Zenon DEF ConnectFails, netVars, TypeOK
<1>6. CASE ConnectSucceeds
  BY <1>6 DEF ConnectSucceeds, TypeOK
<1>7. CASE WriteRequest
  <2>1. socket_ \in Connections /\ requests[socket_] = <<>>
    BY <1>7, SocketType, Zenon DEF WriteRequest, ControlInv, LineInv, Exchange
  <2>2. requests' \in [Connections -> Seq(Messages)]
    BY <1>7, <2>1, WriteFacts, Zenon DEF TypeOK
  <2> QED
    BY <1>7, <2>2, Zenon DEF WriteRequest, TypeOK
<1>8. CASE WriteFails
  BY <1>3, <1>8, Zenon DEF WriteFails, netVars, TypeOK
<1>9. CASE ReadSize
  <2>1. socket_ \in Connections
    BY <1>9, SocketType, Zenon DEF ReadSize, ControlInv, Exchange
  <2>2. PICK part \in PartObject :
           /\ Read(part)
           /\ \/ part.val = "bad" /\ GiveUpOnSize
              \/ /\ part.val # "bad"
                 /\ pc' = IF part.val = "extended" THEN "extended" ELSE "body"
                 /\ UNCHANGED <<socket_, handshake, attempt, query, outcome>>
    BY <1>9, Zenon DEF ReadSize
  <2>3. replies' \in [Connections -> Seq(PartObject)]
    BY <2>1, <2>2, ReadFacts, Zenon
  <2>4. buffer' = buffer /\ UNCHANGED <<made, broken, requests, authed, executed, disturbed>>
    BY <1>9, <2>2, Zenon DEF ReadSize, Read
  <2>5. CASE GiveUp
    BY <1>2, <2>3, <2>4, <2>5, Zenon DEF TypeOK
  <2>6. CASE ~GiveUp
    BY <2>2, <2>3, <2>4, <2>6, Zenon DEF TypeOK, GiveUpOnSize
  <2> QED
    BY <2>5, <2>6, Zenon
<1>10. CASE ReadSizeFails
  <2>1. CASE GiveUp
    BY <1>2, <1>10, <2>1, Zenon DEF ReadSizeFails, netVars, TypeOK
  <2>2. CASE Lost
    BY <1>3, <1>10, <2>2, Zenon DEF ReadSizeFails, netVars, TypeOK
  <2> QED
    BY <1>10, <2>1, <2>2, Zenon DEF ReadSizeFails
<1>11. CASE ReadBody
  <2>1. socket_ \in Connections
    BY <1>11, SocketType, Zenon DEF ReadBody, ControlInv, Exchange
  <2>2. PICK part \in PartObject :
           /\ Read(part)
           /\ \/ /\ pc' = "idle" /\ outcome' = Outcome(part.of, part.val)
                 /\ buffer' = Overwritten
                 /\ UNCHANGED <<socket_, handshake, attempt, query>>
              \/ /\ pc' \in {"idle", "write"} /\ handshake' = FALSE
                 /\ UNCHANGED <<socket_, attempt, query, outcome, buffer>>
              \/ GiveUp /\ UNCHANGED buffer
    BY <1>11, Zenon DEF ReadBody, GiveUpOnLogin
  <2>3. replies' \in [Connections -> Seq(PartObject)]
    BY <2>1, <2>2, ReadFacts, Zenon
  <2>4. UNCHANGED <<made, broken, requests, authed, executed, disturbed>>
    BY <2>2, Zenon DEF Read
  <2>5. Outcome(part.of, part.val) \in OutcomeObject /\ Overwritten \in Messages
    BY <2>2, Zenon DEF Outcome, OutcomeObject, PartObject, Messages
  <2>6. CASE GiveUp /\ UNCHANGED buffer
    BY <1>2, <2>3, <2>4, <2>6, Zenon DEF TypeOK
  <2>7. CASE ~(GiveUp /\ UNCHANGED buffer)
    BY <2>2, <2>3, <2>4, <2>5, <2>7, Zenon DEF TypeOK
  <2> QED
    BY <2>6, <2>7, Zenon
<1>12. CASE ReadBodyFails
  BY <1>2, <1>12, Zenon DEF ReadBodyFails, GiveUpOnBody, netVars, TypeOK, Messages
<1>13. CASE Ask
  <2>1. query' \in Queries /\ attempt' \in 1 .. max_attempts
    BY <1>13, SocketType DEF Ask, Queries, max_attempts
  <2>2. buffer' \in Messages /\ query' \in {0} \cup Queries
    BY <1>13, <2>1, Zenon DEF Ask, Messages
  <2> QED
    BY <1>13, <2>1, <2>2, Zenon DEF Ask, netVars, TypeOK
<1>14. CASE Destroy
  BY <1>14, Zenon DEF Destroy, netVars, TypeOK
<1>15. ASSUME NEW c \in Connections, Serve(c) PROVE TypeOK'
  <2>1. PICK q \in Messages, status \in Statuses :
           /\ requests' \in [Connections -> Seq(Messages)]
           /\ replies' \in [Connections -> Seq(PartObject)]
           /\ authed' = [authed EXCEPT ![c] = @ \/ (q = LoginQuery /\ status = "Ok")]
           /\ executed' = IF q \in Queries THEN [executed EXCEPT ![q] = @ + 1] ELSE executed
           /\ \E r : disturbed' = (disturbed \/ (c = socket_ /\ Unusable(q, status, r)))
    BY <1>15, ServeFacts, Zenon
  <2>3. authed' \in [Connections -> BOOLEAN] /\ disturbed' \in BOOLEAN
    BY <2>1, Zenon DEF TypeOK
  <2>2. executed' \in [Queries -> Nat]
    BY <2>1 DEF TypeOK
  <2> QED
    BY <1>15, <2>1, <2>2, <2>3, Zenon DEF Serve, TypeOK
<1>16. ASSUME NEW c \in Connections, Break(c) PROVE TypeOK'
  BY <1>16, BreakFacts, Zenon DEF Break, TypeOK
<1>17. CASE UNCHANGED vars
  BY <1>17, Zenon DEF vars, netVars, TypeOK
<1> QED
  BY <1>4, <1>5, <1>6, <1>7, <1>8, <1>9, <1>10, <1>11, <1>12, <1>13, <1>14, <1>15, <1>16, <1>17, Zenon
     DEF Next, ClientStep

LEMMA ControlNext ==
  ASSUME TypeOK, ControlInv, [Next]_vars
  PROVE  ControlInv'
<1> USE DEF ControlInv, Exchange
<1>1. query \in Nat
  BY SocketType, Zenon
<1>2. ASSUME GiveUp PROVE ControlInv'
  BY <1>2, GiveUpFacts, Zenon
<1>3. ASSUME Lost, buffer' = buffer, pc \in Exchange PROVE ControlInv'
  BY <1>2, <1>3, LostFacts
<1>4. CASE Construct
  BY <1>4, Zenon DEF Construct
<1>5. CASE ConnectFails
  BY <1>2, <1>5, Zenon DEF ConnectFails
<1>6. CASE ConnectSucceeds
  <2>1. made' # -1
    BY <1>6, SocketType DEF ConnectSucceeds
  <2> QED
    BY <1>6, <2>1, Zenon DEF ConnectSucceeds
<1>7. CASE WriteRequest
  BY <1>7, Zenon DEF WriteRequest
<1>8. CASE WriteFails
  BY <1>3, <1>8, Zenon DEF WriteFails
<1>9. CASE ReadSize
  BY <1>2, <1>9 DEF ReadSize, GiveUpOnSize
<1>10. CASE ReadSizeFails
  BY <1>2, <1>3, <1>10, Zenon DEF ReadSizeFails
<1>11. CASE ReadBody
  BY <1>2, <1>11 DEF ReadBody, GiveUpOnLogin
<1>12. CASE ReadBodyFails
  BY <1>2, <1>12, Zenon DEF ReadBodyFails, GiveUpOnBody
<1>13. CASE Ask
  BY <1>1, <1>13 DEF Ask
<1>14. CASE Destroy
  BY <1>14, Zenon DEF Destroy
<1>15. ASSUME NEW c \in Connections, Serve(c) \/ Break(c) PROVE ControlInv'
  BY <1>15 DEF Serve, Break
<1>16. CASE UNCHANGED vars
  BY <1>16, Zenon DEF vars
<1> QED
  BY <1>4, <1>5, <1>6, <1>7, <1>8, <1>9, <1>10, <1>11, <1>12, <1>13, <1>14, <1>15, <1>16, Zenon
     DEF Next, ClientStep

(* The steps that leave the connections alone. *)
LocalStep ==
    Construct \/ ConnectFails \/ WriteFails \/ ReadSizeFails \/ ReadBodyFails \/ Ask \/ Destroy

LEMMA LocalFacts ==
  ASSUME TypeOK, LocalStep
  PROVE  UNCHANGED netVars /\ query' >= query
<1>1. query \in Nat
  BY SocketType, Zenon
<1>2. ASSUME GiveUp PROVE query' = query
  BY <1>2, GiveUpFacts, Zenon
<1>3. ASSUME Lost PROVE query' = query
  BY <1>2, <1>3, LostFacts, Zenon
<1> QED
  BY <1>1, <1>2, <1>3 DEF LocalStep, Construct, ConnectFails, WriteFails, ReadSizeFails,
     ReadBodyFails, GiveUpOnBody, Ask, Destroy

(* What becomes of a read, of which the next state depends. *)
LEMMA ReadSteps ==
  ASSUME TypeOK, ControlInv, ReadSize \/ ReadBody
  PROVE  \E part \in PartObject : Read(part)
BY Zenon DEF ReadSize, ReadBody

LEMMA QueueNext ==
  ASSUME TypeOK, ControlInv, QueueInv, LineInv, [Next]_vars
  PROVE  QueueInv'
<1> DEFINE Good(c) ==
      /\ c > made => ~broken[c] /\ requests[c] = <<>> /\ replies[c] = <<>>
      /\ Len(requests[c]) <= 1
      /\ requests[c] # <<>> => /\ requests[c][1] \in 0 .. query
                               /\ requests[c][1] = LoginQuery \/ authed[c]
      /\ \A i \in 1 .. Len(replies[c]) :
           /\ replies[c][i].of \in Queries => executed[replies[c][i].of] > 0
           /\ replies[c][i].of = LoginQuery /\ replies[c][i].val = "Ok" => authed[c]
<1>1. SUFFICES ASSUME NEW d \in Connections PROVE Good(d)'
  BY Zenon DEF QueueInv
<1>2. Good(d)
  BY Zenon DEF QueueInv
<1>3. query \in Nat /\ made \in Nat
  BY SocketType, Zenon
<1>4. CASE LocalStep
  <2>1. UNCHANGED <<made, broken, requests, replies, authed, executed>> /\ query' >= query
    BY <1>4, LocalFacts, Zenon DEF netVars
  <2>2. query' \in Nat
    BY QueryAssumption, TypeNext, SMTT(30) DEF TypeOK, Queries
  <2>3. requests[d] # <<>> => requests[d][1] \in 0 .. query'
    BY <1>2, <1>3, <2>1, <2>2
  <2> QED
    BY <1>2, <2>1, <2>3, Zenon
<1>5. CASE ConnectSucceeds
  BY <1>2, <1>3, <1>5 DEF ConnectSucceeds, Connections
<1>6. CASE WriteRequest
  <2>1. socket_ \in Connections /\ socket_ <= made /\ requests[socket_] = <<>>
    BY <1>6, SocketType, Zenon DEF WriteRequest, ControlInv, LineInv, Exchange
  <2>2. UNCHANGED <<made, broken, replies, authed, executed, query>>
    BY <1>6, Zenon DEF WriteRequest
  <2>3. CASE d # socket_
    <3>1. requests'[d] = requests[d]
      BY <1>6, <2>1, <2>3, WriteFacts, Zenon DEF TypeOK
    <3> QED
      BY <1>2, <2>2, <3>1, Zenon
  <2>4. CASE d = socket_
    <3>1. /\ Len(requests'[d]) <= 1
          /\ requests'[d] # <<>> => requests'[d][1] = IF handshake THEN LoginQuery ELSE buffer
      BY <1>6, <2>1, <2>4, WriteFacts, Zenon DEF TypeOK
    <3>2. buffer = query /\ (~handshake => authed[d])
      BY <1>6, <2>1, <2>4, SocketType, Zenon DEF WriteRequest, ControlInv, LineInv, Exchange
    <3>3. requests'[d] # <<>> => /\ requests'[d][1] \in 0 .. query
                                 /\ requests'[d][1] = LoginQuery \/ authed[d]
      BY <1>3, <3>1, <3>2 DEF LoginQuery
    <3> QED
      BY <1>2, <1>3, <2>1, <2>2, <2>4, <3>1, <3>3 DEF Connections
  <2> QED
    BY <2>3, <2>4, Zenon
<1>7. CASE ReadSize \/ ReadBody
  <2>1. socket_ \in Connections /\ socket_ <= made
    BY <1>7, SocketType, Zenon DEF ReadSize, ReadBody, ControlInv, Exchange
  <2>2. PICK part \in PartObject : Read(part)
    BY <1>7, ReadSteps, Zenon
  <2>3. UNCHANGED <<made, broken, requests, authed, executed>>
    BY <2>2, Zenon DEF Read
  <2>4. query' = query
    BY <1>7, GiveUpFacts, Zenon DEF ReadSize, ReadBody, GiveUpOnSize, GiveUpOnLogin
  <2>5. CASE d # socket_
    <3>1. replies'[d] = replies[d]
      BY <2>1, <2>2, <2>5, ReadFacts, Zenon
    <3> QED
      BY <1>2, <2>3, <2>4, <3>1, Zenon
  <2>6. CASE d = socket_
    <3>1. /\ Len(replies'[d]) = Len(replies[d]) - 1 /\ Len(replies[d]) \in Nat
          /\ \A i \in 1 .. Len(replies'[d]) : replies'[d][i] = replies[d][i + 1]
      BY <2>1, <2>2, <2>6, ReadFacts, LenProperties, Zenon DEF TypeOK
    <3>2. \A i \in 1 .. Len(replies'[d]) : i + 1 \in 1 .. Len(replies[d])
      BY <3>1
    <3>3. ~(d > made')
      <4>1. made' = made /\ d <= made
        BY <2>1, <2>3, <2>6, Zenon
      <4>2. d \in Int
        BY <1>1 DEF Connections
      <4> QED
        BY <1>3, <4>1, <4>2
    <3>4. ASSUME NEW i \in 1 .. Len(replies'[d])
          PROVE  /\ replies'[d][i].of \in Queries => executed'[replies'[d][i].of] > 0
                 /\ replies'[d][i].of = LoginQuery /\ replies'[d][i].val = "Ok" => authed'[d]
      <4>1. i + 1 \in 1 .. Len(replies[d]) /\ replies'[d][i] = replies[d][i + 1]
        BY <3>1, <3>2, <3>4, Zenon
      <4> QED
        BY <1>2, <2>3, <4>1, Zenon
    <3>5. /\ Len(requests'[d]) <= 1
          /\ requests'[d] # <<>> => /\ requests'[d][1] \in 0 .. query'
                                    /\ requests'[d][1] = LoginQuery \/ authed'[d]
      BY <1>2, <2>3, <2>4, Zenon
    <3> QED
      BY <3>3, <3>4, <3>5, Zenon
  <2> QED
    BY <2>5, <2>6, Zenon
<1>8. ASSUME NEW c \in Connections, Serve(c) PROVE Good(d)'
  <2>1. UNCHANGED <<made, broken, query>>
    BY <1>8, Zenon DEF Serve
  <2>2. PICK q \in Messages, status \in Statuses : \E r \in Response(q, status) :
           /\ requests[c] # <<>> /\ q = requests[c][1]
           /\ requests' \in [Connections -> Seq(Messages)] /\ requests'[c] = <<>>
           /\ replies' \in [Connections -> Seq(PartObject)]
           /\ broken[c] => replies' = replies
           /\ ~broken[c] =>
                /\ Len(replies'[c]) = Len(replies[c]) + Len(r)
                /\ \A i \in 1 .. Len(replies[c]) : replies'[c][i] = replies[c][i]
                /\ \A i \in 1 .. Len(r) : replies'[c][Len(replies[c]) + i] = r[i]
                /\ replies[c] = <<>> => replies'[c] = r
           /\ \A e \in Connections \ {c} : requests'[e] = requests[e] /\ replies'[e] = replies[e]
           /\ authed' = [authed EXCEPT ![c] = @ \/ (q = LoginQuery /\ status = "Ok")]
           /\ executed' = IF q \in Queries THEN [executed EXCEPT ![q] = @ + 1] ELSE executed
    BY <1>8, ServeFacts, Zenon
  <2>3. /\ \A p \in Queries : executed[p] > 0 => executed'[p] > 0
        /\ q \in Queries => executed'[q] > 0
    BY <2>2, SMTT(30) DEF TypeOK
  <2>4. /\ authed[d] => authed'[d]
        /\ c = d /\ q = LoginQuery /\ status = "Ok" => authed'[d]
    BY <2>2, Zenon DEF TypeOK
  <2>5. CASE d # c
    <3>1. requests'[d] = requests[d] /\ replies'[d] = replies[d]
      BY <2>2, <2>5, Zenon
    <3> QED
      BY <1>2, <2>1, <2>3, <2>4, <3>1, Zenon
  <2>6. CASE d = c /\ broken[c]
    <3>1. requests'[d] = <<>> /\ replies'[d] = replies[d] /\ Len(<<>>) <= 1
      BY <2>2, <2>6, SMTT(30)
    <3> QED
      BY <1>2, <2>1, <2>3, <2>4, <3>1, Zenon
  <2>7. CASE d = c /\ ~broken[c]
    <3>1. PICK r \in Response(q, status) :
                /\ Len(replies'[c]) = Len(replies[c]) + Len(r)
                /\ \A i \in 1 .. Len(replies[c]) : replies'[c][i] = replies[c][i]
                /\ \A i \in 1 .. Len(r) : replies'[c][Len(replies[c]) + i] = r[i]
      BY <2>2, <2>7, Zenon
    <3>2. /\ \A i \in 1 .. Len(r) : r[i].of = q
          /\ \A i \in 1 .. Len(r) : r[i].val \in Statuses => r[i].val = status
          /\ Len(r) \in Nat
      BY ResponseFacts, LenProperties
    <3>3. requests'[d] = <<>> /\ Len(requests'[d]) <= 1 /\ d <= made
      BY <1>2, <1>3, <2>2, <2>7 DEF Connections
    <3>4. ASSUME NEW i \in 1 .. Len(replies'[d])
          PROVE  /\ replies'[d][i].of \in Queries => executed'[replies'[d][i].of] > 0
                 /\ replies'[d][i].of = LoginQuery /\ replies'[d][i].val = "Ok" => authed'[d]
      <4>0. Len(replies[d]) \in Nat
        BY LenProperties, Zenon DEF TypeOK
      <4>1. CASE i <= Len(replies[d])
        <5>1. i \in 1 .. Len(replies[d]) /\ replies'[d][i] = replies[d][i]
          BY <2>7, <3>1, <4>0, <4>1
        <5> QED
          BY <1>2, <2>3, <2>4, <5>1, Zenon
      <4>2. CASE i > Len(replies[d])
        <5> DEFINE k == i - Len(replies[d])
        <5>1. k \in 1 .. Len(r) /\ Len(replies[d]) + k = i
          BY <2>7, <3>1, <3>2, <4>0, <4>2, SMTT(30)
        <5> HIDE DEF k
        <5>2. replies'[d][i] = r[k]
          BY <2>7, <3>1, <5>1, Zenon
        <5> QED
          BY <2>3, <2>4, <2>7, <3>2, <5>1, <5>2, Zenon DEF Statuses
      <4> QED
        BY <4>0, <4>1, <4>2
    <3> QED
      BY <1>2, <1>3, <2>1, <3>3, <3>4 DEF Connections
  <2> QED
    BY <2>5, <2>6, <2>7, Zenon
<1>9. ASSUME NEW c \in Connections, Break(c) PROVE Good(d)'
  <2>1. UNCHANGED <<made, query, authed, executed>> /\ c <= made
    BY <1>9, Zenon DEF Break
  <2>2. requests'[d] \in {requests[d], <<>>} /\ Len(<<>>) <= 1
    BY <1>9, BreakFacts
  <2>3. CASE d # c
    BY <1>2, <1>9, <2>1, <2>2, <2>3, BreakFacts
  <2>4. CASE d = c
    <3>1. /\ Len(replies'[d]) <= Len(replies[d]) /\ Len(replies'[d]) \in Nat
          /\ Len(replies[d]) \in Nat
          /\ \A i \in 1 .. Len(replies'[d]) : replies'[d][i] = replies[d][i]
      BY <1>9, <2>4, BreakFacts, LenProperties, Zenon DEF TypeOK
    <3>2. 1 .. Len(replies'[d]) \subseteq 1 .. Len(replies[d]) /\ ~(d > made)
      BY <1>3, <2>1, <2>4, <3>1 DEF Connections
    <3> QED
      BY <1>2, <2>1, <2>2, <3>1, <3>2, Zenon
  <2> QED
    BY <2>3, <2>4, Zenon
<1>10. CASE UNCHANGED vars
  BY <1>2, <1>10, Zenon DEF vars, netVars
<1> QED
  BY <1>4, <1>5, <1>6, <1>7, <1>8, <1>9, <1>10, Zenon DEF Next, ClientStep, LocalStep

(* A response that is cut short is still a beginning of one. *)
LEMMA CutFacts ==
  ASSUME NEW s \in Seq(PartObject), NEW t \in Seq(PartObject), Len(t) <= Len(s),
         \A i \in 1 .. Len(t) : t[i] = s[i]
  PROVE  /\ SizeLeft(s) => SizeLeft(t)
         /\ ExtendedLeft(s) => ExtendedLeft(t)
         /\ BodyLeft(s) => BodyLeft(t)
<1>1. Len(s) \in Nat /\ Len(t) \in Nat
  BY LenProperties, Zenon
<1>2. /\ Len(t) >= 1 => t[1] = s[1]
      /\ Len(t) >= 2 => t[2] = s[2]
      /\ Len(t) >= 3 => t[3] = s[3]
  BY <1>1
<1> QED
  BY <1>1, <1>2 DEF SizeLeft, ExtendedLeft, BodyLeft

(* What is left of a response when its first part has been read. *)
LEMMA RestFacts ==
  ASSUME NEW s \in Seq(PartObject), NEW t \in Seq(PartObject),
         Len(s) >= 1, Len(t) = Len(s) - 1,
         \A i \in 1 .. Len(t) : t[i] = s[i + 1]
  PROVE  /\ SizeLeft(s) /\ s[1].val = "extended" => ExtendedLeft(t)
         /\ SizeLeft(s) /\ s[1].val # "extended" => BodyLeft(t)
         /\ ExtendedLeft(s) => BodyLeft(t) /\ s[1].val # "extended"
         /\ BodyLeft(s) => t = <<>> /\ s[1].val \in Statuses
<1>1. Len(s) \in Nat /\ Len(t) \in Nat
  BY LenProperties, Zenon
<1>2. /\ Len(t) >= 1 => t[1] = s[2]
      /\ Len(t) >= 2 => t[2] = s[3]
  BY <1>1
<1>3. Len(t) = 0 => t = <<>>
  BY EmptySeq, Zenon
<1> QED
  BY <1>1, <1>2, <1>3 DEF SizeLeft, ExtendedLeft, BodyLeft

LEMMA LineNext ==
  ASSUME TypeOK, ControlInv, QueueInv, LineInv, [Next]_vars
  PROVE  LineInv'
<1>1. ASSUME socket_' = -1 PROVE LineInv'
  BY <1>1, Zenon DEF LineInv
<1>2. ASSUME GiveUp PROVE LineInv'
  BY <1>1, <1>2, GiveUpFacts, Zenon
<1>3. ASSUME Lost PROVE LineInv'
  BY <1>1, <1>2, <1>3, LostFacts, Zenon
<1>4. CASE Construct
  BY <1>1, <1>4, Zenon DEF Construct, ControlInv
<1>5. CASE ConnectFails \/ WriteFails \/ ReadSizeFails \/ ReadBodyFails
  BY <1>2, <1>3, <1>5, Zenon DEF ConnectFails, WriteFails, ReadSizeFails, ReadBodyFails, GiveUpOnBody
<1>6. CASE ConnectSucceeds
  <2> DEFINE c == made + 1
  <2>1. c \in Connections /\ c > made /\ socket_' = c
    BY <1>6, QueryAssumption, SocketType DEF ConnectSucceeds, Connections
  <2> HIDE DEF c
  <2>2. requests[c] = <<>> /\ replies[c] = <<>>
    BY <2>1, Zenon DEF QueueInv
  <2>3. requests'[c] = <<>> /\ replies'[c] = <<>> /\ handshake' /\ pc' = "write"
    BY <1>6, <2>2, Zenon DEF ConnectSucceeds
  <2> QED
    BY <2>1, <2>3 DEF LineInv
<1>7. CASE WriteRequest
  <2>1. socket_ \in Connections /\ socket_ # -1
    BY <1>7, SocketType, Zenon DEF WriteRequest, ControlInv, Exchange
  <2>2. /\ requests[socket_] = <<>> /\ replies[socket_] = <<>> /\ buffer = query
        /\ ~handshake => authed[socket_]
    BY <1>7, <2>1, Zenon DEF WriteRequest, LineInv, ControlInv
  <2>3. pc' = "size" /\ UNCHANGED <<socket_, handshake, query, replies, authed>>
    BY <1>7, Zenon DEF WriteRequest
  <2>4. requests'[socket_] # <<>> => requests'[socket_][1] = Awaited
    BY <1>7, <2>1, <2>2, WriteFacts, Zenon DEF TypeOK, Awaited
  <2>5. Awaited' = Awaited
    BY <2>3, Zenon DEF Awaited
  <2>6. SizeLeft(<<>>)
    BY DEF SizeLeft
  <2> QED
    BY <2>1, <2>2, <2>3, <2>4, <2>5, <2>6, Zenon DEF LineInv
<1>8. CASE ReadSize
  <2>1. socket_ \in Connections /\ socket_ # -1
    BY <1>8, SocketType, Zenon DEF ReadSize, ControlInv, Exchange
  <2>2. PICK part \in PartObject :
           /\ Read(part)
           /\ \/ part.val = "bad" /\ GiveUp
              \/ /\ pc' = IF part.val = "extended" THEN "extended" ELSE "body"
                 /\ UNCHANGED <<socket_, handshake, attempt, query, outcome>>
    BY <1>8, Zenon DEF ReadSize, GiveUpOnSize
  <2>3. CASE GiveUp
    BY <1>2, <2>3, Zenon
  <2>4. CASE ~GiveUp
    <3> DEFINE s == replies[socket_]  t == replies'[socket_]
    <3>1. /\ s \in Seq(PartObject) /\ t \in Seq(PartObject) /\ Len(s) >= 1
          /\ Len(t) = Len(s) - 1 /\ \A i \in 1 .. Len(t) : t[i] = s[i + 1]
          /\ part = s[1]
      BY <2>1, <2>2, ReadFacts, Zenon DEF TypeOK
    <3>2. /\ pc = "size" => SizeLeft(s)
          /\ pc = "extended" => ExtendedLeft(s)
          /\ pc \in {"size", "extended"}
          /\ \A i \in 1 .. Len(s) : s[i].of = Awaited
          /\ requests[socket_] # <<>> => pc = "size" /\ s = <<>>
          /\ ~handshake => authed[socket_]
      BY <1>8, <2>1, Zenon DEF LineInv, ReadSize
    <3>3. pc' = IF part.val = "extended" THEN "extended" ELSE "body"
      BY <2>2, <2>4, Zenon
    <3>4. UNCHANGED <<socket_, handshake, query, requests, authed>>
      BY <2>2, <2>4, Zenon DEF Read
    <3>5. Awaited' = Awaited
      BY <3>4, Zenon DEF Awaited
    <3> HIDE DEF s, t
    <3>6. /\ pc' = "extended" => ExtendedLeft(t)
          /\ pc' = "body" => BodyLeft(t)
      BY <3>1, <3>2, <3>3, RestFacts, Zenon
    <3>7. \A i \in 1 .. Len(t) : t[i].of = Awaited
      <4>1. Len(s) \in Nat
        BY <3>1, LenProperties, Zenon
      <4>2. \A i \in 1 .. Len(t) : i + 1 \in 1 .. Len(s)
        BY <3>1, <4>1
      <4> QED
        BY <3>1, <3>2, <4>2, Zenon
    <3>8. requests[socket_] = <<>>
      <4>1. s # <<>>
        BY <3>1, EmptySeq
      <4> QED
        BY <3>2, <4>1, Zenon
    <3> QED
      BY <2>1, <3>2, <3>3, <3>4, <3>5, <3>6, <3>7, <3>8, Zenon DEF LineInv, t
  <2> QED
    BY <2>3, <2>4, Zenon
<1>9. CASE ReadBody
  <2>1. socket_ \in Connections /\ socket_ # -1
    BY <1>9, SocketType, Zenon DEF ReadBody, ControlInv, Exchange
  <2>2. PICK part \in PartObject :
           /\ Read(part)
           /\ \/ /\ ~handshake /\ pc' = "idle"
                 /\ UNCHANGED <<socket_, handshake, attempt, query>>
              \/ /\ handshake /\ part.val = "Ok"
                 /\ pc' \in {"idle", "write"} /\ handshake' = FALSE
                 /\ UNCHANGED <<socket_, attempt, query>>
              \/ GiveUp
    BY <1>9, Zenon DEF ReadBody, GiveUpOnLogin
  <2>3. CASE GiveUp
    BY <1>2, <2>3, Zenon
  <2>4. CASE ~GiveUp
    <3> DEFINE s == replies[socket_]  t == replies'[socket_]
    <3>1. /\ s \in Seq(PartObject) /\ t \in Seq(PartObject) /\ Len(s) >= 1
          /\ Len(t) = Len(s) - 1 /\ \A i \in 1 .. Len(t) : t[i] = s[i + 1]
          /\ part = s[1]
      BY <2>1, <2>2, ReadFacts, Zenon DEF TypeOK
    <3>2. /\ BodyLeft(s) /\ requests[socket_] = <<>>
          /\ \A i \in 1 .. Len(s) : s[i].of = Awaited
          /\ ~handshake => authed[socket_]
      BY <1>9, <2>1, Zenon DEF LineInv, ReadBody
    <3>3. UNCHANGED <<requests, authed, socket_>> /\ pc' \in {"idle", "write"} /\ ~handshake'
      BY <2>2, <2>4 DEF Read
    <3>4. 1 \in 1 .. Len(s)
      BY <3>1, LenProperties
    <3>5. handshake => part.val = "Ok" /\ part.of = LoginQuery
      BY <2>2, <2>4, <3>1, <3>2, <3>4, Zenon DEF Awaited
    <3>6. authed[socket_]
      BY <2>1, <3>1, <3>2, <3>4, <3>5, Zenon DEF QueueInv
    <3>7. t = <<>>
      <4> HIDE DEF s, t
      <4> QED
        BY <3>1, <3>2, RestFacts, Zenon
    <3> QED
      BY <3>2, <3>3, <3>6, <3>7 DEF LineInv
  <2> QED
    BY <2>3, <2>4, Zenon
<1>10. CASE Ask
  BY <1>10 DEF Ask, netVars, LineInv
<1>11. CASE Destroy
  BY <1>1, <1>11, Zenon DEF Destroy
<1>12. ASSUME NEW c \in Connections, Serve(c) PROVE LineInv'
  <2>1. UNCHANGED <<pc, socket_, handshake, query>>
    BY <1>12, Zenon DEF Serve
  <2>2. Awaited' = Awaited
    BY <2>1, Zenon DEF Awaited
  <2>3. PICK q \in Messages, status \in Statuses : \E r \in Response(q, status) :
           /\ requests[c] # <<>> /\ q = requests[c][1]
           /\ requests'[c] = <<>>
           /\ broken[c] => replies' = replies
           /\ ~broken[c] => (replies[c] = <<>> => replies'[c] = r)
           /\ \A e \in Connections \ {c} : requests'[e] = requests[e] /\ replies'[e] = replies[e]
           /\ authed' = [authed EXCEPT ![c] = @ \/ (q = LoginQuery /\ status = "Ok")]
    BY <1>12, ServeFacts, ZenonT(90)
  <2>4. \A e \in Connections : authed[e] => authed'[e]
    BY <2>3, Zenon DEF TypeOK
  <2>5. CASE socket_ = -1
    BY <1>1, <2>1, <2>5, Zenon
  <2>6. CASE socket_ # -1 /\ socket_ # c
    <3>1. socket_ \in Connections
      BY <2>6, SocketType, Zenon
    <3>2. /\ requests'[socket_] = requests[socket_] /\ replies'[socket_] = replies[socket_]
          /\ authed[socket_] => authed'[socket_]
      BY <2>3, <2>4, <2>6, <3>1, Zenon
    <3> QED
      BY <2>1, <2>2, <2>6, <3>2, Zenon DEF LineInv
  <2>7. CASE socket_ # -1 /\ socket_ = c
    <3>1. pc = "size" /\ requests[c][1] = Awaited /\ replies[c] = <<>>
      BY <2>3, <2>7, SocketType, Zenon DEF LineInv, ControlInv, Exchange, TypeOK
    <3>2. CASE broken[c]
      BY <2>1, <2>2, <2>3, <2>4, <2>7, <3>1, <3>2, ZenonT(30) DEF LineInv
    <3>3. CASE ~broken[c]
      <4>1. PICK r \in Response(q, status) : replies'[c] = r
        BY <2>3, <3>1, <3>3, Zenon
      <4>2. SizeLeft(r) /\ \A i \in 1 .. Len(r) : r[i].of = q
        BY ResponseFacts
      <4> QED
        BY <2>1, <2>2, <2>3, <2>4, <2>7, <3>1, <4>1, <4>2, Zenon DEF LineInv
    <3> QED
      BY <3>2, <3>3, Zenon
  <2> QED
    BY <2>5, <2>6, <2>7, Zenon
<1>13. ASSUME NEW c \in Connections, Break(c) PROVE LineInv'
  <2>1. UNCHANGED <<pc, socket_, handshake, query, authed>>
    BY <1>13, Zenon DEF Break
  <2>2. Awaited' = Awaited
    BY <2>1, Zenon DEF Awaited
  <2>3. CASE socket_ = -1
    BY <1>1, <2>1, <2>3, Zenon
  <2>4. CASE socket_ # -1
    <3> DEFINE s == replies[socket_]  t == replies'[socket_]
    <3>1. socket_ \in Connections
      BY <2>4, SocketType, Zenon
    <3>2. requests'[socket_] \in {requests[socket_], <<>>}
      BY <1>13, <3>1, BreakFacts, Zenon
    <3>3. /\ s \in Seq(PartObject) /\ t \in Seq(PartObject) /\ Len(t) <= Len(s)
          /\ \A i \in 1 .. Len(t) : t[i] = s[i]
      <4>1. s \in Seq(PartObject) /\ t \in Seq(PartObject)
        BY <1>13, <3>1, BreakFacts, Zenon DEF TypeOK
      <4>2. CASE socket_ = c
        BY <1>13, <4>1, <4>2, BreakFacts, Zenon
      <4>3. CASE socket_ # c
        BY <1>13, <3>1, <4>1, <4>3, BreakFacts, LenProperties, SMTT(30)
      <4> QED
        BY <4>1, <4>2, <4>3, Zenon
    <3>4. /\ s = <<>> => t = <<>>
          /\ \A i \in 1 .. Len(t) : i \in 1 .. Len(s)
      <4>1. Len(s) \in Nat /\ Len(t) \in Nat /\ (t # <<>> => Len(t) \in Nat \ {0})
        BY <3>3, LenProperties, EmptySeq, Zenon
      <4> QED
        BY <3>3, <4>1
    <3>5. /\ SizeLeft(s) => SizeLeft(t)
          /\ ExtendedLeft(s) => ExtendedLeft(t)
          /\ BodyLeft(s) => BodyLeft(t)
      <4> HIDE DEF s, t
      <4> QED
        BY <3>3, CutFacts, Zenon
    <3>6. LineInv
      BY Zenon
    <3> QED
      BY <2>1, <2>2, <2>4, <3>2, <3>3, <3>4, <3>5, <3>6, Zenon DEF LineInv
  <2> QED
    BY <2>3, <2>4, Zenon
<1>14. CASE UNCHANGED vars
  BY <1>14, Zenon DEF vars, netVars, LineInv, Awaited
<1> QED
  BY <1>4, <1>5, <1>6, <1>7, <1>8, <1>9, <1>10, <1>11, <1>12, <1>13, <1>14, Zenon DEF Next, ClientStep

(* Connections can be counted. *)
LEMMA CountFacts ==
  ASSUME NEW S \in SUBSET Connections
  PROVE  /\ IsFiniteSet(S) /\ Cardinality(S) \in Nat
         /\ \A T \in SUBSET S : Cardinality(T) \in Nat /\ Cardinality(T) <= Cardinality(S)
         /\ \A c \in Connections : Cardinality(S \cup {c}) <= Cardinality(S) + 1
         /\ \A c \in S : Cardinality(S \ {c}) = Cardinality(S) - 1
<1>1. IsFiniteSet(Connections)
  BY QueryAssumption, FS_Interval DEF Connections
<1>2. IsFiniteSet(S)
  BY <1>1, FS_Subset, Zenon
<1>3. Cardinality(S) \in Nat
  BY <1>2, FS_CardinalityType, Zenon
<1>4. \A T \in SUBSET S : Cardinality(T) \in Nat /\ Cardinality(T) <= Cardinality(S)
  BY <1>2, FS_Subset, FS_CardinalityType, Zenon
<1>5. \A c \in Connections : Cardinality(S \cup {c}) <= Cardinality(S) + 1
  <2>1. SUFFICES ASSUME NEW c \in Connections
                 PROVE  Cardinality(S \cup {c}) <= Cardinality(S) + 1
    BY Zenon
  <2>2. Cardinality(S \cup {c}) \in {Cardinality(S), Cardinality(S) + 1}
    BY <1>2, FS_AddElement, Zenon
  <2> QED
    BY <1>3, <2>2
<1>6. \A c \in S : Cardinality(S \ {c}) = Cardinality(S) - 1
  BY <1>2, FS_RemoveElement, Zenon
<1> QED
  BY <1>2, <1>3, <1>4, <1>5, <1>6, Zenon

(* A step that writes nothing never takes back what was allowed. *)
LEMMA WrittenFacts ==
  ASSUME TypeOK, ControlInv, NEW q \in Queries, [Next]_vars,
         LocalStep \/ ConnectSucceeds \/ ReadSize \/ ReadBody
  PROVE  Written(q)' >= Written(q)
<1>1. query \in Nat /\ attempt \in {1, 2} /\ q \in Nat /\ q >= 1
  BY SocketType, QueryAssumption DEF Queries
<1> USE DEF Written, max_attempts
<1>2. ASSUME GiveUp PROVE Written(q)' >= Written(q)
  BY <1>1, <1>2, GiveUpFacts
<1>3. ASSUME Lost, pc \in Exchange PROVE Written(q)' >= Written(q)
  BY <1>1, <1>2, <1>3, LostFacts DEF Exchange
<1>4. CASE Construct
  BY <1>1, <1>4 DEF Construct, ControlInv
<1>5. CASE ConnectFails \/ WriteFails \/ ReadSizeFails \/ ReadBodyFails
  BY <1>2, <1>3, <1>5, Zenon DEF ConnectFails, WriteFails, ReadSizeFails, ReadBodyFails,
     GiveUpOnBody, Exchange
<1>6. CASE ConnectSucceeds
  BY <1>1, <1>6 DEF ConnectSucceeds
<1>7. CASE ReadSize
  BY <1>1, <1>2, <1>7, SMTT(30) DEF ReadSize, GiveUpOnSize
<1>8. CASE ReadBody
  BY <1>1, <1>2, <1>8 DEF ReadBody, GiveUpOnLogin
<1>9. CASE Ask
  <2>1. query' = query + 1 /\ attempt' = 1 /\ pc' \in {"connect", "write"} /\ handshake' = handshake
    BY <1>9, Zenon DEF Ask
  <2>2. Written(q)' = IF q > query + 1 THEN 0 ELSE IF q < query + 1 THEN 2 ELSE 0
    BY <1>1, <2>1
  <2>3. Written(q) <= 2 /\ (q > query => Written(q) = 0)
    BY <1>1
  <2> QED
    BY <1>1, <2>2, <2>3
<1>10. CASE Destroy
  BY <1>1, <1>10 DEF Destroy, ControlInv, Exchange
<1> QED
  BY <1>4, <1>5, <1>6, <1>7, <1>8, <1>9, <1>10, Zenon DEF LocalStep

LEMMA PendingFacts ==
  ASSUME NEW q
  PROVE  IsFiniteSet(Pending(q)) /\ Cardinality(Pending(q)) \in Nat
<1>1. Pending(q) \in SUBSET Connections
  BY Zenon DEF Pending
<1> QED
  BY <1>1, CountFacts, Zenon

LEMMA CountNext ==
  ASSUME TypeOK, ControlInv, QueueInv, LineInv, CountInv, [Next]_vars
  PROVE  CountInv'
<1>1. SUFFICES ASSUME NEW q \in Queries
               PROVE  executed'[q] + Cardinality(Pending(q)') <= Written(q)'
  BY Zenon DEF CountInv
<1> DEFINE P == Pending(q)
<1>2. executed[q] + Cardinality(P) <= Written(q) /\ executed[q] \in Nat /\ executed'[q] \in Nat
  BY TypeNext, Zenon DEF CountInv, TypeOK
<1>3. /\ P \in SUBSET Connections /\ P' \in SUBSET Connections
      /\ Cardinality(P) \in Nat /\ Cardinality(P') \in Nat
  <2>1. P \in SUBSET Connections /\ P' \in SUBSET Connections
    BY Zenon DEF Pending
  <2> QED
    BY <2>1, CountFacts, Zenon
<1>4. query \in Nat /\ attempt \in {1, 2} /\ q \in Nat /\ q >= 1
  BY SocketType, QueryAssumption DEF Queries
<1>5. Written(q) \in Int /\ Written(q)' \in Int
  <2>1. attempt' \in {1, 2}
    BY TypeNext DEF TypeOK, max_attempts
  <2> QED
    BY <1>4, <2>1 DEF Written, max_attempts
<1> HIDE DEF P
<1>6. ASSUME executed'[q] = executed[q], P' \subseteq P, Written(q)' >= Written(q)
      PROVE  executed'[q] + Cardinality(P') <= Written(q)'
  <2>1. Cardinality(P') <= Cardinality(P)
    BY <1>3, <1>6, CountFacts, Zenon
  <2> QED
    BY <1>2, <1>3, <1>5, <1>6, <2>1
<1>7. CASE LocalStep \/ ConnectSucceeds \/ ReadSize \/ ReadBody
  <2>1. UNCHANGED <<requests, executed>>
    BY <1>7, LocalFacts, ReadSteps, Zenon DEF netVars, ConnectSucceeds, Read
  <2> QED
    BY <1>6, <1>7, <2>1, WrittenFacts, Zenon DEF P, Pending
<1>8. CASE WriteRequest
  <2>1. socket_ \in Connections /\ socket_ # -1 /\ requests[socket_] = <<>> /\ buffer = query
    BY <1>8, SocketType, Zenon DEF WriteRequest, ControlInv, Exchange, LineInv
  <2>2. /\ \A c \in Connections \ {socket_} : requests'[c] = requests[c]
        /\ requests'[socket_] # <<>> =>
             requests'[socket_][1] = IF handshake THEN LoginQuery ELSE query
    BY <1>8, <2>1, WriteFacts, Zenon DEF TypeOK
  <2>3. pc = "write" /\ pc' = "size" /\ UNCHANGED <<executed, handshake, query, attempt>>
    BY <1>8, Zenon DEF WriteRequest
  <2>4. CASE handshake \/ q # query
    <3>1. P' \subseteq P
      BY <1>4, <2>1, <2>2, <2>4 DEF P, Pending, LoginQuery
    <3>2. Written(q)' >= Written(q)
      BY <1>4, <2>3, <2>4 DEF Written, max_attempts
    <3> QED
      BY <1>6, <2>3, <3>1, <3>2, Zenon DEF P
  <2>5. CASE ~handshake /\ q = query
    <3>1. P' \subseteq P \cup {socket_}
      BY <2>2, Zenon DEF P, Pending
    <3>2. Cardinality(P') <= Cardinality(P) + 1
      <4>1. P \cup {socket_} \in SUBSET Connections
        BY <1>3, <2>1, Zenon
      <4>2. Cardinality(P') <= Cardinality(P \cup {socket_})
        BY <3>1, <4>1, CountFacts, Zenon
      <4>3. Cardinality(P \cup {socket_}) <= Cardinality(P) + 1 /\ Cardinality(P \cup {socket_}) \in Nat
        BY <1>3, <2>1, <4>1, CountFacts, Zenon
      <4> QED
        BY <1>3, <4>2, <4>3
    <3>3. Written(q)' = attempt /\ Written(q) = attempt - 1
      BY <1>4, <2>3, <2>5 DEF Written
    <3> QED
      BY <1>2, <1>3, <1>4, <2>3, <3>2, <3>3, SMTT(30) DEF P
  <2> QED
    BY <2>4, <2>5, Zenon
<1>9. ASSUME NEW c \in Connections, Serve(c)
      PROVE  executed'[q] + Cardinality(P') <= Written(q)'
  <2>1. PICK m \in Messages :
          /\ requests[c] # <<>> /\ m = requests[c][1] /\ requests'[c] = <<>>
          /\ \A d \in Connections \ {c} : requests'[d] = requests[d]
          /\ executed' = IF m \in Queries THEN [executed EXCEPT ![m] = @ + 1] ELSE executed
    BY <1>9, ServeFacts, ZenonT(30)
  <2>2. Written(q)' = Written(q)
    BY <1>9, Zenon DEF Serve, Written
  <2>3. P' = P \ {c}
    BY <2>1, Zenon DEF P, Pending
  <2>4. CASE m = q
    <3>1. c \in P /\ executed'[q] = executed[q] + 1
      BY <2>1, <2>4, Zenon DEF P, Pending, TypeOK
    <3>2. Cardinality(P') = Cardinality(P) - 1
      BY <1>3, <2>3, <3>1, CountFacts, Zenon
    <3> QED
      BY <1>2, <1>3, <2>2, <3>1, <3>2
  <2>5. CASE m # q
    <3>1. executed'[q] = executed[q]
      BY <2>1, <2>5, Zenon DEF TypeOK
    <3> QED
      BY <1>5, <1>6, <2>2, <2>3, <3>1, SMTT(30)
  <2> QED
    BY <2>4, <2>5, Zenon
<1>10. ASSUME NEW c \in Connections, Break(c)
       PROVE  executed'[q] + Cardinality(P') <= Written(q)'
  <2>1. P' \subseteq P
    BY <1>10, BreakFacts, Zenon DEF P, Pending
  <2>2. executed' = executed /\ Written(q)' = Written(q)
    BY <1>10, Zenon DEF Break, Written
  <2> QED
    BY <1>5, <1>6, <2>1, <2>2
<1>11. CASE UNCHANGED vars
  <2>1. executed' = executed /\ Written(q)' = Written(q) /\ P' = P
    BY <1>11, Zenon DEF vars, netVars, Written, P, Pending
  <2> QED
    BY <1>2, <2>1, Zenon DEF P
<1> QED
  BY <1>7, <1>8, <1>9, <1>10, <1>11, Zenon DEF Next, ClientStep, LocalStep, P

(* What carrying out a request does to the counts. *)
LEMMA ExecutedFacts ==
  ASSUME TypeOK, QueueInv, NEW c \in Connections, Serve(c)
  PROVE  \E m \in Messages :
           /\ requests[c] # <<>> /\ m = requests[c][1]
           /\ executed' = IF m \in Queries THEN [executed EXCEPT ![m] = @ + 1] ELSE executed
BY ServeFacts, Zenon

(* The body of the response to a query is its status, and the query was carried out. *)
LEMMA BodyFacts ==
  ASSUME TypeOK, ControlInv, QueueInv, LineInv, ReadBody, NEW part \in PartObject, Read(part)
  PROVE  /\ part.val \in Statuses /\ part.of = Awaited
         /\ ~handshake => query \in Queries /\ executed[query] > 0
<1>1. socket_ \in Connections /\ socket_ # -1
  BY SocketType, Zenon DEF ReadBody, ControlInv, Exchange
<1>2. Len(replies[socket_]) >= 1 /\ part = replies[socket_][1] /\ Len(replies[socket_]) \in Nat
  BY <1>1, ReadFacts, LenProperties, Zenon DEF TypeOK
<1>3. 1 \in 1 .. Len(replies[socket_]) /\ BodyLeft(replies[socket_])
  BY <1>1, <1>2 DEF LineInv, ReadBody
<1>4. part.of = Awaited
  BY <1>1, <1>2, <1>3, Zenon DEF LineInv
<1>5. ~handshake => query \in Queries
  BY SocketType, Zenon DEF ControlInv, Exchange, ReadBody, TypeOK
<1>6. ~handshake => executed[query] > 0
  BY <1>1, <1>2, <1>3, <1>4, <1>5, Zenon DEF QueueInv, Awaited
<1>7. Len(replies[socket_]) = 1
  <2>1. Len(replies[socket_]) <= 1
    BY <1>3, Zenon DEF BodyLeft
  <2>2. ASSUME NEW n \in Nat, n >= 1, n <= 1 PROVE n = 1
    BY <2>2
  <2> QED
    BY <1>2, <2>1, <2>2, Zenon
<1>8. part.val \in Statuses
  BY <1>2, <1>3, <1>7, Zenon DEF BodyLeft
<1> QED
  BY <1>4, <1>5, <1>6, <1>8, Zenon

LEMMA ResultNext ==
  ASSUME TypeOK, ControlInv, QueueInv, LineInv, ResultInv, [Next]_vars
  PROVE  ResultInv'
<1>1. ASSUME GiveUp PROVE ResultInv'
  BY <1>1, GiveUpFacts, Zenon DEF ResultInv
<1>2. ASSUME Lost PROVE ResultInv'
  BY <1>1, <1>2, LostFacts, Zenon DEF ResultInv
<1>3. CASE LocalStep
  BY <1>1, <1>2, <1>3, Zenon DEF LocalStep, Construct, ConnectFails, WriteFails, ReadSizeFails,
     ReadBodyFails, GiveUpOnBody, Ask, Destroy, ResultInv
<1>4. CASE ConnectSucceeds \/ WriteRequest
  BY <1>4, Zenon DEF ConnectSucceeds, WriteRequest, ResultInv
<1>5. CASE ReadSize
  BY <1>1, <1>5, Zenon DEF ReadSize, GiveUpOnSize, ResultInv
<1>6. CASE ReadBody
  <2>1. PICK part \in PartObject :
           /\ Read(part)
           /\ \/ /\ ~handshake
                 /\ outcome' = Outcome(part.of, part.val) /\ query' = query
              \/ handshake /\ UNCHANGED <<query, outcome>> /\ (pc' = "idle" => query = 0)
              \/ GiveUp
    BY <1>6, Zenon DEF ReadBody, GiveUpOnLogin
  <2>2. executed' = executed
    BY <2>1, Zenon DEF Read
  <2>3. CASE GiveUp
    BY <1>1, <2>3, Zenon
  <2>4. CASE handshake /\ ~GiveUp
    BY <2>1, <2>4, Zenon DEF ResultInv, ControlInv
  <2>5. CASE ~handshake /\ ~GiveUp
    <3>1. /\ outcome'.of = part.of /\ outcome'.status = part.val /\ query' = query
      BY <2>1, <2>5 DEF Outcome
    <3>2. /\ part.val \in Statuses /\ part.of = query
          /\ query \in Queries /\ executed[query] > 0
      BY <1>6, <2>1, <2>5, BodyFacts, Zenon DEF Awaited
    <3> QED
      BY <2>2, <3>1, <3>2, Zenon DEF ResultInv
  <2> QED
    BY <2>3, <2>4, <2>5, Zenon
<1>7. ASSUME NEW c \in Connections, Serve(c) PROVE ResultInv'
  <2>1. UNCHANGED <<pc, outcome, query>>
    BY <1>7, Zenon DEF Serve
  <2>2. \A q \in Queries : executed[q] > 0 => executed'[q] > 0
    <3>1. PICK m \in Messages :
             executed' = IF m \in Queries THEN [executed EXCEPT ![m] = @ + 1] ELSE executed
      BY <1>7, ExecutedFacts, Zenon
    <3>2. \A q \in Queries : executed[q] \in Nat /\ executed'[q] \in {executed[q], executed[q] + 1}
      BY <3>1, Zenon DEF TypeOK
    <3> QED
      BY <3>2
  <2> QED
    BY <2>1, <2>2, Zenon DEF ResultInv
<1>8. ASSUME NEW c \in Connections, Break(c) PROVE ResultInv'
  BY <1>8, Zenon DEF Break, ResultInv
<1>9. CASE UNCHANGED vars
  BY <1>9, Zenon DEF vars, netVars, ResultInv
<1> QED
  BY <1>3, <1>4, <1>5, <1>6, <1>7, <1>8, <1>9, Zenon DEF Next, ClientStep, LocalStep

LEMMA FaultNext ==
  ASSUME TypeOK, ControlInv, QueueInv, LineInv, ResultInv, FaultInv, [Next]_vars
  PROVE  FaultInv'
<1> DEFINE Clean(c) ==
      \A i \in 1 .. Len(replies[c]) :
        /\ replies[c][i].val # "bad"
        /\ handshake /\ replies[c][i].val \in Statuses => replies[c][i].val = "Ok"
<1> DEFINE Lately ==
      broken[socket_] =>
        /\ attempt = 1 /\ ~handshake /\ pc \in {"write", "size"}
        /\ requests[socket_] = <<>> /\ replies[socket_] = <<>>
<1>1. ASSUME disturbed' \/ pc' \in {"new", "connect", "gone"} PROVE FaultInv'
  BY <1>1, Zenon DEF FaultInv, Exchange
<1>2. ASSUME ~disturbed, query > 0, pc \in Exchange PROVE Clean(socket_) /\ Lately
  BY <1>2, Zenon DEF FaultInv
<1>3. pc \in Exchange => socket_ \in Connections /\ socket_ # -1
  BY SocketType, Zenon DEF ControlInv, Exchange
<1>4. query \in Nat /\ attempt \in {1, 2} /\ made \in Nat
  BY SocketType, Zenon
<1>5. ASSUME Lost, pc \in Exchange, broken[socket_], disturbed' = disturbed PROVE FaultInv'
  <2>1. CASE GiveUp
    <3>1. CASE query = 0 \/ disturbed
      BY <1>1, <1>5, <2>1, <3>1, GiveUpFacts, Zenon
    <3>2. CASE query # 0 /\ ~disturbed
      BY <1>2, <1>4, <1>5, <3>2, LostFacts, GiveUpFacts, SMTT(30)
      DEF MayRetry, max_attempts, FaultInv, Exchange
    <3> QED
      BY <3>1, <3>2, Zenon
  <2>2. CASE ~GiveUp
    BY <1>1, <1>5, <2>2, LostFacts, Zenon
  <2> QED
    BY <2>1, <2>2, Zenon
<1>6. CASE Construct \/ ConnectFails \/ Destroy
  BY <1>1, <1>6, Zenon DEF Construct, ConnectFails, Destroy
<1>7. CASE WriteFails
  BY <1>5, <1>7, Zenon DEF WriteFails, Exchange
<1>8. CASE ReadSizeFails
  <2>1. pc \in Exchange /\ broken[socket_] /\ disturbed' = disturbed
    BY <1>8, Zenon DEF ReadSizeFails, StreamEnds, Exchange
  <2>2. CASE pc = "size"
    BY <1>5, <1>8, <2>1, <2>2, Zenon DEF ReadSizeFails
  <2>3. CASE pc = "extended"
    <3>1. GiveUp
      BY <1>8, <2>3, Zenon DEF ReadSizeFails
    <3>2. query = 0 \/ disturbed
      BY <1>2, <1>4, <2>1, <2>3
    <3> QED
      BY <1>1, <2>1, <3>1, <3>2, GiveUpFacts, Zenon
  <2> QED
    BY <1>8, <2>2, <2>3, Zenon DEF ReadSizeFails
<1>9. CASE ReadBodyFails
  <2>1. pc = "body" /\ broken[socket_] /\ disturbed' = disturbed /\ GiveUp
    BY <1>9, Zenon DEF ReadBodyFails, StreamEnds, GiveUpOnBody
  <2>2. query = 0 \/ disturbed
    BY <1>2, <1>4, <2>1, SMTT(30) DEF Exchange
  <2> QED
    BY <1>1, <2>1, <2>2, GiveUpFacts, Zenon
<1>10. CASE ConnectSucceeds
  <2> DEFINE c == made + 1
  <2>1. c \in Connections /\ c > made /\ socket_' = c
    BY <1>10, QueryAssumption, SocketType DEF ConnectSucceeds, Connections
  <2> HIDE DEF c
  <2>2. ~broken[c] /\ replies[c] = <<>>
    BY <2>1, Zenon DEF QueueInv
  <2>3. ~broken'[c] /\ replies'[c] = <<>> /\ pc' = "write"
    BY <1>10, <2>2, Zenon DEF ConnectSucceeds
  <2> QED
    BY <2>1, <2>3 DEF FaultInv
<1>11. CASE WriteRequest
  <2>1. pc = "write" /\ pc' = "size" /\ UNCHANGED <<socket_, handshake, attempt, query, broken, replies, disturbed>>
    BY <1>11, Zenon DEF WriteRequest
  <2>2. broken[socket_] => requests' = requests
    BY <1>11, Zenon DEF WriteRequest
  <2> QED
    BY <1>2, <2>1, <2>2, Zenon DEF FaultInv, Exchange
<1>12. CASE Ask
  <2>1. pc = "idle" /\ attempt' = 1 /\ UNCHANGED <<socket_, handshake, netVars>>
        /\ (socket_ = -1 => pc' = "connect") /\ (socket_ # -1 => pc' = "write")
    BY <1>12, Zenon DEF Ask
  <2>2. CASE socket_ = -1
    BY <1>1, <2>1, <2>2, Zenon
  <2>3. CASE socket_ # -1
    <3>1. ~handshake /\ requests[socket_] = <<>> /\ replies[socket_] = <<>>
      BY <2>1, <2>3, Zenon DEF ControlInv, LineInv, Exchange
    <3> QED
      BY <2>1, <2>3, <3>1 DEF FaultInv, netVars
  <2> QED
    BY <2>2, <2>3, Zenon
<1>13. CASE ReadSize \/ ReadBody
  <2>1. PICK part \in PartObject : Read(part)
    BY <1>13, ReadSteps, Zenon
  <2>2. UNCHANGED <<broken, requests, disturbed>>
    BY <2>1, Zenon DEF Read
  <2>3. pc \in Exchange
    BY <1>13, Zenon DEF ReadSize, ReadBody, Exchange
  <2>4. /\ Len(replies[socket_]) >= 1 /\ part = replies[socket_][1]
        /\ Len(replies[socket_]) \in Nat
        /\ Len(replies'[socket_]) = Len(replies[socket_]) - 1
        /\ \A i \in 1 .. Len(replies'[socket_]) : replies'[socket_][i] = replies[socket_][i + 1]
        /\ replies[socket_] # <<>>
    BY <1>3, <2>1, <2>3, ReadFacts, LenProperties, EmptySeq, SMTT(30) DEF TypeOK
  <2>5. CASE query = 0 /\ ~(pc' = "idle" /\ query' > 0)
    <3>1. query' = query
      BY <1>13, GiveUpFacts, Zenon DEF ReadSize, ReadBody, GiveUpOnSize, GiveUpOnLogin
    <3> QED
      BY <1>4, <2>5, <3>1 DEF FaultInv
  <2>6. CASE disturbed
    BY <1>1, <2>2, <2>6, Zenon
  <2>7. CASE query > 0 /\ ~disturbed
    <3>1. Clean(socket_) /\ ~broken[socket_]
      BY <1>2, <2>3, <2>4, <2>7, Zenon
    <3>2. 1 \in 1 .. Len(replies[socket_])
          /\ \A i \in 1 .. Len(replies'[socket_]) : i + 1 \in 1 .. Len(replies[socket_])
      BY <2>4
    <3>3. part.val # "bad" /\ (handshake /\ part.val \in Statuses => part.val = "Ok")
      BY <2>4, <3>1, <3>2, Zenon
    <3>4. CASE ReadSize
      <4>1. UNCHANGED <<socket_, handshake>> /\ pc' \in {"extended", "body"}
        BY <2>1, <2>4, <3>3, <3>4, Zenon DEF ReadSize, Read
      <4> QED
        BY <2>2, <2>4, <3>1, <3>2, <4>1, Zenon DEF FaultInv, Exchange
    <3>5. CASE ReadBody
      <4>1. part.val \in Statuses /\ part.of = Awaited
        BY <2>1, <3>5, BodyFacts, Zenon
      <4>2. \/ ~handshake /\ pc' = "idle" /\ outcome' = Outcome(part.of, part.val)
            \/ pc' = "write" /\ handshake' = FALSE /\ UNCHANGED socket_
        BY <1>4, <2>1, <2>4, <2>7, <3>3, <3>5, <4>1, SMTT(30) DEF ReadBody, Read
      <4>3. Outcome(query, part.val) # NoResponse
        BY <1>4 DEF Outcome, NoResponse
      <4> QED
        BY <2>2, <2>4, <3>1, <3>2, <4>1, <4>2, <4>3, Zenon DEF FaultInv, Exchange, Awaited
    <3> QED
      BY <1>13, <3>4, <3>5, Zenon
  <2>8. query' = query
    BY <1>13, GiveUpFacts, Zenon DEF ReadSize, ReadBody, GiveUpOnSize, GiveUpOnLogin
  <2> QED
    BY <1>4, <2>5, <2>6, <2>7, <2>8, SMTT(30)
<1>14. ASSUME NEW c \in Connections, Serve(c) PROVE FaultInv'
  <2>1. UNCHANGED <<pc, socket_, handshake, attempt, query, outcome, broken>>
    BY <1>14, Zenon DEF Serve
  <2>2. PICK q \in Messages, status \in Statuses : \E r \in Response(q, status) :
           /\ requests[c] # <<>> /\ q = requests[c][1]
           /\ broken[c] => replies' = replies
           /\ ~broken[c] => (replies[c] = <<>> => replies'[c] = r)
           /\ \A e \in Connections \ {c} : requests'[e] = requests[e] /\ replies'[e] = replies[e]
           /\ disturbed' = (disturbed \/ (c = socket_ /\ Unusable(q, status, r)))
    BY <1>14, ServeFacts, Zenon
  <2>3. SUFFICES ASSUME ~disturbed', query > 0 PROVE FaultInv'
    BY <2>1, Zenon DEF FaultInv
  <2>4. ~disturbed
    BY <2>2, <2>3, Zenon
  <2>5. CASE pc \notin Exchange
    BY <2>1, <2>3, <2>4, <2>5, Zenon DEF FaultInv
  <2>6. CASE pc \in Exchange /\ socket_ # c
    <3>1. requests'[socket_] = requests[socket_] /\ replies'[socket_] = replies[socket_]
      BY <1>3, <2>2, <2>6, Zenon
    <3> QED
      BY <1>2, <2>1, <2>3, <2>4, <2>6, <3>1, Zenon DEF FaultInv, Exchange
  <2>7. CASE pc \in Exchange /\ socket_ = c
    <3>1. ~broken[c]
      BY <1>2, <2>2, <2>3, <2>4, <2>7, Zenon
    <3>2. replies[c] = <<>> /\ requests[c][1] = Awaited
      BY <1>3, <2>2, <2>7, Zenon DEF LineInv, Exchange
    <3>3. PICK r \in Response(q, status) : replies'[c] = r /\ ~Unusable(q, status, r)
      BY <2>2, <2>3, <2>7, <3>1, <3>2, ZenonT(30)
    <3>4. /\ \A i \in 1 .. Len(r) : r[i].val # "bad"
          /\ \A i \in 1 .. Len(r) : r[i].val \in Statuses => r[i].val = status
      BY <3>3, ResponseFacts
    <3>5. handshake => status = "Ok"
      BY <2>2, <3>2, <3>3, Zenon DEF Unusable, Awaited
    <3> QED
      BY <2>1, <2>3, <2>4, <2>7, <3>1, <3>3, <3>4, <3>5, Zenon DEF FaultInv, Exchange
  <2> QED
    BY <2>5, <2>6, <2>7, Zenon
<1>15. ASSUME NEW c \in Connections, Break(c) PROVE FaultInv'
  <2>1. UNCHANGED <<pc, socket_, handshake, attempt, query, outcome>>
    BY <1>15, Zenon DEF Break
  <2>2. disturbed' = (disturbed \/ (c = socket_ /\ pc # "idle"))
    BY <1>15, Zenon DEF Break
  <2>3. CASE pc \in Exchange /\ socket_ # c
    <3>1. /\ replies'[socket_] = replies[socket_] /\ broken'[socket_] = broken[socket_]
          /\ requests'[socket_] \in {requests[socket_], <<>>}
      BY <1>3, <1>15, <2>3, BreakFacts, Zenon
    <3> QED
      BY <1>2, <2>1, <2>2, <2>3, <3>1, Zenon DEF FaultInv, Exchange
  <2>4. CASE pc \in Exchange /\ socket_ = c
    BY <1>1, <2>2, <2>4, Zenon DEF Exchange
  <2>5. CASE pc \notin Exchange
    BY <2>1, <2>2, <2>5, Zenon DEF FaultInv
  <2> QED
    BY <2>3, <2>4, <2>5, Zenon
<1>16. CASE UNCHANGED vars
  BY <1>16, Zenon DEF vars, netVars, FaultInv
<1> QED
  BY <1>6, <1>7, <1>8, <1>9, <1>10, <1>11, <1>12, <1>13, <1>14, <1>15, <1>16, Zenon
     DEF Next, ClientStep

-----------------------------------------------------------------------------
(* The inductive invariant holds                                           *)

LEMMA InitIInv == Init => IInv
<1> SUFFICES ASSUME Init PROVE IInv
  BY Zenon
<1>1. TypeOK
  <2>1. NoResponse \in OutcomeObject /\ <<>> \in Seq(Messages) /\ <<>> \in Seq(PartObject)
    BY DEF Messages, OutcomeObject, NoResponse, Outcome, Overwritten, Statuses
  <2>2. /\ broken \in [Connections -> BOOLEAN] /\ authed \in [Connections -> BOOLEAN]
        /\ requests \in [Connections -> Seq(Messages)]
        /\ replies \in [Connections -> Seq(PartObject)]
        /\ executed \in [Queries -> Nat]
    BY <2>1, Zenon DEF Init
  <2>3. /\ socket_ \in {-1} \cup 1 .. made /\ attempt \in 1 .. max_attempts
        /\ query \in {0} \cup Queries /\ buffer \in Messages /\ made \in 0 .. MaxConnections
    BY QueryAssumption DEF Init, Messages, LoginQuery, max_attempts
  <2>4. /\ pc = "new" /\ handshake \in BOOLEAN /\ disturbed \in BOOLEAN
        /\ outcome \in OutcomeObject
    BY <2>1, Zenon DEF Init
  <2> QED
    BY <2>2, <2>3, <2>4, Zenon DEF TypeOK
<1>2. ControlInv /\ ResultInv
  BY Zenon DEF Init, ControlInv, ResultInv, Exchange, LoginQuery
<1>3. QueueInv
  BY DEF Init, QueueInv
<1>4. LineInv /\ FaultInv
  BY DEF Init, LineInv, FaultInv
<1>5. CountInv
  <2>1. SUFFICES ASSUME NEW q \in Queries
                 PROVE  executed[q] + Cardinality(Pending(q)) <= Written(q)
    BY Zenon DEF CountInv
  <2>2. Pending(q) = {} /\ executed[q] = 0
    BY Zenon DEF Init, Pending
  <2>3. Written(q) = 0
    BY DEF Init, Written, Queries
  <2> QED
    BY <2>2, <2>3, FS_EmptySet
<1> QED
  BY <1>1, <1>2, <1>3, <1>4, <1>5, Zenon DEF IInv

LEMMA NextIInv == IInv /\ [Next]_vars => IInv'
BY TypeNext, ControlNext, QueueNext, LineNext, CountNext, ResultNext, FaultNext, Zenon DEF IInv

(* The client's state and the query manager's stay within their types, however   *)
(* connections break.                                                             *)
THEOREM QueryTypeCorrect == Spec => []TypeOK
<1>1. IInv => TypeOK
  BY Zenon DEF IInv
<1> QED
  BY <1>1, InitIInv, NextIInv, PTL DEF Spec

(* execute_query never hands out the response to another query. *)
THEOREM OwnResponseHolds == Spec => []OwnResponse
<1>1. IInv => OwnResponse
  BY Zenon DEF IInv, ResultInv, OwnResponse
<1> QED
  BY <1>1, InitIInv, NextIInv, PTL DEF Spec

(* What a connection carries is the login or a query that was asked. *)
LEMMA RequestFacts ==
  ASSUME IInv, NEW c \in Connections, NEW i \in DOMAIN requests[c]
  PROVE  requests[c][i] \in 0 .. query /\ (requests[c][i] = LoginQuery \/ authed[c])
<1>1. requests[c] \in Seq(Messages) /\ Len(requests[c]) <= 1
  BY Zenon DEF IInv, TypeOK, QueueInv
<1>2. Len(requests[c]) \in Nat /\ DOMAIN requests[c] = 1 .. Len(requests[c])
  BY <1>1, LenProperties, Zenon
<1>3. i = 1 /\ Len(requests[c]) = 1
  <2>1. ASSUME NEW n \in Nat, n <= 1, NEW j \in 1 .. n PROVE j = 1 /\ n = 1
    BY <2>1
  <2> QED
    BY <1>1, <1>2, <2>1, Zenon
<1>4. requests[c] # <<>>
  BY <1>3, SMTT(30)
<1> QED
  BY <1>3, <1>4, Zenon DEF IInv, QueueInv

(* No retry sends a buffer that a response was read into. *)
THEOREM RequestsIntactHolds == Spec => []RequestsIntact
<1>1. IInv => RequestsIntact
  BY RequestFacts DEF RequestsIntact, Overwritten
<1> QED
  BY <1>1, InitIInv, NextIInv, PTL DEF Spec

(* connect's handshake comes before every query on its connection. *)
THEOREM LoginComesFirstHolds == Spec => []LoginComesFirst
<1>1. IInv => LoginComesFirst
  BY RequestFacts, Zenon DEF LoginComesFirst
<1> QED
  BY <1>1, InitIInv, NextIInv, PTL DEF Spec

(* A query was not written more often than max_attempts. *)
LEMMA ExecutedBound == ASSUME IInv PROVE \A q \in Queries : executed[q] <= max_attempts
<1> SUFFICES ASSUME NEW q \in Queries PROVE executed[q] <= max_attempts
  BY Zenon
<1>1. executed[q] \in Nat /\ Cardinality(Pending(q)) \in Nat
  BY PendingFacts, Zenon DEF IInv, TypeOK
<1>2. executed[q] + Cardinality(Pending(q)) <= Written(q)
  BY Zenon DEF IInv, CountInv
<1>3. Written(q) \in 0 .. 2
  BY SocketType DEF IInv, Written, Queries, max_attempts
<1> QED
  BY <1>1, <1>2, <1>3 DEF max_attempts

(* The retry of execute_query makes a query be carried out at most twice. *)
THEOREM AtMostTwiceHolds == Spec => []AtMostTwice
<1>1. IInv => AtMostTwice
  BY ExecutedBound, Zenon DEF IInv, ResultInv, AtMostTwice
<1> QED
  BY <1>1, InitIInv, NextIInv, PTL DEF Spec

(* A query fails only when something went wrong after it was asked. *)
THEOREM StaleConnectionHiddenHolds == Spec => []StaleConnectionHidden
<1>1. IInv => StaleConnectionHidden
  BY Zenon DEF IInv, FaultInv, StaleConnectionHidden
<1> QED
  BY <1>1, InitIInv, NextIInv, PTL DEF Spec

-----------------------------------------------------------------------------
(* The refinement                                                          *)

(* The client's ways to give up end the query, or the first connect. *)
LEMMA GiveUpRefines ==
  ASSUME IInv, GiveUp, pc \notin {"idle", "gone"}, executed' = executed
  PROVE  Service!Start \/ Service!Fail
<1>1. CASE query = 0
  BY <1>1, GiveUpFacts, Zenon DEF Service!Start, ServicePhase, IInv, ControlInv
<1>2. CASE query # 0
  BY <1>2, GiveUpFacts, Zenon DEF Service!Fail, ServicePhase, NoResponse, Outcome,
     Service!NoResponse, Service!Outcome
<1> QED
  BY <1>1, <1>2, Zenon

LEMMA LostRefines ==
  ASSUME IInv, Lost, pc \notin {"idle", "gone"}, executed' = executed
  PROVE  [Service!Next]_(Service!serviceVars)
<1>1. CASE GiveUp
  BY <1>1, GiveUpRefines, Zenon DEF Service!Next
<1>2. CASE ~GiveUp
  BY <1>2, LostFacts, Zenon DEF Service!serviceVars, ServicePhase
<1> QED
  BY <1>1, <1>2, Zenon

LEMMA StepRefines ==
  ASSUME IInv, [Next]_vars
  PROVE  [Service!Next]_(Service!serviceVars)
<1> DEFINE Goal == [Service!Next]_(Service!serviceVars)
<1>1. ASSUME GiveUp, pc \notin {"idle", "gone"}, executed' = executed PROVE Goal
  BY <1>1, GiveUpRefines, Zenon DEF Service!Next
<1>2. ASSUME Lost, pc \notin {"idle", "gone"}, executed' = executed PROVE Goal
  BY <1>2, LostRefines, Zenon
<1>3. CASE Construct \/ ConnectSucceeds \/ WriteRequest
  BY <1>3, Zenon DEF Construct, ConnectSucceeds, WriteRequest, netVars, Service!serviceVars, ServicePhase
<1>4. CASE ConnectFails \/ WriteFails \/ ReadSizeFails \/ ReadBodyFails
  BY <1>1, <1>2, <1>4, Zenon DEF ConnectFails, WriteFails, ReadSizeFails, ReadBodyFails, GiveUpOnBody,
     netVars
<1>5. CASE Ask
  <2>1. Service!Ask
    BY <1>5, SocketType DEF Ask, Service!Ask, ServicePhase, netVars, IInv
  <2> QED
    BY <2>1, Zenon DEF Service!Next
<1>6. CASE Destroy
  <2>1. Service!Delete
    BY <1>6, Zenon DEF Destroy, Service!Delete, ServicePhase, netVars
  <2> QED
    BY <2>1, Zenon DEF Service!Next
<1>7. CASE ReadSize
  <2>1. PICK part \in PartObject : Read(part)
    BY <1>7, Zenon DEF ReadSize
  <2>2. executed' = executed /\ pc \notin {"idle", "gone"}
    BY <1>7, <2>1, Zenon DEF Read, ReadSize
  <2>3. CASE GiveUp
    BY <1>1, <2>2, <2>3, Zenon
  <2>4. CASE ~GiveUp
    BY <1>7, <2>2, <2>4, Zenon DEF ReadSize, GiveUpOnSize, Service!serviceVars, ServicePhase
  <2> QED
    BY <2>3, <2>4, Zenon
<1>8. CASE ReadBody
  <2>1. PICK part \in PartObject :
           /\ Read(part)
           /\ \/ /\ ~handshake /\ pc' = "idle"
                 /\ outcome' = Outcome(part.of, part.val) /\ query' = query
              \/ /\ handshake /\ UNCHANGED <<query, outcome>>
                 /\ pc' = IF query = 0 THEN "idle" ELSE "write"
              \/ GiveUp
    BY <1>8, Zenon DEF ReadBody, GiveUpOnLogin
  <2>2. executed' = executed /\ pc = "body"
    BY <1>8, <2>1, Zenon DEF Read, ReadBody
  <2>3. CASE GiveUp
    BY <1>1, <2>2, <2>3, Zenon
  <2>4. CASE handshake /\ ~GiveUp
    <3>1. CASE query = 0
      BY <2>1, <2>2, <2>4, <3>1, Zenon DEF Service!Next, Service!Start, ServicePhase
    <3>2. CASE query # 0
      BY <2>1, <2>2, <2>4, <3>2, Zenon DEF Service!serviceVars, ServicePhase
    <3> QED
      BY <3>1, <3>2, Zenon
  <2>5. CASE ~handshake /\ ~GiveUp
    <3>1. /\ part.val \in Statuses /\ part.of = query
          /\ query \in Queries /\ executed[query] > 0
      BY <1>8, <2>1, <2>5, BodyFacts, Zenon DEF Awaited, IInv
    <3>2. query # 0
      BY <3>1 DEF Queries
    <3>3. Service!Respond(part.val)
      BY <2>1, <2>2, <2>5, <3>1, <3>2, Zenon DEF Service!Respond, ServicePhase, Outcome, Service!Outcome
    <3> QED
      BY <3>1, <3>3, Zenon DEF Service!Next, Service!Statuses, Statuses
  <2> QED
    BY <2>3, <2>4, <2>5, Zenon
<1>9. ASSUME NEW c \in Connections, Serve(c) PROVE Goal
  <2>1. UNCHANGED <<pc, query, outcome>> /\ ServicePhase' = ServicePhase
    BY <1>9, Zenon DEF Serve, ServicePhase
  <2>2. PICK m \in Messages :
           /\ requests[c] # <<>> /\ m = requests[c][1]
           /\ executed' = IF m \in Queries THEN [executed EXCEPT ![m] = @ + 1] ELSE executed
    BY <1>9, ExecutedFacts, Zenon DEF IInv
  <2>3. CASE m \in Queries
    <3>1. m <= query /\ m \in Nat
      BY <2>2, <2>3, SocketType DEF IInv, QueueInv
    <3>2. c \in Pending(m)
      BY <2>2, Zenon DEF Pending
    <3>3. Cardinality(Pending(m)) >= 1
      <4>1. IsFiniteSet(Pending(m)) /\ Cardinality(Pending(m)) \in Nat
        BY PendingFacts, Zenon
      <4>2. Cardinality(Pending(m)) # 0
        BY <3>2, <4>1, FS_EmptySet, Zenon
      <4> QED
        BY <4>1, <4>2
    <3>4. executed[m] \in Nat /\ Cardinality(Pending(m)) \in Nat
      BY <2>3, PendingFacts, Zenon DEF IInv, TypeOK
    <3>5. executed[m] + Cardinality(Pending(m)) <= Written(m)
      BY <2>3, Zenon DEF IInv, CountInv
    <3>6. Written(m) \in 0 .. 2
      BY <2>3, SocketType DEF IInv, Written, Queries, max_attempts
    <3>7. executed[m] < Service!max_attempts
      BY <3>3, <3>4, <3>5, <3>6 DEF Service!max_attempts
    <3>8. Service!Execute(m)
      BY <2>1, <2>2, <2>3, <3>1, <3>7, Zenon DEF Service!Execute
    <3> QED
      BY <2>3, <3>8, Zenon DEF Service!Next, Service!Queries, Queries
  <2>4. CASE m \notin Queries
    BY <2>1, <2>2, <2>4, Zenon DEF Service!serviceVars
  <2> QED
    BY <2>3, <2>4, Zenon
<1>10. ASSUME NEW c \in Connections, Break(c) PROVE Goal
  BY <1>10, Zenon DEF Break, Service!serviceVars, ServicePhase
<1>11. CASE UNCHANGED vars
  BY <1>11, Zenon DEF vars, netVars, Service!serviceVars, ServicePhase
<1> QED
  BY <1>3, <1>4, <1>5, <1>6, <1>7, <1>8, <1>9, <1>10, <1>11, Zenon DEF Next, ClientStep

(* QueryClient, with its sockets, its retry and its broken connections, implements *)
(* the service its callers rely on.                                                *)
THEOREM ClientImplementsService == Spec => ImplementsService
<1>1. Init => Service!Init
  BY Zenon DEF Init, Service!Init, ServicePhase, NoResponse, Outcome, Service!NoResponse,
     Service!Outcome, Queries, Service!Queries
<1>2. IInv /\ [Next]_vars => [Service!Next]_(Service!serviceVars)
  BY StepRefines, Zenon
<1> QED
  BY <1>1, <1>2, InitIInv, NextIInv, PTL DEF Spec, ImplementsService, Service!Spec

=============================================================================
