---------------------------- MODULE QueryClient -----------------------------
(***************************************************************************)
(* The client of the query manager (src/query/query_client.cpp): connect   *)
(* with its handshake, execute_query with its one retry over a new         *)
(* connection, and the destructor, together with the connections it makes  *)
(* and the query manager at their other end (external).                    *)
(*                                                                         *)
(* A client asks queries 1, 2, ... one after the other; message 0 is the   *)
(* login of the handshake.  A response is a sequence of parts, as          *)
(* execute_query reads it: its size, perhaps an extended size, its body.   *)
(* Connections may break at any moment, with requests on their way that    *)
(* are carried out all the same and responses that arrive only in part.    *)
(***************************************************************************)
EXTENDS Integers, Sequences

CONSTANTS
    MaxQueries,       \* bounds the queries asked
    MaxConnections    \* bounds the connections made

ASSUME QueryAssumption ==
    MaxQueries \in Nat /\ MaxConnections \in Nat

VARIABLES
    pc,               \* where connect or execute_query is
    socket_,
    handshake,        \* execute_query was called by connect
    attempt,          \* of the execute_query of the caller
    query,            \* the last query asked; 0: only connect was called
    buffer,           \* what the caller's buffer holds
    outcome,          \* what the last execute_query returned
    made,             \* connections so far
    broken,           \* per connection: no byte gets through any more
    requests,         \* per connection: written and not yet carried out
    replies,          \* per connection: parts not yet read
    authed,           \* per connection: the query manager accepted the login
    executed,         \* history: how often a query was carried out
    disturbed         \* history: something went wrong since the query was asked

netVars == <<made, broken, requests, replies, authed, executed>>
vars == <<pc, socket_, handshake, attempt, query, buffer, outcome, netVars, disturbed>>

max_attempts == 2

Connections == 1 .. MaxConnections
Queries == 1 .. MaxQueries
Overwritten == -1
LoginQuery == 0

Part(of, val) == [of |-> of, val |-> val]
Outcome(of, status) == [of |-> of, status |-> status]

\* the outcome of a query that got no response
NoResponse == Outcome(-1, "Failed")

Statuses == {"Ok", "Error", "Failed"}
Sizes == {"fits", "bad", "extended"}
Messages == {LoginQuery, Overwritten} \cup Queries

\* The record types.
PartObject == [of : Messages, val : Sizes \cup Statuses]
OutcomeObject == [of : Messages, status : Sizes \cup Statuses]

TypeOK ==
    /\ pc \in {"new", "connect", "write", "size", "extended", "body", "idle", "gone"}
    /\ socket_ \in {-1} \cup 1 .. made
    /\ handshake \in BOOLEAN
    /\ attempt \in 1 .. max_attempts
    /\ query \in {0} \cup Queries
    /\ buffer \in Messages
    /\ outcome \in OutcomeObject
    /\ made \in 0 .. MaxConnections
    /\ broken \in [Connections -> BOOLEAN]
    /\ requests \in [Connections -> Seq(Messages)]
    /\ replies \in [Connections -> Seq(PartObject)]
    /\ authed \in [Connections -> BOOLEAN]
    /\ executed \in [Queries -> Nat]
    /\ disturbed \in BOOLEAN

\* QueryClient::QueryClient
Init ==
    /\ pc = "new" /\ socket_ = -1 /\ handshake = FALSE /\ attempt = 1
    /\ query = 0 /\ buffer = LoginQuery /\ outcome = NoResponse
    /\ made = 0
    /\ broken = [c \in Connections |-> FALSE]
    /\ requests = [c \in Connections |-> <<>>]
    /\ replies = [c \in Connections |-> <<>>]
    /\ authed = [c \in Connections |-> FALSE]
    /\ executed = [q \in Queries |-> 0]
    /\ disturbed = FALSE

-----------------------------------------------------------------------------
(* The ends of connect and execute_query                                   *)

\* execute_query returns without a response; the connect of a client that was
\* never connected gives up with it, and its owner deletes the client.
ReturnFailed ==
    /\ pc' = IF query = 0 THEN "gone" ELSE "idle"
    /\ outcome' = NoResponse
    /\ handshake' = FALSE
    /\ UNCHANGED <<attempt, query>>

\* disconnect and return Failed
GiveUp == socket_' = -1 /\ ReturnFailed

\* Mutated form: the connection is kept.
GiveUpConnected == UNCHANGED socket_ /\ ReturnFailed

\* the response size makes no sense
GiveUpOnSize == GiveUp

\* Mutated form: a response cut short is asked for again.
AskAgain ==
    /\ socket_' = -1 /\ pc' = "connect"
    /\ handshake' = FALSE
    /\ UNCHANGED <<attempt, query, outcome>>

\* the response breaks off in its body
GiveUpOnBody == GiveUp

\* the query manager does not take the login
GiveUpOnLogin == GiveUp

\* Mutated form: one attempt too many.
OneMore == attempt <= max_attempts

\* Mutated form: a lost connection is a failure.
NoMore == FALSE

MayRetry == attempt < max_attempts

\* The request could not be written, or nothing came back.  In the handshake
\* there is no reconnecting, and a failed handshake is a failed query.
Lost ==
    \/ /\ ~handshake /\ MayRetry
       /\ socket_' = -1 /\ pc' = "connect" /\ attempt' = attempt + 1
       /\ UNCHANGED <<handshake, query, outcome>>
    \/ (handshake \/ ~MayRetry) /\ GiveUp

-----------------------------------------------------------------------------
(* connect                                                                 *)

\* init_query and process_ws_login: a new client connects.
Construct ==
    /\ pc = "new" /\ pc' = "connect"
    /\ UNCHANGED <<socket_, handshake, attempt, query, buffer, outcome, netVars, disturbed>>

\* No address, no socket or no connection.
ConnectFails ==
    /\ pc = "connect"
    /\ disturbed' = TRUE
    /\ GiveUp
    /\ UNCHANGED <<buffer, netVars>>

ConnectSucceeds ==
    /\ pc = "connect" /\ made < MaxConnections
    /\ made' = made + 1
    /\ socket_' = made'
    /\ handshake' = TRUE /\ pc' = "write"
    /\ UNCHANGED <<attempt, query, buffer, outcome, broken, requests, replies, authed,
                   executed, disturbed>>

-----------------------------------------------------------------------------
(* execute_query                                                           *)

\* A caller asks its next query: is_connected decides how it begins.
Ask ==
    /\ pc = "idle" /\ query < MaxQueries
    /\ query' = query + 1 /\ buffer' = query'
    /\ attempt' = 1 /\ disturbed' = FALSE
    /\ pc' = IF socket_ = -1 THEN "connect" ELSE "write"
    /\ UNCHANGED <<socket_, handshake, outcome, netVars>>

\* WriteExact: on a broken connection the bytes may still seem to be sent.
WriteRequest ==
    /\ pc = "write" /\ pc' = "size"
    /\ requests' = IF broken[socket_] THEN requests
                   ELSE [requests EXCEPT ![socket_] =
                           Append(@, IF handshake THEN LoginQuery ELSE buffer)]
    /\ UNCHANGED <<socket_, handshake, attempt, query, buffer, outcome, made, broken,
                   replies, authed, executed, disturbed>>

WriteFails ==
    /\ pc = "write" /\ broken[socket_]
    /\ Lost
    /\ UNCHANGED <<buffer, netVars, disturbed>>

\* ReadExact of the next part
Read(part) ==
    /\ replies[socket_] # <<>>
    /\ part = Head(replies[socket_])
    /\ replies' = [replies EXCEPT ![socket_] = Tail(@)]
    /\ UNCHANGED <<made, broken, requests, authed, executed, disturbed>>

\* Mutated form: the end of the stream counts as progress.
NeverEnds == FALSE

\* read returns 0 or -1
StreamEnds == broken[socket_] /\ replies[socket_] = <<>>

\* The size is read and, unless it is extended, judged.
ReadSize ==
    /\ pc \in {"size", "extended"}
    /\ \E part \in PartObject :
         /\ Read(part)
         /\ \/ part.val = "bad" /\ GiveUpOnSize
            \/ /\ part.val # "bad"
               /\ pc' = IF part.val = "extended" THEN "extended" ELSE "body"
               /\ UNCHANGED <<socket_, handshake, attempt, query, outcome>>
    /\ UNCHANGED buffer

\* Only a response of which nothing came is asked for again.
ReadSizeFails ==
    /\ pc \in {"size", "extended"} /\ StreamEnds
    /\ \/ pc = "size" /\ Lost
       \/ pc = "extended" /\ GiveUp
    /\ UNCHANGED <<buffer, netVars, disturbed>>

\* The body is read over the request: connect has a buffer of its own.
ReadBody ==
    /\ pc = "body"
    /\ \E part \in PartObject :
         /\ Read(part)
         /\ \/ /\ ~handshake
               /\ pc' = "idle" /\ outcome' = Outcome(part.of, part.val)
               /\ buffer' = Overwritten
               /\ UNCHANGED <<socket_, handshake, attempt, query>>
            \/ /\ handshake /\ part.val = "Ok"
               /\ pc' = IF query = 0 THEN "idle" ELSE "write"
               /\ handshake' = FALSE
               /\ UNCHANGED <<socket_, attempt, query, outcome, buffer>>
            \/ /\ handshake /\ part.val # "Ok"
               /\ GiveUpOnLogin
               /\ UNCHANGED buffer

ReadBodyFails ==
    /\ pc = "body" /\ StreamEnds
    /\ buffer' = IF handshake THEN buffer ELSE Overwritten
    /\ GiveUpOnBody
    /\ UNCHANGED <<netVars, disturbed>>

\* QueryClient::~QueryClient
Destroy ==
    /\ pc = "idle" /\ pc' = "gone"
    /\ socket_' = -1
    /\ UNCHANGED <<handshake, attempt, query, buffer, outcome, netVars, disturbed>>

-----------------------------------------------------------------------------
(* The query manager and the network                                       *)

Response(q, status) ==
    { <<Part(q, "fits"), Part(q, status)>>,
      <<Part(q, "bad"), Part(q, status)>>,
      <<Part(q, "extended"), Part(q, "fits"), Part(q, status)>>,
      <<Part(q, "extended"), Part(q, "bad"), Part(q, status)>> }

\* A response that makes the client fail
Unusable(q, status, response) ==
    \/ \E i \in DOMAIN response : response[i].val = "bad"
    \/ q = LoginQuery /\ status # "Ok"

\* The next request of a connection is carried out and answered.  It need not be
\* the connection in use: requests outlive the client's interest in them.
Serve(c) ==
    /\ requests[c] # <<>>
    /\ LET q == Head(requests[c]) IN
         \E status \in Statuses : \E response \in Response(q, status) :
           /\ requests' = [requests EXCEPT ![c] = Tail(@)]
           /\ replies' = IF broken[c] THEN replies
                         ELSE [replies EXCEPT ![c] = @ \o response]
           /\ authed' = [authed EXCEPT ![c] = @ \/ (q = LoginQuery /\ status = "Ok")]
           /\ executed' = IF q \in Queries THEN [executed EXCEPT ![q] = @ + 1] ELSE executed
           /\ disturbed' = (disturbed \/ (c = socket_ /\ Unusable(q, status, response)))
    /\ UNCHANGED <<pc, socket_, handshake, attempt, query, buffer, outcome, made, broken>>

\* A connection breaks, its last replies lost; so are the requests if it is the
\* query manager that stops.
Break(c) ==
    /\ c <= made /\ ~broken[c]
    /\ broken' = [broken EXCEPT ![c] = TRUE]
    /\ \E n \in 0 .. Len(replies[c]) :
         replies' = [replies EXCEPT ![c] = SubSeq(@, 1, n)]
    /\ requests' \in {requests, [requests EXCEPT ![c] = <<>>]}
    /\ disturbed' = (disturbed \/ (c = socket_ /\ pc # "idle"))
    /\ UNCHANGED <<pc, socket_, handshake, attempt, query, buffer, outcome, made, authed,
                   executed>>

-----------------------------------------------------------------------------
ClientStep ==
    \/ Construct \/ ConnectFails \/ ConnectSucceeds
    \/ WriteRequest \/ WriteFails \/ ReadSize \/ ReadSizeFails \/ ReadBody \/ ReadBodyFails

Next ==
    \/ ClientStep \/ Ask \/ Destroy
    \/ \E c \in Connections : Serve(c) \/ Break(c)

Spec == Init /\ [][Next]_vars

\* The client's thread runs; the query manager carries out what it is sent.
\* Nobody need ask, and no connection need break.
FairSpec ==
    /\ Spec
    /\ WF_vars(ClientStep)
    /\ \A c \in Connections : WF_vars(Serve(c))

-----------------------------------------------------------------------------
(* The abstract specification                                              *)

\* All that a caller sees of the client's progress.
ServicePhase ==
    IF pc \in {"idle", "gone"} THEN pc ELSE IF query = 0 THEN "starting" ELSE "busy"

Service == INSTANCE QueryService WITH phase <- ServicePhase

\* The client with its sockets, retries and broken connections behaves as
\* QueryService promises: a query is answered from its own execution or fails,
\* and what was given up may be carried out late but never a third time.
ImplementsService == Service!Spec

-----------------------------------------------------------------------------
\* A response is the one to the query that was asked, in whatever way earlier
\* queries and attempts ended.
OwnResponse ==
    pc = "idle" /\ outcome # NoResponse => outcome.of = query

\* What is written is a request: the response goes into the same buffer, and no
\* attempt is made after a part of it was read ("the response is read into the
\* same buffer used by write_buffer").
RequestsIntact ==
    \A c \in Connections : \A i \in DOMAIN requests[c] : requests[c][i] # Overwritten

\* On a connection whose login was not accepted nothing but the login is sent.
LoginComesFirst ==
    \A c \in Connections : \A i \in DOMAIN requests[c] :
      requests[c][i] = LoginQuery \/ authed[c]

\* The retry may carry a query out a second time, late requests included, but
\* never a third; and a response means that it was carried out.
AtMostTwice ==
    /\ \A q \in Queries : executed[q] <= max_attempts
    /\ pc = "idle" /\ outcome # NoResponse => executed[query] > 0

\* What auto_reconnect is for: a connection lost while nothing was asked (the
\* query manager was restarted) does not make the next query fail.
StaleConnectionHidden ==
    pc = "idle" /\ query > 0 /\ outcome = NoResponse => disturbed

\* A query comes to an end when the query manager answers or the connection
\* breaks (there is no timeout for the case that it does neither).
QueriesReturn == pc \notin {"idle", "gone"} ~> pc \in {"idle", "gone"}

=============================================================================
