--------------------------- MODULE FrontEndProofs ---------------------------
(***************************************************************************)
(* Proofs about the two front ends: TcpServer, for every number of slots   *)
(* and descriptors, every timeout and every buffer size, and WsAcceptor,   *)
(* for every set of sockets, every finite set of workers and every bound.  *)
(*                                                                         *)
(* The inductive invariant TcpIInv says of the table that each connection  *)
(* is as its state demands (ConnInv) and owns its descriptor (OwnInv), and *)
(* of the cycle what each stage of a slot's turn may rely on (StageInv).   *)
(* A handler changes the current slot only, so most steps are instances of *)
(* one lemma, TurnStep.  That of WsAcceptor is IInv: who holds a request,  *)
(* and which sockets may answer it.                                        *)
(***************************************************************************)
EXTENDS TcpServer, WsAcceptor, FiniteSetTheorems, TLAPS

-----------------------------------------------------------------------------
(* process_connections                                                     *)

\* A connection as its state demands.
ConnOK(c) ==
    /\ c.state = "Free" => c = FreeSlot
    /\ c.state # "Free" => c.socket # 0
    /\ c.state = "Reading" /\ c.socket # -1 =>
         /\ c.rw_position < ReadSize(c)
         /\ c.got = c.rw_position + (IF c.rw_size > 0 THEN 2 ELSE 0)
    /\ c.state = "Processing" =>
         c.rw_size > 0 /\ c.rw_position = c.rw_size /\ c.got = c.rw_size + 2
    /\ c.state = "Writing" => c.rw_position <= c.rw_size

ConnInv == \A i \in Slots : ConnOK(g_connections[i])

\* OwnedDescriptors, slot by slot.
OwnInv ==
    /\ g_listener # -1 => g_listener \in open
    /\ \A i \in Occupied :
         /\ g_connections[i].socket \in open \cup {-1}
         /\ g_connections[i].socket = g_listener => g_listener = -1
         /\ \A j \in Occupied :
              i # j => g_connections[i].socket # g_connections[j].socket
    /\ \A fd \in open :
         fd = g_listener \/ \E i \in Occupied : g_connections[i].socket = fd

\* A connection that is not in its turn.
Settled(c) == c.socket # -1 /\ c.state # "Processing"

OthersSettled == \A i \in Occupied : i # cur => Settled(g_connections[i])

\* The stages of a turn and of the rest of the program.
Turn == {"input", "read", "request", "output", "write", "check"}
Rest == {"boot", "loop", "accept", "next", "exit", "exited"}

\* What a stage of the current slot's turn relies on.
TurnInv ==
    /\ pc = "input" => Settled(Conn)
    /\ pc = "read" => Conn.state = "Reading" /\ Conn.socket # -1
    /\ pc = "write" => Conn.state = "Writing" /\ Conn.socket # -1
    /\ pc \in {"output", "check"} => Conn.socket = -1 \/ Conn.state # "Processing"

StageInv ==
    /\ pc \in Turn \cup Rest
    /\ pc \in Turn => cur \in Occupied /\ TurnInv
    /\ pc \in Rest => \A i \in Occupied : Settled(g_connections[i])
    /\ OthersSettled
    /\ polled \subseteq Occupied /\ cur \notin polled
    /\ pc \in {"boot", "loop", "exit", "exited"} => polled = {} /\ cur = -1
    /\ pc \in {"boot", "exited"} => g_listener = -1 /\ Occupied = {}

TcpIInv == TcpTypeOK /\ ConnInv /\ OwnInv /\ StageInv

-----------------------------------------------------------------------------
\* -1 is no slot and no descriptor.
LEMMA MinusOne == -1 \notin Slots /\ -1 \notin Descriptors /\ 0 \notin Descriptors
  BY TcpAssumption DEF Slots

\* A connection record has the fields it is built from.
LEMMA ConnectionFields ==
  ASSUME NEW st, NEW so, NEW el, NEW si, NEW po, NEW go
  PROVE  LET c == Connection(st, so, el, si, po, go) IN
           /\ c.state = st /\ c.socket = so /\ c.elapsed = el
           /\ c.rw_size = si /\ c.rw_position = po /\ c.got = go
  BY Zenon DEF Connection

\* It is a connection when they have their types.
LEMMA ConnectionType ==
  ASSUME NEW st \in {"Free", "Reading", "Processing", "Writing"},
         NEW so \in Descriptors \cup {-1, 0}, NEW el \in 0 .. connection_timeout,
         NEW si \in 0 .. BufferSize, NEW po \in 0 .. BufferSize, NEW go \in Nat
  PROVE  Connection(st, so, el, si, po, go) \in ConnectionObject
  BY Zenon DEF Connection, ConnectionObject

\* The types of a connection's fields.
LEMMA FieldTypes ==
  ASSUME NEW c \in ConnectionObject
  PROVE  /\ c.state \in {"Free", "Reading", "Processing", "Writing"}
         /\ c.socket \in Descriptors \cup {-1, 0}
         /\ c.elapsed \in 0 .. connection_timeout
         /\ c.rw_size \in 0 .. BufferSize /\ c.rw_position \in 0 .. BufferSize
         /\ c.got \in Nat
  BY Zenon DEF ConnectionObject

\* A free slot is a well-typed connection.
LEMMA FreeSlotOK == FreeSlot \in ConnectionObject /\ ConnOK(FreeSlot)
<1>1. FreeSlot \in ConnectionObject
  BY ConnectionType, TcpAssumption DEF FreeSlot
<1>2. FreeSlot.state = "Free"
  BY ConnectionFields DEF FreeSlot
<1> QED
  BY <1>1, <1>2, Zenon DEF ConnOK

\* Update changes the current slot and no other.
LEMMA UpdatePoints ==
  ASSUME TcpTypeOK, cur \in Slots, NEW c, NEW to, Update(c, to)
  PROVE  /\ g_connections'[cur] = c
         /\ \A i \in Slots : i # cur => g_connections'[i] = g_connections[i]
         /\ c \in ConnectionObject => g_connections' \in [Slots -> ConnectionObject]
         /\ pc' = to /\ cur' = cur /\ polled' = polled /\ revents' = revents
         /\ UNCHANGED <<g_listener, g_ShutdownSignal, backlog, clients>>
  BY Zenon DEF TcpTypeOK, Update, cycleVars

\* The step of a handler that leaves the current connection as it was or makes
\* it c, with the same descriptor or with the descriptor closed.
LEMMA TurnStep ==
  ASSUME TcpIInv, cur \in Occupied, NEW c \in ConnectionObject, NEW to \in Turn \cup {"next"},
         Update(c, to), ConnOK(c), c.state # "Free",
         \/ c.socket = Conn.socket /\ open' = open
         \/ c.socket = -1 /\ open' = open \ {Conn.socket}
  PROVE  /\ TcpTypeOK' /\ ConnInv' /\ OwnInv' /\ OthersSettled'
         /\ Occupied' = Occupied /\ Conn' = c /\ pc' = to
         /\ UNCHANGED <<cur, polled, g_listener>>
<1> USE DEF Occupied, Conn
<1>0. cur \in Slots
  BY Zenon
<1> DEFINE P ==
         /\ g_connections'[cur] = c
         /\ \A i \in Slots : i # cur => g_connections'[i] = g_connections[i]
         /\ g_connections' \in [Slots -> ConnectionObject]
         /\ pc' = to /\ cur' = cur /\ polled' = polled /\ revents' = revents
         /\ UNCHANGED <<g_listener, g_ShutdownSignal, backlog, clients>>
<1>1. P
  BY <1>0, UpdatePoints, Zenon DEF TcpIInv
<1>2. Occupied' = Occupied /\ Conn' = c
  BY <1>1, Zenon
<1>3. TcpTypeOK'
  <2>1. open' \in SUBSET Descriptors
    BY Zenon DEF TcpIInv, TcpTypeOK
  <2> QED
    BY <1>1, <2>1, Zenon DEF TcpIInv, TcpTypeOK, Turn
<1>4. ConnInv'
  BY <1>1 DEF TcpIInv, ConnInv, ConnOK, ReadSize, FreeSlot, Connection
<1>5. OthersSettled'
  BY <1>1, <1>2, Zenon DEF TcpIInv, StageInv, OthersSettled, Settled
<1>6. OwnInv'
  <2>1. \A i \in Occupied : i # cur => g_connections[i].socket # -1
    BY Zenon DEF TcpIInv, StageInv, OthersSettled, Settled
  <2>2. CASE c.socket = Conn.socket /\ open' = open
    BY <1>1, <1>2, <2>2 DEF TcpIInv, OwnInv
  <2>3. CASE c.socket = -1 /\ open' = open \ {Conn.socket}
    BY <1>1, <1>2, <2>1, <2>3 DEF TcpIInv, OwnInv
  <2> QED
    BY <2>2, <2>3, Zenon
<1> QED
  BY <1>1, <1>2, <1>3, <1>4, <1>5, <1>6, Zenon

\* Such a step keeps the invariant when c is what the next stage relies on.
LEMMA HandlerStep ==
  ASSUME TcpIInv, pc \in Turn, NEW c \in ConnectionObject, NEW to \in Turn \cup {"next"},
         Update(c, to), ConnOK(c), c.state # "Free",
         \/ c.socket = Conn.socket /\ open' = open
         \/ c.socket = -1 /\ open' = open \ {Conn.socket},
         to # "input",
         to = "read" => c.state = "Reading" /\ c.socket # -1,
         to = "write" => c.state = "Writing" /\ c.socket # -1,
         to \in {"output", "check"} => c.socket = -1 \/ c.state # "Processing",
         to = "next" => Settled(c)
  PROVE  TcpIInv'
<1>1. cur \in Occupied
  BY Zenon DEF TcpIInv, StageInv
<1> DEFINE P ==
         /\ TcpTypeOK' /\ ConnInv' /\ OwnInv' /\ OthersSettled'
         /\ Occupied' = Occupied /\ Conn' = c /\ pc' = to
         /\ UNCHANGED <<cur, polled, g_listener>>
<1>2. P
  BY <1>1, TurnStep, Zenon
<1>3. to \in Turn => TurnInv'
  BY <1>2, Zenon DEF TurnInv
<1>4. to = "next" => \A i \in Occupied' : Settled(g_connections'[i])
  BY <1>2, Zenon DEF OthersSettled, Conn, Settled
<1>5. to \notin {"boot", "loop", "exit", "exited"}
  BY Zenon DEF Turn
<1>6. polled' \subseteq Occupied' /\ cur' \notin polled'
  BY <1>2, Zenon DEF TcpIInv, StageInv
<1>7. (to \in Turn => cur' \in Occupied') /\ (to \in Rest => to = "next")
  BY <1>1, <1>2, Zenon DEF Turn, Rest
<1>8. to \in Turn \cup Rest
  BY Zenon DEF Rest
<1> QED
  BY <1>2, <1>3, <1>4, <1>5, <1>6, <1>7, <1>8, Zenon DEF TcpIInv, StageInv

\* A handler that leaves the connection alone.
LEMMA SkipStep ==
  ASSUME TcpIInv, pc \in Turn, NEW to \in Turn \cup {"next"}, Skip(to),
         to # "input",
         to = "read" => Conn.state = "Reading" /\ Conn.socket # -1,
         to = "write" => Conn.state = "Writing" /\ Conn.socket # -1,
         to \in {"output", "check"} => Conn.socket = -1 \/ Conn.state # "Processing",
         to = "next" => Settled(Conn)
  PROVE  TcpIInv'
<1>1. cur \in Slots /\ Conn.state # "Free"
  BY Zenon DEF TcpIInv, StageInv, Occupied, Conn
<1>2. Conn \in ConnectionObject /\ ConnOK(Conn)
  BY <1>1, Zenon DEF TcpIInv, TcpTypeOK, ConnInv, Conn
<1>3. Update(Conn, to) /\ open' = open
  BY Zenon DEF Skip
<1> QED
  BY <1>1, <1>2, <1>3, HandlerStep, Zenon

\* A handler that closes the connection, as c, within a turn.
LEMMA CloseStep ==
  ASSUME TcpIInv, pc \in Turn, NEW to \in {"request", "output", "check"},
         NEW c \in ConnectionObject, CloseConnection(c, to),
         c.socket = Conn.socket, c.state # "Free",
         c.state = "Processing" => c = Conn, c.state = "Writing" => c = Conn
  PROVE  TcpIInv'
<1> DEFINE d == Connection(c.state, -1, c.elapsed, c.rw_size, c.rw_position, c.got)
<1>1. cur \in Slots /\ ConnOK(Conn)
  BY Zenon DEF TcpIInv, StageInv, Occupied, ConnInv, Conn
<1>2. d \in ConnectionObject
  <2>1. c.state \in {"Free", "Reading", "Processing", "Writing"}
        /\ c.elapsed \in 0 .. connection_timeout
        /\ c.rw_size \in 0 .. BufferSize /\ c.rw_position \in 0 .. BufferSize
        /\ c.got \in Nat
    BY FieldTypes, Zenon
  <2> QED
    BY <2>1, ConnectionType, Zenon
<1>3. /\ d.state = c.state /\ d.socket = -1 /\ d.rw_size = c.rw_size
      /\ d.rw_position = c.rw_position /\ d.got = c.got
  BY ConnectionFields
<1>4. Update(d, to) /\ open' = open \ {Conn.socket}
  BY Zenon DEF CloseConnection
<1> HIDE DEF d
<1>5. ConnOK(d)
  BY <1>1, <1>3 DEF ConnOK
<1> QED
  BY <1>2, <1>3, <1>4, <1>5, HandlerStep, Zenon DEF Turn

-----------------------------------------------------------------------------
\* What is known of the current connection during its turn.
LEMMA TurnFacts ==
  ASSUME TcpIInv, pc \in Turn
  PROVE  /\ cur \in Slots /\ Conn \in ConnectionObject /\ ConnOK(Conn)
         /\ Conn.state # "Free" /\ TurnInv
  BY Zenon DEF TcpIInv, StageInv, Occupied, TcpTypeOK, ConnInv, Conn

\* check_connection_input keeps the invariant ...
LEMMA CheckInputStep == TcpIInv /\ CheckInput => TcpIInv'
<1> SUFFICES ASSUME TcpIInv, CheckInput PROVE TcpIInv'
  BY Zenon
<1>1. pc = "input" /\ pc \in Turn
  BY Zenon DEF CheckInput, Turn
<1>2. Conn \in ConnectionObject /\ Settled(Conn) /\ Conn.state # "Free"
  BY <1>1, TurnFacts, Zenon DEF TurnInv
<1>3. CASE Skip("request")
  BY <1>1, <1>3, SkipStep, Zenon DEF Turn
<1>4. CASE Conn.state = "Reading" /\ Skip("read")
  BY <1>1, <1>2, <1>4, SkipStep, Zenon DEF Turn, Settled
<1>5. CASE CloseConnection(Conn, "request")
  BY <1>1, <1>2, <1>5, CloseStep, Zenon
<1> QED
  BY <1>3, <1>4, <1>5, Zenon DEF CheckInput

\* ... also when read reports nothing, an error or the end ...
LEMMA ReadStopsStep == TcpIInv /\ ReadStops => TcpIInv'
<1> SUFFICES ASSUME TcpIInv, ReadStops PROVE TcpIInv'
  BY Zenon
<1>1. pc = "read" /\ pc \in Turn
  BY Zenon DEF ReadStops, Turn
<1>2. Conn \in ConnectionObject /\ Conn.state # "Free"
  BY <1>1, TurnFacts, Zenon
<1>3. CASE Skip("request")
  BY <1>1, <1>3, SkipStep, Zenon DEF Turn
<1>4. CASE CloseConnection(Conn, "request")
  BY <1>1, <1>2, <1>4, CloseStep, Zenon
<1> QED
  BY <1>3, <1>4, Zenon DEF ReadStops

\* ... and when read moves n bytes, wherever they leave the request.
LEMMA ReadBytesStep ==
  ASSUME TcpIInv, NEW n \in 1 .. BufferSize, ReadBytes(n)
  PROVE  TcpIInv'
<1> DEFINE position == Conn.rw_position + n
           Moved(state, size, pos) ==
             Connection(state, Conn.socket, Conn.elapsed, size, pos, Conn.got + n)
<1>1. pc = "read" /\ pc \in Turn /\ n <= ReadSize(Conn) - Conn.rw_position
  BY Zenon DEF ReadBytes, Turn, Wanted
<1>2. Conn \in ConnectionObject /\ ConnOK(Conn) /\ Conn.state = "Reading" /\ Conn.socket # -1
  BY <1>1, TurnFacts, Zenon DEF TurnInv
<1>3. /\ Conn.socket \in Descriptors \cup {-1, 0} /\ Conn.socket # 0
      /\ Conn.elapsed \in 0 .. connection_timeout
      /\ Conn.rw_size \in 0 .. BufferSize /\ Conn.rw_position \in 0 .. BufferSize
      /\ Conn.got \in Nat
      /\ Conn.got = Conn.rw_position + (IF Conn.rw_size > 0 THEN 2 ELSE 0)
  BY <1>2, FieldTypes, Zenon DEF ConnOK
<1>4. ReadSize(Conn) \in 1 .. BufferSize /\ (Conn.rw_size = 0 => ReadSize(Conn) = 2)
      /\ (Conn.rw_size # 0 => ReadSize(Conn) = Conn.rw_size)
  BY <1>3, TcpAssumption DEF ReadSize
<1>5. position \in 1 .. BufferSize /\ position <= ReadSize(Conn) /\ Conn.got + n \in Nat
  BY <1>1, <1>3, <1>4, TcpAssumption
<1>6. ASSUME NEW st \in {"Reading", "Processing"}, NEW si \in 0 .. BufferSize,
             NEW po \in 0 .. BufferSize
      PROVE  /\ Moved(st, si, po) \in ConnectionObject
             /\ Moved(st, si, po).state = st /\ Moved(st, si, po).socket = Conn.socket
             /\ Moved(st, si, po).rw_size = si /\ Moved(st, si, po).rw_position = po
             /\ Moved(st, si, po).got = Conn.got + n
  <2>1. st \in {"Free", "Reading", "Processing", "Writing"}
    BY Zenon
  <2>2. Moved(st, si, po) \in ConnectionObject
    BY <1>3, <1>5, <2>1, ConnectionType, Zenon
  <2> QED
    BY <2>2, Zenon DEF Connection
<1> HIDE DEF Moved
<1>7. CASE /\ position < ReadSize(Conn) /\ open' = open
           /\ Update(Moved("Reading", Conn.rw_size, position), "read")
  <2> DEFINE c == Moved("Reading", Conn.rw_size, position)
  <2>1. /\ c \in ConnectionObject /\ c.state = "Reading" /\ c.socket = Conn.socket
        /\ c.rw_size = Conn.rw_size /\ c.rw_position = position /\ c.got = Conn.got + n
    BY <1>3, <1>5, <1>6
  <2> HIDE DEF c
  <2>2. ConnOK(c)
    BY <1>3, <1>7, <2>1 DEF ConnOK, ReadSize
  <2>3. Update(c, "read")
    BY <1>7, Zenon DEF c
  <2> QED
    BY <1>1, <1>2, <1>7, <2>1, <2>2, <2>3, HandlerStep, Zenon DEF Turn
<1>8. CASE /\ position >= ReadSize(Conn) /\ Conn.rw_size # 0 /\ open' = open
           /\ Update(Moved("Processing", Conn.rw_size, position), "request")
  <2> DEFINE c == Moved("Processing", Conn.rw_size, position)
  <2>1. /\ c \in ConnectionObject /\ c.state = "Processing" /\ c.socket = Conn.socket
        /\ c.rw_size = Conn.rw_size /\ c.rw_position = position /\ c.got = Conn.got + n
    BY <1>3, <1>5, <1>6
  <2> HIDE DEF c
  <2>2. ConnOK(c)
    BY <1>3, <1>4, <1>5, <1>8, <2>1 DEF ConnOK
  <2>3. Update(c, "request")
    BY <1>8, Zenon DEF c
  <2> QED
    BY <1>1, <1>2, <1>8, <2>1, <2>2, <2>3, HandlerStep, Zenon DEF Turn
<1>9. ASSUME NEW PayloadSize \in 0 .. MaxU16, PayloadFits(PayloadSize), Conn.rw_size = 0,
             position = 2, Update(Moved("Reading", PayloadSize, 0), "read"), open' = open
      PROVE  TcpIInv'
  <2> DEFINE c == Moved("Reading", PayloadSize, 0)
  <2>0. PayloadSize \in 1 .. BufferSize /\ 0 \in 0 .. BufferSize
    BY <1>9, TcpAssumption DEF PayloadFits
  <2>1. /\ c \in ConnectionObject /\ c.state = "Reading" /\ c.socket = Conn.socket
        /\ c.rw_size = PayloadSize /\ c.rw_position = 0 /\ c.got = Conn.got + n
    BY <1>6, <2>0
  <2> HIDE DEF c
  <2>2. ConnOK(c)
    BY <1>3, <1>9, <2>0, <2>1 DEF ConnOK, ReadSize
  <2>3. Update(c, "read")
    BY <1>9, Zenon DEF c
  <2> QED
    BY <1>1, <1>2, <1>9, <2>1, <2>2, <2>3, HandlerStep, Zenon DEF Turn
<1>10. CASE CloseConnection(Moved("Reading", 0, 2), "request")
  <2> DEFINE c == Moved("Reading", 0, 2)
  <2>0. 0 \in 0 .. BufferSize /\ 2 \in 0 .. BufferSize
    BY TcpAssumption, SMT
  <2>1. c \in ConnectionObject /\ c.state = "Reading" /\ c.socket = Conn.socket
    BY <1>6, <2>0
  <2> HIDE DEF c
  <2>2. CloseConnection(c, "request")
    BY <1>10, Zenon DEF c
  <2> QED
    BY <1>1, <2>1, <2>2, CloseStep, Zenon
<1>11. position >= ReadSize(Conn) /\ Conn.rw_size = 0 => position = 2
  BY <1>4, <1>5
<1>12. position < ReadSize(Conn) \/ position >= ReadSize(Conn)
  BY <1>4, <1>5
<1> QED
  BY <1>7, <1>8, <1>9, <1>10, <1>11, <1>12, Zenon DEF ReadBytes, Moved

\* check_connection_request keeps the invariant.
LEMMA CheckRequestStep == TcpIInv /\ CheckRequest => TcpIInv'
<1> SUFFICES ASSUME TcpIInv, CheckRequest PROVE TcpIInv'
  BY Zenon
<1>1. pc = "request" /\ pc \in Turn
  BY Zenon DEF CheckRequest, Turn
<1>2. Conn \in ConnectionObject /\ ConnOK(Conn) /\ Conn.state # "Free"
  BY <1>1, TurnFacts, Zenon
<1>3. CASE (Conn.socket = -1 \/ Conn.state # "Processing") /\ Skip("output")
  BY <1>1, <1>3, SkipStep, Zenon DEF Turn
<1>4. CASE CloseConnection(Conn, "output")
  BY <1>1, <1>2, <1>4, CloseStep, Zenon
<1>5. ASSUME NEW size \in 0 .. BufferSize, Conn.socket # -1,
             Update(Respond(size), "output"), open' = open
      PROVE  TcpIInv'
  <2> DEFINE c == Respond(size)
  <2>1. Conn.socket \in Descriptors \cup {-1, 0} /\ Conn.socket # 0
        /\ Conn.elapsed \in 0 .. connection_timeout /\ Conn.got \in Nat
    BY <1>2, FieldTypes, Zenon DEF ConnOK
  <2>2. 0 \in 0 .. BufferSize
    BY TcpAssumption
  <2>3. c \in ConnectionObject
    BY <2>1, <2>2, ConnectionType, Zenon DEF Respond
  <2>4. /\ c.state = "Writing" /\ c.socket = Conn.socket
        /\ c.rw_size = size /\ c.rw_position = 0
    BY ConnectionFields DEF Respond
  <2> HIDE DEF c
  <2>5. ConnOK(c)
    BY <2>1, <2>4 DEF ConnOK
  <2>6. Update(c, "output")
    BY <1>5, Zenon DEF c
  <2> QED
    BY <1>1, <1>5, <2>3, <2>4, <2>5, <2>6, HandlerStep, Zenon DEF Turn
<1> QED
  BY <1>3, <1>4, <1>5, Zenon DEF CheckRequest

\* check_connection_output keeps the invariant ...
LEMMA CheckOutputStep == TcpIInv /\ CheckOutput => TcpIInv'
<1> SUFFICES ASSUME TcpIInv, CheckOutput PROVE TcpIInv'
  BY Zenon
<1>1. pc = "output" /\ pc \in Turn
  BY Zenon DEF CheckOutput, Turn
<1>2. TurnInv
  BY <1>1, TurnFacts, Zenon
<1>3. CASE Skip("check")
  BY <1>1, <1>2, <1>3, SkipStep, Zenon DEF Turn, TurnInv
<1>4. CASE Conn.socket # -1 /\ Conn.state = "Writing" /\ Skip("write")
  BY <1>1, <1>4, SkipStep, Zenon DEF Turn
<1> QED
  BY <1>3, <1>4, Zenon DEF CheckOutput

\* ... also when write would block or fails ...
LEMMA WriteStopsStep == TcpIInv /\ WriteStops => TcpIInv'
<1> SUFFICES ASSUME TcpIInv, WriteStops PROVE TcpIInv'
  BY Zenon
<1>1. pc = "write" /\ pc \in Turn
  BY Zenon DEF WriteStops, Turn
<1>2. Conn \in ConnectionObject /\ Conn.state = "Writing"
  BY <1>1, TurnFacts, Zenon DEF TurnInv
<1>3. CASE Skip("check")
  BY <1>1, <1>2, <1>3, SkipStep, Zenon DEF Turn
<1>4. CASE CloseConnection(Conn, "check")
  BY <1>1, <1>2, <1>4, CloseStep, Zenon
<1> QED
  BY <1>3, <1>4, Zenon DEF WriteStops

\* ... and when it moves n bytes.
LEMMA WriteBytesStep ==
  ASSUME TcpIInv, NEW n \in 0 .. BufferSize, WriteBytes(n)
  PROVE  TcpIInv'
<1>1. pc = "write" /\ pc \in Turn
  BY Zenon DEF WriteBytes, Turn
<1>2. /\ Conn \in ConnectionObject /\ ConnOK(Conn)
      /\ Conn.state = "Writing" /\ Conn.socket # -1
  BY <1>1, TurnFacts, Zenon DEF TurnInv
<1>3. CASE CloseConnection(Conn, "check")
  BY <1>1, <1>2, <1>3, CloseStep, Zenon
<1>4. CASE /\ Conn.rw_position + n < Conn.rw_size /\ open' = open
           /\ Update(Connection(Conn.state, Conn.socket, Conn.elapsed, Conn.rw_size,
                                Conn.rw_position + n, Conn.got), "write")
  <2> DEFINE c == Connection(Conn.state, Conn.socket, Conn.elapsed, Conn.rw_size,
                             Conn.rw_position + n, Conn.got)
  <2>1. /\ Conn.state \in {"Free", "Reading", "Processing", "Writing"}
        /\ Conn.socket \in Descriptors \cup {-1, 0} /\ Conn.socket # 0
        /\ Conn.elapsed \in 0 .. connection_timeout /\ Conn.got \in Nat
        /\ Conn.rw_size \in 0 .. BufferSize /\ Conn.rw_position \in 0 .. BufferSize
    BY <1>2, FieldTypes, Zenon DEF ConnOK
  <2>2. Conn.rw_position + n \in 0 .. BufferSize
    BY <1>4, <2>1, TcpAssumption
  <2>3. c \in ConnectionObject
    BY <2>1, <2>2, ConnectionType, Zenon
  <2>4. /\ c.state = "Writing" /\ c.socket = Conn.socket
        /\ c.rw_size = Conn.rw_size /\ c.rw_position = Conn.rw_position + n
    BY <1>2, ConnectionFields
  <2>5. Update(c, "write")
    BY <1>4, Zenon
  <2> HIDE DEF c
  <2>6. ConnOK(c)
    BY <1>4, <2>1, <2>2, <2>4 DEF ConnOK
  <2> QED
    BY <1>1, <1>2, <1>4, <2>3, <2>4, <2>5, <2>6, HandlerStep, Zenon DEF Turn
<1>5. \/ Conn.rw_position + n >= Conn.rw_size
      \/ Conn.rw_position + n < Conn.rw_size
  BY <1>2, FieldTypes
<1> QED
  BY <1>3, <1>4, <1>5, Zenon DEF WriteBytes

\* check_connection keeps the invariant: what it releases is clean and closed.
LEMMA CheckConnectionStep == TcpIInv /\ CheckConnection => TcpIInv'
<1> SUFFICES ASSUME TcpIInv, CheckConnection PROVE TcpIInv'
  BY Zenon
<1>1. pc = "check" /\ pc \in Turn
  BY Zenon DEF CheckConnection, Turn
<1>2. cur \in Slots /\ cur \in Occupied /\ TurnInv
  BY <1>1, TurnFacts, Zenon DEF TcpIInv, StageInv
<1>3. CASE Conn.socket # -1 /\ Skip("next")
  BY <1>1, <1>2, <1>3, SkipStep, Zenon DEF Turn, TurnInv, Settled
<1>4. CASE Update(FreeSlot, "next") /\ open' = open \ {Conn.socket}
  <2>1. /\ g_connections'[cur] = FreeSlot
        /\ \A i \in Slots : i # cur => g_connections'[i] = g_connections[i]
        /\ g_connections' \in [Slots -> ConnectionObject]
        /\ pc' = "next" /\ cur' = cur /\ polled' = polled /\ revents' = revents
        /\ UNCHANGED <<g_listener, g_ShutdownSignal, backlog, clients>>
    BY <1>2, <1>4, UpdatePoints, FreeSlotOK, Zenon DEF TcpIInv
  <2>2. FreeSlot.state = "Free"
    BY ConnectionFields DEF FreeSlot
  <2>3. Occupied' = Occupied \ {cur}
    BY <2>1, <2>2, Zenon DEF Occupied
  <2>4. TcpTypeOK'
    BY <1>4, <2>1, Zenon DEF TcpIInv, TcpTypeOK
  <2>5. ConnInv'
    <3>1. ASSUME NEW i \in Slots PROVE ConnOK(g_connections[i])'
      <4>1. g_connections'[i] = FreeSlot \/ g_connections'[i] = g_connections[i]
        BY <2>1, Zenon
      <4>2. ConnOK(g_connections'[i])
        BY <4>1, FreeSlotOK, Zenon DEF TcpIInv, ConnInv
      <4> QED
        BY <4>2, Zenon DEF ConnOK, ReadSize, FreeSlot, Connection
    <3> QED
      BY <3>1, Zenon DEF ConnInv
  <2>6. \A i \in Occupied' : i \in Occupied /\ i # cur /\ i \in Slots
                            /\ g_connections'[i] = g_connections[i]
    BY <2>1, <2>3, Zenon DEF Occupied
  <2>7. OwnInv'
    BY <1>2, <1>4, <2>1, <2>3, <2>6 DEF TcpIInv, OwnInv, Conn
  <2>8. StageInv'
    <3>1. \A i \in Occupied' : Settled(g_connections'[i])
      BY <2>6, Zenon DEF TcpIInv, StageInv, OthersSettled
    <3>2. polled' \subseteq Occupied' /\ cur' \notin polled'
      BY <2>1, <2>3, Zenon DEF TcpIInv, StageInv
    <3> QED
      BY <2>1, <3>1, <3>2, Zenon DEF StageInv, OthersSettled, Settled, Turn, Rest
  <2> QED
    BY <2>4, <2>5, <2>7, <2>8, Zenon DEF TcpIInv
<1> QED
  BY <1>3, <1>4, Zenon DEF CheckConnection, Release

-----------------------------------------------------------------------------
\* A step that leaves the table and the descriptors alone and stays outside a
\* turn keeps what is said of them.
LEMMA TableKept ==
  ASSUME TcpIInv, UNCHANGED <<g_connections, g_listener, open>>
  PROVE  /\ ConnInv' /\ OwnInv' /\ Occupied' = Occupied
         /\ (\A i \in Occupied : Settled(g_connections[i]))
              => \A i \in Occupied' : Settled(g_connections'[i])
  BY DEF TcpIInv, ConnInv, ConnOK, ReadSize, FreeSlot, Connection, OwnInv, Occupied, Settled

\* init_connections keeps the invariant.
LEMMA InitConnectionsStep == TcpIInv /\ InitConnections => TcpIInv'
<1> SUFFICES ASSUME TcpIInv, InitConnections PROVE TcpIInv'
  BY Zenon
<1>1. pc = "boot" /\ g_connections' = g_connections /\ UNCHANGED cycleVars
  BY Zenon DEF InitConnections
<1>2. Occupied = {} /\ Occupied' = {} /\ polled = {} /\ cur = -1 /\ g_listener = -1
  BY <1>1, Zenon DEF TcpIInv, StageInv, Occupied
<1>3. ConnInv'
  BY <1>1, ZenonT(60) DEF TcpIInv, ConnInv, ConnOK, ReadSize, FreeSlot, Connection
<1>4. TcpTypeOK'
  BY <1>1, Zenon DEF TcpIInv, TcpTypeOK, InitConnections, cycleVars
<1>5. open = {}
  BY <1>2, MinusOne, Zenon DEF TcpIInv, OwnInv, TcpTypeOK
<1>6. OwnInv'
  BY <1>2, <1>5, Zenon DEF OwnInv, InitConnections
<1>7. StageInv'
  BY <1>1, <1>2, Zenon DEF StageInv, OthersSettled, InitConnections, Turn, Rest, cycleVars
<1> QED
  BY <1>3, <1>4, <1>6, <1>7, Zenon DEF TcpIInv

\* Filling Fds and polling keeps the invariant.
LEMMA PollStep == TcpIInv /\ Poll => TcpIInv'
<1> SUFFICES ASSUME TcpIInv, Poll PROVE TcpIInv'
  BY Zenon
<1>1. /\ pc = "loop" /\ pc' \in {"accept", "next"} /\ polled' = Occupied
      /\ UNCHANGED <<g_connections, g_listener, open, cur>>
  BY Zenon DEF Poll
<1>2. cur = -1 /\ \A i \in Occupied : Settled(g_connections[i])
  BY <1>1, Zenon DEF TcpIInv, StageInv, Rest
<1>3. revents' \in [Slots -> SUBSET Events]
  BY Zenon DEF Poll, Occupied
<1>4. TcpTypeOK'
  BY <1>1, <1>3, Zenon DEF TcpIInv, TcpTypeOK, Poll, Occupied
<1>5. /\ ConnInv' /\ OwnInv' /\ Occupied' = Occupied
      /\ \A i \in Occupied' : Settled(g_connections'[i])
  BY <1>1, <1>2, TableKept, Zenon
<1>6. cur' \notin polled'
  BY <1>1, <1>2, MinusOne, Zenon DEF Occupied
<1>7. StageInv'
  BY <1>1, <1>5, <1>6, Zenon DEF StageInv, OthersSettled, Turn, Rest
<1> QED
  BY <1>4, <1>5, <1>7, Zenon DEF TcpIInv

\* Leaving the loop, or the accept loop, keeps the invariant.
LEMMA LeaveStep == TcpIInv /\ (LeaveLoop \/ AcceptNone) => TcpIInv'
<1> SUFFICES ASSUME TcpIInv, LeaveLoop \/ AcceptNone PROVE TcpIInv'
  BY Zenon
<1>1. /\ \/ pc = "loop" /\ pc' = "exit"
         \/ pc = "accept" /\ pc' = "next"
      /\ UNCHANGED <<g_connections, g_listener, open, cycleVars>>
  BY Zenon DEF LeaveLoop, AcceptNone
<1>2. TcpTypeOK'
  BY <1>1, Zenon DEF TcpIInv, TcpTypeOK, LeaveLoop, AcceptNone, cycleVars
<1>3. /\ ConnInv' /\ OwnInv' /\ Occupied' = Occupied
      /\ \A i \in Occupied' : Settled(g_connections'[i])
  BY <1>1, TableKept, Zenon DEF TcpIInv, StageInv, Rest
<1>4. StageInv'
  BY <1>1, <1>3, Zenon DEF TcpIInv, StageInv, OthersSettled, Turn, Rest, cycleVars
<1> QED
  BY <1>2, <1>3, <1>4, Zenon DEF TcpIInv

\* Accepting keeps the invariant: the new descriptor is nobody's and its slot
\* clean.
LEMMA AcceptStep == TcpIInv /\ AcceptConnection => TcpIInv'
<1> SUFFICES ASSUME TcpIInv, AcceptConnection PROVE TcpIInv'
  BY Zenon
<1>1. /\ pc = "accept" /\ pc' = pc /\ backlog' \in Nat
      /\ UNCHANGED <<g_listener, g_ShutdownSignal, clients, cycleVars>>
  BY DEF AcceptConnection, TcpIInv, TcpTypeOK
<1>2. \A i \in Occupied : Settled(g_connections[i])
  BY <1>1, Zenon DEF TcpIInv, StageInv, Rest
<1>3. CASE UNCHANGED <<g_connections, open>>
  <2>1. TcpTypeOK'
    BY <1>1, <1>3, Zenon DEF TcpIInv, TcpTypeOK, cycleVars
  <2>2. /\ ConnInv' /\ OwnInv' /\ Occupied' = Occupied
        /\ \A i \in Occupied' : Settled(g_connections'[i])
    BY <1>1, <1>2, <1>3, TableKept, Zenon
  <2>3. StageInv'
    BY <1>1, <2>2, Zenon DEF TcpIInv, StageInv, OthersSettled, Turn, Rest, cycleVars
  <2> QED
    BY <2>1, <2>2, <2>3, Zenon DEF TcpIInv
<1>4. ASSUME NEW fd \in Descriptors \ open, NEW i \in Slots, FirstFree(i),
             g_connections' = [g_connections EXCEPT ![i] =
               Connection("Reading", fd, 0, g_connections[i].rw_size,
                          g_connections[i].rw_position, 0)],
             open' = open \cup {fd}
      PROVE  TcpIInv'
  <2> DEFINE c == Connection("Reading", fd, 0, 0, 0, 0)
  <2>1. i \notin Occupied /\ g_connections[i] = FreeSlot
    BY <1>4, Zenon DEF FirstFree, TcpIInv, ConnInv, ConnOK, Occupied
  <2>2. FreeSlot.rw_size = 0 /\ FreeSlot.rw_position = 0
    BY ConnectionFields DEF FreeSlot
  <2>3. g_connections' = [g_connections EXCEPT ![i] = c]
    BY <1>4, <2>1, <2>2, Zenon
  <2>4. c \in ConnectionObject
    BY ConnectionType, TcpAssumption
  <2>5. c.state = "Reading" /\ c.socket = fd /\ c.rw_size = 0 /\ c.rw_position = 0
        /\ c.got = 0
    BY ConnectionFields
  <2> HIDE DEF c
  <2>6. /\ g_connections'[i] = c
        /\ \A j \in Slots : j # i => g_connections'[j] = g_connections[j]
        /\ g_connections' \in [Slots -> ConnectionObject]
    BY <2>3, <2>4, Zenon DEF TcpIInv, TcpTypeOK
  <2>7. fd # -1 /\ fd # 0
    BY MinusOne, Zenon
  <2>8. ConnOK(c)
    BY <2>5, <2>7 DEF ConnOK, ReadSize
  <2>9. Occupied' = Occupied \cup {i}
    BY <2>5, <2>6, Zenon DEF Occupied
  <2>10. ConnInv'
    <3>1. ASSUME NEW j \in Slots PROVE ConnOK(g_connections[j])'
      <4>1. ConnOK(g_connections'[j])
        BY <2>6, <2>8, Zenon DEF TcpIInv, ConnInv
      <4> QED
        BY <4>1, Zenon DEF ConnOK, ReadSize, FreeSlot, Connection
    <3> QED
      BY <3>1, Zenon DEF ConnInv
  <2>11. TcpTypeOK'
    BY <1>1, <1>4, <2>6, Zenon DEF TcpIInv, TcpTypeOK, cycleVars
  <2>12. \A j \in Occupied : j \in Slots /\ j # i /\ g_connections'[j] = g_connections[j]
    BY <2>1, <2>6, Zenon DEF Occupied
  <2>13. OwnInv'
    BY <1>1, <1>4, <2>5, <2>6, <2>7, <2>9, <2>12 DEF TcpIInv, OwnInv
  <2>14. \A j \in Occupied' : Settled(g_connections'[j])
    BY <1>2, <2>5, <2>6, <2>7, <2>9, <2>12, Zenon DEF Settled
  <2>15. polled' \subseteq Occupied' /\ cur' \notin polled'
    BY <1>1, <2>9, Zenon DEF TcpIInv, StageInv, cycleVars
  <2>16. StageInv'
    BY <1>1, <2>14, <2>15, Zenon DEF StageInv, OthersSettled, Turn, Rest
  <2> QED
    BY <2>10, <2>11, <2>13, <2>16, Zenon DEF TcpIInv
<1> QED
  BY <1>3, <1>4, Zenon DEF AcceptConnection

\* Going to the next slot of Fds, or ending the cycle, keeps the invariant.
LEMMA NextSlotStep == TcpIInv /\ NextSlot => TcpIInv'
<1> SUFFICES ASSUME TcpIInv, NextSlot PROVE TcpIInv'
  BY Zenon
<1>1. pc = "next" /\ UNCHANGED <<g_connections, g_listener, open>>
  BY Zenon DEF NextSlot
<1>2. \A i \in Occupied : Settled(g_connections[i])
  BY <1>1, Zenon DEF TcpIInv, StageInv, Rest
<1>3. /\ ConnInv' /\ OwnInv' /\ Occupied' = Occupied
      /\ \A i \in Occupied' : Settled(g_connections'[i])
  BY <1>1, <1>2, TableKept, Zenon
<1>4. CASE polled = {} /\ cur' = -1 /\ pc' = "loop" /\ polled' = polled
           /\ revents' = [i \in Slots |-> {}]
  <2>1. TcpTypeOK'
    BY <1>4, Zenon DEF TcpIInv, TcpTypeOK, NextSlot
  <2>2. StageInv'
    BY <1>3, <1>4, Zenon DEF StageInv, OthersSettled, Turn, Rest
  <2> QED
    BY <1>3, <2>1, <2>2, Zenon DEF TcpIInv
<1>5. ASSUME NEW i \in polled, cur' = i, polled' = polled \ {i}, pc' = "input",
             revents' = revents
      PROVE  TcpIInv'
  <2>1. i \in Occupied /\ i \in Slots
    BY Zenon DEF TcpIInv, StageInv, Occupied
  <2>2. TcpTypeOK'
    BY <1>5, <2>1, Zenon DEF TcpIInv, TcpTypeOK, NextSlot
  <2>3. TurnInv'
    BY <1>3, <1>5, <2>1, Zenon DEF TurnInv, Conn, Settled
  <2>4. polled' \subseteq Occupied' /\ cur' \notin polled'
    BY <1>3, <1>5, Zenon DEF TcpIInv, StageInv
  <2>5. StageInv'
    BY <1>3, <1>5, <2>1, <2>3, <2>4, Zenon DEF StageInv, OthersSettled, Turn, Rest
  <2> QED
    BY <1>3, <2>2, <2>5, Zenon DEF TcpIInv
<1> QED
  BY <1>4, <1>5, Zenon DEF NextSlot

\* exit_connections keeps the invariant: it closes all there is.
LEMMA ExitStep == TcpIInv /\ ExitConnections => TcpIInv'
<1> SUFFICES ASSUME TcpIInv, ExitConnections PROVE TcpIInv'
  BY Zenon
<1>1. /\ pc = "exit" /\ pc' = "exited" /\ g_listener' = -1
      /\ g_connections' = [i \in Slots |-> FreeSlot]
      /\ UNCHANGED <<g_ShutdownSignal, clients, cycleVars>>
  BY Zenon DEF ExitConnections, Release
<1>2. polled = {} /\ cur = -1
  BY <1>1, Zenon DEF TcpIInv, StageInv
<1>3. FreeSlot.state = "Free" /\ FreeSlot \in ConnectionObject /\ ConnOK(FreeSlot)
  BY FreeSlotOK, ConnectionFields DEF FreeSlot
<1>4. Occupied' = {}
  BY <1>1, <1>3, Zenon DEF Occupied
<1>5. ConnInv'
  <2>1. ASSUME NEW i \in Slots PROVE ConnOK(g_connections[i])'
    <3>1. ConnOK(g_connections'[i])
      BY <1>1, <1>3, Zenon
    <3> QED
      BY <3>1, Zenon DEF ConnOK, ReadSize, FreeSlot, Connection
  <2> QED
    BY <2>1, Zenon DEF ConnInv
<1>6. TcpTypeOK'
  <2>1. g_connections' \in [Slots -> ConnectionObject] /\ open' \in SUBSET Descriptors
        /\ backlog' \in Nat
    BY <1>1, <1>3, Zenon DEF TcpIInv, TcpTypeOK, ExitConnections
  <2> QED
    BY <1>1, <2>1, Zenon DEF TcpIInv, TcpTypeOK, cycleVars
<1>7. open' = {}
  BY SMTT(30) DEF TcpIInv, OwnInv, ExitConnections
<1>8. OwnInv'
  BY <1>1, <1>4, <1>7, Zenon DEF OwnInv
<1>9. StageInv'
  BY <1>1, <1>2, <1>4, Zenon DEF StageInv, OthersSettled, Turn, Rest, cycleVars
<1> QED
  BY <1>5, <1>6, <1>8, <1>9, Zenon DEF TcpIInv

\* A second passing changes no more than the age of the connections.
LEMMA OlderOK ==
  ASSUME NEW c \in ConnectionObject
  PROVE  /\ Older(c) \in ConnectionObject
         /\ Older(c).state = c.state /\ Older(c).socket = c.socket
         /\ ConnOK(c) => ConnOK(Older(c))
<1>1. /\ c.state \in {"Free", "Reading", "Processing", "Writing"}
      /\ c.socket \in Descriptors \cup {-1, 0}
      /\ c.elapsed \in 0 .. connection_timeout
      /\ c.rw_size \in 0 .. BufferSize /\ c.rw_position \in 0 .. BufferSize
      /\ c.got \in Nat
  BY FieldTypes, Zenon
<1>2. CASE Older(c) = c
  BY <1>2, Zenon
<1>3. CASE /\ c.state # "Free" /\ c.elapsed < connection_timeout
           /\ Older(c) = Connection(c.state, c.socket, c.elapsed + 1, c.rw_size,
                                    c.rw_position, c.got)
  <2>1. c.elapsed + 1 \in 0 .. connection_timeout
    BY <1>1, <1>3, TcpAssumption
  <2>4. Connection(c.state, c.socket, c.elapsed + 1, c.rw_size, c.rw_position, c.got)
          \in ConnectionObject
    BY <1>1, <2>1, ConnectionType, Zenon
  <2>2. Older(c) \in ConnectionObject
    BY <1>3, <2>4, Zenon
  <2>3. /\ Older(c).state = c.state /\ Older(c).socket = c.socket
        /\ Older(c).rw_size = c.rw_size /\ Older(c).rw_position = c.rw_position
        /\ Older(c).got = c.got
    BY <1>3, ConnectionFields
  <2> QED
    BY <1>3, <2>2, <2>3, Zenon DEF ConnOK, ReadSize
<1> QED
  BY <1>2, <1>3, Zenon DEF Older

\* The environment's steps keep the invariant.
LEMMA TickStep == TcpIInv /\ Tick => TcpIInv'
<1> SUFFICES ASSUME TcpIInv, Tick PROVE TcpIInv'
  BY Zenon
<1>1. UNCHANGED <<pc, g_listener, g_ShutdownSignal, open, backlog, clients, cycleVars>>
  BY Zenon DEF Tick
<1>2. \A i \in Slots : g_connections[i] \in ConnectionObject /\ ConnOK(g_connections[i])
  BY Zenon DEF TcpIInv, TcpTypeOK, ConnInv
<1>3. \A i \in Slots :
        /\ g_connections'[i] \in ConnectionObject
        /\ g_connections'[i].state = g_connections[i].state
        /\ g_connections'[i].socket = g_connections[i].socket
        /\ ConnOK(g_connections'[i])
  BY <1>2, OlderOK, Zenon DEF Tick
<1>4. TcpTypeOK'
  <2>1. g_connections' \in [Slots -> ConnectionObject]
    BY <1>3, Zenon DEF Tick
  <2> QED
    BY <1>1, <2>1, ZenonT(60) DEF TcpIInv, TcpTypeOK, cycleVars
<1>5. Occupied' = Occupied
  BY <1>3, Zenon DEF Occupied
<1>6. ConnInv'
  <2>1. ASSUME NEW i \in Slots PROVE ConnOK(g_connections[i])'
    BY <1>3, Zenon DEF ConnOK, ReadSize, FreeSlot, Connection
  <2> QED
    BY <2>1, Zenon DEF ConnInv
<1>7. \A i \in Occupied : i \in Slots
  BY Zenon DEF Occupied
<1>8. OwnInv'
  BY <1>1, <1>3, <1>5, <1>7 DEF TcpIInv, OwnInv
<1>9. StageInv'
  <2>1. \A i \in Occupied : Settled(g_connections[i]) => Settled(g_connections'[i])
    BY <1>3, <1>7, Zenon DEF Settled
  <2>2. pc \in Turn => TurnInv'
    BY <1>1, <1>3, <1>7, <2>1, Zenon DEF TcpIInv, StageInv, TurnInv, Conn, cycleVars
  <2>3. OthersSettled'
    BY <1>1, <1>5, <2>1, Zenon DEF TcpIInv, StageInv, OthersSettled, Settled, cycleVars
  <2>4. pc \in Rest => \A i \in Occupied' : Settled(g_connections'[i])
    BY <1>5, <2>1, Zenon DEF TcpIInv, StageInv
  <2> QED
    BY <1>1, <1>5, <2>2, <2>3, <2>4, Zenon DEF TcpIInv, StageInv, cycleVars
<1> QED
  BY <1>4, <1>6, <1>8, <1>9, Zenon DEF TcpIInv

\* So do a client that connects, the signal and a step that changes nothing.
LEMMA QuietStep == TcpIInv /\ (ClientConnects \/ ShutdownHandler \/ UNCHANGED tcpVars) => TcpIInv'
<1> SUFFICES ASSUME TcpIInv, ClientConnects \/ ShutdownHandler \/ UNCHANGED tcpVars PROVE TcpIInv'
  BY Zenon
<1>1. UNCHANGED <<pc, g_connections, g_listener, open, polled, revents, cur>>
  BY Zenon DEF ClientConnects, ShutdownHandler, tcpVars, cycleVars
<1>2. g_ShutdownSignal' \in BOOLEAN /\ backlog' \in Nat /\ clients' \in Nat
  <2>1. backlog \in Nat /\ clients \in Nat /\ g_ShutdownSignal \in BOOLEAN
    BY Zenon DEF TcpIInv, TcpTypeOK
  <2>2. CASE ClientConnects
    BY <2>1, <2>2 DEF ClientConnects
  <2>3. CASE ShutdownHandler
    BY <2>1, <2>3, Zenon DEF ShutdownHandler
  <2>4. CASE UNCHANGED tcpVars
    BY <2>1, <2>4, Zenon DEF tcpVars
  <2> QED
    BY <2>2, <2>3, <2>4, Zenon
<1>3. TcpTypeOK'
  BY <1>1, <1>2, Zenon DEF TcpIInv, TcpTypeOK
<1>4. ConnInv' /\ OwnInv' /\ Occupied' = Occupied
  BY <1>1, TableKept, Zenon
<1>5. TurnInv => TurnInv'
  BY <1>1, Zenon DEF TurnInv, Conn, Settled
<1>6. \A i \in Occupied : Settled(g_connections[i]) => Settled(g_connections'[i])
  BY <1>1, Zenon DEF Settled
<1>7. OthersSettled'
  BY <1>1, <1>4, <1>6, Zenon DEF TcpIInv, StageInv, OthersSettled, Settled
<1>8. pc \in Rest => \A i \in Occupied' : Settled(g_connections'[i])
  BY <1>4, <1>6, Zenon DEF TcpIInv, StageInv
<1>9. StageInv'
  BY <1>1, <1>4, <1>5, <1>7, <1>8, Zenon DEF TcpIInv, StageInv
<1> QED
  BY <1>3, <1>4, <1>9, Zenon DEF TcpIInv

-----------------------------------------------------------------------------
\* The inductive invariant holds initially.
LEMMA TcpInitIInv == TcpInit => TcpIInv
<1> SUFFICES ASSUME TcpInit PROVE TcpIInv
  BY Zenon
<1>1. \A i \in Slots : g_connections[i] = FreeSlot
  BY Zenon DEF TcpInit
<1>2. FreeSlot.state = "Free" /\ FreeSlot \in ConnectionObject /\ ConnOK(FreeSlot)
  BY FreeSlotOK, ConnectionFields DEF FreeSlot
<1>3. Occupied = {}
  BY <1>1, <1>2, Zenon DEF Occupied
<1>4. TcpTypeOK
  BY <1>2, Zenon DEF TcpInit, TcpTypeOK
<1>5. ConnInv
  BY <1>1, <1>2, Zenon DEF ConnInv
<1>6. OwnInv
  BY <1>3, Zenon DEF TcpInit, OwnInv
<1>7. StageInv
  BY <1>3, Zenon DEF TcpInit, StageInv, OthersSettled, Turn, Rest
<1> QED
  BY <1>4, <1>5, <1>6, <1>7, Zenon DEF TcpIInv

\* Every step keeps the inductive invariant.
LEMMA TcpNextIInv == TcpIInv /\ [TcpNext]_tcpVars => TcpIInv'
  BY InitConnectionsStep, PollStep, LeaveStep, ExitStep, AcceptStep, NextSlotStep,
     CheckInputStep, ReadStopsStep, ReadBytesStep, CheckRequestStep,
     CheckOutputStep, WriteStopsStep, WriteBytesStep, CheckConnectionStep,
     TickStep, QuietStep, Zenon DEF TcpNext, ServerStep, Exited

\* The inductive invariant holds in every reachable state: it is what the
\* theorems below follow from.
THEOREM TcpInvariance == TcpSpec => []TcpIInv
  BY TcpInitIInv, TcpNextIInv, PTL DEF TcpSpec

\* The type invariant: in particular no size or position of a connection ever
\* exceeds its buffer.
THEOREM TcpTypeCorrect == TcpSpec => []TcpTypeOK
<1>1. TcpIInv => TcpTypeOK
  BY Zenon DEF TcpIInv
<1> QED
  BY <1>1, TcpInvariance, PTL

\* Every open descriptor is owned by the listener or by exactly one slot.
THEOREM Ownership == TcpSpec => []OwnedDescriptors
<1>1. TcpIInv => OwnedDescriptors
  <2> SUFFICES ASSUME TcpIInv PROVE OwnedDescriptors
    BY Zenon
  <2>1. -1 \notin open
    BY MinusOne, Zenon DEF TcpIInv, TcpTypeOK
  <2>2. open = ({g_listener} \cup ConnectionSockets) \ {-1}
    BY <2>1 DEF TcpIInv, OwnInv, ConnectionSockets
  <2>3. g_listener = -1 \/ g_listener \notin ConnectionSockets
    BY Zenon DEF TcpIInv, OwnInv, ConnectionSockets
  <2>4. \A i, j \in Occupied :
          i # j => g_connections[i].socket # g_connections[j].socket
    BY Zenon DEF TcpIInv, OwnInv
  <2> QED
    BY <2>2, <2>3, <2>4, Zenon DEF OwnedDescriptors
<1> QED
  BY <1>1, TcpInvariance, PTL

\* A slot is handed out clean.
THEOREM CleanSlots == TcpSpec => []FreeSlotsAreClean
<1>1. TcpIInv => FreeSlotsAreClean
  BY Zenon DEF TcpIInv, ConnInv, ConnOK, FreeSlotsAreClean, Occupied
<1> QED
  BY <1>1, TcpInvariance, PTL

\* The handlers stay within the buffer and always ask for something.
THEOREM BoundsSafety == TcpSpec => []TransfersInBounds
<1>1. TcpIInv => TransfersInBounds
  <2> SUFFICES ASSUME TcpIInv, NEW i \in Slots
               PROVE  LET c == g_connections[i] IN
                        /\ c.state = "Reading" /\ c.socket # -1 =>
                             c.rw_position < ReadSize(c) /\ ReadSize(c) <= BufferSize
                        /\ c.state = "Writing" =>
                             c.rw_position <= c.rw_size /\ c.rw_size <= BufferSize
    BY Zenon DEF TransfersInBounds
  <2>1. g_connections[i] \in ConnectionObject /\ ConnOK(g_connections[i])
    BY Zenon DEF TcpIInv, TcpTypeOK, ConnInv
  <2>2. g_connections[i].rw_size \in 0 .. BufferSize
    BY <2>1, FieldTypes, Zenon
  <2>3. ReadSize(g_connections[i]) <= BufferSize
    BY <2>2, TcpAssumption DEF ReadSize
  <2> QED
    BY <2>1, <2>2, <2>3, TcpAssumption DEF ConnOK
<1> QED
  BY <1>1, TcpInvariance, PTL

\* Requests are processed whole.
THEOREM RequestSafety == TcpSpec => []WholeRequests
<1>1. TcpIInv => WholeRequests
  BY Zenon DEF TcpIInv, ConnInv, ConnOK, WholeRequests
<1> QED
  BY <1>1, TcpInvariance, PTL

\* The PANIC is not reached.
THEOREM PanicFreedom == TcpSpec => []NoPanic
<1>1. TcpIInv => NoPanic
  BY Zenon DEF TcpIInv, StageInv, Turn, Rest, NoPanic
<1> QED
  BY <1>1, TcpInvariance, PTL

\* Between turns connections are open and not Processing.
THEOREM TurnSafety == TcpSpec => []SettledBetweenTurns
<1>1. TcpIInv => SettledBetweenTurns
  BY Zenon DEF TcpIInv, StageInv, OthersSettled, Settled, Rest, SettledBetweenTurns
<1> QED
  BY <1>1, TcpInvariance, PTL

\* When the server has exited nothing is left open.
THEOREM ExitSafety == TcpSpec => []NothingLeftOpen
<1>1. TcpIInv => NothingLeftOpen
  <2> SUFFICES ASSUME TcpIInv, pc = "exited" PROVE open = {} /\ Occupied = {}
    BY Zenon DEF NothingLeftOpen
  <2>1. Occupied = {} /\ g_listener = -1
    BY Zenon DEF TcpIInv, StageInv
  <2> QED
    BY <2>1, MinusOne, ZenonT(60) DEF TcpIInv, OwnInv, TcpTypeOK
<1> QED
  BY <1>1, TcpInvariance, PTL

\* What poll reported of a slot is applied to the connection it polled: only
\* the clock changes a slot before its turn.
THEOREM PollSafety == TcpSpec => PolledUntouched
<1> DEFINE Kept == \A i \in polled :
             g_connections'[i] \in {g_connections[i], Older(g_connections[i])}
<1>1. TcpIInv /\ [TcpNext]_tcpVars => [Kept]_tcpVars
  <2> SUFFICES ASSUME TcpIInv, [TcpNext]_tcpVars PROVE Kept
    BY Zenon
  <2>1. polled \subseteq Occupied /\ polled \subseteq Slots /\ cur \notin polled
    BY Zenon DEF TcpIInv, StageInv, Occupied
  <2>2. ASSUME g_connections' = g_connections PROVE Kept
    BY <2>2, Zenon
  <2>3. ASSUME NEW c, NEW to, Update(c, to) PROVE Kept
    BY <2>1, <2>3, Zenon DEF Update, TcpIInv, TcpTypeOK
  <2>4. CASE ExitConnections
    BY <2>4, Zenon DEF ExitConnections, TcpIInv, StageInv
  <2>5. CASE AcceptConnection
    <3>1. CASE g_connections' = g_connections
      BY <3>1, <2>2, Zenon
    <3>2. ASSUME NEW i \in Slots, NEW c, FirstFree(i),
                 g_connections' = [g_connections EXCEPT ![i] = c]
          PROVE  Kept
      BY <2>1, <3>2, Zenon DEF FirstFree, TcpIInv, TcpTypeOK
    <3> QED
      BY <2>5, <3>1, <3>2, Zenon DEF AcceptConnection
  <2>6. CASE Tick
    BY <2>1, <2>6, Zenon DEF Tick
  <2>7. CASE InitConnections \/ Poll \/ LeaveLoop \/ AcceptNone \/ NextSlot
             \/ ClientConnects \/ ShutdownHandler \/ UNCHANGED tcpVars
    BY <2>2, <2>7, Zenon DEF InitConnections, Poll, LeaveLoop, AcceptNone, NextSlot,
                      ClientConnects, ShutdownHandler, tcpVars
  <2>8. ASSUME NEW c, NEW to, CloseConnection(c, to) PROVE Kept
    BY <2>3, <2>8, Zenon DEF CloseConnection
  <2>9. ASSUME NEW to, Skip(to) PROVE Kept
    BY <2>3, <2>9, Zenon DEF Skip
  <2>10. CASE CheckInput \/ ReadStops \/ CheckOutput \/ WriteStops
    BY <2>8, <2>9, <2>10, Zenon DEF CheckInput, ReadStops, CheckOutput, WriteStops
  <2>11. ASSUME NEW n, ReadBytes(n) PROVE Kept
    BY <2>3, <2>8, <2>9, <2>11, Zenon DEF ReadBytes
  <2>12. ASSUME NEW n, WriteBytes(n) PROVE Kept
    BY <2>3, <2>8, <2>12, Zenon DEF WriteBytes
  <2>13. CASE CheckRequest \/ CheckConnection
    BY <2>3, <2>8, <2>9, <2>13, Zenon DEF CheckRequest, CheckConnection
  <2> QED
    BY <2>4, <2>5, <2>6, <2>7, <2>10, <2>11, <2>12, <2>13, Zenon
       DEF TcpNext, ServerStep, Exited
<1>2. TcpSpec => [][Kept]_tcpVars
  BY <1>1, TcpInvariance, PTL DEF TcpSpec
<1> QED
  BY <1>2, Zenon DEF PolledUntouched

-----------------------------------------------------------------------------
(* The WebSocket acceptor                                                  *)

\* Appending keeps the element type of a sequence.
LEMMA AppendType ==
  ASSUME NEW S, NEW q \in Seq(S), NEW c \in S
  PROVE  Append(q, c) \in Seq(S)
OBVIOUS

\* Deferring a lambda keeps the queue a queue of lambdas.
LEMMA DeferType ==
  ASSUME NEW who \in {"worker", "main"}, NEW c \in Closure,
         deferQueue \in Seq(Closure), touched \in SUBSET {"worker", "main"},
         DeferOn(who, c)
  PROVE  deferQueue' \in Seq(Closure) /\ touched' \in SUBSET {"worker", "main"}
BY AppendType, Zenon DEF DeferOn

\* What a worker defers is a response or a close.
ResultInv ==
    \A w \in Workers : worker[w].pc \in {"check", "defer"}
                         => worker[w].kind \in {"send", "close"}

\* ActiveWorkers counts the workers that have not returned.
CountInv == ActiveWorkers = Cardinality(Live)

\* The worker threads are finitely many, so they can be counted.
LEMMA LiveIsFinite == IsFiniteSet(Live) /\ Cardinality(Live) \in Nat
BY FS_Subset, FS_CardinalityType, WsAssumption, Zenon DEF Live

\* Every step keeps the types, and what a worker will defer.
LEMMA TypeStep ==
  TypeOK /\ ResultInv /\ CountInv /\ [Next]_vars => TypeOK' /\ ResultInv'
<1> SUFFICES ASSUME TypeOK, ResultInv, CountInv
             PROVE  [Next]_vars => TypeOK' /\ ResultInv'
  BY Zenon
<1> USE DEF TypeOK, ResultInv, mainVars, loopVars, connVars, workVars
<1>1. ASSUME MainStep PROVE TypeOK' /\ ResultInv'
  <2>1. ASSUME NEW ok \in BOOLEAN, Start(ok) PROVE TypeOK' /\ ResultInv'
    <3>1. CASE ok
      BY <2>1, <3>1, Zenon DEF Start
    <3>2. CASE ~ok
      BY <2>1, <3>2 DEF Start
    <3> QED
      BY <3>1, <3>2, Zenon
  <2>2. CASE AwaitBind
    BY <2>2, ZenonT(30) DEF AwaitBind, MainGoes
  <2>3. CASE SetShuttingDown
    BY <2>3, ZenonT(30) DEF SetShuttingDown, MainGoes
  <2>4. CASE LoadLoop
    BY <2>4, ZenonT(30) DEF LoadLoop, MainGoes
  <2>5. CASE DeferShutdown
    <3>1. deferQueue' \in Seq(Closure) /\ touched' \in SUBSET {"worker", "main"}
      <4>1. [kind |-> "shutdown", id |-> 0, session |-> 0] \in Closure
        BY Zenon DEF Closure
      <4> QED
        BY <2>5, <4>1, DeferType, Zenon DEF DeferShutdown
    <3> QED
      BY <2>5, <3>1, ZenonT(30) DEF DeferShutdown, MainGoes
  <2>6. CASE JoinThread
    BY <2>6, Zenon DEF JoinThread, MainGoes
  <2>7. CASE DrainWorkers
    BY <2>7, ZenonT(30) DEF DrainWorkers, MainGoes
  <2>8. CASE ResetKey
    BY <2>8, ZenonT(30) DEF ResetKey, MainGoes
  <2> QED
    BY <1>1, <2>1, <2>2, <2>3, <2>4, <2>5, <2>6, <2>7, <2>8, Zenon DEF MainStep
<1>2. ASSUME Signal PROVE TypeOK' /\ ResultInv'
  BY <1>2, ZenonT(30) DEF Signal, MainGoes
<1>3. ASSUME LoopStep PROVE TypeOK' /\ ResultInv'
  <2>1. CASE SetUpLoop
    BY <2>1, ZenonT(30) DEF SetUpLoop
  <2>2. ASSUME NEW bound \in BOOLEAN, Listen(bound) PROVE TypeOK' /\ ResultInv'
    BY <2>2, ZenonT(30) DEF Listen
  <2>3. CASE Wakeup
    BY <2>3 DEF Wakeup
  <2>4. CASE RunDeferred
    <3>1. batch' \in Seq(Closure)
      BY <2>4 DEF RunDeferred
    <3>2. sock' \in [Sockets -> SocketObject]
      <4>1. NoSocket \in SocketObject
        BY Zenon DEF NoSocket, WsSocket, SocketObject
      <4>2. ASSUME NEW s \in Sockets, sock[s].owed > 0
            PROVE  WsSocket(sock[s].st, sock[s].id, sock[s].pinged,
                            sock[s].session, sock[s].owed - 1,
                            sock[s].served + 1) \in SocketObject
        BY <4>2 DEF SocketObject, WsSocket
      <4> QED
        BY <2>4, <4>1, <4>2, ZenonT(30) DEF RunDeferred, RunSend, RunClose, RunShutdown, CloseAll
    <3>3. PendingRequests' \in SUBSET (Nat \X Sockets) /\ ListenSocket' \in BOOLEAN
      BY <2>4, Zenon DEF RunDeferred, RunSend, RunClose, RunShutdown, CloseAll, Erase
    <3> QED
      BY <2>4, <3>1, <3>2, <3>3, ZenonT(30) DEF RunDeferred
  <2>5. CASE LeaveRun
    BY <2>5 DEF LeaveRun
  <2>6. CASE ClearPointers
    BY <2>6, ZenonT(30) DEF ClearPointers
  <2>7. CASE FreeLoop
    BY <2>7 DEF FreeLoop
  <2> QED
    BY <1>3, <2>1, <2>2, <2>3, <2>4, <2>5, <2>6, <2>7, Zenon DEF LoopStep
<1>4. ASSUME NEW s \in Sockets, ClientEvent(s) PROVE TypeOK' /\ ResultInv'
  <2>1. ASSUME Open(s) PROVE TypeOK' /\ ResultInv'
    <3>1. sock' \in [Sockets -> SocketObject]
      BY <2>1 DEF Open, WsSocket, SocketObject
    <3>2. UNCHANGED <<mainVars, loopVars, workVars, deferQueue, touched>>
      BY <2>1, Zenon DEF Open, CallBack
    <3>3. /\ PendingRequests' \in SUBSET (Nat \X Sockets)
          /\ NextRequestId' \in Nat /\ opened' \in Nat
      BY <2>1 DEF Open, Erase
    <3> QED
      BY <3>1, <3>2, <3>3
  <2>2. ASSUME NEW w \in Workers, LoginMessage(s, w)
        PROVE  TypeOK' /\ ResultInv'
    <3>1. sock' \in [Sockets -> SocketObject]
      BY <2>2 DEF LoginMessage, WsSocket, SocketObject
    <3>2. worker' \in [Workers -> WorkerThread] /\ ResultInv'
      BY <2>2, Zenon DEF LoginMessage, Worker, WorkerThread, SocketObject
    <3>3. UNCHANGED <<mainVars, loopVars, NextRequestId, PendingRequests, opened,
                      RsaDecryptMutex, deferQueue, touched>>
      BY <2>2, Zenon DEF LoginMessage, CallBack
    <3>4. ActiveWorkers' \in Nat
      BY <2>2 DEF LoginMessage
    <3> QED
      BY <3>1, <3>2, <3>3, <3>4
  <2>3. CASE RejectMessage(s) \/ PeerGone(s)
    <3>1. NoSocket \in SocketObject
      BY Zenon DEF NoSocket, WsSocket, SocketObject
    <3>2. CloseAll({s}) /\ SocketEvent
      BY <2>3, Zenon DEF RejectMessage, PeerGone
    <3> QED
      BY <3>1, <3>2 DEF SocketEvent, CallBack, CloseAll, Erase
  <2>4. CASE OtherData(s)
    <3>1. sock' \in [Sockets -> SocketObject]
      BY <2>4, Zenon DEF OtherData, WsSocket, SocketObject
    <3>2. UNCHANGED <<mainVars, loopVars, NextRequestId, opened, workVars,
                      deferQueue, touched>>
      BY <2>4, Zenon DEF OtherData, SocketEvent, CallBack
    <3>3. PendingRequests' \in SUBSET (Nat \X Sockets)
      BY <2>4, Zenon DEF OtherData
    <3> QED
      BY <3>1, <3>2, <3>3
  <2>5. CASE PeerEnds(s)
    <3>1. sock' \in [Sockets -> SocketObject]
      BY <2>5, Zenon DEF PeerEnds, WsSocket, SocketObject
    <3>2. UNCHANGED <<mainVars, loopVars, NextRequestId, opened, workVars,
                      deferQueue, touched>>
      BY <2>5, Zenon DEF PeerEnds, SocketEvent, CallBack
    <3>3. PendingRequests' \in SUBSET (Nat \X Sockets)
      BY <2>5, Zenon DEF PeerEnds, Erase
    <3> QED
      BY <3>1, <3>2, <3>3
  <2> QED
    BY <1>4, <2>1, <2>2, <2>3, <2>4, <2>5, Zenon DEF ClientEvent
<1>5. ASSUME NEW s \in Sockets, IdleTimeout(s) PROVE TypeOK' /\ ResultInv'
  <2>1. CASE IdlePing(s)
    <3>1. sock' \in [Sockets -> SocketObject]
      BY <2>1, Zenon DEF IdlePing, WsSocket, SocketObject
    <3>2. UNCHANGED <<mainVars, loopVars, NextRequestId, opened, workVars,
                      deferQueue, touched>>
      BY <2>1, Zenon DEF IdlePing, SocketEvent, CallBack
    <3>3. PendingRequests' \in SUBSET (Nat \X Sockets)
      BY <2>1, Zenon DEF IdlePing
    <3> QED
      BY <3>1, <3>2, <3>3
  <2>2. CASE IdleClose(s)
    <3>1. NoSocket \in SocketObject
      BY Zenon DEF NoSocket, WsSocket, SocketObject
    <3> QED
      BY <2>2, <3>1, SMTT(30) DEF IdleClose, SocketEvent, CallBack, CloseAll, Erase
  <2> QED
    BY <1>5, <2>1, <2>2, Zenon DEF IdleTimeout
<1>6. ASSUME NEW w \in Workers, WorkerStep(w) PROVE TypeOK' /\ ResultInv'
  <2>1. ASSUME NEW from, NEW to \in {"lock", "login", "check", "defer", "exit"},
               NEW kind \in {"none", "send", "close"},
               WorkerGoes(w, from, to, kind),
               to \in {"check", "defer"} => kind \in {"send", "close"}
        PROVE  worker' \in [Workers -> WorkerThread] /\ ResultInv'
    BY <2>1, Zenon DEF WorkerGoes, Worker, WorkerThread
  <2>2. ASSUME NEW ok \in BOOLEAN, Connect(w, ok) PROVE TypeOK' /\ ResultInv'
    <3>1. worker' \in [Workers -> WorkerThread] /\ ResultInv'
      BY <2>1, <2>2, Zenon DEF Connect
    <3> QED
      BY <2>2, <3>1 DEF Connect, WorkerGoes
  <2>3. ASSUME NEW kind \in {"send", "close"}, Login(w, kind)
        PROVE  TypeOK' /\ ResultInv'
    <3>1. worker' \in [Workers -> WorkerThread] /\ ResultInv'
      BY <2>1, <2>3, Zenon DEF Login
    <3>2. RsaDecryptMutex' \in BOOLEAN
      BY <2>3, Zenon DEF Login
    <3>3. UNCHANGED <<mainVars, loopVars, connVars, ActiveWorkers, deferQueue, touched>>
      BY <2>3, Zenon DEF Login, WorkerGoes
    <3> QED
      BY <3>1, <3>2, <3>3
  <2>4. CASE LockRsa(w)
    <3>1. worker' \in [Workers -> WorkerThread] /\ ResultInv'
      BY <2>1, <2>4, Zenon DEF LockRsa
    <3> QED
      BY <2>4, <3>1 DEF LockRsa, WorkerGoes
  <2>5. CASE CheckShutdown(w)
    <3>1. worker[w].kind \in {"send", "close"}
      BY <2>5, Zenon DEF CheckShutdown, WorkerGoes
    <3>2. worker' \in [Workers -> WorkerThread] /\ ResultInv'
      BY <2>1, <2>5, <3>1, Zenon DEF CheckShutdown
    <3> QED
      BY <2>5, <3>2 DEF CheckShutdown, WorkerGoes
  <2>6. CASE SafeDefer(w)
    <3>1. worker[w].kind \in {"send", "close"} /\ worker[w].pc = "defer"
      BY <2>6, Zenon DEF SafeDefer, WorkerGoes
    <3>2. worker' \in [Workers -> WorkerThread] /\ ResultInv'
      BY <2>1, <2>6, <3>1, Zenon DEF SafeDefer
    <3>3. deferQueue' \in Seq(Closure) /\ touched' \in SUBSET {"worker", "main"}
      <4>1. [kind |-> worker[w].kind, id |-> worker[w].id,
             session |-> worker[w].session] \in Closure
        BY <3>1, Zenon DEF Closure, WorkerThread
      <4> QED
        BY <2>6, <4>1, DeferType, Zenon DEF SafeDefer
    <3> QED
      BY <2>6, <3>2, <3>3 DEF SafeDefer, WorkerGoes
  <2>7. CASE ExitWorker(w)
    <3>1. worker' \in [Workers -> WorkerThread] /\ ResultInv'
      BY <2>7, Zenon DEF ExitWorker, Idle, Worker, WorkerThread
    <3>2. Live # {}
      BY <2>7, Zenon DEF ExitWorker, Live
    <3>3. ActiveWorkers' \in Nat
      BY <2>7, <3>2, LiveIsFinite, FS_EmptySet DEF ExitWorker, CountInv
    <3>4. UNCHANGED <<mainVars, loopVars, connVars, RsaDecryptMutex, deferQueue, touched>>
      BY <2>7, Zenon DEF ExitWorker
    <3> QED
      BY <3>1, <3>3, <3>4
  <2> QED
    BY <1>6, <2>2, <2>3, <2>4, <2>5, <2>6, <2>7, Zenon DEF WorkerStep
<1>7. ASSUME UNCHANGED vars PROVE TypeOK' /\ ResultInv'
  BY <1>7 DEF vars
<1> QED
  BY <1>1, <1>2, <1>3, <1>4, <1>5, <1>6, <1>7, Zenon DEF Next, Terminated

-----------------------------------------------------------------------------
\* Only the .message handler and the workers themselves change the workers,
\* their count and the mutex.
LEMMA WorkersChange ==
  ASSUME [Next]_vars
  PROVE  \/ UNCHANGED workVars
         \/ \E s \in Sockets, w \in Workers : LoginMessage(s, w)
         \/ \E w \in Workers : WorkerStep(w)
<1> USE DEF workVars
<1>1. ASSUME MainStep \/ Signal PROVE UNCHANGED workVars
  BY <1>1, Zenon DEF MainStep, Signal, Start, AwaitBind, SetShuttingDown, LoadLoop,
              DeferShutdown, JoinThread, DrainWorkers, ResetKey, MainGoes
<1>2. ASSUME LoopStep PROVE UNCHANGED workVars
  BY <1>2, Zenon DEF LoopStep, SetUpLoop, Listen, Wakeup, RunDeferred, LeaveRun,
              ClearPointers, FreeLoop
<1>3. ASSUME NEW s \in Sockets, ClientEvent(s)
      PROVE  UNCHANGED workVars \/ \E w \in Workers : LoginMessage(s, w)
  BY <1>3, Zenon DEF ClientEvent, Open, RejectMessage, OtherData, PeerEnds, PeerGone,
              SocketEvent
<1>4. ASSUME NEW s \in Sockets, IdleTimeout(s) PROVE UNCHANGED workVars
  BY <1>4, Zenon DEF IdleTimeout, IdlePing, IdleClose, SocketEvent
<1>5. UNCHANGED vars => UNCHANGED workVars
  BY Zenon DEF vars
<1> QED
  BY <1>1, <1>2, <1>3, <1>4, <1>5, Zenon DEF Next, Terminated

\* A worker's step leaves it live, except the last one.
LEMMA WorkerStepLive ==
  ASSUME TypeOK, NEW w \in Workers, WorkerStep(w)
  PROVE  /\ worker[w].pc # "idle"
         /\ \/ Live' = Live /\ ActiveWorkers' = ActiveWorkers
            \/ Live' = Live \ {w} /\ ActiveWorkers' = ActiveWorkers - 1
<1> USE DEF TypeOK
<1>1. ASSUME NEW from \in {"start", "lock", "login", "check", "defer"},
             NEW to \in {"lock", "login", "check", "defer", "exit"}, NEW kind,
             WorkerGoes(w, from, to, kind)
      PROVE  worker[w].pc # "idle" /\ Live' = Live
  BY <1>1, Zenon DEF WorkerGoes, Worker, Live
<1>2. CASE ExitWorker(w)
  BY <1>2, Zenon DEF ExitWorker, Idle, Worker, Live
<1>3. ASSUME NEW ok \in BOOLEAN, Connect(w, ok)
      PROVE  worker[w].pc # "idle" /\ Live' = Live /\ ActiveWorkers' = ActiveWorkers
  BY <1>1, <1>3, Zenon DEF Connect
<1>4. ASSUME NEW kind, Login(w, kind)
      PROVE  worker[w].pc # "idle" /\ Live' = Live /\ ActiveWorkers' = ActiveWorkers
  BY <1>1, <1>4, Zenon DEF Login
<1>5. CASE LockRsa(w)
  BY <1>1, <1>5, Zenon DEF LockRsa
<1>6. CASE CheckShutdown(w)
  BY <1>1, <1>6, Zenon DEF CheckShutdown
<1>7. CASE SafeDefer(w)
  BY <1>1, <1>7, Zenon DEF SafeDefer
<1> QED
  BY <1>2, <1>3, <1>4, <1>5, <1>6, <1>7, Zenon DEF WorkerStep

\* A login message adds one worker.
LEMMA LoginMessageLive ==
  ASSUME TypeOK, NEW s \in Sockets, NEW w \in Workers, LoginMessage(s, w)
  PROVE  /\ w \notin Live /\ Live' = Live \cup {w}
         /\ ActiveWorkers' = ActiveWorkers + 1
BY Zenon DEF LoginMessage, Live, Worker, TypeOK

\* ActiveWorkers stays the number of live workers: fetch_add comes with a new
\* thread, fetch_sub with its end.
LEMMA CountStep == TypeOK /\ CountInv /\ [Next]_vars => CountInv'
<1> SUFFICES ASSUME TypeOK, CountInv, [Next]_vars PROVE CountInv'
  BY Zenon
<1>1. CASE UNCHANGED workVars
  BY <1>1, Zenon DEF workVars, CountInv, Live
<1>2. ASSUME NEW s \in Sockets, NEW w \in Workers, LoginMessage(s, w)
      PROVE  CountInv'
  BY <1>2, LoginMessageLive, LiveIsFinite, FS_AddElement DEF CountInv
<1>3. ASSUME NEW w \in Workers, WorkerStep(w) PROVE CountInv'
  <2>1. w \in Live
    BY <1>3, WorkerStepLive, Zenon DEF Live
  <2> QED
    BY <1>3, <2>1, WorkerStepLive, LiveIsFinite, FS_RemoveElement, Zenon DEF CountInv
<1> QED
  BY <1>1, <1>2, <1>3, WorkersChange, Zenon

\* Every step keeps the mutex with the one worker that is decrypting.
LEMMA MutexStep == TypeOK /\ RsaSerialised /\ [Next]_vars => RsaSerialised'
<1> SUFFICES ASSUME TypeOK, RsaSerialised, [Next]_vars PROVE RsaSerialised'
  BY Zenon
<1> USE DEF TypeOK, RsaSerialised
<1>1. CASE UNCHANGED workVars
  BY <1>1, Zenon DEF workVars
<1>2. ASSUME NEW s \in Sockets, NEW w \in Workers, LoginMessage(s, w)
      PROVE  RsaSerialised'
  BY <1>2, Zenon DEF LoginMessage, Worker
<1>3. ASSUME NEW w \in Workers, WorkerStep(w) PROVE RsaSerialised'
  <2>1. ASSUME NEW ok \in BOOLEAN, Connect(w, ok) PROVE RsaSerialised'
    BY <2>1, SMTT(30) DEF Connect, WorkerGoes, Worker
  <2>2. ASSUME NEW kind, Login(w, kind) PROVE RsaSerialised'
    BY <2>2, Zenon DEF Login, WorkerGoes, Worker
  <2>3. CASE LockRsa(w)
    BY <2>3, Zenon DEF LockRsa, WorkerGoes, Worker
  <2>4. CASE CheckShutdown(w)
    BY <2>4, Zenon DEF CheckShutdown, WorkerGoes, Worker
  <2>5. CASE SafeDefer(w)
    BY <2>5, Zenon DEF SafeDefer, WorkerGoes, Worker
  <2>6. CASE ExitWorker(w)
    BY <2>6, Zenon DEF ExitWorker, Idle, Worker
  <2> QED
    BY <1>3, <2>1, <2>2, <2>3, <2>4, <2>5, <2>6, Zenon DEF WorkerStep
<1> QED
  BY <1>1, <1>2, <1>3, WorkersChange, Zenon

-----------------------------------------------------------------------------
\* How far stop_websocket_acceptor has come says what is left of the rest.
MainInv ==
    /\ main \in {"drain", "reset", "stopped"} => wsThread = "exited"
    /\ main \in {"reset", "stopped"} => Live = {}
    /\ WsRsaKey \/ main \in {"init", "failed", "stopped"}
    /\ main \in {"init", "failed"} <=> wsThread = "none"
    /\ wsThread \in {"none", "setup", "listen"} => Live = {}

\* A step other than a login message adds no worker.
LEMMA LiveShrinks ==
  ASSUME TypeOK, [Next]_vars, wsThread # "run"
  PROVE  Live' \subseteq Live
<1>1. UNCHANGED workVars => Live' \subseteq Live
  BY Zenon DEF workVars, Live
<1>2. ASSUME NEW s \in Sockets, NEW w \in Workers, LoginMessage(s, w)
      PROVE  FALSE
  BY <1>2, Zenon DEF LoginMessage, CallBack
<1>3. ASSUME NEW w \in Workers, WorkerStep(w) PROVE Live' \subseteq Live
  BY <1>3, WorkerStepLive, Zenon
<1> QED
  BY <1>1, <1>2, <1>3, WorkersChange, Zenon

\* Every step keeps what the main thread has established in start and stop.
LEMMA MainInvStep ==
  TypeOK /\ CountInv /\ MainInv /\ [Next]_vars => MainInv'
<1> SUFFICES ASSUME TypeOK, CountInv, MainInv, [Next]_vars PROVE MainInv'
  BY Zenon
<1> USE DEF MainInv, mainVars, loopVars
<1>1. CASE UNCHANGED <<main, WsRsaKey, wsThread>>
  <2>1. main' = main /\ WsRsaKey' = WsRsaKey /\ wsThread' = wsThread
    BY <1>1, Zenon
  <2> QED
    BY <2>1, LiveShrinks, Zenon
<1>2. CASE MainStep \/ Signal
  <2>1. Live' = Live
    BY <1>2, Zenon DEF MainStep, Signal, Start, AwaitBind, SetShuttingDown, LoadLoop,
              DeferShutdown, JoinThread, DrainWorkers, ResetKey, MainGoes,
              workVars, Live
  <2>2. ASSUME NEW ok \in BOOLEAN, Start(ok) PROVE MainInv'
    BY <2>1, <2>2, Zenon DEF Start
  <2>3. CASE AwaitBind \/ Signal
    BY <2>1, <2>3, Zenon DEF AwaitBind, Signal, MainGoes
  <2>4. CASE SetShuttingDown
    BY <2>1, <2>4, Zenon DEF SetShuttingDown, MainGoes
  <2>5. CASE LoadLoop \/ DeferShutdown
    BY <2>1, <2>5, Zenon DEF LoadLoop, DeferShutdown, MainGoes
  <2>6. CASE JoinThread
    BY <2>1, <2>6, Zenon DEF JoinThread, MainGoes
  <2>7. CASE DrainWorkers
    <3>1. Live = {}
      BY <2>7, LiveIsFinite, FS_EmptySet, Zenon DEF DrainWorkers, CountInv
    <3> QED
      BY <2>1, <2>7, <3>1, Zenon DEF DrainWorkers, MainGoes
  <2>8. CASE ResetKey
    BY <2>1, <2>8, Zenon DEF ResetKey, MainGoes
  <2> QED
    BY <1>2, <2>2, <2>3, <2>4, <2>5, <2>6, <2>7, <2>8, Zenon DEF MainStep
<1>3. CASE LoopStep
  <2>1. Live' = Live /\ UNCHANGED <<main, WsRsaKey>>
    BY <1>3, Zenon DEF LoopStep, SetUpLoop, Listen, Wakeup, RunDeferred, LeaveRun,
                ClearPointers, FreeLoop, workVars, Live
  <2>2. \/ wsThread' = wsThread
        \/ wsThread = "setup" /\ wsThread' = "listen"
        \/ wsThread = "listen" /\ wsThread' = "run"
        \/ wsThread = "run" /\ wsThread' = "clear"
        \/ wsThread = "clear" /\ wsThread' = "free"
        \/ wsThread = "free" /\ wsThread' = "exited"
    BY <1>3, Zenon DEF LoopStep, SetUpLoop, Listen, Wakeup, RunDeferred, LeaveRun,
                ClearPointers, FreeLoop
  <2> QED
    BY <2>1, <2>2, Zenon
<1>4. ASSUME NEW s \in Sockets, ClientEvent(s) \/ IdleTimeout(s)
      PROVE  UNCHANGED <<main, WsRsaKey, wsThread>>
  BY <1>4, Zenon DEF ClientEvent, IdleTimeout, Open, LoginMessage, RejectMessage,
              OtherData, PeerEnds, PeerGone, IdlePing, IdleClose, SocketEvent,
              CallBack
<1>5. ASSUME NEW w \in Workers, WorkerStep(w)
      PROVE  UNCHANGED <<main, WsRsaKey, wsThread>>
  BY <1>5, Zenon DEF WorkerStep, Connect, Login, LockRsa, CheckShutdown, SafeDefer,
              ExitWorker, WorkerGoes
<1>6. UNCHANGED vars => UNCHANGED <<main, WsRsaKey, wsThread>>
  BY Zenon DEF vars
<1> QED
  BY <1>1, <1>2, <1>3, <1>4, <1>5, <1>6, Zenon DEF Next, Terminated

\* What the event-loop thread has done says which objects exist.
LoopInv ==
    /\ loop = "none" <=> wsThread \in {"none", "setup"}
    /\ loop = "freed" <=> wsThread = "exited"
    /\ EventLoop <=> wsThread \in {"listen", "run", "clear"}
    /\ wsThread # "run" => batch = <<>> /\ ~Polling
    /\ loop # "live" => deferQueue = <<>>

\* Every step keeps what the event-loop thread has established.
LEMMA LoopInvStep == TypeOK /\ MainInv /\ LoopInv /\ [Next]_vars => LoopInv'
<1> SUFFICES ASSUME TypeOK, MainInv, LoopInv, [Next]_vars PROVE LoopInv'
  BY Zenon
<1> USE DEF LoopInv, loopVars, connVars
<1>1. ASSUME UNCHANGED <<loopVars, sock>>, loop # "live" => UNCHANGED deferQueue
      PROVE  LoopInv'
  BY <1>1, Zenon DEF Polling
<1>2. CASE MainStep \/ Signal
  <2>1. ASSUME NEW ok \in BOOLEAN, Start(ok) PROVE LoopInv'
    BY <2>1, Zenon DEF Start, Polling, MainInv
  <2>2. CASE Signal \/ AwaitBind \/ SetShuttingDown \/ LoadLoop \/ JoinThread
               \/ DrainWorkers \/ ResetKey
    BY <1>1, <2>2, Zenon DEF Signal, AwaitBind, SetShuttingDown, LoadLoop, JoinThread,
                      DrainWorkers, ResetKey, MainGoes
  <2>3. CASE DeferShutdown
    BY <1>1, <2>3, Zenon DEF DeferShutdown, DeferOn, MainGoes
  <2> QED
    BY <1>2, <2>1, <2>2, <2>3, Zenon DEF MainStep
<1>3. CASE LoopStep
  <2>1. CASE SetUpLoop
    BY <2>1, Zenon DEF SetUpLoop, Polling
  <2>2. ASSUME NEW bound \in BOOLEAN, Listen(bound) PROVE LoopInv'
    BY <2>2, Zenon DEF Listen, Polling
  <2>3. CASE Wakeup
    BY <2>3, Zenon DEF Wakeup, Polling
  <2>4. CASE RunDeferred
    BY <2>4, Zenon DEF RunDeferred
  <2>5. CASE LeaveRun
    BY <2>5, Zenon DEF LeaveRun, Polling
  <2>6. CASE ClearPointers
    BY <2>6, Zenon DEF ClearPointers, Polling
  <2>7. CASE FreeLoop
    BY <2>7, Zenon DEF FreeLoop, Polling
  <2> QED
    BY <1>3, <2>1, <2>2, <2>3, <2>4, <2>5, <2>6, <2>7, Zenon DEF LoopStep
<1>4. ASSUME NEW s \in Sockets, ClientEvent(s) \/ IdleTimeout(s) PROVE LoopInv'
  <2>1. wsThread = "run" /\ UNCHANGED <<loopVars, deferQueue>>
    BY <1>4, Zenon DEF ClientEvent, IdleTimeout, Open, LoginMessage, RejectMessage,
                OtherData, PeerEnds, PeerGone, IdlePing, IdleClose,
                SocketEvent, CallBack
  <2> QED
    BY <2>1, Zenon
<1>5. ASSUME NEW w \in Workers, WorkerStep(w) PROVE LoopInv'
  BY <1>1, <1>5, Zenon DEF WorkerStep, Connect, Login, LockRsa, CheckShutdown, SafeDefer,
                    DeferOn, ExitWorker, WorkerGoes
<1>6. UNCHANGED vars => LoopInv'
  BY <1>1, Zenon DEF vars
<1> QED
  BY <1>2, <1>3, <1>4, <1>5, <1>6, Zenon DEF Next, Terminated

-----------------------------------------------------------------------------
\* Request ids of open sockets are distinct and were given out by .open.
IdInv ==
    /\ \A s \in Sockets : sock[s].st = "open" => sock[s].id \in 1 .. NextRequestId
    /\ \A s, t \in Sockets :
         sock[s].st = "open" /\ sock[t].st = "open" /\ sock[s].id = sock[t].id
           => s = t

\* No socket was opened and those still open are the same as before.
OnlyCloses ==
    /\ NextRequestId' = NextRequestId
    /\ \A s \in Sockets : sock'[s].st = "open" =>
         /\ sock[s].st = "open"
         /\ sock'[s].id = sock[s].id
         /\ sock'[s].session = sock[s].session

\* Closing sockets erases exactly their requests.
LEMMA CloseAllKeeps ==
  ASSUME TypeOK, IdInv, PendingIsOpenSockets, NEW S \in SUBSET Sockets,
         CloseAll(S), UNCHANGED NextRequestId
  PROVE  OnlyCloses /\ PendingIsOpenSockets'
<1> USE DEF TypeOK
<1>1. \A s \in Sockets : sock'[s] = IF s \in S THEN NoSocket ELSE sock[s]
  BY Zenon DEF CloseAll
<1>2. OnlyCloses
  <2>1. NoSocket.st = "free"
    BY Zenon DEF NoSocket, WsSocket
  <2>2. \A s \in Sockets : sock'[s].st = "open" => sock'[s] = sock[s]
    BY <1>1, <2>1, Zenon
  <2> QED
    BY <2>2, Zenon DEF OnlyCloses
<1>3. ASSUME NEW p
      PROVE  p \in PendingRequests' <=>
               \E s \in Sockets : sock'[s].st = "open" /\ p = <<sock'[s].id, s>>
  <2>1. p \in PendingRequests <=>
          \E s \in Sockets : sock[s].st = "open" /\ p = <<sock[s].id, s>>
    BY Zenon DEF PendingIsOpenSockets
  <2>2. p \in PendingRequests' <=>
          /\ p \in PendingRequests
          /\ \A t \in S : sock[t].st = "open" => p[1] # sock[t].id
    BY Zenon DEF CloseAll, Erase
  <2> QED
    BY <1>1, <2>1, <2>2, SMTT(30) DEF IdInv, NoSocket, WsSocket
<1> QED
  BY <1>2, <1>3, Zenon DEF PendingIsOpenSockets

\* Every step but .open only closes sockets, and keeps PendingRequests right.
LEMMA SocketsChange ==
  ASSUME TypeOK, IdInv, PendingIsOpenSockets, [Next]_vars
  PROVE  \/ \E s \in Sockets : Open(s)
         \/ OnlyCloses /\ PendingIsOpenSockets'
<1>1. ASSUME UNCHANGED <<NextRequestId, PendingRequests, sock>>
      PROVE  OnlyCloses /\ PendingIsOpenSockets'
  BY <1>1, Zenon DEF OnlyCloses, PendingIsOpenSockets
<1>2. ASSUME NEW s \in Sockets, sock[s].st = "open", NEW pinged \in BOOLEAN,
             NEW owed \in Nat, NEW served \in Nat,
             sock' = [sock EXCEPT ![s] =
                        WsSocket("open", sock[s].id, pinged, sock[s].session,
                                 owed, served)],
             UNCHANGED <<NextRequestId, PendingRequests>>
      PROVE  OnlyCloses /\ PendingIsOpenSockets'
  <2>1. \A t \in Sockets : sock'[t].st = sock[t].st /\ sock'[t].id = sock[t].id
                             /\ sock'[t].session = sock[t].session
    BY <1>2, Zenon DEF WsSocket, TypeOK
  <2> QED
    BY <1>2, <2>1, Zenon DEF OnlyCloses, PendingIsOpenSockets
<1>3. CASE MainStep \/ Signal
  BY <1>1, <1>3, Zenon DEF MainStep, Signal, Start, AwaitBind, SetShuttingDown,
        LoadLoop, DeferShutdown, JoinThread, DrainWorkers, ResetKey, MainGoes,
        connVars
<1>4. CASE LoopStep
  <2>1. CASE RunDeferred
    <3>1. ASSUME NEW c, RunSend(c) PROVE OnlyCloses /\ PendingIsOpenSockets'
      <4>1. \A t \in Sockets : sock'[t].st = sock[t].st /\ sock'[t].id = sock[t].id
                                 /\ sock'[t].session = sock[t].session
        BY <3>1, Zenon DEF RunSend, WsSocket
      <4>2. UNCHANGED <<NextRequestId, PendingRequests>>
        BY <2>1, <3>1, Zenon DEF RunDeferred, RunSend
      <4> QED
        BY <4>1, <4>2, Zenon DEF OnlyCloses, PendingIsOpenSockets
    <3>2. ASSUME NEW c, RunClose(c) PROVE OnlyCloses /\ PendingIsOpenSockets'
      BY <2>1, <3>2, CloseAllKeeps, Zenon DEF RunDeferred, RunClose, Found
    <3>3. ASSUME RunShutdown PROVE OnlyCloses /\ PendingIsOpenSockets'
      BY <2>1, <3>3, CloseAllKeeps, Zenon DEF RunDeferred, RunShutdown
    <3> QED
      BY <2>1, <3>1, <3>2, <3>3, Zenon DEF RunDeferred
  <2> QED
    BY <1>1, <1>4, <2>1, Zenon DEF LoopStep, SetUpLoop, Listen, Wakeup, LeaveRun,
                            ClearPointers, FreeLoop, connVars
<1>5. ASSUME NEW s \in Sockets, ClientEvent(s), ~Open(s)
      PROVE  OnlyCloses /\ PendingIsOpenSockets'
  <2>1. CASE RejectMessage(s) \/ PeerGone(s)
    BY <2>1, CloseAllKeeps, Zenon DEF RejectMessage, PeerGone, SocketEvent
  <2>2. ASSUME NEW w \in Workers, LoginMessage(s, w)
        PROVE  OnlyCloses /\ PendingIsOpenSockets'
    <3>1. sock[s].owed + 1 \in Nat /\ sock[s].served \in Nat
      BY DEF TypeOK, SocketObject
    <3> QED
      BY <1>2, <2>2, <3>1, Zenon DEF LoginMessage
  <2>3. CASE OtherData(s)
    BY <1>2, <2>3, Zenon DEF OtherData, SocketEvent, TypeOK, SocketObject
  <2>4. CASE PeerEnds(s)
    <3>1. \A t \in Sockets : t # s => sock'[t] = sock[t]
      BY <2>4, Zenon DEF PeerEnds, TypeOK
    <3>2. sock'[s].st = "ending"
      BY <2>4, Zenon DEF PeerEnds, WsSocket, TypeOK
    <3>3. OnlyCloses
      BY <2>4, <3>1, <3>2, Zenon DEF PeerEnds, SocketEvent, OnlyCloses
    <3>4. ASSUME NEW p
          PROVE  p \in PendingRequests' <=>
                   \E t \in Sockets : sock'[t].st = "open" /\ p = <<sock'[t].id, t>>
      <4>1. p \in PendingRequests <=>
              \E t \in Sockets : sock[t].st = "open" /\ p = <<sock[t].id, t>>
        BY Zenon DEF PendingIsOpenSockets
      <4>2. p \in PendingRequests' <=> p \in PendingRequests /\ p[1] # sock[s].id
        BY <2>4, Zenon DEF PeerEnds, Erase
      <4>3. sock[s].st = "open"
        BY <2>4, Zenon DEF PeerEnds
      <4> QED
        BY <3>1, <3>2, <4>1, <4>2, <4>3 DEF IdInv
    <3> QED
      BY <3>3, <3>4, Zenon DEF PendingIsOpenSockets
  <2> QED
    BY <1>5, <2>1, <2>2, <2>3, <2>4, Zenon DEF ClientEvent
<1>6. ASSUME NEW s \in Sockets, IdleTimeout(s)
      PROVE  OnlyCloses /\ PendingIsOpenSockets'
  <2>1. CASE IdlePing(s)
    BY <1>2, <2>1, Zenon DEF IdlePing, SocketEvent, TypeOK, SocketObject
  <2>2. CASE IdleClose(s)
    BY <2>2, CloseAllKeeps, Zenon DEF IdleClose, SocketEvent
  <2> QED
    BY <1>6, <2>1, <2>2, Zenon DEF IdleTimeout
<1>7. ASSUME NEW w \in Workers, WorkerStep(w)
      PROVE  OnlyCloses /\ PendingIsOpenSockets'
  BY <1>1, <1>7, Zenon DEF WorkerStep, Connect, Login, LockRsa, CheckShutdown,
                    SafeDefer, ExitWorker, WorkerGoes, connVars
<1>8. UNCHANGED vars => OnlyCloses /\ PendingIsOpenSockets'
  BY <1>1, Zenon DEF vars, connVars
<1> QED
  BY <1>3, <1>4, <1>5, <1>6, <1>7, <1>8, Zenon DEF Next, Terminated

-----------------------------------------------------------------------------
\* The request id that r carries finds the session r is for, or nothing; and
\* .open will not give this id out again.
Carried(r) ==
    /\ r.id <= NextRequestId
    /\ \A s \in Sockets :
         sock[s].st = "open" /\ sock[s].id = r.id => sock[s].session = r.session

CarriedNext(r) ==
    /\ r.id <= NextRequestId'
    /\ \A s \in Sockets :
         sock'[s].st = "open" /\ sock'[s].id = r.id => sock'[s].session = r.session

CarryInv ==
    /\ \A w \in Workers : worker[w].pc # "idle" => Carried(worker[w])
    /\ \A i \in 1 .. Len(deferQueue) : Carried(deferQueue[i])
    /\ \A i \in 1 .. Len(batch) : Carried(batch[i])

\* What .open does to the sockets.
LEMMA OpenKeeps ==
  ASSUME TypeOK, IdInv, PendingIsOpenSockets, NEW s \in Sockets, Open(s)
  PROVE  /\ NextRequestId' = NextRequestId + 1
         /\ sock'[s].st = "open" /\ sock'[s].id = NextRequestId + 1
         /\ \A t \in Sockets : t # s => sock'[t] = sock[t]
         /\ IdInv'
         /\ PendingIsOpenSockets'
<1>1. NextRequestId' = NextRequestId + 1
  BY Zenon DEF Open
<1>2. /\ sock'[s].st = "open" /\ sock'[s].id = NextRequestId + 1
      /\ \A t \in Sockets : t # s => sock'[t] = sock[t]
  BY Zenon DEF Open, WsSocket, TypeOK
<1>3. sock[s].st = "free"
  BY Zenon DEF Open
<1>4. IdInv'
  BY <1>1, <1>2, SMTT(30) DEF IdInv, TypeOK
<1>5. ASSUME NEW p
      PROVE  p \in PendingRequests' <=>
               \E t \in Sockets : sock'[t].st = "open" /\ p = <<sock'[t].id, t>>
  <2>1. p \in PendingRequests <=>
          \E t \in Sockets : sock[t].st = "open" /\ p = <<sock[t].id, t>>
    BY Zenon DEF PendingIsOpenSockets
  <2>2. p \in PendingRequests' <=>
          \/ p \in PendingRequests /\ p[1] # NextRequestId + 1
          \/ p = <<NextRequestId + 1, s>>
    BY <1>1, Zenon DEF Open, Erase
  <2> QED
    BY <1>2, <1>3, <2>1, <2>2, SMTT(30) DEF IdInv, TypeOK
<1> QED
  BY <1>1, <1>2, <1>4, <1>5, Zenon DEF PendingIsOpenSockets

\* A request id stays right whatever happens to the sockets.
LEMMA CarriedStep ==
  ASSUME TypeOK, IdInv, PendingIsOpenSockets, [Next]_vars,
         NEW r, r.id \in Nat, Carried(r)
  PROVE  CarriedNext(r)
<1>1. ASSUME NEW s \in Sockets, Open(s) PROVE CarriedNext(r)
  <2>1. /\ NextRequestId' = NextRequestId + 1
        /\ sock'[s].id = NextRequestId + 1
        /\ \A t \in Sockets : t # s => sock'[t] = sock[t]
    BY <1>1, OpenKeeps, Zenon
  <2>2. r.id <= NextRequestId /\ NextRequestId \in Nat
    BY Zenon DEF Carried, TypeOK
  <2> QED
    BY <2>1, <2>2, SMTT(30) DEF Carried, CarriedNext
<1>2. CASE OnlyCloses
  BY <1>2, Zenon DEF OnlyCloses, Carried, CarriedNext
<1> QED
  BY <1>1, <1>2, SocketsChange, Zenon

\* Every step keeps request ids unique and the request map exact.
LEMMA SocketInvStep ==
  TypeOK /\ IdInv /\ PendingIsOpenSockets /\ [Next]_vars
    => IdInv' /\ PendingIsOpenSockets'
<1> SUFFICES ASSUME TypeOK, IdInv, PendingIsOpenSockets, [Next]_vars
             PROVE  IdInv' /\ PendingIsOpenSockets'
  BY Zenon
<1>1. OnlyCloses => IdInv'
  BY ZenonT(30) DEF OnlyCloses, IdInv
<1> QED
  BY <1>1, OpenKeeps, SocketsChange, Zenon

\* What an appended queue holds: its old elements, and the new one.
LEMMA AppendElements ==
  ASSUME NEW S, NEW q \in Seq(S), NEW c, NEW r, r = q \/ r = Append(q, c)
  PROVE  \A i \in 1 .. Len(r) :
           (i \in 1 .. Len(q) /\ r[i] = q[i]) \/ r[i] = c
  BY SMTT(30)

\* Where the lambdas of the queue and of the batch come from.
LEMMA QueueChange ==
  ASSUME TypeOK, [Next]_vars
  PROVE  /\ \A i \in 1 .. Len(deferQueue') :
              \/ i \in 1 .. Len(deferQueue) /\ deferQueue'[i] = deferQueue[i]
              \/ deferQueue'[i].id = 0
              \/ \E w \in Workers : /\ worker[w].pc # "idle"
                                    /\ deferQueue'[i].id = worker[w].id
                                    /\ deferQueue'[i].session = worker[w].session
         /\ \A i \in 1 .. Len(batch') :
              \/ \E j \in 1 .. Len(batch) : batch'[i] = batch[j]
              \/ i \in 1 .. Len(deferQueue) /\ batch'[i] = deferQueue[i]
<1> DEFINE Goal ==
      /\ \A i \in 1 .. Len(deferQueue') :
              \/ i \in 1 .. Len(deferQueue) /\ deferQueue'[i] = deferQueue[i]
              \/ deferQueue'[i].id = 0
              \/ \E w \in Workers : /\ worker[w].pc # "idle"
                                    /\ deferQueue'[i].id = worker[w].id
                                    /\ deferQueue'[i].session = worker[w].session
      /\ \A i \in 1 .. Len(batch') :
              \/ \E j \in 1 .. Len(batch) : batch'[i] = batch[j]
              \/ i \in 1 .. Len(deferQueue) /\ batch'[i] = deferQueue[i]
<1> SUFFICES Goal
  BY Zenon
<1>1. ASSUME UNCHANGED <<deferQueue, batch>> PROVE Goal
  BY <1>1, Zenon
<1>2. CASE MainStep \/ Signal
  <2>1. CASE DeferShutdown
    <3>1. batch' = batch
      BY <2>1, Zenon DEF DeferShutdown, MainGoes, loopVars
    <3> DEFINE c == [kind |-> "shutdown", id |-> 0, session |-> 0]
    <3>2. deferQueue' = deferQueue \/ deferQueue' = Append(deferQueue, c)
      BY <2>1, Zenon DEF DeferShutdown, DeferOn
    <3>5. c.id = 0
      BY Zenon
    <3> HIDE DEF c
    <3>3. deferQueue \in Seq(Closure)
      BY Zenon DEF TypeOK
    <3>4. \A i \in 1 .. Len(deferQueue') :
            \/ i \in 1 .. Len(deferQueue) /\ deferQueue'[i] = deferQueue[i]
            \/ deferQueue'[i] = c
      BY <3>2, <3>3, AppendElements, SMTT(30)
    <3> QED
      BY <3>1, <3>4, <3>5, Zenon
  <2> QED
    BY <1>1, <1>2, <2>1, Zenon DEF MainStep, Signal, Start, AwaitBind,
          SetShuttingDown, LoadLoop, JoinThread, DrainWorkers, ResetKey,
          MainGoes, loopVars
<1>3. CASE LoopStep
  <2>1. CASE Wakeup
    BY <2>1, SMTT(30) DEF Wakeup, TypeOK
  <2>2. CASE RunDeferred
    BY <2>2, SMTT(30) DEF RunDeferred, TypeOK
  <2>3. CASE FreeLoop
    BY <2>3, SMTT(30) DEF FreeLoop, TypeOK
  <2> QED
    BY <1>1, <1>3, <2>1, <2>2, <2>3, Zenon DEF LoopStep, SetUpLoop, Listen, LeaveRun,
                                        ClearPointers
<1>4. ASSUME NEW s \in Sockets, ClientEvent(s) \/ IdleTimeout(s) PROVE Goal
  <2>1. UNCHANGED <<deferQueue, batch>>
    BY <1>4, Zenon DEF ClientEvent, IdleTimeout, Open, LoginMessage, RejectMessage,
              OtherData, PeerEnds, PeerGone, IdlePing, IdleClose, SocketEvent,
              CallBack, loopVars
  <2> QED
    BY <1>1, <2>1, Zenon
<1>5. ASSUME NEW w \in Workers, WorkerStep(w) PROVE Goal
  <2>1. CASE SafeDefer(w)
    <3>1. batch' = batch /\ worker[w].pc = "defer"
      BY <2>1, Zenon DEF SafeDefer, WorkerGoes, loopVars
    <3> DEFINE c == [kind |-> worker[w].kind, id |-> worker[w].id,
                     session |-> worker[w].session]
    <3>2. deferQueue' = deferQueue \/ deferQueue' = Append(deferQueue, c)
      BY <2>1, Zenon DEF SafeDefer, DeferOn
    <3>5. c.id = worker[w].id /\ c.session = worker[w].session
      BY Zenon
    <3> HIDE DEF c
    <3>3. deferQueue \in Seq(Closure)
      BY Zenon DEF TypeOK
    <3>4. \A i \in 1 .. Len(deferQueue') :
            \/ i \in 1 .. Len(deferQueue) /\ deferQueue'[i] = deferQueue[i]
            \/ deferQueue'[i] = c
      BY <3>2, <3>3, AppendElements, SMTT(30)
    <3> QED
      BY <3>1, <3>4, <3>5, Zenon
  <2> QED
    BY <1>1, <1>5, <2>1, Zenon DEF WorkerStep, Connect, Login, LockRsa, CheckShutdown,
                            ExitWorker, WorkerGoes, loopVars
<1>6. UNCHANGED vars => Goal
  BY <1>1, Zenon DEF vars, loopVars
<1> QED
  BY <1>2, <1>3, <1>4, <1>5, <1>6, Zenon DEF Next, Terminated

\* The lambdas of the queues carry request ids.
LEMMA ClosureIds ==
  ASSUME TypeOK
  PROVE  /\ \A i \in 1 .. Len(deferQueue) : deferQueue[i].id \in Nat
         /\ \A i \in 1 .. Len(batch) : batch[i].id \in Nat
<1>1. \A c \in Closure : c.id \in Nat
  BY Zenon DEF Closure
<1>2. \A i \in 1 .. Len(deferQueue) : deferQueue[i] \in Closure
  BY DEF TypeOK
<1>3. \A i \in 1 .. Len(batch) : batch[i] \in Closure
  BY SMTT(30) DEF TypeOK
<1> QED
  BY <1>1, <1>2, <1>3, Zenon

\* Every step keeps that for all workers and lambdas.
LEMMA CarryStep ==
  TypeOK /\ IdInv /\ PendingIsOpenSockets /\ CarryInv /\ [Next]_vars => CarryInv'
<1> SUFFICES ASSUME TypeOK, IdInv, PendingIsOpenSockets, CarryInv, [Next]_vars
             PROVE  CarryInv'
  BY Zenon
<1>1. ASSUME NEW w \in Workers, worker'[w].pc # "idle"
      PROVE  CarriedNext(worker'[w])
  <2>1. ASSUME NEW s \in Sockets, NEW v \in Workers, LoginMessage(s, v)
        PROVE  CarriedNext(worker'[w])
    <3>1. CASE w = v
      <4>1. /\ worker'[w].id = sock[s].id /\ worker'[w].session = sock[s].session
            /\ sock[s].st = "open"
        BY <2>1, <3>1, Zenon DEF LoginMessage, Worker, TypeOK
      <4>2. sock[s].id \in Nat /\ Carried(worker'[w])
        BY <4>1, SMTT(30) DEF Carried, IdInv, TypeOK, SocketObject
      <4> QED
        BY <4>1, <4>2, CarriedStep, Zenon
    <3>2. CASE w # v
      <4>1. worker'[w] = worker[w]
        BY <2>1, <3>2, Zenon DEF LoginMessage, TypeOK
      <4>2. worker[w].id \in Nat /\ Carried(worker[w])
        BY <1>1, <4>1, Zenon DEF CarryInv, TypeOK, WorkerThread
      <4> QED
        BY <4>1, <4>2, CarriedStep, Zenon
    <3> QED
      BY <3>1, <3>2, Zenon
  <2>2. ASSUME UNCHANGED workVars \/ \E v \in Workers : WorkerStep(v)
        PROVE  CarriedNext(worker'[w])
    <3>1. /\ worker[w].pc # "idle"
          /\ worker'[w].id = worker[w].id /\ worker'[w].session = worker[w].session
      <4>1. CASE UNCHANGED workVars
        BY <1>1, <4>1, Zenon DEF workVars
      <4>2. ASSUME NEW v \in Workers, WorkerStep(v), w # v
            PROVE  worker'[w] = worker[w]
        BY <4>2, Zenon DEF WorkerStep, Connect, Login, LockRsa, CheckShutdown,
                    SafeDefer, ExitWorker, WorkerGoes, TypeOK
      <4>3. ASSUME WorkerStep(w), ~ExitWorker(w)
            PROVE  /\ worker'[w].id = worker[w].id
                   /\ worker'[w].session = worker[w].session
        BY <4>3, SMTT(60) DEF WorkerStep, Connect, Login, LockRsa, CheckShutdown,
                    SafeDefer, WorkerGoes, Worker, TypeOK
      <4>4. ~ExitWorker(w)
        BY <1>1, SMTT(30) DEF ExitWorker, Idle, Worker, TypeOK
      <4> QED
        BY <1>1, <2>2, <4>1, <4>2, <4>3, <4>4, WorkerStepLive, Zenon
    <3>2. worker[w].id \in Nat /\ Carried(worker[w])
      BY <3>1, Zenon DEF CarryInv, TypeOK, WorkerThread
    <3>3. CarriedNext(worker[w])
      BY <3>2, CarriedStep, Zenon
    <3> QED
      BY <3>1, <3>3, Zenon DEF CarriedNext
  <2> QED
    BY <2>1, <2>2, WorkersChange, Zenon
<1>2. ASSUME NEW i \in 1 .. Len(deferQueue') PROVE CarriedNext(deferQueue'[i])
  <2>1. CASE i \in 1 .. Len(deferQueue) /\ deferQueue'[i] = deferQueue[i]
    <3>1. deferQueue[i].id \in Nat /\ Carried(deferQueue[i])
      BY <2>1, ClosureIds, Zenon DEF CarryInv
    <3> QED
      BY <2>1, <3>1, CarriedStep, Zenon
  <2>2. CASE deferQueue'[i].id = 0
    <3>1. deferQueue'[i].id \in Nat /\ Carried(deferQueue'[i])
      BY <2>2, SMTT(30) DEF Carried, IdInv, TypeOK
    <3> QED
      BY <3>1, CarriedStep, Zenon
  <2>3. ASSUME NEW w \in Workers, worker[w].pc # "idle",
               deferQueue'[i].id = worker[w].id,
               deferQueue'[i].session = worker[w].session
        PROVE  CarriedNext(deferQueue'[i])
    <3>1. worker[w].id \in Nat /\ Carried(worker[w])
      BY <2>3, Zenon DEF CarryInv, TypeOK, WorkerThread
    <3>2. CarriedNext(worker[w])
      BY <3>1, CarriedStep, Zenon
    <3> QED
      BY <2>3, <3>2, Zenon DEF CarriedNext
  <2> QED
    BY <2>1, <2>2, <2>3, QueueChange, Zenon
<1>3. ASSUME NEW i \in 1 .. Len(batch') PROVE CarriedNext(batch'[i])
  <2>1. ASSUME NEW j \in 1 .. Len(batch), batch'[i] = batch[j]
        PROVE  CarriedNext(batch'[i])
    <3>1. batch[j].id \in Nat /\ Carried(batch[j])
      BY <2>1, ClosureIds, Zenon DEF CarryInv
    <3> QED
      BY <2>1, <3>1, CarriedStep, Zenon
  <2>2. CASE i \in 1 .. Len(deferQueue) /\ batch'[i] = deferQueue[i]
    <3>1. deferQueue[i].id \in Nat /\ Carried(deferQueue[i])
      BY <2>2, ClosureIds, Zenon DEF CarryInv
    <3> QED
      BY <2>2, <3>1, CarriedStep, Zenon
  <2> QED
    BY <2>1, <2>2, QueueChange, Zenon
<1> QED
  BY <1>1, <1>2, <1>3, Zenon DEF CarryInv, Carried, CarriedNext

-----------------------------------------------------------------------------
\* The inductive invariant.
IInv ==
    /\ TypeOK /\ ResultInv /\ CountInv /\ RsaSerialised
    /\ MainInv /\ LoopInv
    /\ IdInv /\ PendingIsOpenSockets /\ CarryInv

\* The inductive invariant holds initially.
LEMMA InitIInv == Init => IInv
<1> SUFFICES ASSUME Init PROVE IInv
  BY Zenon
<1> USE DEF Init
<1>1. TypeOK
  <2>1. Idle \in WorkerThread /\ NoSocket \in SocketObject
    BY Zenon DEF Idle, Worker, WorkerThread, NoSocket, WsSocket, SocketObject
  <2>2. deferQueue \in Seq(Closure) /\ batch \in Seq(Closure)
    OBVIOUS
  <2> QED
    BY <2>1, <2>2, Zenon DEF TypeOK
<1>2. /\ \A w \in Workers : worker[w].pc = "idle"
      /\ \A s \in Sockets : sock[s].st = "free"
  BY Zenon DEF Idle, Worker, NoSocket, WsSocket
<1>3. Live = {} /\ Cardinality(Live) = 0
  BY <1>2, FS_EmptySet, Zenon DEF Live
<1>4. ResultInv /\ CountInv /\ RsaSerialised /\ MainInv
  BY <1>2, <1>3, Zenon DEF ResultInv, CountInv, RsaSerialised, MainInv
<1>5. LoopInv
  BY <1>2, Zenon DEF LoopInv, Polling
<1>6. IdInv /\ PendingIsOpenSockets /\ CarryInv
  BY <1>2, SMTT(30) DEF IdInv, PendingIsOpenSockets, CarryInv
<1> QED
  BY <1>1, <1>4, <1>5, <1>6, Zenon DEF IInv

\* Every step keeps the inductive invariant.
LEMMA NextIInv == IInv /\ [Next]_vars => IInv'
BY TypeStep, CountStep, MutexStep, MainInvStep, LoopInvStep, SocketInvStep,
   CarryStep, Zenon DEF IInv

\* The inductive invariant holds in every reachable state: it is what all the
\* theorems below follow from.
THEOREM Invariance == Spec => []IInv
BY InitIInv, NextIInv, PTL DEF Spec

\* Types of the globals of websocket_acceptor.cpp; in particular ActiveWorkers
\* never goes below zero.
THEOREM TypeCorrect == Spec => []TypeOK
<1>1. IInv => TypeOK
  BY Zenon DEF IInv
<1> QED
  BY <1>1, Invariance, PTL

\* WsRsaKey outlives every worker: stop_websocket_acceptor resets it only
\* after the last worker thread has returned.
THEOREM KeySafety == Spec => []KeyOutlivesWorkers
<1>1. IInv => KeyOutlivesWorkers
  BY Zenon DEF IInv, MainInv, KeyOutlivesWorkers
<1> QED
  BY <1>1, Invariance, PTL

\* RsaDecryptMutex serialises RsaKey::decrypt among any number of workers.
THEOREM RsaSafety == Spec => []RsaSerialised
<1>1. IInv => RsaSerialised
  BY Zenon DEF IInv
<1> QED
  BY <1>1, Invariance, PTL

\* PendingRequests never holds a pointer to a socket that was freed.
THEOREM PendingSafety == Spec => []PendingIsOpenSockets
<1>1. IInv => PendingIsOpenSockets
  BY Zenon DEF IInv
<1> QED
  BY <1>1, Invariance, PTL

\* The lambdas of process_ws_login act on the session that sent the request.
THEOREM ReplySafety == Spec => []ReplyToOwnSession
<1>1. IInv => ReplyToOwnSession
  <2> SUFFICES ASSUME IInv, NEW r \in Outstanding, NEW s \in Sockets,
                      <<r.id, s>> \in PendingRequests
               PROVE  sock[s].session = r.session
    BY Zenon DEF ReplyToOwnSession
  <2>1. Carried(r)
    <3>1. /\ \A i \in DOMAIN deferQueue : i \in 1 .. Len(deferQueue)
          /\ \A i \in DOMAIN batch : i \in 1 .. Len(batch)
      BY DEF IInv, TypeOK
    <3> QED
      BY <3>1, Zenon DEF IInv, CarryInv, Outstanding, Live
  <2>2. sock[s].st = "open" /\ sock[s].id = r.id
    BY Zenon DEF IInv, PendingIsOpenSockets
  <2> QED
    BY <2>1, <2>2, Zenon DEF Carried
<1> QED
  BY <1>1, Invariance, PTL

\* stop_websocket_acceptor leaves nothing behind when it returns.
THEOREM StopSafety == Spec => []NothingLeftBehind
<1>1. IInv => NothingLeftBehind
  <2> SUFFICES ASSUME IInv, main = "stopped" PROVE NothingLeftBehind
    BY Zenon DEF NothingLeftBehind
  <2>1. wsThread = "exited" /\ Live = {}
    BY Zenon DEF IInv, MainInv
  <2>2. ActiveWorkers = 0
    BY <2>1, FS_EmptySet, Zenon DEF IInv, CountInv
  <2>3. /\ loop = "freed" /\ ~EventLoop /\ ~Polling
        /\ batch = <<>> /\ deferQueue = <<>>
    BY <2>1, Zenon DEF IInv, LoopInv
  <2>4. ~ListenSocket /\ \A s \in Sockets : sock[s].st = "free"
    BY <2>3, Zenon DEF Polling
  <2>5. PendingRequests = {}
    BY <2>4, Zenon DEF IInv, PendingIsOpenSockets
  <2> QED
    BY <2>1, <2>2, <2>3, <2>4, <2>5, Zenon DEF NothingLeftBehind
<1> QED
  BY <1>1, Invariance, PTL

\* While stop polls ActiveWorkers the count can only fall.
THEOREM DrainSafety == Spec => NoWorkerDuringDrain
<1>1. ASSUME IInv, [Next]_vars, main \in {"drain", "reset"}
      PROVE  ActiveWorkers' <= ActiveWorkers
  <2>1. wsThread = "exited" /\ ActiveWorkers \in Nat
    BY <1>1, Zenon DEF IInv, MainInv, TypeOK
  <2>2. UNCHANGED workVars => ActiveWorkers' = ActiveWorkers
    BY Zenon DEF workVars
  <2>3. ASSUME NEW s \in Sockets, NEW w \in Workers, LoginMessage(s, w)
        PROVE  FALSE
    BY <2>1, <2>3, Zenon DEF LoginMessage, CallBack
  <2>4. ASSUME NEW w \in Workers, WorkerStep(w)
        PROVE  ActiveWorkers' = ActiveWorkers \/ ActiveWorkers' = ActiveWorkers - 1
    BY <1>1, <2>4, WorkerStepLive, Zenon DEF IInv
  <2> QED
    BY <1>1, <2>1, <2>2, <2>3, <2>4, WorkersChange, SMTT(30)
<1>2. IInv /\ [Next]_vars
        => [(main \in {"drain", "reset"}) => ActiveWorkers' <= ActiveWorkers]_vars
  BY <1>1, Zenon
<1> QED
  BY <1>2, Invariance, PTL DEF Spec, NoWorkerDuringDrain

=============================================================================
