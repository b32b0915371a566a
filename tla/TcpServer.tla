----------------------------- MODULE TcpServer ------------------------------
(***************************************************************************)
(* The TCP side of the login server (src/network/server.cpp): the table of *)
(* connection slots and the poll loop of process_connections, run by the   *)
(* main thread alone.  What makes it hard is the kernel and the clients:   *)
(* what poll reports, how much a read or write moves, when a client comes  *)
(* or goes, when a second passes and when the signal arrives are free.     *)
(*                                                                         *)
(* A step is a function of server.cpp up to its next read, write, accept   *)
(* or poll.  Buffers are abstracted to their sizes and positions.          *)
(***************************************************************************)
EXTENDS Integers, FiniteSets

CONSTANTS
    Descriptors,     \* descriptors the kernel can give to the server
    max_connections,
    connection_timeout,
    BufferSize,      \* sizeof(Connection::buffer)
    MaxU16,          \* the largest length prefix
    MaxClients       \* bounds the clients that ever connect

ASSUME TcpAssumption ==
    /\ max_connections \in Nat
    /\ connection_timeout \in Nat
    /\ BufferSize \in Nat /\ BufferSize >= 2
    /\ MaxU16 \in Nat /\ MaxU16 >= BufferSize
    /\ MaxClients \in Nat
    /\ -1 \notin Descriptors
    /\ 0 \notin Descriptors   \* it is the server's standard input

VARIABLES
    pc,               \* where the main thread is
    g_listener,
    g_connections,
    g_ShutdownSignal,
    open,             \* the kernel's table: descriptors open for this server
    backlog,          \* clients waiting to be accepted
    clients,          \* clients that have connected so far
    polled,           \* slots of Fds whose turn in this cycle is still to come
    revents,          \* what poll reported for them
    cur               \* the slot whose turn it is

cycleVars == <<polled, revents, cur>>
tcpVars == <<pc, g_listener, g_connections, g_ShutdownSignal, open, backlog,
           clients, cycleVars>>

Slots == 0 .. max_connections - 1

\* POLLERR and POLLHUP are told apart nowhere; POLLOUT is never looked at.
Events == {"POLLIN", "POLLHUP"}

\* The fields that matter.  "elapsed" is get_monotonic_uptime() - start_time,
\* cut off at the timeout.  "got" is history: the bytes read from the socket.
Connection(state, socket, elapsed, rw_size, rw_position, got) ==
    [state |-> state, socket |-> socket, elapsed |-> elapsed,
     rw_size |-> rw_size, rw_position |-> rw_position, got |-> got]

ConnectionObject ==
    [state : {"Free", "Reading", "Processing", "Writing"},
     socket : Descriptors \cup {-1, 0}, elapsed : 0 .. connection_timeout,
     rw_size : 0 .. BufferSize, rw_position : 0 .. BufferSize,
     got : Nat]

\* calloc, and the memset of release_connection: the socket is 0, not -1.
FreeSlot == Connection("Free", 0, 0, 0, 0, 0)

TcpTypeOK ==
    /\ pc \in {"boot", "loop", "accept", "next", "input", "read", "request",
               "output", "write", "check", "exit", "exited", "panic"}
    /\ g_listener \in Descriptors \cup {-1}
    /\ g_connections \in [Slots -> ConnectionObject]
    /\ g_ShutdownSignal \in BOOLEAN
    /\ open \in SUBSET Descriptors
    /\ backlog \in Nat
    /\ clients \in Nat
    /\ polled \in SUBSET Slots
    /\ revents \in [Slots -> SUBSET Events]
    /\ cur \in Slots \cup {-1}

TcpInit ==
    /\ pc = "boot" /\ g_listener = -1 /\ g_ShutdownSignal = FALSE
    /\ g_connections = [i \in Slots |-> FreeSlot]
    /\ open = {} /\ backlog = 0 /\ clients = 0
    /\ polled = {} /\ revents = [i \in Slots |-> {}] /\ cur = -1

-----------------------------------------------------------------------------
Conn == g_connections[cur]

Occupied == {i \in Slots : g_connections[i].state # "Free"}

\* The handler of the current slot changes its connection and goes on at "to".
Update(c, to) ==
    /\ g_connections' = [g_connections EXCEPT ![cur] = c]
    /\ pc' = to
    /\ UNCHANGED <<g_listener, g_ShutdownSignal, backlog, clients, cycleVars>>

\* The handler leaves the connection alone.
Skip(to) == Update(Conn, to) /\ UNCHANGED open

\* Mutated form: the descriptor is closed but still recorded in the slot.
CloseKeepingSocket(c, to) ==
    /\ Update(c, to)
    /\ open' = open \ {c.socket}

\* The handler has made the connection c, calls close_connection and goes on.
CloseConnection(c, to) ==
    /\ Update(Connection(c.state, -1, c.elapsed, c.rw_size, c.rw_position, c.got), to)
    /\ open' = open \ {c.socket}

-----------------------------------------------------------------------------
(* init_connections: a failure makes main return, and atexit cleans up.    *)
InitConnections ==
    /\ pc = "boot"
    /\ \/ \E fd \in Descriptors :
            /\ g_listener' = fd /\ open' = {fd} /\ pc' = "loop"
       \/ pc' = "exit" /\ UNCHANGED <<g_listener, open>>
    /\ UNCHANGED <<g_connections, g_ShutdownSignal, backlog, clients, cycleVars>>

\* main's loop ends, or process_connections fills Fds and polls.  The listener
\* comes first in Fds.
Poll ==
    /\ pc = "loop"
    /\ ~g_ShutdownSignal
    /\ polled' = Occupied
    /\ \E reported \in [Occupied -> SUBSET Events] :
         revents' = [i \in Slots |-> IF i \in Occupied THEN reported[i] ELSE {}]
    /\ pc' = IF g_listener # -1 /\ backlog > 0 THEN "accept" ELSE "next"
    /\ UNCHANGED <<g_listener, g_connections, g_ShutdownSignal, open, backlog,
                   clients, cur>>

\* Mutated form: the loop is left only when all connections are done.
LeaveLoopWhenDone ==
    /\ pc = "loop"
    /\ g_ShutdownSignal /\ Occupied = {}
    /\ pc' = "exit"
    /\ UNCHANGED <<g_listener, g_connections, g_ShutdownSignal, open, backlog,
                   clients, cycleVars>>

LeaveLoop ==
    /\ pc = "loop"
    /\ g_ShutdownSignal
    /\ pc' = "exit"
    /\ UNCHANGED <<g_listener, g_connections, g_ShutdownSignal, open, backlog,
                   clients, cycleVars>>

\* Mutated form: slot 0 when there is no free one.
FirstFreeOrZero(i) ==
    IF Slots = Occupied
    THEN i = 0
    ELSE i \in Slots \ Occupied /\ \A j \in Slots \ Occupied : i <= j

\* assign_connection: the first free slot, or none
FirstFree(i) ==
    /\ i \in Slots \ Occupied
    /\ \A j \in Slots \ Occupied : i <= j

\* One round of accept_connections that accepts: the descriptor goes to a slot,
\* or is closed again because no slot is free or fcntl failed.
AcceptConnection ==
    /\ pc = "accept"
    /\ backlog > 0
    /\ backlog' = backlog - 1
    /\ \/ \E fd \in Descriptors \ open, i \in Slots :
            /\ FirstFree(i)
            /\ g_connections' = [g_connections EXCEPT ![i] =
                 Connection("Reading", fd, 0, g_connections[i].rw_size,
                            g_connections[i].rw_position, 0)]
            /\ open' = open \cup {fd}
       \/ open # Descriptors /\ UNCHANGED <<g_connections, open>>
    /\ UNCHANGED <<pc, g_listener, g_ShutdownSignal, clients, cycleVars>>

\* accept returns -1: nobody waits, or the descriptors are used up
AcceptNone ==
    /\ pc = "accept"
    /\ backlog = 0 \/ open = Descriptors
    /\ pc' = "next"
    /\ UNCHANGED <<g_listener, g_connections, g_ShutdownSignal, open, backlog,
                   clients, cycleVars>>

\* the loop over Fds: the next slot in order, or the end of the cycle
NextSlot ==
    /\ pc = "next"
    /\ \/ \E i \in polled :
            /\ \A j \in polled : i <= j
            /\ cur' = i /\ polled' = polled \ {i} /\ pc' = "input"
            /\ UNCHANGED revents
       \/ /\ polled = {} /\ cur' = -1 /\ pc' = "loop"
          /\ revents' = [i \in Slots |-> {}]
          /\ UNCHANGED polled
    /\ UNCHANGED <<g_listener, g_connections, g_ShutdownSignal, open, backlog,
                   clients>>

-----------------------------------------------------------------------------
(* check_connection_input                                                  *)
CheckInput ==
    /\ pc = "input"
    /\ \/ /\ Conn.socket = -1 \/ "POLLIN" \notin revents[cur]
          /\ Skip("request")
       \/ /\ Conn.socket # -1 /\ "POLLIN" \in revents[cur]
          /\ IF Conn.state = "Reading" THEN Skip("read")
                                       ELSE CloseConnection(Conn, "request")

ReadSize(c) == IF c.rw_size > 0 THEN c.rw_size ELSE 2

\* the byte count passed to read
Wanted(c) == ReadSize(c) - c.rw_position

\* Mutated form: an empty payload is let through.
PayloadMayBeEmpty(PayloadSize) == PayloadSize <= BufferSize

PayloadFits(PayloadSize) == PayloadSize > 0 /\ PayloadSize <= BufferSize

\* read fails, reports the end of the stream or has nothing more
ReadStops ==
    /\ pc = "read"
    /\ Skip("request") \/ CloseConnection(Conn, "request")

\* read moves n bytes
ReadBytes(n) ==
    /\ pc = "read"
    /\ n <= Wanted(Conn)
    /\ LET position == Conn.rw_position + n
           Moved(state, size, pos) ==
             Connection(state, Conn.socket, Conn.elapsed, size, pos, Conn.got + n)
       IN  IF position < ReadSize(Conn)
           THEN /\ Update(Moved("Reading", Conn.rw_size, position), "read")
                /\ UNCHANGED open
           ELSE IF Conn.rw_size # 0
           THEN /\ Update(Moved("Processing", Conn.rw_size, position), "request")
                /\ UNCHANGED open
           ELSE IF position # 2 THEN Skip("panic")
           ELSE \E PayloadSize \in 0 .. MaxU16 :
                  IF PayloadFits(PayloadSize)
                  THEN /\ Update(Moved("Reading", PayloadSize, 0), "read")
                       /\ UNCHANGED open
                  ELSE CloseConnection(Moved("Reading", 0, 2), "request")

\* the connection as send_status_string and send_xtea_response leave it
Respond(size) ==
    Connection("Writing", Conn.socket, Conn.elapsed, size, 0, Conn.got)

\* check_connection_request: whatever process_login_request and
\* process_status_request decide, they close the connection or leave it
\* Writing with a response in its buffer.
CheckRequest ==
    /\ pc = "request"
    /\ IF Conn.socket = -1 \/ Conn.state # "Processing"
       THEN Skip("output")
       ELSE \/ CloseConnection(Conn, "output")
            \/ \E size \in 0 .. BufferSize :
                 Update(Respond(size), "output") /\ UNCHANGED open

(* check_connection_output                                                 *)
CheckOutput ==
    /\ pc = "output"
    /\ IF Conn.socket = -1 \/ Conn.state # "Writing"
       THEN Skip("check")
       ELSE Skip("write")

\* write fails, or would block
WriteStops ==
    /\ pc = "write"
    /\ Skip("check") \/ CloseConnection(Conn, "check")

WriteBytes(n) ==
    /\ pc = "write"
    /\ n <= Conn.rw_size - Conn.rw_position
    /\ n = 0 => Conn.rw_size = Conn.rw_position
    /\ IF Conn.rw_position + n >= Conn.rw_size
       THEN CloseConnection(Conn, "check")
       ELSE /\ Update(Connection(Conn.state, Conn.socket, Conn.elapsed,
                                 Conn.rw_size, Conn.rw_position + n, Conn.got),
                      "write")
            /\ UNCHANGED open

\* Mutated form: only a client that is slow to read is timed out.
TimedOutWriting(c) ==
    c.state = "Writing" /\ connection_timeout > 0 /\ c.elapsed >= connection_timeout

TimedOut(c) == connection_timeout > 0 /\ c.elapsed >= connection_timeout

\* release_connection: close_connection and memset
Release(c) == FreeSlot

\* Mutated form: what was closed before is released first, then closed what
\* has failed.
ReleaseThenClose ==
    /\ pc = "check"
    /\ IF Conn.socket = -1
       THEN Update(Release(Conn), "next") /\ UNCHANGED open
       ELSE IF "POLLHUP" \in revents[cur] \/ TimedOut(Conn)
       THEN CloseConnection(Conn, "next")
       ELSE Skip("next")

\* check_connection: close on an error or a timeout, release what is closed
CheckConnection ==
    /\ pc = "check"
    /\ IF \/ Conn.socket = -1
          \/ "POLLHUP" \in revents[cur]
          \/ TimedOut(Conn)
       THEN Update(Release(Conn), "next") /\ open' = open \ {Conn.socket}
       ELSE Skip("next")

-----------------------------------------------------------------------------
\* Mutated form: the table is freed with its connections still open.
ExitFreeingOnly ==
    /\ pc = "exit"
    /\ pc' = "exited"
    /\ g_listener' = -1
    /\ open' = open \ {g_listener}
    /\ g_connections' = [i \in Slots |-> FreeSlot]
    /\ backlog' = 0
    /\ UNCHANGED <<g_ShutdownSignal, clients, cycleVars>>

\* exit_connections, from atexit
ExitConnections ==
    /\ pc = "exit"
    /\ pc' = "exited"
    /\ g_listener' = -1
    /\ open' = open \ ({g_listener} \cup {g_connections[i].socket : i \in Occupied})
    /\ g_connections' = [i \in Slots |-> Release(g_connections[i])]
    /\ backlog' = 0
    /\ UNCHANGED <<g_ShutdownSignal, clients, cycleVars>>

(* The environment.                                                        *)
ClientConnects ==
    /\ g_listener # -1
    /\ clients < MaxClients
    /\ clients' = clients + 1 /\ backlog' = backlog + 1
    /\ UNCHANGED <<pc, g_listener, g_connections, g_ShutdownSignal, open, cycleVars>>

\* ShutdownHandler
ShutdownHandler ==
    /\ g_ShutdownSignal' = TRUE
    /\ UNCHANGED <<pc, g_listener, g_connections, open, backlog, clients, cycleVars>>

\* a second passes
Older(c) ==
    IF c.state # "Free" /\ c.elapsed < connection_timeout
    THEN Connection(c.state, c.socket, c.elapsed + 1, c.rw_size, c.rw_position, c.got)
    ELSE c

Tick ==
    /\ g_connections' = [i \in Slots |-> Older(g_connections[i])]
    /\ UNCHANGED <<pc, g_listener, g_ShutdownSignal, open, backlog, clients, cycleVars>>

-----------------------------------------------------------------------------
ServerStep ==
    \/ InitConnections \/ Poll \/ LeaveLoop \/ ExitConnections
    \/ AcceptConnection \/ AcceptNone \/ NextSlot
    \/ CheckInput \/ ReadStops \/ \E n \in 1 .. BufferSize : ReadBytes(n)
    \/ CheckRequest
    \/ CheckOutput \/ WriteStops \/ \E n \in 0 .. BufferSize : WriteBytes(n)
    \/ CheckConnection

Exited == pc = "exited" /\ UNCHANGED tcpVars

TcpNext == ServerStep \/ ClientConnects \/ ShutdownHandler \/ Tick \/ Exited

TcpSpec == TcpInit /\ [][TcpNext]_tcpVars

\* The main thread runs: poll returns within a second, and a request's query
\* ends.  Time passes.  Nothing is assumed of the clients or of the signal.
TcpFairness == WF_tcpVars(ServerStep) /\ WF_tcpVars(Tick)

FairTcpSpec == TcpSpec /\ TcpFairness

-----------------------------------------------------------------------------
ConnectionSockets == {g_connections[i].socket : i \in Occupied}

\* Each descriptor the server has open is the listener's or belongs to exactly
\* one slot, and each slot's descriptor is open: close_connection never closes
\* twice or another slot's socket, assign_connection and accept_connections
\* leak none.  (A free slot says 0, which must never be closed.)
OwnedDescriptors ==
    /\ open = ({g_listener} \cup ConnectionSockets) \ {-1}
    /\ g_listener = -1 \/ g_listener \notin ConnectionSockets
    /\ \A i, j \in Occupied :
         i # j => g_connections[i].socket # g_connections[j].socket

\* A slot is handed out as calloc left it, whoever had it before: it is what
\* assign_connection, which sets no size or position, relies on.
FreeSlotsAreClean ==
    \A i \in Slots \ Occupied : g_connections[i] = FreeSlot

\* check_connection_input always asks read for at least one byte (a request for
\* none would look like the end of the stream) and never for more than fits in
\* the buffer; check_connection_output stays within the response.
TransfersInBounds ==
    \A i \in Slots :
      LET c == g_connections[i] IN
        /\ c.state = "Reading" /\ c.socket # -1 =>
             c.rw_position < ReadSize(c) /\ ReadSize(c) <= BufferSize
        /\ c.state = "Writing" =>
             c.rw_position <= c.rw_size /\ c.rw_size <= BufferSize

\* check_connection_request sees whole requests only: the payload is not empty
\* (its ASSERT), is all there, and is all this client has sent but the prefix.
WholeRequests ==
    \A i \in Slots :
      LET c == g_connections[i] IN
        c.state = "Processing" =>
          c.rw_size > 0 /\ c.rw_position = c.rw_size /\ c.got = c.rw_size + 2

\* The PANIC in check_connection_input is not reached.
NoPanic == pc # "panic"

\* Outside its own turn no connection is closed but not released, or left
\* Processing, where no later event would take it up: in particular all that
\* poll is given is open, as check_connection's ASSERT on POLLNVAL says.
SettledBetweenTurns ==
    \A i \in Occupied :
      (i # cur \/ pc \in {"loop", "accept", "next"}) =>
        g_connections[i].socket # -1 /\ g_connections[i].state # "Processing"

\* The revents of a slot are applied to the connection that was polled: until
\* its turn nobody (accept_connections runs in the same cycle) touches it.
PolledUntouched ==
    [][\A i \in polled :
         g_connections'[i] \in {g_connections[i], Older(g_connections[i])}]_tcpVars

\* exit_connections closes everything, wherever start-up or the loop ended.
NothingLeftOpen == pc = "exited" => open = {} /\ Occupied = {}

\* With a timeout configured every accepted connection is released, whatever
\* its client does or does not do.
ConnectionsEnd ==
    \A i \in Slots : g_connections[i].state # "Free" ~> g_connections[i].state = "Free"

\* Every waiting client is accepted or turned away, also when slots or
\* descriptors are used up for a while.
ClientsAreTaken == backlog > 0 ~> backlog = 0

\* A signal ends the server, in whatever state its connections are.
SignalEnds == g_ShutdownSignal ~> pc = "exited"

=============================================================================
