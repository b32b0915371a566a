------------------------------ MODULE Lifecycle -----------------------------
(***************************************************************************)
(* main (src/main.cpp): the server is started part by part, runs in one of *)
(* three transport modes until a signal, and is taken down again, by main  *)
(* and by the functions registered with atexit.  The parts are here what   *)
(* main sees of them: which of their resources exist, and which threads    *)
(* run.  TcpServer, WsAcceptor and QueryClient have their insides.         *)
(***************************************************************************)
EXTENDS Integers, Sequences

CONSTANTS
    Slots,            \* of g_connections
    Workers           \* threads that may serve a WebSocket request at a time

VARIABLES
    pc,               \* where main is
    mode,             \* g_config.transport_mode
    handled,          \* SigHandler calls that have been made
    g_ShutdownSignal,
    handlers,         \* registered with atexit, in the order of registration
    query_client,     \* "null", "created" or "connected"
    tcp,              \* what init_connections has set up
    connections,      \* slots in use
    thread,           \* WsThread
    WsRsaKey,
    workers,          \* threads that have not returned
    exit_code

frontVars == <<tcp, connections>>
wsVars == <<thread, WsRsaKey, workers>>
mainVars == <<pc, mode, handled, g_ShutdownSignal, handlers, query_client, frontVars, wsVars, exit_code>>

Modes == {"tcp", "websocket", "both"}
Tcp == mode \in {"tcp", "both"}
WebSocket == mode \in {"websocket", "both"}

Parts == {"key", "listener", "tables"}

MainInit ==
    /\ pc = "signals" /\ mode = "tcp" /\ handled = 0
    /\ g_ShutdownSignal = FALSE /\ handlers = <<>> /\ query_client = "null"
    /\ tcp = {} /\ connections = {}
    /\ thread = "none" /\ WsRsaKey = FALSE /\ workers = {}
    /\ exit_code = "none"

-----------------------------------------------------------------------------
(* Start                                                                   *)

Goes(from, to) ==
    /\ pc = from /\ pc' = to
    /\ exit_code' = IF to = "exit" THEN "failure" ELSE exit_code

\* SIGPIPE, SIGINT, SIGTERM in turn
InstallHandler ==
    /\ \/ Goes("signals", IF handled = 2 THEN "config" ELSE "signals") /\ handled' = handled + 1
       \/ Goes("signals", "exit") /\ UNCHANGED handled
    /\ UNCHANGED <<mode, g_ShutdownSignal, handlers, query_client, frontVars, wsVars>>

\* Mutated form: the signal is reset only now.
ReadConfigAndReset ==
    /\ \E m \in Modes : Goes("config", "atexit") /\ mode' = m
    /\ g_ShutdownSignal' = FALSE
    /\ UNCHANGED <<handled, handlers, query_client, frontVars, wsVars>>

\* Anything but "tcp" and "websocket" means both; without a password it fails.
ReadConfig ==
    /\ \/ \E m \in Modes : Goes("config", "atexit") /\ mode' = m
       \/ Goes("config", "exit") /\ UNCHANGED mode
    /\ UNCHANGED <<handled, g_ShutdownSignal, handlers, query_client, frontVars, wsVars>>

QueryOnly == <<"exit_query">>
QueryThenConnections == <<"exit_query", "exit_connections">>

\* Mutated form: exit_connections is forgotten.
RegisterExitQuery ==
    /\ Goes("atexit", "query") /\ handlers' = QueryOnly
    /\ UNCHANGED <<mode, handled, g_ShutdownSignal, query_client, frontVars, wsVars>>

RegisterExits ==
    /\ Goes("atexit", "query")
    /\ handlers' = IF Tcp THEN QueryThenConnections ELSE QueryOnly
    /\ UNCHANGED <<mode, handled, g_ShutdownSignal, query_client, frontVars, wsVars>>

\* init_query: the object, then its connection
CreateClient ==
    /\ Goes("query", "connect") /\ query_client' = "created"
    /\ UNCHANGED <<mode, handled, g_ShutdownSignal, handlers, frontVars, wsVars>>

Connect ==
    /\ \/ Goes("connect", IF Tcp THEN "connections" ELSE "websocket") /\ query_client' = "connected"
       \/ Goes("connect", "exit") /\ UNCHANGED query_client
    /\ UNCHANGED <<mode, handled, g_ShutdownSignal, handlers, frontVars, wsVars>>

\* The key may not load and the port may not be free.
InitConnections ==
    /\ \/ Goes("connections", IF WebSocket THEN "websocket" ELSE "loop") /\ tcp' = Parts
       \/ Goes("connections", "exit") /\ tcp' \in {{}, {"key"}}
    /\ UNCHANGED <<mode, handled, g_ShutdownSignal, handlers, query_client, connections, wsVars>>

StartAcceptor ==
    /\ \/ /\ Goes("websocket", "bind") /\ thread' = "starting" /\ WsRsaKey' = TRUE
       \/ /\ Goes("websocket", "exit") /\ UNCHANGED <<thread, WsRsaKey>>
    /\ UNCHANGED <<mode, handled, g_ShutdownSignal, handlers, query_client, frontVars, workers>>

\* Mutated form: start fails without a stop.
AwaitBindOnly ==
    /\ \/ thread = "running" /\ Goes("bind", "loop")
       \/ thread \in {"unbound", "ended"} /\ Goes("bind", "exit")
    /\ UNCHANGED <<mode, handled, g_ShutdownSignal, handlers, query_client, frontVars, wsVars>>

\* bind_future.get; a failed start is stopped before it returns.
AwaitBind ==
    /\ \/ thread = "running" /\ Goes("bind", "loop")
       \/ thread \in {"unbound", "ended"} /\ Goes("bind", "stop after failure")
    /\ UNCHANGED <<mode, handled, g_ShutdownSignal, handlers, query_client, frontVars, wsVars>>

-----------------------------------------------------------------------------
(* Run and stop                                                            *)

\* In mode websocket the loop sleeps: nothing but the signal matters to it.
ProcessConnections ==
    /\ pc = "loop" /\ ~g_ShutdownSignal /\ Tcp
    /\ connections' \in SUBSET Slots
    /\ UNCHANGED <<pc, mode, handled, g_ShutdownSignal, handlers, query_client, tcp, wsVars, exit_code>>

LeaveLoop ==
    /\ pc = "loop" /\ g_ShutdownSignal
    /\ IF WebSocket THEN pc' = "stop" /\ UNCHANGED exit_code
       ELSE pc' = "exit" /\ exit_code' = "success"
    /\ UNCHANGED <<mode, handled, g_ShutdownSignal, handlers, query_client, frontVars, wsVars>>

Stopping == {"stop", "stop after failure"}

\* stop_websocket_acceptor: deferring the shutdown, then the join
DeferShutdown ==
    /\ pc \in Stopping /\ thread = "running" /\ thread' = "closing"
    /\ UNCHANGED <<pc, mode, handled, g_ShutdownSignal, handlers, query_client, frontVars, WsRsaKey,
                   workers, exit_code>>

JoinThread ==
    /\ pc \in Stopping /\ thread = "ended" /\ thread' = "joined"
    /\ UNCHANGED <<pc, mode, handled, g_ShutdownSignal, handlers, query_client, frontVars, WsRsaKey,
                   workers, exit_code>>

DrainWorkers ==
    /\ pc \in Stopping /\ thread = "joined" /\ workers = {}
    /\ WsRsaKey' = FALSE /\ pc' = "exit"
    /\ exit_code' = IF pc = "stop" THEN "success" ELSE "failure"
    /\ UNCHANGED <<mode, handled, g_ShutdownSignal, handlers, query_client, frontVars, thread, workers>>

-----------------------------------------------------------------------------
(* Exit: the handlers in reverse order, then the destructors of globals    *)

RunExitHandler ==
    /\ pc = "exit" /\ handlers # <<>>
    /\ handlers' = SubSeq(handlers, 1, Len(handlers) - 1)
    /\ IF handlers[Len(handlers)] = "exit_query"
       THEN query_client' = "null" /\ UNCHANGED frontVars
       ELSE tcp' = {} /\ connections' = {} /\ UNCHANGED query_client
    /\ UNCHANGED <<pc, mode, handled, g_ShutdownSignal, wsVars, exit_code>>

\* A std::thread that is destroyed without being joined ends the process.
Destroy ==
    /\ pc = "exit" /\ handlers = <<>>
    /\ pc' = IF thread \in {"none", "joined"} THEN "gone" ELSE "terminated"
    /\ UNCHANGED <<mode, handled, g_ShutdownSignal, handlers, query_client, frontVars, wsVars, exit_code>>

-----------------------------------------------------------------------------
(* What happens beside main                                                *)

\* ShutdownHandler, of SIGINT or SIGTERM; before it is installed the signal kills.
Signal ==
    /\ pc \notin {"gone", "terminated", "killed"} /\ ~g_ShutdownSignal
    /\ \/ handled >= 2 /\ g_ShutdownSignal' = TRUE /\ UNCHANGED pc
       \/ handled < 3 /\ pc' = "killed" /\ UNCHANGED g_ShutdownSignal
    /\ UNCHANGED <<mode, handled, handlers, query_client, frontVars, wsVars, exit_code>>

\* websocket_thread_main: a loop that does not listen has nothing to wait for.
ThreadStep ==
    /\ \/ thread = "starting" /\ thread' \in {"running", "unbound"}
       \/ thread \in {"closing", "unbound"} /\ thread' = "ended"
    /\ UNCHANGED <<pc, mode, handled, g_ShutdownSignal, handlers, query_client, frontVars, WsRsaKey,
                   workers, exit_code>>

BeginWorker(w) ==
    /\ thread \in {"running", "closing"} /\ w \notin workers
    /\ workers' = workers \cup {w}
    /\ UNCHANGED <<pc, mode, handled, g_ShutdownSignal, handlers, query_client, frontVars, thread,
                   WsRsaKey, exit_code>>

EndWorker(w) ==
    /\ w \in workers /\ workers' = workers \ {w}
    /\ UNCHANGED <<pc, mode, handled, g_ShutdownSignal, handlers, query_client, frontVars, thread,
                   WsRsaKey, exit_code>>

MainStep ==
    \/ InstallHandler \/ ReadConfig \/ RegisterExits \/ CreateClient \/ Connect
    \/ InitConnections \/ StartAcceptor \/ AwaitBind
    \/ LeaveLoop \/ DeferShutdown \/ JoinThread \/ DrainWorkers \/ RunExitHandler \/ Destroy

Alive == pc \notin {"gone", "terminated", "killed"}

MainNext ==
    \/ MainStep \/ ProcessConnections \/ Signal
    \/ Alive /\ (ThreadStep \/ \E w \in Workers : BeginWorker(w) \/ EndWorker(w))

MainSpec == MainInit /\ [][MainNext]_mainVars

\* The system schedules every thread; a pass of the loop, and a query of a worker,
\* take a limited time.
FairMainSpec ==
    /\ MainSpec
    /\ WF_mainVars(MainStep) /\ WF_mainVars(Alive /\ ThreadStep)
    /\ \A w \in Workers : WF_mainVars(Alive /\ EndWorker(w))

-----------------------------------------------------------------------------
Stages ==
    {"signals", "config", "atexit", "query", "connect", "connections", "websocket", "bind",
     "loop", "exit", "gone", "terminated", "killed"} \cup Stopping
ThreadStages == {"none", "starting", "running", "unbound", "closing", "ended", "joined"}

MainTypeOK ==
    /\ pc \in Stages
    /\ mode \in Modes /\ handled \in 0 .. 3 /\ g_ShutdownSignal \in BOOLEAN
    /\ handlers \in {<<>>, QueryOnly, QueryThenConnections}
    /\ query_client \in {"null", "created", "connected"}
    /\ tcp \in SUBSET Parts /\ connections \in SUBSET Slots
    /\ thread \in ThreadStages
    /\ WsRsaKey \in BOOLEAN /\ workers \in SUBSET Workers
    /\ exit_code \in {"none", "success", "failure"}

\* While the server runs, exactly what its mode needs is there: the client of the
\* query manager, and of the two front ends those that were asked for.
ServesItsMode ==
    pc = "loop" =>
      /\ query_client = "connected"
      /\ tcp = (IF Tcp THEN Parts ELSE {})
      /\ WebSocket <=> thread = "running"
      /\ WebSocket <=> WsRsaKey

\* Once the clean-up of globals has begun no other thread is left to use them, on
\* whichever way main got there.
ThreadsGoneFirst ==
    pc \in {"exit", "gone", "terminated"} => thread \in {"none", "joined"} /\ workers = {}

\* Key and client tables are there as long as someone serves clients.
ServedWithResources ==
    /\ workers # {} => WsRsaKey
    /\ connections # {} => tcp = Parts /\ query_client # "null"

\* A process that ends by itself has given back everything, has run its exit
\* handlers, and reports success only if a signal came: a start that fails does not.
NothingLeft ==
    pc = "gone" =>
      /\ query_client = "null" /\ tcp = {} /\ connections = {} /\ ~WsRsaKey /\ handlers = <<>>
      /\ exit_code = "success" => g_ShutdownSignal
      /\ exit_code # "none"

\* A signal ends the process, also one that arrives before main reaches its loop,
\* when nothing yet looks at it.
SignalEnds == g_ShutdownSignal ~> pc = "gone"

=============================================================================
