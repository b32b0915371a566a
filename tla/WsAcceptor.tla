----------------------------- MODULE WsAcceptor -----------------------------
(***************************************************************************)
(* The WebSocket acceptor (src/network/websocket_acceptor.cpp): the main   *)
(* thread in start/stop_websocket_acceptor, the uWebSockets event-loop     *)
(* thread with its open/message/close callbacks and its queue of deferred  *)
(* lambdas, and the detached worker threads that serve one login each.     *)
(*                                                                         *)
(* A step of a thread is the code between two accesses to shared state.    *)
(* A callback of the event loop is one step.  The variables keep the names *)
(* of the globals they stand for.                                          *)
(***************************************************************************)
EXTENDS Integers, Sequences, FiniteSets

CONSTANTS
    Sockets,      \* addresses a WsSocket may have; an address is reused
    Workers,      \* bounds the worker threads alive at one time
    Lively,       \* the addresses whose clients answer pings
    MaxOpens,     \* bounds the WebSockets opened in a behaviour
    MaxMessages   \* bounds the login messages of one WebSocket

ASSUME WsAssumption ==
    /\ IsFiniteSet(Workers)
    /\ Lively \subseteq Sockets
    /\ MaxOpens \in Nat
    /\ MaxMessages \in Nat

VARIABLES
    main,            \* where the main thread is in start/stop
    wsThread,        \* where the event-loop thread is in websocket_thread_main
    bindResult,      \* the promise of the listen callback
    EventLoop,       \* the atomic pointer is not null
    ListenSocket,    \* the pointer is not null: the loop polls it
    ShuttingDown,
    ActiveWorkers,
    WsRsaKey,        \* the key is loaded
    RsaDecryptMutex, \* the mutex is held
    loop,            \* the uWS::Loop object itself
    deferQueue,      \* lambdas deferred to the loop, not yet taken
    batch,           \* lambdas the wakeup callback took and has still to run
    NextRequestId,
    PendingRequests, \* the map, as a set of <<RequestId, socket>>
    sock,            \* the object at each socket address
    worker,          \* the worker threads and their locals
    opened,          \* history: how many WebSockets were opened
    touched          \* history: who called defer on a freed loop

mainVars == <<main, ShuttingDown, WsRsaKey>>
loopVars == <<wsThread, bindResult, EventLoop, ListenSocket, loop, batch>>
connVars == <<NextRequestId, PendingRequests, sock, opened>>
workVars == <<worker, ActiveWorkers, RsaDecryptMutex>>
vars == <<mainVars, loopVars, connVars, workVars, deferQueue, touched>>

\* A worker thread: its program point, what it will defer, and the request id
\* it was started with ("session" as below).
Worker(pc, kind, id, session) ==
    [pc |-> pc, kind |-> kind, id |-> id, session |-> session]

WorkerThread ==
    [pc : {"idle", "start", "lock", "login", "check", "defer", "exit"},
     kind : {"none", "send", "close"}, id : Nat, session : Nat]

Idle == Worker("idle", "none", 0, 0)

\* A socket object: its state, WsPerSocketData.RequestId, and whether a ping is
\* unanswered.  The rest is history: "session" is the ordinal of the WebSocket,
\* "owed" counts its login messages not yet answered, "served" the answers.
WsSocket(st, id, pinged, session, owed, served) ==
    [st |-> st, id |-> id, pinged |-> pinged, session |-> session,
     owed |-> owed, served |-> served]

SocketObject ==
    [st : {"free", "open", "ending"}, id : Nat, pinged : BOOLEAN,
     session : Nat, owed : Nat, served : Nat]

NoSocket == WsSocket("free", 0, FALSE, 0, 0, 0)

Closure == [kind : {"send", "close", "shutdown"}, id : Nat, session : Nat]

TypeOK ==
    /\ main \in {"init", "bind", "serving", "stop", "load", "defer", "join",
                 "drain", "reset", "stopped", "failed"}
    /\ wsThread \in {"none", "setup", "listen", "run", "clear", "free", "exited"}
    /\ bindResult \in {"none", "bound", "failed"}
    /\ EventLoop \in BOOLEAN
    /\ ListenSocket \in BOOLEAN
    /\ ShuttingDown \in BOOLEAN
    /\ ActiveWorkers \in Nat
    /\ WsRsaKey \in BOOLEAN
    /\ RsaDecryptMutex \in BOOLEAN
    /\ loop \in {"none", "live", "freed"}
    /\ deferQueue \in Seq(Closure)
    /\ batch \in Seq(Closure)
    /\ NextRequestId \in Nat
    /\ PendingRequests \in SUBSET (Nat \X Sockets)
    /\ sock \in [Sockets -> SocketObject]
    /\ worker \in [Workers -> WorkerThread]
    /\ opened \in Nat
    /\ touched \in SUBSET {"worker", "main"}

Init ==
    /\ main = "init" /\ ShuttingDown = FALSE
    /\ WsRsaKey = FALSE
    /\ wsThread = "none" /\ bindResult = "none" /\ EventLoop = FALSE
    /\ ListenSocket = FALSE /\ loop = "none" /\ batch = <<>>
    /\ deferQueue = <<>>
    /\ NextRequestId = 0 /\ PendingRequests = {} /\ opened = 0
    /\ sock = [s \in Sockets |-> NoSocket]
    /\ worker = [w \in Workers |-> Idle]
    /\ ActiveWorkers = 0 /\ RsaDecryptMutex = FALSE
    /\ touched = {}

-----------------------------------------------------------------------------
(* Loop::defer: lock, push, wake up.  On a freed loop this is undefined:   *)
(* the lambda is lost, or the process dies, which is a behaviour that ends *)
(* here; Fairness asks for nothing from then on.                           *)
DeferOn(who, c) ==
    \/ /\ loop = "live"
       /\ deferQueue' = Append(deferQueue, c)
       /\ UNCHANGED touched
    \/ /\ loop # "live"
       /\ touched' = touched \cup {who}
       /\ UNCHANGED deferQueue

(* The main thread.                                                        *)

\* start_websocket_acceptor up to bind_future.get()
Start(keyLoads) ==
    /\ main = "init"
    /\ IF keyLoads
       THEN /\ WsRsaKey' = TRUE /\ ShuttingDown' = FALSE
            /\ wsThread' = "setup" /\ main' = "bind"
       ELSE /\ main' = "failed"
            /\ UNCHANGED <<WsRsaKey, ShuttingDown, wsThread>>
    /\ UNCHANGED <<bindResult, EventLoop, ListenSocket, loop, batch>>
    /\ UNCHANGED <<connVars, workVars, touched, deferQueue>>

\* The main thread moves on and changes nothing the other threads see.
MainGoes(from, to) ==
    /\ main = from
    /\ main' = to
    /\ UNCHANGED <<loopVars, connVars, workVars>>

\* bind_future.get(): serve, or stop at once after a failed bind
AwaitBind ==
    /\ bindResult # "none"
    /\ MainGoes("bind", IF bindResult = "bound" THEN "serving" ELSE "stop")
    /\ UNCHANGED <<ShuttingDown, WsRsaKey, touched, deferQueue>>

\* main() leaves its loop after a signal and calls stop_websocket_acceptor
Signal ==
    /\ MainGoes("serving", "stop")
    /\ UNCHANGED <<ShuttingDown, WsRsaKey, touched, deferQueue>>

SetShuttingDown ==
    /\ MainGoes("stop", "load")
    /\ ShuttingDown' = TRUE
    /\ UNCHANGED <<WsRsaKey, touched, deferQueue>>

\* the local "loop" of stop is not null exactly when main is at "defer"
LoadLoop ==
    /\ MainGoes("load", IF EventLoop THEN "defer" ELSE "join")
    /\ UNCHANGED <<ShuttingDown, WsRsaKey, touched, deferQueue>>

DeferShutdown ==
    /\ MainGoes("defer", "join")
    /\ DeferOn("main", [kind |-> "shutdown", id |-> 0, session |-> 0])
    /\ UNCHANGED <<ShuttingDown, WsRsaKey>>

\* Mutated form: the thread is not joined before the workers are counted.
JoinWithoutWaiting ==
    /\ MainGoes("join", "drain")
    /\ UNCHANGED <<ShuttingDown, WsRsaKey, touched, deferQueue>>

JoinThread ==
    /\ wsThread = "exited"
    /\ MainGoes("join", "drain")
    /\ UNCHANGED <<ShuttingDown, WsRsaKey, touched, deferQueue>>

\* Mutated form: the key is destroyed without waiting for the workers.
DrainWithoutWaiting ==
    /\ MainGoes("drain", "reset")
    /\ UNCHANGED <<ShuttingDown, WsRsaKey, touched, deferQueue>>

\* the usleep loop ends when it reads zero
DrainWorkers ==
    /\ ActiveWorkers = 0
    /\ MainGoes("drain", "reset")
    /\ UNCHANGED <<ShuttingDown, WsRsaKey, touched, deferQueue>>

ResetKey ==
    /\ MainGoes("reset", "stopped")
    /\ WsRsaKey' = FALSE
    /\ UNCHANGED <<ShuttingDown, touched, deferQueue>>

-----------------------------------------------------------------------------
(* The event-loop thread.                                                  *)

\* websocket_thread_main creates the loop and publishes it
SetUpLoop ==
    /\ wsThread = "setup"
    /\ wsThread' = "listen" /\ loop' = "live" /\ EventLoop' = TRUE
    /\ UNCHANGED <<bindResult, ListenSocket, batch, mainVars, connVars,
                   workVars, touched, deferQueue>>

\* app.listen and its callback
Listen(bound) ==
    /\ wsThread = "listen"
    /\ wsThread' = "run"
    /\ ListenSocket' = bound
    /\ bindResult' = IF bound THEN "bound" ELSE "failed"
    /\ UNCHANGED <<EventLoop, loop, batch, mainVars, connVars, workVars,
                   touched, deferQueue>>

\* us_loop_run goes on while the loop polls something that counts; timers and
\* the wakeup descriptor do not.
Polling == ListenSocket \/ \E s \in Sockets : sock[s].st # "free"

\* A callback of the loop thread, between the lambdas of two wakeups.
CallBack ==
    /\ wsThread = "run" /\ batch = <<>>
    /\ UNCHANGED <<mainVars, loopVars, touched, deferQueue>>

\* A callback about one socket that opens none and starts no worker.
SocketEvent == CallBack /\ UNCHANGED <<NextRequestId, opened, workVars>>

Erase(ids) == {p \in PendingRequests : p[1] \notin ids}

\* us_socket_close: on_close runs the .close handler, which erases the
\* request id, unless the socket is already ending; then the object is freed.
CloseAll(S) ==
    /\ sock' = [s \in Sockets |-> IF s \in S THEN NoSocket ELSE sock[s]]
    /\ PendingRequests' =
         Erase({sock[s].id : s \in {t \in S : sock[t].st = "open"}})

\* Mutated form: the request id is the size of the map, not a running number.
OpenNumberedBySize(s) ==
    /\ CallBack
    /\ ListenSocket
    /\ sock[s].st = "free"
    /\ opened < MaxOpens
    /\ opened' = opened + 1
    /\ NextRequestId' = Cardinality(PendingRequests) + 1
    /\ sock' = [sock EXCEPT ![s] =
                  WsSocket("open", NextRequestId', FALSE, opened', 0, 0)]
    /\ PendingRequests' = Erase({NextRequestId'}) \cup {<<NextRequestId', s>>}
    /\ UNCHANGED workVars

\* the .open handler, on an address the allocator has free
Open(s) ==
    /\ CallBack
    /\ ListenSocket
    /\ sock[s].st = "free"
    /\ opened < MaxOpens
    /\ opened' = opened + 1
    /\ NextRequestId' = NextRequestId + 1
    /\ sock' = [sock EXCEPT ![s] =
                  WsSocket("open", NextRequestId', FALSE, opened', 0, 0)]
    /\ PendingRequests' = Erase({NextRequestId'}) \cup {<<NextRequestId', s>>}
    /\ UNCHANGED workVars

\* the .message handler on a login request: spawns a detached worker w
LoginMessage(s, w) ==
    /\ CallBack
    /\ sock[s].st = "open" /\ sock[s].owed + sock[s].served < MaxMessages
    /\ worker[w].pc = "idle"
    /\ sock' = [sock EXCEPT ![s] =
                  WsSocket("open", sock[s].id, FALSE, sock[s].session,
                           sock[s].owed + 1, sock[s].served)]
    /\ ActiveWorkers' = ActiveWorkers + 1
    /\ worker' = [worker EXCEPT ![w] =
                    Worker("start", "none", sock[s].id, sock[s].session)]
    /\ UNCHANGED <<NextRequestId, PendingRequests, opened, RsaDecryptMutex>>

\* the .message handler on a frame of a wrong size or another command
RejectMessage(s) ==
    /\ SocketEvent
    /\ sock[s].st = "open"
    /\ CloseAll({s})

\* on_data with nothing for the server to do: a pong, or a text frame, which
\* the .message handler ignores.  Either resets the idle timeout.
OtherData(s) ==
    /\ SocketEvent
    /\ sock[s].st = "open" /\ s \in Lively
    /\ sock' = [sock EXCEPT ![s] =
                  WsSocket("open", sock[s].id, FALSE, sock[s].session,
                           sock[s].owed, sock[s].served)]
    /\ UNCHANGED PendingRequests

\* on_timeout: the first one sends a ping ...
IdlePing(s) ==
    /\ SocketEvent
    /\ sock[s].st = "open" /\ ~sock[s].pinged
    /\ sock' = [sock EXCEPT ![s] =
                  WsSocket("open", sock[s].id, TRUE, sock[s].session,
                           sock[s].owed, sock[s].served)]
    /\ UNCHANGED PendingRequests

\* Mutated form: only sockets that are already ending are closed.
IdleCloseEndingOnly(s) ==
    /\ SocketEvent
    /\ sock[s].st = "ending"
    /\ CloseAll({s})

\* ... and the second one closes, as does any on a socket that is ending.
IdleClose(s) ==
    /\ SocketEvent
    /\ sock[s].st = "ending" \/ (sock[s].st = "open" /\ sock[s].pinged)
    /\ CloseAll({s})

\* Mutated form: the .close handler does not erase the request.
PeerEndsNotErased(s) ==
    /\ SocketEvent
    /\ sock[s].st = "open"
    /\ sock' = [sock EXCEPT ![s] =
                  WsSocket("ending", sock[s].id, FALSE, sock[s].session, 0, 0)]
    /\ UNCHANGED PendingRequests

\* A close frame from the client: WebSocket::end runs the .close handler and
\* leaves the socket shutting down.
PeerEnds(s) ==
    /\ SocketEvent
    /\ sock[s].st = "open"
    /\ sock' = [sock EXCEPT ![s] =
                  WsSocket("ending", sock[s].id, FALSE, sock[s].session, 0, 0)]
    /\ PendingRequests' = Erase({sock[s].id})

\* The client's side of the connection is gone (on_end, on_close).
PeerGone(s) ==
    /\ SocketEvent
    /\ sock[s].st # "free"
    /\ CloseAll({s})

\* wakeupCb swaps the queues; an exiting us_loop_run does not get here
Wakeup ==
    /\ wsThread = "run" /\ batch = <<>> /\ Polling
    /\ deferQueue # <<>>
    /\ batch' = deferQueue /\ deferQueue' = <<>>
    /\ UNCHANGED <<mainVars, wsThread, bindResult, EventLoop, ListenSocket,
                   loop, connVars, workVars, touched>>

\* The lambdas a worker defers look the socket up by the request id.
Found(c) == {s \in Sockets : <<c.id, s>> \in PendingRequests}

RunSend(c) ==
    /\ sock' = [s \in Sockets |->
                  IF s \in Found(c) /\ sock[s].owed > 0
                  THEN WsSocket(sock[s].st, sock[s].id, sock[s].pinged,
                                sock[s].session, sock[s].owed - 1,
                                sock[s].served + 1)
                  ELSE sock[s]]
    /\ UNCHANGED <<PendingRequests, ListenSocket>>

RunClose(c) ==
    /\ CloseAll(Found(c))
    /\ UNCHANGED ListenSocket

\* Mutated form: only the listen socket is closed.
RunShutdownListenOnly ==
    /\ ListenSocket' = FALSE
    /\ UNCHANGED <<sock, PendingRequests>>

\* stop's lambda closes the listen socket and, through App::close, all others
RunShutdown ==
    /\ ListenSocket' = FALSE
    /\ CloseAll({s \in Sockets : sock[s].st # "free"})

RunDeferred ==
    /\ wsThread = "run" /\ batch # <<>>
    /\ batch' = Tail(batch)
    /\ LET c == Head(batch) IN
         \/ c.kind = "send" /\ RunSend(c)
         \/ c.kind = "close" /\ RunClose(c)
         \/ c.kind = "shutdown" /\ RunShutdown
    /\ UNCHANGED <<mainVars, wsThread, bindResult, EventLoop, loop,
                   NextRequestId, opened, workVars, touched, deferQueue>>

\* app.run returns: nothing left to poll
LeaveRun ==
    /\ wsThread = "run" /\ batch = <<>> /\ ~Polling
    /\ wsThread' = "clear"
    /\ UNCHANGED <<mainVars, bindResult, EventLoop, ListenSocket, loop, batch,
                   connVars, workVars, touched, deferQueue>>

ClearPointers ==
    /\ wsThread = "clear"
    /\ wsThread' = "free" /\ EventLoop' = FALSE
    /\ UNCHANGED <<mainVars, bindResult, ListenSocket, loop, batch,
                   connVars, workVars, touched, deferQueue>>

\* thread exit: the thread-local LoopCleaner frees the loop and, with it, the
\* lambdas nobody ran
FreeLoop ==
    /\ wsThread = "free"
    /\ wsThread' = "exited" /\ loop' = "freed" /\ deferQueue' = <<>>
    /\ UNCHANGED <<mainVars, bindResult, EventLoop, ListenSocket, batch,
                   connVars, workVars, touched>>

-----------------------------------------------------------------------------
(* A worker thread: process_ws_login.                                      *)

WorkerGoes(w, from, to, kind) ==
    /\ worker[w].pc = from
    /\ worker' = [worker EXCEPT ![w] =
                    Worker(to, kind, worker[w].id, worker[w].session)]
    /\ UNCHANGED <<mainVars, loopVars, connVars>>

\* Mutated form: a worker that cannot connect just returns.
ConnectOrReturn(w, ok) ==
    /\ IF ok THEN WorkerGoes(w, "start", "lock", "none")
             ELSE WorkerGoes(w, "start", "exit", "close")
    /\ UNCHANGED <<ActiveWorkers, RsaDecryptMutex, touched, deferQueue>>

\* QueryClient::connect; a failure goes straight to closing the socket
Connect(w, ok) ==
    /\ IF ok THEN WorkerGoes(w, "start", "lock", "none")
             ELSE WorkerGoes(w, "start", "check", "close")
    /\ UNCHANGED <<ActiveWorkers, RsaDecryptMutex, touched, deferQueue>>

\* Mutated form: the mutex is not taken into account.
LockRsaBlindly(w) ==
    /\ RsaDecryptMutex' = TRUE
    /\ WorkerGoes(w, "lock", "login", "none")
    /\ UNCHANGED <<ActiveWorkers, touched, deferQueue>>

\* the lock_guard on RsaDecryptMutex
LockRsa(w) ==
    /\ ~RsaDecryptMutex
    /\ RsaDecryptMutex' = TRUE
    /\ WorkerGoes(w, "lock", "login", "none")
    /\ UNCHANGED <<ActiveWorkers, touched, deferQueue>>

\* process_login_request leaves a response (Writing) or not; unlock
Login(w, kind) ==
    /\ RsaDecryptMutex' = FALSE
    /\ WorkerGoes(w, "login", "check", kind)
    /\ UNCHANGED <<ActiveWorkers, touched, deferQueue>>

\* safe_defer reads the flag ...
CheckShutdown(w) ==
    /\ WorkerGoes(w, "check", IF ShuttingDown THEN "exit" ELSE "defer",
                  worker[w].kind)
    /\ UNCHANGED <<ActiveWorkers, RsaDecryptMutex, touched, deferQueue>>

\* ... and then calls defer.
SafeDefer(w) ==
    /\ WorkerGoes(w, "defer", "exit", worker[w].kind)
    /\ DeferOn("worker", [kind |-> worker[w].kind, id |-> worker[w].id,
                          session |-> worker[w].session])
    /\ UNCHANGED <<ActiveWorkers, RsaDecryptMutex>>

\* the WorkerGuard
ExitWorker(w) ==
    /\ worker[w].pc = "exit"
    /\ worker' = [worker EXCEPT ![w] = Idle]
    /\ ActiveWorkers' = ActiveWorkers - 1
    /\ UNCHANGED <<mainVars, loopVars, connVars, RsaDecryptMutex, touched, deferQueue>>

-----------------------------------------------------------------------------
MainStep ==
    \/ \E ok \in BOOLEAN : Start(ok)
    \/ AwaitBind \/ SetShuttingDown \/ LoadLoop \/ DeferShutdown
    \/ JoinThread \/ DrainWorkers \/ ResetKey

LoopStep ==
    \/ SetUpLoop
    \/ \E bound \in BOOLEAN : Listen(bound)
    \/ Wakeup \/ RunDeferred \/ LeaveRun \/ ClearPointers \/ FreeLoop

ClientEvent(s) ==
    \/ \E w \in Workers : LoginMessage(s, w)
    \/ Open(s) \/ RejectMessage(s) \/ OtherData(s) \/ PeerEnds(s) \/ PeerGone(s)

IdleTimeout(s) == IdlePing(s) \/ IdleClose(s)

WorkerStep(w) ==
    \/ \E ok \in BOOLEAN : Connect(w, ok)
    \/ \E kind \in {"send", "close"} : Login(w, kind)
    \/ LockRsa(w) \/ CheckShutdown(w) \/ SafeDefer(w) \/ ExitWorker(w)

Terminated == main \in {"stopped", "failed"} /\ UNCHANGED vars

Next ==
    \/ MainStep \/ Signal
    \/ LoopStep
    \/ \E s \in Sockets : ClientEvent(s) \/ IdleTimeout(s)
    \/ \E w \in Workers : WorkerStep(w)
    \/ Terminated

Spec == Init /\ [][Next]_vars

\* The threads are scheduled, the timers fire and the query manager answers or
\* fails; nothing is assumed of clients or of the operator's signal.
Fairness ==
    /\ WF_vars(touched = {} /\ MainStep)
    /\ WF_vars(touched = {} /\ LoopStep)
    /\ \A s \in Sockets : WF_vars(touched = {} /\ IdleTimeout(s))
    /\ \A w \in Workers : WF_vars(touched = {} /\ WorkerStep(w))

FairSpec == Spec /\ Fairness

-----------------------------------------------------------------------------
Live == {w \in Workers : worker[w].pc # "idle"}

\* stop_websocket_acceptor destroys WsRsaKey only when no worker is left that
\* may still pass it to process_login_request: while a worker lives, the key
\* it will dereference is loaded.
KeyOutlivesWorkers == Live # {} => WsRsaKey

\* RsaDecryptMutex: the RSA handle, whose blinding state is not thread-safe,
\* is never used by two workers at once, and the mutex is not left locked.
RsaSerialised ==
    /\ \A v, w \in Workers :
         worker[v].pc = "login" /\ worker[w].pc = "login" => v = w
    /\ RsaDecryptMutex <=> \E w \in Workers : worker[w].pc = "login"

\* PendingRequests maps the request id of every open WebSocket to it and holds
\* nothing else: the lambdas never use a pointer to a freed socket.
PendingIsOpenSockets ==
    PendingRequests =
      {<<sock[s].id, s>> : s \in {t \in Sockets : sock[t].st = "open"}}

Outstanding ==
    {worker[w] : w \in Live}
      \cup {deferQueue[i] : i \in DOMAIN deferQueue}
      \cup {batch[i] : i \in DOMAIN batch}

\* A response (or a close) computed for one WebSocket is never applied to
\* another, even when the socket object has been freed and its address reused
\* while the worker ran: the request id finds the asking session or nothing.
ReplyToOwnSession ==
    \A r \in Outstanding, s \in Sockets :
      <<r.id, s>> \in PendingRequests /\ r.id # 0 => sock[s].session = r.session

\* When stop_websocket_acceptor returns nothing of the acceptor is left:
\* no socket, no pending request, no worker, no loop and no queued lambda.
NothingLeftBehind ==
    main = "stopped" =>
      /\ loop = "freed" /\ ~EventLoop /\ ~ListenSocket
      /\ PendingRequests = {} /\ \A s \in Sockets : sock[s].st = "free"
      /\ Live = {} /\ ActiveWorkers = 0
      /\ deferQueue = <<>> /\ batch = <<>>

\* Joining the loop thread before polling ActiveWorkers makes the poll final:
\* once stop polls the count, no worker is added any more.
NoWorkerDuringDrain ==
    [][(main \in {"drain", "reset"}) => ActiveWorkers' <= ActiveWorkers]_vars

\* stop_websocket_acceptor returns, whatever the clients do meanwhile.
StopReturns == main = "stop" ~> (main = "stopped" \/ touched # {})

\* Every login message is settled: the worker's lambda answers it, or the
\* WebSocket it came from is closed.
RequestsSettle ==
    \A s \in Sockets : sock[s].owed > 0 ~> (sock[s].owed = 0 \/ touched # {})

\* A WebSocket whose client falls silent is closed by the idle timeout.
SilentClientsLeave ==
    \A s \in Sockets \ Lively :
      sock[s].st # "free" ~> (sock[s].st = "free" \/ touched # {})

\* The comment on ShuttingDown: workers check it before loop->defer() "to
\* avoid use-after-free".
NoWorkerUseAfterFree == "worker" \notin touched

\* The comment in process_ws_login: after a response "the idle timeout (16s)
\* will clean up".
IdleTimeoutCleansUp ==
    \A s \in Sockets :
      (sock[s].st = "open" /\ sock[s].served > 0)
        ~> (sock[s].st = "free" \/ touched # {})

=============================================================================
