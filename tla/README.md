# A verification project for the Tibia login server

TLA+ models of the login server in `src/`, the TLC runs that check them on small
instances and TLAPS proofs that hold for every instance. Paths below are relative
to the repository root (`src/network/server.cpp` is the file of that name in it).

## 1. The system

The server answers two kinds of request: a *login* (command 1: RSA-encrypted
credentials in, XTEA-encrypted character list out) and a *status* request
(command 255: an XML description of the game world). It learns about accounts and
worlds from another process, the query manager, over a TCP connection.

| part | code | state | operations | what it talks to |
|---|---|---|---|---|
| main and lifecycle | `src/main.cpp` | `g_ShutdownSignal`, `query_client`, `g_config` | start in order, loop until a signal, stop, `atexit` clean-up | everything |
| TCP server | `src/network/server.cpp` | `g_listener`, `g_connections[]` (state, socket, start time, buffer position) | `init/exit_connections`, `process_connections` and the `check_connection_*` handlers | login and status handlers, kernel |
| status limiter | `allow_status_request`, `process_status_request` in `server.cpp` | `g_status_records[]` | allow or refuse, least-recently-used replacement | TCP server, clock |
| WebSocket acceptor | `src/network/websocket_acceptor.cpp` | `PendingRequests`, `NextRequestId`, `EventLoop`, `ShuttingDown`, `ActiveWorkers`, `WsRsaKey`, `RsaDecryptMutex` | start, stop, open/message/close callbacks, worker threads, deferred lambdas | login handler, uWebSockets |
| login handler | `src/login/login_handler.cpp` | the connection being served | parse, decrypt, query, respond | RSA, XTEA, query client, buffers |
| query client | `src/query/*.cpp` | the socket to the query manager | connect with handshake, query with one reconnect, decode | query manager |
| status cache | `src/status/status_handler.cpp` | cached string and its time | refresh or reuse | query client, XML builder |
| XML builder | `src/status/xml_builder.cpp` | write position in a fixed buffer | append text, numbers, escaped strings | status cache |
| buffers, byte order | `src/common/buffer_reader.cpp`, `buffer_writer.cpp`, `byte_order.h` | position in a fixed buffer | bounded reads and writes, overflow flags | handlers |
| strings, UTF-8 | `src/common/string_utils.cpp`, `utf8.cpp` | none | copy, compare, escape, convert to and from Latin-1 | handlers |
| RSA, XTEA | `src/crypto/*.cpp` | the key | decrypt one block; encrypt and decrypt in place | login handler |
| configuration | `src/config/config.cpp` | `g_config` | read the environment | main |
| logging | `src/common/logging.cpp` | start time of the clock | format and print | everything |

What is hard to get right, part by part (the full list, with lines, is `hazards`
in `PROJECT.json`):

* **WebSocket acceptor.** Three kinds of thread. Workers finish after their socket
  is gone and its address reused; stop runs concurrently with all of them and frees
  the event loop and the RSA key. It must never hand a response to the wrong
  client, use a freed key or socket, or wait for ever.
* **TCP server.** One thread, but every system call may do anything. Slots and
  descriptors are reused; poll results are used after other slots have changed the
  table; sizes come from clients. It must never mix two clients up, close a
  descriptor it does not own, leak one, or keep a connection for ever.
* **Status limiter.** A fixed table with least-recently-used replacement: a limit
  per address that other addresses can push out.
* **Query client.** A lost connection is re-opened and the query repeated, so a
  query may be executed twice; a response must belong to its own query.
* **Status cache.** A failed refresh is cached as well; the clock is wall-clock time.
* **Login handler, buffers, XML.** Fixed buffers whose overflow must close the
  connection or cut at a boundary, never emit a malformed message.

What each part must get right, in a line: the *front ends* serve each client its own
response and nothing else, own what they close, and end; the *limiter* limits, and
only as long as it says; the *cache* is current and spares the query manager; the
*query client* returns the response to the query that was asked; the *login handler*
answers every well-formed request with exactly one message; the *codecs* are inverse
to each other and stay in their buffers.

## 2. Plan

1. `WsAcceptor`, `TcpServer`: the two front ends, with proofs. *(done)*
2. `StatusService`: rate limit and status cache, with proofs. *(done)*
3. `QueryClient`: connect, handshake, retry, broken connections; `QueryService`, what
   it promises, and the proof that it keeps it. *(done)*
4. `LoginHandler` on top of `QueryService`, with proofs. *(done)*
5. `Lifecycle`: main with the front ends and the query client, for the three transport
   modes, with proofs. *(done)*
6. The sequential code against reference definitions, with proofs: `WorldQuery`,
   `XmlBuilder` and `Config`, put side by side by `StatusText`; `Xtea`, `Buffers` and
   `Utf8`, put side by side by `Wire`. *(done)*

What could still be added: an abstract specification of the slot table (a pool of
descriptors) that `TcpServer` refines, and one specification in which `TcpServer`,
`WsAcceptor` and `LoginHandler` run together. The state space of the last is the
product of three that are already large.

## 3. The modules

A variable or action keeps the name of the global or function it stands for where
there is one; `map` in `PROJECT.json` gives the lines of every definition. Operators
marked *Mutated form* are plausible bugs: none is part of a specification, each shows
that a property fails when the code is changed that way.

**`WsAcceptor`** (`src/network/websocket_acceptor.cpp` and what it relies on in
uWebSockets). `main` is the main thread in start and stop, `wsThread` the event-loop
thread, `worker` the detached workers. A step of a thread is the code between two
accesses to shared state; a callback of the loop (`Open`, `LoginMessage`,
`RejectMessage`, `PeerEnds`, `PeerGone`, `IdlePing`, `IdleClose`, `RunDeferred`) is one
step, since only the loop's thread runs it. `deferQueue` and `batch` are the two queues
of `uWS::Loop`: `Wakeup` takes what was deferred, `RunDeferred` runs one lambda.
Socket addresses are reused. `session` is history that tells two WebSockets at one
address apart. `safe_defer` is two steps, `CheckShutdown` and `SafeDefer`, because
nothing holds the loop between them. `touched` records a `defer` on a freed loop; what
such a process does next is undefined, so fairness is stated only up to it.

**`TcpServer`** (`src/network/server.cpp`). One thread, whose `pc` walks through
`init_connections`, `process_connections` (`Poll`, `AcceptConnection` in turn, then for
each polled slot `CheckInput`, `ReadBytes`, `CheckRequest`, `CheckOutput`, `WriteBytes`,
`CheckConnection`) and `exit_connections`. `open` is the kernel's descriptor table,
`backlog` its listen queue, `revents` what poll said. A system call may have any of its
results: partial reads and writes, would-block, errors, end of stream. The contents of
requests and responses are not there, their sizes and positions are. A connection
carries `got`, history: the bytes read from its client.

**`StatusService`** (`allow_status_request`, `process_status_request`,
`get_status_string`). `g_status_records` is the table; `uptime` and `wall` are the two
clocks, which tick half a second apart, either first; `SetClock` sets the wall clock
once. `last` (when an address was last allowed) and `refreshed` are history. An action
is a whole request; the world query inside it succeeds or fails, without taking time.

**`QueryClient`** (`src/query/query_client.cpp`). `pc` walks through `connect` and
`execute_query`; `handshake` says that `execute_query` was called by `connect`, which
keeps `attempt` of the outer call. Per connection there are the requests on their way
and the parts of responses not yet read. `Serve` (the query manager) and `Break` are
external: a break may cut a response anywhere, and a request may be carried out after
the client has given the connection up.

**`QueryService`** is what a caller of the query client may rely on, without sockets,
connections or retries: queries one at a time, each carried out at most twice
(possibly after the caller was told that it failed), a response only to a query that
was carried out. `QueryClient` implements it: `ImplementsService` instantiates it with
`phase` defined from `pc` and `socket_`.

**`LoginHandler`** (`src/login/login_handler.cpp`, `src/query/login_query.cpp`).
`Receive` is `process_login_request` up to its first query (size, RSA, fields, version,
refusals), `Resolved` and `LoggedIn` are what follows the two queries, `Manager` the
query manager's answer through `QueryService`, whose variables are variables of this
module. A text is a value with two lengths, on the wire and in UTF-8; a response is
its kind and its sizes, computed as the code does: data size, padding, encrypted size,
bytes to write.

**`Lifecycle`** (`src/main.cpp`, and from the front ends what main sees of them). `pc`
is where main is, from the first signal handler to the last destructor. `handlers` is
what `atexit` was given, in order. `Signal` may come at any moment: before its handler
is installed it kills the process. `thread` and `workers` are the threads of the
WebSocket acceptor.

**`WorldQuery`** (`src/query/world_query.cpp`, `src/status/status_handler.cpp`).
`worlds` is what is read of a response of which the end may be missing; `Look` is one
turn of the loop that chooses a world, `Publish` what the status makes of it.

**`Xtea`** (`src/crypto/xtea.cpp`). Block by block and round by round, in place, first
`xtea_encrypt` and then `xtea_decrypt`. What a round mixes into a word is a parameter
of the module. `trail` is history: the words of a block after each round.

**`Buffers`** (`src/common/buffer_reader.cpp`, `buffer_writer.cpp`, `byte_order.h`, and
the size that `execute_query` inserts). A query is written, completed and read again,
of which only a part may arrive. A byte has `Base` values, so that a length which does
not fit two bytes is met with a short text.

**`Utf8`** (`src/common/utf8.cpp`). One step per character: Latin-1 to UTF-8 and, if it
fitted, back; or any bytes to Latin-1.

**`Wire`** puts `Buffers`, `Utf8` and `Xtea` side by side: what a message goes through.

**`Texts`** has what the next two share: texts as sequences of characters, and the
decimal notation that `xml_append_number` writes. A loop over a text is a recursive
function of the number of its turns.

**`XmlBuilder`** (`src/status/xml_builder.cpp`). One step per character or specifier of
a format. The buffer is used again for the next document without being cleared, as the
static one of the code is. A document is a sequence of calls, each made of pieces: a
character or a specifier, its argument, and its meaning, the text a reader should find.
The code sees formats and arguments; `IsCall` says which meaning belongs to them.
`Reading` is a reader of XML, who sees the text only: it resolves the references the code
writes, takes a carriage return for other white space (`Seen`: a newline, or a space
within a value) and does not take a text with a control character that XML does not allow
(`Legal`). `xml_append_string_escaped` escapes neither, so a carriage return in a
configured text is not found as one, and a text with such a control character makes a
document that is not XML; `ReaderFindsArguments` says exactly this.

**`Config`** (`src/config/config.cpp`, `src/common/string_utils.cpp`). One step per
setting, in the order of the code; then the preview that main logs and the message of
the day in the status, which starts behind the hash that `parse_motd` puts before it.
The exclusive or of the hash is a parameter of the module.

**`StatusText`** puts `WorldQuery`, `XmlBuilder` and `Config` side by side: what the
status text comes from.

*Composition.* `LoginHandler` runs on `QueryService`, which `QueryClient` is proved to
implement: what holds of logins holds with broken connections and retries. `Lifecycle`
composes main with both front ends and the query client, each reduced to its resources
and threads. Elsewhere modules meet where one leaves a choice to the other:
`TcpServer` lets `CheckRequest` answer or close, as `StatusService` and `LoginHandler`
decide; `StatusService` lets the world query succeed or fail, as `QueryClient` decides;
`WsAcceptor` lets a worker's connect and login do so.

## 4. What TLC checks

| run | instance | states | what it shows |
|---|---|---|---|
| `ws_safety` | 2 addresses, 2 workers, 2 WebSockets with a message each | 51 thousand | map, key, mutex and counter agree in every interleaving; a response reaches its own session or nobody; stop leaves nothing |
| `ws_liveness` | 1 WebSocket, 2 messages, 2 workers | 20 thousand | stop returns, requests are settled, silent clients leave |
| `tcp_safety` | 2 slots, 3 clients, 4 descriptors, 2-byte buffers | 450 thousand | descriptors and slots agree, slots are reused clean, requests are whole, nothing is left at exit |
| `tcp_liveness` | 1 slot, 2 clients, 2 descriptors | 17 thousand | connections end, clients are taken, a signal ends the server |
| `status_safety` | 2 records, 4 addresses, interval 2, 4 seconds | 341 thousand | limit and cache, see the properties |
| `query_safety` | 3 queries, 3 connections | 121 thousand | intact and authenticated requests; `QueryClient` implements `QueryService`; queries return |
| `login` | 15 requests, 26 lists, 4 queries | 219 thousand | a list only for the right password; sound frames inside the buffer; closed only if the list is too long |
| `lifecycle` | 2 slots, 2 workers, 3 modes | 283 | threads end before what they use; nothing is left at exit; a signal ends the process |
| `status_text` | up to 3 worlds of 5; documents in 14 bytes, two in a row; 3240 environments | 89 thousand | the configured or the busiest world; a reader finds the texts of a document again and none becomes markup; settings are taken as set |
| `wire` | bytes of 4 values, 3 fields of 13; up to 3 characters or 4 bytes; words of 4 bits, 3 rounds | 258 thousand | what is written is read or noticed to be missing; texts survive conversion, which ends; decryption inverts encryption |
| `ws_use_after_free`, `ws_idle_timeout` | 1 WebSocket, 1 worker | | violations, section 6 |

`status_text` and `wire` each put three sequential modules side by side. A behaviour runs
one of them while the variables of the other two are `None`; the properties are those of
the module that runs, and say nothing where the variable that tells where it stands
(`pc`, `builder`, `setting` and their like) is `"none"`. Five of these properties are conjunctions of the
components' own: `ChosenWorld` is `BusiestWorld`, `ConfiguredWorld` and `NoWorldMadeUp`;
`DocumentReadable`, `SettingsTaken`, `QueriesArrive` and `TextSurvives` are the
invariants at the end of `XmlBuilder`, `Config`, `Buffers` and `Utf8`.

*Why the bounds are enough.* Two of each thing that can be confused with another of its
kind (sockets, workers, slots, records) plus one more client or address than there is
room for, so that reuse, refusal and replacement happen. Buffers of two bytes hold the
length prefix and give payloads that are empty, partly read, full and too large. Three
queries over three connections give a retry inside one query and leftovers of one query
seen by the next. `login` has texts at and beyond each limit (array, block, length
field) in both encodings, a length that is negative as an `int`, and lists whose
response ends at each distance from the end of the buffer that padding tells apart, as
well as 50, 51 and 255 characters. The inputs of `Utf8` are the ends of all ranges and
bytes of every kind, a lead of overlong forms among them; those of `Buffers`, `XmlBuilder` and `Config` lie on both sides of
every capacity. Sequential code whose inputs are finite in kind needs no more. Symmetry is used for safety only. Where properties
are proved (section 5) the bounds do not matter.

*Fairness.* `WsAcceptor`: weak fairness of each thread and of the timers: the operating
system schedules threads, and no step waits for a client. `TcpServer`: weak fairness
of the server's thread (poll has a timeout) and of the clock; none of clients, of reads
or of writes. `QueryClient`: weak fairness of the client's thread and of the query
manager. The last is a real assumption: `ReadExact` has no timeout, and a query manager
that neither answers nor closes blocks the client for good. The same assumption is in
the fairness of the server and of the workers, whose requests wait for queries.
`Lifecycle`: main, the loop thread and the end of each worker; not that clients come,
nor that a worker begins. `Utf8` and `XmlBuilder`: that a loop goes on, which is all
that termination needs. `connection_timeout` of 0 turns timeouts off, so `tcp_liveness` has one.

## 5. What is proved

Eight modules of proofs prove every safety property of every passing run, for all values
of the constants.

| proofs | about |
|---|---|
| `FrontEndProofs` | `TcpServer`, `WsAcceptor` |
| `ServerProofs` | `LoginHandler`, `StatusService`, `Lifecycle` |
| `QueryClientProofs` | `QueryClient`, and that it implements `QueryService` |
| `StatusTextLemmas` | `WorldQuery`, `Config`; lemmas about texts, numbers, markup and the reader of XML |
| `StatusTextProofs` | `XmlBuilder`, and the three parts of `StatusText` together |
| `PacketProofs` | `Buffers`, `Xtea` |
| `Utf8Proofs` | `Utf8` |
| `DataInduction` | induction over numbers and functions defined by recursion, for the last four |

They also prove what no run checks,
because the proof already settles it: type correctness of the modules;
`NoWorkerDuringDrain`; `FreeSlotsAreClean`, `TransfersInBounds` and `NoPanic` of
`TcpServer`; `OwnResponse` and `AtMostTwice` of `QueryClient`, the two halves of its
promise; `ServesItsMode` and `ServedWithResources` of `Lifecycle`; `EveryBlockEncrypted`;
and `PeakCoversOnline`. The constants are assumed to satisfy:

| assumption | what it says |
|---|---|
| `WsAssumption` | finitely many workers |
| `TcpAssumption` | buffers of at least two bytes; 0 is not a descriptor the server gets, as it is its standard input |
| `StatusAssumption` | at least one record; the wall clock is not within an interval of 1970; 0 is no client's address |
| `QueryAssumption` | the bounds on queries and connections are natural numbers |
| `LoginAssumption` | the shape of requests; accounts have numbers from 1 and passwords that are not empty; the names in a list have at most 29 bytes (the size of their arrays) |
| `WorldAssumption` | at most 255 worlds; only the empty name is empty in lower case |
| `CharAssumption` | the characters that the code writes or looks for are characters, and zero is not |
| `XmlAssumption` | documents are calls with the arguments that their formats name; formats have no `&`, tab or line end of their own (those of `get_status_string` have none), and a character given with `%c` is one that needs no escape (the code appends both as they are) |
| `ConfigAssumption` | settings are texts or not set; the defaults are texts; every array has room for its zero, and the one for the message of the day for the digits of any hash, the end of its line and a character; a hash and its parameters are natural numbers |
| `BuffersAssumption` | a byte has at least two values, one of them the question mark; sizes, numbers and the lengths of texts fit the types they are written with |
| `Utf8Assumption` | strings consist of bytes, texts of code points |
| `XteaAssumption` | the sum after the last round is the constant that decryption starts with; a round mixes words |

* *WebSocket acceptor.* `IInv` adds to the properties: `CountInv`, `ActiveWorkers`
  is the number of workers that have not returned (without it the drain loop says
  nothing about them); `MainInv` and `LoopInv`, what each stage of stop and of the loop
  thread has already ended; `IdInv`, request ids are never given out twice; `CarryInv`,
  whoever carries a request id carries its session. A response then reaches the session
  that asked, although addresses are reused.
* *TCP server.* `ConnInv` relates state, size, position and bytes received of each
  connection; `OwnInv` is ownership slot by slot; `StageInv` says what the current stage
  of a cycle relies on, and that all other slots are settled.
* *Status service.* `LimitInv`: a used record holds the moment its address was last
  allowed and no address has two; an address that is not in the table was overrun. The
  witness of an overrun is the table itself at the moment of replacement: the owners of
  the other records, all at least as recent, and the newcomer. At least as recent is all
  that can be said: timestamps are whole seconds, and of records of the same second the
  first is replaced (`src/network/server.cpp:433`), so within one second the order of
  requests does not matter and the address allowed last may be the next to go. `CacheInv`: while nobody
  sets the clock the two clocks keep their distance, so the wall-clock age of the cache
  is its real age to the second.
* *Query client.* `LineInv`: the connection in use carries the message that is waited
  for and its response, and nothing of an earlier one; this is what abandoning a
  connection after every failure achieves. `QueueInv`: a connection never has more than
  one request on its way. `CountInv`: executions and requests on their way together
  are no more than the writes of a query, of which there are at most two. From these
  follow the invariants, and `ClientImplementsService`: every step of the client is a
  step of `QueryService` or leaves its variables alone.
* *Login handler.* `ProgressInv` says what the query in progress asks, `GrantInv` that
  one answered with Ok was granted. That frames are sound is a lemma about the
  arithmetic of padding, used once for errors and once for lists.
* *Lifecycle.* `StageInv` says which parts exist at each stage, `HandlerInv` which exit
  handlers will give the rest back, `ThreadInv` how far the threads are.
* *World query.* `BusyInv` and `NameInv` state the loop's invariant for each of its two
  purposes; `ReadInv`, that what is read of a world is a part of what was sent.
* *Configuration.* `ConfigInv` says of each setting, from the step that reads it on, what
  has been made of it. The steps before it is read matter as well: a later one must not
  touch it. Under it are lemmas about the loops: the hash is below its modulus, so its
  digits and the end of its line leave room for the message, and the first line end is
  the one behind the hash, since digits are none (`MotdFacts`); comparing character by
  character up to the first difference or the end is comparing texts in lower case
  (`EqualsFacts`); the escapes so far are a prefix of all of them, and the array is full
  exactly if something is missing (`EscapesFacts`).
* *XML builder.* The three promises of `DocumentReadable` speak of a finished document
  only. `XmlInv` says what the buffer holds on the way: for some number of pieces, format
  and arguments have been taken up to exactly where these end (`Reached`), and the buffer
  holds what should be written for them, as far as there is room (`Holds`), whatever an
  older document left behind. Each step takes one piece: that needs the length modifiers
  and the verb to be found where the piece ends, also for specifiers that are not known
  and formats that end within one (`SpecifierEnds`, `UnfinishedEnds`), and
  `xml_append_number` to write the decimal notation that was meant (`DecimalIs`). What a
  reader finds is then a matter of texts: a text that is escaped reads as itself wherever
  it stands, which is closed under concatenation (`Reads`, `ReadsConcat`,
  `ReadsEscaped`), and markup is kept by concatenation and by cutting (`KeptConcat`,
  `MarkupPrefix`), while an escaped text has none. Escaping neither adds nor removes a
  character that XML does not allow (`LegalEscaped`), so the document has one exactly if
  an argument has.
* *Status text.* `StatusTextInv`: of the three parts one has its own invariant and the
  others are absent, which no step changes. `StatusTextSafety` is therefore about the
  specification that `status_text` checks.
* *XTEA.* `DecryptInv`: decryption walks the recorded rounds of a block backwards. It
  rests only on subtraction undoing addition modulo the word size and on the order of
  the two halves of a round, so it holds of every function that a round may mix in.

* *Buffers.* `ExchangeIInv`, by stages of a query: what is written so far are the bytes
  of its fields one after the other, unless the buffer overflowed (`WriteInv`); what is
  sent has its size in front, in two bytes or in six (`SentInv`); the reader stands where
  the next field begins and had the ones before, or is past the end of what arrived
  (`ReadInv`). The lemmas below it: the bytes of a number make it again, a write changes no
  byte outside its range, a field that is read at its place is the field written, and
  a field that is cut off is noticed.
* *UTF-8.* `ConversionIInv`: of a Latin-1 string the destination has all characters up to
  one that did not fit (`EncodeInv`); a text is read in whole characters, and those
  that fit are stored (`DecodeInv`); of any bytes, the ASCII read is the ASCII written
  (`BytesInv`). It rests on `utf8_decode_one` giving back what `utf8_encode_one` encoded,
  for each code point, and on `utf8_find_next_leading_byte` skipping trailing bytes only.
  `AsciiSurvives` leaves out bytes with overlong forms (two or more bytes for a character
  of one): `utf8_decode_one` does not look for them and takes them for that character.

What a recursive definition computes (the end of each field, the bytes of a text, the
digits of a number, what a reader finds in a document) is proved for every input. The library's induction theorems cannot be
used for it, since no prover at hand instantiates their operator parameter;
`DataInduction` derives what is needed from `WFMin` and `NatLessThanWellFounded`, which
speak of sets: a set of numbers has a least element (`Least`), hence induction up to a
bound (`UpTo`), hence a function with the values its recursive definition says
(`Iteration`).

Only model-checked: liveness (`StopReturns`, `RequestsSettle`, `SilentClientsLeave`,
`ConnectionsEnd`, `ClientsAreTaken`, both `SignalEnds`, `QueriesReturn`, `DocumentEnds`,
`ConversionEnds`), which is out of the prover's reach. That `^` of the hash is a parameter
in the proofs and bitwise arithmetic only in the run changes nothing: all that the
settings depend on is that it yields a natural number.

## 6. Where code, comments and tests disagree

* `ws_use_after_free`: `safe_defer` tests `ShuttingDown` and then calls `defer`; stop can
  free the loop in between (`src/network/websocket_acceptor.cpp:61`), which the comment
  at lines 37-38 says the flag avoids.
* `ws_idle_timeout`: a client that answers pings is never closed after its response; the
  comment at lines 126-127 says the idle timeout cleans up.

Two more were met on the way and are not runs. After a failed bind the loop is torn down
before the flag is set, which the comment at line 37 of the acceptor says is set before;
no worker exists then, but stop itself may call `defer` on the loop it has just read and
that is freed meanwhile (`"main"` in `touched`). And `tests/test_login_handler.cpp:126` writes the number of an
account where `process_login_request` reads the length of the email
(`src/login/login_handler.cpp:150`): such a request is closed, the test expects an answer
(lines 253-254).

## 7. What is not modelled

* RSA as arithmetic: OpenSSL does it. Whether a block opens is an input of
  `LoginHandler`; the life of the key and its sharing are in `WsAcceptor` and
  `Lifecycle`.
* Settings that are numbers: read with `atoi`, and constants of the other modules.
* The build for clients that speak UTF-8 (`CLIENT_ENCODING_UTF8`): `Buffers` and
  `LoginHandler` are the default build, in which strings are Latin-1 on the wire.
* 64-bit reads and writes of buffers, which nothing in the server calls.
* Whether configured texts are the UTF-8 that the status document declares: a byte beyond
  ASCII is a character like any other to `xml_append_string_escaped`.
* In `Loop::defer` the wake-up comes after the mutex is released; the model has both in one
  step (`DeferOn`).
* Errors of `accept` other than an empty backlog and a lack of descriptors, which end the
  loop of `accept_connections` in the same way.
* Logging, `string_format_time` and `string_clear`: they format and print.
* A reader whose position goes back: a length of 2^31 or more is a negative `int`, which
  `LoginHandler` has as such; `Buffers` has only lengths that a writer produces.
* In uWebSockets, framing, TLS, compression and back-pressure on sends; failure to start
  a thread; the number of worker threads, which the code does not limit and the models
  bound by `Workers`.
* Concurrent use of `g_connections` is not there to model: only main touches it.

A signal that interrupts a system call is a result of that call. Integer overflow does
not occur elsewhere at the sizes the code allows: sizes are below 2^16, times count
seconds from the start. The extended size of a query response has 32 bits; one that is
negative as an `int` is rejected and is among the `"bad"` sizes of `QueryClient`.
