# ServiceFramework in TLA+

ServiceFramework is a C++ server framework on folly, wangle and proxygen: a
process reads a configuration file, makes groups of threads, starts TCP and HTTP
services on them and lets the application send to connections by id, to peers
by service name, and to HTTP servers from a fiber. This directory models the
parts of it that hold state shared between callbacks, threads or fibers, and the
json library its configuration passes through; checks them with TLC on small
instances; and proves with TLAPS, for every value of the constants, nearly all the
safety properties: of these, only what the json library makes of whole texts and
values is left to TLC.

`PROJECT.json` lists the components, the runs with their properties, the map
from every definition to the lines of the source it models, the hazards the
properties are aimed at, the findings and the theorems. Paths below are
relative to `src/baselib/` unless they begin with `src/`.

    tlc -workers 2 -config ConnManager.cfg MCConnManager    # a run
    tlapm ConnManagerProofs.tla                             # the proofs of a module

## 1. The system

### Components, their state and operations

| Component | State | Operations | Module |
|---|---|---|---|
| ThreadLocalConnManager (`net/thread_local_conn_manager.*`) | per IO thread: `current_conn_id_`, `pipelines_`, `thread_id_` | OnNewConnection, OnConnectionClosed, SendIOBufByConnID | `ConnManager` |
| ConnHandler and its pipeline (`net/conn_handler.*`, `net/conn_pipeline_factory.*`) | `conn_state_`, `conn_id_`, the transport | transportActive, read, readEOF, readException, close | `ConnManager` |
| ServiceManager (`net/service_manager.*`) | `service_configs_`, factories, `services_` | RegisterServiceFactory, Start, RegisterServiceBase, Stop, Lookup, SendIOBuf by conn id and by name | `ServerLifecycle`, `ConnManager`, `TcpClientGroup` |
| TcpServer (`net/server/tcp_server.*`) | the acceptor | Start, Stop | `ServerLifecycle`; its connections in `ConnManager` |
| TcpClient, ClientBootstrap2 (`net/server/tcp_client.*`, `net/base/client_bootstrap2.h`) | `client_`, `connected_`, `stoped_`, the pipeline, timers | Start, DoConnect, deletePipeline, Stop, SendIOBufThreadSafe | `TcpClient` |
| TcpClientGroup (`net/server/tcp_client_group.*`) | `clients_`, `mutex_` | RegisterTcpClient, SendIOBuf, Stop | `TcpClientGroup` |
| HttpClient, RabbitHttpClient (`net/server/http_client.*`, `net/rabbit_http_client.*`) | `ref_count_`, `reply_`, `cb_`, connection | HttpClientGet/Post, HttpClientSyncFetch, proxygen's callbacks | `HttpClient`, `HttpRequest` |
| FiberDataManager (`net/fiber_data_manager.*`) | `datas_`, `current_fiber_id_`, batons | AllocFiberData, Wait, Post, DeleteFiberData | `HttpClient` |
| RabbitHttpRequestHandler (`net/rabbit_http_request_handler.*`) | `self`, the fiber task, the response | onRequest, onEOM, requestComplete, onError | `HttpRequest` |
| Call chain (`message_util/call_chain_util.*`) | the thread-local chain | saved and restored around a suspended fetch | `HttpRequest` |
| Snowflake ids (`base/snowflake_id_util.*`) | a worker per thread, a static worker, the thread counter | InitSnowflakeWorkerID, GetNextIDBySnowflake(UnSafe) | `Snowflake` |
| SimpleTcpClient, SimpleConnHandler (`net/server/simple_tcp_client.*`, `net/simple_conn_*`) | `client_`, `connected_`, the callbacks | Connect, Close, the callbacks and what the application does inside them, the destructor | `SimpleTcpClient` |
| RendezvousHash (`base/config/rendezvous_hash.*`) | `nodes_` | the constructors, get | `RendezvousHash` |
| nlohmann json (`thirdparty/nlohmann/json.hpp`) | a lexer's buffers, a parser's stacks, values | parse, dump, CBOR, MessagePack, UBJSON, json_pointer, flatten, patch, diff | the `Json...` modules |
| IOThreadPoolConnManager, ServiceRouterManager (`net/io_thread_pool_manager.*`, `net/service_router_manager.*`) | per thread: `pipelines_`, `service_pipelines_`, `server_conns_` | OnNewConnection, OnServerRegister, OnConnectionClosed, DispatchIOBuf*, BroadCast | `IOThreadPool` |
| ThreadGroupListManager (`net/thread_group_list_manager.*`) | `thread_groups_`, `thread_datas_` | SetConf, Initialize, MakeThreadGroup, lookups | `ThreadGroups` |
| Root, BaseMain (`net/root.*`, `base/base_main.*`) | services to register, the main event base | LoadConfig, Initialize, Run, signals | `ServerLifecycle` |
| ConfigManager and configuration (`base/config*`) | the parsed file | load, SetConf, ToServiceConfigs | `ServerLifecycle`, `ThreadGroups`; the files are their inputs |
| HttpServer, HTTPServerLib (`net/server/http_server*`) | bootstraps, handler factories | Start, Stop | start and stop only, in `ServerLifecycle` |
| TcpServerT, UDP, logging, time and string utilities | | | not modelled, section 8 |

### How they interact

* An IO thread runs one event base. Its callbacks never overlap, so everything
  that is thread local needs no lock; what crosses threads is posted with
  `runInEventBaseThread` (`ServiceManager::SendIOBuf`, `TcpClient::SendIOBuf*`,
  the hops of `IOThreadPoolConnManager`) or waits for the other event base
  (`TcpClient::Stop`).
* A `conn_id` is the bridge: high half the index of the thread in
  `thread_datas_` (ThreadGroups), low half the id within that thread
  (ThreadLocalConnManager). `ThreadIdsRoute` says that the first half leads back
  to the right event base, `RegistryExact` that the second half finds the right
  pipeline there, and `MisdeliveredOnlyAfterWrap` when a late send finds another.
* The HTTP client and the HTTP server are linked through fibers: a handler
  function called by `onEOM` runs on a fiber and may suspend it in
  `HttpClientSyncFetch`; during that wait proxygen's callbacks for the same
  request and the same client run on the same thread, and other fibers change
  the thread's call chain. Called outside a fiber, `HttpClientSyncFetch` blocks
  the thread, and with it everything that could deliver its reply.
* One mutex exists (TcpClientGroup). It guards the list, not the clients.
* SimpleTcpClient, RendezvousHash and the snowflake ids are used by the
  application directly and interact with no other part; so does the json
  library, apart from the configuration, whose values are inputs of
  `ServerLifecycle`.

### What is hard here

Callbacks that arrive in an order nobody wrote down (reply, timeout, error,
close, Stop); values read when something is posted and used when it runs (conn
ids, `connected_`, `client_`, `this`); counters that wrap (conn ids, fiber ids,
snowflake fields); manual ownership (`ref_count_`, `self`, `weak_ptr`s); a
message that walks over threads while the tables it searches change; a lock
held across a wait; applications that call back into the object that called
them; pointers into a value that grows; lengths and escapes at the edge of a
buffer or of a type. `PROJECT.json` lists each such place under `hazards`, at its
line, with the properties that cover it.

### What makes each part correct

* Connection management: each open connection is found under exactly one id,
  ids of open connections differ, a message goes to the owner of its id or to
  nobody, one sender's messages stay in order.
* TCP client: at any time one way forward (connected, connecting, or a timer),
  `connected_` tells the truth, it reconnects. A group of clients is a lossy
  channel: a message may be lost, but is not duplicated or reordered, and every
  call ends.
* HTTP client: the reference count counts the users, one callback per fetch, a
  reply is whole, is never lost before the timeout and never changes after the
  return, every fetch returns.
* HTTP requests: one answer at most, none after an error, a fiber that was
  suspended goes on with its own call chain, every request is answered or fails.
* Snowflake: a worker's ids grow, two workers' ids differ, the static worker's
  included, except in the situations the code does not exclude, which are named.
* Thread pool router: tables agree, no message twice, none lost for a receiver
  that stays.
* Process: indices lead back, what is configured and servable runs, what runs
  is stopped, unless the Stop of a client group hangs or a stopped client is used.
* SimpleTcpClient: `connected_` tells the truth until the application does one
  of the things the client does not expect, which are named.
* RendezvousHash: when the list of nodes changes, a key moves only to or from a
  node that changed.
* json: what is accepted is JSON, with the value the grammar gives it, and what is
  refused is not JSON and does not begin one; what is written is read back; a diff leads where it says; a binary
  message is read as it was written or refused.

## 2. The modules

A module's variables carry the names of the members they stand for (comment at
each declaration); an action carries the name of the handler and models the
whole of it, one step per event-base callback or per run of a fiber between two
waits. Variables marked *history* are not in the program and are only read by
properties. The operators introduced by "Fault" comments are plausible bugs; each
replaces one definition in a mutation run, and the named property then fails.

**ConnDirectory** — the abstract specification: a directory from ids to open
connections with `Open`, `Close` and `Receive`. No threads, queues or counters.

**ConnManager** — the registries of all IO threads, the handlers and
`SendIOBuf(conn_id)`. `NewPipeline` is the acceptor or bootstrap creating a
pipeline; `TransportActive` is the first half of `ConnHandler::transportActive`,
and each `OnNewConnection` step one iteration of the do-while loop of
`ThreadLocalConnManager::OnNewConnection`, the last one storing `conn_id_`;
while it runs, its thread is busy (`Idle`). `CloseHandler` is
`ConnHandler::close`, reached from reads (`ReadClose`), from the application,
also repeatedly (`AppClose`), and from inside a failing write
(`SendIOBufByConnID`). A post goes to the loop callbacks of the event base when
its own thread posts and to its notification queue otherwise
(`RunInEventBaseThread`, folly's behaviour), and the two queues are served in
any interleaving. `App` is a sender without an event base.

**Proof modules** — `ConnManagerProofs` and the other modules whose name ends in
`Proofs` extend a module with theorems about it (section 4) and are part of no run.

**MC modules** — extend a module with its symmetry sets or with the values of
constants that a configuration file cannot write; HttpRequest needs none.

**TcpClient** — one or more clients and the bootstrap below them. `DoConnect`
replaces the pipeline; `ConnectSuccess`/`ConnectErr` are `ConnectCallback`;
`DeletePipeline` is called from `ClosePipeline` (peer or failing write) and from
`Stop`. `client_.reset()` in Stop destroys a socket that is still connecting,
which runs the error path. Using the null `client_`, or failing the CHECK in
`deletePipeline`, is the state `crashed`, in which nothing runs any more. The
bootstrap's `pipeline_` is the only owner of a pipeline, so the one that `DoConnect`
replaces is destroyed there and can close no more: the pipeline that closes is the
bootstrap's own or there is none, and `pipeline` need only say whether it is there.

**LossyChannel** — the abstract specification of a client group: `Send` and
`Deliver`. A message may never be delivered; it reaches no receiver twice, only a
broadcast reaches several, and one sender's messages come in order.

**TcpClientGroup** — extends TcpClient with the list, the mutex and the calls of
`SendIOBuf` in progress, on event bases (which are `blocked` meanwhile) and on
an application thread. Copying the list, looking at a client and posting to it
are separate steps, as they are separated by no lock. Clients are registered and
started one after the other while messages are already sent. `Stop` keeps the
mutex while each `TcpClient::Stop` waits for its event base. `ImplementsChannel`
maps the messages of the calls to `sent` of LossyChannel and `wrote`, the messages
each client wrote in their order (*history*), to `got`.

**HttpClient** — fetches on one thread. `FetchAsync`/`FetchInvalid` are
HttpClientGet and HttpClientPost; `SyncRefused`, `SyncInvalid` and `SyncFetch` the
outcomes of HttpClientSyncFetch up to its wait; `WaitTimeout` and `Resume` the two
ends of the wait; the rest are proxygen's callbacks. `Callback` is `cb_`, for a
synchronous fetch the lambda that locks the `weak_ptr` of the fiber data, moves
the reply (the headers leave `reply_`) and posts the baton. `InsertFiberData` is
`datas_.insert`, which leaves an entry that is there.

**HttpRequest** — extends HttpClient with the requests of the same thread.
`OnEOM` sets `self` and queues the task; `RunFiber` starts the handler function,
which may fetch; `ResumeFiber` continues it after the wait, restores the call
chain the fetch had saved (`chain`, `chainBack`) and checks the weak pointer
before it answers; `RequestComplete` and `OnError` drop `self`. `CallbackFetch`
is an asynchronous fetch and `BlockingFetch` a synchronous one made by code that
is not on a fiber; until its `BlockingReturn` the thread does nothing else. What
a fiber does after it used a destroyed handler is undefined; the model records
it (`freedUse`) and ends that fiber.

**Snowflake** — `InitSnowflakeWorkerID` sets `g_worker_id` and `g_data_center_id`.
`NewWorker` makes the worker of a thread with the next value of `g_thread_id`, 16 bits
(`NumberSpace`) that wrap; `NewStaticWorker` makes the one worker that is numbered
by `g_data_center_id` instead. `NewMillisecond`, `SameMillisecond`, `SequenceFull` and
`TilNextMillis` are the branches of `IdWorker::GetNextID`; `TilNextMillis` compares
the clock with `sequence_number_`, as the code does. `Tick` and `SetBack` move the
wall clock. `Construct` leaves `last_timestamp_` at any value of `Garbage`, the
uninitialised member.

**SimpleTcpClient** — one client, its pipelines in the order of the Connects, and
an application that closes and connects between callbacks and inside them.
Failing the CHECK of `deletePipeline`, or using a moved-from message, is the state
`aborted`; `acts` records which unexpected thing the application did.

**RendezvousHash** — tables built from a list of nodes, and `Get`: the node with
the highest score, the first of equal ones. `Build` changes the list and makes
the next table. `Power` is `std::pow` with the exponents cleared of fractions.

**Standalone** — Snowflake, SimpleTcpClient, RendezvousHash and IOThreadPool side by
side; a behaviour exercises one of them and leaves the others in their initial
states.

**IOThreadPool** — the managers of a pool and the messages on their way. A
message for a server is posted to thread 0 and handed from thread to thread
(`DispatchIOBufByIdx`). A write that fails during a broadcast erases the element
the loop stands on: `RunFailingBroadCast` allows every outcome of that undefined
increment, a crash included. Tasks of an event base run in any order, which
includes the order of its two queues. The ids within a thread are those of
ConnManager (the same allocation code), so a connection stands for its id.

**ThreadGroups** — `SetConf` translates the "thread_group" object into options
("conn" hides "accept" and "client"); `MakeThreadGroup` and `ThreadStarted` build
pools and number the threads of all pools in one index space.

**ServerLifecycle** — extends ThreadGroups with the main thread of the process,
from LoadConfig to the end of Run, and with signals at any moment: before the
handlers are installed they kill the process, afterwards they end the loop.
`ToServiceConfigs` reads the "services" array, in which a name or a type may be
missing. ServiceManager::Stop takes the services in any order (`StopNext`) and a
group's clients one after the other (`StopOne`), each of which waits for its event
base. `CallbackWaits` is a callback there that waits for the mutex Stop holds, after
which that client is never stopped; `LateUse` is a timer or a send that comes to a
stopped client and crashes the process. Both are what `group_deadlock` and
`client_stop` show in detail.

**JsonValue** — values as tuples of a type and a content; positions in a value,
the pointers of the code, as sequences of indices and keys (`Position`).

**JsonLexer, JsonParser** — one step of the lexer per call of `get()`, one step of
the parser per token: the switch of `sax_parse_internal` with the stack of open
containers, and both consumers, `json_sax_dom_parser` and
`json_sax_dom_callback_parser`, whose callback may answer anything to every
question. An input is a shape, a set of bytes for each place; a byte is chosen
when it is read. `ParseSpec` is the parser on any input at all.

**JsonGrammar** — the reference: what RFC 7159 makes of a text (`Denotes`), with the
library's own additions (a byte order mark, the ranges of its number types). It
shares no definition with the lexer but the limits of the number types: UTF-8,
hexadecimal digits, escapes and numbers are defined again, each from the grammar.
It models no code.

**JsonSerializer, JsonText** — `dump` with `dump_escaped`, its UTF-8 automaton and
its `string_buffer`, written on one line (`Compact`, -1) or indented, by 0 characters
too; and the composition: parse any input, or parse what `dump` wrote.

**JsonBinaryWriter, JsonBinaryReader** — CBOR, MessagePack and UBJSON, with the
optimised containers of the last. A 64 bit number is eight bytes.

**JsonPointer, JsonPatch, JsonValues** — splitting and escaping of reference tokens,
flatten and unflatten; patch, diff and `operator==`; and the composition: a value
is edited by patch operations, diffed and patched, flattened, or sent over a
channel that cuts or adds bytes.

**Json** — the library: a behaviour is one of JsonText or one of JsonValues.

## 3. The runs

| Run | Question | Result |
|---|---|---|
| `conn` | Do registries, ids, queues and handlers stay consistent while ids wrap, connections close twice and writes fail? | holds, and refines ConnDirectory |
| `conn_zero` | Is 0 never a connection id? | violated |
| `clients` | Does a group of reconnecting clients behave like a lossy channel, is `connected_` right, does everything settle? | holds (until Stop), and refines LossyChannel |
| `client_stop` | Is a timer that was armed before Stop harmless? | violated |
| `group_deadlock` | Does Stop never wait for an event base that waits for its mutex? | violated |
| `http` | Are ownership, replies, call chains and answers right when handlers fetch on fibers, in every order of reply, error and timeout? | holds |
| `http_freed` | Does the weak pointer keep fibers off destroyed handlers? | violated |
| `http_headers` | Are headers and body set only with result 0? | violated |
| `standalone` | Which snowflake ids coincide or go backwards, when does a SimpleTcpClient lie, which keys of a RendezvousHash move, does a message that wanders over a pool arrive once, at a receiver that stays? | holds outside the named cases |
| `lifecycle` | Do thread ids route, do exactly the servable services run, are all stopped? | holds outside the named cases |
| `conn_group` | Do the mixed threads of "conn" serve? | violated |
| `json` | Is what the parser accepts JSON and what it refuses not, are its pointers valid, does it read what dump wrote; does a diff lead where it says, is flatten undone, is a binary message read as written or refused? | holds outside the named cases |

The properties, stated in full above their definitions:

* `conn`: `TypeOK`; `RegistryExact`; `LiveIdsUnique`; `IdReusedOnlyAfterWrap` (a
  late send cannot reach a stranger until its thread has issued a full turn of
  ids); `AllocationEnds` (the do-while of OnNewConnection, during which its event
  base does nothing else, finds a free id within one turn);
  `MisdeliveredOnlyAfterWrap` (what is written reaches the connection that had the id
  when it was sent, or one that got the id a full turn later); `SenderOrderKept`; `RemovedByOwnClose`; `ImplementsDirectory`.
* `clients`: `OneAttempt`, `ConnectedIsUp`; `ImplementsChannel`; `MessageSettles`
  (every call of SendIOBuf returns and what it posted is run); `Reconnects`. The
  last two speak of behaviours in which Stop is not called.
* `http`: `RefCountExact`, `FiberDataExact`, `NoneOnlyAfterTimeout`, `CallsBackOnce`;
  `ReplyWhole` (what a caller may find in a reply beside each result);
  `ChainIsOwn` (a fiber that goes on after a fetch finds the call chain of its own
  request); `ReturnedIsFinal`, `AnsweredOnce`; `FetchReturns`, `RequestAnswered`.
* `standalone`: `IdsOrdered`, `IdsUnique`; `ConnectedTruthful`; `TablesAgree`,
  `WrittenOnce`, `StayingReached`; `KeysStay`.
* `lifecycle`: `ThreadIdsRoute`; `ConfiguredIsStarted` (with separate threads for
  accepted connections and for clients, exactly the servable services run; each is
  found where Stop looks); `ShutdownCompletes` (after a signal all that was started
  is stopped and the process ends, unless Stop waits for an event base that waits
  for the mutex, or a client is used after its stop).
* `json`: `ParsesGrammar` (a text that is refused before its end must not begin a
  JSON text either, whichever of the given tails follows); `RefsValid` (no array
  grows while a pointer to one of its elements is in use); `WriteReadBack`, which
  includes that no string overruns `string_buffer` and that lexer and serializer
  agree on UTF-8; `PatchUndoesDiff`; `UnflattenUndoesFlatten`, which says nothing of
  values with empty containers, as the documentation does not, nor of objects whose
  first pointer leads to a member 0 (section 5); `BinaryRoundTrip`.

`HcTypeOK`, `HrTypeOK`, `TcTypeOK`, `GTypeOK`, `SfTypeOK` and `PoolTypeOK` are the type
invariants of their modules; no run lists them, they are proved (section 4).

### Bounds

* `conn`: `IdSpace = 3` stands for 2^32. The counter starts at 0 and reaches the
  wrap with the third connection of a thread, so that with four connections ids
  are skipped (insert fails), reused and reach 0. `MaxLive = 2` open connections
  per thread, fewer than the ids, keeps the allocation loop terminating
  (`MaxLiveAssumption`); two messages are enough to compare orders and to leave
  a stale one in a queue. Two threads and `App` give the sender that owns the
  connection, another event base and a thread without one.
* `clients`: two clients on one event base share its queues; two messages, from
  the callbacks of that event base and from an application thread, give two of
  one sender, two of different senders, and broadcasts. `group_deadlock` needs only one of the messages.
* `http`: two requests whose handlers, and callbacks beside them, make two
  fetches for one slot (`MaxQueue = 1`, FIBER_MAX_QUEUE_SIZE); the fiber id
  counter of four values starts at 2 and passes the wrap. Two requests are what it
  takes for one fiber to disturb the call chain of another. `http_headers` needs one
  request and one fetch.
* `standalone`, ids: `TimeSpace`, `SlotSpace` and `SeqSpace` of 2 stand for 2^25, 2^5
  and 2^12, `NumberSpace` of 3 for 2^16. Four threads wrap the thread counter and
  share two slots with each other and with the static worker, which is numbered 1
  or, after InitSnowflakeWorkerID, 0. A clock of three milliseconds passes the turn of
  the stamp and is set back once; three ids show two of one worker and one of
  another, or a sequence that is used up and started over. `Garbage` = {2} is a value
  the clock reaches.
* `standalone`, other parts: the hash has four names, two with equal hashes, hashes
  up to 4, weights up to 2 and tables of up to three nodes, so that sums wrap and
  scores tie. Three Connects let a third follow a replaced one, and a close is
  reported up to twice. The pool has three threads (a first, a middle, a last), three
  connections, two servers, `MaxRegs = 2` registrations in the list of a thread and
  one message.
* `lifecycle`, `conn_group`: 18 thread configurations, five "services" arrays and two
  registration lists, chosen to hold a missing group, the "conn" key, a size of 0, a
  name used twice by clients, by a server and a client, a missing name and an
  unknown type.
* `json`, text: seven shapes of input, each with a few bytes per place, for
  structure, members, numbers, literals, byte order marks, UTF-8 and escapes, also
  cut off anywhere; a refused input is continued by each of 25 tails, the ends of
  everything that can be open; and twenty values written in ASCII or UTF-8, compact
  and with indentations of 0 and 3. The integer types end at 15 and -8
  (`UnsignedMax`, `NegativeMax`), a double at 10^9 (`MaxExponent`), `string_buffer` at
  16 bytes (`BufferSize`), so that two digits, or one string, pass the edge.
* `json`, values: eleven values, edited up to twice, and some hundred letters
  around every limit of a width or a length in six formats, and in CBOR as other
  programs write it; each cut at every byte or with a byte added.

Symmetry (of connections, servers and threads, where they are interchangeable) is
used in runs without liveness properties only. `CHECK_DEADLOCK FALSE` appears
where the system may really stop: after a crash, when all fetches or requests
are over, when an input is read, a bound is used up or the process has ended.
`conn` is checked for deadlock, since a connection can always be closed again.

### Fairness

* `clients`: a thread inside SendIOBuf goes on (weak, `SendSteps`: a mutex that
  stays free is granted), a posted task runs and a due timer fires (weak; the
  event base loops), and an attempt that is made again and again succeeds some
  day (strong; an assumption about the peer, without which no client could
  promise to connect). Nothing is assumed of Stop, of losing connections or of
  the sends themselves.
* `http`: a ready fiber runs and a task ends, the transaction of a sent response
  completes or fails (weak, per request); the timer of a wait fires, a blocked
  thread goes on when its wait is over, and proxygen ends every attempt and
  transaction (weak, per fetch; its timeouts). onError is never forced, and
  neither are requests or fetches.
* `lifecycle`: the main thread goes on (weak); the Stop of a client is a step of it
  only while its event base does not wait. Signals, callbacks that wait and late
  uses are never forced.

## 4. The proofs

Eight modules hold the proofs. Each theorem holds for every value of the constants
that satisfies the named assumptions of its modules, which TLC evaluates on their runs.

| Module | Theorem | Property |
|---|---|---|
| `ConnManagerProofs` | `Invariance` | `IInv`, the inductive invariant |
| | `TypeCorrect` | `TypeOK` |
| | `RegistryIsExact` | `RegistryExact` |
| | `LiveIdsAreUnique` | `LiveIdsUnique` |
| | `RemovalOnlyByOwnClose` | `RemovedByOwnClose` |
| | `WritesReachOpenOnly` | `WritesOnlyToOpen`: a posted write, however late, finds an open transport or nothing |
| | `SendsReachTheirOwn` | `MisdeliveredOnlyAfterWrap` |
| | `ManagerImplementsDirectory` | `ImplementsDirectory`: ConnManager implements ConnDirectory |
| | `AllocationTerminates` | `AllocationEnds` |
| | `ReuseAfterWrap` | `IdReusedOnlyAfterWrap` |
| | `SenderOrder` | `SenderOrderKept` |
| `TcpClientGroupProofs` | `Invariant`, `TypeCorrect` | `IInv`, `GTypeOK` |
| | `ClientHasOneAttempt` | `OneAttempt` |
| | `ConnectedTellsTruth` | `ConnectedIsUp` |
| | `GroupImplementsChannel` | `ImplementsChannel`: TcpClientGroup implements LossyChannel |
| `HttpRequestProofs` | `Invariant`, `TypeCorrect` | `IInv`, `HrTypeOK` |
| | `ReferencesCounted` | `RefCountExact` |
| | `FiberDataKept` | `FiberDataExact` |
| | `ReplyNotLost` | `NoneOnlyAfterTimeout` |
| | `OneCallback` | `CallsBackOnce` |
| | `RepliesWhole` | `ReplyWhole` |
| | `LateReplyHarmless` | `ReturnedIsFinal` |
| | `ChainKept` | `ChainIsOwn` |
| | `AnswersOnce` | `AnsweredOnce` |
| `StandaloneProofs` | `SfInvariant`, `SfTypeCorrect` | `SfInv`, `SfTypeOK` |
| | `IdsGrow` | `IdsOrdered` |
| | `WorkersDiffer` | `IdsUnique` |
| | `StInvariant` | `StInv` |
| | `ClientTellsTruth` | `ConnectedTruthful` |
| | `BehavesAsParts` | Standalone implements Snowflake, RendezvousHash, SimpleTcpClient and IOThreadPool |
| | `PartsKeepPromises` | what is proved of the four parts, of Standalone |
| `RendezvousHashProofs` | `KeysStayPut` | `KeysStay` |
| `JsonParserProofs` | `ParserRefsValid` | `RefsValid` |
| `IOThreadPoolProofs` | `Invariant`, `TypeCorrect` | `IInv`, `PoolTypeOK` |
| | `TablesKept` | `TablesAgree` |
| | `WritesOnce` | `WrittenOnce` |
| | `ReachesStaying` | `StayingReached` |
| `ServerLifecycleProofs` | `Invariant` | `IInv` |
| | `HighHalfRoutes` | `ThreadIdsRoute` |
| | `StartsConfigured` | `ConfiguredIsStarted` |

Every proof has the same outline: an inductive invariant that TLC checked on the
instance of the run first, one lemma per action (or per handler that several
actions call), their combination, and the property as a consequence of the
invariant. An action property follows from the invariant and the step.

**Connections** (`ConnManagerProofs`). `RegistryExact` alone is not inductive.
Whether `OnConnectionClosed`, which erases by id and never looks at the pipeline
it is passed, removes the right entry depends on the handler still holding the
id it was registered under, and on its being registered exactly while it is in
kConnected. So the invariant is

    IInv == TypeOK /\ HandlerLifecycle /\ RegistryExact

where `HandlerLifecycle` ties the state, the socket, the id and the thread of a
handler together: no id before kConnected, an id that names the home thread
afterwards, and the one connected handler without an id is the one whose
OnNewConnection is running. With it, an insert only fills a free slot, a close in
kConnected only frees the handler's own slot, and every later close touches no
table. Uniqueness follows: two connected handlers with the same id would both be
the content of one slot.

The refinement maps `live` to the ids of connected handlers and `gone` to the
handlers in kClosed. The last iteration of OnNewConnection is `Open`, whose
guard (no other connection has the id) is the free slot plus `RegistryExact`; a
first close is `Close`; a task that finds a pipeline is `Receive`, with the close
inside a failing write; everything else is a stutter. The lemma `TasksStayHome` (a
task is at the thread its id names) is needed so that the pipeline found under the
low half of the id is the owner of the whole id.

**Ids and messages** (also `ConnManagerProofs`), on top of `IInv`. Three independent
strengthenings, and one that combines them:

* `OpenBound`: a thread has at most `MaxLive` open connections. While a pipeline
  waits for its id, the entries of the registry are an injection from the ids in
  use to the other open connections, so the `IdSpace - 1` ids of a turn are
  not all taken. This theorem alone uses `MaxLiveAssumption` (fewer open connections
  than ids; in the code, fewer than 2^32 sockets).
* `AgeInv`: where the counter of a thread stands, given the id of a connection and
  the number of iterations since it was given out. The counter is at that id
  again only after `IdSpace - 1` iterations, and 0 and 1 leave the same counter,
  since the step over zero registers 0.
* `SendInv`: a message is in the queue of its sender's kind at the thread its id
  names, a queue is in the order of sending, and what was written comes before
  what is queued. One sender uses one queue per connection, so the interleaving
  of an event base's two queues does not matter.
* `OutlivedInv`: of two connections with one id, a connected one is the younger and
  the other is closed and a full turn old. With `SendInv` and `RegistryExact` this is
  `MisdeliveredOnlyAfterWrap`: what a late send finds under its id is the addressee,
  or the addressee has been outlived.

**TCP clients** (`TcpClientGroupProofs`). `OneAttempt` says nothing of a client
before Start or after Stop, and a step from there could lead anywhere; `Phase`
completes it (`client_` is there until Stop, no timer and no pipeline before
Start). A crash needs a stopped client, which is what `ConnectedIsUp` also says.
The refinement needs the rest of

    IInv == GTypeOK /\ LinkInv /\ CallInv /\ MsgInv

A message is followed through the call (`CallLast`: later than all its sender has
queued or written at a client still ahead; `SingleInCall`: nowhere else yet),
the queue (`Placed`, `QueueOrder`, `SingleQueued`) and the write (`WrittenFirst`). A
write is `Deliver` of LossyChannel, the beginning of a call is `Send`, everything
else, Stop and the crashes included, is a stutter.

**HTTP** (`HttpRequestProofs`). The proofs are about the composition HrSpec, so
they hold for fetches made by fibers, by callbacks and by blocking callers
together. `IInv == HrTypeOK /\ HcInv /\ ChainInv /\ OwnerInv`. For one fetch,
`FetchInv` relates the reference count, the state of the connection, what came
of the reply, what was handed out and how often; for the fiber ids, `IdInv`
bounds how many ids were given out since the id of a fetch was taken, so that
`AllocFiberData` never meets an id in use. It rests on `FewFetchesAssumption`: a
behaviour makes fewer fetches than there are ids. The code bounds the fetches
during one wait instead (two seconds against 2^32 ids), and the assumption is
the form of this that a model without time has; from where the counter starts
is free (`FirstIds`). `ChainInv` says that a suspended fiber waits in a fetch of its
own that saved its chain; `OwnerInv` that a handler owns itself from onEOM to
requestComplete or onError.

**Snowflake** (`StandaloneProofs`). Ids are compared by fields of limited width, so
the invariant speaks of times and numbers before they are cut (`OrderInv`,
`WorkerInv`: no id of the present epoch is later than `last_timestamp_`, and those
of that millisecond have no larger sequence number, unless it started over),
and `StampOrder` and the lemmas around it bring the residues in. As long as no more
workers were made for threads (`made`, *history*) than `g_thread_id` has values, their
numbers are distinct and below `made` (`NumberInv`); numbers less than `SlotSpace`
apart have distinct residues. Against the static worker this leaves the case that
`made` exceeds its field.

**SimpleTcpClient** (`StandaloneProofs`). `ConnectedTruthful` needs that only the
bootstrap's present pipeline is connecting or up (`CurrentInv`), that nothing was
reported of it before (`ReportInv`), and that its manager is the client, without
which no callback resets `connected_` (`ManagerInv`).

**Thread pool** (`IOThreadPoolProofs`). `TaskInv`: a message for one receiver is at one
event base, unwritten; `StayInv`: a registered server that stays either was
reached or the message is still at its thread or before it. The latter is why
`DispatchIOBufByIdx` must go through the threads in order.
`PoolRequestAssumption` only separates `None` from requests.

**Process** (`ServerLifecycleProofs`). What runs depends on a chain of tables, and the
invariant says of each what it holds by the time the main thread is at a given
place: `GroupInv` (thread groups from options), `FactoryInv` (factories from groups
and registrations), `StartInv` (services from factories, up to the position Start
has reached), `NameInv` (what Stop finds). `RouteInv` is `ThreadIdsRoute` with what
makes the lookup defined. `ServiceArraysAssumption` says that the items of an array
are objects with texts under some of the two keys, from which `ConfigsArePairs`
concludes what ToServiceConfigs makes of them; `FactoryListsAssumption` that the
application registers pairs of name and type; `NoServiceAssumption` that `None` is no
set of positions.

The run `standalone` checks the id generator, the client, the pool and
RendezvousHash side by side. While one part moves the others stutter, so a behaviour of Standalone is one of each part
(`BehavesAsParts`), and what is proved of the parts holds there
(`PartsKeepPromises`).

**RendezvousHash** (`RendezvousHashProofs`). The names of a list are distinct (`RhInv`),
and a step keeps the order of the names that stay (`SameOrder`). The rest is about
two tables. `NoMore` compares the scores of two nodes, also of different tables. It
is total; it is transitive, which is proved by raising both comparisons to the
weight of the other node and taking a root (`AtMostTransitive`); and more weight
never scores less, since a hash is at most `MaxHash` (`AtMostGains`). Then `Get`
has a result, the first of the best nodes (`GetBest`). If a key moves from node f
to node g, though f lost no weight and g gained none, then

    g now <= g before <= f before <= f now <= g now

so all four scores are equal and the position decides, the same way in both
tables (`StaysBetween`). The provers know nothing of powers: the laws used here are
proved from the recursive definition, each by a least counterexample (`Induct`).
That `Mix` is a permutation is not used.

**json parser** (`JsonParserProofs`). `RefsValid` says that a pointer is the place of a
container inside the container below it, and the place that `key` prepared. It
is not inductive: nothing in it ties `ref_stack` to `states`, which decides whether
a token closes an array or an object, or says what is under construction. So

    IInv == LexTyped /\ DomTyped /\ (at \notin {"accepted", "rejected"} => Reading)

where `Reading` says, at each point of `sax_parse_internal`, that `ref_stack` is a
`Chain` through the value: as long as the stack of open containers, entry i at
depth i - 1, with a container of the type that `states` names; and that an array's
content is a sequence, so that `push_back` adds behind its end. `ChainPut` is the
core: writing at or below the top of the stack leaves every pointer below valid,
because they are prefixes of it. `NullPtrAssumption` separates a null pointer from
a position. The theorem is about `ParseSpec`, whose inputs are all shapes of bytes;
a behaviour of the run `json` that reads a text is one of them beside variables that
stay.

Counters that only bound the instances (`MaxMsgs`, `MaxFetches`, `MaxConnects`,
`MaxIds`, `MaxRegs`) are arbitrary naturals in the theorems.

## 5. Findings

Six runs show the code doing something a comment in the repository rules out.

* `conn_zero`: OnNewConnection (`net/thread_local_conn_manager.cc:16`) notices
  that `conn_id` became 0 and increments the counter, but registers and returns
  0. The comment above says "保证conn_id不为0" (keep conn_id different from 0).
* `client_stop`: TcpClient::Stop resets `client_` but leaves a pending reconnect
  timer, which dereferences it (`net/server/tcp_client.cc:64`);
  `tcp_client_group.h:26` promises "可运行时新增和减少连接" (connections can be added
  and removed at run time).
* `group_deadlock`: TcpClientGroup::Stop waits for event bases while it holds the
  mutex (`net/server/tcp_client_group.cc:96`); a callback there that sends to the
  group waits for the mutex. The header of the group is titled "线程安全的保证" (the
  guarantee of thread safety).
* `http_freed`: the task of onEOM uses members of the handler before it locks the
  weak pointer (`net/rabbit_http_request_handler.cc:23`); an onError between
  addTask and the start of the fiber destroys the handler. The comment places the
  check only after OnHttpHandler.
* `http_headers`: OnHeadersComplete stores the headers, and an OnError after it only
  sets the result (`net/server/http_client.cc:242`), so the callback gets headers with
  HTTP_ERROR; `http_client.h:20` says "为0时headers和body才会设置值" (headers and body are
  set only when it is 0). `ReplyWhole` states what a caller does find.
* `conn_group`: with the "conn" thread group no service starts, because SetConf drops
  "accept" and "client" and MakeThreadGroup makes no threads of that type
  (`net/thread_group_list_manager.cc:104`); `thread_group_list_manager.h:37` describes it
  as the mixture of accept and client threads. `ConfiguredIsStarted` leaves this
  configuration out.

The passing runs keep these behaviours. `MessageSettles` and `Reconnects` say that
Stop is the only cause of the second and third, `ShutdownCompletes` names both as
what may keep a process from ending, and `AnsweredOnce` holds in spite of the fourth.

Further disagreements, met while modelling and kept in the models, without a run
of their own:

* A message to a group may be dropped although some client is connected, because
  the random pick does not look at `connected()`
  (`net/server/tcp_client_group.cc:66`); `tcp_client_group.h:21` speaks of dropping
  when no connection is available.
* Snowflake ids may collide (`snowflake_id_util.h:26` says they do not): the
  sequence of a millisecond starts over since tilNextMillis is given
  `sequence_number_`; the 25 bit stamp turns after about nine hours (the header
  describes 41 bits); thread numbers 32 apart share a field, and after 2^16 threads
  the numbers themselves come again; and the static worker has the number of a
  thread when there are more threads than its `data_center_id`, 1 by default
  (`base/snowflake_id_util.cc:140`). `IdsOrdered` and `IdsUnique` except these cases.
* A service without a `service_name` has the empty name (ServiceConfig::SetConf,
  `base/config_util.cc:11`); `net/base/service_base.h:21` has it default to the
  type.
* `GetEventBaseByThreadType` uses an index within a group as an index into all
  threads (`net/thread_group_list_manager.cc:181`); it has no caller.
* A request that fails before onEOM leaves its handler undeleted, since `self` is
  not set yet.
* When the bind of one server throws, `Root::Run` returns without stopping the
  services that were started before it.
* SimpleTcpClient: `connected_` stays true when Connect replaces a pipeline that
  is up, or when the application closes or connects inside OnNewConnection
  (`net/server/simple_tcp_client.cc:19` sets it afterwards); a Connect inside
  OnConnectionClosed fails the CHECK in line 69. When OnDataArrived returns -1 the
  log line reads the length of the message that was moved away
  (`net/simple_conn_handler.cc:24`), before the close its comment announces
  ("直接关闭", close directly). A client destroyed while it connects still reports
  the error. `ConnectedTruthful` names these cases.
* json: the parser with a callback may leave members of type `discarded` in an
  object (only the first is removed, and only at the end of an object inside
  it). `flatten().unflatten()` does not give back an object whose first pointer
  leads to a member called 0 but an array, which its documentation
  (`json.hpp:18210`) does not except; `UnflattenUndoesFlatten` leaves the case out. A
  patch that adds below a primitive value reaches `assert(false)`.
  `operator==` takes a large unsigned number for a negative one. In CBOR a length
  of 2^64 - 1 is taken for an open one, in UBJSON a size of -1 for none, and a
  negative string length gives the empty string.

## 6. Only model-checked

* Every liveness property (`MessageSettles`, `Reconnects`, `FetchReturns`,
  `RequestAnswered`, `ShutdownCompletes`): proofs under fairness are outside what
  the installed prover does.
* What the json library makes of whole texts and values (`ParsesGrammar`,
  `WriteReadBack`, `PatchUndoesDiff`, `UnflattenUndoesFlatten`, `BinaryRoundTrip`). These
  compare recursive operators over texts and values, so they need an induction over
  data for each, and the prover loses its SMT backend in a module that
  reaches a RECURSIVE operator. A least counterexample, as in RendezvousHashProofs,
  replaces induction over numbers where the recursion is a recursive function over
  an interval (`At`, `Put`, `Power`); the reference grammar and the serializer are
  mutually recursive over values and have no such form.

## 7. Abstractions

Bytes, urls, headers, addresses and log lines are left out or reduced to the
distinction that matters (a url is valid or not, a reply has headers or not).
Connect and wait times are nondeterministic. The event base, folly's baton and
queues, wangle's bootstraps and proxygen's sessions are modelled from the way
the code uses them. A 64 bit id is kept as its fields.

`HttpClient` and `HttpRequest` cover one thread, because all their state is
confined to one. The static snowflake worker is documented as not thread safe;
its callers are taken one after the other.

The scores of RendezvousHash are compared exactly: rounding and underflow of
double are left out. In the json modules a floating-point number is its text or
its bytes; the indentation string is taken to be long enough (the code doubles it
once when it is not); allocation never fails.

## 8. Not modelled

* TcpServerT and the templated pipelines: the same code over a type parameter.
* UDP classes: they have no members. Logging, time and string utilities:
  formatting and I/O.
* Of the json library: the conversion of doubles to text (Grisu2), wide character
  input, merge_patch, iterators, conversions to and from C++ types, and the order
  of values. None keeps state across calls.
* The bootstrap list of HTTPServerLib; the Start and Stop of ServiceRouterManager,
  which nothing calls; typed access to the configuration.
* The race of `Lookup` with Start (`net/service_manager.cc:178`): an unordered_map
  read and written without a lock has no outcome a model could enumerate.
* The two compile-time variants of FiberDataManager that the build does not
  enable (FIBER_OBJ_POOL, USE_TIMEOUT_HANDLER).

## 9. Plan

Done: ConnDirectory and ConnManager; LossyChannel, TcpClient and TcpClientGroup;
HttpClient composed with HttpRequest; Snowflake, SimpleTcpClient and
RendezvousHash; IOThreadPool; ThreadGroups and ServerLifecycle; the json library;
and the theorems of section 4.

Left, in this order:

1. Facts the theorems suggest and no run asks yet, where they say something of the
   code: how long a stopped client may still write, and which requests a failing
   fetch leaves behind.
2. Of the json library: that `dump_escaped` of one string is read back by the lexer
   for every string, the first step towards `WriteReadBack`.
3. HTTPServerLib: several addresses, a bind that fails, stop.
