------------------------------ MODULE TcpClient ------------------------------
(***************************************************************************)
(* TcpClient: an outgoing connection that reconnects for ever, pinned to   *)
(* one event base, with sends posted to that event base from any thread.   *)
(*                                                                         *)
(* The callbacks of an event base are atomic steps.  ClientBootstrap2 is   *)
(* part of the model: connect() replaces pipeline_, and its ConnectCallback *)
(* runs either connectSuccess or connectErr.                               *)
(* An event base keeps what its own callbacks post (loop) apart from what  *)
(* other threads post (notify) and serves the two in no fixed order.       *)
(* Dereferencing client_ after Stop has reset it is the state crashed.     *)
(***************************************************************************)
EXTENDS Naturals, Sequences

CONSTANTS
    Clients,    \* the TcpClient objects
    Evbs,       \* event bases
    EvbOf,      \* the event base each client is pinned to
    MaxMsgs     \* bound: messages sent

ASSUME EvbOfAssumption == EvbOf \in [Clients -> Evbs]
ASSUME MaxMsgsAssumption == MaxMsgs \in Nat

VARIABLES
    started,    \* Start has been called
    client,     \* client_ is not null
    stoped,     \* stoped_
    connected,  \* connected_
    pipeline,   \* client_->getPipeline() is not null
    transport,  \* the socket below that pipeline
    timers,     \* pending runAfterDelay callbacks that call DoConnect
    tasks,      \* the queues of posted sends of each event base
    blocked,    \* event bases whose current callback waits for something
    crashed,    \* client_ was dereferenced when null, or a CHECK failed
    posted,     \* history: number of messages sent so far
    wrote       \* history: the messages each client wrote, in order

linkVars   == <<started, client, stoped, connected, pipeline, transport, timers>>
clientVars == <<linkVars, tasks, blocked, crashed, posted, wrote>>

Queues == {"loop", "notify"}

LinkTypeOK ==
    /\ started \in [Clients -> BOOLEAN]
    /\ client \in [Clients -> BOOLEAN]
    /\ stoped \in [Clients -> BOOLEAN]
    /\ connected \in [Clients -> BOOLEAN]
    /\ pipeline \in [Clients -> BOOLEAN]
    /\ transport \in [Clients -> {"none", "connecting", "up"}]
    /\ timers \in [Clients -> Nat]
    /\ crashed \in BOOLEAN

TcTypeOK ==
    /\ LinkTypeOK
    /\ tasks \in [Evbs -> [Queues -> Seq([client : Clients, n : 1 .. MaxMsgs])]]
    /\ blocked \subseteq Evbs
    /\ posted \in 0 .. MaxMsgs
    /\ wrote \in [Clients -> Seq(1 .. MaxMsgs)]

TcInit ==
    /\ started = [c \in Clients |-> FALSE]
    /\ client = [c \in Clients |-> TRUE]
    /\ stoped = [c \in Clients |-> FALSE]
    /\ connected = [c \in Clients |-> FALSE]
    /\ pipeline = [c \in Clients |-> FALSE]
    /\ transport = [c \in Clients |-> "none"]
    /\ timers = [c \in Clients |-> 0]
    /\ tasks = [e \in Evbs |-> [q \in Queues |-> << >>]]
    /\ blocked = {}
    /\ crashed = FALSE
    /\ posted = 0
    /\ wrote = [c \in Clients |-> << >>]

\* The event base of c can run a callback; nothing runs after a crash.
EvbFree(c) == ~crashed /\ EvbOf[c] \notin blocked

\* The state of the socket below the current pipeline.
Connecting(c) == pipeline[c] /\ transport[c] = "connecting"
Up(c)         == pipeline[c] /\ transport[c] = "up"

-----------------------------------------------------------------------------
(* Connecting                                                               *)

\* TcpClient::DoConnect calls ClientBootstrap2::connect: a new socket starts to
\* connect and pipeline_ is replaced.  pipeline_ is the only owner, so the old
\* pipeline is destroyed, with its socket, and calls back no more.
DoConnect(c) ==
    \/ /\ client[c]
       /\ pipeline' = [pipeline EXCEPT ![c] = TRUE]
       /\ transport' = [transport EXCEPT ![c] = "connecting"]
       /\ UNCHANGED crashed
    \/ /\ ~client[c]
       /\ crashed' = TRUE
       /\ UNCHANGED <<pipeline, transport>>

\* TcpClient::Start, called once by ServiceManager::Start.
Start(c) ==
    /\ EvbFree(c)
    /\ ~started[c]
    /\ started' = [started EXCEPT ![c] = TRUE]
    /\ DoConnect(c)
    /\ UNCHANGED <<client, stoped, connected, timers, tasks, blocked, posted, wrote>>

\* ConnectCallback::connectSuccess: transportActive, then the then() of
\* DoConnect, which makes the client the pipeline's manager.
ConnectSuccess(c) ==
    /\ EvbFree(c)
    /\ Connecting(c)
    /\ transport' = [transport EXCEPT ![c] = "up"]
    /\ connected' = [connected EXCEPT ![c] = TRUE]
    /\ UNCHANGED <<started, client, stoped, pipeline, timers, tasks, blocked,
                   crashed, posted, wrote>>

\* Fault: the error is logged and nothing is armed.
ForgetfulConnectError(c) == UNCHANGED <<timers, crashed>>

\* The onError() of DoConnect: a reconnect timer, armed without looking at
\* stoped_.  client_ is dereferenced to reach the event base.
OnConnectError(c) ==
    \/ client'[c]  /\ timers' = [timers EXCEPT ![c] = @ + 1] /\ UNCHANGED crashed
    \/ ~client'[c] /\ crashed' = TRUE /\ UNCHANGED timers

\* ConnectCallback::connectErr: refused, unreachable or timed out.
ConnectErr(c) ==
    /\ EvbFree(c)
    /\ Connecting(c)
    /\ transport' = [transport EXCEPT ![c] = "none"]
    /\ UNCHANGED <<client, started, stoped, connected, pipeline, tasks, blocked, posted, wrote>>
    /\ OnConnectError(c)

\* The reconnect timer fires, RECONNECT_TIMEOUT after it was armed.
ReconnectTimeout(c) ==
    /\ EvbFree(c)
    /\ timers[c] > 0
    /\ timers' = [timers EXCEPT ![c] = @ - 1]
    /\ DoConnect(c)
    /\ UNCHANGED <<started, client, stoped, connected, tasks, blocked, posted, wrote>>

-----------------------------------------------------------------------------
(* Losing the connection                                                    *)

\* Fault: connected_ is not cleared.
StaleDeletePipeline(c, stop) ==
    /\ UNCHANGED connected
    /\ crashed' = ~pipeline[c]
    /\ timers' = [timers EXCEPT ![c] = IF stop THEN @ ELSE @ + 1]

\* TcpClient::deletePipeline: clears connected_, checks that it is called for
\* the bootstrap's pipeline, and arms a reconnect timer unless stopped.  Only a
\* pipeline that exists calls it, and at most one does: getPipeline() is the
\* caller or null.
DeletePipeline(c, stop) ==
    /\ connected' = [connected EXCEPT ![c] = FALSE]
    /\ crashed' = ~pipeline[c]
    /\ timers' = [timers EXCEPT ![c] = IF stop THEN @ ELSE @ + 1]

\* ConnHandler::close: fireClose makes the socket handler close the socket and
\* call deletePipeline.
ClosePipeline(c) ==
    /\ transport' = [transport EXCEPT ![c] = "none"]
    /\ DeletePipeline(c, stoped[c])
    /\ UNCHANGED <<started, client, stoped, pipeline>>

\* The peer closes or the connection fails.
ConnectionLost(c) ==
    /\ EvbFree(c)
    /\ Up(c)
    /\ ClosePipeline(c)
    /\ UNCHANGED <<tasks, blocked, posted, wrote>>

\* TcpClient::Stop, run on the event base while the caller waits.  A connected
\* pipeline is closed first; client_.reset() then destroys the bootstrap, and
\* with it a socket that is still connecting, whose connectErr runs onError.
Stop(c) ==
    /\ EvbFree(c)
    /\ started[c] /\ client[c]
    /\ stoped' = [stoped EXCEPT ![c] = TRUE]
    /\ client' = [client EXCEPT ![c] = FALSE]
    /\ transport' = [transport EXCEPT ![c] = "none"]
    /\ pipeline' = [pipeline EXCEPT ![c] = FALSE]
    /\ \/ /\ connected[c]
          /\ DeletePipeline(c, TRUE)
       \/ /\ ~connected[c]
          /\ Connecting(c)
          /\ OnConnectError(c)
          /\ UNCHANGED connected
       \/ /\ ~connected[c]
          /\ ~Connecting(c)
          /\ UNCHANGED <<connected, timers, crashed>>
    /\ UNCHANGED <<started, tasks, blocked, posted, wrote>>

-----------------------------------------------------------------------------
(* Sending                                                                  *)

\* TcpClient::SendIOBufThreadSafe on thread k, message number n.
SendIOBufThreadSafe(k, c, n) ==
    \/ /\ client[c]
       /\ tasks' = [tasks EXCEPT
                      ![EvbOf[c]][IF k = EvbOf[c] THEN "loop" ELSE "notify"] =
                          Append(@, [client |-> c, n |-> n])]
       /\ UNCHANGED crashed
    \/ /\ ~client[c]
       /\ crashed' = TRUE
       /\ UNCHANGED tasks

\* client_->getPipeline()->write of message m.  The write may fail the socket,
\* whose error callback closes the pipeline before write returns.
WriteTo(c, m) ==
    /\ wrote' = [wrote EXCEPT ![c] = Append(@, m.n)]
    /\ \/ /\ crashed' = (~client[c] \/ ~pipeline[c])
          /\ UNCHANGED linkVars
       \/ /\ client[c] /\ pipeline[c]
          /\ ClosePipeline(c)

\* The posted lambda: writes if the client is connected when it runs, and calls
\* the sender back after the write if it gave a callback.
RunSend(e, q) ==
    /\ ~crashed /\ e \notin blocked
    /\ tasks[e][q] # << >>
    /\ tasks' = [tasks EXCEPT ![e][q] = Tail(@)]
    /\ LET m == Head(tasks[e][q])
       IN  \/ /\ connected[m.client]
              /\ WriteTo(m.client, m)
           \/ /\ ~connected[m.client]
              /\ UNCHANGED <<linkVars, wrote, crashed>>
    /\ UNCHANGED <<blocked, posted>>

-----------------------------------------------------------------------------
EventLoop(c) ==
    \/ ConnectSuccess(c)
    \/ ConnectErr(c)
    \/ ReconnectTimeout(c)
    \/ ConnectionLost(c)

\* Clients on their own, without messages.
TcNext == \E c \in Clients : Start(c) \/ EventLoop(c) \/ Stop(c)

TcSpec == TcInit /\ [][TcNext]_clientVars

-----------------------------------------------------------------------------
(* Properties                                                               *)

\* A running client is in exactly one phase: connected, one attempt under way,
\* or one timer armed.  No path through connectErr, deletePipeline and the
\* timers starts a second attempt beside the first or forgets to retry.
OneAttempt ==
    \A c \in Clients :
        started[c] /\ ~stoped[c] =>
            /\ timers[c] <= 1
            /\ \/ Up(c) /\ timers[c] = 0
               \/ Connecting(c) /\ timers[c] = 0
               \/ ~Up(c) /\ ~Connecting(c) /\ timers[c] = 1

\* connected_ is true exactly while the current pipeline is up: a send that
\* looks at it never writes into a pipeline whose socket is gone.  client_ or
\* the pipeline is missing where it is used only once a client has been stopped.
ConnectedIsUp ==
    /\ crashed  => \E c \in Clients : stoped[c]
    /\ ~crashed => \A c \in Clients : connected[c] <=> Up(c)

\* "Connections can be added and removed at run time" (comment of the client
\* group): a reconnect timer that was armed before Stop does no harm when it
\* fires after it.
StopIsSafe == [][\A c \in Clients : ReconnectTimeout(c) => ~crashed']_clientVars
=============================================================================
