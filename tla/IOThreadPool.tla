---------------------------- MODULE IOThreadPool -----------------------------
(***************************************************************************)
(* IOThreadPoolConnManager behind ServiceRouterManager: every IO thread    *)
(* has an IOThreadConnManager with its connections, and peers register     *)
(* themselves as servers on the connection they came in by.  A message for *)
(* a server does not know the thread of that connection: it is posted to   *)
(* thread 0 and hops from event base to event base until one of them       *)
(* writes it; meanwhile connections come, register and go.                 *)
(*                                                                         *)
(* The ids of one thread are allocated as in module ConnManager, where     *)
(* live ids are shown to be unique; here a connection is its own id.       *)
(* Tasks of an event base run in any order, which covers its two queues.   *)
(***************************************************************************)
EXTENDS Naturals

CONSTANTS
    NumThreads,   \* size of the pool
    Conns,        \* connections
    Services,     \* names of the local services
    ServiceOf,    \* the service whose pipeline factory made the connection
    Servers,      \* <server_name, server_number> of peers
    None,
    MaxMsgs,      \* bound: messages dispatched
    MaxRegs       \* bound: position of a registration in the list of its thread

Threads == 0 .. NumThreads - 1
Msgs    == 1 .. MaxMsgs

ASSUME PoolAssumption    == NumThreads \in Nat \ {0} /\ MaxMsgs \in Nat /\ MaxRegs \in Nat
ASSUME ServiceAssumption == ServiceOf \in [Conns -> Services]
ASSUME PoolNoneAssumption == None \notin Conns \cup Servers \cup Threads

VARIABLES
    home,              \* the thread of each connection, None before it opens
    open,              \* connections whose transport is open
    pipelines,         \* pipelines_ of each thread
    servicePipelines,  \* service_pipelines_ of each thread
    serverConns,       \* server_conns_ of each thread, numbered in list order
    tasks,             \* messages posted to each event base
    request,           \* what each message was dispatched for
    written,           \* history: how often each message was written to a connection
    staying,           \* history: possible receivers since its dispatch, still there
    failed,            \* history: messages a write of which closed a connection
    crashed

tableVars == <<pipelines, servicePipelines, serverConns>>
connVars  == <<home, open, tableVars>>
msgVars   == <<tasks, request, written, failed, crashed>>
poolVars  == <<connVars, msgVars, staying>>

Registrations == [server : Servers, conn : Conns, n : 1 .. MaxRegs]
Requests ==
    [kind : {"conn"}, to : Conns] \cup [kind : {"server"}, to : Servers]
        \cup [kind : {"all"}, to : {None}]

ASSUME PoolRequestAssumption == None \notin Requests

PoolTypeOK ==
    /\ home \in [Conns -> Threads \cup {None}]
    /\ open \subseteq Conns
    /\ pipelines \in [Threads -> SUBSET Conns]
    /\ servicePipelines \in [Threads -> [Services -> SUBSET Conns]]
    /\ serverConns \in [Threads -> SUBSET Registrations]
    /\ tasks \in [Threads -> SUBSET Msgs]
    /\ request \in [Msgs -> Requests \cup {None}]
    /\ written \in [Msgs -> [Conns -> Nat]]
    /\ staying \in [Msgs -> SUBSET Conns]
    /\ failed \subseteq Msgs
    /\ crashed \in BOOLEAN

PoolInit ==
    /\ home = [p \in Conns |-> None]
    /\ open = {}
    /\ pipelines = [i \in Threads |-> {}]
    /\ servicePipelines = [i \in Threads |-> [s \in Services |-> {}]]
    /\ serverConns = [i \in Threads |-> {}]
    /\ tasks = [i \in Threads |-> {}]
    /\ request = [m \in Msgs |-> None]
    /\ written = [m \in Msgs |-> [p \in Conns |-> 0]]
    /\ staying = [m \in Msgs |-> {}]
    /\ failed = {}
    /\ crashed = FALSE

Pipelines == UNION {pipelines[i] : i \in Threads}
RegisteredAs(s) ==
    {p \in Conns : \E i \in Threads : \E r \in serverConns[i] : r.server = s /\ r.conn = p}

\* push_back on the list of thread i gives position n; erasing leaves the order
\* of the others.
LastIs(i, n) ==
    /\ \A r \in serverConns[i] : r.n < n
    /\ n = 1 \/ \E r \in serverConns[i] : r.n + 1 = n

-----------------------------------------------------------------------------
(* Connections, on the event base of their thread                           *)

\* OnNewConnection of the pool, which looks for the manager of the pipeline's
\* event base, and of that manager.
OnNewConnection(p, i) ==
    /\ ~crashed
    /\ home[p] = None
    /\ home' = [home EXCEPT ![p] = i]
    /\ open' = open \cup {p}
    /\ pipelines' = [pipelines EXCEPT ![i] = @ \cup {p}]
    /\ servicePipelines' = [servicePipelines EXCEPT ![i][ServiceOf[p]] = @ \cup {p}]
    /\ UNCHANGED <<serverConns, msgVars, staying>>

\* OnServerRegister: a second registration is logged and appended as well.
OnServerRegister(p, s) ==
    /\ ~crashed
    /\ p \in open
    /\ \E n \in 1 .. MaxRegs :
          /\ LastIs(home[p], n)
          /\ serverConns' = [serverConns EXCEPT ![home[p]] =
                                 @ \cup {[server |-> s, conn |-> p, n |-> n]}]
    /\ UNCHANGED <<home, open, pipelines, servicePipelines, msgVars, staying>>

\* Fault: only the first registration of the connection is erased.
OnceConnectionClosed(p) ==
    LET i == home[p]
        own == {r \in serverConns[i] : r.conn = p}
    IN  /\ open' = open \ {p}
        /\ pipelines' = [pipelines EXCEPT ![i] = @ \ {p}]
        /\ servicePipelines' = [servicePipelines EXCEPT ![i][ServiceOf[p]] = @ \ {p}]
        /\ serverConns' = [serverConns EXCEPT ![i] =
               {r \in @ : r.conn = p => \E q \in own : q.n < r.n}]

\* OnConnectionClosed: the id is erased from both maps, then every
\* registration of the pipeline, starting over after each erase.
OnConnectionClosed(p) ==
    LET i == home[p]
    IN  /\ open' = open \ {p}
        /\ pipelines' = [pipelines EXCEPT ![i] = @ \ {p}]
        /\ servicePipelines' = [servicePipelines EXCEPT ![i][ServiceOf[p]] = @ \ {p}]
        /\ serverConns' = [serverConns EXCEPT ![i] = {r \in @ : r.conn # p}]

\* The peer or the application closes the connection.
ConnectionCloses(p) ==
    /\ ~crashed
    /\ p \in open
    /\ OnConnectionClosed(p)
    /\ staying' = [m \in Msgs |-> staying[m] \ {p}]
    /\ UNCHANGED <<home, msgVars>>

-----------------------------------------------------------------------------
(* Dispatching, on any thread                                               *)

\* Message m is posted for r to the event bases of threads ts.
PostTo(m, r, ts, receivers) ==
    /\ ~crashed
    /\ request[m] = None
    /\ \A l \in 1 .. m - 1 : request[l] # None
    /\ request' = [request EXCEPT ![m] = r]
    /\ tasks' = [i \in Threads |-> IF i \in ts THEN tasks[i] \cup {m} ELSE tasks[i]]
    /\ staying' = [staying EXCEPT ![m] = receivers]
    /\ UNCHANGED <<connVars, written, failed, crashed>>

\* The thread comes from the high half of the id.
DispatchIOBufByConnID(m, p) ==
    /\ home[p] # None
    /\ PostTo(m, [kind |-> "conn", to |-> p], {home[p]}, {p} \cap open)

DispatchIOBufByServer(m, s) ==
    PostTo(m, [kind |-> "server", to |-> s], {0}, RegisteredAs(s))

BroadCast(m) ==
    PostTo(m, [kind |-> "all", to |-> None], Threads, Pipelines)

-----------------------------------------------------------------------------
(* The posted tasks, on the event base of thread i                          *)

Done(i, m) == tasks' = [tasks EXCEPT ![i] = @ \ {m}]

\* A write that closes its connection does so before it returns.
Write(m, p) ==
    /\ written' = [written EXCEPT ![m][p] = @ + 1]
    /\ \/ /\ OnConnectionClosed(p)
          /\ staying' = [l \in Msgs |-> staying[l] \ {p}]
          /\ failed' = failed \cup {m}
       \/ UNCHANGED <<open, tableVars, staying, failed>>

NoWrite == UNCHANGED <<written, open, tableVars, staying, failed>>

\* DispatchIOBufByConnID of the thread's manager.
RunByConnID(i, m) ==
    /\ ~crashed
    /\ m \in tasks[i] /\ request[m].kind = "conn"
    /\ Done(i, m)
    /\ IF request[m].to \in pipelines[i] THEN Write(m, request[m].to) ELSE NoWrite
    /\ UNCHANGED <<home, request, crashed>>

\* The registrations of server s on thread i, and the first of them.
Matches(i, s)  == {r \in serverConns[i] : r.server = s}
First(rs)      == CHOOSE r \in rs : \A q \in rs : r.n <= q.n

\* Faults in DispatchIOBufByIdx: a message that was written goes on to the
\* next thread, and the search ends one thread too early.
OverrunningDispatchIOBufByIdx(i, m) ==
    LET rs == Matches(i, request[m].to)
    IN  /\ ~crashed
        /\ m \in tasks[i] /\ request[m].kind = "server"
        /\ tasks' = [j \in Threads |-> IF j = i THEN tasks[j] \ {m}
                                       ELSE IF j = i + 1 THEN tasks[j] \cup {m}
                                       ELSE tasks[j]]
        /\ IF rs = {} THEN NoWrite
           ELSE Write(m, First(rs).conn)
        /\ UNCHANGED <<home, request, crashed>>
ShortDispatchIOBufByIdx(i, m) ==
    LET rs == Matches(i, request[m].to)
    IN  /\ ~crashed
        /\ m \in tasks[i] /\ request[m].kind = "server"
        /\ Done(i, m)
        /\ IF rs = {} THEN NoWrite
           ELSE Write(m, First(rs).conn)
        /\ UNCHANGED <<home, request, crashed>>

\* DispatchIOBufByIdx: the first registration of the server on this thread is
\* written to, otherwise the next thread is tried; behind the last one the
\* message is dropped.
DispatchIOBufByIdx(i, m) ==
    LET rs == Matches(i, request[m].to)
    IN  /\ ~crashed
        /\ m \in tasks[i] /\ request[m].kind = "server"
        /\ \/ /\ rs # {}
              /\ Done(i, m)
              /\ Write(m, First(rs).conn)
           \/ /\ rs = {}
              /\ tasks' = [j \in Threads |-> IF j = i THEN tasks[j] \ {m}
                                             ELSE IF j = i + 1 THEN tasks[j] \cup {m}
                                             ELSE tasks[j]]
              /\ NoWrite
        /\ UNCHANGED <<home, request, crashed>>

WriteTo(m, ps) ==
    written' = [written EXCEPT ![m] = [p \in Conns |-> IF p \in ps THEN @[p] + 1 ELSE @[p]]]

\* BroadCast of the thread's manager when no write fails.
RunBroadCast(i, m) ==
    /\ ~crashed
    /\ m \in tasks[i] /\ request[m].kind = "all"
    /\ Done(i, m)
    /\ WriteTo(m, pipelines[i])
    /\ UNCHANGED <<connVars, request, staying, failed, crashed>>

\* A failing write erases the element the loop over pipelines_ stands on, and
\* its increment is undefined: the loop goes on, ends early, or crashes.
RunFailingBroadCast(i, m) ==
    /\ ~crashed
    /\ m \in tasks[i] /\ request[m].kind = "all"
    /\ Done(i, m)
    /\ \E p \in pipelines[i] :
          /\ OnConnectionClosed(p)
          /\ staying' = [l \in Msgs |-> staying[l] \ {p}]
          /\ \E reached \in SUBSET (pipelines[i] \ {p}) :
                WriteTo(m, reached \cup {p})
    /\ failed' = failed \cup {m}
    /\ crashed' \in BOOLEAN
    /\ UNCHANGED <<home, request>>

RunTask(i, m) ==
    \/ RunByConnID(i, m)
    \/ DispatchIOBufByIdx(i, m)
    \/ RunBroadCast(i, m)
    \/ RunFailingBroadCast(i, m)

-----------------------------------------------------------------------------
PoolNext ==
    \/ \E p \in Conns :
          \/ \E i \in Threads : OnNewConnection(p, i)
          \/ \E s \in Servers : OnServerRegister(p, s)
          \/ ConnectionCloses(p)
    \/ \E m \in Msgs :
          \/ \E p \in Conns : DispatchIOBufByConnID(m, p)
          \/ \E s \in Servers : DispatchIOBufByServer(m, s)
          \/ BroadCast(m)
          \/ \E i \in Threads : RunTask(i, m)

PoolSpec == PoolInit /\ [][PoolNext]_poolVars

-----------------------------------------------------------------------------
(* Properties                                                               *)

\* The three tables of a thread name only open connections of that thread,
\* also after a connection registered several times and under several names:
\* no dispatch meets a pipeline that is gone (IOThreadConnManager::OnConnectionClosed).
TablesAgree ==
    \A i \in Threads :
        /\ pipelines[i] = {p \in open : home[p] = i}
        /\ \A s \in Services :
              servicePipelines[i][s] = {p \in pipelines[i] : ServiceOf[p] = s}
        /\ \A r \in serverConns[i] : r.conn \in pipelines[i]

\* A message for a server or a connection is written at most once, although it
\* wanders over all threads; a broadcast at most once to each connection.
Reached(m) == {p \in Conns : written[m][p] > 0}
WrittenOnce ==
    \A m \in Msgs :
        /\ \A p \in Conns : written[m][p] <= 1
        /\ request[m] # None /\ request[m].kind # "all" =>
              \A p, q \in Reached(m) : p = q

Ended(m) == request[m] # None /\ \A i \in Threads : m \notin tasks[i]

\* A message that has left all event bases reached a receiver if there was one
\* all the time: a server that stays registered on any thread is never missed
\* by DispatchIOBufByIdx, and a broadcast in which no write fails reaches
\* every connection that stays open.
StayingReached ==
    \A m \in Msgs :
        Ended(m) /\ ~crashed =>
            IF request[m].kind = "server"
            THEN staying[m] # {} => Reached(m) # {}
            ELSE m \notin failed => staying[m] \subseteq Reached(m)
=============================================================================
