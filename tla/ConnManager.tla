----------------------------- MODULE ConnManager -----------------------------
(***************************************************************************)
(* Connection management of the framework: the per-thread registry         *)
(* ThreadLocalConnManager, the ConnHandler at the end of every pipeline,   *)
(* and ServiceManager::SendIOBuf(conn_id, data), which any thread calls    *)
(* and which posts the write to the event base of the owning thread.       *)
(*                                                                         *)
(* A 64 bit conn_id is kept as its two halves: the thread id (high 32      *)
(* bits) and the thread's own id (low 32 bits, taken modulo IdSpace).      *)
(* Everything an event-base callback does is one step, except the do-while *)
(* loop of OnNewConnection, which takes one step per iteration while its   *)
(* thread is busy.                                                         *)
(***************************************************************************)
EXTENDS Naturals, Sequences, FiniteSets

CONSTANTS
    Threads,     \* IO threads, each with its event base
    App,         \* a thread without an event base that also sends
    Conns,       \* connections (pipelines with their ConnHandler)
    None,        \* no pipeline, no thread or no id yet
    IdSpace,     \* number of values of the uint32_t counter (2^32 in the code)
    MaxLive,     \* bound: connections of a thread open at the same time
    MaxMsgs      \* bound: messages sent

Ids     == 0 .. IdSpace - 1
ConnIds == [thread : Threads, low : Ids]
Senders == Threads \cup {App}
Tasks   == [to : Conns, id : ConnIds, from : Senders, n : 1 .. MaxMsgs]

ASSUME IdSpaceAssumption == IdSpace \in Nat \ {0, 1}
ASSUME MaxMsgsAssumption == MaxMsgs \in Nat
ASSUME NoneAssumption    == None \notin Conns \cup Threads \cup ConnIds
ASSUME AppAssumption     == App \notin Threads
\* The allocation loop ends only while some id it can still reach is free.
ASSUME MaxLiveAssumption == MaxLive \in Nat /\ MaxLive < IdSpace

VARIABLES
    currentConnId,  \* current_conn_id_ of each thread's manager
    pipelines,      \* pipelines_ of each thread's manager
    activating,     \* the pipeline whose OnNewConnection runs on the thread
    home,           \* the thread whose event base drives the connection
    socket,         \* the transport below the handler
    connState,      \* ConnHandler::conn_state_
    connId,         \* ConnHandler::conn_id_
    loopTasks,      \* tasks a thread posted to its own event base
    inbox,          \* tasks other threads posted to the event base
    sent,           \* history: number of messages sent
    written,        \* history: what was written to each pipeline, in order
    age             \* history: ids its thread tried since the connection got its
                    \* own, counted up to IdSpace - 1

managerVars == <<currentConnId, pipelines, activating>>
handlerVars == <<home, socket, connState, connId, age>>
sendVars    == <<loopTasks, inbox, sent>>
vars == <<managerVars, handlerVars, sendVars, written>>

ConnStates == {"kNone", "kConnected", "kClosed"}

TypeOK ==
    /\ currentConnId \in [Threads -> Ids]
    /\ pipelines \in [Threads -> [Ids -> Conns \cup {None}]]
    /\ activating \in [Threads -> Conns \cup {None}]
    /\ home \in [Conns -> Threads \cup {None}]
    /\ socket \in [Conns -> {"absent", "open", "closed"}]
    /\ connState \in [Conns -> ConnStates]
    /\ connId \in [Conns -> ConnIds \cup {None}]
    /\ loopTasks \in [Threads -> Seq(Tasks)]
    /\ inbox \in [Threads -> Seq(Tasks)]
    /\ sent \in 0 .. MaxMsgs
    /\ written \in [Conns -> Seq(Tasks)]
    /\ age \in [Conns -> Ids]

Init ==
    /\ currentConnId = [t \in Threads |-> 0]
    /\ pipelines = [t \in Threads |-> [i \in Ids |-> None]]
    /\ activating = [t \in Threads |-> None]
    /\ home = [p \in Conns |-> None]
    /\ socket = [p \in Conns |-> "absent"]
    /\ connState = [p \in Conns |-> "kNone"]
    /\ connId = [p \in Conns |-> None]
    /\ loopTasks = [t \in Threads |-> << >>]
    /\ inbox = [t \in Threads |-> << >>]
    /\ sent = 0
    /\ written = [p \in Conns |-> << >>]
    /\ age = [p \in Conns |-> 0]

-----------------------------------------------------------------------------
(* Helpers                                                                  *)

\* An event base runs one callback at a time.
Idle(t) == activating[t] = None

OpenOn(t) == {p \in Conns : home[p] = t /\ socket[p] = "open"}

\* The connections whose conn_id_ has been handed out.
Issued == {p \in Conns : connId[p] # None}

-----------------------------------------------------------------------------
(* Opening                                                                  *)

\* The acceptor, or ClientBootstrap2::connect, creates the pipeline on the
\* event base of thread t.
NewPipeline(p, t) ==
    /\ Idle(t)
    /\ socket[p] = "absent"
    /\ Cardinality(OpenOn(t)) < MaxLive
    /\ socket' = [socket EXCEPT ![p] = "open"]
    /\ home' = [home EXCEPT ![p] = t]
    /\ UNCHANGED <<managerVars, connState, connId, age, sendVars, written>>

\* ConnHandler::transportActive up to its call of OnNewConnection.
TransportActive(p) ==
    /\ socket[p] = "open"
    /\ connState[p] = "kNone"
    /\ Idle(home[p])
    /\ connState' = [connState EXCEPT ![p] = "kConnected"]
    /\ activating' = [activating EXCEPT ![home[p]] = p]
    /\ UNCHANGED <<currentConnId, pipelines, home, socket, connId, age,
                   sendVars, written>>

\* conn_id of one iteration: the counter wraps, and the iteration that meets
\* zero keeps it.
NextConnId(c) == (c + 1) % IdSpace

\* Faults, each replacing CounterAfter in a mutation run: a counter that does
\* not wrap, and a counter that is not stored back.
CounterUnbounded(c) == c + 1
CounterNotStored(c) == c

\* current_conn_id_ after the iteration: zero is stepped over in the counter.
CounterAfter(c) == IF NextConnId(c) = 0 THEN 1 ELSE NextConnId(c)

\* Faults in OnNewConnection: pipelines_[conn_id] = pipeline instead of insert,
\* and set_thread_id never called, so that every manager issues ids of one
\* thread.
OverwritingNewConnection(t) ==
    LET p  == activating[t]
        id == NextConnId(currentConnId[t])
    IN  /\ p # None
        /\ currentConnId' = [currentConnId EXCEPT ![t] = CounterAfter(@)]
        /\ pipelines' = [pipelines EXCEPT ![t][id] = p]
        /\ connId' = [connId EXCEPT ![p] = [thread |-> t, low |-> id]]
        /\ activating' = [activating EXCEPT ![t] = None]
        /\ UNCHANGED <<home, socket, connState, age, sendVars, written>>
SharedThreadIdNewConnection(t) ==
    LET p  == activating[t]
        id == NextConnId(currentConnId[t])
    IN  /\ p # None
        /\ currentConnId' = [currentConnId EXCEPT ![t] = CounterAfter(@)]
        /\ pipelines[t][id] = None
        /\ pipelines' = [pipelines EXCEPT ![t][id] = p]
        /\ connId' = [connId EXCEPT ![p] = [thread |-> CHOOSE u \in Threads : TRUE,
                                            low |-> id]]
        /\ activating' = [activating EXCEPT ![t] = None]
        /\ UNCHANGED <<home, socket, connState, age, sendVars, written>>

\* One iteration of the loop of ThreadLocalConnManager::OnNewConnection; the
\* last one returns to transportActive, which stores conn_id_.
OnNewConnection(t) ==
    LET p  == activating[t]
        id == NextConnId(currentConnId[t])
    IN  /\ p # None
        /\ currentConnId' = [currentConnId EXCEPT ![t] = CounterAfter(@)]
        /\ age' = [q \in Conns |-> IF q \in Issued /\ home[q] = t /\ age[q] < IdSpace - 1
                                   THEN age[q] + 1 ELSE age[q]]
        /\ \/ /\ pipelines[t][id] # None          \* insert failed: once more
              /\ UNCHANGED <<pipelines, activating, connId>>
           \/ /\ pipelines[t][id] = None
              /\ pipelines' = [pipelines EXCEPT ![t][id] = p]
              /\ connId' = [connId EXCEPT ![p] = [thread |-> t, low |-> id]]
              /\ activating' = [activating EXCEPT ![t] = None]
        /\ UNCHANGED <<home, socket, connState, sendVars, written>>

-----------------------------------------------------------------------------
(* Closing                                                                  *)

\* Fault: the lookup misses and nothing is erased.
KeepingConnectionClosed(t, id) == pipelines' = pipelines

\* ThreadLocalConnManager::OnConnectionClosed: looks the low half of the id
\* up and erases the entry, whatever pipeline it holds.
OnConnectionClosed(t, id) ==
    pipelines' = [pipelines EXCEPT ![t][id.low] = None]

\* Fault in close: a second close calls back again.
RepeatingCloseHandler(p) ==
    /\ \/ /\ connState[p] # "kNone"
          /\ OnConnectionClosed(home[p], connId[p])
          /\ connState' = [connState EXCEPT ![p] = "kClosed"]
       \/ /\ connState[p] = "kNone"
          /\ UNCHANGED <<pipelines, connState>>
    /\ socket' = [socket EXCEPT ![p] = "closed"]

\* ConnHandler::close: the callback fires in state kConnected only; the
\* transport below is closed every time.
CloseHandler(p) ==
    /\ \/ /\ connState[p] = "kConnected"
          /\ OnConnectionClosed(home[p], connId[p])
          /\ connState' = [connState EXCEPT ![p] = "kClosed"]
       \/ /\ connState[p] # "kConnected"
          /\ UNCHANGED <<pipelines, connState>>
    /\ socket' = [socket EXCEPT ![p] = "closed"]

\* An empty read, readEOF or readException (peer gone, idle timeout, acceptor
\* dropping its connections).
ReadClose(p) ==
    /\ socket[p] = "open"
    /\ Idle(home[p])
    /\ CloseHandler(p)
    /\ UNCHANGED <<currentConnId, activating, home, connId, age,
                   sendVars, written>>

\* The holder of a pipeline closes it, possibly again.
AppClose(p) ==
    /\ socket[p] # "absent"
    /\ Idle(home[p])
    /\ CloseHandler(p)
    /\ UNCHANGED <<currentConnId, activating, home, connId, age,
                   sendVars, written>>

-----------------------------------------------------------------------------
(* Sending                                                                  *)

\* Faults: a task is posted to an event base chosen without its id, and a
\* thread's posts to itself go through either queue.
MisroutedRunInEventBaseThread(s, t, task) ==
    \E u \in Threads :
        /\ inbox' = [inbox EXCEPT ![u] = Append(@, task)]
        /\ UNCHANGED loopTasks
EitherQueueRunInEventBaseThread(s, t, task) ==
    \/ /\ s = t
       /\ loopTasks' = [loopTasks EXCEPT ![t] = Append(@, task)]
       /\ UNCHANGED inbox
    \/ /\ inbox' = [inbox EXCEPT ![t] = Append(@, task)]
       /\ UNCHANGED loopTasks

\* EventBase::runInEventBaseThread: a call from the event base's own thread
\* goes to its loop callbacks, any other to its notification queue.
RunInEventBaseThread(s, t, task) ==
    \/ /\ s = t
       /\ loopTasks' = [loopTasks EXCEPT ![t] = Append(@, task)]
       /\ UNCHANGED inbox
    \/ /\ s # t
       /\ inbox' = [inbox EXCEPT ![t] = Append(@, task)]
       /\ UNCHANGED loopTasks

\* ServiceManager::SendIOBuf(conn_id, data) by thread s, with an id that was
\* handed out for p and may be stale by now.
SendIOBuf(s, p) ==
    LET task == [to |-> p, id |-> connId[p], from |-> s, n |-> sent + 1]
    IN  /\ sent < MaxMsgs
        /\ p \in Issued
        /\ s \in Threads => Idle(s)
        /\ sent' = sent + 1
        /\ RunInEventBaseThread(s, connId[p].thread, task)
        /\ UNCHANGED <<managerVars, handlerVars, written>>

\* ThreadLocalConnManager::SendIOBufByConnID on thread t: only the low half
\* selects the pipeline.  The write may fail the socket, whose error callback
\* closes the handler before the call returns.
SendIOBufByConnID(t, task) ==
    LET p == pipelines[t][task.id.low]
    IN  \/ /\ p = None
           /\ UNCHANGED <<pipelines, connState, socket, written>>
        \/ /\ p # None
           /\ written' = [written EXCEPT ![p] = Append(@, task)]
           /\ \/ UNCHANGED <<pipelines, connState, socket>>
              \/ CloseHandler(p)

RunLoopTask(t) ==
    /\ Idle(t)
    /\ loopTasks[t] # << >>
    /\ loopTasks' = [loopTasks EXCEPT ![t] = Tail(@)]
    /\ SendIOBufByConnID(t, Head(loopTasks[t]))
    /\ UNCHANGED <<currentConnId, activating, home, connId, age,
                   inbox, sent>>

RunInboxTask(t) ==
    /\ Idle(t)
    /\ inbox[t] # << >>
    /\ inbox' = [inbox EXCEPT ![t] = Tail(@)]
    /\ SendIOBufByConnID(t, Head(inbox[t]))
    /\ UNCHANGED <<currentConnId, activating, home, connId, age,
                   loopTasks, sent>>

-----------------------------------------------------------------------------
Next ==
    \/ \E p \in Conns :
          \/ \E t \in Threads : NewPipeline(p, t)
          \/ TransportActive(p)
          \/ ReadClose(p)
          \/ AppClose(p)
          \/ \E s \in Senders : SendIOBuf(s, p)
    \/ \E t \in Threads :
          \/ OnNewConnection(t)
          \/ RunLoopTask(t)
          \/ RunInboxTask(t)

Spec == Init /\ [][Next]_vars

-----------------------------------------------------------------------------
(* Properties                                                               *)

\* A registered pipeline is connected, its socket is open, it belongs to the
\* thread and its handler holds exactly the id it is registered under.
RegisteredIsLive ==
    \A t \in Threads, i \in Ids :
        LET p == pipelines[t][i]
        IN  p # None =>
              /\ home[p] = t
              /\ socket[p] = "open"
              /\ connState[p] = "kConnected"
              /\ connId[p] # None
              /\ connId[p].thread = t
              /\ connId[p].low = i

\* A connected handler is found under its id, except while its
\* OnNewConnection is still running.
LiveIsRegistered ==
    \A p \in Conns :
        connState[p] = "kConnected" =>
            \/ connId[p] = None /\ activating[home[p]] = p
            \/ connId[p] # None /\ pipelines[home[p]][connId[p].low] = p

\* The states a handler, its socket and its id go through together.
HandlerLifecycle ==
    /\ \A p \in Conns :
          /\ home[p] = None <=> socket[p] = "absent"
          /\ connState[p] = "kNone" => connId[p] = None
          /\ connState[p] = "kConnected" => socket[p] = "open"
          /\ connState[p] = "kClosed" => socket[p] = "closed" /\ connId[p] # None
          /\ connId[p] # None => connId[p].thread = home[p]
    /\ \A t \in Threads :
          LET p == activating[t]
          IN  p # None => /\ home[p] = t
                          /\ connState[p] = "kConnected"
                          /\ connId[p] = None

\* The registries hold exactly the connected pipelines: none is lost, none is
\* left behind after close, whatever the order of opens, repeated closes and
\* failing writes (OnNewConnection, OnConnectionClosed, ConnHandler::close).
RegistryExact == RegisteredIsLive /\ LiveIsRegistered

\* Two connections that are connected at the same time never share a conn_id,
\* on any threads and after any number of wraps of the 32 bit counter.
LiveIdsUnique ==
    \A p, q \in Issued :
        connState[p] = "kConnected" /\ connState[q] = "kConnected" /\ p # q
            => connId[p] # connId[q]

\* Only the close of the pipeline itself takes it out of the registry: the
\* erase of OnConnectionClosed, which never looks at the pipeline it removes,
\* does not hit another connection that has the same id by now.
RemovalStep ==
    \A t \in Threads, i \in Ids :
        LET p == pipelines[t][i]
        IN  p # None /\ pipelines'[t][i] # p =>
               /\ connState[p] = "kConnected" /\ connState'[p] = "kClosed"
               /\ pipelines'[t][i] = None
RemovedByOwnClose == [][RemovalStep]_vars

\* SendIOBufByConnID writes to pipelines with an open transport only, however
\* long the task waited in the event base.
WriteStep ==
    \A p \in Conns :
        written'[p] # written[p] => socket[p] = "open" /\ connState[p] = "kConnected"
WritesOnlyToOpen == [][WriteStep]_vars

\* An id is given out again only after the counter of its thread has gone all
\* the way round: a send with the id of a closed connection, however late it
\* runs, cannot reach another connection before that.
IdReusedOnlyAfterWrap ==
    \A p, q \in Issued :
        p # q /\ connId[p] = connId[q] => age[p] = IdSpace - 1 \/ age[q] = IdSpace - 1

\* What a connection is written was sent to it: SendIOBufByConnID, which looks
\* up the low half of the id on whatever thread the task was posted to, never
\* takes one live connection for another.  A message reaches the connection that
\* has got the id of its addressee only when the addressee is closed and the
\* counter of its thread has gone all the way round since.
MisdeliveredOnlyAfterWrap ==
    \A q \in Conns : \A k \in DOMAIN written[q] :
        LET p == written[q][k].to
        IN  p # q => connState[p] = "kClosed" /\ age[p] = IdSpace - 1

\* The loop of OnNewConnection ends: one of the ids it comes by on a turn of the
\* counter, which is every id but the 1 it steps over after zero, is free.  An
\* entry that a close left behind would count against this for ever, and a
\* thread that spins here serves no other connection.
AllocationEnds ==
    \A t \in Threads : ~Idle(t) => \E i \in Ids \ {1} : pipelines[t][i] = None

\* Messages that one thread sends to one connection are written in the order
\* they were sent and at most once, although a thread's posts to itself and
\* to others go through different queues.
SenderOrderKept ==
    \A p \in Conns : \A j, k \in DOMAIN written[p] :
        LET a == written[p][j]
            b == written[p][k]
        IN  j < k /\ a.from = b.from /\ a.to = b.to => a.n < b.n

\* The steps of threads, handlers and queues implement the directory that the
\* users of conn_ids rely on: a connection is reachable under its id from the
\* end of OnNewConnection until its close, and a posted message reaches the
\* owner its id has when the task runs, or nobody.
Directory ==
    INSTANCE ConnDirectory WITH
        NoId     <- None,
        Messages <- Tasks,
        live     <- [p \in Conns |->
                        IF connState[p] = "kConnected" THEN connId[p] ELSE None],
        gone     <- {p \in Conns : connState[p] = "kClosed"}
ImplementsDirectory == Directory!DirSpec

\* OnNewConnection never registers a pipeline under 0: its comment is
\* "keep conn_id different from 0", and 0 is documented as the invalid value.
ConnIdNeverZero == \A t \in Threads : pipelines[t][0] = None
=============================================================================
