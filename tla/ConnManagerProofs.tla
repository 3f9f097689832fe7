-------------------------- MODULE ConnManagerProofs --------------------------
(***************************************************************************)
(* Proofs about ConnManager, for every set of threads and connections and  *)
(* every size of the id space.                                             *)
(*                                                                         *)
(* The registry invariant RegistryExact is not inductive alone: that a     *)
(* close erases the entry of the right connection needs to know which      *)
(* handlers hold an id at all, and that the pipeline inside OnNewConnection *)
(* is not yet reachable.  HandlerLifecycle says so.                        *)
(*                                                                         *)
(* On the registry rest the proofs about the conn_ids that are handed out  *)
(* and the messages that are sent to them.  OpenBound counts the open      *)
(* connections of a thread, so that the allocation loop finds a free id;   *)
(* AgeInv says how far the counter of a thread has gone since it gave an   *)
(* id out, so that the id comes up again only after a whole turn; SendInv  *)
(* follows a message of one sender through the one queue that all its      *)
(* messages to one connection pass.  OutlivedInv puts the two together: of *)
(* two connections with one id the connected one is the younger, so that a *)
(* message goes astray only after its addressee is closed and aged out.    *)
(***************************************************************************)
EXTENDS ConnManager, SequenceTheorems, FiniteSetTheorems, TLAPS

IInv == TypeOK /\ HandlerLifecycle /\ RegistryExact

USE IdSpaceAssumption, NoneAssumption, MaxMsgsAssumption

\* Every id the allocation loop tries, and the counter it leaves, is a value
\* of the counter's type (ThreadLocalConnManager::OnNewConnection).
LEMMA NextIdType ==
    ASSUME NEW c \in Ids
    PROVE  NextConnId(c) \in Ids /\ CounterAfter(c) \in Ids
  BY DEF Ids, NextConnId, CounterAfter

\* Posting to one of the queues of runInEventBaseThread keeps their type.
LEMMA AppendType ==
    ASSUME NEW f \in [Threads -> Seq(Tasks)], NEW d \in Threads, NEW e \in Tasks
    PROVE  [f EXCEPT ![d] = Append(@, e)] \in [Threads -> Seq(Tasks)]
  <1>1. Append(f[d], e) \in Seq(Tasks)
    OBVIOUS
  <1> QED
    BY <1>1

\* Taking the first task out of a queue of an event base keeps the type.
LEMMA TailType ==
    ASSUME NEW f \in [Threads -> Seq(Tasks)], NEW d \in Threads, f[d] # << >>
    PROVE  /\ [f EXCEPT ![d] = Tail(@)] \in [Threads -> Seq(Tasks)]
           /\ Head(f[d]) \in Tasks
  <1>1. Tail(f[d]) \in Seq(Tasks) /\ Head(f[d]) \in Tasks
    OBVIOUS
  <1> QED
    BY <1>1

\* Writing to a pipeline keeps the type of the history.
LEMMA WriteType ==
    ASSUME TypeOK, NEW p \in Conns, NEW e \in Tasks
    PROVE  [written EXCEPT ![p] = Append(@, e)] \in [Conns -> Seq(Tasks)]
  <1>1. Append(written[p], e) \in Seq(Tasks)
    BY DEF TypeOK
  <1> QED
    BY <1>1 DEF TypeOK

\* The initial state satisfies the inductive invariant.
LEMMA InitInv == Init => IInv
  <1> SUFFICES ASSUME Init PROVE IInv
    OBVIOUS
  <1>1. 0 \in Ids
    BY DEF Ids
  <1>2. TypeOK
    BY <1>1 DEF Init, TypeOK, ConnStates, Ids
  <1>3. HandlerLifecycle
    BY DEF Init, HandlerLifecycle
  <1>4. RegistryExact
    BY DEF Init, RegistryExact, RegisteredIsLive, LiveIsRegistered
  <1> QED
    BY <1>2, <1>3, <1>4 DEF IInv

\* A new pipeline, on the thread that accepts or connects it, is in no registry
\* yet and keeps the invariant.
LEMMA NewPipelineStep ==
    ASSUME IInv, NEW p \in Conns, NEW t \in Threads, NewPipeline(p, t)
    PROVE  IInv'
  <1> USE DEF IInv, NewPipeline, managerVars, sendVars
  <1>1. TypeOK'
    BY DEF TypeOK
  <1>2. HandlerLifecycle'
    BY DEF TypeOK, HandlerLifecycle, ConnStates
  <1>3. RegistryExact'
    BY DEF TypeOK, HandlerLifecycle, RegistryExact, RegisteredIsLive, LiveIsRegistered
  <1> QED
    BY <1>1, <1>2, <1>3

\* transportActive makes the handler connected without an id: the case that
\* LiveIsRegistered excepts, until OnNewConnection returns.
LEMMA TransportActiveStep ==
    ASSUME IInv, NEW p \in Conns, TransportActive(p)
    PROVE  IInv'
  <1> USE DEF IInv, TransportActive, sendVars
  <1>1. home[p] \in Threads
    BY DEF TypeOK, HandlerLifecycle
  <1>2. TypeOK'
    BY <1>1 DEF TypeOK, ConnStates
  <1>3. HandlerLifecycle'
    BY <1>1 DEF TypeOK, HandlerLifecycle, Idle
  <1>4. RegistryExact'
    BY <1>1 DEF TypeOK, HandlerLifecycle, RegistryExact, RegisteredIsLive,
                LiveIsRegistered, Idle
  <1> QED
    BY <1>2, <1>3, <1>4

\* An iteration of OnNewConnection, whether its insert succeeds or not, keeps the
\* invariant: an entry that is taken is never replaced.
LEMMA OnNewConnectionStep ==
    ASSUME IInv, NEW t \in Threads, OnNewConnection(t)
    PROVE  IInv'
  <1> DEFINE p  == activating[t]
             id == NextConnId(currentConnId[t])
             cid == [thread |-> t, low |-> id]
  <1> USE DEF IInv
  <1>1. p \in Conns /\ id \in Ids /\ CounterAfter(currentConnId[t]) \in Ids
    BY NextIdType DEF TypeOK, OnNewConnection
  <1>2. /\ home[p] = t /\ connState[p] = "kConnected"
        /\ connId[p] = None /\ socket[p] = "open"
    BY <1>1 DEF HandlerLifecycle
  <1>3. cid \in ConnIds /\ cid # None /\ cid.thread = t /\ cid.low = id
    BY <1>1 DEF ConnIds
  <1>4. /\ currentConnId' \in [Threads -> Ids]
        /\ age' \in [Conns -> Ids]
        /\ UNCHANGED <<home, socket, connState, loopTasks, inbox, sent, written>>
    BY SMTT(30), <1>1 DEF TypeOK, OnNewConnection, sendVars, Ids
  <1>5. CASE pipelines[t][id] # None
    <2>1. UNCHANGED <<pipelines, activating, connId>>
      BY <1>5 DEF OnNewConnection
    <2>2. TypeOK'
      BY <1>4, <2>1 DEF TypeOK
    <2>3. HandlerLifecycle' /\ RegistryExact'
      BY <1>4, <2>1 DEF HandlerLifecycle, RegistryExact, RegisteredIsLive, LiveIsRegistered
    <2> QED
      BY <2>2, <2>3
  <1>6. CASE pipelines[t][id] = None
    <2>1. /\ pipelines' = [pipelines EXCEPT ![t][id] = p]
          /\ connId' = [connId EXCEPT ![p] = cid]
          /\ activating' = [activating EXCEPT ![t] = None]
      BY <1>6 DEF OnNewConnection
    <2> HIDE DEF p, id, cid
    <2>2. TypeOK'
      BY <1>1, <1>3, <1>4, <2>1 DEF TypeOK
    <2>3. /\ \A u \in Threads, i \in Ids :
                pipelines'[u][i] = IF u = t /\ i = id THEN p ELSE pipelines[u][i]
          /\ \A q \in Conns : connId'[q] = IF q = p THEN cid ELSE connId[q]
          /\ \A u \in Threads : activating'[u] = IF u = t THEN None ELSE activating[u]
      BY <1>1, <2>1 DEF TypeOK
    <2>4. HandlerLifecycle'
      BY <1>1, <1>2, <1>3, <1>4, <2>3 DEF TypeOK, HandlerLifecycle
    <2>5. RegisteredIsLive'
      <3> SUFFICES ASSUME NEW u \in Threads, NEW i \in Ids, pipelines'[u][i] # None
                   PROVE  LET q == pipelines'[u][i]
                          IN  /\ home'[q] = u
                              /\ socket'[q] = "open"
                              /\ connState'[q] = "kConnected"
                              /\ connId'[q] # None
                              /\ connId'[q].thread = u
                              /\ connId'[q].low = i
        BY DEF RegisteredIsLive
      <3>1. CASE u = t /\ i = id
        BY <1>1, <1>2, <1>3, <1>4, <2>3, <3>1 DEF cid
      <3>2. CASE ~(u = t /\ i = id)
        <4> DEFINE q == pipelines[u][i]
        <4>1. pipelines'[u][i] = q /\ q \in Conns
          BY <1>1, <2>3, <3>2 DEF TypeOK
        <4>2. connId[q] # None /\ connId[q].thread = u /\ connId[q].low = i /\ home[q] = u
              /\ socket[q] = "open" /\ connState[q] = "kConnected"
          BY <4>1 DEF RegistryExact, RegisteredIsLive
        <4>3. q # p
          BY <1>2, <4>2 DEF ConnIds
        <4> QED
          BY <1>4, <2>3, <4>1, <4>2, <4>3
      <3> QED
        BY <3>1, <3>2
    <2>6. LiveIsRegistered'
      <3> SUFFICES ASSUME NEW q \in Conns, connState'[q] = "kConnected"
                   PROVE  \/ connId'[q] = None /\ activating'[home'[q]] = q
                          \/ connId'[q] # None /\ pipelines'[home'[q]][connId'[q].low] = q
        BY DEF LiveIsRegistered
      <3>1. CASE q = p
        BY <1>1, <1>2, <1>3, <1>4, <2>3, <3>1
      <3>2. CASE q # p
        <4>1. home[q] \in Threads
          BY <1>4 DEF TypeOK, HandlerLifecycle
        <4>2. CASE connId[q] = None
          BY <1>1, <1>4, <2>3, <3>2, <4>1, <4>2 DEF RegistryExact, LiveIsRegistered, p
        <4>3. CASE connId[q] # None
          <5>1. connId[q].low \in Ids
            BY <4>3 DEF TypeOK, ConnIds
          <5> QED
            BY <1>1, <1>4, <1>6, <2>3, <3>2, <4>1, <4>3, <5>1
               DEF RegistryExact, LiveIsRegistered
        <4> QED
          BY <4>2, <4>3
      <3> QED
        BY <3>1, <3>2
    <2> QED
      BY <2>2, <2>4, <2>5, <2>6 DEF RegistryExact
  <1> QED
    BY <1>5, <1>6

\* ConnHandler::close on its own thread, outside OnNewConnection: the entry
\* that OnConnectionClosed erases is the one of this very pipeline.
LEMMA CloseHandlerStep ==
    ASSUME IInv, NEW p \in Conns, socket[p] # "absent", Idle(home[p]), CloseHandler(p),
           UNCHANGED <<activating, home, connId>>
    PROVE  /\ pipelines' \in [Threads -> [Ids -> Conns \cup {None}]]
           /\ connState' \in [Conns -> ConnStates]
           /\ socket' \in [Conns -> {"absent", "open", "closed"}]
           /\ HandlerLifecycle'
           /\ RegistryExact'
  <1> USE DEF IInv
  <1>1. home[p] \in Threads
    BY DEF TypeOK, HandlerLifecycle
  <1>2. /\ socket' = [socket EXCEPT ![p] = "closed"]
        /\ socket' \in [Conns -> {"absent", "open", "closed"}]
        /\ \A q \in Conns : socket'[q] = IF q = p THEN "closed" ELSE socket[q]
    BY DEF CloseHandler, TypeOK
  <1>3. CASE connState[p] # "kConnected"
    <2>1. UNCHANGED <<pipelines, connState>>
      BY <1>3 DEF CloseHandler
    <2>2. \A u \in Threads : activating[u] # p
      BY <1>3 DEF HandlerLifecycle, TypeOK
    <2>3. \A u \in Threads, i \in Ids : pipelines[u][i] # p
      <3> SUFFICES ASSUME NEW u \in Threads, NEW i \in Ids, pipelines[u][i] = p
                   PROVE  FALSE
        OBVIOUS
      <3>1. pipelines[u][i] # None
        OBVIOUS
      <3>2. connState[pipelines[u][i]] = "kConnected"
        BY <3>1 DEF RegistryExact, RegisteredIsLive, TypeOK
      <3> QED
        BY <1>3, <3>2
    <2>4. HandlerLifecycle'
      BY <1>2, <1>3, <2>1, <2>2 DEF HandlerLifecycle, TypeOK
    <2>5. RegistryExact'
      BY <1>2, <1>3, <2>1, <2>3 DEF RegistryExact, RegisteredIsLive, LiveIsRegistered, TypeOK
    <2> QED
      BY <1>2, <2>1, <2>4, <2>5 DEF TypeOK
  <1>4. CASE connState[p] = "kConnected"
    <2> DEFINE t == home[p]
               i == connId[p].low
    <2>1. connId[p] # None /\ pipelines[t][i] = p
      BY <1>1, <1>4 DEF RegistryExact, LiveIsRegistered, Idle
    <2>2. i \in Ids
      BY <2>1 DEF TypeOK, ConnIds
    <2>3. /\ pipelines' = [pipelines EXCEPT ![t][i] = None]
          /\ connState' = [connState EXCEPT ![p] = "kClosed"]
      BY <1>4 DEF CloseHandler, OnConnectionClosed
    <2> HIDE DEF t, i
    <2>4. /\ \A u \in Threads, j \in Ids :
                pipelines'[u][j] = IF u = t /\ j = i THEN None ELSE pipelines[u][j]
          /\ \A q \in Conns : connState'[q] = IF q = p THEN "kClosed" ELSE connState[q]
      BY <1>1, <2>2, <2>3 DEF TypeOK, t
    <2>5. /\ pipelines' \in [Threads -> [Ids -> Conns \cup {None}]]
          /\ connState' \in [Conns -> ConnStates]
      BY <1>1, <2>2, <2>3 DEF TypeOK, ConnStates, t
    <2>6. \A u \in Threads : activating[u] # p
      BY <1>1, <2>1 DEF HandlerLifecycle, TypeOK
    <2>7. HandlerLifecycle'
      BY <1>2, <2>1, <2>4, <2>6 DEF HandlerLifecycle, TypeOK
    <2>8. RegisteredIsLive'
      <3> SUFFICES ASSUME NEW u \in Threads, NEW j \in Ids, pipelines'[u][j] # None
                   PROVE  LET q == pipelines'[u][j]
                          IN  /\ home'[q] = u
                              /\ socket'[q] = "open"
                              /\ connState'[q] = "kConnected"
                              /\ connId'[q] # None
                              /\ connId'[q].thread = u
                              /\ connId'[q].low = j
        BY DEF RegisteredIsLive
      <3> DEFINE q == pipelines[u][j]
      <3>1. pipelines'[u][j] = q /\ q \in Conns /\ ~(u = t /\ j = i)
        BY <2>4 DEF TypeOK
      <3>2. /\ home[q] = u /\ socket[q] = "open" /\ connState[q] = "kConnected"
            /\ connId[q] # None /\ connId[q].thread = u /\ connId[q].low = j
        BY <3>1 DEF RegistryExact, RegisteredIsLive
      <3>3. q # p
        BY <3>1, <3>2 DEF t, i
      <3> QED
        BY <1>2, <2>4, <3>1, <3>2, <3>3
    <2>9. LiveIsRegistered'
      <3> SUFFICES ASSUME NEW q \in Conns, connState'[q] = "kConnected"
                   PROVE  \/ connId'[q] = None /\ activating'[home'[q]] = q
                          \/ connId'[q] # None /\ pipelines'[home'[q]][connId'[q].low] = q
        BY DEF LiveIsRegistered
      <3>1. q # p /\ connState[q] = "kConnected"
        BY <2>4
      <3>2. home[q] \in Threads
        BY <3>1 DEF TypeOK, HandlerLifecycle
      <3>3. CASE connId[q] = None
        BY <3>1, <3>3 DEF RegistryExact, LiveIsRegistered
      <3>4. CASE connId[q] # None
        <4>1. connId[q].low \in Ids
          BY <3>4 DEF TypeOK, ConnIds
        <4>2. pipelines[home[q]][connId[q].low] = q
          BY <3>1, <3>4 DEF RegistryExact, LiveIsRegistered
        <4> QED
          BY <2>1, <2>4, <3>1, <3>2, <3>4, <4>1, <4>2
      <3> QED
        BY <3>3, <3>4
    <2> QED
      BY <1>2, <2>5, <2>7, <2>8, <2>9 DEF RegistryExact
  <1> QED
    BY <1>3, <1>4

\* An empty read, readEOF, readException or a repeated close.
LEMMA CloseStep ==
    ASSUME IInv, NEW p \in Conns, ReadClose(p) \/ AppClose(p)
    PROVE  IInv'
  <1>1. /\ socket[p] # "absent" /\ Idle(home[p]) /\ CloseHandler(p)
        /\ UNCHANGED <<currentConnId, activating, home, connId, age,
                       loopTasks, inbox, sent, written>>
    BY DEF ReadClose, AppClose, sendVars
  <1> QED
    BY <1>1, CloseHandlerStep DEF IInv, TypeOK

\* ServiceManager::SendIOBuf only adds a task to a queue.
LEMMA SendIOBufStep ==
    ASSUME IInv, NEW p \in Conns, NEW s \in Senders, SendIOBuf(s, p)
    PROVE  IInv'
  <1> DEFINE task == [to |-> p, id |-> connId[p], from |-> s, n |-> sent + 1]
             t    == connId[p].thread
  <1> USE DEF IInv
  <1>1. connId[p] \in ConnIds /\ t \in Threads /\ sent + 1 \in 1 .. MaxMsgs
    BY DEF SendIOBuf, Issued, TypeOK, ConnIds
  <1>2. task \in Tasks
    BY <1>1 DEF Tasks
  <1>3. /\ sent' = sent + 1
        /\ RunInEventBaseThread(s, t, task)
        /\ UNCHANGED <<managerVars, handlerVars, written>>
    BY DEF SendIOBuf
  <1> HIDE DEF task, t
  <1>4. loopTasks' \in [Threads -> Seq(Tasks)] /\ inbox' \in [Threads -> Seq(Tasks)]
    <2>0. loopTasks \in [Threads -> Seq(Tasks)] /\ inbox \in [Threads -> Seq(Tasks)]
      BY DEF TypeOK
    <2>1. CASE s = t
      <3>1. loopTasks' = [loopTasks EXCEPT ![t] = Append(@, task)] /\ inbox' = inbox
        BY <1>3, <2>1 DEF RunInEventBaseThread
      <3> QED
        BY <1>1, <1>2, <2>0, <3>1, AppendType
    <2>2. CASE s # t
      <3>1. inbox' = [inbox EXCEPT ![t] = Append(@, task)] /\ loopTasks' = loopTasks
        BY <1>3, <2>2 DEF RunInEventBaseThread
      <3> QED
        BY <1>1, <1>2, <2>0, <3>1, AppendType
    <2> QED
      BY <2>1, <2>2
  <1> QED
    BY <1>1, <1>3, <1>4 DEF managerVars, handlerVars, TypeOK, HandlerLifecycle,
       RegistryExact, RegisteredIsLive, LiveIsRegistered

\* The posted task, on the thread of the id: a lookup, a write and possibly
\* the close a failing write brings.
LEMMA SendByConnIDStep ==
    ASSUME IInv, NEW t \in Threads, NEW task \in Tasks, Idle(t),
           SendIOBufByConnID(t, task), UNCHANGED <<activating, home, connId>>
    PROVE  /\ pipelines' \in [Threads -> [Ids -> Conns \cup {None}]]
           /\ connState' \in [Conns -> ConnStates]
           /\ socket' \in [Conns -> {"absent", "open", "closed"}]
           /\ written' \in [Conns -> Seq(Tasks)]
           /\ HandlerLifecycle'
           /\ RegistryExact'
  <1> DEFINE p == pipelines[t][task.id.low]
  <1>1. task.id.low \in Ids
    BY DEF Tasks, ConnIds
  <1>2. CASE UNCHANGED <<pipelines, connState, socket>>
    <2>1. written' \in [Conns -> Seq(Tasks)]
      <3>1. CASE p = None
        BY <3>1 DEF SendIOBufByConnID, IInv, TypeOK
      <3>2. CASE p # None
        <4>1. p \in Conns
          BY <1>1, <3>2 DEF IInv, TypeOK
        <4> QED
          BY ZenonT(30), <3>2, <4>1, WriteType DEF SendIOBufByConnID, IInv
      <3> QED
        BY <3>1, <3>2
    <2> QED
      BY <1>2, <2>1 DEF IInv, TypeOK, HandlerLifecycle, RegistryExact, RegisteredIsLive,
                        LiveIsRegistered
  <1>3. CASE p # None /\ CloseHandler(p)
    <2>1. p \in Conns
      BY <1>1, <1>3 DEF IInv, TypeOK
    <2>2. home[p] = t /\ socket[p] = "open"
      BY <1>1, <1>3 DEF IInv, RegistryExact, RegisteredIsLive, TypeOK
    <2>3. written' \in [Conns -> Seq(Tasks)]
      BY ZenonT(30), <1>3, <2>1, WriteType DEF SendIOBufByConnID, IInv
    <2> HIDE DEF p
    <2> QED
      BY <1>3, <2>1, <2>2, <2>3, CloseHandlerStep
  <1> QED
    BY <1>2, <1>3 DEF SendIOBufByConnID

\* An event base that runs a posted task, from either queue, keeps the
\* invariant.
LEMMA RunTaskStep ==
    ASSUME IInv, NEW t \in Threads, RunLoopTask(t) \/ RunInboxTask(t)
    PROVE  IInv'
  <1>1. /\ loopTasks' \in [Threads -> Seq(Tasks)]
        /\ inbox' \in [Threads -> Seq(Tasks)]
        /\ \E task \in Tasks : SendIOBufByConnID(t, task)
    <2>1. CASE RunLoopTask(t)
      BY <2>1, TailType DEF RunLoopTask, IInv, TypeOK
    <2>2. CASE RunInboxTask(t)
      BY <2>2, TailType DEF RunInboxTask, IInv, TypeOK
    <2> QED
      BY <2>1, <2>2
  <1>2. PICK task \in Tasks : SendIOBufByConnID(t, task)
    BY <1>1
  <1>3. Idle(t) /\ UNCHANGED <<currentConnId, activating, home, connId, age, sent>>
    BY DEF RunLoopTask, RunInboxTask
  <1> QED
    BY <1>1, <1>2, <1>3, SendByConnIDStep DEF IInv, TypeOK

\* Every step of the specification preserves the inductive invariant.
LEMMA NextInv == IInv /\ [Next]_vars => IInv'
  <1> SUFFICES ASSUME IInv, [Next]_vars PROVE IInv'
    OBVIOUS
  <1>1. CASE UNCHANGED vars
    BY <1>1 DEF vars, managerVars, handlerVars, sendVars, IInv, TypeOK, HandlerLifecycle,
       RegistryExact, RegisteredIsLive, LiveIsRegistered
  <1>2. CASE Next
    BY <1>2, NewPipelineStep, TransportActiveStep, OnNewConnectionStep, CloseStep,
       SendIOBufStep, RunTaskStep DEF Next
  <1> QED
    BY <1>1, <1>2

\* Every reachable state is well typed, the handlers go through their states
\* in step with sockets and ids, and the registries are exact.
THEOREM Invariance == Spec => []IInv
  BY InitInv, NextInv, PTL DEF Spec

\* Type correctness of connection management.
THEOREM TypeCorrect == Spec => []TypeOK
  <1>1. IInv => TypeOK
    BY DEF IInv
  <1> QED
    BY <1>1, Invariance, PTL

\* A thread's registry always holds exactly its connected pipelines, each
\* under the id its handler has, for any number of threads, connections and
\* wraps of the counter.
THEOREM RegistryIsExact == Spec => []RegistryExact
  <1>1. IInv => RegistryExact
    BY DEF IInv
  <1> QED
    BY <1>1, Invariance, PTL

\* No two connected pipelines ever share a conn_id.
THEOREM LiveIdsAreUnique == Spec => []LiveIdsUnique
  <1>1. IInv => LiveIdsUnique
    <2> SUFFICES ASSUME IInv, NEW p \in Issued, NEW q \in Issued,
                        connState[p] = "kConnected", connState[q] = "kConnected",
                        connId[p] = connId[q]
                 PROVE  p = q
      BY DEF LiveIdsUnique
    <2>1. home[p] = home[q]
      BY DEF IInv, HandlerLifecycle, Issued
    <2> QED
      BY <2>1 DEF IInv, RegistryExact, LiveIsRegistered, Issued
  <1> QED
    BY <1>1, Invariance, PTL

\* What ConnHandler::close changes: in state kConnected exactly the entry of p,
\* otherwise nothing in any registry.
LEMMA CloseHandlerEffect ==
    ASSUME IInv, NEW p \in Conns, socket[p] # "absent", Idle(home[p]), CloseHandler(p)
    PROVE  /\ connState[p] = "kConnected" =>
                 /\ connId[p] # None
                 /\ connState' = [connState EXCEPT ![p] = "kClosed"]
                 /\ \A u \in Threads, j \in Ids :
                       pipelines'[u][j] = IF pipelines[u][j] = p THEN None ELSE pipelines[u][j]
           /\ connState[p] # "kConnected" => UNCHANGED <<pipelines, connState>>
  <1> USE DEF IInv
  <1>1. home[p] \in Threads
    BY DEF TypeOK, HandlerLifecycle
  <1>2. CASE connState[p] # "kConnected"
    BY <1>2 DEF CloseHandler
  <1>3. CASE connState[p] = "kConnected"
    <2> DEFINE t == home[p]
               i == connId[p].low
    <2>1. connId[p] # None /\ pipelines[t][i] = p
      BY <1>1, <1>3 DEF RegistryExact, LiveIsRegistered, Idle
    <2>2. i \in Ids
      BY <2>1 DEF TypeOK, ConnIds
    <2>3. \A u \in Threads, j \in Ids : pipelines[u][j] = p => u = t /\ j = i
      BY DEF RegistryExact, RegisteredIsLive, TypeOK
    <2>4. /\ pipelines' = [pipelines EXCEPT ![t][i] = None]
          /\ connState' = [connState EXCEPT ![p] = "kClosed"]
      BY <1>3 DEF CloseHandler, OnConnectionClosed
    <2> HIDE DEF t, i
    <2>5. t \in Threads
      BY <1>1 DEF t
    <2>6. \A u \in Threads, j \in Ids :
             pipelines'[u][j] = IF u = t /\ j = i THEN None ELSE pipelines[u][j]
      BY <2>2, <2>4, <2>5 DEF TypeOK
    <2> QED
      BY <1>3, <2>1, <2>3, <2>4, <2>6
  <1> QED
    BY <1>2, <1>3

\* The task that runs on thread t, and the pipeline it finds, if any.
LEMMA RunTaskEffect ==
    ASSUME IInv, NEW t \in Threads, RunLoopTask(t) \/ RunInboxTask(t)
    PROVE  \/ UNCHANGED <<pipelines, connState, socket, written, connId>>
           \/ \E p \in Conns, task \in Tasks :
                 /\ home[p] = t
                 /\ socket[p] = "open"
                 /\ connState[p] = "kConnected"
                 /\ connId[p] # None /\ connId[p].thread = t /\ connId[p].low = task.id.low
                 /\ \/ task = Head(loopTasks[t]) /\ RunLoopTask(t)
                    \/ task = Head(inbox[t]) /\ RunInboxTask(t)
                 /\ written' = [written EXCEPT ![p] = Append(@, task)]
                 /\ connId' = connId
                 /\ UNCHANGED <<pipelines, connState, socket>> \/ CloseHandler(p)
  <1> USE DEF IInv
  <1>1. PICK task \in Tasks :
           /\ SendIOBufByConnID(t, task)
           /\ \/ task = Head(loopTasks[t]) /\ RunLoopTask(t)
              \/ task = Head(inbox[t]) /\ RunInboxTask(t)
    <2>1. CASE RunLoopTask(t)
      BY <2>1, TailType DEF RunLoopTask, TypeOK
    <2>2. CASE RunInboxTask(t)
      BY <2>2, TailType DEF RunInboxTask, TypeOK
    <2> QED
      BY <2>1, <2>2
  <1>2. connId' = connId
    BY DEF RunLoopTask, RunInboxTask
  <1> DEFINE p == pipelines[t][task.id.low]
  <1>3. task.id.low \in Ids
    BY DEF Tasks, ConnIds
  <1>4. CASE p = None
    BY <1>1, <1>2, <1>4 DEF SendIOBufByConnID
  <1>5. CASE p # None
    <2>1. p \in Conns
      BY <1>3, <1>5 DEF TypeOK
    <2>2. /\ home[p] = t /\ socket[p] = "open" /\ connState[p] = "kConnected"
          /\ connId[p] # None /\ connId[p].thread = t /\ connId[p].low = task.id.low
      BY <1>3, <1>5 DEF RegistryExact, RegisteredIsLive, TypeOK
    <2>3. /\ written' = [written EXCEPT ![p] = Append(@, task)]
          /\ UNCHANGED <<pipelines, connState, socket>> \/ CloseHandler(p)
      BY <1>1, <1>5 DEF SendIOBufByConnID
    <2> HIDE DEF p
    <2> QED
      BY <1>1, <1>2, <2>1, <2>2, <2>3
  <1> QED
    BY <1>4, <1>5

\* The close of a pipeline removes its own entry and no other one.
LEMMA CloseRemoval ==
    ASSUME IInv, NEW p \in Conns, socket[p] # "absent", Idle(home[p]), CloseHandler(p)
    PROVE  RemovalStep
  <1>1. CASE connState[p] # "kConnected"
    BY <1>1, CloseHandlerEffect DEF RemovalStep
  <1>2. CASE connState[p] = "kConnected"
    <2>1. /\ connState'[p] = "kClosed"
          /\ \A u \in Threads, j \in Ids :
                pipelines'[u][j] = IF pipelines[u][j] = p THEN None ELSE pipelines[u][j]
      BY <1>2, CloseHandlerEffect DEF IInv, TypeOK
    <2> QED
      BY <1>2, <2>1 DEF RemovalStep
  <1> QED
    BY <1>1, <1>2

\* Nothing but the close of a pipeline itself takes it out of its thread's
\* registry, although OnConnectionClosed erases by id only.
THEOREM RemovalOnlyByOwnClose == Spec => RemovedByOwnClose
  <1>1. IInv /\ [Next]_vars => [RemovalStep]_vars
    <2> SUFFICES ASSUME IInv, Next PROVE RemovalStep
      OBVIOUS
    <2>1. ASSUME NEW p \in Conns, ReadClose(p) \/ AppClose(p) PROVE RemovalStep
      BY <2>1, CloseRemoval DEF ReadClose, AppClose
    <2>2. ASSUME NEW t \in Threads, RunLoopTask(t) \/ RunInboxTask(t) PROVE RemovalStep
      <3>1. CASE UNCHANGED pipelines
        BY <3>1 DEF RemovalStep
      <3>2. CASE ~UNCHANGED pipelines
        <4>1. PICK p \in Conns : home[p] = t /\ socket[p] = "open" /\ CloseHandler(p)
          BY <2>2, <3>2, RunTaskEffect
        <4>2. Idle(t)
          BY <2>2 DEF RunLoopTask, RunInboxTask
        <4> QED
          BY <4>1, <4>2, CloseRemoval
      <3> QED
        BY <3>1, <3>2
    <2>3. ASSUME NEW t \in Threads, OnNewConnection(t) PROVE RemovalStep
      <3> DEFINE id == NextConnId(currentConnId[t])
      <3>1. id \in Ids
        BY NextIdType DEF IInv, TypeOK
      <3>2. \/ UNCHANGED pipelines
            \/ /\ pipelines[t][id] = None
               /\ pipelines' = [pipelines EXCEPT ![t][id] = activating[t]]
        BY <2>3 DEF OnNewConnection
      <3> HIDE DEF id
      <3>3. CASE UNCHANGED pipelines
        BY <3>3 DEF RemovalStep
      <3>4. CASE ~UNCHANGED pipelines
        <4>1. /\ pipelines[t][id] = None
              /\ \A u \in Threads, j \in Ids :
                    ~(u = t /\ j = id) => pipelines'[u][j] = pipelines[u][j]
          BY <3>1, <3>2, <3>4 DEF IInv, TypeOK
        <4> QED
          BY <4>1 DEF RemovalStep
      <3> QED
        BY <3>3, <3>4
    <2>4. ASSUME UNCHANGED pipelines PROVE RemovalStep
      BY <2>4 DEF RemovalStep
    <2> QED
      BY <2>1, <2>2, <2>3, <2>4
         DEF Next, NewPipeline, TransportActive, SendIOBuf, managerVars
  <1> QED
    BY <1>1, Invariance, PTL DEF Spec, RemovedByOwnClose

\* A write posted by conn_id never reaches a pipeline that is closed, however
\* long the task waited in the event base.
THEOREM WritesReachOpenOnly == Spec => WritesOnlyToOpen
  <1>1. IInv /\ [Next]_vars => [WriteStep]_vars
    <2> SUFFICES ASSUME IInv, Next PROVE WriteStep
      OBVIOUS
    <2>1. ASSUME NEW t \in Threads, RunLoopTask(t) \/ RunInboxTask(t) PROVE WriteStep
      <3>1. CASE UNCHANGED written
        BY <3>1 DEF WriteStep
      <3>2. CASE ~UNCHANGED written
        <4>1. PICK p \in Conns, task \in Tasks :
                 /\ socket[p] = "open" /\ connState[p] = "kConnected"
                 /\ written' = [written EXCEPT ![p] = Append(@, task)]
          BY <2>1, <3>2, RunTaskEffect
        <4> QED
          BY <4>1 DEF WriteStep, IInv, TypeOK
      <3> QED
        BY <3>1, <3>2
    <2>2. ASSUME UNCHANGED written PROVE WriteStep
      BY <2>2 DEF WriteStep
    <2> QED
      BY <2>1, <2>2 DEF Next, NewPipeline, TransportActive, SendIOBuf, OnNewConnection,
                        ReadClose, AppClose
  <1> QED
    BY <1>1, Invariance, PTL DEF Spec, WritesOnlyToOpen

\* A task waits only at the event base of the thread its conn_id names, so the
\* thread-local registry it is looked up in is the one that issued the id.
TasksAtHome ==
    \A t \in Threads :
        /\ \A k \in DOMAIN loopTasks[t] : loopTasks[t][k].id.thread = t
        /\ \A k \in DOMAIN inbox[t] : inbox[t][k].id.thread = t

\* ServiceManager::SendIOBuf posts to the thread in the high half of the id, and
\* that thread's manager is the one that issued the id.
LEMMA TasksStayHome == Spec => []TasksAtHome
  <1>1. Init => TasksAtHome
    BY DEF Init, TasksAtHome
  <1>2. IInv /\ TasksAtHome /\ [Next]_vars => TasksAtHome'
    <2> SUFFICES ASSUME IInv, TasksAtHome, [Next]_vars PROVE TasksAtHome'
      OBVIOUS
    <2> /\ loopTasks \in [Threads -> Seq(Tasks)]
        /\ inbox \in [Threads -> Seq(Tasks)]
      BY DEF IInv, TypeOK
    <2>1. ASSUME UNCHANGED <<loopTasks, inbox>> PROVE TasksAtHome'
      BY <2>1 DEF TasksAtHome
    <2>2. ASSUME NEW t \in Threads, RunLoopTask(t) PROVE TasksAtHome'
      <3>1. /\ inbox' = inbox
            /\ loopTasks[t] # << >>
            /\ loopTasks' = [loopTasks EXCEPT ![t] = Tail(loopTasks[t])]
        BY <2>2 DEF RunLoopTask
      <3>2. \A k \in DOMAIN Tail(loopTasks[t]) :
               k + 1 \in DOMAIN loopTasks[t] /\ Tail(loopTasks[t])[k] = loopTasks[t][k + 1]
        BY <3>1
      <3> QED
        BY <3>1, <3>2 DEF TasksAtHome
    <2>3. ASSUME NEW t \in Threads, RunInboxTask(t) PROVE TasksAtHome'
      <3>1. /\ loopTasks' = loopTasks
            /\ inbox[t] # << >>
            /\ inbox' = [inbox EXCEPT ![t] = Tail(inbox[t])]
        BY <2>3 DEF RunInboxTask
      <3>2. \A k \in DOMAIN Tail(inbox[t]) :
               k + 1 \in DOMAIN inbox[t] /\ Tail(inbox[t])[k] = inbox[t][k + 1]
        BY <3>1
      <3> QED
        BY <3>1, <3>2 DEF TasksAtHome
    <2>4. ASSUME NEW p \in Conns, NEW s \in Senders, SendIOBuf(s, p) PROVE TasksAtHome'
      <3> DEFINE task == [to |-> p, id |-> connId[p], from |-> s, n |-> sent + 1]
                 t    == connId[p].thread
      <3>1. t \in Threads /\ task.id.thread = t
        BY <2>4 DEF SendIOBuf, Issued, IInv, TypeOK, ConnIds
      <3>2. \/ /\ inbox' = inbox
               /\ loopTasks' = [loopTasks EXCEPT ![t] = Append(loopTasks[t], task)]
            \/ /\ loopTasks' = loopTasks
               /\ inbox' = [inbox EXCEPT ![t] = Append(inbox[t], task)]
        BY <2>4 DEF SendIOBuf, RunInEventBaseThread
      <3> HIDE DEF task, t
      <3>3. CASE inbox' = inbox /\ loopTasks' = [loopTasks EXCEPT ![t] = Append(loopTasks[t], task)]
        <4>1. \A k \in DOMAIN Append(loopTasks[t], task) :
                 \/ Append(loopTasks[t], task)[k] = task
                 \/ k \in DOMAIN loopTasks[t] /\ Append(loopTasks[t], task)[k] = loopTasks[t][k]
          BY <3>1
        <4> QED
          BY <3>1, <3>3, <4>1 DEF TasksAtHome
      <3>4. CASE loopTasks' = loopTasks /\ inbox' = [inbox EXCEPT ![t] = Append(inbox[t], task)]
        <4>1. \A k \in DOMAIN Append(inbox[t], task) :
                 \/ Append(inbox[t], task)[k] = task
                 \/ k \in DOMAIN inbox[t] /\ Append(inbox[t], task)[k] = inbox[t][k]
          BY <3>1
        <4> QED
          BY <3>1, <3>4, <4>1 DEF TasksAtHome
      <3> QED
        BY <3>2, <3>3, <3>4
    <2> QED
      BY <2>1, <2>2, <2>3, <2>4 DEF Next, vars, sendVars, NewPipeline, TransportActive,
         OnNewConnection, ReadClose, AppClose
  <1> QED
    BY <1>1, <1>2, Invariance, PTL DEF Spec

-----------------------------------------------------------------------------
(* ConnManager implements ConnDirectory.                                    *)

Live == [p \in Conns |-> IF connState[p] = "kConnected" THEN connId[p] ELSE None]
Gone == {p \in Conns : connState[p] = "kClosed"}

\* A close that finds the handler connected is the close of its directory
\* entry; any other close is not visible there.
LEMMA CloseRefines ==
    ASSUME IInv, NEW p \in Conns, socket[p] # "absent", Idle(home[p]), CloseHandler(p),
           connId' = connId
    PROVE  /\ connState[p] = "kConnected" =>
                 /\ Live[p] # None
                 /\ Live' = [Live EXCEPT ![p] = None]
                 /\ Gone' = Gone \cup {p}
           /\ connState[p] # "kConnected" => Live' = Live /\ Gone' = Gone
  <1>1. CASE connState[p] = "kConnected"
    <2>1. connId[p] # None /\ connState' = [connState EXCEPT ![p] = "kClosed"]
      BY <1>1, CloseHandlerEffect
    <2>2. \A q \in Conns : connState'[q] = IF q = p THEN "kClosed" ELSE connState[q]
      BY <2>1 DEF IInv, TypeOK
    <2>3. Gone' = Gone \cup {p}
      BY <2>2 DEF Gone
    <2>4. Live' = [Live EXCEPT ![p] = None]
      BY <2>2 DEF Live
    <2> QED
      BY <1>1, <2>1, <2>3, <2>4 DEF Live
  <1>2. CASE connState[p] # "kConnected"
    BY <1>2, CloseHandlerEffect DEF Live, Gone
  <1> QED
    BY <1>1, <1>2

\* The iteration of OnNewConnection that inserts opens the entry, under an id
\* that no connected pipeline has.
LEMMA OnNewConnectionRefines ==
    ASSUME IInv, NEW t \in Threads, OnNewConnection(t)
    PROVE  /\ Gone' = Gone
           /\ written' = written
           /\ \/ Live' = Live
              \/ \E p \in Conns, cid \in ConnIds :
                    /\ Live[p] = None /\ p \notin Gone
                    /\ \A q \in Conns : Live[q] # cid
                    /\ Live' = [Live EXCEPT ![p] = cid]
  <1> DEFINE p   == activating[t]
             id  == NextConnId(currentConnId[t])
             cid == [thread |-> t, low |-> id]
  <1> USE DEF IInv
  <1>1. p \in Conns /\ id \in Ids
    BY NextIdType DEF TypeOK, OnNewConnection
  <1>2. connState[p] = "kConnected" /\ connId[p] = None
    BY <1>1 DEF HandlerLifecycle
  <1>3. cid \in ConnIds /\ cid # None /\ cid.thread = t /\ cid.low = id
    BY <1>1 DEF ConnIds
  <1>4. Gone' = Gone /\ written' = written /\ connState' = connState
    BY DEF OnNewConnection, Gone
  <1>5. CASE connId' = connId
    BY <1>4, <1>5 DEF Live
  <1>6. CASE connId' # connId
    <2>1. pipelines[t][id] = None /\ connId' = [connId EXCEPT ![p] = cid]
      BY <1>6 DEF OnNewConnection
    <2> HIDE DEF p, id, cid
    <2>2. Live[p] = None /\ p \notin Gone
      BY <1>1, <1>2 DEF Live, Gone
    <2>3. \A q \in Conns : connId'[q] = IF q = p THEN cid ELSE connId[q]
      BY <1>1, <2>1 DEF TypeOK
    <2>4. Live' = [Live EXCEPT ![p] = cid]
      BY <1>1, <1>2, <1>4, <2>3 DEF Live
    <2>5. ASSUME NEW q \in Conns, Live[q] = cid PROVE FALSE
      <3>1. connState[q] = "kConnected" /\ connId[q] = cid
        BY <1>3, <2>5 DEF Live
      <3>2. home[q] = t
        BY <1>3, <3>1 DEF HandlerLifecycle
      <3>3. pipelines[t][id] = q
        BY <1>3, <3>1, <3>2 DEF RegistryExact, LiveIsRegistered
      <3> QED
        BY <2>1, <3>3
    <2> QED
      BY <1>1, <1>3, <1>4, <2>2, <2>4, <2>5
  <1> QED
    BY <1>5, <1>6

\* The directory receives a message exactly when a task finds its pipeline,
\* and the receiver is the connection that has the id at that moment.
LEMMA RunTaskRefines ==
    ASSUME IInv, TasksAtHome, NEW t \in Threads, RunLoopTask(t) \/ RunInboxTask(t)
    PROVE  \/ Live' = Live /\ Gone' = Gone /\ written' = written
           \/ \E p \in Conns, m \in Tasks :
                 /\ Live[p] = m.id
                 /\ written' = [written EXCEPT ![p] = Append(@, m)]
                 /\ \/ Live' = Live /\ Gone' = Gone
                    \/ Live' = [Live EXCEPT ![p] = None] /\ Gone' = Gone \cup {p}
  <1>1. CASE UNCHANGED <<pipelines, connState, socket, written, connId>>
    BY <1>1 DEF Live, Gone
  <1>2. CASE ~UNCHANGED <<pipelines, connState, socket, written, connId>>
    <2>1. PICK p \in Conns, task \in Tasks :
             /\ home[p] = t
             /\ socket[p] = "open"
             /\ connState[p] = "kConnected"
             /\ connId[p] # None /\ connId[p].thread = t /\ connId[p].low = task.id.low
             /\ \/ task = Head(loopTasks[t]) /\ RunLoopTask(t)
                \/ task = Head(inbox[t]) /\ RunInboxTask(t)
             /\ written' = [written EXCEPT ![p] = Append(@, task)]
             /\ connId' = connId
             /\ UNCHANGED <<pipelines, connState, socket>> \/ CloseHandler(p)
      BY <1>2, RunTaskEffect
    <2>2. Idle(t)
      BY DEF RunLoopTask, RunInboxTask
    <2>3. task.id.thread = t
      <3>1. loopTasks[t] \in Seq(Tasks) /\ inbox[t] \in Seq(Tasks)
        BY DEF IInv, TypeOK
      <3>2. CASE task = Head(loopTasks[t]) /\ RunLoopTask(t)
        <4>1. 1 \in DOMAIN loopTasks[t] /\ task = loopTasks[t][1]
          BY <3>1, <3>2 DEF RunLoopTask
        <4> QED
          BY <4>1 DEF TasksAtHome
      <3>3. CASE task = Head(inbox[t]) /\ RunInboxTask(t)
        <4>1. 1 \in DOMAIN inbox[t] /\ task = inbox[t][1]
          BY <3>1, <3>3 DEF RunInboxTask
        <4> QED
          BY <4>1 DEF TasksAtHome
      <3> QED
        BY <2>1, <3>2, <3>3
    <2>4. connId[p] = task.id
      <3>1. connId[p] \in ConnIds /\ task.id \in ConnIds
        BY <2>1 DEF IInv, TypeOK, Tasks
      <3> QED
        BY <2>1, <2>3, <3>1 DEF ConnIds
    <2>5. Live[p] = task.id
      BY <2>1, <2>4 DEF Live
    <2>6. \/ Live' = Live /\ Gone' = Gone
          \/ Live' = [Live EXCEPT ![p] = None] /\ Gone' = Gone \cup {p}
      <3>1. CASE UNCHANGED connState
        BY <2>1, <3>1 DEF Live, Gone
      <3>2. CASE CloseHandler(p)
        BY <2>1, <2>2, <3>2, CloseRefines
      <3> QED
        BY <2>1, <3>1, <3>2
    <2> QED
      BY <2>1, <2>5, <2>6
  <1> QED
    BY <1>1, <1>2

\* Connection management implements the abstract directory.
THEOREM ManagerImplementsDirectory == Spec => ImplementsDirectory
  <1> USE DEF Directory!DirInit, Directory!DirNext, Directory!dirVars, Directory!Open,
              Directory!Close, Directory!CloseEntry, Directory!Receive
  <1>1. Init => Directory!DirInit
    BY DEF Init
  <1>2. IInv /\ TasksAtHome /\ [Next]_vars => [Directory!DirNext]_(Directory!dirVars)
    <2> SUFFICES ASSUME IInv, TasksAtHome, [Next]_vars
                 PROVE  [Directory!DirNext]_(Directory!dirVars)
      OBVIOUS
    <2>1. ASSUME Live' = Live, Gone' = Gone, written' = written
          PROVE  UNCHANGED Directory!dirVars
      BY <2>1 DEF Live, Gone
    <2>2. ASSUME UNCHANGED <<connState, connId, written>>
          PROVE  UNCHANGED Directory!dirVars
      BY <2>1, <2>2 DEF Live, Gone
    <2>3. ASSUME NEW p \in Conns, TransportActive(p)
          PROVE  UNCHANGED Directory!dirVars
      <3>1. \A q \in Conns : connState'[q] = IF q = p THEN "kConnected" ELSE connState[q]
        BY <2>3 DEF TransportActive, IInv, TypeOK
      <3>2. connState[p] = "kNone" /\ connId[p] = None /\ connId' = connId /\ written' = written
        BY <2>3 DEF TransportActive, IInv, HandlerLifecycle
      <3>3. Live' = Live /\ Gone' = Gone
        BY <3>1, <3>2 DEF Live, Gone
      <3> QED
        BY <2>1, <3>2, <3>3
    <2>4. ASSUME NEW t \in Threads, OnNewConnection(t)
          PROVE  [Directory!DirNext]_(Directory!dirVars)
      BY <2>1, <2>4, OnNewConnectionRefines DEF Live, Gone
    <2>5. ASSUME NEW p \in Conns, ReadClose(p) \/ AppClose(p)
          PROVE  [Directory!DirNext]_(Directory!dirVars)
      BY <2>1, <2>5, CloseRefines DEF Live, Gone, ReadClose, AppClose
    <2>6. ASSUME NEW t \in Threads, RunLoopTask(t) \/ RunInboxTask(t)
          PROVE  [Directory!DirNext]_(Directory!dirVars)
      BY <2>1, <2>6, RunTaskRefines DEF Live, Gone
    <2> QED
      BY <2>2, <2>3, <2>4, <2>5, <2>6
         DEF Next, vars, handlerVars, NewPipeline, SendIOBuf
  <1> QED
    BY <1>1, <1>2, Invariance, TasksStayHome, PTL DEF Spec, ImplementsDirectory, Directory!DirSpec

-----------------------------------------------------------------------------
(* Ids and senders                                                          *)

OpenBound ==
    \A t \in Threads : IsFiniteSet(OpenOn(t)) /\ Cardinality(OpenOn(t)) <= MaxLive

\* The counter that the iteration which took id i has left.
Left(i) == IF i = 0 THEN 1 ELSE i

\* a iterations after the counter was l it is c: that much further round the
\* values from 1 to IdSpace - 1.
Turned(c, l, a) ==
    c \in 1 .. IdSpace - 1 /\ (c = l + a \/ c = l + a - (IdSpace - 1))

AgeOf(q) ==
    /\ connId[q] = None => age[q] = 0
    /\ connId[q] # None /\ age[q] < IdSpace - 1 =>
          Turned(currentConnId[home[q]], Left(connId[q].low), age[q])

AgeInv == \A q \in Conns : AgeOf(q)

\* The two queues of an event base, and the one that a sender's messages take.
Kinds == {"loop", "inbox"}
Queue(k, t) == IF k = "loop" THEN loopTasks[t] ELSE inbox[t]
KindOf(s, t) == IF s = t THEN "loop" ELSE "inbox"

\* A message that was sent to the connection that its id was given to.
Genuine(m) == m.id = connId[m.to] /\ m.n <= sent

Placed ==
    \A k \in Kinds, t \in Threads : \A i \in 1 .. Len(Queue(k, t)) :
        /\ Genuine(Queue(k, t)[i])
        /\ Queue(k, t)[i].id.thread = t
        /\ k = KindOf(Queue(k, t)[i].from, t)

QueueOrder ==
    \A k \in Kinds, t \in Threads : \A i, j \in 1 .. Len(Queue(k, t)) :
        i < j => Queue(k, t)[i].n < Queue(k, t)[j].n

WrittenPlaced ==
    \A p \in Conns : \A j \in 1 .. Len(written[p]) : Genuine(written[p][j])

SameStream(a, b) == a.from = b.from /\ a.to = b.to

WrittenFirst ==
    \A p \in Conns : \A j \in 1 .. Len(written[p]) :
        \A k \in Kinds, t \in Threads : \A i \in 1 .. Len(Queue(k, t)) :
            SameStream(written[p][j], Queue(k, t)[i]) => written[p][j].n < Queue(k, t)[i].n

SendInv == Placed /\ QueueOrder /\ WrittenPlaced /\ WrittenFirst /\ SenderOrderKept

-----------------------------------------------------------------------------
(* The allocation loop                                                      *)

\* Only NewPipeline adds to the open connections of a thread.
LEMMA OpenShrinks ==
    ASSUME IInv, [Next]_vars, ~ \E p \in Conns, t \in Threads : NewPipeline(p, t)
    PROVE  \A t \in Threads : OpenOn(t)' \subseteq OpenOn(t)
<1>1. SUFFICES /\ home' = home
               /\ \A q \in Conns : socket'[q] = "open" => socket[q] = "open"
  BY DEF OpenOn
<1>2. ASSUME NEW p \in Conns, CloseHandler(p)
      PROVE  \A q \in Conns : socket'[q] = "open" => socket[q] = "open"
  BY <1>2 DEF CloseHandler, IInv, TypeOK
<1>3. ASSUME NEW p \in Conns, ReadClose(p) \/ AppClose(p)
      PROVE  home' = home /\ CloseHandler(p)
  BY <1>3 DEF ReadClose, AppClose
<1>4. ASSUME NEW t \in Threads, RunLoopTask(t) \/ RunInboxTask(t)
      PROVE  /\ home' = home
             /\ socket' = socket \/ \E p \in Conns : CloseHandler(p)
  BY <1>4, RunTaskEffect DEF RunLoopTask, RunInboxTask
<1>5. ASSUME NEW p \in Conns, TransportActive(p) \/ \E s \in Senders : SendIOBuf(s, p)
      PROVE  home' = home /\ socket' = socket
  BY <1>5 DEF TransportActive, SendIOBuf, handlerVars
<1>6. ASSUME NEW t \in Threads, OnNewConnection(t)
      PROVE  home' = home /\ socket' = socket
  BY <1>6 DEF OnNewConnection
<1>7. UNCHANGED vars => home' = home /\ socket' = socket
  BY DEF vars, handlerVars
<1>8. /\ home' = home
      /\ socket' = socket \/ \E p \in Conns : CloseHandler(p)
  BY <1>3, <1>4, <1>5, <1>6, <1>7 DEF Next
<1> QED
  BY <1>2, <1>8

\* The guard of NewPipeline bounds the open connections of a thread.
LEMMA OpenBounded == Spec => []OpenBound
<1> USE MaxLiveAssumption
<1>1. Init => OpenBound
  <2> SUFFICES ASSUME Init, NEW t \in Threads
               PROVE  IsFiniteSet(OpenOn(t)) /\ Cardinality(OpenOn(t)) <= MaxLive
    BY DEF OpenBound
  <2>1. OpenOn(t) = {}
    BY DEF Init, OpenOn
  <2> QED
    BY <2>1, FS_EmptySet
<1>2. IInv /\ OpenBound /\ [Next]_vars => OpenBound'
  <2> SUFFICES ASSUME IInv, OpenBound, [Next]_vars, NEW t \in Threads
               PROVE  IsFiniteSet(OpenOn(t))' /\ (Cardinality(OpenOn(t)) <= MaxLive)'
    BY DEF OpenBound
  <2>0. IsFiniteSet(OpenOn(t)) /\ Cardinality(OpenOn(t)) <= MaxLive
        /\ Cardinality(OpenOn(t)) \in Nat
    BY FS_CardinalityType DEF OpenBound
  <2>1. CASE \E p \in Conns, u \in Threads : NewPipeline(p, u)
    <3>1. PICK p \in Conns, u \in Threads : NewPipeline(p, u)
      BY <2>1
    <3>2. /\ \A q \in Conns : home'[q] = IF q = p THEN u ELSE home[q]
          /\ \A q \in Conns : socket'[q] = IF q = p THEN "open" ELSE socket[q]
          /\ socket[p] = "absent" /\ Cardinality(OpenOn(u)) < MaxLive
      BY <3>1 DEF NewPipeline, IInv, TypeOK
    <3>3. CASE u = t
      <4>1. OpenOn(t)' = OpenOn(t) \cup {p}
        BY <3>2, <3>3 DEF OpenOn
      <4>2. /\ IsFiniteSet(OpenOn(t) \cup {p})
            /\ Cardinality(OpenOn(t) \cup {p}) = Cardinality(OpenOn(t)) + 1
        <5>1. p \notin OpenOn(t)
          BY <3>2 DEF OpenOn
        <5> QED
          BY <2>0, <5>1, FS_AddElement
      <4>3. Cardinality(OpenOn(t) \cup {p}) <= MaxLive
        <5>1. Cardinality(OpenOn(t) \cup {p}) \in Nat
          BY <4>2, FS_CardinalityType
        <5> QED
          BY <2>0, <3>2, <3>3, <4>2, <5>1
      <4> QED
        BY <4>1, <4>2, <4>3
    <3>4. CASE u # t
      <4>1. OpenOn(t)' = OpenOn(t)
        BY <3>2, <3>4 DEF OpenOn
      <4> QED
        BY <2>0, <4>1
    <3> QED
      BY <3>3, <3>4
  <2>2. CASE ~ \E p \in Conns, u \in Threads : NewPipeline(p, u)
    <3>1. OpenOn(t)' \subseteq OpenOn(t)
      BY <2>2, OpenShrinks
    <3>2. IsFiniteSet(OpenOn(t)') /\ Cardinality(OpenOn(t)') <= Cardinality(OpenOn(t))
      BY <2>0, <3>1, FS_Subset
    <3>3. Cardinality(OpenOn(t)') \in Nat
      BY <3>2, FS_CardinalityType
    <3> QED
      BY <2>0, <3>2, <3>3
  <2> QED
    BY <2>1, <2>2
<1> QED
  BY <1>1, <1>2, Invariance, PTL DEF Spec

\* While a pipeline waits for its id, the ids that the loop comes by are not all
\* taken: every entry belongs to an open connection of the thread, no two to the
\* same one, and none to the pipeline that waits.
THEOREM AllocationTerminates == Spec => []AllocationEnds
<1>1. IInv /\ OpenBound => AllocationEnds
  <2> SUFFICES ASSUME IInv, OpenBound, NEW t \in Threads, ~Idle(t),
                      \A i \in Ids \ {1} : pipelines[t][i] # None
               PROVE  FALSE
    BY DEF AllocationEnds
  <2> USE MaxLiveAssumption
  <2> DEFINE a == activating[t]
             S == Ids \ {1}
             T == OpenOn(t) \ {a}
             f == [i \in S |-> pipelines[t][i]]
  <2>1. a \in Conns /\ home[a] = t /\ socket[a] = "open" /\ connId[a] = None
    BY DEF Idle, IInv, TypeOK, HandlerLifecycle
  <2>2. \A i \in S : /\ f[i] \in T
                     /\ connId[f[i]].low = i
    <3> SUFFICES ASSUME NEW i \in S
                 PROVE  f[i] \in T /\ connId[f[i]].low = i
      OBVIOUS
    <3>1. f[i] = pipelines[t][i] /\ i \in Ids /\ f[i] \in Conns
      BY DEF IInv, TypeOK
    <3>2. /\ home[f[i]] = t /\ socket[f[i]] = "open" /\ connId[f[i]] # None
          /\ connId[f[i]].low = i
      BY <3>1 DEF IInv, RegistryExact, RegisteredIsLive
    <3> QED
      BY <2>1, <3>1, <3>2 DEF OpenOn
  <2>3. f \in Injection(S, T)
    <3>1. f \in [S -> T]
      BY <2>2
    <3>2. \A i, j \in S : f[i] = f[j] => i = j
      BY <2>2
    <3> QED
      BY <3>1, <3>2 DEF Injection, IsInjective
  <2>4. /\ IsFiniteSet(T) /\ a \in OpenOn(t)
        /\ Cardinality(T) = Cardinality(OpenOn(t)) - 1
        /\ Cardinality(OpenOn(t)) <= MaxLive
    BY <2>1, FS_RemoveElement DEF OpenBound, OpenOn
  <2>5. Cardinality(S) = IdSpace - 1
    <3>1. IsFiniteSet(Ids) /\ Cardinality(Ids) = IdSpace /\ 1 \in Ids
      <4>1. IsFiniteSet(0 .. IdSpace - 1) /\ Cardinality(0 .. IdSpace - 1) = IdSpace
        BY FS_Interval
      <4> QED
        BY <4>1 DEF Ids
    <3> QED
      BY <3>1, FS_RemoveElement
  <2> HIDE DEF S, T, f
  <2>6. Cardinality(S) <= Cardinality(T)
    BY <2>3, <2>4, FS_Injection
  <2>7. Cardinality(OpenOn(t)) \in Nat
    BY FS_CardinalityType DEF OpenBound
  <2> QED
    BY <2>4, <2>5, <2>6, <2>7
<1> QED
  BY <1>1, OpenBounded, Invariance, PTL

-----------------------------------------------------------------------------
(* The turn of the counter                                                  *)

\* One iteration moves the counter on by one, from IdSpace - 1 to 1.
LEMMA CounterTurns ==
    ASSUME NEW c \in 1 .. IdSpace - 1
    PROVE  /\ CounterAfter(c) = IF c = IdSpace - 1 THEN 1 ELSE c + 1
           /\ NextConnId(c) = IF c = IdSpace - 1 THEN 0 ELSE c + 1
<1>1. IdSpace \in Nat /\ IdSpace > 1
  OBVIOUS
<1>2. NextConnId(c) = IF c = IdSpace - 1 THEN 0 ELSE c + 1
  <2>1. CASE c = IdSpace - 1
    BY <1>1, <2>1 DEF NextConnId
  <2>2. CASE c # IdSpace - 1
    BY <1>1, <2>2 DEF NextConnId
  <2> QED
    BY <2>1, <2>2
<1> QED
  BY <1>1, <1>2 DEF CounterAfter

\* The iteration that takes id i leaves Left(i).
LEMMA CounterLeft ==
    ASSUME NEW c \in Ids
    PROVE  /\ CounterAfter(c) = Left(NextConnId(c))
           /\ CounterAfter(c) \in 1 .. IdSpace - 1
  BY NextIdType DEF CounterAfter, Left, Ids

\* What an iteration of OnNewConnection does to ids, ages and the counter.
LEMMA IterationEffect ==
    ASSUME IInv, NEW t \in Threads, OnNewConnection(t)
    PROVE  /\ UNCHANGED home
           /\ \A u \in Threads : currentConnId'[u] =
                 IF u = t THEN CounterAfter(currentConnId[t]) ELSE currentConnId[u]
           /\ \A q \in Conns : age'[q] =
                 IF connId[q] # None /\ home[q] = t /\ age[q] < IdSpace - 1
                 THEN age[q] + 1 ELSE age[q]
           /\ \/ connId' = connId
              \/ \E p \in Conns :
                    /\ connId[p] = None /\ home[p] = t
                    /\ \A q \in Conns : connId'[q] =
                          IF q = p THEN [thread |-> t, low |-> NextConnId(currentConnId[t])]
                          ELSE connId[q]
<1>1. activating[t] \in Conns /\ home[activating[t]] = t /\ connId[activating[t]] = None
  BY DEF OnNewConnection, IInv, TypeOK, HandlerLifecycle
<1>2. \A u \in Threads : currentConnId'[u] =
         IF u = t THEN CounterAfter(currentConnId[t]) ELSE currentConnId[u]
  BY DEF OnNewConnection, IInv, TypeOK
<1>3. \A q \in Conns : age'[q] =
         IF connId[q] # None /\ home[q] = t /\ age[q] < IdSpace - 1 THEN age[q] + 1 ELSE age[q]
  BY DEF OnNewConnection, Issued
<1>4. \/ connId' = connId
      \/ connId' = [connId EXCEPT ![activating[t]] =
                        [thread |-> t, low |-> NextConnId(currentConnId[t])]]
  BY DEF OnNewConnection
<1>5. UNCHANGED home
  BY DEF OnNewConnection
<1> QED
  BY <1>1, <1>2, <1>3, <1>4, <1>5 DEF IInv, TypeOK

\* No other step touches them, but for the home of a pipeline that has no id.
LEMMA IdsStay ==
    ASSUME IInv, [Next]_vars, ~ \E t \in Threads : OnNewConnection(t)
    PROVE  /\ UNCHANGED <<currentConnId, connId, age>>
           /\ \A q \in Conns : connId[q] # None => home'[q] = home[q]
<1>1. ASSUME NEW p \in Conns, NEW t \in Threads, NewPipeline(p, t)
      PROVE  /\ UNCHANGED <<currentConnId, connId, age>>
             /\ \A q \in Conns : connId[q] # None => home'[q] = home[q]
  <2>1. UNCHANGED <<currentConnId, connId, age>> /\ home' = [home EXCEPT ![p] = t]
    BY <1>1 DEF NewPipeline, managerVars
  <2>2. connId[p] = None
    BY <1>1 DEF NewPipeline, IInv, TypeOK, HandlerLifecycle, ConnIds
  <2> QED
    BY <2>1, <2>2 DEF IInv, TypeOK
<1>2. ASSUME NEW p \in Conns, TransportActive(p) \/ ReadClose(p) \/ AppClose(p)
      PROVE  UNCHANGED <<currentConnId, connId, age, home>>
  BY <1>2 DEF TransportActive, ReadClose, AppClose
<1>3. ASSUME NEW p \in Conns, NEW s \in Senders, SendIOBuf(s, p)
      PROVE  UNCHANGED <<currentConnId, connId, age, home>>
  BY <1>3 DEF SendIOBuf, managerVars, handlerVars
<1>4. ASSUME NEW t \in Threads, RunLoopTask(t) \/ RunInboxTask(t)
      PROVE  UNCHANGED <<currentConnId, connId, age, home>>
  BY <1>4 DEF RunLoopTask, RunInboxTask
<1>5. UNCHANGED vars => UNCHANGED <<currentConnId, connId, age, home>>
  BY DEF vars, managerVars, handlerVars
<1> QED
  BY <1>1, <1>2, <1>3, <1>4, <1>5 DEF Next

\* An iteration keeps it: the ages of the thread and its counter move together,
\* and a new id starts at age 0.
LEMMA IterationAges ==
    ASSUME IInv, AgeInv, NEW t \in Threads, OnNewConnection(t)
    PROVE  AgeInv'
<1> SUFFICES ASSUME NEW q \in Conns PROVE AgeOf(q)'
  BY DEF AgeInv
<1>0. AgeOf(q) /\ age[q] \in Ids /\ currentConnId[t] \in Ids /\ connId[q] \in ConnIds \cup {None}
  BY DEF AgeInv, IInv, TypeOK
<1>1. /\ home' = home
      /\ \A u \in Threads : currentConnId'[u] =
            IF u = t THEN CounterAfter(currentConnId[t]) ELSE currentConnId[u]
      /\ age'[q] = IF connId[q] # None /\ home[q] = t /\ age[q] < IdSpace - 1
                   THEN age[q] + 1 ELSE age[q]
  BY IterationEffect
<1>2. CASE connId'[q] = connId[q]
  <2>1. CASE connId[q] = None
    BY <1>0, <1>1, <1>2, <2>1 DEF AgeOf
  <2>2. CASE connId[q] # None /\ home[q] # t
    <3>1. home[q] \in Threads
      BY <1>0, <2>2 DEF IInv, HandlerLifecycle, ConnIds
    <3>2. currentConnId'[home'[q]] = currentConnId[home[q]] /\ age'[q] = age[q]
      BY <1>1, <2>2, <3>1
    <3> QED
      BY <1>0, <1>2, <2>2, <3>2 DEF AgeOf
  <2>3. CASE connId[q] # None /\ home[q] = t /\ ~ (age[q] < IdSpace - 1)
    BY <1>0, <1>1, <1>2, <2>3 DEF AgeOf
  <2>4. CASE connId[q] # None /\ home[q] = t /\ age[q] < IdSpace - 1
    <3> DEFINE c == currentConnId[t]
               l == Left(connId[q].low)
    <3>1. /\ c \in 1 .. IdSpace - 1
          /\ c = l + age[q] \/ c = l + age[q] - (IdSpace - 1)
      <4>1. Turned(c, l, age[q])
        BY <1>0, <2>4 DEF AgeOf
      <4> QED
        BY <4>1 DEF Turned
    <3>2. l \in 1 .. IdSpace - 1
      BY <1>0, <2>4 DEF Left, ConnIds, Ids
    <3>3. CounterAfter(c) = IF c = IdSpace - 1 THEN 1 ELSE c + 1
      BY <3>1, CounterTurns
    <3>4. /\ currentConnId'[home'[q]] = CounterAfter(c)
          /\ Left(connId'[q].low) = l /\ age'[q] = age[q] + 1
      BY <1>1, <1>2, <2>4
    <3> HIDE DEF c, l
    <3>5. Turned(CounterAfter(c), l, age[q] + 1)
      BY <1>0, <2>4, <3>1, <3>2, <3>3 DEF Ids, Turned
    <3>6. Turned(currentConnId'[home'[q]], Left(connId'[q].low), age'[q])
      BY <3>4, <3>5
    <3> QED
      BY <1>2, <2>4, <3>6 DEF AgeOf
  <2> QED
    BY <2>1, <2>2, <2>3, <2>4
<1>3. CASE connId'[q] # connId[q]
  <2>1. /\ connId[q] = None /\ home[q] = t
        /\ connId'[q] = [thread |-> t, low |-> NextConnId(currentConnId[t])]
    BY <1>3, IterationEffect
  <2>2. age'[q] = 0
    BY <1>0, <1>1, <2>1 DEF AgeOf
  <2>3. connId'[q].low = NextConnId(currentConnId[t])
    BY <2>1
  <2>4. /\ currentConnId'[home'[q]] = Left(connId'[q].low)
        /\ Left(connId'[q].low) \in 1 .. IdSpace - 1
    BY <1>0, <1>1, <2>1, <2>3, CounterLeft
  <2>5. connId'[q] # None
    BY <1>0, <2>1, NextIdType DEF ConnIds
  <2>6. Turned(currentConnId'[home'[q]], Left(connId'[q].low), age'[q])
    BY <2>2, <2>4 DEF Turned
  <2> QED
    BY <2>5, <2>6 DEF AgeOf
<1> QED
  BY <1>2, <1>3

\* Two connections of one thread with the same id, and one of the two aged out.
Reused(p, q) ==
    connId[p] # None /\ connId[q] # None /\ p # q /\ connId[p] = connId[q]
        => age[p] = IdSpace - 1 \/ age[q] = IdSpace - 1

\* The iteration that gives p the id of q is the last one of a turn.
LEMMA IterationReuses ==
    ASSUME IInv, AgeInv, NEW t \in Threads, OnNewConnection(t), NEW p \in Conns, NEW q \in Conns,
           connId[p] = None, connId'[p] # None, connId[q] # None, connId'[q] = connId[q],
           connId'[p] = connId[q]
    PROVE  age'[q] = IdSpace - 1
<1> DEFINE c == currentConnId[t]
           i == NextConnId(c)
<1>1. connId'[p] = [thread |-> t, low |-> i]
  BY IterationEffect
<1>2. connId[q].thread = t /\ connId[q].low = i
  BY <1>1
<1>3. home[q] = t
  BY <1>2 DEF IInv, HandlerLifecycle
<1>4. AgeOf(q) /\ age[q] \in Ids
  BY DEF AgeInv, IInv, TypeOK
<1>5. age'[q] = IF age[q] < IdSpace - 1 THEN age[q] + 1 ELSE age[q]
  BY <1>3, IterationEffect
<1>6. CASE age[q] < IdSpace - 1
  <2>1. /\ c \in 1 .. IdSpace - 1
        /\ c = Left(i) + age[q] \/ c = Left(i) + age[q] - (IdSpace - 1)
    <3>1. Turned(c, Left(i), age[q])
      BY <1>2, <1>3, <1>4, <1>6 DEF AgeOf
    <3> QED
      BY <3>1 DEF Turned
  <2>2. i = IF c = IdSpace - 1 THEN 0 ELSE c + 1
    BY <2>1, CounterTurns
  <2>3. Left(i) = IF c = IdSpace - 1 THEN 1 ELSE c + 1
    BY <2>1, <2>2 DEF Left
  <2> HIDE DEF c, i
  <2>4. age[q] + 1 = IdSpace - 1
    BY <1>4, <1>6, <2>1, <2>3 DEF Ids
  <2> QED
    BY <1>5, <1>6, <2>4
<1>7. CASE ~ (age[q] < IdSpace - 1)
  BY <1>4, <1>5, <1>7 DEF Ids
<1> QED
  BY <1>6, <1>7

\* The ages and what they say about ids that are given out a second time.
LEMMA AgesKept == Spec => [](AgeInv /\ IdReusedOnlyAfterWrap)
<1>1. Init => AgeInv /\ IdReusedOnlyAfterWrap
  BY DEF Init, AgeInv, AgeOf, IdReusedOnlyAfterWrap, Issued
<1>2. IInv /\ AgeInv /\ IdReusedOnlyAfterWrap /\ [Next]_vars
         => AgeInv' /\ IdReusedOnlyAfterWrap'
  <2> SUFFICES ASSUME IInv, AgeInv, IdReusedOnlyAfterWrap, [Next]_vars
               PROVE  AgeInv' /\ IdReusedOnlyAfterWrap'
    OBVIOUS
  <2>1. CASE ~ \E t \in Threads : OnNewConnection(t)
    <3>1. /\ UNCHANGED <<currentConnId, connId, age>>
          /\ \A q \in Conns : connId[q] # None => home'[q] = home[q]
      BY <2>1, IdsStay
    <3> QED
      BY <3>1 DEF AgeInv, AgeOf, IdReusedOnlyAfterWrap, Issued
  <2>2. CASE \E t \in Threads : OnNewConnection(t)
    <3>1. PICK t \in Threads : OnNewConnection(t)
      BY <2>2
    <3>2. AgeInv'
      BY <3>1, IterationAges
    <3>3. ASSUME NEW p \in Conns, NEW q \in Conns PROVE Reused(p, q)'
      <4> SUFFICES ASSUME connId'[p] # None, connId'[q] # None, p # q, connId'[p] = connId'[q]
                   PROVE  age'[p] = IdSpace - 1 \/ age'[q] = IdSpace - 1
        BY DEF Reused
      <4>1. \A r \in Conns : age[r] = IdSpace - 1 => age'[r] = IdSpace - 1
        <5>1. ASSUME NEW r \in Conns, age[r] = IdSpace - 1 PROVE age'[r] = IdSpace - 1
          <6>1. age'[r] = IF connId[r] # None /\ home[r] = t /\ age[r] < IdSpace - 1
                          THEN age[r] + 1 ELSE age[r]
            BY <3>1, IterationEffect
          <6>2. ~ (age[r] < IdSpace - 1)
            BY <5>1
          <6> QED
            BY <5>1, <6>1, <6>2
        <5> QED
          BY <5>1
      <4>i. \A r, z \in Conns :
               connId'[r] # connId[r] /\ connId'[z] # connId[z] => r = z
        <5>1. ASSUME NEW x \in Conns, NEW r \in Conns,
                     \A y \in Conns : connId'[y] =
                        IF y = x THEN [thread |-> t, low |-> NextConnId(currentConnId[t])]
                        ELSE connId[y],
                     connId'[r] # connId[r]
              PROVE  r = x
          BY <5>1
        <5>2. \/ \A r \in Conns : connId'[r] = connId[r]
              \/ \E x \in Conns : \A r \in Conns : connId'[r] # connId[r] => r = x
          <6>1. CASE connId' = connId
            BY <6>1
          <6>2. CASE \E x \in Conns : \A y \in Conns : connId'[y] =
                        IF y = x THEN [thread |-> t, low |-> NextConnId(currentConnId[t])]
                        ELSE connId[y]
            BY <5>1, <6>2
          <6> QED
            BY <3>1, <6>1, <6>2, IterationEffect
        <5> QED
          BY <5>2
      <4>2. CASE connId[p] # None /\ connId[q] # None
        <5>1. connId'[p] = connId[p] /\ connId'[q] = connId[q]
          BY <3>1, <4>2, IterationEffect
        <5>2. age[p] = IdSpace - 1 \/ age[q] = IdSpace - 1
          BY <4>2, <5>1 DEF IdReusedOnlyAfterWrap, Issued
        <5> QED
          BY <4>1, <5>2
      <4>3. CASE connId[p] = None
        <5>1. connId[q] # None /\ connId'[q] = connId[q]
          BY <3>1, <4>3, <4>i
        <5> QED
          BY <3>1, <4>3, <5>1, IterationReuses
      <4>4. CASE connId[q] = None
        <5>1. connId[p] # None /\ connId'[p] = connId[p]
          BY <3>1, <4>4, <4>i
        <5> QED
          BY <3>1, <4>4, <5>1, IterationReuses
      <4> QED
        BY <4>2, <4>3, <4>4
    <3>4. IdReusedOnlyAfterWrap'
      BY <3>3 DEF IdReusedOnlyAfterWrap, Issued, Reused
    <3> QED
      BY <3>2, <3>4
  <2> QED
    BY <2>1, <2>2
<1> QED
  BY <1>1, <1>2, Invariance, PTL DEF Spec

\* The counter goes all the way round before an id is given out a second time.
THEOREM ReuseAfterWrap == Spec => []IdReusedOnlyAfterWrap
  BY AgesKept, PTL

-----------------------------------------------------------------------------
(* The order of one sender's messages                                       *)

\* The queues hold tasks, and so do the histories of the pipelines.
LEMMA QueueTypes ==
    ASSUME IInv
    PROVE  /\ \A k \in Kinds, t \in Threads :
                 /\ Queue(k, t) \in Seq(Tasks) /\ Len(Queue(k, t)) \in Nat
                 /\ \A i \in 1 .. Len(Queue(k, t)) : Queue(k, t)[i] \in Tasks
           /\ \A p \in Conns :
                 /\ written[p] \in Seq(Tasks) /\ Len(written[p]) \in Nat
                 /\ \A j \in 1 .. Len(written[p]) : written[p][j] \in Tasks
<1>1. \A k \in Kinds, t \in Threads : Queue(k, t) \in Seq(Tasks)
  BY DEF IInv, TypeOK, Kinds, Queue
<1>2. \A p \in Conns : written[p] \in Seq(Tasks)
  BY DEF IInv, TypeOK
<1> QED
  BY <1>1, <1>2, LenProperties, ElementOfSeq

\* Task m is put at the end of queue k of thread t.
Posted(k, t, m) ==
    \A h \in Kinds, u \in Threads :
        /\ Len(Queue(h, u))' = IF h = k /\ u = t THEN Len(Queue(h, u)) + 1 ELSE Len(Queue(h, u))
        /\ \A i \in 1 .. Len(Queue(h, u)) : Queue(h, u)'[i] = Queue(h, u)[i]
        /\ h = k /\ u = t => Queue(h, u)'[Len(Queue(h, u)) + 1] = m

\* The first task of queue k of thread t is taken.
Taken(k, t) ==
    /\ Len(Queue(k, t)) > 0
    /\ Len(Queue(k, t))' = Len(Queue(k, t)) - 1
    /\ \A i \in 1 .. Len(Queue(k, t)) - 1 : Queue(k, t)'[i] = Queue(k, t)[i + 1]
    /\ \A h \in Kinds, u \in Threads : h # k \/ u # t => Queue(h, u)' = Queue(h, u)

\* Task m is written to pipeline p.
Wrote(p, m) ==
    \A q \in Conns :
        /\ Len(written'[q]) = IF q = p THEN Len(written[q]) + 1 ELSE Len(written[q])
        /\ \A j \in 1 .. Len(written[q]) : written'[q][j] = written[q][j]
        /\ q = p => written'[q][Len(written[q]) + 1] = m

\* What SendIOBuf does to the queues.
LEMMA SendPosts ==
    ASSUME IInv, NEW s \in Senders, NEW p \in Conns, SendIOBuf(s, p)
    PROVE  /\ UNCHANGED <<connId, written>> /\ sent' = sent + 1
           /\ \E m \in Tasks, t \in Threads :
                 /\ m.id = connId[m.to] /\ m.id.thread = t /\ m.from = s /\ m.n = sent + 1
                 /\ Posted(KindOf(s, t), t, m)
<1>1. connId[p] \in ConnIds /\ sent + 1 \in 1 .. MaxMsgs
  BY DEF SendIOBuf, Issued, IInv, TypeOK
<1>t. PICK t \in Threads : t = connId[p].thread
  BY <1>1 DEF ConnIds
<1>k. PICK k \in Kinds : k = KindOf(s, t)
  BY DEF KindOf, Kinds
<1>2. PICK m \in Tasks : m = [to |-> p, id |-> connId[p], from |-> s, n |-> sent + 1]
  BY <1>1 DEF Tasks
<1>3. /\ UNCHANGED <<connId, written>> /\ sent' = sent + 1
      /\ RunInEventBaseThread(s, t, m)
  BY <1>2, <1>t DEF SendIOBuf, handlerVars
<1>4. /\ Queue(k, t)' = Append(Queue(k, t), m)
      /\ \A h \in Kinds, u \in Threads : h # k \/ u # t => Queue(h, u)' = Queue(h, u)
  <2>0. loopTasks \in [Threads -> Seq(Tasks)] /\ inbox \in [Threads -> Seq(Tasks)]
    BY DEF IInv, TypeOK
  <2>1. CASE s = t
    <3>1. loopTasks' = [loopTasks EXCEPT ![t] = Append(@, m)] /\ inbox' = inbox /\ k = "loop"
      BY <1>3, <1>k, <2>1 DEF RunInEventBaseThread, KindOf
    <3>2. /\ loopTasks'[t] = Append(loopTasks[t], m)
          /\ \A u \in Threads \ {t} : loopTasks'[u] = loopTasks[u]
      BY <2>0, <3>1
    <3> QED
      BY <3>1, <3>2 DEF Kinds, Queue
  <2>2. CASE s # t
    <3>1. inbox' = [inbox EXCEPT ![t] = Append(@, m)] /\ loopTasks' = loopTasks /\ k = "inbox"
      BY <1>3, <1>k, <2>2 DEF RunInEventBaseThread, KindOf
    <3>2. inbox'[t] = Append(inbox[t], m) /\ \A u \in Threads \ {t} : inbox'[u] = inbox[u]
      BY <2>0, <3>1
    <3> QED
      BY <3>1, <3>2 DEF Kinds, Queue
  <2> QED
    BY <2>1, <2>2
<1>5. /\ Len(Queue(k, t))' = Len(Queue(k, t)) + 1
      /\ \A i \in 1 .. Len(Queue(k, t)) : Queue(k, t)'[i] = Queue(k, t)[i]
      /\ Queue(k, t)'[Len(Queue(k, t)) + 1] = m
  BY <1>4, QueueTypes, AppendProperties
<1>6. Posted(k, t, m)
  <2> SUFFICES ASSUME NEW h \in Kinds, NEW u \in Threads
               PROVE  /\ Len(Queue(h, u))' =
                            IF h = k /\ u = t THEN Len(Queue(h, u)) + 1 ELSE Len(Queue(h, u))
                      /\ \A i \in 1 .. Len(Queue(h, u)) : Queue(h, u)'[i] = Queue(h, u)[i]
                      /\ h = k /\ u = t => Queue(h, u)'[Len(Queue(h, u)) + 1] = m
    BY DEF Posted
  <2>1. CASE h = k /\ u = t
    BY <1>5, <2>1
  <2>2. CASE h # k \/ u # t
    BY <1>4, <2>2
  <2> QED
    BY <2>1, <2>2
<1>7. m.id = connId[m.to] /\ m.id.thread = t /\ m.from = s /\ m.n = sent + 1
  BY <1>2, <1>t
<1>8. Posted(KindOf(s, t), t, m)
  BY <1>6, <1>k
<1> QED
  BY <1>3, <1>7, <1>8

\* What running a task does to the queues and to the pipelines.
LEMMA RunTakes ==
    ASSUME IInv, NEW t \in Threads, RunLoopTask(t) \/ RunInboxTask(t)
    PROVE  /\ UNCHANGED <<connId, sent>>
           /\ \E k \in Kinds :
                 /\ Taken(k, t)
                 /\ written' = written \/ \E p \in Conns : Wrote(p, Queue(k, t)[1])
<1>1. UNCHANGED <<connId, sent>>
  BY DEF RunLoopTask, RunInboxTask
<1>2. PICK k \in Kinds :
         /\ Queue(k, t) # << >>
         /\ Queue(k, t)' = Tail(Queue(k, t))
         /\ \A h \in Kinds, u \in Threads : h # k \/ u # t => Queue(h, u)' = Queue(h, u)
         /\ SendIOBufByConnID(t, Head(Queue(k, t)))
  <2>0. loopTasks \in [Threads -> Seq(Tasks)] /\ inbox \in [Threads -> Seq(Tasks)]
    BY DEF IInv, TypeOK
  <2> USE DEF Kinds
  <2>1. CASE RunLoopTask(t)
    <3>1. /\ loopTasks[t] # << >> /\ loopTasks' = [loopTasks EXCEPT ![t] = Tail(@)]
          /\ inbox' = inbox
          /\ SendIOBufByConnID(t, Head(loopTasks[t]))
      BY <2>1 DEF RunLoopTask
    <3> WITNESS "loop" \in Kinds
    <3> QED
      BY <2>0, <3>1 DEF Queue
  <2>2. CASE RunInboxTask(t)
    <3>1. /\ inbox[t] # << >> /\ inbox' = [inbox EXCEPT ![t] = Tail(@)]
          /\ loopTasks' = loopTasks
          /\ SendIOBufByConnID(t, Head(inbox[t]))
      BY <2>2 DEF RunInboxTask
    <3> WITNESS "inbox" \in Kinds
    <3> QED
      BY <2>0, <3>1 DEF Queue
  <2> QED
    BY <2>1, <2>2
<1> DEFINE m == Queue(k, t)[1]
<1>3. /\ Queue(k, t) \in Seq(Tasks) /\ Len(Queue(k, t)) \in Nat /\ Len(Queue(k, t)) > 0
      /\ Head(Queue(k, t)) = m /\ m \in Tasks
      /\ Len(Tail(Queue(k, t))) = Len(Queue(k, t)) - 1
      /\ \A i \in 1 .. Len(Queue(k, t)) - 1 : Tail(Queue(k, t))[i] = Queue(k, t)[i + 1]
  <2>1. Queue(k, t) \in Seq(Tasks)
    BY QueueTypes
  <2>2. Len(Queue(k, t)) \in Nat /\ Len(Queue(k, t)) > 0
    BY <1>2, <2>1, EmptySeq, LenProperties
  <2> QED
    BY <1>2, <2>1, <2>2, HeadTailProperties, ElementOfSeq
<1>4. Taken(k, t)
  BY <1>2, <1>3 DEF Taken
<1>5. ASSUME written' # written PROVE \E p \in Conns : Wrote(p, m)
  <2> DEFINE p == pipelines[t][m.id.low]
  <2>1. p # None /\ written' = [written EXCEPT ![p] = Append(@, m)]
    BY <1>2, <1>3, <1>5 DEF SendIOBufByConnID
  <2>2. p \in Conns
    <3>1. m.id.low \in Ids
      BY <1>3 DEF Tasks, ConnIds
    <3>2. pipelines[t][m.id.low] \in Conns \cup {None}
      <4> HIDE DEF m
      <4> QED
        BY <3>1 DEF IInv, TypeOK
    <3> QED
      BY <2>1, <3>2
  <2> HIDE DEF p, m
  <2>3. written \in [Conns -> Seq(Tasks)]
    BY DEF IInv, TypeOK
  <2>4. \A q \in Conns : written'[q] = IF q = p THEN Append(written[q], m) ELSE written[q]
    BY <2>1, <2>2, <2>3
  <2>5. ASSUME NEW q \in Conns
        PROVE  /\ Len(written'[q]) = IF q = p THEN Len(written[q]) + 1 ELSE Len(written[q])
               /\ \A j \in 1 .. Len(written[q]) : written'[q][j] = written[q][j]
               /\ q = p => written'[q][Len(written[q]) + 1] = m
    <3>1. /\ Len(Append(written[q], m)) = Len(written[q]) + 1
          /\ \A j \in 1 .. Len(written[q]) : Append(written[q], m)[j] = written[q][j]
          /\ Append(written[q], m)[Len(written[q]) + 1] = m
      BY <1>3, <2>3, AppendProperties
    <3> QED
      BY <2>4, <3>1
  <2>6. Wrote(p, m)
    BY <2>5 DEF Wrote
  <2> QED
    BY <2>2, <2>6
<1> QED
  BY <1>1, <1>4, <1>5

\* An id that was given out stays with its connection, so a genuine message
\* stays genuine.
LEMMA GenuineStays ==
    ASSUME IInv, [Next]_vars, NEW m \in Tasks, Genuine(m), sent' \in Nat, sent <= sent'
    PROVE  Genuine(m)'
<1>1. m.to \in Conns /\ m.id \in ConnIds /\ m.n \in Nat /\ sent \in Nat
  BY DEF Tasks, IInv, TypeOK
<1>2. connId[m.to] # None
  BY <1>1 DEF Genuine
<1>3. connId'[m.to] = connId[m.to]
  <2>1. CASE \E t \in Threads : OnNewConnection(t)
    BY <1>1, <1>2, <2>1, IterationEffect
  <2>2. CASE ~ \E t \in Threads : OnNewConnection(t)
    BY <2>2, IdsStay
  <2> QED
    BY <2>1, <2>2
<1>4. m.n <= sent'
  BY <1>1 DEF Genuine
<1> QED
  BY <1>3, <1>4 DEF Genuine

\* SendIOBuf: the new message has the greatest number of all.
LEMMA SendKeepsOrder ==
    ASSUME IInv, SendInv, NEW s \in Senders, NEW p \in Conns, SendIOBuf(s, p), [Next]_vars
    PROVE  SendInv'
<1>1. UNCHANGED <<connId, written>> /\ sent' = sent + 1 /\ sent \in Nat
  BY SendPosts DEF IInv, TypeOK
<1>2. PICK m \in Tasks, t \in Threads :
         /\ m.id = connId[m.to] /\ m.id.thread = t /\ m.from = s /\ m.n = sent + 1
         /\ Posted(KindOf(s, t), t, m)
  BY SendPosts
<1>3. Genuine(m)' /\ m.n = sent + 1
  BY <1>1, <1>2 DEF Genuine
<1>4. \A x \in Tasks : Genuine(x) => Genuine(x)' /\ x.n < sent + 1
  <2>1. ASSUME NEW x \in Tasks, Genuine(x) PROVE x.n < sent + 1
    BY <1>1, <2>1 DEF Genuine, Tasks
  <2> QED
    BY <1>1, <2>1, GenuineStays
<1>5. ASSUME NEW h \in Kinds, NEW u \in Threads
      PROVE  /\ Len(Queue(h, u)) \in Nat
             /\ Len(Queue(h, u))' \in {Len(Queue(h, u)), Len(Queue(h, u)) + 1}
             /\ \A i \in 1 .. Len(Queue(h, u)) :
                   Queue(h, u)'[i] = Queue(h, u)[i] /\ Queue(h, u)[i] \in Tasks
             /\ Len(Queue(h, u))' = Len(Queue(h, u)) + 1 =>
                   /\ h = KindOf(s, t) /\ u = t
                   /\ Queue(h, u)'[Len(Queue(h, u)) + 1] = m
  <2>1. /\ Len(Queue(h, u)) \in Nat
        /\ \A i \in 1 .. Len(Queue(h, u)) : Queue(h, u)[i] \in Tasks
    BY QueueTypes
  <2> QED
    BY <1>2, <2>1 DEF Posted
<1>6. ASSUME NEW h \in Kinds, NEW u \in Threads, NEW i \in 1 .. Len(Queue(h, u))'
      PROVE  \/ i \in 1 .. Len(Queue(h, u)) /\ Queue(h, u)'[i] = Queue(h, u)[i]
             \/ /\ i = Len(Queue(h, u)) + 1 /\ Queue(h, u)'[i] = m
                /\ h = KindOf(s, t) /\ u = t
  BY <1>5
<1>7. Placed'
  <2> SUFFICES ASSUME NEW h \in Kinds, NEW u \in Threads, NEW i \in 1 .. Len(Queue(h, u))'
               PROVE  (/\ Genuine(Queue(h, u)[i])
                       /\ Queue(h, u)[i].id.thread = u
                       /\ h = KindOf(Queue(h, u)[i].from, u))'
    BY DEF Placed
  <2> DEFINE x == Queue(h, u)'[i]
  <2>1. CASE i \in 1 .. Len(Queue(h, u)) /\ x = Queue(h, u)[i]
    <3>1. /\ Queue(h, u)[i] \in Tasks /\ Genuine(Queue(h, u)[i])
          /\ Queue(h, u)[i].id.thread = u /\ h = KindOf(Queue(h, u)[i].from, u)
      BY <1>5, <2>1 DEF SendInv, Placed
    <3>2. Genuine(Queue(h, u)[i])'
      BY <1>1, <1>4, <2>1, <3>1 DEF Genuine
    <3> QED
      BY <2>1, <3>1, <3>2 DEF KindOf
  <2>2. CASE x = m /\ h = KindOf(s, t) /\ u = t
    BY <1>2, <1>3, <2>2 DEF Genuine, KindOf
  <2> QED
    BY <1>6, <2>1, <2>2
<1>8. QueueOrder'
  <2> SUFFICES ASSUME NEW h \in Kinds, NEW u \in Threads, NEW i \in 1 .. Len(Queue(h, u))',
                      NEW j \in 1 .. Len(Queue(h, u))', i < j
               PROVE  Queue(h, u)'[i].n < Queue(h, u)'[j].n
    BY DEF QueueOrder
  <2>1. Len(Queue(h, u)) \in Nat
    BY <1>5
  <2>2. CASE j \in 1 .. Len(Queue(h, u)) /\ Queue(h, u)'[j] = Queue(h, u)[j]
    <3>1. i \in 1 .. Len(Queue(h, u)) /\ Queue(h, u)'[i] = Queue(h, u)[i]
      BY <1>5, <2>1, <2>2
    <3> QED
      BY <2>2, <3>1 DEF SendInv, QueueOrder
  <2>3. CASE j = Len(Queue(h, u)) + 1 /\ Queue(h, u)'[j] = m
    <3>1. /\ i \in 1 .. Len(Queue(h, u)) /\ Queue(h, u)'[i] = Queue(h, u)[i]
          /\ Queue(h, u)[i] \in Tasks
      BY <1>5, <2>1, <2>3
    <3>2. Genuine(Queue(h, u)[i])
      BY <3>1 DEF SendInv, Placed
    <3> QED
      BY <1>3, <1>4, <2>3, <3>1, <3>2
  <2> QED
    BY <1>6, <2>2, <2>3
<1>9. WrittenPlaced'
  <2> SUFFICES ASSUME NEW q \in Conns, NEW j \in 1 .. Len(written[q]) PROVE Genuine(written[q][j])'
    BY <1>1 DEF WrittenPlaced
  <2>1. written[q][j] \in Tasks /\ Genuine(written[q][j])
    BY QueueTypes DEF SendInv, WrittenPlaced
  <2> QED
    BY <1>1, <1>4, <2>1 DEF Genuine
<1>10. WrittenFirst'
  <2> SUFFICES ASSUME NEW q \in Conns, NEW j \in 1 .. Len(written[q]),
                      NEW h \in Kinds, NEW u \in Threads, NEW i \in 1 .. Len(Queue(h, u))',
                      SameStream(written[q][j], Queue(h, u)'[i])
               PROVE  written[q][j].n < Queue(h, u)'[i].n
    BY <1>1 DEF WrittenFirst
  <2>1. written[q][j] \in Tasks /\ Genuine(written[q][j])
    BY QueueTypes DEF SendInv, WrittenPlaced
  <2>2. CASE i \in 1 .. Len(Queue(h, u)) /\ Queue(h, u)'[i] = Queue(h, u)[i]
    BY <2>2 DEF SendInv, WrittenFirst
  <2>3. CASE Queue(h, u)'[i] = m
    BY <1>3, <1>4, <2>1, <2>3
  <2> QED
    BY <1>6, <2>2, <2>3
<1>11. SenderOrderKept'
  BY <1>1 DEF SendInv, SenderOrderKept
<1> QED
  BY <1>7, <1>8, <1>9, <1>10, <1>11 DEF SendInv

\* Two messages of one sender to one connection wait in the same queue.
LEMMA OneQueue ==
    ASSUME Placed, NEW k \in Kinds, NEW t \in Threads, NEW i \in 1 .. Len(Queue(k, t)),
           NEW h \in Kinds, NEW u \in Threads, NEW j \in 1 .. Len(Queue(h, u)),
           SameStream(Queue(k, t)[i], Queue(h, u)[j])
    PROVE  h = k /\ u = t
  BY DEF Placed, Genuine, SameStream

\* Running a task: what is written comes after what was written of its stream,
\* and before what still waits.
LEMMA RunKeepsOrder ==
    ASSUME IInv, SendInv, NEW t \in Threads, RunLoopTask(t) \/ RunInboxTask(t), [Next]_vars
    PROVE  SendInv'
<1>1. UNCHANGED <<connId, sent>>
  BY RunTakes
<1>2. PICK k \in Kinds :
         /\ Taken(k, t)
         /\ written' = written \/ \E p \in Conns : Wrote(p, Queue(k, t)[1])
  BY RunTakes
<1>3. PICK m : m = Queue(k, t)[1]
  OBVIOUS
<1>g. \A x : Genuine(x)' <=> Genuine(x)
  BY <1>1 DEF Genuine
<1>4. /\ 1 \in 1 .. Len(Queue(k, t)) /\ m \in Tasks /\ Genuine(m)
  BY <1>2, <1>3, QueueTypes DEF SendInv, Placed, Taken
<1>5. ASSUME NEW h \in Kinds, NEW u \in Threads, NEW i \in 1 .. Len(Queue(h, u))'
      PROVE  \E j \in 1 .. Len(Queue(h, u)) :
                /\ Queue(h, u)'[i] = Queue(h, u)[j]
                /\ h = k /\ u = t => j = i + 1
                /\ h # k \/ u # t => j = i
  <2>1. CASE h = k /\ u = t
    <3>1. Len(Queue(k, t)) \in Nat
      BY QueueTypes
    <3>2. i \in 1 .. Len(Queue(k, t)) - 1
      BY <1>2, <2>1 DEF Taken
    <3>3. i + 1 \in 1 .. Len(Queue(k, t)) /\ Queue(k, t)'[i] = Queue(k, t)[i + 1]
      BY <1>2, <3>1, <3>2 DEF Taken
    <3> QED
      BY <2>1, <3>3
  <2>2. CASE h # k \/ u # t
    BY <1>2, <2>2 DEF Taken
  <2> QED
    BY <2>1, <2>2
<1>6. Placed'
  <2> SUFFICES ASSUME NEW h \in Kinds, NEW u \in Threads, NEW i \in 1 .. Len(Queue(h, u))'
               PROVE  (/\ Genuine(Queue(h, u)[i])
                       /\ Queue(h, u)[i].id.thread = u
                       /\ h = KindOf(Queue(h, u)[i].from, u))'
    BY DEF Placed
  <2>1. PICK j \in 1 .. Len(Queue(h, u)) : Queue(h, u)'[i] = Queue(h, u)[j]
    BY <1>5
  <2>2. /\ Genuine(Queue(h, u)[j])
        /\ Queue(h, u)[j].id.thread = u /\ h = KindOf(Queue(h, u)[j].from, u)
    BY DEF SendInv, Placed
  <2> QED
    BY <1>1, <2>1, <2>2 DEF Genuine, KindOf
<1>7. QueueOrder'
  <2> SUFFICES ASSUME NEW h \in Kinds, NEW u \in Threads, NEW i \in 1 .. Len(Queue(h, u))',
                      NEW j \in 1 .. Len(Queue(h, u))', i < j
               PROVE  Queue(h, u)'[i].n < Queue(h, u)'[j].n
    BY DEF QueueOrder
  <2>1. PICK a \in 1 .. Len(Queue(h, u)) :
           /\ Queue(h, u)'[i] = Queue(h, u)[a]
           /\ h = k /\ u = t => a = i + 1
           /\ h # k \/ u # t => a = i
    BY <1>5
  <2>2. PICK b \in 1 .. Len(Queue(h, u)) :
           /\ Queue(h, u)'[j] = Queue(h, u)[b]
           /\ h = k /\ u = t => b = j + 1
           /\ h # k \/ u # t => b = j
    BY <1>5
  <2>3. a < b
    BY <2>1, <2>2
  <2> QED
    BY <2>1, <2>2, <2>3 DEF SendInv, QueueOrder
<1>8. ASSUME NEW h \in Kinds, NEW u \in Threads, NEW i \in 1 .. Len(Queue(h, u))',
             SameStream(m, Queue(h, u)'[i])
      PROVE  m.n < Queue(h, u)'[i].n
  <2>1. PICK j \in 1 .. Len(Queue(h, u)) :
           Queue(h, u)'[i] = Queue(h, u)[j] /\ (h = k /\ u = t => j = i + 1)
    BY <1>5
  <2>2. h = k /\ u = t
    BY <1>3, <1>4, <1>8, <2>1, OneQueue DEF SendInv
  <2>3. j \in 1 .. Len(Queue(k, t)) /\ 1 < j /\ Queue(h, u)'[i] = Queue(k, t)[j]
    BY <2>1, <2>2
  <2> QED
    BY <1>3, <1>4, <2>3 DEF SendInv, QueueOrder
<1>9. ASSUME NEW q \in Conns, NEW j \in 1 .. Len(written[q]), NEW h \in Kinds, NEW u \in Threads,
             NEW i \in 1 .. Len(Queue(h, u))', SameStream(written[q][j], Queue(h, u)'[i])
      PROVE  written[q][j].n < Queue(h, u)'[i].n
  BY <1>5, <1>9 DEF SendInv, WrittenFirst
<1>10. CASE written' = written
  <2>1. WrittenPlaced' /\ WrittenFirst'
    BY <1>9, <1>10, <1>g DEF SendInv, WrittenPlaced, WrittenFirst
  <2>2. SenderOrderKept'
    BY <1>10 DEF SendInv, SenderOrderKept
  <2> QED
    BY <1>6, <1>7, <2>1, <2>2 DEF SendInv
<1>11. ASSUME NEW p \in Conns, Wrote(p, m) PROVE SendInv'
  <2>1. ASSUME NEW q \in Conns, NEW j \in 1 .. Len(written'[q])
        PROVE  \/ j \in 1 .. Len(written[q]) /\ written'[q][j] = written[q][j]
               \/ j = Len(written[q]) + 1 /\ q = p /\ written'[q][j] = m
    <3>1. Len(written[q]) \in Nat
      BY QueueTypes
    <3> QED
      BY <1>11, <3>1 DEF Wrote
  <2>2. WrittenPlaced'
    <3> SUFFICES ASSUME NEW q \in Conns, NEW j \in 1 .. Len(written'[q])
                 PROVE  Genuine(written[q][j])'
      BY DEF WrittenPlaced
    <3>1. Genuine(written'[q][j])
      BY <1>4, <2>1 DEF SendInv, WrittenPlaced
    <3> QED
      BY <1>1, <3>1 DEF Genuine
  <2>3. WrittenFirst'
    <3> SUFFICES ASSUME NEW q \in Conns, NEW j \in 1 .. Len(written'[q]), NEW h \in Kinds,
                        NEW u \in Threads, NEW i \in 1 .. Len(Queue(h, u))',
                        SameStream(written'[q][j], Queue(h, u)'[i])
                 PROVE  written'[q][j].n < Queue(h, u)'[i].n
      BY DEF WrittenFirst
    <3>1. CASE j \in 1 .. Len(written[q]) /\ written'[q][j] = written[q][j]
      BY <1>9, <3>1
    <3>2. CASE written'[q][j] = m
      BY <1>8, <3>2
    <3> QED
      BY <2>1, <3>1, <3>2
  <2>4. ASSUME NEW q \in Conns, NEW a \in 1 .. Len(written'[q]), NEW b \in 1 .. Len(written'[q]),
               a < b, SameStream(written'[q][a], written'[q][b])
        PROVE  written'[q][a].n < written'[q][b].n
    <3>0. Len(written[q]) \in Nat /\ DOMAIN written[q] = 1 .. Len(written[q])
      BY QueueTypes, LenProperties
    <3>1. CASE b \in 1 .. Len(written[q]) /\ written'[q][b] = written[q][b]
      <4>1. a \in 1 .. Len(written[q]) /\ written'[q][a] = written[q][a]
        BY <2>1, <2>4, <3>0, <3>1
      <4> QED
        BY <2>4, <3>0, <3>1, <4>1 DEF SendInv, SenderOrderKept, SameStream
    <3>2. CASE b = Len(written[q]) + 1 /\ q = p /\ written'[q][b] = m
      <4>1. a \in 1 .. Len(written[q]) /\ written'[q][a] = written[q][a]
        BY <2>1, <2>4, <3>0, <3>2
      <4> QED
        BY <1>3, <1>4, <2>4, <3>2, <4>1 DEF SendInv, WrittenFirst
    <3> QED
      BY <2>1, <3>1, <3>2
  <2>5. SenderOrderKept'
    <3>1. \A q \in Conns : DOMAIN written'[q] = 1 .. Len(written'[q])
      <4>1. written' \in [Conns -> Seq(Tasks)]
        BY NextInv DEF IInv, TypeOK
      <4> QED
        BY <4>1, LenProperties
    <3> QED
      BY <2>4, <3>1 DEF SenderOrderKept, SameStream
  <2> QED
    BY <1>6, <1>7, <2>2, <2>3, <2>5 DEF SendInv
<1> QED
  BY <1>2, <1>3, <1>10, <1>11

\* Messages wait and are written where their ids lead, in their order.
LEMMA SendsKept == Spec => []SendInv
<1>1. Init => SendInv
  <2> SUFFICES ASSUME Init PROVE SendInv
    OBVIOUS
  <2>1. /\ \A k \in Kinds, t \in Threads : Queue(k, t) = << >>
        /\ \A p \in Conns : written[p] = << >>
    BY DEF Init, Queue
  <2>2. 1 .. Len(<< >>) = {} /\ DOMAIN << >> = {}
    OBVIOUS
  <2> QED
    BY <2>1, <2>2 DEF SendInv, Placed, QueueOrder, WrittenPlaced, WrittenFirst, SenderOrderKept
<1>2. IInv /\ SendInv /\ [Next]_vars => SendInv'
  <2> SUFFICES ASSUME IInv, SendInv, [Next]_vars PROVE SendInv'
    OBVIOUS
  <2>1. CASE \E s \in Senders, p \in Conns : SendIOBuf(s, p)
    BY <2>1, SendKeepsOrder
  <2>2. CASE \E t \in Threads : RunLoopTask(t) \/ RunInboxTask(t)
    BY <2>2, RunKeepsOrder
  <2>3. ASSUME UNCHANGED <<loopTasks, inbox, sent, written>> PROVE SendInv'
    <3>1. \A x \in Tasks : Genuine(x) => Genuine(x)'
      BY <2>3, GenuineStays DEF IInv, TypeOK
    <3>2. \A k \in Kinds, t \in Threads : Queue(k, t)' = Queue(k, t)
      BY <2>3 DEF Queue
    <3>3. Placed'
      <4> SUFFICES ASSUME NEW k \in Kinds, NEW t \in Threads, NEW i \in 1 .. Len(Queue(k, t))
                   PROVE  (/\ Genuine(Queue(k, t)[i])
                           /\ Queue(k, t)[i].id.thread = t
                           /\ k = KindOf(Queue(k, t)[i].from, t))'
        BY <3>2 DEF Placed
      <4>1. /\ Genuine(Queue(k, t)[i]) /\ Queue(k, t)[i] \in Tasks
            /\ Queue(k, t)[i].id.thread = t /\ k = KindOf(Queue(k, t)[i].from, t)
        BY QueueTypes DEF SendInv, Placed
      <4>2. Genuine(Queue(k, t)[i])'
        BY <3>1, <3>2, <4>1 DEF Genuine
      <4> QED
        BY <3>2, <4>1, <4>2 DEF KindOf
    <3>4. WrittenPlaced'
      <4> SUFFICES ASSUME NEW p \in Conns, NEW j \in 1 .. Len(written[p])
                   PROVE  Genuine(written[p][j])'
        BY <2>3 DEF WrittenPlaced
      <4>1. Genuine(written[p][j]) /\ written[p][j] \in Tasks
        BY QueueTypes DEF SendInv, WrittenPlaced
      <4> QED
        BY <2>3, <3>1, <4>1 DEF Genuine
    <3>5. QueueOrder' /\ WrittenFirst' /\ SenderOrderKept'
      BY SMTT(30), <2>3, <3>2 DEF SendInv, QueueOrder, WrittenFirst, SenderOrderKept
    <3> QED
      BY <3>3, <3>4, <3>5 DEF SendInv
  <2> QED
    BY <2>1, <2>2, <2>3 DEF Next, vars, sendVars, NewPipeline, TransportActive, ReadClose,
                            AppClose, OnNewConnection
<1> QED
  BY <1>1, <1>2, Invariance, PTL DEF Spec

\* Messages of one sender to one connection are written in the order in which
\* SendIOBuf was called, and none twice.
THEOREM SenderOrder == Spec => []SenderOrderKept
<1>1. SendInv => SenderOrderKept
  BY DEF SendInv
<1> QED
  BY <1>1, SendsKept, PTL

-----------------------------------------------------------------------------
(* Messages that outlive their addressee                                    *)

\* Of a connected pipeline and another one with its id, the other has aged out.
Outlived(p, q) ==
    /\ p # q /\ connId[p] # None /\ connId[p] = connId[q] /\ connState[q] = "kConnected"
    => age[p] = IdSpace - 1
OutlivedInv == \A p, q \in Conns : Outlived(p, q)

\* A pipeline with an id is never connected again.
LEMMA ConnectedBefore ==
    ASSUME IInv, [Next]_vars, NEW q \in Conns
    PROVE  /\ connId[q] # None /\ connState'[q] = "kConnected" => connState[q] = "kConnected"
           /\ connState[q] = "kClosed" => connState'[q] = "kClosed"
<1> DEFINE Goal ==
       /\ connId[q] # None /\ connState'[q] = "kConnected" => connState[q] = "kConnected"
       /\ connState[q] = "kClosed" => connState'[q] = "kClosed"
<1>1. ASSUME NEW p \in Conns, CloseHandler(p) PROVE Goal
  BY <1>1 DEF CloseHandler, IInv, TypeOK
<1>2. ASSUME NEW p \in Conns, TransportActive(p) PROVE Goal
  <2>1. connState[p] = "kNone" /\ connState' = [connState EXCEPT ![p] = "kConnected"]
    BY <1>2 DEF TransportActive
  <2>2. connId[p] = None
    BY <2>1 DEF IInv, HandlerLifecycle
  <2> QED
    BY <2>1, <2>2 DEF IInv, TypeOK
<1>3. ASSUME NEW t \in Threads, RunLoopTask(t) \/ RunInboxTask(t)
      PROVE  connState' = connState \/ \E p \in Conns : CloseHandler(p)
  BY <1>3, RunTaskEffect
<1>4. ASSUME NEW p \in Conns, ReadClose(p) \/ AppClose(p) PROVE CloseHandler(p)
  BY <1>4 DEF ReadClose, AppClose
<1>5. ASSUME connState' = connState PROVE Goal
  BY <1>5
<1>6. ASSUME NEW p \in Conns, NEW t \in Threads, NewPipeline(p, t) PROVE connState' = connState
  BY <1>6 DEF NewPipeline
<1>7. ASSUME NEW p \in Conns, NEW s \in Senders, SendIOBuf(s, p) PROVE connState' = connState
  BY <1>7 DEF SendIOBuf, handlerVars
<1>8. ASSUME NEW t \in Threads, OnNewConnection(t) PROVE connState' = connState
  BY <1>8 DEF OnNewConnection
<1>9. UNCHANGED vars => connState' = connState
  BY DEF vars, handlerVars
<1> HIDE DEF Goal
<1>10. Goal
  BY <1>1, <1>2, <1>3, <1>4, <1>5, <1>6, <1>7, <1>8, <1>9 DEF Next
<1> QED
  BY <1>10 DEF Goal

\* Ages only grow.
LEMMA AgedStays ==
    ASSUME IInv, [Next]_vars, NEW p \in Conns, age[p] = IdSpace - 1
    PROVE  age'[p] = IdSpace - 1
<1>1. CASE \E t \in Threads : OnNewConnection(t)
  <2>1. PICK t \in Threads : OnNewConnection(t)
    BY <1>1
  <2>2. age'[p] = IF connId[p] # None /\ home[p] = t /\ age[p] < IdSpace - 1
                  THEN age[p] + 1 ELSE age[p]
    BY <2>1, IterationEffect
  <2>3. ~ (age[p] < IdSpace - 1)
    OBVIOUS
  <2> QED
    BY <2>2, <2>3
<1>2. CASE ~ \E t \in Threads : OnNewConnection(t)
  BY <1>2, IdsStay
<1> QED
  BY <1>1, <1>2

\* The iteration that gives an id out finds no connected pipeline that has it.
LEMMA FreshId ==
    ASSUME IInv, NEW t \in Threads, OnNewConnection(t), NEW p \in Conns, NEW q \in Conns,
           connId[p] = None, connId'[p] # None, connId[q] # None, connId'[p] = connId[q]
    PROVE  connState[q] # "kConnected"
<1>1. connId'[p] = [thread |-> t, low |-> NextConnId(currentConnId[t])]
  BY IterationEffect
<1>2. connId[q].thread = t /\ connId[q].low = NextConnId(currentConnId[t])
  BY <1>1
<1>3. home[q] = t
  BY <1>2 DEF IInv, HandlerLifecycle
<1>4. pipelines[t][NextConnId(currentConnId[t])] = None
  <2>1. connId' # connId
    OBVIOUS
  <2> QED
    BY <2>1 DEF OnNewConnection
<1> QED
  BY <1>2, <1>3, <1>4 DEF IInv, RegistryExact, LiveIsRegistered

\* A connection that shares its id with a connected one is the older of the two.
LEMMA OutlivedKept == Spec => []OutlivedInv
<1>1. Init => OutlivedInv
  BY DEF Init, OutlivedInv, Outlived
<1>2. IInv /\ AgeInv /\ OutlivedInv /\ [Next]_vars => OutlivedInv'
  <2> SUFFICES ASSUME IInv, AgeInv, OutlivedInv, [Next]_vars, NEW p \in Conns, NEW q \in Conns,
                      p # q, connId'[p] # None, connId'[p] = connId'[q],
                      connState'[q] = "kConnected"
               PROVE  age'[p] = IdSpace - 1
    BY DEF OutlivedInv, Outlived
  <2>1. CASE connId[p] = connId'[p] /\ connId[q] = connId'[q]
    <3>1. connState[q] = "kConnected"
      BY <2>1, ConnectedBefore
    <3>2. age[p] = IdSpace - 1
      BY <2>1, <3>1 DEF OutlivedInv, Outlived
    <3> QED
      BY <3>2, AgedStays
  <2>2. CASE ~ (connId[p] = connId'[p] /\ connId[q] = connId'[q])
    <3>1. PICK t \in Threads : OnNewConnection(t)
      BY <2>2, IdsStay
    <3>2. PICK x \in Conns :
             /\ connId[x] = None
             /\ \A y \in Conns : connId'[y] =
                   IF y = x THEN [thread |-> t, low |-> NextConnId(currentConnId[t])]
                   ELSE connId[y]
      BY <2>2, <3>1, IterationEffect
    <3>3. CASE x = p
      <4>1. connId[p] = None /\ connId[q] = connId'[q]
        BY <3>2, <3>3
      <4>2. connState[q] # "kConnected"
        BY <3>1, <4>1, FreshId
      <4> QED
        BY <4>1, <4>2, ConnectedBefore
    <3>4. CASE x = q
      <4>1. connId[q] = None /\ connId[p] = connId'[p]
        BY <3>2, <3>4
      <4> QED
        BY <3>1, <4>1, IterationReuses
    <3>5. CASE x # p /\ x # q
      BY <2>2, <3>2, <3>5
    <3> QED
      BY <3>3, <3>4, <3>5
  <2> QED
    BY <2>1, <2>2
<1> QED
  BY <1>1, <1>2, AgesKept, Invariance, PTL DEF Spec

\* Message m may stand among what was written to q.
Delivered(q, m) == m.to # q => connState[m.to] = "kClosed" /\ age[m.to] = IdSpace - 1

\* A task that runs finds the connection it was sent to, or a younger one that
\* has got its id.
LEMMA RunDelivers ==
    ASSUME IInv, SendInv, OutlivedInv, NEW t \in Threads, RunLoopTask(t) \/ RunInboxTask(t)
    PROVE  \/ written' = written
           \/ \E q \in Conns, m \in Tasks :
                 written' = [written EXCEPT ![q] = Append(@, m)] /\ Delivered(q, m)
<1> SUFFICES ASSUME written' # written
             PROVE  \E q \in Conns, m \in Tasks :
                       written' = [written EXCEPT ![q] = Append(@, m)] /\ Delivered(q, m)
  OBVIOUS
<1>1. PICK q \in Conns, m \in Tasks :
         /\ connState[q] = "kConnected"
         /\ connId[q] # None /\ connId[q].thread = t /\ connId[q].low = m.id.low
         /\ \/ m = Head(loopTasks[t]) /\ RunLoopTask(t)
            \/ m = Head(inbox[t]) /\ RunInboxTask(t)
         /\ written' = [written EXCEPT ![q] = Append(@, m)]
  BY RunTaskEffect
<1>2. PICK k \in Kinds : Queue(k, t) # << >> /\ m = Head(Queue(k, t))
  <2>1. CASE m = Head(loopTasks[t]) /\ RunLoopTask(t)
    BY <2>1 DEF RunLoopTask, Kinds, Queue
  <2>2. CASE m = Head(inbox[t]) /\ RunInboxTask(t)
    BY <2>2 DEF RunInboxTask, Kinds, Queue
  <2> QED
    BY <1>1, <2>1, <2>2
<1>3. 1 \in 1 .. Len(Queue(k, t)) /\ m = Queue(k, t)[1]
  <2>1. Queue(k, t) \in Seq(Tasks)
    BY QueueTypes
  <2> QED
    BY <1>2, <2>1, EmptySeq, LenProperties, HeadTailProperties
<1>4. m.id = connId[m.to] /\ m.id.thread = t
  BY <1>3 DEF SendInv, Placed, Genuine
<1>5. m.to \in Conns /\ m.id \in ConnIds
  BY DEF Tasks
<1>6. connId[q] = connId[m.to] /\ connId[m.to] # None
  <2>1. connId[q] \in ConnIds
    BY <1>1 DEF IInv, TypeOK
  <2> QED
    BY <1>1, <1>4, <1>5, <2>1 DEF ConnIds
<1>7. ASSUME m.to # q PROVE connState[m.to] = "kClosed" /\ age[m.to] = IdSpace - 1
  <2>1. age[m.to] = IdSpace - 1
    BY <1>1, <1>5, <1>6, <1>7 DEF OutlivedInv, Outlived
  <2>2. home[m.to] = home[q]
    BY <1>5, <1>6 DEF IInv, HandlerLifecycle
  <2>3. connState[m.to] # "kConnected"
    BY <1>1, <1>5, <1>6, <1>7, <2>2 DEF IInv, RegistryExact, LiveIsRegistered
  <2>4. connState[m.to] \in ConnStates /\ connState[m.to] # "kNone"
    BY <1>5, <1>6 DEF IInv, TypeOK, HandlerLifecycle
  <2> QED
    BY <2>1, <2>3, <2>4 DEF ConnStates
<1> QED
  BY <1>1, <1>7 DEF Delivered

\* A message is written to its addressee, or to the one connection that has its
\* id after the addressee was closed and the counter has gone all the way round.
THEOREM SendsReachTheirOwn == Spec => []MisdeliveredOnlyAfterWrap
<1> DEFINE M == MisdeliveredOnlyAfterWrap
<1>1. Init => M
  BY DEF Init, MisdeliveredOnlyAfterWrap
<1>2. IInv /\ SendInv /\ OutlivedInv /\ M /\ [Next]_vars => M'
  <2> SUFFICES ASSUME IInv, SendInv, OutlivedInv, M, [Next]_vars PROVE M'
    OBVIOUS
  <2> DEFINE Still(q, m) == m.to # q => connState'[m.to] = "kClosed" /\ age'[m.to] = IdSpace - 1
  <2>a. SUFFICES ASSUME NEW q \in Conns, NEW k \in DOMAIN written'[q]
                 PROVE  Still(q, written'[q][k])
    BY DEF MisdeliveredOnlyAfterWrap
  <2>1. ASSUME NEW m \in Tasks, Delivered(q, m) PROVE Still(q, m)
    <3>1. m.to \in Conns
      BY DEF Tasks
    <3> QED
      BY <2>1, <3>1, AgedStays, ConnectedBefore DEF Delivered
  <2> HIDE DEF Still
  <2>2. ASSUME NEW j \in DOMAIN written[q]
        PROVE  Delivered(q, written[q][j]) /\ written[q][j] \in Tasks
    <3>1. written[q] \in Seq(Tasks)
      BY DEF IInv, TypeOK
    <3> QED
      BY <3>1 DEF MisdeliveredOnlyAfterWrap, Delivered
  <2>3. CASE written' = written
    BY <2>1, <2>2, <2>3
  <2>4. CASE written' # written
    <3>1. PICK t \in Threads : RunLoopTask(t) \/ RunInboxTask(t)
      BY <2>4 DEF Next, vars, NewPipeline, TransportActive, ReadClose, AppClose, SendIOBuf,
                  OnNewConnection
    <3>2. PICK x \in Conns, m \in Tasks :
             written' = [written EXCEPT ![x] = Append(@, m)] /\ Delivered(x, m)
      BY <2>4, <3>1, RunDelivers
    <3>3. written \in [Conns -> Seq(Tasks)]
      BY DEF IInv, TypeOK
    <3>4. CASE x # q
      <4>1. written'[q] = written[q]
        BY <3>2, <3>3, <3>4
      <4> QED
        BY <2>1, <2>2, <4>1
    <3>5. CASE x = q
      <4>1. written'[q] = Append(written[q], m) /\ written[q] \in Seq(Tasks)
        BY <3>2, <3>3, <3>5
      <4>2. \/ k \in DOMAIN written[q] /\ written'[q][k] = written[q][k]
            \/ written'[q][k] = m
        BY <4>1
      <4> QED
        BY <2>1, <2>2, <3>2, <3>5, <4>2
    <3> QED
      BY <3>4, <3>5
  <2> QED
    BY <2>3, <2>4
<1> QED
  BY <1>1, <1>2, OutlivedKept, SendsKept, Invariance, PTL DEF Spec
=============================================================================
