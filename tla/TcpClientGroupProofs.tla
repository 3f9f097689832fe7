------------------------ MODULE TcpClientGroupProofs -------------------------
(***************************************************************************)
(* Proofs about TcpClientGroup and the TcpClients in it, for every set of  *)
(* clients, event bases and sending threads and any number of messages.    *)
(*                                                                         *)
(* Two invariants, each inductive only with help.  That a client has one   *)
(* way forward (Phase) needs to know what holds before Start and after     *)
(* Stop.  That the group is a lossy channel needs to follow a message from *)
(* the call of SendIOBuf (CallLast, SingleInCall) through the queue of an  *)
(* event base (Placed, QueueOrder, SingleQueued) to the write              *)
(* (WrittenFirst): messages of one sender to one client stay in order      *)
(* because they all pass through the same queue.                           *)
(***************************************************************************)
EXTENDS TcpClientGroup, SequenceTheorems, TLAPS

USE EvbOfAssumption, MaxMsgsAssumption, AppAssumption, SendingAssumption

-----------------------------------------------------------------------------
(* The connection of a client                                               *)

\* What DoConnect, its callbacks and the timers keep for one client: besides
\* the phases of OneAttempt, what holds before Start and after Stop.
Phase(c) ==
    /\ client[c] <=> ~stoped[c]
    /\ connected[c] <=> Up(c)
    /\ stoped[c] => started[c] /\ ~pipeline[c]
    /\ ~started[c] => ~pipeline[c] /\ timers[c] = 0
    /\ started[c] /\ ~stoped[c] =>
          \/ pipeline[c] /\ transport[c] # "none" /\ timers[c] = 0
          \/ pipeline[c] /\ transport[c] = "none" /\ timers[c] = 1

LinkInv ==
    /\ LinkTypeOK
    /\ \A c \in Clients : Phase(c)
    /\ crashed => \E c \in Clients : stoped[c]

\* A step that leaves the links of all clients alone keeps their invariant.
LEMMA LinkStutter ==
    ASSUME LinkInv, UNCHANGED <<linkVars, crashed>>
    PROVE  LinkInv'
  BY DEF LinkInv, LinkTypeOK, Phase, Up, linkVars

\* Start: the first attempt.
LEMMA StartLink ==
    ASSUME LinkInv, NEW c \in Clients, Start(c)
    PROVE  LinkInv'
  <1> USE DEF LinkInv, LinkTypeOK
  <1>1. client[c] /\ ~stoped[c] /\ ~pipeline[c] /\ timers[c] = 0
    BY DEF Phase, Start
  <1>2. /\ started' = [started EXCEPT ![c] = TRUE]
        /\ pipeline' = [pipeline EXCEPT ![c] = TRUE]
        /\ transport' = [transport EXCEPT ![c] = "connecting"]
        /\ UNCHANGED <<client, stoped, connected, timers, crashed>>
    BY <1>1 DEF Start, DoConnect
  <1>3. LinkTypeOK'
    BY <1>2
  <1>4. ASSUME NEW d \in Clients PROVE Phase(d)'
    BY <1>1, <1>2 DEF Phase, Up
  <1> QED
    BY <1>2, <1>3, <1>4

\* connectSuccess, connectErr and the reconnect timer: each turns one way
\* forward into another.
LEMMA ConnectLink ==
    ASSUME LinkInv, NEW c \in Clients,
           ConnectSuccess(c) \/ ConnectErr(c) \/ ReconnectTimeout(c)
    PROVE  LinkInv'
  <1> USE DEF LinkInv, LinkTypeOK
  <1>1. CASE ConnectSuccess(c)
    <2>1. LinkTypeOK'
      BY <1>1 DEF ConnectSuccess
    <2>2. ASSUME NEW d \in Clients PROVE Phase(d)'
      BY <1>1 DEF ConnectSuccess, Phase, Up, Connecting
    <2> QED
      BY <1>1, <2>1, <2>2 DEF ConnectSuccess
  <1>2. CASE ConnectErr(c)
    <2>1. client[c] /\ client' = client
      BY <1>2 DEF ConnectErr, Connecting, Phase
    <2>2. /\ timers' = [timers EXCEPT ![c] = @ + 1]
          /\ transport' = [transport EXCEPT ![c] = "none"]
          /\ UNCHANGED <<started, client, stoped, connected, pipeline, crashed>>
      BY <1>2, <2>1 DEF ConnectErr, OnConnectError
    <2>3. LinkTypeOK'
      BY <2>2
    <2>4. ASSUME NEW d \in Clients PROVE Phase(d)'
      BY <1>2, <2>1, <2>2 DEF ConnectErr, Phase, Up, Connecting
    <2> QED
      BY <2>2, <2>3, <2>4
  <1>3. CASE ReconnectTimeout(c)
    <2>1. timers' = [timers EXCEPT ![c] = timers[c] - 1] /\ timers[c] > 0
      BY <1>3 DEF ReconnectTimeout
    <2>2. UNCHANGED <<started, client, stoped, connected>>
      BY <1>3 DEF ReconnectTimeout
    <2>3. CASE client[c]
      <3>1. /\ pipeline' = [pipeline EXCEPT ![c] = TRUE]
            /\ transport' = [transport EXCEPT ![c] = "connecting"]
            /\ UNCHANGED crashed
        BY <1>3, <2>3 DEF ReconnectTimeout, DoConnect
      <3>2. LinkTypeOK'
        BY <2>1, <2>2, <3>1
      <3>3. ASSUME NEW d \in Clients PROVE Phase(d)'
        BY <2>1, <2>2, <2>3, <3>1 DEF Phase, Up
      <3> QED
        BY <2>2, <3>1, <3>2, <3>3
    <2>4. CASE ~client[c]
      <3>1. crashed' = TRUE /\ UNCHANGED <<pipeline, transport>>
        BY <1>3, <2>4 DEF ReconnectTimeout, DoConnect
      <3>2. LinkTypeOK'
        BY <2>1, <2>2, <3>1
      <3>3. ASSUME NEW d \in Clients PROVE Phase(d)'
        BY <2>1, <2>2, <2>4, <3>1 DEF Phase, Up
      <3>4. stoped'[c]
        BY <2>2, <2>4 DEF Phase
      <3> QED
        BY <3>2, <3>3, <3>4
    <2> QED
      BY <2>3, <2>4
  <1> QED
    BY <1>1, <1>2, <1>3

\* The socket of a connected client is closed, by its peer or from inside a
\* write: deletePipeline finds the pipeline and arms one timer.
LEMMA CloseLink ==
    ASSUME LinkInv, NEW c \in Clients, Up(c), ClosePipeline(c)
    PROVE  LinkInv'
  <1> USE DEF LinkInv, LinkTypeOK
  <1>1. pipeline[c] /\ ~stoped[c] /\ started[c] /\ timers[c] = 0
    BY DEF Up, Phase
  <1>2. /\ connected' = [connected EXCEPT ![c] = FALSE]
        /\ transport' = [transport EXCEPT ![c] = "none"]
        /\ timers' = [timers EXCEPT ![c] = timers[c] + 1]
        /\ crashed' = FALSE
        /\ UNCHANGED <<started, client, stoped, pipeline>>
    BY <1>1 DEF ClosePipeline, DeletePipeline
  <1>3. LinkTypeOK'
    <2>1. timers' \in [Clients -> Nat]
      BY <1>2
    <2>2. crashed' \in BOOLEAN
      BY <1>2
    <2> QED
      BY <1>2, <2>1, <2>2
  <1>4. ASSUME NEW d \in Clients PROVE Phase(d)'
    BY <1>1, <1>2 DEF Phase, Up
  <1> QED
    BY <1>2, <1>3, <1>4

\* Stop leaves a stopped client without a pipeline, whatever it was doing; it
\* crashes when an attempt was under way, and stoped_ is set by then.
LEMMA StopLink ==
    ASSUME LinkInv, NEW c \in Clients, Stop(c)
    PROVE  LinkInv'
  <1> USE DEF LinkInv, LinkTypeOK
  <1>1. /\ stoped' = [stoped EXCEPT ![c] = TRUE]
        /\ client' = [client EXCEPT ![c] = FALSE]
        /\ transport' = [transport EXCEPT ![c] = "none"]
        /\ pipeline' = [pipeline EXCEPT ![c] = FALSE]
        /\ UNCHANGED started
        /\ started[c]
    BY DEF Stop
  <1>2. connected' = [connected EXCEPT ![c] = FALSE]
    <2>1. CASE connected[c]
      BY <2>1 DEF Stop, DeletePipeline
    <2>2. CASE ~connected[c]
      BY <2>2 DEF Stop
    <2> QED
      BY <2>1, <2>2
  <1>3. timers' = timers /\ crashed' \in BOOLEAN
    BY ZenonT(30), <1>1 DEF Stop, DeletePipeline, OnConnectError
  <1>4. LinkTypeOK'
    BY <1>1, <1>2, <1>3
  <1>5. ASSUME NEW d \in Clients PROVE Phase(d)'
    BY <1>1, <1>2, <1>3 DEF Phase, Up
  <1>6. stoped'[c]
    BY <1>1
  <1> QED
    BY <1>4, <1>5, <1>6

-----------------------------------------------------------------------------
(* Messages                                                                 *)

\* Message n goes to one client only.
Single(n) == sent[n].strategy # "kBroadCast"

\* The clients that caller k may still post its message to.
Ahead(k) ==
    IF call[k] = "lock" THEN Clients
    ELSE {onlines[k][p] : p \in 1 .. Len(onlines[k])}

\* The calls of SendIOBuf: what they send is known and theirs, and the copy of
\* clients_ they work off names no client twice.
CallInv ==
    /\ posted = Len(sent)
    /\ \A i, j \in 1 .. Len(clientList) : clientList[i] = clientList[j] => i = j
    /\ \A k \in Callers :
          \A i, j \in 1 .. Len(onlines[k]) : onlines[k][i] = onlines[k][j] => i = j
    /\ \A k \in Callers : call[k] # "idle" =>
          /\ message[k] \in 1 .. Len(sent)
          /\ sent[message[k]].from = k
          /\ call[k] # "lock" => Len(onlines[k]) > 0
          /\ call[k] = "post" => ~Single(message[k])

\* A posted message is on the event base of its client, in the queue that its
\* sender posts to.
Placed ==
    \A e \in Evbs, q \in Queues : \A i \in 1 .. Len(tasks[e][q]) :
        /\ EvbOf[tasks[e][q][i].client] = e
        /\ tasks[e][q][i].n \in 1 .. Len(sent)
        /\ (q = "loop") <=> (sent[tasks[e][q][i].n].from = e)

\* One sender's messages to one client are queued in the order they were sent.
QueueOrder ==
    \A e \in Evbs, q \in Queues : \A i, j \in 1 .. Len(tasks[e][q]) :
        /\ i < j
        /\ tasks[e][q][i].client = tasks[e][q][j].client
        /\ sent[tasks[e][q][i].n].from = sent[tasks[e][q][j].n].from
        => tasks[e][q][i].n < tasks[e][q][j].n

\* What a client wrote was sent, and before what the same sender has queued.
WrittenFirst ==
    /\ \A c \in Clients : \A j \in 1 .. Len(wrote[c]) : wrote[c][j] \in 1 .. Len(sent)
    /\ \A e \in Evbs, q \in Queues : \A i \in 1 .. Len(tasks[e][q]) :
          \A c \in Clients : \A j \in 1 .. Len(wrote[c]) :
             /\ c = tasks[e][q][i].client
             /\ sent[wrote[c][j]].from = sent[tasks[e][q][i].n].from
             => wrote[c][j] < tasks[e][q][i].n

\* The message of a call comes after all that its caller has queued or written
\* at a client the call has still ahead.
CallLast ==
    \A k \in Callers : call[k] # "idle" =>
       /\ \A e \in Evbs, q \in Queues : \A i \in 1 .. Len(tasks[e][q]) :
             tasks[e][q][i].client \in Ahead(k) /\ sent[tasks[e][q][i].n].from = k
                => tasks[e][q][i].n < message[k]
       /\ \A c \in Ahead(k) : \A j \in 1 .. Len(wrote[c]) :
             sent[wrote[c][j]].from = k => wrote[c][j] < message[k]

\* A message for one client that is still in its call is nowhere else.
SingleInCall ==
    \A k \in Callers : call[k] # "idle" /\ Single(message[k]) =>
       /\ \A e \in Evbs, q \in Queues : \A i \in 1 .. Len(tasks[e][q]) :
             tasks[e][q][i].n # message[k]
       /\ \A c \in Clients : \A j \in 1 .. Len(wrote[c]) : wrote[c][j] # message[k]

\* A message for one client is queued once, and not when it has been written.
SingleQueued ==
    \A e \in Evbs, q \in Queues : \A i \in 1 .. Len(tasks[e][q]) :
       Single(tasks[e][q][i].n) =>
          /\ \A c \in Clients : \A j \in 1 .. Len(wrote[c]) :
                wrote[c][j] # tasks[e][q][i].n
          /\ \A f \in Evbs, r \in Queues : \A j \in 1 .. Len(tasks[f][r]) :
                tasks[f][r][j].n = tasks[e][q][i].n => f = e /\ r = q /\ j = i

MsgInv ==
    Placed /\ QueueOrder /\ WrittenFirst /\ CallLast /\ SingleInCall /\ SingleQueued

IInv == GTypeOK /\ LinkInv /\ CallInv /\ MsgInv

Task == [client : Clients, n : 1 .. MaxMsgs]

\* The queues after client c and message m were posted to queue r of d.
PostedTo(d, r, c, m) ==
    /\ tasks' \in [Evbs -> [Queues -> Seq(Task)]]
    /\ \A e \in Evbs, q \in Queues :
          /\ Len(tasks[e][q]) \in Nat
          /\ Len(tasks'[e][q]) =
                IF e = d /\ q = r THEN Len(tasks[e][q]) + 1 ELSE Len(tasks[e][q])
          /\ \A i \in 1 .. Len(tasks[e][q]) :
                tasks'[e][q][i] = tasks[e][q][i] /\ tasks[e][q][i].client \in Clients
    /\ tasks'[d][r][Len(tasks[d][r]) + 1].client = c
    /\ tasks'[d][r][Len(tasks[d][r]) + 1].n = m

\* SendIOBufThreadSafe adds one task at the end of one queue.
LEMMA PostEffect ==
    ASSUME GTypeOK, NEW d \in Evbs, NEW r \in Queues, NEW c \in Clients,
           NEW m \in 1 .. MaxMsgs,
           tasks' = [tasks EXCEPT ![d][r] = Append(@, [client |-> c, n |-> m])]
    PROVE  PostedTo(d, r, c, m)
  <1> DEFINE t == [client |-> c, n |-> m]
             s == tasks[d][r]
  <1>1. tasks \in [Evbs -> [Queues -> Seq(Task)]]
    BY DEF GTypeOK, TcTypeOK, Task
  <1>2. s \in Seq(Task)
    BY <1>1
  <1>3. t \in Task /\ t.client = c /\ t.n = m
    BY DEF Task
  <1> HIDE DEF t, s
  <1>4. /\ Append(s, t) \in Seq(Task)
        /\ Len(Append(s, t)) = Len(s) + 1
        /\ \A i \in 1 .. Len(s) : Append(s, t)[i] = s[i]
        /\ Append(s, t)[Len(s) + 1] = t
    BY <1>2, <1>3
  <1>5. tasks' = [tasks EXCEPT ![d] = [tasks[d] EXCEPT ![r] = Append(s, t)]]
    BY <1>1 DEF s, t
  <1>6. tasks'[d][r] = Append(s, t)
    BY <1>1, <1>5
  <1>7. \A e \in Evbs, q \in Queues : e # d \/ q # r => tasks'[e][q] = tasks[e][q]
    BY <1>1, <1>5
  <1>8. tasks' \in [Evbs -> [Queues -> Seq(Task)]]
    BY <1>1, <1>4, <1>5
  <1>9. \A e \in Evbs, q \in Queues : tasks[e][q] \in Seq(Task)
    BY <1>1
  <1>10. ASSUME NEW e \in Evbs, NEW q \in Queues, NEW i \in 1 .. Len(tasks[e][q])
         PROVE  tasks[e][q][i].client \in Clients
    <2>1. tasks[e][q][i] \in Task
      BY <1>9
    <2> QED
      BY <2>1 DEF Task
  <1>11. ASSUME NEW e \in Evbs, NEW q \in Queues
         PROVE  /\ Len(tasks[e][q]) \in Nat
                /\ Len(tasks'[e][q]) =
                      IF e = d /\ q = r THEN Len(tasks[e][q]) + 1 ELSE Len(tasks[e][q])
                /\ \A i \in 1 .. Len(tasks[e][q]) : tasks'[e][q][i] = tasks[e][q][i]
    <2>1. CASE e = d /\ q = r
      BY <1>4, <1>6, <1>9, <2>1 DEF s
    <2>2. CASE ~(e = d /\ q = r)
      BY <1>7, <1>9, <2>2
    <2> QED
      BY <2>1, <2>2
  <1>12. tasks'[d][r][Len(tasks[d][r]) + 1] = t
    BY <1>4, <1>6 DEF s
  <1> QED
    BY <1>3, <1>8, <1>10, <1>11, <1>12 DEF PostedTo

\* The queues after the first task of queue r of d was taken out.
TakenFrom(d, r) ==
    /\ tasks' \in [Evbs -> [Queues -> Seq(Task)]]
    /\ \A e \in Evbs, q \in Queues :
          /\ Len(tasks[e][q]) \in Nat
          /\ Len(tasks'[e][q]) =
                IF e = d /\ q = r THEN Len(tasks[e][q]) - 1 ELSE Len(tasks[e][q])
          /\ \A i \in 1 .. Len(tasks'[e][q]) :
                tasks'[e][q][i] = IF e = d /\ q = r THEN tasks[e][q][i + 1]
                                                    ELSE tasks[e][q][i]
          /\ \A i \in 1 .. Len(tasks[e][q]) : tasks[e][q][i].client \in Clients
    /\ Len(tasks[d][r]) > 0
    /\ Head(tasks[d][r]) = tasks[d][r][1]
    /\ Head(tasks[d][r]).client \in Clients
    /\ Head(tasks[d][r]).n \in 1 .. MaxMsgs

\* The posted lambda that runs is the first of its queue.
LEMMA TakeEffect ==
    ASSUME GTypeOK, NEW d \in Evbs, NEW r \in Queues, tasks[d][r] # << >>,
           tasks' = [tasks EXCEPT ![d][r] = Tail(@)]
    PROVE  TakenFrom(d, r)
  <1> DEFINE s == tasks[d][r]
  <1>1. tasks \in [Evbs -> [Queues -> Seq(Task)]]
    BY DEF GTypeOK, TcTypeOK, Task
  <1>2. s \in Seq(Task) /\ s # << >>
    BY <1>1
  <1> HIDE DEF s
  <1>3. /\ Tail(s) \in Seq(Task)
        /\ Len(s) \in Nat /\ Len(s) > 0
        /\ Len(Tail(s)) = Len(s) - 1
        /\ \A i \in 1 .. Len(Tail(s)) : Tail(s)[i] = s[i + 1]
        /\ Head(s) = s[1]
        /\ Head(s) \in Task
    BY <1>2
  <1>4. Head(s).client \in Clients /\ Head(s).n \in 1 .. MaxMsgs
    BY <1>3 DEF Task
  <1>5. tasks' = [tasks EXCEPT ![d] = [tasks[d] EXCEPT ![r] = Tail(s)]]
    BY <1>1 DEF s
  <1>6. tasks'[d][r] = Tail(s)
    BY <1>1, <1>5
  <1>7. \A e \in Evbs, q \in Queues : e # d \/ q # r => tasks'[e][q] = tasks[e][q]
    BY <1>1, <1>5
  <1>8. tasks' \in [Evbs -> [Queues -> Seq(Task)]]
    BY <1>1, <1>3, <1>5
  <1>9. \A e \in Evbs, q \in Queues : tasks[e][q] \in Seq(Task)
    BY <1>1
  <1>10. ASSUME NEW e \in Evbs, NEW q \in Queues, NEW i \in 1 .. Len(tasks[e][q])
         PROVE  tasks[e][q][i].client \in Clients
    <2>1. tasks[e][q][i] \in Task
      BY <1>9
    <2> QED
      BY <2>1 DEF Task
  <1>11. ASSUME NEW e \in Evbs, NEW q \in Queues
         PROVE  /\ Len(tasks[e][q]) \in Nat
                /\ Len(tasks'[e][q]) =
                      IF e = d /\ q = r THEN Len(tasks[e][q]) - 1 ELSE Len(tasks[e][q])
                /\ \A i \in 1 .. Len(tasks'[e][q]) :
                      tasks'[e][q][i] = IF e = d /\ q = r THEN tasks[e][q][i + 1]
                                                          ELSE tasks[e][q][i]
    <2>1. CASE e = d /\ q = r
      BY <1>3, <1>6, <2>1 DEF s
    <2>2. CASE ~(e = d /\ q = r)
      BY <1>7, <1>9, <2>2
    <2> QED
      BY <2>1, <2>2
  <1>12. Len(tasks[d][r]) > 0 /\ Head(tasks[d][r]) = tasks[d][r][1]
    BY <1>3 DEF s
  <1>13. Head(tasks[d][r]).client \in Clients /\ Head(tasks[d][r]).n \in 1 .. MaxMsgs
    BY <1>4 DEF s
  <1> QED
    BY <1>8, <1>10, <1>11, <1>12, <1>13 DEF TakenFrom

\* Where a call of SendIOBuf goes next: the other calls stay where they are.
LEMMA GoToEffect ==
    ASSUME GTypeOK, NEW k \in Callers, NEW m \in 0 .. MaxMsgs,
           NEW where \in {"idle", "lock", "dispatch", "post"}, GoTo(k, where, m)
    PROVE  /\ call' \in [Callers -> {"idle", "lock", "dispatch", "post"}]
           /\ message' \in [Callers -> 0 .. MaxMsgs]
           /\ blocked' \subseteq Evbs
           /\ call'[k] = where
           /\ where # "idle" => message'[k] = m
           /\ \A j \in Callers \ {k} : call'[j] = call[j] /\ message'[j] = message[j]
  <1>1. blocked' \subseteq Evbs
    BY DEF GoTo, GTypeOK, TcTypeOK
  <1> QED
    BY <1>1 DEF GoTo, GTypeOK

\* A step that leaves queues and writes alone keeps what holds of them.
LEMMA QueuesStutter ==
    ASSUME Placed, QueueOrder, WrittenFirst, UNCHANGED <<tasks, wrote, sent>>
    PROVE  Placed' /\ QueueOrder' /\ WrittenFirst'
  <1>1. tasks' = tasks /\ wrote' = wrote /\ sent' = sent
    OBVIOUS
  <1>2. Placed'
    BY SMTT(30), <1>1 DEF Placed
  <1>3. QueueOrder'
    BY ZenonT(30), <1>1 DEF QueueOrder
  <1>4. WrittenFirst'
    BY ZenonT(30), <1>1 DEF WrittenFirst
  <1> QED
    BY <1>2, <1>3, <1>4

\* A step outside SendIOBuf and the queues keeps what holds of messages.
LEMMA MsgStutter ==
    ASSUME MsgInv, UNCHANGED <<tasks, wrote, sent, call, onlines, message>>
    PROVE  MsgInv'
  <1> USE DEF MsgInv
  <1>1. Placed' /\ QueueOrder' /\ WrittenFirst'
    BY QueuesStutter
  <1>2. \A k \in Callers : Ahead(k)' = Ahead(k)
    BY DEF Ahead
  <1>3. CallLast'
    BY <1>2 DEF CallLast
  <1>4. SingleInCall' /\ SingleQueued'
    BY DEF SingleInCall, SingleQueued, Single
  <1> QED
    BY <1>1, <1>3, <1>4

\* A new message has a larger number than all before it.
LEMMA SendIOBufStep ==
    ASSUME IInv, NEW k \in Callers, NEW s \in Strategies, SendIOBuf(k, s)
    PROVE  GTypeOK' /\ CallInv' /\ MsgInv'
  <1> USE DEF IInv
  <1> DEFINE N == Len(sent)
  <1>1. /\ sent \in Seq([from : Callers, strategy : Strategies])
        /\ N \in Nat /\ posted = N /\ N + 1 \in 1 .. MaxMsgs
    BY DEF GTypeOK, TcTypeOK, CallInv, SendIOBuf
  <1>2. /\ sent' = Append(sent, [from |-> k, strategy |-> s])
        /\ posted' = N + 1
        /\ GoTo(k, "lock", N + 1)
        /\ UNCHANGED <<linkVars, tasks, crashed, wrote, clientList, mutexBusy, stopNext,
                       onlines>>
        /\ call[k] = "idle"
    BY <1>1 DEF SendIOBuf
  <1>3. /\ sent' \in Seq([from : Callers, strategy : Strategies])
        /\ Len(sent') = N + 1
        /\ \A n \in 1 .. N : sent'[n] = sent[n]
    BY <1>1, <1>2
  <1>4. sent'[N + 1].from = k
    <2>1. sent'[N + 1] = [from |-> k, strategy |-> s]
      BY <1>1, <1>2
    <2> QED
      BY <2>1
  <1>5. /\ call' \in [Callers -> {"idle", "lock", "dispatch", "post"}]
        /\ message' \in [Callers -> 0 .. MaxMsgs]
        /\ blocked' \subseteq Evbs
        /\ call'[k] = "lock" /\ message'[k] = N + 1
        /\ \A j \in Callers \ {k} : call'[j] = call[j] /\ message'[j] = message[j]
    BY <1>1, <1>2, GoToEffect
  <1> HIDE DEF N
  <1>6. GTypeOK'
    <2>1. LinkTypeOK'
      BY <1>2 DEF GTypeOK, TcTypeOK, LinkTypeOK, linkVars
    <2>2. TcTypeOK'
      <3>1. posted' \in 0 .. MaxMsgs
        BY <1>1, <1>2
      <3>2. tasks' = tasks /\ wrote' = wrote
        BY <1>2
      <3> QED
        BY <1>5, <2>1, <3>1, <3>2 DEF GTypeOK, TcTypeOK
    <2> QED
      BY <1>2, <1>3, <1>5, <2>2 DEF GTypeOK
  <1>7. CallInv'
    <2>1. \A j \in Callers : call'[j] # "idle" =>
             /\ message'[j] \in 1 .. Len(sent')
             /\ sent'[message'[j]].from = j
             /\ call'[j] # "lock" => Len(onlines'[j]) > 0
             /\ call'[j] = "post" => sent'[message'[j]].strategy = "kBroadCast"
      <3> SUFFICES ASSUME NEW j \in Callers, call'[j] # "idle"
                   PROVE  /\ message'[j] \in 1 .. Len(sent')
                          /\ sent'[message'[j]].from = j
                          /\ call'[j] # "lock" => Len(onlines'[j]) > 0
                          /\ call'[j] = "post" => sent'[message'[j]].strategy = "kBroadCast"
        OBVIOUS
      <3>1. CASE j = k
        BY <1>1, <1>3, <1>4, <1>5, <3>1
      <3>2. CASE j # k
        BY SMTT(30), <1>1, <1>2, <1>3, <1>5, <3>2 DEF CallInv, Single, N
      <3> QED
        BY <3>1, <3>2
    <2> QED
      BY <1>1, <1>2, <1>3, <2>1 DEF CallInv, Single
  <1>8. \A e \in Evbs, q \in Queues : \A i \in 1 .. Len(tasks[e][q]) :
           tasks[e][q][i].n \in 1 .. N
    BY DEF MsgInv, Placed, N
  <1>9. \A c \in Clients : \A j \in 1 .. Len(wrote[c]) : wrote[c][j] \in 1 .. N
    BY DEF MsgInv, WrittenFirst, N
  <1>10. Placed'
    <2>0. tasks' = tasks
      BY <1>2
    <2>1. ASSUME NEW e \in Evbs, NEW q \in Queues, NEW i \in 1 .. Len(tasks[e][q])
          PROVE  /\ EvbOf[tasks[e][q][i].client] = e
                 /\ tasks[e][q][i].n \in 1 .. Len(sent')
                 /\ (q = "loop") <=> (sent'[tasks[e][q][i].n].from = e)
      <3>1. tasks[e][q][i].n \in 1 .. N /\ sent'[tasks[e][q][i].n] = sent[tasks[e][q][i].n]
        BY <1>3, <1>8
      <3>2. tasks[e][q][i].n \in 1 .. Len(sent')
        BY <1>1, <1>3, <3>1
      <3>3. /\ EvbOf[tasks[e][q][i].client] = e
            /\ (q = "loop") <=> (sent[tasks[e][q][i].n].from = e)
        BY DEF MsgInv, Placed
      <3> QED
        BY <3>1, <3>2, <3>3
    <2> QED
      BY SMTT(30), <2>0, <2>1 DEF Placed
  <1>11. QueueOrder'
    <2>0. tasks' = tasks
      BY <1>2
    <2> SUFFICES ASSUME NEW e \in Evbs, NEW q \in Queues,
                        NEW i \in 1 .. Len(tasks[e][q]), NEW j \in 1 .. Len(tasks[e][q]),
                        i < j, tasks[e][q][i].client = tasks[e][q][j].client,
                        sent'[tasks[e][q][i].n].from = sent'[tasks[e][q][j].n].from
                 PROVE  tasks[e][q][i].n < tasks[e][q][j].n
      BY ZenonT(30), <2>0 DEF QueueOrder
    <2>1. sent[tasks[e][q][i].n].from = sent[tasks[e][q][j].n].from
      BY <1>3, <1>8
    <2> QED
      BY <2>1 DEF MsgInv, QueueOrder
  <1>12. WrittenFirst'
    <2>0. tasks' = tasks /\ wrote' = wrote
      BY <1>2
    <2>1. \A c \in Clients : \A j \in 1 .. Len(wrote[c]) : wrote[c][j] \in 1 .. Len(sent')
      BY <1>1, <1>3, <1>9
    <2>2. ASSUME NEW e \in Evbs, NEW q \in Queues, NEW i \in 1 .. Len(tasks[e][q]),
                 NEW c \in Clients, NEW j \in 1 .. Len(wrote[c]), c = tasks[e][q][i].client,
                 sent'[wrote[c][j]].from = sent'[tasks[e][q][i].n].from
          PROVE  wrote[c][j] < tasks[e][q][i].n
      <3>1. sent[wrote[c][j]].from = sent[tasks[e][q][i].n].from
        BY <1>3, <1>8, <1>9, <2>2
      <3> QED
        BY <2>2, <3>1 DEF MsgInv, WrittenFirst
    <2> QED
      BY <2>0, <2>1, <2>2 DEF WrittenFirst
  <1>13. CallLast'
    <2> SUFFICES ASSUME NEW j \in Callers, call'[j] # "idle"
                 PROVE  /\ \A e \in Evbs, q \in Queues : \A i \in 1 .. Len(tasks[e][q]) :
                              tasks[e][q][i].client \in Ahead(j)'
                              /\ sent'[tasks[e][q][i].n].from = j
                                 => tasks[e][q][i].n < message'[j]
                        /\ \A c \in Ahead(j)' : \A i \in 1 .. Len(wrote[c]) :
                              sent'[wrote[c][i]].from = j => wrote[c][i] < message'[j]
      BY <1>2 DEF CallLast
    <2>1. CASE j = k
      <3>1. Ahead(j)' = Clients
        BY <1>5, <2>1 DEF Ahead
      <3> QED
        BY SMTT(30), <1>1, <1>5, <1>8, <1>9, <2>1, <3>1
    <2>2. CASE j # k
      <3>1. Ahead(j)' = Ahead(j)
        BY <1>2, <1>5, <2>2 DEF Ahead
      <3>2. Ahead(j) \subseteq Clients
        BY DEF Ahead, GTypeOK
      <3>3. call[j] # "idle" /\ message'[j] = message[j]
        BY <1>5, <2>2
      <3>4. ASSUME NEW e \in Evbs, NEW q \in Queues, NEW i \in 1 .. Len(tasks[e][q]),
                   tasks[e][q][i].client \in Ahead(j), sent'[tasks[e][q][i].n].from = j
            PROVE  tasks[e][q][i].n < message[j]
        BY <1>3, <1>8, <3>3, <3>4 DEF MsgInv, CallLast
      <3>5. ASSUME NEW c \in Ahead(j), NEW i \in 1 .. Len(wrote[c]),
                   sent'[wrote[c][i]].from = j
            PROVE  wrote[c][i] < message[j]
        BY <1>3, <1>9, <3>2, <3>3, <3>5 DEF MsgInv, CallLast
      <3> QED
        BY <3>1, <3>3, <3>4, <3>5
    <2> QED
      BY <2>1, <2>2
  <1>14. SingleInCall'
    <2> SUFFICES ASSUME NEW j \in Callers, call'[j] # "idle",
                        sent'[message'[j]].strategy # "kBroadCast"
                 PROVE  /\ \A e \in Evbs, q \in Queues : \A i \in 1 .. Len(tasks[e][q]) :
                              tasks[e][q][i].n # message'[j]
                        /\ \A c \in Clients : \A i \in 1 .. Len(wrote[c]) :
                              wrote[c][i] # message'[j]
      BY <1>2 DEF SingleInCall, Single
    <2>1. CASE j = k
      <3>1. message'[j] = N + 1 /\ N \in Nat
        BY <1>1, <1>5, <2>1
      <3> QED
        BY <1>8, <1>9, <3>1
    <2>2. CASE j # k
      <3>1. message[j] \in 1 .. N /\ call[j] # "idle" /\ message'[j] = message[j]
        BY <1>5, <2>2 DEF CallInv, N
      <3> QED
        BY <1>3, <3>1 DEF MsgInv, SingleInCall, Single
    <2> QED
      BY <2>1, <2>2
  <1>15. SingleQueued'
    <2>1. tasks' = tasks /\ wrote' = wrote
      BY <1>2
    <2>2. ASSUME NEW e \in Evbs, NEW q \in Queues, NEW i \in 1 .. Len(tasks[e][q])
          PROVE  Single(tasks[e][q][i].n)' <=> Single(tasks[e][q][i].n)
      BY <1>3, <1>8, <2>1 DEF Single
    <2>3. \A e \in Evbs, q \in Queues : \A i \in 1 .. Len(tasks[e][q]) :
             Single(tasks[e][q][i].n)' <=> Single(tasks[e][q][i].n)
      BY <2>2
    <2> QED
      BY <2>1, <2>3 DEF MsgInv, SingleQueued
  <1> QED
    BY <1>6, <1>7, <1>10, <1>11, <1>12, <1>13, <1>14, <1>15 DEF MsgInv

\* A call that moves on without posting keeps what holds of messages: it has no
\* more clients ahead than before.
LEMMA CallMoves ==
    ASSUME IInv, UNCHANGED <<tasks, wrote, sent>>,
           \A j \in Callers : call'[j] # "idle" =>
              call[j] # "idle" /\ message'[j] = message[j] /\ Ahead(j)' \subseteq Ahead(j)
    PROVE  MsgInv'
  <1> USE DEF IInv, MsgInv
  <1>1. Placed' /\ QueueOrder' /\ WrittenFirst'
    BY QueuesStutter
  <1>2. CallLast'
    BY DEF CallLast
  <1>3. SingleInCall'
    BY DEF SingleInCall, Single
  <1>4. SingleQueued'
    BY DEF SingleQueued, Single
  <1> QED
    BY <1>1, <1>2, <1>3, <1>4

\* The type of the state after a step of a call, given the parts that changed.
LEMMA CallType ==
    ASSUME GTypeOK, LinkTypeOK',
           tasks' \in [Evbs -> [Queues -> Seq(Task)]],
           blocked' \subseteq Evbs,
           call' \in [Callers -> {"idle", "lock", "dispatch", "post"}],
           onlines' \in [Callers -> Seq(Clients)],
           message' \in [Callers -> 0 .. MaxMsgs],
           UNCHANGED <<posted, wrote, clientList, mutexBusy, stopNext, sent>>
    PROVE  GTypeOK'
  BY DEF GTypeOK, TcTypeOK, Task

\* GetOnlineClients copies a list that names no client twice.
LEMMA GetOnlineClientsStep ==
    ASSUME IInv, NEW k \in Callers, GetOnlineClients(k)
    PROVE  GTypeOK' /\ CallInv' /\ MsgInv'
  <1> USE DEF IInv
  <1> DEFINE w == IF clientList = << >> THEN "idle" ELSE "dispatch"
  <1>1. /\ call[k] = "lock"
        /\ onlines' = [onlines EXCEPT ![k] = clientList]
        /\ GoTo(k, w, message[k])
        /\ UNCHANGED <<linkVars, tasks, crashed, posted, wrote, clientList, mutexBusy,
                       stopNext, sent>>
    BY DEF GetOnlineClients
  <1>2. /\ message[k] \in 1 .. Len(sent) /\ message[k] \in 0 .. MaxMsgs
        /\ sent[message[k]].from = k
    BY <1>1 DEF CallInv, GTypeOK
  <1>3. w \in {"idle", "lock", "dispatch", "post"}
    OBVIOUS
  <1>4. /\ call' \in [Callers -> {"idle", "lock", "dispatch", "post"}]
        /\ message' \in [Callers -> 0 .. MaxMsgs]
        /\ blocked' \subseteq Evbs
        /\ call'[k] = w
        /\ w # "idle" => message'[k] = message[k]
        /\ \A j \in Callers \ {k} : call'[j] = call[j] /\ message'[j] = message[j]
    BY <1>1, <1>2, <1>3, GoToEffect
  <1>5. /\ onlines' \in [Callers -> Seq(Clients)]
        /\ onlines'[k] = clientList
        /\ \A j \in Callers \ {k} : onlines'[j] = onlines[j]
        /\ clientList \in Seq(Clients)
    BY <1>1 DEF GTypeOK
  <1>6. LinkTypeOK' /\ tasks' \in [Evbs -> [Queues -> Seq(Task)]]
    BY <1>1 DEF GTypeOK, TcTypeOK, LinkTypeOK, linkVars, Task
  <1>7. GTypeOK'
    BY <1>1, <1>4, <1>5, <1>6, CallType
  <1>8. CallInv'
    <2>1. \A j \in Callers :
             \A a, b \in 1 .. Len(onlines'[j]) : onlines'[j][a] = onlines'[j][b] => a = b
      BY <1>5 DEF CallInv
    <2>2. ASSUME NEW j \in Callers, call'[j] # "idle"
          PROVE  /\ message'[j] \in 1 .. Len(sent)
                 /\ sent[message'[j]].from = j
                 /\ call'[j] # "lock" => Len(onlines'[j]) > 0
                 /\ call'[j] = "post" => ~Single(message'[j])
      <3>1. CASE j = k
        <4>1. clientList # << >> /\ call'[k] = "dispatch" /\ message'[k] = message[k]
          BY <1>4, <2>2, <3>1
        <4>2. Len(clientList) > 0
          BY <1>5, <4>1
        <4> QED
          BY <1>2, <1>5, <3>1, <4>1, <4>2
      <3>2. CASE j # k
        BY <1>4, <1>5, <2>2, <3>2 DEF CallInv
      <3> QED
        BY <3>1, <3>2
    <2>3. \A j \in Callers : Single(message'[j]) <=> Single(message[j])'
      BY <1>1 DEF Single
    <2> QED
      BY <1>1, <2>1, <2>2, <2>3 DEF CallInv
  <1>9. MsgInv'
    <2>1. ASSUME NEW j \in Callers, call'[j] # "idle"
          PROVE  /\ call[j] # "idle" /\ message'[j] = message[j]
                 /\ Ahead(j)' \subseteq Ahead(j)
      <3>1. CASE j = k
        <4>1. Ahead(j) = Clients
          BY <1>1, <3>1 DEF Ahead
        <4>2. Ahead(j)' \subseteq Clients
          BY <1>5 DEF Ahead
        <4> QED
          BY <1>1, <1>4, <2>1, <3>1, <4>1, <4>2
      <3>2. CASE j # k
        <4>1. call'[j] = call[j] /\ message'[j] = message[j] /\ onlines'[j] = onlines[j]
          BY <1>4, <1>5, <3>2
        <4>2. Ahead(j)' = Ahead(j)
          BY <4>1 DEF Ahead
        <4> QED
          BY <2>1, <4>1, <4>2
      <3> QED
        BY <3>1, <3>2
    <2> QED
      BY <1>1, <2>1, CallMoves
  <1> QED
    BY <1>7, <1>8, <1>9

Elements(s) == {s[i] : i \in 1 .. Len(s)}

\* Working off a list without duplicates: its head does not come again.
LEMMA WorkOff ==
    ASSUME NEW s \in Seq(Clients), Len(s) > 0,
           \A i, j \in 1 .. Len(s) : s[i] = s[j] => i = j
    PROVE  /\ Tail(s) \in Seq(Clients)
           /\ Len(s) # 1 => Len(Tail(s)) > 0
           /\ \A i, j \in 1 .. Len(Tail(s)) : Tail(s)[i] = Tail(s)[j] => i = j
           /\ Head(s) \in Clients
           /\ Head(s) \in Elements(s)
           /\ Elements(Tail(s)) = Elements(s) \ {Head(s)}
  <1>1. s # << >>
    OBVIOUS
  <1>2. /\ Tail(s) \in Seq(Clients)
        /\ Len(s) \in Nat
        /\ Len(Tail(s)) = Len(s) - 1
        /\ \A i \in 1 .. Len(Tail(s)) : Tail(s)[i] = s[i + 1]
        /\ Head(s) = s[1]
        /\ Head(s) \in Clients
    BY <1>1
  <1>3. \A i, j \in 1 .. Len(Tail(s)) : Tail(s)[i] = Tail(s)[j] => i = j
    BY <1>2
  <1>4. Head(s) \in Elements(s)
    BY <1>2 DEF Elements
  <1>5. ASSUME NEW x \in Elements(Tail(s)) PROVE x \in Elements(s) \ {Head(s)}
    <2>1. PICK i \in 1 .. Len(Tail(s)) : x = Tail(s)[i]
      BY DEF Elements
    <2>2. i + 1 \in 1 .. Len(s) /\ i + 1 # 1 /\ 1 \in 1 .. Len(s) /\ x = s[i + 1]
      BY <1>2, <2>1
    <2> QED
      BY <1>2, <2>2 DEF Elements
  <1>6. ASSUME NEW x \in Elements(s) \ {Head(s)} PROVE x \in Elements(Tail(s))
    <2>1. PICK i \in 1 .. Len(s) : x = s[i]
      BY DEF Elements
    <2>2. i # 1
      BY <1>2, <2>1
    <2>3. i - 1 \in 1 .. Len(Tail(s)) /\ Tail(s)[i - 1] = s[(i - 1) + 1] /\ (i - 1) + 1 = i
      BY <1>2, <2>2
    <2> QED
      BY <2>1, <2>3 DEF Elements
  <1> QED
    BY <1>2, <1>3, <1>4, <1>5, <1>6

\* After a step of caller k that leaves the list of clients and the messages
\* alone, the calls keep their invariant if k's does.
LEMMA CallInvStep ==
    ASSUME CallInv, NEW k \in Callers,
           UNCHANGED <<posted, sent, clientList>>,
           \A j \in Callers \ {k} :
              call'[j] = call[j] /\ message'[j] = message[j] /\ onlines'[j] = onlines[j],
           \A a, b \in 1 .. Len(onlines'[k]) : onlines'[k][a] = onlines'[k][b] => a = b,
           call'[k] # "idle" =>
              /\ call[k] # "idle" /\ message'[k] = message[k]
              /\ call'[k] # "lock" /\ Len(onlines'[k]) > 0 /\ ~Single(message[k])
    PROVE  CallInv'
  <1>1. \A j \in Callers :
           \A a, b \in 1 .. Len(onlines'[j]) : onlines'[j][a] = onlines'[j][b] => a = b
    BY DEF CallInv
  <1>2. ASSUME NEW j \in Callers, call'[j] # "idle"
        PROVE  /\ message'[j] \in 1 .. Len(sent)
               /\ sent[message'[j]].from = j
               /\ call'[j] # "lock" => Len(onlines'[j]) > 0
               /\ call'[j] = "post" => ~Single(message'[j])
    <2>1. CASE j = k
      BY <1>2, <2>1 DEF CallInv
    <2>2. CASE j # k
      BY <1>2, <2>2 DEF CallInv
    <2> QED
      BY <2>1, <2>2
  <1>3. \A j \in Callers : Single(message'[j]) <=> Single(message[j])'
    BY DEF Single
  <1> QED
    BY <1>1, <1>2, <1>3 DEF CallInv

\* kBroadCast looks at a client and may skip it.
LEMMA BroadcastCheckStep ==
    ASSUME IInv, NEW k \in Callers, BroadcastCheck(k)
    PROVE  GTypeOK' /\ CallInv' /\ MsgInv'
  <1> USE DEF IInv
  <1>1. /\ call[k] = "dispatch" /\ ~Single(message[k])
        /\ UNCHANGED <<linkVars, tasks, crashed, posted, wrote, clientList, mutexBusy,
                       stopNext, sent>>
    BY DEF BroadcastCheck, Single
  <1>2. /\ message[k] \in 0 .. MaxMsgs
        /\ onlines[k] \in Seq(Clients)
        /\ Len(onlines[k]) > 0
    BY <1>1 DEF CallInv, GTypeOK
  <1>3. /\ Tail(onlines[k]) \in Seq(Clients)
        /\ Len(onlines[k]) # 1 => Len(Tail(onlines[k])) > 0
        /\ \A i, j \in 1 .. Len(Tail(onlines[k])) :
              Tail(onlines[k])[i] = Tail(onlines[k])[j] => i = j
        /\ Elements(Tail(onlines[k])) \subseteq Elements(onlines[k])
    BY <1>2, WorkOff DEF CallInv
  <1>4. PICK w \in {"idle", "dispatch", "post"}, o \in Seq(Clients) :
           /\ GoTo(k, w, message[k])
           /\ onlines' = [onlines EXCEPT ![k] = o]
           /\ w # "idle" => Len(o) > 0
           /\ \A i, j \in 1 .. Len(o) : o[i] = o[j] => i = j
           /\ Elements(o) \subseteq Elements(onlines[k])
    <2>1. CASE connected[Head(onlines[k])]
      <3>1. GoTo(k, "post", message[k]) /\ onlines' = onlines
        BY <2>1 DEF BroadcastCheck
      <3>2. onlines = [onlines EXCEPT ![k] = onlines[k]]
        BY DEF GTypeOK
      <3> QED
        BY <1>2, <3>1, <3>2 DEF CallInv
    <2>2. CASE ~connected[Head(onlines[k])]
      <3>1. /\ GoTo(k, IF Len(onlines[k]) = 1 THEN "idle" ELSE "dispatch", message[k])
            /\ onlines' = [onlines EXCEPT ![k] = Tail(onlines[k])]
        BY <2>2 DEF BroadcastCheck
      <3>3. CASE Len(onlines[k]) = 1
        BY <1>3, <3>1, <3>3
      <3>4. CASE Len(onlines[k]) # 1
        BY <1>3, <3>1, <3>4
      <3> QED
        BY <3>3, <3>4
    <2> QED
      BY <2>1, <2>2
  <1>5. /\ call' \in [Callers -> {"idle", "lock", "dispatch", "post"}]
        /\ message' \in [Callers -> 0 .. MaxMsgs]
        /\ blocked' \subseteq Evbs
        /\ call'[k] = w
        /\ w # "idle" => message'[k] = message[k]
        /\ \A j \in Callers \ {k} : call'[j] = call[j] /\ message'[j] = message[j]
    BY <1>2, <1>4, GoToEffect
  <1>6. /\ onlines' \in [Callers -> Seq(Clients)]
        /\ onlines'[k] = o
        /\ \A j \in Callers \ {k} : onlines'[j] = onlines[j]
    BY <1>4 DEF GTypeOK
  <1>7. LinkTypeOK' /\ tasks' \in [Evbs -> [Queues -> Seq(Task)]]
    BY <1>1 DEF GTypeOK, TcTypeOK, LinkTypeOK, linkVars, Task
  <1>8. GTypeOK'
    BY <1>1, <1>5, <1>6, <1>7, CallType
  <1>9. CallInv'
    BY <1>1, <1>4, <1>5, <1>6, CallInvStep
  <1>10. MsgInv'
    <2>1. ASSUME NEW j \in Callers, call'[j] # "idle"
          PROVE  /\ call[j] # "idle" /\ message'[j] = message[j]
                 /\ Ahead(j)' \subseteq Ahead(j)
      <3>1. CASE j = k
        <4>1. Ahead(k) = Elements(onlines[k])
          BY <1>1 DEF Ahead, Elements
        <4>2. Ahead(k)' = Elements(o)
          BY <1>4, <1>5, <1>6 DEF Ahead, Elements
        <4> QED
          BY <1>1, <1>4, <1>5, <2>1, <3>1, <4>1, <4>2
      <3>2. CASE j # k
        <4>1. call'[j] = call[j] /\ message'[j] = message[j] /\ onlines'[j] = onlines[j]
          BY <1>5, <1>6, <3>2
        <4>2. Ahead(j)' = Ahead(j)
          BY <4>1 DEF Ahead
        <4> QED
          BY <2>1, <4>1, <4>2
      <3> QED
        BY <3>1, <3>2
    <2> QED
      BY <1>1, <2>1, CallMoves
  <1> QED
    BY <1>8, <1>9, <1>10

\* SendIOBufThreadSafe posts the message of a call behind all that its caller
\* has for that client.
LEMMA PostStep ==
    ASSUME IInv, NEW k \in Callers, NEW c \in Clients,
           call[k] # "idle", c \in Ahead(k),
           SendIOBufThreadSafe(k, c, message[k]),
           UNCHANGED <<wrote, sent>>,
           \A j \in Callers \ {k} :
              call'[j] = call[j] /\ message'[j] = message[j] /\ onlines'[j] = onlines[j],
           call'[k] # "idle" =>
              /\ message'[k] = message[k] /\ ~Single(message[k])
              /\ Ahead(k)' \subseteq Ahead(k) \ {c}
    PROVE  MsgInv' /\ tasks' \in [Evbs -> [Queues -> Seq(Task)]]
  <1> USE DEF IInv
  <1>1. ASSUME NEW j \in Callers, call'[j] # "idle"
        PROVE  /\ call[j] # "idle" /\ message'[j] = message[j]
               /\ Ahead(j)' \subseteq Ahead(j)
    <2>1. CASE j = k
      BY <1>1, <2>1
    <2>2. CASE j # k
      <3>1. Ahead(j)' = Ahead(j)
        <4>1. call'[j] = call[j] /\ onlines'[j] = onlines[j]
          BY <2>2
        <4> QED
          BY <4>1 DEF Ahead
      <3> QED
        BY <1>1, <2>2, <3>1
    <2> QED
      BY <2>1, <2>2
  <1>2. CASE tasks' = tasks
    BY <1>1, <1>2, CallMoves DEF GTypeOK, TcTypeOK, Task
  <1>3. CASE client[c]
    <2> DEFINE d == EvbOf[c]
               r == IF k = d THEN "loop" ELSE "notify"
               m == message[k]
               L == Len(tasks[d][r]) + 1
    <2>1. d \in Evbs /\ r \in Queues
      BY DEF Queues
    <2>2. m \in 1 .. Len(sent) /\ sent[m].from = k /\ m \in 1 .. MaxMsgs
      BY DEF CallInv, GTypeOK, TcTypeOK
    <2>3. tasks' = [tasks EXCEPT ![d][r] = Append(@, [client |-> c, n |-> m])]
      BY <1>3 DEF SendIOBufThreadSafe
    <2>r. r = "loop" <=> k = d
      OBVIOUS
    <2> HIDE DEF d, r, m, L
    <2>4. PostedTo(d, r, c, m)
      BY <2>1, <2>2, <2>3, PostEffect
    <2>5. \A e \in Evbs, q \in Queues : \A i \in 1 .. Len(tasks'[e][q]) :
             \/ /\ i \in 1 .. Len(tasks[e][q])
                /\ tasks'[e][q][i] = tasks[e][q][i]
                /\ tasks[e][q][i].client \in Clients
             \/ e = d /\ q = r /\ i = L /\ tasks'[e][q][i].client = c /\ tasks'[e][q][i].n = m
      <3>1. \A e \in Evbs, q \in Queues :
               /\ Len(tasks[e][q]) \in Nat
               /\ Len(tasks'[e][q]) =
                     IF e = d /\ q = r THEN Len(tasks[e][q]) + 1 ELSE Len(tasks[e][q])
               /\ \A i \in 1 .. Len(tasks[e][q]) :
                     tasks'[e][q][i] = tasks[e][q][i] /\ tasks[e][q][i].client \in Clients
        BY <2>4 DEF PostedTo
      <3>2. tasks'[d][r][L].client = c /\ tasks'[d][r][L].n = m
        BY <2>4 DEF PostedTo, L
      <3>3. ASSUME NEW e \in Evbs, NEW q \in Queues, NEW i \in 1 .. Len(tasks'[e][q])
            PROVE  i \in 1 .. Len(tasks[e][q]) \/ (e = d /\ q = r /\ i = L)
        BY <3>1 DEF L
      <3> QED
        BY SMTT(30), <3>1, <3>2, <3>3
    <2>6. \A i \in 1 .. Len(tasks[d][r]) : i < L
      <3>1. Len(tasks[d][r]) \in Nat
        BY <2>1 DEF GTypeOK, TcTypeOK
      <3> QED
        BY <3>1 DEF L
    <2>7. Placed'
      <3> SUFFICES ASSUME NEW e \in Evbs, NEW q \in Queues, NEW i \in 1 .. Len(tasks'[e][q])
                   PROVE  /\ EvbOf[tasks'[e][q][i].client] = e
                          /\ tasks'[e][q][i].n \in 1 .. Len(sent)
                          /\ (q = "loop") <=> (sent[tasks'[e][q][i].n].from = e)
        BY DEF Placed
      <3>1. CASE i \in 1 .. Len(tasks[e][q]) /\ tasks'[e][q][i] = tasks[e][q][i]
        BY <3>1 DEF MsgInv, Placed
      <3>2. CASE e = d /\ q = r /\ tasks'[e][q][i].client = c /\ tasks'[e][q][i].n = m
        BY <2>2, <2>r, <3>2 DEF d
      <3> QED
        BY <2>5, <3>1, <3>2
    <2>8. QueueOrder'
      <3> SUFFICES ASSUME NEW e \in Evbs, NEW q \in Queues,
                          NEW i \in 1 .. Len(tasks'[e][q]), NEW j \in 1 .. Len(tasks'[e][q]),
                          i < j, tasks'[e][q][i].client = tasks'[e][q][j].client,
                          sent[tasks'[e][q][i].n].from = sent[tasks'[e][q][j].n].from
                   PROVE  tasks'[e][q][i].n < tasks'[e][q][j].n
        BY ZenonT(30) DEF QueueOrder
      <3>1. CASE /\ i \in 1 .. Len(tasks[e][q]) /\ tasks'[e][q][i] = tasks[e][q][i]
                 /\ j \in 1 .. Len(tasks[e][q]) /\ tasks'[e][q][j] = tasks[e][q][j]
        BY <3>1 DEF MsgInv, QueueOrder
      <3>2. CASE /\ i \in 1 .. Len(tasks[e][q]) /\ tasks'[e][q][i] = tasks[e][q][i]
                 /\ tasks'[e][q][j].client = c /\ tasks'[e][q][j].n = m
        <4>1. tasks[e][q][i].client = c /\ sent[tasks[e][q][i].n].from = sent[m].from
          BY <3>2
        <4> QED
          BY SMTT(30), <2>2, <3>2, <4>1 DEF MsgInv, CallLast, m
      <3>3. ~(e = d /\ q = r /\ i = L)
        BY <2>5, <2>6
      <3> QED
        BY <2>5, <3>1, <3>2, <3>3
    <2>9. WrittenFirst'
      <3>1. \A b \in Clients : \A j \in 1 .. Len(wrote[b]) : wrote[b][j] \in 1 .. Len(sent)
        BY DEF MsgInv, WrittenFirst
      <3>2. ASSUME NEW e \in Evbs, NEW q \in Queues, NEW i \in 1 .. Len(tasks'[e][q]),
                   NEW b \in Clients, NEW j \in 1 .. Len(wrote[b]),
                   b = tasks'[e][q][i].client,
                   sent[wrote[b][j]].from = sent[tasks'[e][q][i].n].from
            PROVE  wrote[b][j] < tasks'[e][q][i].n
        <4>1. CASE i \in 1 .. Len(tasks[e][q]) /\ tasks'[e][q][i] = tasks[e][q][i]
          BY ZenonT(30), <3>2, <4>1 DEF MsgInv, WrittenFirst
        <4>2. CASE tasks'[e][q][i].client = c /\ tasks'[e][q][i].n = m
          <5>1. b = c /\ sent[wrote[b][j]].from = k
            BY <2>2, <3>2, <4>2
          <5> QED
            BY <4>2, <5>1 DEF MsgInv, CallLast, m
        <4> QED
          BY <2>5, <4>1, <4>2
      <3> QED
        BY <3>1, <3>2 DEF WrittenFirst
    <2>10. CallLast'
      <3> SUFFICES ASSUME NEW j \in Callers, call'[j] # "idle"
                   PROVE  /\ \A e \in Evbs, q \in Queues : \A i \in 1 .. Len(tasks'[e][q]) :
                                tasks'[e][q][i].client \in Ahead(j)'
                                /\ sent[tasks'[e][q][i].n].from = j
                                   => tasks'[e][q][i].n < message'[j]
                          /\ \A b \in Ahead(j)' : \A i \in 1 .. Len(wrote[b]) :
                                sent[wrote[b][i]].from = j => wrote[b][i] < message'[j]
        BY DEF CallLast
      <3>1. /\ call[j] # "idle" /\ message'[j] = message[j]
            /\ Ahead(j)' \subseteq Ahead(j)
        BY <1>1
      <3>2. ASSUME NEW b \in Ahead(j)', NEW i \in 1 .. Len(wrote[b]), sent[wrote[b][i]].from = j
            PROVE  wrote[b][i] < message'[j]
        BY <3>1, <3>2 DEF MsgInv, CallLast
      <3>3. ASSUME NEW e \in Evbs, NEW q \in Queues, NEW i \in 1 .. Len(tasks'[e][q]),
                   tasks'[e][q][i].client \in Ahead(j)', sent[tasks'[e][q][i].n].from = j
            PROVE  tasks'[e][q][i].n < message'[j]
        <4>1. CASE i \in 1 .. Len(tasks[e][q]) /\ tasks'[e][q][i] = tasks[e][q][i]
          BY <3>1, <3>3, <4>1 DEF MsgInv, CallLast
        <4>2. CASE tasks'[e][q][i].client = c /\ tasks'[e][q][i].n = m
          BY <2>2, <3>3, <4>2
        <4> QED
          BY <2>5, <4>1, <4>2
      <3> QED
        BY <3>2, <3>3
    <2>11. SingleInCall'
      <3> SUFFICES ASSUME NEW j \in Callers, call'[j] # "idle", Single(message[j])'
                   PROVE  /\ \A e \in Evbs, q \in Queues : \A i \in 1 .. Len(tasks'[e][q]) :
                                tasks'[e][q][i].n # message'[j]
                          /\ \A b \in Clients : \A i \in 1 .. Len(wrote[b]) :
                                wrote[b][i] # message'[j]
        BY DEF SingleInCall
      <3>1. call[j] # "idle" /\ message'[j] = message[j] /\ Single(message[j])
        BY <1>1 DEF Single
      <3>2. j # k /\ message[j] # m
        BY <2>2, <3>1 DEF CallInv
      <3> QED
        BY <2>5, <3>1, <3>2 DEF MsgInv, SingleInCall
    <2>12. SingleQueued'
      <3>1. Single(m) => /\ \A e \in Evbs, q \in Queues : \A i \in 1 .. Len(tasks[e][q]) :
                               tasks[e][q][i].n # m
                         /\ \A b \in Clients : \A j \in 1 .. Len(wrote[b]) : wrote[b][j] # m
        BY DEF MsgInv, SingleInCall, m
      <3> SUFFICES ASSUME NEW e \in Evbs, NEW q \in Queues, NEW i \in 1 .. Len(tasks'[e][q]),
                          Single(tasks'[e][q][i].n)
                   PROVE  /\ \A b \in Clients : \A j \in 1 .. Len(wrote[b]) :
                                wrote[b][j] # tasks'[e][q][i].n
                          /\ \A f \in Evbs, p \in Queues : \A j \in 1 .. Len(tasks'[f][p]) :
                                tasks'[f][p][j].n = tasks'[e][q][i].n => f = e /\ p = q /\ j = i
        BY DEF SingleQueued, Single
      <3>2. CASE i \in 1 .. Len(tasks[e][q]) /\ tasks'[e][q][i] = tasks[e][q][i]
        <4>1. tasks[e][q][i].n # m
          BY <3>1, <3>2
        <4>2. ASSUME NEW f \in Evbs, NEW p \in Queues, NEW j \in 1 .. Len(tasks'[f][p]),
                     tasks'[f][p][j].n = tasks'[e][q][i].n
              PROVE  f = e /\ p = q /\ j = i
          <5>1. j \in 1 .. Len(tasks[f][p]) /\ tasks'[f][p][j] = tasks[f][p][j]
            BY SMTT(30), <2>5, <3>2, <4>1, <4>2
          <5> QED
            BY <3>2, <4>2, <5>1 DEF MsgInv, SingleQueued
        <4>3. \A b \in Clients : \A j \in 1 .. Len(wrote[b]) : wrote[b][j] # tasks'[e][q][i].n
          BY <3>2 DEF MsgInv, SingleQueued
        <4> QED
          BY <4>2, <4>3
      <3>3. CASE e = d /\ q = r /\ i = L /\ tasks'[e][q][i].n = m
        <4>1. ASSUME NEW f \in Evbs, NEW p \in Queues, NEW j \in 1 .. Len(tasks'[f][p]),
                     tasks'[f][p][j].n = m
              PROVE  f = d /\ p = r /\ j = L
          BY <2>5, <3>1, <3>3, <4>1
        <4> QED
          BY <3>1, <3>3, <4>1
      <3> QED
        BY <2>5, <3>2, <3>3
    <2> QED
      BY <2>4, <2>7, <2>8, <2>9, <2>10, <2>11, <2>12 DEF MsgInv, PostedTo
  <1> QED
    BY <1>2, <1>3 DEF SendIOBufThreadSafe

\* The default strategy posts to one client of the copy and returns.
LEMMA DispatchRandomStep ==
    ASSUME IInv, NEW k \in Callers, DispatchRandom(k), LinkTypeOK'
    PROVE  GTypeOK' /\ CallInv' /\ MsgInv'
  <1> USE DEF IInv
  <1>1. /\ call[k] = "dispatch"
        /\ onlines' = [onlines EXCEPT ![k] = << >>]
        /\ GoTo(k, "idle", 0)
        /\ UNCHANGED <<posted, wrote, clientList, mutexBusy, stopNext, sent>>
    BY DEF DispatchRandom
  <1>2. onlines[k] \in Seq(Clients)
    BY DEF GTypeOK
  <1>3. PICK i \in 1 .. Len(onlines[k]) : SendIOBufThreadSafe(k, onlines[k][i], message[k])
    BY <1>2 DEF DispatchRandom
  <1>4. onlines[k][i] \in Clients /\ onlines[k][i] \in Ahead(k)
    BY <1>1, <1>2 DEF Ahead
  <1>5. /\ call' \in [Callers -> {"idle", "lock", "dispatch", "post"}]
        /\ message' \in [Callers -> 0 .. MaxMsgs]
        /\ blocked' \subseteq Evbs
        /\ call'[k] = "idle"
        /\ \A j \in Callers \ {k} : call'[j] = call[j] /\ message'[j] = message[j]
    BY <1>1, GoToEffect
  <1>6. /\ onlines' \in [Callers -> Seq(Clients)]
        /\ onlines'[k] = << >>
        /\ \A j \in Callers \ {k} : onlines'[j] = onlines[j]
    BY <1>1 DEF GTypeOK
  <1>7. MsgInv' /\ tasks' \in [Evbs -> [Queues -> Seq(Task)]]
    BY <1>1, <1>3, <1>4, <1>5, <1>6, PostStep
  <1>8. GTypeOK'
    BY <1>1, <1>5, <1>6, <1>7, CallType
  <1>9. CallInv'
    BY <1>1, <1>5, <1>6, CallInvStep
  <1> QED
    BY <1>7, <1>8, <1>9

\* A broadcast posts to the client it looked at and goes on with the rest, in
\* which that client does not come again.
LEMMA BroadcastPostStep ==
    ASSUME IInv, NEW k \in Callers, BroadcastPost(k), LinkTypeOK'
    PROVE  GTypeOK' /\ CallInv' /\ MsgInv'
  <1> USE DEF IInv
  <1> DEFINE s == onlines[k]
             w == IF Len(s) = 1 THEN "idle" ELSE "dispatch"
  <1>1. /\ call[k] = "post"
        /\ SendIOBufThreadSafe(k, Head(s), message[k])
        /\ onlines' = [onlines EXCEPT ![k] = Tail(s)]
        /\ GoTo(k, w, message[k])
        /\ UNCHANGED <<posted, wrote, clientList, mutexBusy, stopNext, sent>>
    BY DEF BroadcastPost
  <1>2. /\ message[k] \in 0 .. MaxMsgs /\ ~Single(message[k])
        /\ s \in Seq(Clients) /\ Len(s) > 0
        /\ \A i, j \in 1 .. Len(s) : s[i] = s[j] => i = j
    BY <1>1 DEF CallInv, GTypeOK
  <1>3. Ahead(k) = Elements(s)
    BY <1>1 DEF Ahead, Elements
  <1>4. w \in {"idle", "lock", "dispatch", "post"} /\ w # "lock" /\ (w # "idle" => Len(s) # 1)
    OBVIOUS
  <1> HIDE DEF s, w
  <1>5. /\ Tail(s) \in Seq(Clients)
        /\ Len(s) # 1 => Len(Tail(s)) > 0
        /\ \A i, j \in 1 .. Len(Tail(s)) : Tail(s)[i] = Tail(s)[j] => i = j
        /\ Head(s) \in Clients
        /\ Head(s) \in Elements(s)
        /\ Elements(Tail(s)) = Elements(s) \ {Head(s)}
    BY <1>2, WorkOff
  <1>6. /\ call' \in [Callers -> {"idle", "lock", "dispatch", "post"}]
        /\ message' \in [Callers -> 0 .. MaxMsgs]
        /\ blocked' \subseteq Evbs
        /\ call'[k] = w
        /\ w # "idle" => message'[k] = message[k]
        /\ \A j \in Callers \ {k} : call'[j] = call[j] /\ message'[j] = message[j]
    BY <1>1, <1>2, <1>4, GoToEffect
  <1>7. /\ onlines' \in [Callers -> Seq(Clients)]
        /\ onlines'[k] = Tail(s)
        /\ \A j \in Callers \ {k} : onlines'[j] = onlines[j]
    BY <1>1, <1>5 DEF GTypeOK
  <1>8. Ahead(k)' = Elements(Tail(s))
    <2>1. call'[k] # "lock" /\ onlines'[k] = Tail(s)
      BY <1>4, <1>6, <1>7
    <2> QED
      BY <2>1 DEF Ahead, Elements
  <1>9. MsgInv' /\ tasks' \in [Evbs -> [Queues -> Seq(Task)]]
    BY <1>1, <1>2, <1>3, <1>5, <1>6, <1>7, <1>8, PostStep
  <1>10. GTypeOK'
    BY <1>1, <1>6, <1>7, <1>9, CallType
  <1>11. CallInv'
    BY SMTT(30), <1>1, <1>2, <1>4, <1>5, <1>6, <1>7, CallInvStep
  <1> QED
    BY <1>9, <1>10, <1>11

\* The first task of a queue is written or dropped.  What one sender has for one
\* client is in one queue, so nothing of it is overtaken.
LEMMA TakeStep ==
    ASSUME IInv, NEW d \in Evbs, NEW r \in Queues, TakenFrom(d, r),
           NEW c \in Clients, NEW n \in 1 .. MaxMsgs,
           tasks[d][r][1].client = c, tasks[d][r][1].n = n,
           \A b \in Clients : \A j \in 1 .. Len(wrote'[b]) :
              \/ j \in 1 .. Len(wrote[b]) /\ wrote'[b][j] = wrote[b][j]
              \/ b = c /\ wrote'[b][j] = n,
           UNCHANGED <<sent, call, onlines, message>>
    PROVE  MsgInv'
  <1> DEFINE old(e, q, i) == IF e = d /\ q = r THEN i + 1 ELSE i
  <1> USE DEF IInv
  <1>s. sent' = sent
    OBVIOUS
  <1>1. \A e \in Evbs, q \in Queues :
           /\ Len(tasks[e][q]) \in Nat
           /\ Len(tasks'[e][q]) =
                 IF e = d /\ q = r THEN Len(tasks[e][q]) - 1 ELSE Len(tasks[e][q])
    BY DEF TakenFrom
  <1>2. ASSUME NEW e \in Evbs, NEW q \in Queues, NEW i \in 1 .. Len(tasks'[e][q])
        PROVE  /\ old(e, q, i) \in 1 .. Len(tasks[e][q])
               /\ e = d /\ q = r => old(e, q, i) > 1
               /\ tasks'[e][q][i] = tasks[e][q][old(e, q, i)]
    <2>1. tasks'[e][q][i] = IF e = d /\ q = r THEN tasks[e][q][i + 1] ELSE tasks[e][q][i]
      BY DEF TakenFrom
    <2>2. CASE e = d /\ q = r
      BY <1>1, <2>1, <2>2
    <2>3. CASE ~(e = d /\ q = r)
      BY <1>1, <2>1, <2>3
    <2> QED
      BY <2>2, <2>3
  <1>3. \A e \in Evbs, q \in Queues : \A i \in 1 .. Len(tasks'[e][q]) :
           /\ old(e, q, i) \in 1 .. Len(tasks[e][q])
           /\ e = d /\ q = r => old(e, q, i) > 1
           /\ tasks'[e][q][i] = tasks[e][q][old(e, q, i)]
    BY <1>2
  <1>4. \A e \in Evbs, q \in Queues : \A i, j \in 1 .. Len(tasks'[e][q]) :
           /\ i < j => old(e, q, i) < old(e, q, j)
           /\ old(e, q, i) = old(e, q, j) => i = j
    BY <1>1
  <1> HIDE DEF old
  <1>5. 1 \in 1 .. Len(tasks[d][r])
    BY DEF TakenFrom
  <1>6. EvbOf[c] = d /\ n \in 1 .. Len(sent) /\ (r = "loop" <=> sent[n].from = d)
    BY <1>5 DEF MsgInv, Placed
  <1>7. Placed'
    <2> SUFFICES ASSUME NEW e \in Evbs, NEW q \in Queues, NEW i \in 1 .. Len(tasks'[e][q])
                 PROVE  /\ EvbOf[tasks'[e][q][i].client] = e
                        /\ tasks'[e][q][i].n \in 1 .. Len(sent)
                        /\ (q = "loop") <=> (sent[tasks'[e][q][i].n].from = e)
      BY DEF Placed
    <2> DEFINE o == old(e, q, i)
    <2>1. o \in 1 .. Len(tasks[e][q]) /\ tasks'[e][q][i] = tasks[e][q][o]
      BY <1>3
    <2> HIDE DEF o
    <2> QED
      BY SMTT(30), <2>1 DEF MsgInv, Placed
  <1>8. QueueOrder'
    <2> SUFFICES ASSUME NEW e \in Evbs, NEW q \in Queues,
                        NEW i \in 1 .. Len(tasks'[e][q]), NEW j \in 1 .. Len(tasks'[e][q]),
                        i < j, tasks'[e][q][i].client = tasks'[e][q][j].client,
                        sent[tasks'[e][q][i].n].from = sent[tasks'[e][q][j].n].from
                 PROVE  tasks'[e][q][i].n < tasks'[e][q][j].n
      BY ZenonT(30), <1>s DEF QueueOrder
    <2> DEFINE o == old(e, q, i)
               u == old(e, q, j)
    <2>1. /\ o \in 1 .. Len(tasks[e][q]) /\ tasks'[e][q][i] = tasks[e][q][o]
          /\ u \in 1 .. Len(tasks[e][q]) /\ tasks'[e][q][j] = tasks[e][q][u]
      BY <1>3
    <2>2. o < u
      BY <1>4
    <2> HIDE DEF o, u
    <2>3. /\ tasks[e][q][o].client = tasks[e][q][u].client
          /\ sent[tasks[e][q][o].n].from = sent[tasks[e][q][u].n].from
      BY <2>1
    <2>4. tasks[e][q][o].n < tasks[e][q][u].n
      BY <2>1, <2>2, <2>3 DEF MsgInv, QueueOrder
    <2> QED
      BY <2>1, <2>4
  <1>9. WrittenFirst'
    <2>1. \A b \in Clients : \A j \in 1 .. Len(wrote'[b]) : wrote'[b][j] \in 1 .. Len(sent)
      BY <1>6 DEF MsgInv, WrittenFirst
    <2>2. ASSUME NEW e \in Evbs, NEW q \in Queues, NEW i \in 1 .. Len(tasks'[e][q]),
                 NEW b \in Clients, NEW j \in 1 .. Len(wrote'[b]),
                 b = tasks'[e][q][i].client,
                 sent[wrote'[b][j]].from = sent[tasks'[e][q][i].n].from
          PROVE  wrote'[b][j] < tasks'[e][q][i].n
      <3> DEFINE o == old(e, q, i)
      <3>1. /\ o \in 1 .. Len(tasks[e][q]) /\ tasks'[e][q][i] = tasks[e][q][o]
            /\ e = d /\ q = r => o > 1
        BY <1>3
      <3> HIDE DEF o
      <3>2. CASE j \in 1 .. Len(wrote[b]) /\ wrote'[b][j] = wrote[b][j]
        <4>1. /\ b = tasks[e][q][o].client
              /\ sent[wrote[b][j]].from = sent[tasks[e][q][o].n].from
          BY <2>2, <3>1, <3>2
        <4>2. wrote[b][j] < tasks[e][q][o].n
          BY <3>1, <3>2, <4>1 DEF MsgInv, WrittenFirst
        <4> QED
          BY <3>1, <3>2, <4>2
      <3>3. CASE b = c /\ wrote'[b][j] = n
        <4>1. tasks[e][q][o].client = c /\ sent[tasks[e][q][o].n].from = sent[n].from
          BY <2>2, <3>1, <3>3
        <4>2. e = d /\ (q = "loop" <=> r = "loop")
          <5>1. /\ EvbOf[tasks[e][q][o].client] = e
                /\ (q = "loop") <=> (sent[tasks[e][q][o].n].from = e)
            BY <3>1 DEF MsgInv, Placed
          <5> QED
            BY <1>6, <4>1, <5>1
        <4>3. q = r
          BY <4>2 DEF Queues
        <4>4. o \in 1 .. Len(tasks[d][r]) /\ 1 < o
          BY <3>1, <4>2, <4>3
        <4>5. tasks[d][r][1].n < tasks[d][r][o].n
          BY <1>5, <4>1, <4>2, <4>3, <4>4 DEF MsgInv, QueueOrder
        <4> QED
          BY <3>1, <3>3, <4>2, <4>3, <4>5
      <3> QED
        BY <3>2, <3>3
    <2> QED
      BY <1>s, <2>1, <2>2 DEF WrittenFirst
  <1>10. \A k \in Callers : Ahead(k)' = Ahead(k) /\ Ahead(k) \subseteq Clients
    BY DEF Ahead, GTypeOK
  <1>11. CallLast'
    <2> SUFFICES ASSUME NEW k \in Callers, call[k] # "idle"
                 PROVE  /\ \A e \in Evbs, q \in Queues : \A i \in 1 .. Len(tasks'[e][q]) :
                              tasks'[e][q][i].client \in Ahead(k)
                              /\ sent[tasks'[e][q][i].n].from = k
                                 => tasks'[e][q][i].n < message[k]
                        /\ \A b \in Ahead(k) : \A i \in 1 .. Len(wrote'[b]) :
                              sent[wrote'[b][i]].from = k => wrote'[b][i] < message[k]
      BY ZenonT(30), <1>s, <1>10 DEF CallLast
    <2>1. ASSUME NEW e \in Evbs, NEW q \in Queues, NEW i \in 1 .. Len(tasks'[e][q]),
                 tasks'[e][q][i].client \in Ahead(k), sent[tasks'[e][q][i].n].from = k
          PROVE  tasks'[e][q][i].n < message[k]
      <3> DEFINE o == old(e, q, i)
      <3>1. o \in 1 .. Len(tasks[e][q]) /\ tasks'[e][q][i] = tasks[e][q][o]
        BY <1>3
      <3> HIDE DEF o
      <3> QED
        BY <2>1, <3>1 DEF MsgInv, CallLast
    <2>2. ASSUME NEW b \in Ahead(k), NEW i \in 1 .. Len(wrote'[b]), sent[wrote'[b][i]].from = k
          PROVE  wrote'[b][i] < message[k]
      <3>1. CASE i \in 1 .. Len(wrote[b]) /\ wrote'[b][i] = wrote[b][i]
        BY <2>2, <3>1 DEF MsgInv, CallLast
      <3>2. CASE b = c /\ wrote'[b][i] = n
        BY <1>5, <2>2, <3>2 DEF MsgInv, CallLast
      <3> QED
        BY <1>10, <3>1, <3>2
    <2> QED
      BY <2>1, <2>2
  <1>12. SingleInCall'
    <2> SUFFICES ASSUME NEW k \in Callers, call[k] # "idle", Single(message[k])
                 PROVE  /\ \A e \in Evbs, q \in Queues : \A i \in 1 .. Len(tasks'[e][q]) :
                              tasks'[e][q][i].n # message[k]
                        /\ \A b \in Clients : \A i \in 1 .. Len(wrote'[b]) :
                              wrote'[b][i] # message[k]
      BY DEF SingleInCall, Single
    <2>1. n # message[k]
      BY <1>5 DEF MsgInv, SingleInCall
    <2>2. ASSUME NEW e \in Evbs, NEW q \in Queues, NEW i \in 1 .. Len(tasks'[e][q])
          PROVE  tasks'[e][q][i].n # message[k]
      <3> DEFINE o == old(e, q, i)
      <3>1. o \in 1 .. Len(tasks[e][q]) /\ tasks'[e][q][i] = tasks[e][q][o]
        BY <1>3
      <3> HIDE DEF o
      <3> QED
        BY <3>1 DEF MsgInv, SingleInCall
    <2>3. \A b \in Clients : \A i \in 1 .. Len(wrote'[b]) : wrote'[b][i] # message[k]
      BY <2>1 DEF MsgInv, SingleInCall
    <2> QED
      BY <2>2, <2>3
  <1>13. SingleQueued'
    <2> SUFFICES ASSUME NEW e \in Evbs, NEW q \in Queues, NEW i \in 1 .. Len(tasks'[e][q]),
                        Single(tasks'[e][q][i].n)
                 PROVE  /\ \A b \in Clients : \A j \in 1 .. Len(wrote'[b]) :
                              wrote'[b][j] # tasks'[e][q][i].n
                        /\ \A f \in Evbs, p \in Queues : \A j \in 1 .. Len(tasks'[f][p]) :
                              tasks'[f][p][j].n = tasks'[e][q][i].n => f = e /\ p = q /\ j = i
      BY DEF SingleQueued, Single
    <2> DEFINE o == old(e, q, i)
    <2>1. /\ o \in 1 .. Len(tasks[e][q]) /\ tasks'[e][q][i] = tasks[e][q][o]
          /\ e = d /\ q = r => o > 1
      BY <1>3
    <2> HIDE DEF o
    <2>2. \A f \in Evbs, p \in Queues : \A j \in 1 .. Len(tasks[f][p]) :
             tasks[f][p][j].n = tasks[e][q][o].n => f = e /\ p = q /\ j = o
      BY <2>1 DEF MsgInv, SingleQueued
    <2>3. n # tasks[e][q][o].n
      BY SMTT(30), <1>5, <2>1, <2>2
    <2>4. ASSUME NEW b \in Clients, NEW j \in 1 .. Len(wrote'[b])
          PROVE  wrote'[b][j] # tasks'[e][q][i].n
      BY <2>1, <2>3 DEF MsgInv, SingleQueued
    <2>5. ASSUME NEW f \in Evbs, NEW p \in Queues, NEW j \in 1 .. Len(tasks'[f][p]),
                 tasks'[f][p][j].n = tasks'[e][q][i].n
          PROVE  f = e /\ p = q /\ j = i
      <3>1. /\ old(f, p, j) \in 1 .. Len(tasks[f][p])
            /\ tasks'[f][p][j] = tasks[f][p][old(f, p, j)]
        BY <1>3
      <3>2. f = e /\ p = q /\ old(f, p, j) = o
        BY <2>1, <2>2, <2>5, <3>1
      <3> QED
        BY <1>4, <3>2 DEF o
    <2> QED
      BY <2>4, <2>5
  <1> QED
    BY <1>7, <1>8, <1>9, <1>11, <1>12, <1>13 DEF MsgInv

\* The posted lambda writes to a connected client, which has its pipeline, or
\* does nothing.
LEMMA RunSendEffect ==
    ASSUME IInv, NEW e \in Evbs, NEW q \in Queues, RunSend(e, q)
    PROVE  /\ TakenFrom(e, q)
           /\ LinkInv'
           /\ \/ wrote' = wrote
              \/ wrote' = [wrote EXCEPT ![tasks[e][q][1].client] = Append(@, tasks[e][q][1].n)]
  <1> USE DEF IInv
  <1>1. TakenFrom(e, q)
    BY TakeEffect DEF RunSend
  <1> DEFINE c == tasks[e][q][1].client
  <1>2. Head(tasks[e][q]) = tasks[e][q][1] /\ c \in Clients
    BY <1>1 DEF TakenFrom
  <1>3. \/ connected[c] /\ WriteTo(c, tasks[e][q][1])
        \/ UNCHANGED <<linkVars, wrote, crashed>>
    BY <1>2 DEF RunSend
  <1>4. ~crashed
    BY DEF RunSend
  <1> HIDE DEF c
  <1>5. CASE UNCHANGED <<linkVars, wrote, crashed>>
    BY <1>1, <1>5, LinkStutter
  <1>6. CASE connected[c] /\ WriteTo(c, tasks[e][q][1])
    <2>1. wrote' = [wrote EXCEPT ![c] = Append(@, tasks[e][q][1].n)]
      BY <1>6 DEF WriteTo
    <2>2. Up(c)
      BY <1>2, <1>6 DEF LinkInv, Phase
    <2>3. client[c] /\ pipeline[c]
      BY <1>2, <2>2 DEF LinkInv, Phase, Up
    <2>4. CASE crashed' = (~client[c] \/ ~pipeline[c]) /\ UNCHANGED linkVars
      <3>1. crashed' = crashed
        BY <1>4, <2>3, <2>4 DEF LinkInv, LinkTypeOK
      <3> QED
        BY <1>1, <2>1, <2>4, <3>1, LinkStutter DEF c
    <2>5. CASE ClosePipeline(c)
      BY <1>1, <1>2, <2>1, <2>2, <2>5, CloseLink DEF c
    <2> QED
      BY <1>6, <2>4, <2>5 DEF WriteTo
  <1> QED
    BY <1>3, <1>5, <1>6

\* The history of a client after it wrote one more message.
LEMMA WroteEffect ==
    ASSUME GTypeOK, NEW c \in Clients, NEW n \in 1 .. MaxMsgs,
           wrote' = [wrote EXCEPT ![c] = Append(@, n)]
    PROVE  /\ wrote' \in [Clients -> Seq(1 .. MaxMsgs)]
           /\ \A b \in Clients : \A j \in 1 .. Len(wrote'[b]) :
                 \/ j \in 1 .. Len(wrote[b]) /\ wrote'[b][j] = wrote[b][j]
                 \/ b = c /\ wrote'[b][j] = n
  <1>1. wrote \in [Clients -> Seq(1 .. MaxMsgs)]
    BY DEF GTypeOK, TcTypeOK
  <1>2. wrote[c] \in Seq(1 .. MaxMsgs)
    BY <1>1
  <1>3. /\ Append(wrote[c], n) \in Seq(1 .. MaxMsgs)
        /\ Len(wrote[c]) \in Nat
        /\ Len(Append(wrote[c], n)) = Len(wrote[c]) + 1
        /\ \A j \in 1 .. Len(wrote[c]) : Append(wrote[c], n)[j] = wrote[c][j]
        /\ Append(wrote[c], n)[Len(wrote[c]) + 1] = n
    BY <1>2
  <1>4. wrote' \in [Clients -> Seq(1 .. MaxMsgs)]
    BY <1>1, <1>3
  <1>5. wrote'[c] = Append(wrote[c], n) /\ \A b \in Clients \ {c} : wrote'[b] = wrote[b]
    BY <1>1
  <1>6. ASSUME NEW j \in 1 .. Len(wrote'[c])
        PROVE  \/ j \in 1 .. Len(wrote[c]) /\ wrote'[c][j] = wrote[c][j]
               \/ wrote'[c][j] = n
    <2>1. j \in 1 .. Len(wrote[c]) \/ j = Len(wrote[c]) + 1
      BY <1>3, <1>5
    <2> QED
      BY <1>3, <1>5, <2>1
  <1> QED
    BY <1>4, <1>5, <1>6

\* Running a posted lambda keeps the invariant.
LEMMA RunSendStep ==
    ASSUME IInv, NEW e \in Evbs, NEW q \in Queues, RunSend(e, q), UNCHANGED groupVars
    PROVE  IInv'
  <1> USE DEF IInv
  <1> DEFINE c == tasks[e][q][1].client
             n == tasks[e][q][1].n
  <1>1. TakenFrom(e, q) /\ LinkInv'
    BY RunSendEffect
  <1>2. c \in Clients /\ n \in 1 .. MaxMsgs
    BY <1>1 DEF TakenFrom
  <1>3. wrote' = wrote \/ wrote' = [wrote EXCEPT ![c] = Append(@, n)]
    BY RunSendEffect
  <1>4. UNCHANGED <<blocked, posted, clientList, mutexBusy, stopNext, call, onlines, message, sent>>
    BY DEF RunSend, groupVars
  <1>5. /\ wrote' \in [Clients -> Seq(1 .. MaxMsgs)]
        /\ \A b \in Clients : \A j \in 1 .. Len(wrote'[b]) :
              \/ j \in 1 .. Len(wrote[b]) /\ wrote'[b][j] = wrote[b][j]
              \/ b = c /\ wrote'[b][j] = n
    <2> HIDE DEF c, n
    <2>1. CASE wrote' = wrote
      BY <2>1 DEF GTypeOK, TcTypeOK
    <2>2. CASE wrote' = [wrote EXCEPT ![c] = Append(@, n)]
      BY ZenonT(30), <1>2, <2>2, WroteEffect
    <2> QED
      BY <1>3, <2>1, <2>2
  <1>6. MsgInv'
    <2>1. tasks[e][q][1].client = c /\ tasks[e][q][1].n = n
      OBVIOUS
    <2>2. UNCHANGED <<sent, call, onlines, message>>
      BY <1>4
    <2> HIDE DEF c, n, IInv
    <2>3. IInv
      OBVIOUS
    <2> QED
      BY <1>1, <1>2, <1>5, <2>1, <2>2, <2>3, TakeStep
  <1>7. GTypeOK'
    <2>1. tasks' \in [Evbs -> [Queues -> Seq(Task)]] /\ LinkTypeOK'
      BY <1>1 DEF TakenFrom, LinkInv
    <2> QED
      BY <1>4, <1>5, <2>1 DEF GTypeOK, TcTypeOK, Task
  <1>8. CallInv'
    BY <1>4 DEF CallInv, Single
  <1> QED
    BY <1>1, <1>6, <1>7, <1>8

\* A client registers once, so the list names no client twice.
LEMMA RegisterStep ==
    ASSUME IInv, NEW c \in Clients, RegisterTcpClient(c)
    PROVE  IInv'
  <1> USE DEF IInv
  <1>1. /\ clientList \in Seq(Clients)
        /\ clientList' = Append(clientList, c)
        /\ \A i \in 1 .. Len(clientList) : clientList[i] # c
    BY DEF GTypeOK, RegisterTcpClient, Members
  <1>2. UNCHANGED <<linkVars, tasks, blocked, crashed, posted, wrote, mutexBusy, stopNext,
                    call, onlines, message, sent>>
    BY DEF RegisterTcpClient, clientVars
  <1>3. /\ clientList' \in Seq(Clients)
        /\ Len(clientList) \in Nat
        /\ Len(clientList') = Len(clientList) + 1
        /\ \A i \in 1 .. Len(clientList) : clientList'[i] = clientList[i]
        /\ clientList'[Len(clientList) + 1] = c
    BY <1>1
  <1>4. \A i, j \in 1 .. Len(clientList') : clientList'[i] = clientList'[j] => i = j
    <2> SUFFICES ASSUME NEW i \in 1 .. Len(clientList'), NEW j \in 1 .. Len(clientList'),
                        clientList'[i] = clientList'[j]
                 PROVE  i = j
      OBVIOUS
    <2>1. /\ i \in 1 .. Len(clientList) \/ i = Len(clientList) + 1
          /\ j \in 1 .. Len(clientList) \/ j = Len(clientList) + 1
      BY <1>3
    <2>2. CASE i \in 1 .. Len(clientList) /\ j \in 1 .. Len(clientList)
      BY <1>3, <2>2 DEF CallInv
    <2> QED
      BY <1>1, <1>3, <2>1, <2>2
  <1>5. LinkInv'
    BY <1>2, LinkStutter
  <1>6. MsgInv'
    BY <1>2, MsgStutter
  <1>7. CallInv'
    BY <1>2, <1>4 DEF CallInv, Single
  <1>8. GTypeOK'
    <2>1. TcTypeOK'
      BY <1>2, <1>5 DEF GTypeOK, TcTypeOK, LinkInv
    <2> QED
      BY <1>2, <1>3, <2>1 DEF GTypeOK
  <1> QED
    BY <1>5, <1>6, <1>7, <1>8

\* A step of a client's connection, or of Stop, keeps what holds of messages.
LEMMA LinkStep ==
    ASSUME IInv, LinkInv', mutexBusy' \in BOOLEAN, stopNext' \in Nat,
           UNCHANGED <<tasks, blocked, posted, wrote, clientList, call, onlines, message, sent>>
    PROVE  IInv'
  <1> USE DEF IInv
  <1>1. MsgInv'
    BY MsgStutter
  <1>2. CallInv'
    BY DEF CallInv, Single
  <1>3. GTypeOK'
    <2>1. TcTypeOK'
      BY DEF GTypeOK, TcTypeOK, LinkInv
    <2> QED
      BY <2>1 DEF GTypeOK
  <1> QED
    BY <1>1, <1>2, <1>3

\* Registering, starting, losing and restoring connections.
LEMMA ConnectionStep ==
    ASSUME IInv, NEW c \in Clients, StartMember(c) \/ (EventLoop(c) /\ UNCHANGED groupVars)
    PROVE  IInv'
  <1>1. LinkInv'
    <2>1. CASE StartMember(c)
      BY <2>1, StartLink DEF StartMember, IInv
    <2>2. CASE ConnectionLost(c)
      BY <2>2, CloseLink DEF ConnectionLost, IInv
    <2>3. CASE ConnectSuccess(c) \/ ConnectErr(c) \/ ReconnectTimeout(c)
      BY <2>3, ConnectLink DEF IInv
    <2> QED
      BY <2>1, <2>2, <2>3 DEF EventLoop
  <1>2. UNCHANGED groupVars
    BY DEF StartMember
  <1>3. UNCHANGED <<tasks, blocked, posted, wrote>>
    <2>1. CASE StartMember(c)
      BY <2>1 DEF StartMember, Start
    <2>2. CASE ConnectSuccess(c)
      BY <2>2 DEF ConnectSuccess
    <2>3. CASE ConnectErr(c)
      BY <2>3 DEF ConnectErr
    <2>4. CASE ReconnectTimeout(c)
      BY <2>4 DEF ReconnectTimeout
    <2>5. CASE ConnectionLost(c)
      BY <2>5 DEF ConnectionLost
    <2> QED
      BY <2>1, <2>2, <2>3, <2>4, <2>5 DEF EventLoop
  <1>4. mutexBusy' \in BOOLEAN /\ stopNext' \in Nat
    BY <1>2 DEF groupVars, IInv, GTypeOK
  <1> QED
    BY <1>1, <1>2, <1>3, <1>4, LinkStep DEF groupVars

\* Stopping the group.
LEMMA StopStep ==
    ASSUME IInv, StopBegin \/ StopMember \/ StopEnd
    PROVE  IInv'
  <1>1. LinkInv'
    <2>1. CASE StopBegin
      BY <2>1, LinkStutter DEF StopBegin, clientVars, IInv
    <2>2. CASE StopEnd
      BY <2>2, LinkStutter DEF StopEnd, clientVars, IInv
    <2>3. CASE StopMember
      <3>1. clientList[stopNext] \in Clients
        BY <2>3 DEF StopMember, IInv, GTypeOK
      <3> QED
        BY <2>3, <3>1, StopLink DEF StopMember, IInv
    <2> QED
      BY <2>1, <2>2, <2>3
  <1>2. /\ mutexBusy' \in BOOLEAN
        /\ UNCHANGED <<clientList, call, onlines, message, sent>>
    BY DEF StopBegin, StopMember, StopEnd, IInv, GTypeOK
  <1>3. stopNext' \in Nat
    <2>1. stopNext \in Nat
      BY DEF IInv, GTypeOK
    <2> QED
      BY <2>1 DEF StopBegin, StopMember, StopEnd
  <1>4. UNCHANGED <<tasks, blocked, posted, wrote>>
    BY DEF StopBegin, StopMember, StopEnd, clientVars, Stop
  <1> QED
    BY <1>1, <1>2, <1>3, <1>4, LinkStep

\* Nothing in SendIOBuf changes a connection; posting to a stopped client
\* dereferences its missing client_.
LEMMA SendLink ==
    ASSUME IInv, NEW k \in Callers,
           (\E s \in Strategies : SendIOBuf(k, s)) \/ SendSteps(k)
    PROVE  LinkInv'
  <1> USE DEF IInv
  <1>1. CASE UNCHANGED <<linkVars, crashed>>
    BY <1>1, LinkStutter
  <1>2. ASSUME NEW c \in Clients, SendIOBufThreadSafe(k, c, message[k]), UNCHANGED linkVars
        PROVE  LinkInv'
    <2>1. CASE UNCHANGED crashed
      BY <1>2, <2>1, LinkStutter
    <2>2. CASE ~client[c] /\ crashed' = TRUE
      <3>1. stoped[c]
        BY <2>2 DEF LinkInv, Phase
      <3>2. LinkTypeOK'
        BY <1>2, <2>2 DEF LinkInv, LinkTypeOK, linkVars
      <3>3. \A b \in Clients : Phase(b)'
        BY <1>2 DEF LinkInv, Phase, Up, linkVars
      <3>4. stoped'[c]
        BY <1>2, <3>1 DEF linkVars
      <3> QED
        BY <3>2, <3>3, <3>4 DEF LinkInv
    <2> QED
      BY <1>2, <2>1, <2>2 DEF SendIOBufThreadSafe
  <1>3. onlines[k] \in Seq(Clients)
    BY DEF GTypeOK
  <1>4. CASE DispatchRandom(k)
    <2>1. PICK i \in 1 .. Len(onlines[k]) : SendIOBufThreadSafe(k, onlines[k][i], message[k])
      BY <1>3, <1>4 DEF DispatchRandom
    <2>2. onlines[k][i] \in Clients /\ UNCHANGED linkVars
      BY <1>3, <1>4 DEF DispatchRandom
    <2> QED
      BY <1>2, <2>1, <2>2
  <1>5. CASE BroadcastPost(k)
    <2>1. Len(onlines[k]) > 0
      BY <1>5 DEF BroadcastPost, CallInv
    <2>2. Head(onlines[k]) \in Clients
      BY <1>3, <2>1
    <2> QED
      BY <1>2, <1>5, <2>2 DEF BroadcastPost
  <1>6. CASE (\E s \in Strategies : SendIOBuf(k, s)) \/ GetOnlineClients(k) \/ BroadcastCheck(k)
    BY <1>1, <1>6 DEF SendIOBuf, GetOnlineClients, BroadcastCheck
  <1> QED
    BY <1>4, <1>5, <1>6 DEF SendSteps

\* Every step keeps the invariant.
LEMMA NextInv == IInv /\ [GNext]_gVars => IInv'
  <1> SUFFICES ASSUME IInv, [GNext]_gVars PROVE IInv'
    OBVIOUS
  <1>1. ASSUME NEW c \in Clients, RegisterTcpClient(c) \/ StartMember(c) PROVE IInv'
    BY <1>1, RegisterStep, ConnectionStep
  <1>2. ASSUME NEW k \in Callers, NEW s \in Strategies, SendIOBuf(k, s) PROVE IInv'
    BY <1>2, SendIOBufStep, SendLink DEF IInv
  <1>3. ASSUME NEW k \in Callers, SendSteps(k) PROVE IInv'
    <2>1. LinkInv' /\ LinkTypeOK'
      BY <1>3, SendLink DEF LinkInv
    <2> QED
      BY <1>3, <2>1, GetOnlineClientsStep, DispatchRandomStep, BroadcastCheckStep,
         BroadcastPostStep DEF SendSteps, IInv
  <1>4. CASE StopBegin \/ StopMember \/ StopEnd
    BY <1>4, StopStep
  <1>5. CASE ClientLoop
    <2>1. ASSUME NEW c \in Members, EventLoop(c), UNCHANGED groupVars PROVE IInv'
      <3>1. c \in Clients
        BY DEF IInv, GTypeOK, Members
      <3> QED
        BY <2>1, <3>1, ConnectionStep
    <2>2. ASSUME NEW e \in Evbs, NEW q \in Queues, RunSend(e, q), UNCHANGED groupVars PROVE IInv'
      BY <2>2, RunSendStep
    <2> QED
      BY <1>5, <2>1, <2>2 DEF ClientLoop
  <1>6. CASE UNCHANGED gVars
    <2>1. /\ UNCHANGED <<tasks, blocked, posted, wrote, clientList, call, onlines, message, sent>>
          /\ UNCHANGED <<linkVars, crashed, mutexBusy, stopNext>>
      BY <1>6 DEF gVars, clientVars, groupVars
    <2>2. LinkInv' /\ mutexBusy' \in BOOLEAN /\ stopNext' \in Nat
      BY <2>1, LinkStutter DEF IInv, GTypeOK
    <2> QED
      BY <2>1, <2>2, LinkStep
  <1> QED
    BY <1>1, <1>2, <1>3, <1>4, <1>5, <1>6 DEF GNext

\* The group begins with no clients, calls or messages.
LEMMA InitInv == GInit => IInv
  <1> SUFFICES ASSUME GInit PROVE IInv
    OBVIOUS
  <1> USE DEF GInit, TcInit
  <1>1. LinkTypeOK
    BY DEF LinkTypeOK
  <1>2. LinkInv
    BY <1>1 DEF LinkInv, Phase, Up
  <1>3. GTypeOK
    <2>1. TcTypeOK
      BY <1>1 DEF TcTypeOK
    <2>2. clientList \in Seq(Clients) /\ stopNext \in Nat
      OBVIOUS
    <2>6. mutexBusy \in BOOLEAN
      OBVIOUS
    <2>3. message \in [Callers -> 0 .. MaxMsgs]
      OBVIOUS
    <2>4. sent \in Seq([from : Callers, strategy : Strategies])
      OBVIOUS
    <2>5. /\ call \in [Callers -> {"idle", "lock", "dispatch", "post"}]
          /\ onlines \in [Callers -> Seq(Clients)]
      OBVIOUS
    <2> QED
      BY <2>1, <2>2, <2>3, <2>4, <2>5, <2>6 DEF GTypeOK
  <1>4. CallInv
    BY DEF CallInv
  <1>5. \A e \in Evbs, q \in Queues : Len(tasks[e][q]) = 0
    OBVIOUS
  <1>6. \A c \in Clients : Len(wrote[c]) = 0
    OBVIOUS
  <1>7. MsgInv
    BY <1>5, <1>6 DEF MsgInv, Placed, QueueOrder, WrittenFirst, CallLast, SingleInCall,
                      SingleQueued
  <1> QED
    BY <1>2, <1>3, <1>4, <1>7 DEF IInv

\* The inductive invariant holds in every reachable state.
THEOREM Invariant == GSpec => []IInv
  BY InitInv, NextInv, PTL DEF GSpec

\* Every variable of the clients and of the group keeps its type.
THEOREM TypeCorrect == GSpec => []GTypeOK
  <1>1. IInv => GTypeOK
    BY DEF IInv
  <1> QED
    BY <1>1, Invariant, PTL

\* connectErr, deletePipeline and the reconnect timers leave a running client
\* exactly one way forward: connected, connecting or one timer.
THEOREM ClientHasOneAttempt == GSpec => []OneAttempt
  <1>1. IInv => OneAttempt
    BY DEF IInv, LinkInv, LinkTypeOK, Phase, OneAttempt, Up, Connecting
  <1> QED
    BY <1>1, Invariant, PTL

\* connected_ tells the posted lambda of SendIOBufThreadSafe the truth about the
\* pipeline, and client_ is missing only after a Stop.
THEOREM ConnectedTellsTruth == GSpec => []ConnectedIsUp
  <1>1. IInv => ConnectedIsUp
    BY DEF IInv, LinkInv, Phase, ConnectedIsUp
  <1> QED
    BY <1>1, Invariant, PTL

-----------------------------------------------------------------------------
(* The group implements the lossy channel                                   *)

Sent == [from : Callers, strategy : Strategies]
Seen == [from : Callers, all : BOOLEAN]

\* What the channel sees of the messages x: channelSent as a function of sent.
View(x) ==
    [n \in DOMAIN x |-> [from |-> x[n].from, all |-> x[n].strategy = "kBroadCast"]]

\* The messages as the channel sees them form a sequence.
LEMMA ViewSeq ==
    ASSUME NEW x \in Seq(Sent)
    PROVE  /\ View(x) \in Seq(Seen)
           /\ Len(View(x)) = Len(x)
           /\ DOMAIN View(x) = 1 .. Len(x)
           /\ \A n \in 1 .. Len(x) :
                 View(x)[n] = [from |-> x[n].from, all |-> x[n].strategy = "kBroadCast"]
  <1>1. Len(x) \in Nat /\ DOMAIN x = 1 .. Len(x) /\ x \in [1 .. Len(x) -> Sent]
    BY LenProperties
  <1>2. \A n \in 1 .. Len(x) : x[n] \in Sent
    BY <1>1
  <1>3. \A n \in 1 .. Len(x) : x[n].from \in Callers
    BY <1>2 DEF Sent
  <1>4. View(x) \in [1 .. Len(x) -> Seen]
    BY <1>1, <1>3 DEF View, Seen
  <1>5. View(x) \in Seq(Seen)
    BY <1>1, <1>4, SeqDef
  <1>6. DOMAIN View(x) = 1 .. Len(x)
    BY <1>4
  <1>7. Len(View(x)) \in Nat /\ DOMAIN View(x) = 1 .. Len(View(x))
    BY <1>5, LenProperties
  <1>8. Len(View(x)) = Len(x)
    BY <1>1, <1>6, <1>7
  <1>9. \A n \in 1 .. Len(x) :
           View(x)[n] = [from |-> x[n].from, all |-> x[n].strategy = "kBroadCast"]
    BY <1>1 DEF View
  <1> QED
    BY <1>5, <1>6, <1>8, <1>9

\* A message more in sent is a message more in the channel.
LEMMA ViewAppend ==
    ASSUME NEW x \in Seq(Sent), NEW k \in Callers, NEW s \in Strategies
    PROVE  View(Append(x, [from |-> k, strategy |-> s])) =
              Append(View(x), [from |-> k, all |-> s = "kBroadCast"])
  <1> DEFINE m == [from |-> k, strategy |-> s]
             r == [from |-> k, all |-> s = "kBroadCast"]
             y == Append(x, m)
  <1>1. m \in Sent /\ m.from = k /\ m.strategy = s
    BY DEF Sent
  <1>2. r \in Seen
    BY DEF Seen
  <1>3. r = [from |-> m.from, all |-> m.strategy = "kBroadCast"]
    BY <1>1
  <1> HIDE DEF m, r
  <1>4. /\ y \in Seq(Sent) /\ Len(y) = Len(x) + 1 /\ Len(x) \in Nat
        /\ \A i \in 1 .. Len(x) : y[i] = x[i]
        /\ y[Len(x) + 1] = m
    BY <1>1, AppendProperties, LenProperties
  <1> HIDE DEF y
  <1>5. /\ View(x) \in Seq(Seen) /\ Len(View(x)) = Len(x)
        /\ \A n \in 1 .. Len(x) :
              View(x)[n] = [from |-> x[n].from, all |-> x[n].strategy = "kBroadCast"]
    BY ViewSeq
  <1>6. /\ View(y) \in Seq(Seen) /\ Len(View(y)) = Len(y)
        /\ \A n \in 1 .. Len(y) :
              View(y)[n] = [from |-> y[n].from, all |-> y[n].strategy = "kBroadCast"]
    BY <1>4, ViewSeq
  <1>7. /\ Append(View(x), r) \in Seq(Seen) /\ Len(Append(View(x), r)) = Len(x) + 1
        /\ \A i \in 1 .. Len(x) : Append(View(x), r)[i] = View(x)[i]
        /\ Append(View(x), r)[Len(x) + 1] = r
    BY <1>2, <1>5, AppendProperties
  <1>8. ASSUME NEW i \in 1 .. Len(View(y)) PROVE View(y)[i] = Append(View(x), r)[i]
    <2>1. i \in 1 .. Len(y) /\ (i \in 1 .. Len(x) \/ i = Len(x) + 1)
      BY <1>4, <1>6
    <2>2. View(y)[i] = [from |-> y[i].from, all |-> y[i].strategy = "kBroadCast"]
      BY <1>6, <2>1
    <2>3. CASE i \in 1 .. Len(x)
      BY <1>4, <1>5, <1>7, <2>2, <2>3
    <2>4. CASE i = Len(x) + 1
      BY <1>3, <1>4, <1>7, <2>2, <2>4
    <2> QED
      BY <2>1, <2>3, <2>4
  <1>9. View(y) = Append(View(x), r)
    BY <1>4, <1>6, <1>7, <1>8, SeqEqual
  <1> QED
    BY <1>9 DEF y, m, r

\* A call of SendIOBuf is a send of the channel.
LEMMA SendIOBufSends ==
    ASSUME IInv, NEW k \in Callers, NEW s \in Strategies, SendIOBuf(k, s)
    PROVE  Channel!Next
  <1>1. sent \in Seq(Sent) /\ (s = "kBroadCast") \in BOOLEAN
    BY DEF IInv, GTypeOK, Sent
  <1>2. /\ sent' = Append(sent, [from |-> k, strategy |-> s])
        /\ wrote' = wrote
    BY DEF SendIOBuf
  <1>3. channelSent = View(sent) /\ channelSent' = View(sent')
    BY DEF channelSent, View
  <1>4. channelSent' = Append(channelSent, [from |-> k, all |-> s = "kBroadCast"])
    BY <1>1, <1>2, <1>3, ViewAppend
  <1>5. Channel!Send(k, s = "kBroadCast")
    BY <1>2, <1>4 DEF Channel!Send
  <1> QED
    BY <1>1, <1>5 DEF Channel!Next

\* A posted lambda that writes delivers its message: it is not behind a later
\* one of its sender, and nobody else has written it.
LEMMA RunSendDelivers ==
    ASSUME IInv, NEW e \in Evbs, NEW q \in Queues, RunSend(e, q), UNCHANGED groupVars
    PROVE  [Channel!Next]_(Channel!vars)
  <1> DEFINE c == tasks[e][q][1].client
             n == tasks[e][q][1].n
  <1>1. TakenFrom(e, q)
    BY RunSendEffect
  <1>2. c \in Clients /\ n \in 1 .. MaxMsgs /\ 1 \in 1 .. Len(tasks[e][q])
    BY <1>1 DEF TakenFrom
  <1>3. wrote' = wrote \/ wrote' = [wrote EXCEPT ![c] = Append(@, n)]
    BY RunSendEffect
  <1>4. sent' = sent /\ sent \in Seq(Sent)
    BY DEF groupVars, IInv, GTypeOK, Sent
  <1>5. channelSent' = channelSent
    BY <1>4 DEF channelSent
  <1>6. CASE wrote' = wrote
    BY <1>5, <1>6 DEF Channel!vars
  <1>7. CASE wrote' = [wrote EXCEPT ![c] = Append(@, n)]
    <2>1. n \in 1 .. Len(sent)
      BY <1>2 DEF IInv, MsgInv, Placed
    <2>2. DOMAIN channelSent = 1 .. Len(sent)
      BY <1>4, ViewSeq DEF channelSent, View
    <2>3. \A i \in 1 .. Len(sent) :
             channelSent[i].from = sent[i].from /\ (channelSent[i].all <=> ~Single(i))
      <3>1. ASSUME NEW i \in 1 .. Len(sent)
            PROVE  View(sent)[i] = [from |-> sent[i].from, all |-> sent[i].strategy = "kBroadCast"]
        BY <1>4, ViewSeq
      <3>2. channelSent = View(sent)
        BY DEF channelSent, View
      <3>3. ASSUME NEW i \in 1 .. Len(sent)
            PROVE  channelSent[i].from = sent[i].from /\ (channelSent[i].all <=> ~Single(i))
        <4>1. channelSent[i] = [from |-> sent[i].from, all |-> sent[i].strategy = "kBroadCast"]
          BY <3>1, <3>2
        <4>2. channelSent[i].from = sent[i].from
          BY <4>1
        <4>3. channelSent[i].all = (sent[i].strategy = "kBroadCast")
          BY <4>1
        <4> QED
          BY <4>2, <4>3 DEF Single
      <3> QED
        BY <3>3
    <2>4. \A b \in Clients : wrote[b] \in Seq(1 .. MaxMsgs) /\ DOMAIN wrote[b] = 1 .. Len(wrote[b])
      BY LenProperties DEF IInv, GTypeOK, TcTypeOK
    <2>5. \A j \in 1 .. Len(wrote[c]) :
             /\ wrote[c][j] \in 1 .. Len(sent)
             /\ sent[wrote[c][j]].from = sent[n].from => wrote[c][j] < n
      BY <1>2 DEF IInv, MsgInv, WrittenFirst
    <2>6. Single(n) => \A b \in Clients : \A j \in 1 .. Len(wrote[b]) : wrote[b][j] # n
      BY <1>2 DEF IInv, MsgInv, SingleQueued
    <2> HIDE DEF c, n
    <2>7. \A m \in Channel!Got(c) : channelSent[m].from = channelSent[n].from => m < n
      <3>1. ASSUME NEW m \in Channel!Got(c) PROVE \E j \in 1 .. Len(wrote[c]) : m = wrote[c][j]
        BY <1>2, <2>4 DEF Channel!Got
      <3>2. ASSUME NEW m \in Channel!Got(c), channelSent[m].from = channelSent[n].from
            PROVE  m < n
        <4>1. PICK j \in 1 .. Len(wrote[c]) : m = wrote[c][j]
          BY <3>1
        <4>2. m \in 1 .. Len(sent) /\ sent[m].from = sent[n].from
          BY <2>1, <2>3, <2>5, <3>2, <4>1
        <4> QED
          BY <2>5, <4>1, <4>2
      <3> QED
        BY <3>2
    <2>8. channelSent[n].all \/ \A b \in Clients : n \notin Channel!Got(b)
      BY <2>1, <2>3, <2>4, <2>6 DEF Channel!Got
    <2>9. Channel!Deliver(c, n)
      BY <1>5, <1>7, <2>7, <2>8 DEF Channel!Deliver
    <2> QED
      BY <1>2, <2>1, <2>2, <2>9 DEF Channel!Next
  <1> QED
    BY <1>3, <1>6, <1>7

\* No other step touches what the channel sees.
LEMMA OthersStutter ==
    ASSUME UNCHANGED <<sent, wrote>>
    PROVE  UNCHANGED Channel!vars
  BY DEF Channel!vars, channelSent

\* A client group is a lossy channel: SendIOBuf is Send, the write of a posted
\* lambda is Deliver, and every other step is invisible.
THEOREM GroupImplementsChannel == GSpec => ImplementsChannel
  <1>1. GInit => Channel!Init
    <2> SUFFICES ASSUME GInit PROVE Channel!Init
      OBVIOUS
    <2>1. << >> \in Seq(Sent)
      BY EmptySeq
    <2>2. sent = << >> /\ wrote = [c \in Clients |-> << >>]
      BY DEF GInit, TcInit
    <2>3. View(<< >>) \in Seq(Seen) /\ Len(View(<< >>)) = 0
      BY <2>1, ViewSeq, EmptySeq
    <2>4. View(<< >>) = << >>
      BY <2>3, EmptySeq
    <2>5. channelSent = << >>
      BY <2>2, <2>4 DEF channelSent, View
    <2> QED
      BY <2>2, <2>5 DEF Channel!Init
  <1>2. IInv /\ [GNext]_gVars => [Channel!Next]_(Channel!vars)
    <2> SUFFICES ASSUME IInv, [GNext]_gVars PROVE [Channel!Next]_(Channel!vars)
      OBVIOUS
    <2>1. ASSUME NEW k \in Callers, NEW s \in Strategies, SendIOBuf(k, s) PROVE Channel!Next
      BY <2>1, SendIOBufSends
    <2>2. ASSUME NEW e \in Evbs, NEW q \in Queues, RunSend(e, q), UNCHANGED groupVars
          PROVE  [Channel!Next]_(Channel!vars)
      BY <2>2, RunSendDelivers
    <2>3. ASSUME NEW c \in Clients, RegisterTcpClient(c) \/ StartMember(c)
          PROVE  UNCHANGED <<sent, wrote>>
      BY <2>3 DEF RegisterTcpClient, StartMember, Start, clientVars, groupVars
    <2>4. ASSUME NEW k \in Callers, SendSteps(k) PROVE UNCHANGED <<sent, wrote>>
      BY <2>4 DEF SendSteps, GetOnlineClients, DispatchRandom, BroadcastCheck, BroadcastPost
    <2>5. CASE StopBegin \/ StopMember \/ StopEnd
      BY <2>5, OthersStutter DEF StopBegin, StopMember, StopEnd, Stop, clientVars
    <2>6. ASSUME NEW c \in Members, EventLoop(c), UNCHANGED groupVars
          PROVE  UNCHANGED <<sent, wrote>>
      BY <2>6 DEF EventLoop, ConnectSuccess, ConnectErr, ReconnectTimeout, ConnectionLost, groupVars
    <2>7. CASE UNCHANGED gVars
      BY <2>7, OthersStutter DEF gVars, clientVars, groupVars
    <2>8. CASE ClientLoop
      BY <2>2, <2>6, <2>8, OthersStutter DEF ClientLoop
    <2> QED
      BY <2>1, <2>3, <2>4, <2>5, <2>7, <2>8, OthersStutter DEF GNext
  <1> QED
    BY <1>1, <1>2, Invariant, PTL DEF GSpec, ImplementsChannel, Channel!Spec
=============================================================================
