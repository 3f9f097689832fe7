--------------------------- MODULE TcpClientGroup ----------------------------
(***************************************************************************)
(* TcpClientGroup: a list of TcpClients under one mutex.  SendIOBuf copies *)
(* the list under the mutex and then dispatches without it; Stop keeps the *)
(* mutex while it waits for the event base of each client in turn.         *)
(* The clients themselves behave as in module TcpClient.                   *)
(*                                                                         *)
(* Messages are sent by an application thread and by callbacks running on  *)
(* the event bases; an event base whose callback is inside SendIOBuf runs  *)
(* nothing else (blocked).                                                 *)
(***************************************************************************)
EXTENDS TcpClient

CONSTANTS
    AppThread,    \* a sending thread that is not an event base
    SendingEvbs   \* the event bases whose callbacks send

ASSUME AppAssumption == AppThread \notin Evbs
ASSUME SendingAssumption == SendingEvbs \subseteq Evbs

VARIABLES
    clientList,   \* clients_
    mutexBusy,    \* mutex_ is held by Stop; all other holders are atomic
    stopNext,     \* position of the client that Stop stops next, 0 before Stop
    call,         \* where each sending thread is inside SendIOBuf
    onlines,      \* the copy GetOnlineClients returned to it
    message,      \* the message it sends
    sent          \* history: the sender and the strategy of each message

groupVars == <<clientList, mutexBusy, stopNext, call, onlines, message, sent>>
gVars == <<clientVars, groupVars>>

Callers == SendingEvbs \cup {AppThread}
Strategies == {"kBroadCast", "kDefault"}   \* all but kBroadCast pick at random

GTypeOK ==
    /\ TcTypeOK
    /\ clientList \in Seq(Clients)
    /\ mutexBusy \in BOOLEAN
    /\ stopNext \in Nat
    /\ call \in [Callers -> {"idle", "lock", "dispatch", "post"}]
    /\ onlines \in [Callers -> Seq(Clients)]
    /\ message \in [Callers -> 0 .. MaxMsgs]
    /\ sent \in Seq([from : Callers, strategy : Strategies])

GInit ==
    /\ TcInit
    /\ clientList = << >>
    /\ mutexBusy = FALSE
    /\ stopNext = 0
    /\ call = [k \in Callers |-> "idle"]
    /\ onlines = [k \in Callers |-> << >>]
    /\ message = [k \in Callers |-> 0]
    /\ sent = << >>

Members == {clientList[i] : i \in DOMAIN clientList}

-----------------------------------------------------------------------------
(* Set up, on the main thread (ServiceManager::Start)                       *)

\* Fault: the client is added by the group's creation and by its registration.
DoubleRegister(c) ==
    /\ ~crashed /\ ~mutexBusy /\ stopNext = 0
    /\ c \notin Members
    /\ clientList' = clientList \o <<c, c>>
    /\ UNCHANGED <<clientVars, mutexBusy, stopNext, call, onlines, message, sent>>

\* ServiceManager::Start registers and starts one client after the other.
RegisterTcpClient(c) ==
    /\ ~crashed /\ ~mutexBusy /\ stopNext = 0
    /\ c \notin Members
    /\ \A d \in Members : started[d]
    /\ clientList' = Append(clientList, c)
    /\ UNCHANGED <<clientVars, mutexBusy, stopNext, call, onlines, message, sent>>

StartMember(c) ==
    /\ stopNext = 0
    /\ c \in Members
    /\ Start(c)
    /\ UNCHANGED groupVars

-----------------------------------------------------------------------------
(* TcpClientGroup::SendIOBuf                                                *)

\* Where caller k goes next with message m; an event base is blocked until it
\* returns.
GoTo(k, where, m) ==
    /\ call' = [call EXCEPT ![k] = where]
    /\ message' = [message EXCEPT ![k] = IF where = "idle" THEN 0 ELSE m]
    /\ blocked' = IF k \in Evbs
                  THEN IF where = "idle" THEN blocked \ {k} ELSE blocked \cup {k}
                  ELSE blocked

SendIOBuf(k, s) ==
    /\ ~crashed
    /\ call[k] = "idle"
    /\ posted < MaxMsgs
    /\ posted' = posted + 1
    /\ sent' = Append(sent, [from |-> k, strategy |-> s])
    /\ GoTo(k, "lock", posted + 1)
    /\ UNCHANGED <<linkVars, tasks, crashed, wrote, clientList, mutexBusy, stopNext, onlines>>

\* Copies clients_ under the mutex; an empty copy makes SendIOBuf return false.
GetOnlineClients(k) ==
    /\ ~crashed
    /\ call[k] = "lock"
    /\ ~mutexBusy
    /\ onlines' = [onlines EXCEPT ![k] = clientList]
    /\ GoTo(k, IF clientList = << >> THEN "idle" ELSE "dispatch", message[k])
    /\ UNCHANGED <<linkVars, tasks, crashed, posted, wrote, clientList, mutexBusy, stopNext,
                   sent>>

\* The default strategy: one client of the copy at random, connected or not.
DispatchRandom(k) ==
    /\ ~crashed
    /\ call[k] = "dispatch"
    /\ sent[message[k]].strategy # "kBroadCast"
    /\ \E i \in DOMAIN onlines[k] : SendIOBufThreadSafe(k, onlines[k][i], message[k])
    /\ onlines' = [onlines EXCEPT ![k] = << >>]
    /\ GoTo(k, "idle", 0)
    /\ UNCHANGED <<linkVars, posted, wrote, clientList, mutexBusy, stopNext, sent>>

\* Fault: a broadcast waits for a client that is down instead of skipping it.
WaitingBroadcastCheck(k) ==
    /\ ~crashed
    /\ call[k] = "dispatch"
    /\ sent[message[k]].strategy = "kBroadCast"
    /\ onlines[k] # << >>
    /\ connected[Head(onlines[k])]
    /\ GoTo(k, "post", message[k])
    /\ UNCHANGED <<linkVars, tasks, crashed, posted, wrote, clientList, mutexBusy, stopNext,
                   sent, onlines>>

\* kBroadCast looks at each client of the copy in turn ...
BroadcastCheck(k) ==
    /\ ~crashed
    /\ call[k] = "dispatch"
    /\ sent[message[k]].strategy = "kBroadCast"
    /\ onlines[k] # << >>
    /\ \/ /\ connected[Head(onlines[k])]
          /\ GoTo(k, "post", message[k])
          /\ UNCHANGED onlines
       \/ /\ ~connected[Head(onlines[k])]
          /\ onlines' = [onlines EXCEPT ![k] = Tail(@)]
          /\ GoTo(k, IF Len(onlines[k]) = 1 THEN "idle" ELSE "dispatch", message[k])
    /\ UNCHANGED <<linkVars, tasks, crashed, posted, wrote, clientList, mutexBusy, stopNext,
                   sent>>

\* ... and posts a clone to those that were connected.
BroadcastPost(k) ==
    /\ ~crashed
    /\ call[k] = "post"
    /\ SendIOBufThreadSafe(k, Head(onlines[k]), message[k])
    /\ onlines' = [onlines EXCEPT ![k] = Tail(@)]
    /\ GoTo(k, IF Len(onlines[k]) = 1 THEN "idle" ELSE "dispatch", message[k])
    /\ UNCHANGED <<linkVars, posted, wrote, clientList, mutexBusy, stopNext, sent>>

-----------------------------------------------------------------------------
(* TcpClientGroup::Stop                                                     *)

StopBegin ==
    /\ ~crashed
    /\ ~mutexBusy /\ stopNext = 0
    /\ clientList # << >>
    /\ \A c \in Members : started[c]
    /\ mutexBusy' = TRUE
    /\ stopNext' = 1
    /\ UNCHANGED <<clientVars, clientList, call, onlines, message, sent>>

\* Waits until the event base has run the stop of the next client.
StopMember ==
    /\ mutexBusy
    /\ stopNext \in DOMAIN clientList
    /\ Stop(clientList[stopNext])
    /\ stopNext' = stopNext + 1
    /\ UNCHANGED <<clientList, mutexBusy, call, onlines, message, sent>>

StopEnd ==
    /\ ~crashed
    /\ mutexBusy /\ stopNext > Len(clientList)
    /\ mutexBusy' = FALSE
    /\ UNCHANGED <<clientVars, clientList, stopNext, call, onlines, message, sent>>

-----------------------------------------------------------------------------
ClientLoop ==
    /\ \/ \E c \in Members : EventLoop(c)
       \/ \E e \in Evbs, q \in Queues : RunSend(e, q)
    /\ UNCHANGED groupVars

SendSteps(k) ==
    \/ GetOnlineClients(k)
    \/ DispatchRandom(k)
    \/ BroadcastCheck(k)
    \/ BroadcastPost(k)

GNext ==
    \/ \E c \in Clients : RegisterTcpClient(c) \/ StartMember(c)
    \/ \E k \in Callers, s \in Strategies : SendIOBuf(k, s)
    \/ \E k \in Callers : SendSteps(k)
    \/ StopBegin \/ StopMember \/ StopEnd
    \/ ClientLoop

GSpec == GInit /\ [][GNext]_gVars

\* Threads run, the mutex is granted, event bases serve their queues and fire
\* due timers; a peer that is tried again and again accepts in the end.
GFairness ==
    /\ WF_gVars(\E k \in Callers : SendSteps(k))
    /\ WF_gVars(\E e \in Evbs, q \in Queues : RunSend(e, q) /\ UNCHANGED groupVars)
    /\ \A c \in Clients :
          /\ WF_gVars(ReconnectTimeout(c) /\ UNCHANGED groupVars)
          /\ SF_gVars(ConnectSuccess(c) /\ UNCHANGED groupVars)

GFairSpec == GSpec /\ GFairness

-----------------------------------------------------------------------------
(* Properties                                                               *)

\* The clients as receivers: what each wrote to its connections, in order.
channelSent == [n \in DOMAIN sent |->
                   [from |-> sent[n].from, all |-> sent[n].strategy = "kBroadCast"]]
Channel == INSTANCE LossyChannel WITH
    Senders <- Callers, Receivers <- Clients, sent <- channelSent, got <- wrote

\* The group is a lossy channel, although clients are registered, lost and
\* reconnected while a message is dispatched: no client writes a message twice,
\* one message goes to one client unless it is a broadcast, and the messages of
\* one thread never overtake each other on a client.
ImplementsChannel == Channel!Spec

\* Stop was called: the only phase in which the code may crash or hang (the
\* reconnect timers of TcpClient, NoCircularWait).
Stopping == stopNext > 0

\* Message n is still in a call of SendIOBuf or in the queue of an event base.
InCall(n) == \E k \in Callers : message[k] = n
Queued(n) ==
    \E e \in Evbs, q \in Queues : \E k \in DOMAIN tasks[e][q] : tasks[e][q][k].n = n

\* Every message settles: SendIOBuf returns, also when a callback of an event
\* base calls it, because clients_ is copied under the mutex and worked off
\* without it; and each post is taken from its queue and written, or dropped
\* because the client is not connected by then.  Only Stop may prevent this.
MessageSettles ==
    \A n \in 1 .. MaxMsgs : (n \in DOMAIN sent) ~> ((~InCall(n) /\ ~Queued(n)) \/ Stopping)

\* A client that lost its connection, or could not connect, connects again
\* until the group is stopped, whatever is sent meanwhile.
Reconnects == \A c \in Clients : started[c] ~> (connected[c] \/ Stopping)

\* "The guarantee of thread safety" (tcp_client_group.h): Stop never waits for
\* an event base that waits for the mutex Stop holds.
NoCircularWait ==
    mutexBusy /\ stopNext \in DOMAIN clientList =>
        LET e == EvbOf[clientList[stopNext]] IN ~(e \in SendingEvbs /\ call[e] = "lock")
=============================================================================
