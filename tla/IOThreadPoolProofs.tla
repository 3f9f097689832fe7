-------------------------- MODULE IOThreadPoolProofs --------------------------
(***************************************************************************)
(* Proofs about IOThreadPool, for any number of threads, connections,      *)
(* servers and messages.                                                   *)
(*                                                                         *)
(* That a message is written once needs to know that it is posted to one   *)
(* event base at a time and leaves it when it is written (TaskInv), and    *)
(* that a server which stays is reached needs to know that the search has  *)
(* not passed its thread (StayInv).                                        *)
(***************************************************************************)
EXTENDS IOThreadPool, WellFoundedInduction, TLAPS

USE PoolAssumption, ServiceAssumption, PoolNoneAssumption, PoolRequestAssumption

\* An open connection has a thread.
HomeInv == \A p \in open : home[p] \in Threads

\* Before its dispatch a message is nowhere and was not written.
NewInv(m) ==
    request[m] = None =>
        (\A i \in Threads : m \notin tasks[i]) /\ (\A p \in Conns : written[m][p] = 0)

\* A message for one receiver waits at one event base, unwritten; a broadcast
\* has not been written to the connections of a thread it still waits at.
TaskInv(m) ==
    /\ request[m] # None /\ request[m].kind # "all" =>
          \A i \in Threads : m \in tasks[i] =>
              /\ \A j \in Threads : m \in tasks[j] => i = j
              /\ \A p \in Conns : written[m][p] = 0
    /\ request[m] # None /\ request[m].kind = "all" =>
          \A i \in Threads, p \in Conns : m \in tasks[i] /\ written[m][p] > 0 => home[p] # i

\* It is written to connections that have been opened, once to each, and to one
\* only unless it is a broadcast.
WriteInv(m) ==
    /\ \A p \in Conns : written[m][p] <= 1 /\ (written[m][p] > 0 => home[p] \in Threads)
    /\ request[m] # None /\ request[m].kind # "all" =>
          \A p, q \in Conns : written[m][p] > 0 /\ written[m][q] > 0 => p = q

\* Some event base up to the thread of p has message m, and p is registered as s.
Ahead(m, p, s) ==
    \E i \in Threads :
        /\ m \in tasks[i] /\ i <= home[p]
        /\ \E r \in serverConns[home[p]] : r.server = s /\ r.conn = p

\* A receiver that stays was reached, or its turn is still to come.
StayInv(m) ==
    /\ staying[m] \subseteq open
    /\ request[m] # None /\ request[m].kind = "server" =>
          (\E p \in Conns : written[m][p] > 0) \/ \A p \in staying[m] : Ahead(m, p, request[m].to)
    /\ request[m] # None /\ request[m].kind = "conn" =>
          /\ staying[m] \subseteq {request[m].to}
          /\ \A i \in Threads : m \in tasks[i] => home[request[m].to] = i
    /\ request[m] # None /\ request[m].kind # "server" /\ m \notin failed =>
          \A p \in staying[m] : m \in tasks[home[p]] \/ written[m][p] > 0

MsgInv == \A m \in Msgs : NewInv(m) /\ TaskInv(m) /\ WriteInv(m) /\ StayInv(m)

IInv == PoolTypeOK /\ TablesAgree /\ HomeInv /\ MsgInv

-----------------------------------------------------------------------------
(* The tables                                                               *)

\* A set of naturals that is not empty has a least element.
LEMMA LeastOfAll ==
    ASSUME NEW S, S \subseteq Nat, S # {}
    PROVE  \E x \in S : \A y \in S : x <= y
  <1> DEFINE R == OpToRel(<, Nat)
  <1>1. PICK x \in S : \A y \in S : ~ (<<y, x>> \in R)
    BY NatLessThanWellFounded, WFMin
  <1>2. \A y \in S : ~ (y < x)
    BY <1>1 DEF OpToRel
  <1> QED
    BY <1>2

\* The first of the matching registrations exists.
LEMMA FirstMatch ==
    ASSUME NEW rs, rs \subseteq Registrations, rs # {}
    PROVE  First(rs) \in rs
  <1> DEFINE S == {r.n : r \in rs}
  <1>1. \A r \in rs : r.n \in Nat
    BY DEF Registrations
  <1>2. S \subseteq Nat /\ S # {}
    BY <1>1
  <1>3. \E x \in S : \A y \in S : x <= y
    <2> HIDE DEF S
    <2> QED
      BY <1>2, LeastOfAll
  <1>4. \E r \in rs : \A q \in rs : r.n <= q.n
    BY <1>3
  <1> QED
    BY <1>4 DEF First

\* What the tables and connections become when p is closed.
Closed(p) ==
    /\ open' = open \ {p}
    /\ pipelines' \in [Threads -> SUBSET Conns]
    /\ servicePipelines' \in [Threads -> [Services -> SUBSET Conns]]
    /\ serverConns' \in [Threads -> SUBSET Registrations]
    /\ TablesAgree' /\ HomeInv'
    /\ \A i \in Threads : \A r \in serverConns[i] : r.conn # p => r \in serverConns'[i]

\* OnConnectionClosed removes p everywhere, and nothing else.
LEMMA CloseTables ==
    ASSUME PoolTypeOK, TablesAgree, HomeInv, NEW p \in open, OnConnectionClosed(p),
           home' = home
    PROVE  Closed(p)
  <1> DEFINE h == home[p]
  <1>1. /\ h \in Threads /\ p \in Conns /\ ServiceOf[p] \in Services
        /\ open' = open \ {p}
        /\ pipelines' = [pipelines EXCEPT ![h] = pipelines[h] \ {p}]
        /\ serverConns' = [serverConns EXCEPT ![h] = {r \in serverConns[h] : r.conn # p}]
    BY DEF HomeInv, OnConnectionClosed, PoolTypeOK
  <1>2. servicePipelines' = [servicePipelines EXCEPT ![h] =
            [servicePipelines[h] EXCEPT ![ServiceOf[p]] = servicePipelines[h][ServiceOf[p]] \ {p}]]
    BY DEF OnConnectionClosed
  <1>3. servicePipelines[h] \in [Services -> SUBSET Conns]
    BY <1>1 DEF PoolTypeOK
  <1>4. /\ pipelines' \in [Threads -> SUBSET Conns]
        /\ serverConns' \in [Threads -> SUBSET Registrations]
    BY <1>1 DEF PoolTypeOK
  <1>5. servicePipelines' \in [Threads -> [Services -> SUBSET Conns]]
    BY <1>1, <1>2, <1>3 DEF PoolTypeOK
  <1>6. HomeInv'
    BY <1>1 DEF HomeInv
  <1> HIDE DEF h
  <1>7. \A i \in Threads : \A r \in serverConns[i] : r.conn # p => r \in serverConns'[i]
    BY <1>1 DEF PoolTypeOK
  <1>8. ASSUME NEW i \in Threads
        PROVE  /\ pipelines'[i] = {q \in open' : home[q] = i}
               /\ \A s \in Services :
                     servicePipelines'[i][s] = {q \in pipelines'[i] : ServiceOf[q] = s}
               /\ \A r \in serverConns'[i] : r.conn \in pipelines'[i]
    <2>1. /\ pipelines[i] = {q \in open : home[q] = i}
          /\ \A s \in Services :
                servicePipelines[i][s] = {q \in pipelines[i] : ServiceOf[q] = s}
          /\ \A r \in serverConns[i] : r.conn \in pipelines[i]
      BY DEF TablesAgree
    <2>2. CASE i = h
      <3>1. /\ pipelines'[i] = pipelines[i] \ {p}
            /\ serverConns'[i] = {r \in serverConns[i] : r.conn # p}
        BY <1>1, <2>2 DEF PoolTypeOK
      <3>2. \A s \in Services :
               servicePipelines'[i][s] = IF s = ServiceOf[p] THEN servicePipelines[i][s] \ {p}
                                         ELSE servicePipelines[i][s]
        BY <1>1, <1>2, <1>3, <2>2 DEF PoolTypeOK
      <3>3. ASSUME NEW s \in Services
            PROVE  servicePipelines'[i][s] = {q \in pipelines'[i] : ServiceOf[q] = s}
        <4>1. servicePipelines[i][s] = {q \in pipelines[i] : ServiceOf[q] = s}
          BY <2>1
        <4>2. CASE s = ServiceOf[p]
          BY <3>1, <3>2, <4>1, <4>2
        <4>3. CASE s # ServiceOf[p]
          BY <3>1, <3>2, <4>1, <4>3
        <4> QED
          BY <4>2, <4>3
      <3> QED
        BY <1>1, <2>1, <3>1, <3>3
    <2>3. CASE i # h
      <3>1. /\ pipelines'[i] = pipelines[i] /\ serverConns'[i] = serverConns[i]
            /\ servicePipelines'[i] = servicePipelines[i]
        BY <1>1, <1>2, <2>3 DEF PoolTypeOK
      <3>2. home[p] # i
        BY <2>3 DEF h
      <3> QED
        BY <1>1, <2>1, <3>1, <3>2
    <2> QED
      BY <2>2, <2>3
  <1>9. TablesAgree'
    BY <1>8 DEF TablesAgree
  <1> QED
    BY <1>1, <1>4, <1>5, <1>6, <1>7, <1>9 DEF Closed

\* No connection and no table changes.
LEMMA SameTables ==
    ASSUME TablesAgree, HomeInv, UNCHANGED connVars
    PROVE  TablesAgree' /\ HomeInv'
  BY DEF TablesAgree, HomeInv, connVars, tableVars

\* A connection opens and is entered in the tables of its thread.
LEMMA OpenTables ==
    ASSUME PoolTypeOK, TablesAgree, HomeInv, NEW p \in Conns, NEW h \in Threads,
           OnNewConnection(p, h)
    PROVE  PoolTypeOK' /\ TablesAgree' /\ HomeInv'
  <1>1. /\ home[p] = None /\ home' = [home EXCEPT ![p] = h]
        /\ open' = open \cup {p}
        /\ pipelines' = [pipelines EXCEPT ![h] = pipelines[h] \cup {p}]
        /\ UNCHANGED <<serverConns, msgVars, staying>>
    BY DEF OnNewConnection
  <1>2. servicePipelines' = [servicePipelines EXCEPT ![h] =
           [servicePipelines[h] EXCEPT
                ![ServiceOf[p]] = servicePipelines[h][ServiceOf[p]] \cup {p}]]
    BY DEF OnNewConnection
  <1>3. servicePipelines[h] \in [Services -> SUBSET Conns] /\ ServiceOf[p] \in Services
    BY DEF PoolTypeOK
  <1>4. servicePipelines' \in [Threads -> [Services -> SUBSET Conns]]
    BY <1>2, <1>3 DEF PoolTypeOK
  <1>5. PoolTypeOK'
    BY <1>1, <1>4 DEF PoolTypeOK, msgVars
  <1>6. p \notin open /\ (\A q \in Conns \ {p} : home'[q] = home[q]) /\ home'[p] = h
    BY <1>1 DEF HomeInv, PoolTypeOK
  <1>7. HomeInv'
    BY <1>1, <1>6 DEF HomeInv, PoolTypeOK
  <1>8. ASSUME NEW i \in Threads
        PROVE  /\ pipelines'[i] = {q \in open' : home'[q] = i}
               /\ \A s \in Services :
                     servicePipelines'[i][s] = {q \in pipelines'[i] : ServiceOf[q] = s}
               /\ \A r \in serverConns'[i] : r.conn \in pipelines'[i]
    <2>1. /\ pipelines[i] = {q \in open : home[q] = i}
          /\ \A s \in Services :
                servicePipelines[i][s] = {q \in pipelines[i] : ServiceOf[q] = s}
          /\ \A r \in serverConns[i] : r.conn \in pipelines[i]
      BY DEF TablesAgree
    <2>2. \A q \in open : q \in Conns \ {p}
      BY <1>6 DEF PoolTypeOK
    <2>3. CASE i = h
      <3>1. pipelines'[i] = pipelines[i] \cup {p} /\ serverConns'[i] = serverConns[i]
        BY <1>1, <2>3 DEF PoolTypeOK
      <3>2. \A s \in Services :
               servicePipelines'[i][s] = IF s = ServiceOf[p] THEN servicePipelines[i][s] \cup {p}
                                         ELSE servicePipelines[i][s]
        BY <1>2, <1>3, <2>3 DEF PoolTypeOK
      <3>3. ASSUME NEW s \in Services
            PROVE  servicePipelines'[i][s] = {q \in pipelines'[i] : ServiceOf[q] = s}
        <4>1. servicePipelines[i][s] = {q \in pipelines[i] : ServiceOf[q] = s}
          BY <2>1
        <4>2. CASE s = ServiceOf[p]
          BY <3>1, <3>2, <4>1, <4>2
        <4>3. CASE s # ServiceOf[p]
          BY <3>1, <3>2, <4>1, <4>3
        <4> QED
          BY <4>2, <4>3
      <3>4. pipelines'[i] = {q \in open' : home'[q] = i}
        BY <1>1, <1>6, <2>1, <2>2, <2>3, <3>1
      <3> QED
        BY <2>1, <3>1, <3>3, <3>4
    <2>4. CASE i # h
      <3>1. /\ pipelines'[i] = pipelines[i] /\ serverConns'[i] = serverConns[i]
            /\ servicePipelines'[i] = servicePipelines[i]
        BY <1>1, <1>2, <2>4 DEF PoolTypeOK
      <3>2. pipelines'[i] = {q \in open' : home'[q] = i}
        BY <1>1, <1>6, <2>1, <2>2, <2>4, <3>1
      <3> QED
        BY <2>1, <3>1, <3>2
    <2> QED
      BY <2>3, <2>4
  <1>9. TablesAgree'
    BY <1>8 DEF TablesAgree
  <1> QED
    BY <1>5, <1>7, <1>9

\* A peer registers on the thread of its connection.
LEMMA RegisterTables ==
    ASSUME PoolTypeOK, TablesAgree, HomeInv, NEW p \in Conns, NEW s \in Servers,
           OnServerRegister(p, s)
    PROVE  /\ PoolTypeOK' /\ TablesAgree' /\ HomeInv'
           /\ \A i \in Threads : serverConns[i] \subseteq serverConns'[i]
  <1> DEFINE h == home[p]
  <1>1. /\ p \in open /\ h \in Threads
        /\ UNCHANGED <<home, open, pipelines, servicePipelines, msgVars, staying>>
    BY DEF OnServerRegister, HomeInv
  <1>2. PICK n \in 1 .. MaxRegs :
           serverConns' = [serverConns EXCEPT ![h] =
                               serverConns[h] \cup {[server |-> s, conn |-> p, n |-> n]}]
    BY DEF OnServerRegister
  <1> DEFINE e == [server |-> s, conn |-> p, n |-> n]
  <1>3. e \in Registrations /\ e.conn = p
    BY DEF Registrations
  <1>4. serverConns' = [serverConns EXCEPT ![h] = serverConns[h] \cup {e}]
    BY <1>2
  <1> HIDE DEF e
  <1>5. p \in pipelines[h]
    BY <1>1 DEF TablesAgree
  <1> HIDE DEF h
  <1>6. serverConns' \in [Threads -> SUBSET Registrations]
    BY <1>1, <1>3, <1>4 DEF PoolTypeOK
  <1>7. PoolTypeOK'
    BY <1>1, <1>6 DEF PoolTypeOK, msgVars
  <1>8. \A i \in Threads : serverConns[i] \subseteq serverConns'[i]
    BY <1>1, <1>4 DEF PoolTypeOK
  <1>9. \A i \in Threads : \A r \in serverConns'[i] : r \in serverConns[i] \/ (r = e /\ i = h)
    BY <1>1, <1>4 DEF PoolTypeOK
  <1>10. TablesAgree' /\ HomeInv'
    BY <1>1, <1>3, <1>5, <1>9 DEF TablesAgree, HomeInv
  <1> QED
    BY <1>7, <1>8, <1>10

-----------------------------------------------------------------------------
(* Messages                                                                 *)

\* Message m is left alone by a step that may open or close connections.
Untouched(m) ==
    /\ request'[m] = request[m]
    /\ \A i \in Threads : m \in tasks'[i] <=> m \in tasks[i]
    /\ written'[m] = written[m]
    /\ m \in failed => m \in failed'
    /\ staying'[m] \subseteq staying[m] /\ staying'[m] \subseteq open'
    /\ \A p \in Conns : home[p] \in Threads => home'[p] = home[p]
    /\ \A p \in staying'[m] : \A r \in serverConns[home[p]] :
          r.conn = p => r \in serverConns'[home[p]]

\* Ahead after the step.
AheadNext(m, p, s) ==
    \E i \in Threads :
        /\ m \in tasks'[i] /\ i <= home'[p]
        /\ \E r \in serverConns'[home'[p]] : r.server = s /\ r.conn = p

\* Then what holds of m goes on to hold.
LEMMA UntouchedStep ==
    ASSUME PoolTypeOK, HomeInv, NEW m \in Msgs, NewInv(m), TaskInv(m), WriteInv(m), StayInv(m),
           Untouched(m)
    PROVE  NewInv(m)' /\ TaskInv(m)' /\ WriteInv(m)' /\ StayInv(m)'
  <1> USE DEF Untouched
  <1>1. NewInv(m)'
    BY DEF NewInv
  <1>2. TaskInv(m)'
    BY DEF TaskInv, WriteInv
  <1>3. WriteInv(m)'
    BY DEF WriteInv
  <1>4. StayInv(m)'
    <2>1. \A p \in staying'[m] : p \in staying[m] /\ p \in Conns /\ home'[p] = home[p]
      BY DEF StayInv, HomeInv, PoolTypeOK
    <2>2. ASSUME NEW s, NEW p \in staying'[m], Ahead(m, p, s)
          PROVE  AheadNext(m, p, s)
      BY <2>1, <2>2 DEF Ahead, AheadNext
    <2>3. request'[m] # None /\ request'[m].kind = "server" =>
             \/ \E p \in Conns : written'[m][p] > 0
             \/ \A p \in staying'[m] : AheadNext(m, p, request'[m].to)
      BY <2>1, <2>2 DEF StayInv
    <2>4. ASSUME request'[m] # None, request'[m].kind = "conn"
          PROVE  /\ staying'[m] \subseteq {request'[m].to}
                 /\ \A i \in Threads : m \in tasks'[i] => home'[request'[m].to] = i
      <3>1. request[m].to \in Conns
        BY <2>4 DEF PoolTypeOK, Requests
      <3> QED
        BY <2>4, <3>1 DEF StayInv
    <2>5. request'[m] # None /\ request'[m].kind # "server" /\ m \notin failed' =>
             \A p \in staying'[m] : m \in tasks'[home'[p]] \/ written'[m][p] > 0
      <3>1. \A p \in staying'[m] : home[p] \in Threads
        BY <2>1 DEF HomeInv, StayInv
      <3> QED
        BY <2>1, <3>1 DEF StayInv
    <2> QED
      BY <2>3, <2>4, <2>5 DEF StayInv, Ahead, AheadNext
  <1> QED
    BY <1>1, <1>2, <1>3, <1>4

\* The same for all messages but those in ms.
LEMMA OthersStep ==
    ASSUME IInv, NEW ms, \A l \in Msgs \ ms : Untouched(l)
    PROVE  \A l \in Msgs \ ms : NewInv(l)' /\ TaskInv(l)' /\ WriteInv(l)' /\ StayInv(l)'
  BY UntouchedStep DEF IInv, MsgInv

\* A message that a step does not mention is untouched while p is closed.
LEMMA CloseUntouched ==
    ASSUME IInv, NEW m \in Msgs, NEW p \in open, Closed(p), home' = home,
           staying' = [l \in Msgs |-> staying[l] \ {p}],
           request'[m] = request[m], \A i \in Threads : m \in tasks'[i] <=> m \in tasks[i],
           written'[m] = written[m], m \in failed => m \in failed'
    PROVE  Untouched(m)
  <1>1. staying[m] \subseteq open /\ staying'[m] = staying[m] \ {p}
    BY DEF IInv, MsgInv, StayInv
  <1>2. \A q \in staying'[m] : home[q] \in Threads /\ q # p
    BY <1>1 DEF IInv, HomeInv
  <1>3. \A q \in staying'[m] : \A r \in serverConns[home[q]] :
           r.conn = q => r \in serverConns'[home[q]]
    BY <1>2 DEF Closed
  <1> QED
    BY <1>1, <1>3 DEF Untouched, Closed

\* Connections open, register and close.
LEMMA ConnStep ==
    ASSUME IInv, NEW p \in Conns,
           \/ \E i \in Threads : OnNewConnection(p, i)
           \/ \E s \in Servers : OnServerRegister(p, s)
           \/ ConnectionCloses(p)
    PROVE  IInv'
  <1>1. ASSUME NEW h \in Threads, OnNewConnection(p, h)
        PROVE  IInv'
    <2>1. PoolTypeOK' /\ TablesAgree' /\ HomeInv'
      BY <1>1, OpenTables DEF IInv
    <2>2. /\ home[p] = None /\ home' = [home EXCEPT ![p] = h] /\ open' = open \cup {p}
          /\ UNCHANGED <<serverConns, tasks, request, written, failed, staying>>
      BY <1>1 DEF OnNewConnection, msgVars
    <2>3. \A q \in Conns : home[q] \in Threads => home'[q] = home[q]
      BY <2>2 DEF IInv, PoolTypeOK
    <2>4. ASSUME NEW m \in Msgs
          PROVE  Untouched(m)
      <3>1. staying[m] \subseteq open'
        BY <2>2 DEF IInv, MsgInv, StayInv
      <3> QED
        BY <2>2, <2>3, <3>1 DEF Untouched
    <2>5. MsgInv'
      BY <2>4, UntouchedStep DEF IInv, MsgInv
    <2> QED
      BY <2>1, <2>5 DEF IInv
  <1>2. ASSUME NEW s \in Servers, OnServerRegister(p, s)
        PROVE  IInv'
    <2>1. /\ PoolTypeOK' /\ TablesAgree' /\ HomeInv'
          /\ \A i \in Threads : serverConns[i] \subseteq serverConns'[i]
      BY <1>2, RegisterTables DEF IInv
    <2>2. UNCHANGED <<home, open, tasks, request, written, failed, staying>>
      BY <1>2 DEF OnServerRegister, msgVars
    <2>3. ASSUME NEW m \in Msgs
          PROVE  Untouched(m)
      <3>1. staying[m] \subseteq open /\ \A q \in staying[m] : home[q] \in Threads
        BY DEF IInv, MsgInv, StayInv, HomeInv
      <3> QED
        BY <2>1, <2>2, <3>1 DEF Untouched
    <2>4. MsgInv'
      BY <2>3, UntouchedStep DEF IInv, MsgInv
    <2> QED
      BY <2>1, <2>4 DEF IInv
  <1>3. CASE ConnectionCloses(p)
    <2>1. /\ p \in open /\ OnConnectionClosed(p)
          /\ staying' = [m \in Msgs |-> staying[m] \ {p}]
          /\ UNCHANGED <<home, tasks, request, written, failed, crashed>>
      BY <1>3 DEF ConnectionCloses, msgVars
    <2>2. Closed(p)
      BY <2>1, CloseTables DEF IInv
    <2>3. \A m \in Msgs : Untouched(m)
      BY <2>1, <2>2, CloseUntouched
    <2>4. MsgInv'
      BY <2>3, UntouchedStep DEF IInv, MsgInv
    <2>5. PoolTypeOK'
      BY <2>1, <2>2 DEF PoolTypeOK, IInv, Closed
    <2> QED
      BY <2>2, <2>4, <2>5 DEF IInv, Closed
  <1> QED
    BY <1>1, <1>2, <1>3

\* A message is dispatched; what is left to show is that a receiver which stays
\* is ahead of it.
LEMMA PostStep ==
    ASSUME IInv, NEW m \in Msgs, NEW r \in Requests, NEW ts \in SUBSET Threads,
           NEW receivers \in SUBSET open, PostTo(m, r, ts, receivers),
           r.kind # "all" => \A i, j \in ts : i = j,
           r.kind = "server" => \A p \in receivers :
              \E i \in ts :
                 i <= home[p] /\ \E e \in serverConns[home[p]] : e.server = r.to /\ e.conn = p,
           r.kind = "conn" => receivers \subseteq {r.to} /\ \A i \in ts : home[r.to] = i,
           r.kind # "server" => \A p \in receivers : home[p] \in ts
    PROVE  IInv'
  <1>1. /\ request[m] = None /\ request' = [request EXCEPT ![m] = r]
        /\ tasks' = [i \in Threads |-> IF i \in ts THEN tasks[i] \cup {m} ELSE tasks[i]]
        /\ staying' = [staying EXCEPT ![m] = receivers]
        /\ UNCHANGED <<home, open, pipelines, servicePipelines, serverConns, written, failed,
                       crashed>>
    BY DEF PostTo, connVars, tableVars
  <1>2. TablesAgree' /\ HomeInv'
    BY <1>1, SameTables DEF IInv, connVars, tableVars
  <1>3. open \subseteq Conns
    BY DEF IInv, PoolTypeOK
  <1>4. PoolTypeOK'
    BY <1>1, <1>3 DEF IInv, PoolTypeOK
  <1>5. ASSUME NEW l \in Msgs \ {m}
        PROVE  Untouched(l)
    <2>1. staying'[l] = staying[l] /\ staying[l] \subseteq open /\ request'[l] = request[l]
      BY <1>1 DEF IInv, PoolTypeOK, MsgInv, StayInv
    <2>2. \A i \in Threads : l \in tasks'[i] <=> l \in tasks[i]
      BY <1>1
    <2> QED
      BY <1>1, <2>1, <2>2 DEF Untouched
  <1>6. \A l \in Msgs \ {m} : NewInv(l)' /\ TaskInv(l)' /\ WriteInv(l)' /\ StayInv(l)'
    BY <1>5, OthersStep
  <1>7. /\ request'[m] = r /\ r # None /\ staying'[m] = receivers
        /\ \A i \in Threads : m \in tasks'[i] <=> i \in ts
        /\ \A p \in Conns : written[m][p] = 0
    BY <1>1 DEF IInv, PoolTypeOK, MsgInv, NewInv
  <1>8. NewInv(m)' /\ TaskInv(m)'
    BY <1>1, <1>7 DEF NewInv, TaskInv
  <1>9. WriteInv(m)'
    BY <1>1, <1>7 DEF WriteInv
  <1>10. StayInv(m)'
    <2>1. r.kind = "server" => \A p \in receivers : AheadNext(m, p, r.to)
      BY <1>1, <1>7 DEF AheadNext
    <2>2. \A p \in receivers : home[p] \in Threads
      BY DEF IInv, HomeInv
    <2>3. r.kind # "server" => \A p \in receivers : m \in tasks'[home[p]]
      BY <1>7, <2>2
    <2> QED
      BY <1>1, <1>7, <2>1, <2>3 DEF StayInv, Ahead, AheadNext
  <1>11. MsgInv'
    BY <1>6, <1>8, <1>9, <1>10 DEF MsgInv
  <1> QED
    BY <1>2, <1>4, <1>11 DEF IInv

\* The three ways of dispatching.
LEMMA DispatchStep ==
    ASSUME IInv, NEW m \in Msgs,
           \/ \E p \in Conns : DispatchIOBufByConnID(m, p)
           \/ \E s \in Servers : DispatchIOBufByServer(m, s)
           \/ BroadCast(m)
    PROVE  IInv'
  <1>1. ASSUME NEW p \in Conns, DispatchIOBufByConnID(m, p)
        PROVE  IInv'
    <2> DEFINE r == [kind |-> "conn", to |-> p]
    <2>1. r \in Requests /\ r.kind = "conn" /\ r.to = p
      BY DEF Requests
    <2>2. home[p] \in Threads /\ PostTo(m, r, {home[p]}, {p} \cap open)
      BY <1>1 DEF DispatchIOBufByConnID, IInv, PoolTypeOK
    <2> HIDE DEF r
    <2> QED
      BY <2>1, <2>2, PostStep
  <1>2. ASSUME NEW s \in Servers, DispatchIOBufByServer(m, s)
        PROVE  IInv'
    <2> DEFINE r == [kind |-> "server", to |-> s]
    <2>1. r \in Requests /\ r.kind = "server" /\ r.to = s
      BY DEF Requests
    <2>2. PostTo(m, r, {0}, RegisteredAs(s))
      BY <1>2 DEF DispatchIOBufByServer
    <2> HIDE DEF r
    <2>3. 0 \in Threads /\ \A i \in Threads : 0 <= i
      BY DEF Threads
    <2>4. ASSUME NEW p \in RegisteredAs(s)
          PROVE  /\ p \in open /\ home[p] \in Threads
                 /\ \E e \in serverConns[home[p]] : e.server = s /\ e.conn = p
      <3>1. PICK i \in Threads : \E e \in serverConns[i] : e.server = s /\ e.conn = p
        BY DEF RegisteredAs
      <3>2. p \in pipelines[i]
        BY <3>1 DEF IInv, TablesAgree
      <3>3. p \in open /\ home[p] = i
        BY <3>2 DEF IInv, TablesAgree
      <3> QED
        BY <3>1, <3>3
    <2> QED
      BY <2>1, <2>2, <2>3, <2>4, PostStep
  <1>3. CASE BroadCast(m)
    <2> DEFINE r == [kind |-> "all", to |-> None]
    <2>1. r \in Requests /\ r.kind = "all"
      BY DEF Requests
    <2>2. PostTo(m, r, Threads, Pipelines)
      BY <1>3 DEF BroadCast
    <2> HIDE DEF r
    <2>3. ASSUME NEW p \in Pipelines
          PROVE  p \in open /\ home[p] \in Threads
      <3>1. PICK i \in Threads : p \in pipelines[i]
        BY DEF Pipelines
      <3> QED
        BY <3>1 DEF IInv, TablesAgree
    <2> QED
      BY <2>1, <2>2, <2>3, PostStep
  <1> QED
    BY <1>1, <1>2, <1>3

-----------------------------------------------------------------------------
(* The posted tasks                                                         *)

\* A write to p is counted, and p is closed or nothing else changes.
LEMMA WriteEffect ==
    ASSUME IInv, NEW m \in Msgs, NEW p \in open, Write(m, p), home' = home,
           request' = request, crashed' = crashed,
           NEW i \in Threads, m \in tasks[i], request[m].kind # "all", Done(i, m),
           request[m].kind = "conn" => p = request[m].to
    PROVE  IInv'
  <1>1. /\ p \in Conns /\ home[p] \in Threads /\ request[m] # None
        /\ written[m] \in [Conns -> Nat] /\ \A q \in Conns : written[m][q] = 0
    BY DEF IInv, PoolTypeOK, HomeInv, MsgInv, NewInv, TaskInv
  <1>2. written' = [written EXCEPT ![m] = [written[m] EXCEPT ![p] = written[m][p] + 1]]
    BY DEF Write
  <1>3. /\ written' \in [Msgs -> [Conns -> Nat]]
        /\ written'[m][p] = 1 /\ \A q \in Conns \ {p} : written'[m][q] = 0
        /\ \A l \in Msgs \ {m} : written'[l] = written[l]
    <2>1. [written[m] EXCEPT ![p] = written[m][p] + 1] \in [Conns -> Nat]
      BY <1>1
    <2> QED
      BY <1>1, <1>2, <2>1 DEF IInv, PoolTypeOK
  <1>4. /\ tasks' \in [Threads -> SUBSET Msgs] /\ \A j \in Threads : m \notin tasks'[j]
        /\ \A l \in Msgs \ {m} : \A j \in Threads : l \in tasks'[j] <=> l \in tasks[j]
    BY <1>1 DEF Done, IInv, PoolTypeOK, MsgInv, TaskInv
  <1>5. /\ PoolTypeOK' /\ TablesAgree' /\ HomeInv'
        /\ staying'[m] \subseteq staying[m] /\ staying'[m] \subseteq open'
        /\ \A l \in Msgs \ {m} : Untouched(l)
    <2>1. CASE /\ OnConnectionClosed(p)
               /\ staying' = [l \in Msgs |-> staying[l] \ {p}]
               /\ failed' = failed \cup {m}
      <3>1. Closed(p)
        BY <2>1, CloseTables DEF IInv
      <3>2. \A l \in Msgs \ {m} : Untouched(l)
        BY <1>3, <1>4, <2>1, <3>1, CloseUntouched
      <3>3. PoolTypeOK'
        BY <1>3, <1>4, <2>1, <3>1 DEF IInv, PoolTypeOK, Closed
      <3>4. staying'[m] \subseteq staying[m] /\ staying'[m] \subseteq open'
        BY <2>1, <3>1 DEF Closed, IInv, MsgInv, StayInv
      <3> QED
        BY <3>1, <3>2, <3>3, <3>4 DEF Closed
    <2>2. CASE UNCHANGED <<open, tableVars, staying, failed>>
      <3>1. TablesAgree' /\ HomeInv'
        BY <2>2, SameTables DEF IInv, connVars
      <3>2. PoolTypeOK'
        BY <1>3, <1>4, <2>2 DEF IInv, PoolTypeOK, tableVars
      <3>3. \A l \in Msgs : staying'[l] \subseteq staying[l] /\ staying'[l] \subseteq open'
        BY <2>2 DEF IInv, MsgInv, StayInv
      <3>4. \A l \in Msgs \ {m} : Untouched(l)
        BY <1>3, <1>4, <2>2, <3>3 DEF Untouched, tableVars
      <3> QED
        BY <3>1, <3>2, <3>3, <3>4
    <2> QED
      BY <2>1, <2>2 DEF Write
  <1>6. \A l \in Msgs \ {m} : NewInv(l)' /\ TaskInv(l)' /\ WriteInv(l)' /\ StayInv(l)'
    BY <1>5, OthersStep
  <1>7. NewInv(m)' /\ TaskInv(m)'
    BY <1>1, <1>4 DEF NewInv, TaskInv
  <1>8. WriteInv(m)'
    BY <1>1, <1>3 DEF WriteInv
  <1>9. StayInv(m)'
    <2>1. request[m].kind = "conn" => staying[m] \subseteq {request[m].to}
      BY <1>1 DEF IInv, MsgInv, StayInv
    <2>2. request[m].kind \in {"conn", "server"}
      BY <1>1 DEF IInv, PoolTypeOK, Requests
    <2> QED
      BY <1>1, <1>3, <1>4, <1>5, <2>1, <2>2 DEF StayInv
  <1> QED
    BY <1>5, <1>6, <1>7, <1>8, <1>9 DEF IInv, MsgInv

\* A step that writes nothing and moves only message m.
LEMMA NoWriteEffect ==
    ASSUME IInv, NEW m \in Msgs, NoWrite, UNCHANGED <<home, request, crashed>>,
           tasks' \in [Threads -> SUBSET Msgs],
           \A l \in Msgs \ {m} : \A j \in Threads : l \in tasks'[j] <=> l \in tasks[j]
    PROVE  /\ PoolTypeOK' /\ TablesAgree' /\ HomeInv'
           /\ \A l \in Msgs \ {m} : NewInv(l)' /\ TaskInv(l)' /\ WriteInv(l)' /\ StayInv(l)'
  <1>1. UNCHANGED <<written, open, tableVars, staying, failed, home, request, crashed>>
    BY DEF NoWrite
  <1>2. TablesAgree' /\ HomeInv'
    BY <1>1, SameTables DEF IInv, connVars
  <1>3. PoolTypeOK'
    BY <1>1 DEF IInv, PoolTypeOK, tableVars
  <1>4. \A l \in Msgs : staying[l] \subseteq open
    BY DEF IInv, MsgInv, StayInv
  <1>5. \A l \in Msgs \ {m} : Untouched(l)
    BY <1>1, <1>4 DEF Untouched, tableVars
  <1> QED
    BY <1>2, <1>3, <1>5, OthersStep

\* The task of DispatchIOBufByConnID.
LEMMA ByConnIDStep ==
    ASSUME IInv, NEW m \in Msgs, NEW i \in Threads, RunByConnID(i, m)
    PROVE  IInv'
  <1> DEFINE p == request[m].to
  <1>1. /\ m \in tasks[i] /\ request[m].kind = "conn" /\ Done(i, m)
        /\ UNCHANGED <<home, request, crashed>>
    BY DEF RunByConnID
  <1>2. /\ request[m] # None /\ home[p] = i /\ staying[m] \subseteq {p}
        /\ \A q \in Conns : written[m][q] = 0
    BY <1>1 DEF IInv, MsgInv, NewInv, StayInv, TaskInv
  <1>3. pipelines[i] = {q \in open : home[q] = i}
    BY DEF IInv, TablesAgree
  <1>4. CASE p \in pipelines[i] /\ Write(m, p)
    <2>1. p \in open
      BY <1>3, <1>4
    <2> QED
      BY <1>1, <1>4, <2>1, WriteEffect
  <1>5. CASE p \notin pipelines[i] /\ NoWrite
    <2>1. /\ tasks' \in [Threads -> SUBSET Msgs] /\ \A j \in Threads : m \notin tasks'[j]
          /\ \A l \in Msgs \ {m} : \A j \in Threads : l \in tasks'[j] <=> l \in tasks[j]
      BY <1>1, <1>2 DEF Done, IInv, PoolTypeOK, MsgInv, TaskInv
    <2>2. /\ PoolTypeOK' /\ TablesAgree' /\ HomeInv'
          /\ \A l \in Msgs \ {m} : NewInv(l)' /\ TaskInv(l)' /\ WriteInv(l)' /\ StayInv(l)'
      BY <1>1, <1>5, <2>1, NoWriteEffect
    <2>3. staying[m] = {}
      BY <1>2, <1>3, <1>5 DEF IInv, MsgInv, StayInv
    <2>4. UNCHANGED <<written, open, staying, failed>>
      BY <1>5 DEF NoWrite
    <2>5. NewInv(m)' /\ TaskInv(m)'
      BY <1>1, <1>2, <2>1, <2>4 DEF NewInv, TaskInv
    <2>6. WriteInv(m)'
      BY <1>1, <1>2, <2>4 DEF WriteInv
    <2>7. StayInv(m)'
      BY <1>1, <1>2, <2>1, <2>3, <2>4 DEF StayInv
    <2> QED
      BY <2>2, <2>5, <2>6, <2>7 DEF IInv, MsgInv
  <1> QED
    BY <1>4, <1>5 DEF RunByConnID

\* The task of DispatchIOBufByServer on one thread: the message is written, or
\* goes on to the next thread, where every receiver that stays must be.
LEMMA ByIdxStep ==
    ASSUME IInv, NEW m \in Msgs, NEW i \in Threads, DispatchIOBufByIdx(i, m)
    PROVE  IInv'
  <1> DEFINE s == request[m].to
             rs == Matches(i, s)
  <1>1. /\ m \in tasks[i] /\ request[m].kind = "server"
        /\ UNCHANGED <<home, request, crashed>>
    BY DEF DispatchIOBufByIdx
  <1>2. /\ request[m] # None /\ \A q \in Conns : written[m][q] = 0
        /\ \A j \in Threads : m \in tasks[j] => j = i
    BY <1>1 DEF IInv, MsgInv, NewInv, TaskInv
  <1>3. rs \subseteq serverConns[i] /\ rs \subseteq Registrations
    BY DEF Matches, IInv, PoolTypeOK
  <1>4. CASE rs # {} /\ Done(i, m) /\ Write(m, First(rs).conn)
    <2>1. First(rs) \in serverConns[i]
      BY <1>3, <1>4, FirstMatch
    <2>2. First(rs).conn \in open
      BY <2>1 DEF IInv, TablesAgree
    <2> QED
      BY <1>1, <1>4, <2>2, WriteEffect
  <1>5. CASE /\ rs = {} /\ NoWrite
             /\ tasks' = [j \in Threads |-> IF j = i THEN tasks[j] \ {m}
                                            ELSE IF j = i + 1 THEN tasks[j] \cup {m}
                                            ELSE tasks[j]]
    <2>1. /\ tasks' \in [Threads -> SUBSET Msgs]
          /\ \A l \in Msgs \ {m} : \A j \in Threads : l \in tasks'[j] <=> l \in tasks[j]
      BY <1>5 DEF IInv, PoolTypeOK
    <2>2. /\ PoolTypeOK' /\ TablesAgree' /\ HomeInv'
          /\ \A l \in Msgs \ {m} : NewInv(l)' /\ TaskInv(l)' /\ WriteInv(l)' /\ StayInv(l)'
      BY <1>1, <1>5, <2>1, NoWriteEffect
    <2>3. UNCHANGED <<written, open, staying, failed, serverConns>>
      BY <1>5 DEF NoWrite, tableVars
    <2>4. \A j \in Threads : m \in tasks'[j] <=> j = i + 1
      <3>1. i # i + 1
        BY DEF Threads
      <3> QED
        BY <1>2, <1>5, <3>1
    <2>5. NewInv(m)' /\ TaskInv(m)'
      BY <1>1, <1>2, <2>3, <2>4 DEF NewInv, TaskInv
    <2>6. WriteInv(m)'
      BY <1>1, <1>2, <2>3 DEF WriteInv
    <2>7. ASSUME NEW p \in staying[m]
          PROVE  AheadNext(m, p, s)
      <3>1. Ahead(m, p, s)
        BY <1>1, <1>2, <2>7 DEF IInv, MsgInv, StayInv
      <3>2. /\ i <= home[p]
            /\ \E r \in serverConns[home[p]] : r.server = s /\ r.conn = p
        BY <1>2, <3>1 DEF Ahead
      <3>3. home[p] # i
        BY <1>5, <3>2 DEF Matches
      <3>4. home[p] \in Threads
        BY <2>7 DEF IInv, MsgInv, StayInv, HomeInv
      <3>5. i + 1 <= home[p] /\ i + 1 \in Threads
        BY <3>2, <3>3, <3>4 DEF Threads
      <3> QED
        BY <1>1, <2>3, <2>4, <3>2, <3>5 DEF AheadNext
    <2>8. StayInv(m)'
      <3>1. staying[m] \subseteq open
        BY DEF IInv, MsgInv, StayInv
      <3> QED
        BY <1>1, <2>3, <2>7, <3>1 DEF StayInv, Ahead, AheadNext
    <2> QED
      BY <2>2, <2>5, <2>6, <2>8 DEF IInv, MsgInv
  <1> QED
    BY <1>4, <1>5 DEF DispatchIOBufByIdx

\* A broadcast reaches connections of thread i, which it had not reached.
LEMMA WriteToEffect ==
    ASSUME IInv, NEW m \in Msgs, NEW i \in Threads, m \in tasks[i], request[m].kind = "all",
           NEW ps, ps \subseteq pipelines[i], WriteTo(m, ps), Done(i, m),
           UNCHANGED <<home, request>>
    PROVE  /\ written' \in [Msgs -> [Conns -> Nat]]
           /\ tasks' \in [Threads -> SUBSET Msgs]
           /\ \A l \in Msgs \ {m} :
                 /\ written'[l] = written[l]
                 /\ \A j \in Threads : l \in tasks'[j] <=> l \in tasks[j]
           /\ NewInv(m)' /\ TaskInv(m)' /\ WriteInv(m)'
           /\ \A p \in Conns : written[m][p] > 0 \/ p \in ps => written'[m][p] > 0
           /\ \A j \in Threads : m \in tasks'[j] <=> m \in tasks[j] /\ j # i
  <1> DEFINE w == [p \in Conns |-> IF p \in ps THEN written[m][p] + 1 ELSE written[m][p]]
  <1>1. written' = [written EXCEPT ![m] = w]
    BY DEF WriteTo
  <1>2. written[m] \in [Conns -> Nat] /\ written \in [Msgs -> [Conns -> Nat]]
    BY DEF IInv, PoolTypeOK
  <1>3. w \in [Conns -> Nat]
    BY <1>2
  <1>4. /\ written' \in [Msgs -> [Conns -> Nat]] /\ written'[m] = w
        /\ \A l \in Msgs \ {m} : written'[l] = written[l]
    BY <1>1, <1>2, <1>3
  <1>5. /\ tasks' \in [Threads -> SUBSET Msgs]
        /\ \A l \in Msgs \ {m} : \A j \in Threads : l \in tasks'[j] <=> l \in tasks[j]
        /\ \A j \in Threads : m \in tasks'[j] <=> m \in tasks[j] /\ j # i
    BY DEF Done, IInv, PoolTypeOK
  <1>6. request[m] # None
    BY DEF IInv, MsgInv, NewInv
  <1>7. ASSUME NEW p \in ps
        PROVE  p \in Conns /\ home[p] = i /\ written[m][p] = 0
    <2>1. p \in open /\ home[p] = i /\ p \in Conns
      BY DEF IInv, TablesAgree, PoolTypeOK
    <2>2. ~(written[m][p] > 0)
      BY <1>6, <2>1 DEF IInv, MsgInv, TaskInv
    <2> QED
      BY <1>2, <2>1, <2>2
  <1>8. \A p \in Conns : written[m][p] <= 1 /\ (written[m][p] > 0 => home[p] \in Threads)
    BY DEF IInv, MsgInv, WriteInv
  <1>9. ASSUME NEW p \in Conns
        PROVE  /\ p \in ps => written'[m][p] = 1 /\ home[p] = i
               /\ p \notin ps => written'[m][p] = written[m][p]
    BY <1>4, <1>7
  <1> HIDE DEF w
  <1>10. NewInv(m)' /\ TaskInv(m)'
    <2>1. \A j \in Threads, p \in Conns : m \in tasks'[j] /\ written'[m][p] > 0 => home[p] # j
      BY <1>5, <1>6, <1>9 DEF IInv, MsgInv, TaskInv
    <2> QED
      BY <1>6, <2>1 DEF NewInv, TaskInv
  <1>11. WriteInv(m)'
    BY <1>6, <1>8, <1>9 DEF WriteInv
  <1>12. \A p \in Conns : written[m][p] > 0 \/ p \in ps => written'[m][p] > 0
    BY <1>9
  <1> QED
    BY <1>4, <1>5, <1>10, <1>11, <1>12

\* A broadcast on one thread, whether or not a write fails in it.
LEMMA BroadCastStep ==
    ASSUME IInv, NEW m \in Msgs, NEW i \in Threads,
           RunBroadCast(i, m) \/ RunFailingBroadCast(i, m)
    PROVE  IInv'
  <1>1. /\ m \in tasks[i] /\ request[m].kind = "all" /\ Done(i, m)
        /\ UNCHANGED <<home, request>>
    BY DEF RunBroadCast, RunFailingBroadCast, connVars
  <1>2. request[m] # None
    BY <1>1 DEF IInv, MsgInv, NewInv
  <1>3. CASE RunBroadCast(i, m)
    <2>1. /\ WriteTo(m, pipelines[i])
          /\ UNCHANGED <<open, pipelines, servicePipelines, serverConns, staying, failed, crashed>>
      BY <1>3 DEF RunBroadCast, connVars, tableVars
    <2>2. /\ written' \in [Msgs -> [Conns -> Nat]]
          /\ tasks' \in [Threads -> SUBSET Msgs]
          /\ \A l \in Msgs \ {m} :
                /\ written'[l] = written[l]
                /\ \A j \in Threads : l \in tasks'[j] <=> l \in tasks[j]
          /\ NewInv(m)' /\ TaskInv(m)' /\ WriteInv(m)'
          /\ \A p \in Conns : written[m][p] > 0 \/ p \in pipelines[i] => written'[m][p] > 0
          /\ \A j \in Threads : m \in tasks'[j] <=> m \in tasks[j] /\ j # i
      BY <1>1, <2>1, WriteToEffect
    <2>3. TablesAgree' /\ HomeInv'
      BY <1>1, <2>1, SameTables DEF IInv, connVars, tableVars
    <2>4. PoolTypeOK'
      BY <1>1, <2>1, <2>2 DEF IInv, PoolTypeOK
    <2>5. \A l \in Msgs : staying[l] \subseteq open
      BY DEF IInv, MsgInv, StayInv
    <2>6. \A l \in Msgs \ {m} : Untouched(l)
      BY <1>1, <2>1, <2>2, <2>5 DEF Untouched
    <2>7. \A l \in Msgs \ {m} : NewInv(l)' /\ TaskInv(l)' /\ WriteInv(l)' /\ StayInv(l)'
      BY <2>6, OthersStep
    <2>8. ASSUME NEW p \in staying[m], m \notin failed
          PROVE  m \in tasks'[home[p]] \/ written'[m][p] > 0
      <3>1. p \in open /\ p \in Conns /\ home[p] \in Threads
        BY <2>5 DEF IInv, PoolTypeOK, HomeInv
      <3>2. m \in tasks[home[p]] \/ written[m][p] > 0
        BY <1>1, <1>2, <2>8 DEF IInv, MsgInv, StayInv
      <3>3. home[p] = i => p \in pipelines[i]
        BY <3>1 DEF IInv, TablesAgree
      <3> QED
        BY <2>2, <3>1, <3>2, <3>3
    <2>9. StayInv(m)'
      BY <1>1, <2>1, <2>5, <2>8 DEF StayInv
    <2> QED
      BY <2>2, <2>3, <2>4, <2>7, <2>9 DEF IInv, MsgInv
  <1>4. CASE RunFailingBroadCast(i, m)
    <2>1. PICK p \in pipelines[i] :
             /\ OnConnectionClosed(p)
             /\ staying' = [l \in Msgs |-> staying[l] \ {p}]
             /\ \E reached \in SUBSET (pipelines[i] \ {p}) : WriteTo(m, reached \cup {p})
      BY <1>4 DEF RunFailingBroadCast
    <2>2. PICK reached \in SUBSET (pipelines[i] \ {p}) : WriteTo(m, reached \cup {p})
      BY <2>1
    <2>3. failed' = failed \cup {m} /\ crashed' \in BOOLEAN
      BY <1>4 DEF RunFailingBroadCast
    <2>4. /\ written' \in [Msgs -> [Conns -> Nat]]
          /\ tasks' \in [Threads -> SUBSET Msgs]
          /\ \A l \in Msgs \ {m} :
                /\ written'[l] = written[l]
                /\ \A j \in Threads : l \in tasks'[j] <=> l \in tasks[j]
          /\ NewInv(m)' /\ TaskInv(m)' /\ WriteInv(m)'
      <3> DEFINE ps == reached \cup {p}
      <3>1. ps \subseteq pipelines[i] /\ WriteTo(m, ps)
        BY <2>2
      <3> HIDE DEF ps
      <3> QED
        BY <1>1, <3>1, WriteToEffect
    <2>5. p \in open
      BY DEF IInv, TablesAgree
    <2>6. Closed(p)
      BY <1>1, <2>1, <2>5, CloseTables DEF IInv
    <2>7. PoolTypeOK'
      BY <1>1, <2>1, <2>3, <2>4, <2>6 DEF IInv, PoolTypeOK, Closed
    <2>8. \A l \in Msgs \ {m} : Untouched(l)
      BY <1>1, <2>1, <2>3, <2>4, <2>5, <2>6, CloseUntouched
    <2>9. \A l \in Msgs \ {m} : NewInv(l)' /\ TaskInv(l)' /\ WriteInv(l)' /\ StayInv(l)'
      BY <2>8, OthersStep
    <2>10. StayInv(m)'
      <3>1. staying'[m] \subseteq open'
        BY <2>1, <2>6 DEF IInv, MsgInv, StayInv, Closed
      <3> QED
        BY <1>1, <2>3, <3>1 DEF StayInv
    <2> QED
      BY <2>4, <2>6, <2>7, <2>9, <2>10 DEF IInv, MsgInv, Closed
  <1> QED
    BY <1>3, <1>4

-----------------------------------------------------------------------------
(* Theorems                                                                 *)

\* The pool starts without connections and messages.
LEMMA InitInv ==
    PoolInit => IInv
  <1> SUFFICES ASSUME PoolInit PROVE IInv
    OBVIOUS
  <1>1. PoolTypeOK
    BY DEF PoolInit, PoolTypeOK
  <1>2. TablesAgree /\ HomeInv
    BY DEF PoolInit, TablesAgree, HomeInv
  <1>3. ASSUME NEW m \in Msgs
        PROVE  NewInv(m) /\ TaskInv(m) /\ WriteInv(m) /\ StayInv(m)
    BY DEF PoolInit, NewInv, TaskInv, WriteInv, StayInv
  <1> QED
    BY <1>1, <1>2, <1>3 DEF IInv, MsgInv

\* Every step keeps the invariant.
LEMMA NextInv ==
    ASSUME IInv, [PoolNext]_poolVars
    PROVE  IInv'
  <1>1. CASE UNCHANGED poolVars
    <2>1. UNCHANGED <<home, open, pipelines, servicePipelines, serverConns, tasks, request,
                      written, staying, failed, crashed>>
      BY <1>1 DEF poolVars, connVars, msgVars, tableVars
    <2>2. PoolTypeOK'
      BY <2>1 DEF IInv, PoolTypeOK
    <2>3. TablesAgree' /\ HomeInv'
      BY <2>1, SameTables DEF IInv, connVars, tableVars
    <2>4. \A m \in Msgs : Untouched(m)
      BY <2>1 DEF Untouched, IInv, MsgInv, StayInv
    <2>5. MsgInv'
      BY <2>4, UntouchedStep DEF IInv, MsgInv
    <2> QED
      BY <2>2, <2>3, <2>5 DEF IInv
  <1>2. ASSUME NEW m \in Msgs, NEW i \in Threads, RunTask(i, m)
        PROVE  IInv'
    BY <1>2, ByConnIDStep, ByIdxStep, BroadCastStep DEF RunTask
  <1> QED
    BY <1>1, <1>2, ConnStep, DispatchStep DEF PoolNext

\* The inductive invariant holds in every reachable state.
THEOREM Invariant == PoolSpec => []IInv
  <1>1. PoolInit => IInv
    BY InitInv
  <1>2. IInv /\ [PoolNext]_poolVars => IInv'
    BY NextInv
  <1> QED
    BY <1>1, <1>2, PTL DEF PoolSpec

\* Type correctness.
THEOREM TypeCorrect == PoolSpec => []PoolTypeOK
  <1>1. IInv => PoolTypeOK
    BY DEF IInv
  <1> QED
    BY <1>1, Invariant, PTL

\* pipelines_, service_pipelines_ and server_conns_ name open connections of
\* their own thread only, however often a peer has registered.
THEOREM TablesKept == PoolSpec => []TablesAgree
  <1>1. IInv => TablesAgree
    BY DEF IInv
  <1> QED
    BY <1>1, Invariant, PTL

\* A message that hops over the threads is written once, and a broadcast once to
\* each connection.
THEOREM WritesOnce == PoolSpec => []WrittenOnce
  <1>1. IInv => WrittenOnce
    BY DEF IInv, MsgInv, WriteInv, WrittenOnce, Reached
  <1> QED
    BY <1>1, Invariant, PTL

\* A server that stays registered, on whichever of the threads, is reached, and a
\* broadcast without failures reaches every connection that stays.
THEOREM ReachesStaying == PoolSpec => []StayingReached
  <1>1. ASSUME IInv, NEW m \in Msgs, Ended(m)
        PROVE  IF request[m].kind = "server"
               THEN staying[m] # {} => Reached(m) # {}
               ELSE m \notin failed => staying[m] \subseteq Reached(m)
    <2>1. request[m] # None /\ \A i \in Threads : m \notin tasks[i]
      BY <1>1 DEF Ended
    <2>2. StayInv(m) /\ \A p \in staying[m] : p \in Conns /\ home[p] \in Threads
      BY <1>1 DEF IInv, MsgInv, StayInv, HomeInv, PoolTypeOK
    <2>3. CASE request[m].kind = "server"
      <3>1. \A p, s : ~Ahead(m, p, s)
        BY <2>1 DEF Ahead
      <3> QED
        BY <2>1, <2>2, <2>3, <3>1 DEF StayInv, Reached
    <2>4. CASE request[m].kind # "server"
      BY <2>1, <2>2, <2>4 DEF StayInv, Reached
    <2> QED
      BY <2>3, <2>4
  <1>2. IInv => StayingReached
    BY <1>1 DEF StayingReached
  <1> QED
    BY <1>2, Invariant, PTL
=============================================================================
