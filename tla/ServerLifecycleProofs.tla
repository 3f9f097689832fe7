------------------------ MODULE ServerLifecycleProofs -------------------------
(***************************************************************************)
(* Proofs about ThreadGroups and ServerLifecycle, for all configuration    *)
(* files, registrations and numbers of threads.                            *)
(*                                                                         *)
(* What a process serves depends on a chain of tables that are filled one  *)
(* after the other: options, thread groups, factories, services.  The      *)
(* inductive invariant says for each of them what it holds by the time the *)
(* main thread is where it is (GroupInv, FactoryInv, StartInv, NameInv).   *)
(***************************************************************************)
EXTENDS ServerLifecycle, SequenceTheorems, FiniteSetTheorems, TLAPS

USE GroupConfsAssumption, HardwareAssumption, NoGroupAssumption, NoServiceAssumption

\* The default names and the empty one are strings too; the provers have to be told.
Texts   == STRING \cup {"", "tcp_server", "tcp_client"}
Pairs   == [name : Texts, type : Texts]
Options == [type : Types, size : Nat]
States  == {"none", "started", "broken", "stopped"}

GroupTypes ==
    /\ options \in Seq(Options)
    /\ starting \in Seq(Types \X Nat)
    /\ threadGroups \in [Types -> Nat \cup {NoGroup}]
    /\ threadDatas \in Seq([thread : Types \X Nat, evb : BOOLEAN])

TypeInv ==
    /\ conf \in GroupConfs /\ configs \in ServiceLists /\ registered \in FactoryLists
    /\ at \in Nat \ {0}
    /\ factories \in Seq(Pairs)
    /\ services \in [Names -> (SUBSET Positions) \cup {None}]
    /\ state \in [Positions -> States]
    /\ GroupTypes

\* An IO thread was told an index under which thread_datas_ has it.
RouteInv ==
    \A i \in DOMAIN threadDatas :
        threadDatas[i].evb =>
            LET u == threadDatas[i].thread
            IN  /\ u \in DOMAIN threadId
                /\ threadId[u] \in Nat
                /\ threadId[u] + 1 \in DOMAIN threadDatas
                /\ threadDatas[threadId[u] + 1].thread = u

\* The groups that connections need, and whether the file asks for them.
ConnTypes == {"CONN_ACCEPT", "CONN_CLIENT"}
Wanted(t) ==
    /\ "conn" \notin DOMAIN conf
    /\ (IF t = "CONN_CLIENT" THEN "client" ELSE "accept") \in DOMAIN conf

Has(s, t) == \E j \in DOMAIN s : s[j].type = t

GroupInv ==
    \A t \in ConnTypes :
        /\ pc = "load" => threadGroups[t] = NoGroup
        /\ pc = "groups" => (threadGroups[t] # NoGroup \/ Has(options, t) <=> Wanted(t))
        /\ pc \in {"factories", "start", "loop"} => (threadGroups[t] # NoGroup <=> Wanted(t))

\* A default factory of set_thread_groups.
Default(d) == d.name = d.type /\ d.type \in {"tcp_server", "tcp_client"}
Usable(d)  == d.type \in KnownTypes /\ HasIOPool(PoolOf[d.type])
Made(d)    == \E f \in DOMAIN factories : factories[f] = d

Sound ==
    \A f \in DOMAIN factories :
        /\ Usable(factories[f])
        /\ \/ Default(factories[f])
           \/ \E r \in DOMAIN registered : registered[r] = factories[f]
DefaultsMade ==
    \A t \in {"tcp_server", "tcp_client"} :
        HasIOPool(PoolOf[t]) => Made([name |-> t, type |-> t])
RegisteredMade ==
    \A r \in DOMAIN registered :
        (pc # "factories" \/ r < at) /\ Usable(registered[r]) => Made(registered[r])
FactoryInv ==
    pc \in {"factories", "start", "loop"} => Sound /\ DefaultsMade /\ RegisteredMade

\* Start has come to position at.
StartInv ==
    \A k \in Positions :
        /\ pc \in {"load", "groups", "factories"} => state[k] = "none"
        /\ pc = "start" /\ k < at => (state[k] = "started" <=> CanCreate(k))
        /\ pc = "start" /\ k >= at => state[k] = "none"
        /\ pc = "loop" => (state[k] = "started" <=> CanCreate(k))

\* Stop finds the service of position k under its name.
Found(k) ==
    /\ k \in Positions
    /\ services[configs[k].name] # None /\ k \in services[configs[k].name]

\* What is found under a name.
NameInv ==
    /\ \A k \in Positions : state[k] \in {"started", "stopped"} => Found(k)
    /\ \A n \in Names :
          services[n] # None =>
              /\ \/ Cardinality(services[n]) = 1
                 \/ \A k \in services[n] : configs[k].type = "tcp_client"
              /\ \A k \in services[n] : configs[k].name = n
    /\ left \subseteq {n \in Names : services[n] # None}
    /\ \A k \in stopping : Found(k)

IInv == TypeInv /\ RouteInv /\ GroupInv /\ FactoryInv /\ StartInv /\ NameInv

-----------------------------------------------------------------------------
(* The options that SetConf reads from the file                             *)

\* One key gives at most one option.
LEMMA OptionGives ==
    ASSUME NEW c \in GroupConfs, NEW key \in Keys, NEW t \in Types
    PROVE  /\ Option(c, key, t) \in Seq(Options)
           /\ \A u : Has(Option(c, key, t), u) <=> key \in DOMAIN c /\ u = t
<1>1. CASE key \in DOMAIN c
  <2>1. c[key] \in Nat
    BY <1>1
  <2>2. PICK o \in Options : o.type = t /\ Option(c, key, t) = << o >>
    <3>1. [type |-> t, size |-> IF c[key] > 0 THEN c[key] ELSE HardwareThreads] \in Options
      BY <2>1 DEF Options
    <3> QED
      BY <1>1, <3>1 DEF Option
  <2>3. DOMAIN << o >> = {1} /\ << o >>[1] = o /\ << o >> \in Seq(Options)
    BY <2>2
  <2> QED
    BY <1>1, <2>2, <2>3 DEF Has
<1>2. CASE key \notin DOMAIN c
  BY <1>2 DEF Option, Has
<1> QED
  BY <1>1, <1>2

\* The options of two lists.
LEMMA HasConcat ==
    ASSUME NEW a \in Seq(Options), NEW b \in Seq(Options), NEW t
    PROVE  a \o b \in Seq(Options) /\ (Has(a \o b, t) <=> Has(a, t) \/ Has(b, t))
<1>1. /\ a \o b \in Seq(Options)
      /\ Len(a \o b) = Len(a) + Len(b)
      /\ \A i \in 1 .. Len(a) + Len(b) :
            (a \o b)[i] = IF i <= Len(a) THEN a[i] ELSE b[i - Len(a)]
  BY ConcatProperties
<1>2. /\ DOMAIN a = 1 .. Len(a) /\ Len(a) \in Nat
      /\ DOMAIN b = 1 .. Len(b) /\ Len(b) \in Nat
      /\ DOMAIN (a \o b) = 1 .. Len(a) + Len(b)
  BY <1>1, LenProperties
<1>3. ASSUME Has(a, t) PROVE Has(a \o b, t)
  <2>1. PICK i \in 1 .. Len(a) : a[i].type = t
    BY <1>2, <1>3 DEF Has
  <2>2. i \in 1 .. Len(a) + Len(b) /\ (a \o b)[i] = a[i]
    BY <1>1, <1>2
  <2> QED
    BY <1>2, <2>1, <2>2 DEF Has
<1>4. ASSUME Has(b, t) PROVE Has(a \o b, t)
  <2>1. PICK i \in 1 .. Len(b) : b[i].type = t
    BY <1>2, <1>4 DEF Has
  <2>2. /\ i + Len(a) \in 1 .. Len(a) + Len(b)
        /\ ~ (i + Len(a) <= Len(a)) /\ (i + Len(a)) - Len(a) = i
    BY <1>2
  <2>3. (a \o b)[i + Len(a)] = b[i]
    BY <1>1, <2>2
  <2> QED
    BY <1>2, <2>1, <2>2, <2>3 DEF Has
<1>5. ASSUME Has(a \o b, t) PROVE Has(a, t) \/ Has(b, t)
  <2>1. PICK i \in 1 .. Len(a) + Len(b) : (a \o b)[i].type = t
    BY <1>2, <1>5 DEF Has
  <2>2. CASE i <= Len(a)
    BY <1>1, <1>2, <2>1, <2>2 DEF Has
  <2>3. CASE ~ (i <= Len(a))
    <3>1. i - Len(a) \in 1 .. Len(b) /\ (a \o b)[i] = b[i - Len(a)]
      BY <1>1, <1>2, <2>3
    <3> QED
      BY <1>2, <2>1, <3>1 DEF Has
  <2> QED
    BY <2>2, <2>3
<1> QED
  BY <1>1, <1>3, <1>4, <1>5

\* The options of the whole file.
LEMMA SetConfGives ==
    ASSUME NEW c \in GroupConfs
    PROVE  /\ SetConf(c) \in Seq(Options)
           /\ Has(SetConf(c), "CONN_ACCEPT") <=> "conn" \notin DOMAIN c /\ "accept" \in DOMAIN c
           /\ Has(SetConf(c), "CONN_CLIENT") <=> "conn" \notin DOMAIN c /\ "client" \in DOMAIN c
<1> DEFINE acc  == Option(c, "accept", "CONN_ACCEPT")
           cli  == Option(c, "client", "CONN_CLIENT")
           con  == Option(c, "conn", "CONN")
           fib  == Option(c, "fiber", "FIBER")
           db   == Option(c, "db", "DB")
           red  == Option(c, "redis", "REDIS")
           head == IF "conn" \in DOMAIN c THEN con ELSE acc \o cli
<1>1. /\ acc \in Seq(Options)
      /\ \A u : Has(acc, u) <=> "accept" \in DOMAIN c /\ u = "CONN_ACCEPT"
  BY OptionGives DEF Keys, Types, IOTypes
<1>2. /\ cli \in Seq(Options)
      /\ \A u : Has(cli, u) <=> "client" \in DOMAIN c /\ u = "CONN_CLIENT"
  BY OptionGives DEF Keys, Types, IOTypes
<1>3. /\ con \in Seq(Options)
      /\ \A u : Has(con, u) <=> "conn" \in DOMAIN c /\ u = "CONN"
  BY OptionGives DEF Keys, Types
<1>4. /\ fib \in Seq(Options)
      /\ \A u : Has(fib, u) <=> "fiber" \in DOMAIN c /\ u = "FIBER"
  BY OptionGives DEF Keys, Types, IOTypes
<1>5. /\ db \in Seq(Options)
      /\ \A u : Has(db, u) <=> "db" \in DOMAIN c /\ u = "DB"
  BY OptionGives DEF Keys, Types, CPUTypes
<1>6. /\ red \in Seq(Options)
      /\ \A u : Has(red, u) <=> "redis" \in DOMAIN c /\ u = "REDIS"
  BY OptionGives DEF Keys, Types, CPUTypes
<1>7. SetConf(c) = ((head \o fib) \o db) \o red
  BY DEF SetConf
<1> HIDE DEF acc, cli, con, fib, db, red
<1>8. /\ head \in Seq(Options)
      /\ \A u \in ConnTypes :
            Has(head, u) <=> "conn" \notin DOMAIN c /\ (Has(acc, u) \/ Has(cli, u))
  <2>1. CASE "conn" \in DOMAIN c
    BY <1>3, <2>1 DEF ConnTypes
  <2>2. CASE "conn" \notin DOMAIN c
    BY <1>1, <1>2, <2>2, HasConcat
  <2> QED
    BY <2>1, <2>2
<1> HIDE DEF head
<1>9. head \o fib \in Seq(Options) /\ \A u : Has(head \o fib, u) <=> Has(head, u) \/ Has(fib, u)
  BY <1>4, <1>8, HasConcat
<1>10. /\ (head \o fib) \o db \in Seq(Options)
       /\ \A u : Has((head \o fib) \o db, u) <=> Has(head \o fib, u) \/ Has(db, u)
  BY <1>5, <1>9, HasConcat
<1>11. /\ SetConf(c) \in Seq(Options)
       /\ \A u : Has(SetConf(c), u) <=> Has((head \o fib) \o db, u) \/ Has(red, u)
  <2> DEFINE front == (head \o fib) \o db
  <2>1. front \in Seq(Options) /\ SetConf(c) = front \o red
    BY <1>7, <1>10
  <2> HIDE DEF front
  <2>2. /\ front \o red \in Seq(Options)
        /\ \A u : Has(front \o red, u) <=> Has(front, u) \/ Has(red, u)
    BY <1>6, <2>1, HasConcat
  <2>3. /\ SetConf(c) \in Seq(Options)
        /\ \A u : Has(SetConf(c), u) <=> Has(front, u) \/ Has(red, u)
    BY <2>1, <2>2
  <2> QED
    BY <2>3 DEF front
<1>12. \A u \in ConnTypes :
          Has(SetConf(c), u) <=> "conn" \notin DOMAIN c /\ (Has(acc, u) \/ Has(cli, u))
  BY <1>4, <1>5, <1>6, <1>8, <1>9, <1>10, <1>11 DEF ConnTypes
<1> QED
  BY <1>1, <1>2, <1>11, <1>12 DEF ConnTypes

\* The next option and the others.
LEMMA HasHead ==
    ASSUME NEW s \in Seq(Options), s # << >>
    PROVE  /\ Head(s) \in Options
           /\ Tail(s) \in Seq(Options)
           /\ \A t : Has(s, t) <=> Head(s).type = t \/ Has(Tail(s), t)
<1>1. /\ Head(s) = s[1] /\ Tail(s) \in Seq(Options) /\ Len(Tail(s)) = Len(s) - 1
      /\ \A i \in 1 .. Len(Tail(s)) : Tail(s)[i] = s[i + 1]
  BY HeadTailProperties
<1>2. /\ Len(s) \in Nat \ {0} /\ DOMAIN s = 1 .. Len(s)
      /\ DOMAIN Tail(s) = 1 .. Len(s) - 1
  BY <1>1, LenProperties, EmptySeq
<1>3. s[1] \in Options
  BY <1>2, ElementOfSeq
<1>4. ASSUME NEW t, Has(s, t) PROVE Head(s).type = t \/ Has(Tail(s), t)
  <2>1. PICK i \in 1 .. Len(s) : s[i].type = t
    BY <1>2, <1>4 DEF Has
  <2>2. CASE i = 1
    BY <1>1, <2>1, <2>2
  <2>3. CASE i # 1
    <3>1. i - 1 \in 1 .. Len(s) - 1 /\ (i - 1) + 1 = i
      BY <1>2, <2>3
    <3>2. Tail(s)[i - 1] = s[i]
      BY <1>1, <3>1
    <3> QED
      BY <1>2, <2>1, <3>1, <3>2 DEF Has
  <2> QED
    BY <2>2, <2>3
<1>5. ASSUME NEW t, Head(s).type = t PROVE Has(s, t)
  BY <1>1, <1>2, <1>5 DEF Has
<1>6. ASSUME NEW t, Has(Tail(s), t) PROVE Has(s, t)
  <2>1. PICK i \in 1 .. Len(s) - 1 : Tail(s)[i].type = t
    BY <1>2, <1>6 DEF Has
  <2>2. i + 1 \in 1 .. Len(s) /\ Tail(s)[i] = s[i + 1]
    BY <1>1, <1>2
  <2> QED
    BY <1>2, <2>1, <2>2 DEF Has
<1> QED
  BY <1>1, <1>3, <1>4, <1>5, <1>6

\* What ToServiceConfigs makes of the file.
LEMMA ConfigsArePairs ==
    ASSUME NEW l \in ServiceLists
    PROVE  /\ Len(l) \in Nat /\ DOMAIN l = 1 .. Len(l)
           /\ \A i \in DOMAIN l : l[i] \in Pairs
           /\ l \in Seq(Pairs)
<1>1. PICK a \in ServiceArrays : l = ToServiceConfigs(a)
  BY DEF ServiceLists
<1>2. /\ Len(a) \in Nat /\ DOMAIN a = 1 .. Len(a)
      /\ \A k \in DOMAIN a : \A key \in DOMAIN a[k] : a[k][key] \in STRING
  BY ServiceArraysAssumption
<1>3. \A k \in 1 .. Len(a) : \A key : TextUnder(a[k], key) \in Texts
  BY <1>2 DEF TextUnder, Texts
<1>4. l = [k \in 1 .. Len(a) |-> ServiceConfig(a[k])]
  BY <1>1, <1>2 DEF ToServiceConfigs
<1>5. \A k \in 1 .. Len(a) : ServiceConfig(a[k]) \in Pairs
  BY <1>3 DEF ServiceConfig, Pairs
<1>6. l \in [1 .. Len(a) -> Pairs]
  BY <1>4, <1>5
<1>7. l \in Seq(Pairs)
  BY <1>2, <1>6, SeqDef
<1> QED
  BY <1>6, <1>7, LenProperties

\* The lists of the file and of the program are lists of pairs.
LEMMA ListsArePairs ==
    ASSUME NEW l \in ServiceLists \cup FactoryLists
    PROVE  /\ l \in Seq(Pairs)
           /\ Len(l) \in Nat /\ DOMAIN l = 1 .. Len(l)
           /\ \A i \in DOMAIN l : l[i] \in Pairs
<1>1. CASE l \in ServiceLists
  BY <1>1, ConfigsArePairs
<1>2. CASE l \in FactoryLists
  <2>1. l \in Seq([name : STRING, type : STRING])
    BY <1>2, FactoryListsAssumption
  <2>2. Len(l) \in Nat /\ DOMAIN l = 1 .. Len(l)
    BY <2>1, LenProperties
  <2>3. \A i \in DOMAIN l : l[i] \in [name : STRING, type : STRING]
    BY <2>1, <2>2, ElementOfSeq
  <2>4. \A i \in DOMAIN l : l[i] \in Pairs
    BY <2>3 DEF Pairs, Texts
  <2> QED
    BY <2>1, <2>2, <2>4, SeqDef
<1> QED
  BY <1>1, <1>2

-----------------------------------------------------------------------------
(* Types                                                                    *)

\* A process begins with empty tables.
LEMMA InitTypes == SlInit => TypeInv
<1> SUFFICES ASSUME SlInit PROVE TypeInv
  OBVIOUS
<1> USE DEF SlInit, TgInit
<1>1. << >> \in Seq(Options) /\ << >> \in Seq(Types \X Nat)
  OBVIOUS
<1>2. << >> \in Seq([thread : Types \X Nat, evb : BOOLEAN])
  OBVIOUS
<1>3. GroupTypes
  BY <1>1, <1>2 DEF GroupTypes
<1>4. factories \in Seq(Pairs)
  BY DEF Pairs
<1>5. services \in [Names -> (SUBSET Positions) \cup {None}]
  <2>1. services = [n \in Names |-> None]
    BY DEF Names, Positions
  <2>2. None \in (SUBSET Positions) \cup {None}
    OBVIOUS
  <2> QED
    BY <2>1, <2>2
<1>6. state \in [Positions -> States]
  BY DEF Positions, States
<1> QED
  BY <1>3, <1>4, <1>5, <1>6 DEF TypeInv

\* MakeThreadGroup keeps the types of the tables of groups.
LEMMA MakeTypes == GroupTypes /\ MakeThreadGroup => GroupTypes'
<1> SUFFICES ASSUME GroupTypes, MakeThreadGroup PROVE GroupTypes'
  OBVIOUS
<1> DEFINE o == Head(options)
<1>1. o \in Options /\ Tail(options) \in Seq(Options)
  BY HasHead DEF GroupTypes, MakeThreadGroup
<1>2. o.type \in Types /\ o.size \in Nat
  BY <1>1 DEF Options
<1>3. options' = Tail(options) /\ UNCHANGED threadDatas
  BY DEF MakeThreadGroup
<1>4. \/ UNCHANGED <<starting, threadGroups>>
      \/ /\ starting' = [k \in 1 .. o.size |-> <<o.type, k>>]
         /\ threadGroups' = [threadGroups EXCEPT ![o.type] = o.size]
  BY DEF MakeThreadGroup
<1> HIDE DEF o
<1>5. starting' \in Seq(Types \X Nat)
  <2>1. \A k \in 1 .. o.size : <<o.type, k>> \in Types \X Nat
    BY <1>2
  <2>2. [k \in 1 .. o.size |-> <<o.type, k>>] \in Seq(Types \X Nat)
    BY <1>2, <2>1, SeqDef
  <2> QED
    BY <1>4, <2>2 DEF GroupTypes
<1>6. threadGroups' \in [Types -> Nat \cup {NoGroup}]
  BY <1>2, <1>4 DEF GroupTypes
<1> QED
  BY <1>1, <1>3, <1>5, <1>6 DEF GroupTypes

\* A thread announces itself.
LEMMA StartedTypes ==
    ASSUME GroupTypes, ThreadStarted
    PROVE  /\ GroupTypes'
           /\ Head(starting) \in Types \X Nat
<1>1. starting # << >> /\ starting' = Tail(starting) /\ UNCHANGED <<options, threadGroups>>
  BY DEF ThreadData, ThreadStarted
<1>2. Head(starting) \in Types \X Nat /\ starting' \in Seq(Types \X Nat)
  BY <1>1, HeadTailProperties DEF GroupTypes
<1>3. threadDatas' = Append(threadDatas, [thread |-> Head(starting),
                                          evb |-> Head(starting)[1] \in IOTypes])
  BY DEF ThreadData, ThreadStarted
<1>4. [thread |-> Head(starting), evb |-> Head(starting)[1] \in IOTypes]
         \in [thread : Types \X Nat, evb : BOOLEAN]
  <2>1. \A u \in Types \X Nat : \A b \in BOOLEAN :
           [thread |-> u, evb |-> b] \in [thread : Types \X Nat, evb : BOOLEAN]
    BY Zenon
  <2>2. (Head(starting)[1] \in IOTypes) \in BOOLEAN
    OBVIOUS
  <2> QED
    BY <1>2, <2>1, <2>2, Zenon
<1>5. threadDatas' \in Seq([thread : Types \X Nat, evb : BOOLEAN])
  BY <1>3, <1>4, AppendProperties DEF GroupTypes
<1> QED
  BY <1>1, <1>2, <1>5 DEF GroupTypes

\* What RegisterServiceBase enters.
LEMMA RegisterTypes ==
    ASSUME TypeInv, NEW k \in Positions, RegisterServiceBase(k)
    PROVE  /\ configs[k] \in Pairs
           /\ configs[k].name \in Names
           /\ services' \in [Names -> (SUBSET Positions) \cup {None}]
           /\ services'[configs[k].name] =
                 IF services[configs[k].name] = None THEN {k}
                 ELSE services[configs[k].name] \cup {k}
           /\ \A n \in Names \ {configs[k].name} : services'[n] = services[n]
<1>1. configs \in ServiceLists
  BY DEF TypeInv
<1>2. configs[k] \in Pairs
  BY <1>1, ListsArePairs DEF Positions
<1>3. configs[k].name \in Names
  BY DEF Names
<1> DEFINE n == configs[k].name
<1>4. services' = [services EXCEPT ![n] = IF @ = None THEN {k} ELSE @ \cup {k}]
  BY DEF RegisterServiceBase
<1>5. services \in [Names -> (SUBSET Positions) \cup {None}]
  BY DEF TypeInv
<1> HIDE DEF n
<1>6. (IF services[n] = None THEN {k} ELSE services[n] \cup {k}) \in SUBSET Positions
  <2>1. services[n] \in (SUBSET Positions) \cup {None}
    BY <1>3, <1>5 DEF n
  <2>2. {k} \in SUBSET Positions
    OBVIOUS
  <2>3. ASSUME services[n] # None PROVE services[n] \cup {k} \in SUBSET Positions
    BY <2>1, <2>3
  <2> QED
    BY <2>2, <2>3
<1> QED
  BY <1>2, <1>3, <1>4, <1>5, <1>6 DEF n

\* The names and positions of the file stay.
LEMMA FileStays == Stays => UNCHANGED <<Positions, Names, conf, configs, registered>>
  BY DEF Stays, Positions, Names

\* The rest of the tables.
LEMMA NextTypes == TypeInv /\ [SlNext]_slVars => TypeInv'
<1> SUFFICES ASSUME TypeInv, [SlNext]_slVars PROVE TypeInv'
  OBVIOUS
<1> DEFINE Rest == /\ services \in [Names -> (SUBSET Positions) \cup {None}]
                   /\ state \in [Positions -> States]
                   /\ factories \in Seq(Pairs)
                   /\ at \in Nat \ {0}
<1>0. Rest /\ GroupTypes
  BY DEF TypeInv
<1>a. SUFFICES /\ Rest' /\ GroupTypes'
               /\ UNCHANGED <<conf, configs, registered>>
  BY DEF TypeInv
<1>1. CASE LoadConfig
  <2>1. options' \in Seq(Options)
    BY <1>1, SetConfGives DEF ConfigRead, LoadConfig, TypeInv, GroupTypes
  <2>2. GroupTypes'
    BY <1>0, <1>1, <2>1 DEF ConfigRead, LoadConfig, GroupTypes
  <2>3. Rest'
    BY <1>0, <1>1, FileStays DEF ConfigRead, LoadConfig, GoOn
  <2> QED
    BY <1>1, <2>2, <2>3 DEF ConfigRead, LoadConfig, Stays
<1>2. CASE MakeGroups
  <2>1. GroupTypes'
    BY <1>0, <1>2, MakeTypes, StartedTypes DEF MakeGroups
  <2>2. UNCHANGED rootVars
    BY <1>2 DEF MakeGroups
  <2>3. Rest'
    BY <1>0, <2>2 DEF rootVars, Positions, Names
  <2> QED
    BY <2>1, <2>2, <2>3 DEF rootVars
<1>3. CASE SetThreadGroups
  <2>1. factories' \in Seq(Pairs)
    <3>0. \A d \in Pairs : << d >> \in Seq(Pairs)
      OBVIOUS
    <3>1. <<[name |-> "tcp_server", type |-> "tcp_server"]>> \in Seq(Pairs)
      <4>1. [name |-> "tcp_server", type |-> "tcp_server"] \in Pairs
        BY DEF Pairs, Texts
      <4> QED
        BY <3>0, <4>1
    <3>2. <<[name |-> "tcp_client", type |-> "tcp_client"]>> \in Seq(Pairs)
      <4>1. [name |-> "tcp_client", type |-> "tcp_client"] \in Pairs
        BY DEF Pairs, Texts
      <4> QED
        BY <3>0, <4>1
    <3>3. << >> \in Seq(Pairs)
      OBVIOUS
    <3> QED
      BY <1>3, <3>1, <3>2, <3>3, ConcatProperties DEF DefaultFactory, SetThreadGroups
  <2>2. Rest'
    BY <1>0, <1>3, <2>1, FileStays DEF DefaultFactory, SetThreadGroups, GoOn
  <2> QED
    BY <1>0, <1>3, <2>2 DEF DefaultFactory, SetThreadGroups, groupVars, GroupTypes, Stays
<1>4. CASE RegisterServiceFactory
  <2>1. registered \in FactoryLists
    BY DEF TypeInv
  <2>2. registered[at] \in Pairs
    BY <1>4, <2>1, ListsArePairs DEF RegisterServiceFactory
  <2>3. factories' \in Seq(Pairs)
    BY <1>0, <1>4, <2>2, AppendProperties DEF RegisterServiceFactory
  <2>4. Rest'
    BY <1>0, <1>4, <2>3, FileStays DEF RegisterServiceFactory
  <2> QED
    BY <1>0, <1>4, <2>4 DEF RegisterServiceFactory, groupVars, GroupTypes, Stays
<1>5. CASE NotCreated
  <2>0. at' \in Nat \ {0}
    BY <1>0, <1>5 DEF NotCreated
  <2>1. Rest'
    BY <1>0, <1>5, <2>0, FileStays DEF NotCreated
  <2> QED
    BY <1>0, <1>5, <2>1 DEF NotCreated, groupVars, GroupTypes, Stays
<1>6. CASE StartService
  <2>1. services' \in [Names -> (SUBSET Positions) \cup {None}]
    BY <1>6, RegisterTypes DEF StartService
  <2>2. state' \in [Positions -> States] /\ at' \in Nat \ {0}
    BY <1>0, <1>6 DEF StartService, States, GoOn
  <2>3. Rest'
    BY <1>0, <1>6, <2>1, <2>2, FileStays DEF StartService
  <2> QED
    BY <1>0, <1>6, <2>3 DEF StartService, groupVars, GroupTypes, Stays
<1>7. CASE StopOne
  <2>1. state' \in [Positions -> States]
    BY <1>0, <1>7 DEF StopOne, States
  <2>2. Rest'
    BY <1>0, <1>7, <2>1, FileStays DEF StopOne
  <2> QED
    BY <1>0, <1>7, <2>2 DEF StopOne, groupVars, GroupTypes, Stays
<1>8. CASE \/ FactoriesDone \/ DuplicateName \/ StartDone \/ LoopEnds \/ StopNext \/ StopDone
           \/ Signal \/ CallbackWaits \/ LateUse
  <2>1. /\ UNCHANGED <<groupVars, factories, services, state>>
        /\ Stays /\ (at' = 1 \/ at' = at)
    <3>1. CASE FactoriesDone \/ DuplicateName \/ StartDone \/ LoopEnds \/ StopDone
      BY <3>1 DEF FactoriesDone, DuplicateName, StartDone, LoopEnds, StopDone, GoOn
    <3>2. CASE StopNext \/ Signal \/ CallbackWaits \/ LateUse
      BY <3>2 DEF StopNext, Signal, CallbackWaits, LateUse, GoOn
    <3> QED
      BY <1>8, <3>1, <3>2
  <2>2. Rest'
    BY <1>0, <2>1, FileStays
  <2> QED
    BY <1>0, <2>1, <2>2 DEF groupVars, GroupTypes, Stays
<1>9. CASE UNCHANGED slVars
  <2>1. Rest'
    BY <1>0, <1>9 DEF slVars, rootVars, Positions, Names
  <2> QED
    BY <1>0, <1>9, <2>1 DEF slVars, rootVars, groupVars, GroupTypes
<1> QED
  BY <1>1, <1>2, <1>3, <1>4, <1>5, <1>6, <1>7, <1>8, <1>9 DEF SlNext, Main, Initialize, Run

-----------------------------------------------------------------------------
(* The thread ids                                                           *)

\* The newest thread is told its own index; the indices of the others stay.
LEMMA StartedRoutes ==
    ASSUME GroupTypes, RouteInv, ThreadStarted
    PROVE  RouteInv'
<1> DEFINE u  == Head(starting)
           io == u[1] \in IOTypes
           N  == Len(threadDatas)
           e  == [thread |-> u, evb |-> io]
<1>1. threadDatas' = Append(threadDatas, e)
  BY DEF ThreadData, ThreadStarted
<1>2. /\ io => threadId' = [v \in DOMAIN threadId \cup {u} |-> IF v = u THEN N ELSE threadId[v]]
      /\ ~io => threadId' = threadId
  BY DEF ThreadData, ThreadStarted, SetThreadId
<1>3. e.thread = u /\ (e.evb <=> io)
  OBVIOUS
<1>4. /\ Len(threadDatas') = N + 1 /\ N \in Nat
      /\ \A i \in 1 .. N : threadDatas'[i] = threadDatas[i]
      /\ threadDatas'[N + 1] = e
      /\ DOMAIN threadDatas = 1 .. N /\ DOMAIN threadDatas' = 1 .. N + 1
  <2>1. Append(threadDatas, e) \in Seq([thread : Types \X Nat, evb : BOOLEAN])
    BY <1>1, StartedTypes DEF GroupTypes
  <2>2. threadDatas \in Seq([thread : Types \X Nat, evb : BOOLEAN] \cup {e})
    <3>1. /\ DOMAIN threadDatas = 1 .. N /\ N \in Nat
          /\ \A i \in 1 .. N : threadDatas[i] \in [thread : Types \X Nat, evb : BOOLEAN]
      BY LenProperties, ElementOfSeq DEF GroupTypes
    <3> HIDE DEF e
    <3> QED
      BY <3>1, SeqDef, LenProperties DEF GroupTypes
  <2> HIDE DEF e
  <2>3. /\ Append(threadDatas, e) \in Seq([thread : Types \X Nat, evb : BOOLEAN] \cup {e})
        /\ Len(Append(threadDatas, e)) = N + 1
        /\ \A i \in 1 .. N : Append(threadDatas, e)[i] = threadDatas[i]
        /\ Append(threadDatas, e)[N + 1] = e
    BY <2>2, AppendProperties
  <2> QED
    BY <1>1, <2>2, <2>3, LenProperties
<1> HIDE DEF e, io, u, N
<1>5. ASSUME NEW i \in DOMAIN threadDatas', threadDatas'[i].evb
      PROVE  LET w == threadDatas'[i].thread
             IN  /\ w \in DOMAIN threadId'
                 /\ threadId'[w] \in Nat
                 /\ threadId'[w] + 1 \in DOMAIN threadDatas'
                 /\ threadDatas'[threadId'[w] + 1].thread = w
  <2> DEFINE w == threadDatas'[i].thread
  <2>1. CASE io /\ w = u
    <3>1. w \in DOMAIN threadId' /\ threadId'[w] = N
      BY <1>2, <2>1
    <3>2. N + 1 \in DOMAIN threadDatas' /\ threadDatas'[N + 1].thread = u
      BY <1>3, <1>4
    <3> QED
      BY <1>4, <2>1, <3>1, <3>2
  <2>2. CASE ~ (io /\ w = u)
    <3>1. i \in 1 .. N
      <4>1. i = N + 1 => (threadDatas'[i] = e /\ w = u /\ io)
        BY <1>3, <1>4, <1>5
      <4> QED
        BY <1>4, <2>2, <4>1
    <3>2. threadDatas[i].evb /\ w = threadDatas[i].thread
      BY <1>4, <1>5, <3>1
    <3> HIDE DEF w
    <3>3. /\ w \in DOMAIN threadId /\ threadId[w] \in Nat
          /\ threadId[w] + 1 \in DOMAIN threadDatas
          /\ threadDatas[threadId[w] + 1].thread = w
      BY <1>4, <3>1, <3>2 DEF RouteInv
    <3>4. w \in DOMAIN threadId' /\ threadId'[w] = threadId[w]
      BY <1>2, <2>2, <3>3
    <3>5. /\ threadId[w] + 1 \in DOMAIN threadDatas'
          /\ threadDatas'[threadId[w] + 1] = threadDatas[threadId[w] + 1]
      BY <1>4, <3>3
    <3>6. /\ threadId'[w] \in Nat /\ threadId'[w] + 1 \in DOMAIN threadDatas'
          /\ threadDatas'[threadId'[w] + 1].thread = w
      BY <3>3, <3>4, <3>5
    <3> QED
      BY <3>4, <3>6 DEF w
  <2> QED
    BY <2>1, <2>2
<1> QED
  BY <1>5 DEF RouteInv

\* Only a thread that announces itself touches the two tables.
LEMMA NextRoutes == TypeInv /\ RouteInv /\ [SlNext]_slVars => RouteInv'
<1> SUFFICES ASSUME TypeInv, RouteInv, [SlNext]_slVars PROVE RouteInv'
  OBVIOUS
<1>1. \/ UNCHANGED <<threadDatas, threadId>>
      \/ MakeGroups
  <2> USE DEF groupVars
  <2>1. LoadConfig => UNCHANGED <<threadDatas, threadId>>
    BY DEF ConfigRead, LoadConfig
  <2>2. SetThreadGroups \/ RegisterServiceFactory \/ FactoriesDone
           => UNCHANGED <<threadDatas, threadId>>
    BY DEF DefaultFactory, SetThreadGroups, RegisterServiceFactory, FactoriesDone
  <2>3. NotCreated \/ StartService \/ DuplicateName \/ StartDone
           => UNCHANGED <<threadDatas, threadId>>
    BY DEF NotCreated, StartService, DuplicateName, StartDone
  <2>4. LoopEnds \/ StopNext \/ StopDone \/ Signal => UNCHANGED <<threadDatas, threadId>>
    BY DEF LoopEnds, StopNext, StopDone, Signal
  <2>5. StopOne \/ CallbackWaits \/ LateUse => UNCHANGED <<threadDatas, threadId>>
    BY DEF StopOne, CallbackWaits, LateUse
  <2> QED
    BY <2>1, <2>2, <2>3, <2>4, <2>5 DEF SlNext, Main, Initialize, Run, slVars
<1>2. CASE UNCHANGED <<threadDatas, threadId>>
  BY <1>2 DEF RouteInv
<1>3. CASE MakeGroups
  <2>1. CASE MakeThreadGroup
    BY <2>1 DEF MakeThreadGroup, RouteInv
  <2>2. CASE ThreadStarted
    BY <2>2, StartedRoutes DEF TypeInv
  <2> QED
    BY <1>3, <2>1, <2>2 DEF MakeGroups
<1> QED
  BY <1>1, <1>2, <1>3

-----------------------------------------------------------------------------
(* The groups                                                               *)

\* The groups that were made and the options that are left, together, are what
\* the file asks for; once Initialize is done, the groups alone.
LEMMA NextGroups == TypeInv /\ GroupInv /\ [SlNext]_slVars => GroupInv'
<1> SUFFICES ASSUME TypeInv, GroupInv, [SlNext]_slVars, NEW t \in ConnTypes
             PROVE  (/\ pc = "load" => threadGroups[t] = NoGroup
                     /\ pc = "groups" =>
                           (threadGroups[t] # NoGroup \/ Has(options, t) <=> Wanted(t))
                     /\ pc \in {"factories", "start", "loop"} =>
                           (threadGroups[t] # NoGroup <=> Wanted(t)))'
  BY DEF GroupInv
<1>0. /\ pc = "load" => threadGroups[t] = NoGroup
      /\ pc = "groups" => (threadGroups[t] # NoGroup \/ Has(options, t) <=> Wanted(t))
      /\ pc \in {"factories", "start", "loop"} => (threadGroups[t] # NoGroup <=> Wanted(t))
  BY DEF GroupInv
<1>1. CASE LoadConfig
  <2>1. CASE pc' = "groups"
    <3>1. threadGroups'[t] = NoGroup /\ options' = SetConf(conf) /\ conf' = conf
      BY <1>0, <1>1, <2>1 DEF ConfigRead, LoadConfig, Stays, GoOn
    <3>2. Has(SetConf(conf), t) <=> Wanted(t)
      BY SetConfGives DEF TypeInv, ConnTypes, Wanted
    <3>3. Has(options', t) <=> Wanted(t)'
      BY <3>1, <3>2 DEF Wanted
    <3> QED
      BY <2>1, <3>1, <3>3 DEF Has
  <2>2. CASE pc' = "failed"
    BY <2>2
  <2> QED
    BY <1>1, <2>1, <2>2 DEF ConfigRead, LoadConfig, GoOn
<1>2. CASE pc = "groups" /\ UNCHANGED rootVars /\ MakeThreadGroup
  <2> DEFINE o == Head(options)
  <2>1. /\ options # << >> /\ options' = Tail(options)
        /\ \/ o.type = "CONN" /\ UNCHANGED threadGroups
           \/ o.type # "CONN" /\ threadGroups' = [threadGroups EXCEPT ![o.type] = o.size]
    BY <1>2 DEF MakeThreadGroup
  <2>2. o \in Options /\ (Has(options, t) <=> o.type = t \/ Has(options', t))
    BY <2>1, HasHead DEF TypeInv, GroupTypes
  <2>3. o.type \in Types /\ o.size # NoGroup
    BY <2>2 DEF Options
  <2>4. t # "CONN" /\ t \in Types
    BY DEF ConnTypes, Types, IOTypes
  <2> HIDE DEF o
  <2>5. threadGroups'[t] # NoGroup <=> threadGroups[t] # NoGroup \/ o.type = t
    BY <2>1, <2>3, <2>4 DEF TypeInv, GroupTypes
  <2>6. pc' = "groups" /\ conf' = conf
    BY <1>2 DEF rootVars
  <2>7. threadGroups'[t] # NoGroup \/ Has(options', t) <=> Wanted(t)
    BY <1>0, <1>2, <2>2, <2>5
  <2>8. Wanted(t)' <=> Wanted(t)
    BY <2>6 DEF Wanted
  <2> QED
    BY <2>6, <2>7, <2>8 DEF Has
<1>3. CASE pc = "groups" /\ UNCHANGED rootVars /\ ThreadStarted
  BY <1>0, <1>3 DEF ThreadData, ThreadStarted, rootVars, Has, Wanted
<1>4. CASE SetThreadGroups
  <2>1. ~ Has(options, t)
    BY <1>4 DEF DefaultFactory, SetThreadGroups, Initialized, Has
  <2>2. /\ threadGroups' = threadGroups /\ pc = "groups" /\ pc' = "factories"
        /\ conf' = conf
    BY <1>4 DEF DefaultFactory, SetThreadGroups, groupVars, GoOn, Stays
  <2> QED
    BY <1>0, <2>1, <2>2 DEF Wanted
<1>5. CASE RegisterServiceFactory \/ FactoriesDone \/ NotCreated \/ StartService
           \/ DuplicateName \/ StartDone
  <2>1. /\ threadGroups' = threadGroups /\ conf' = conf
        /\ pc \in {"factories", "start"}
        /\ pc' \in {"factories", "start", "loop", "failed", "fatal"}
    BY <1>5 DEF RegisterServiceFactory, FactoriesDone, NotCreated, StartService,
                DuplicateName, StartDone, groupVars, GoOn, Stays
  <2> QED
    BY <1>0, <2>1 DEF Wanted
<1>6. CASE LoopEnds \/ StopNext \/ StopOne \/ StopDone \/ CallbackWaits \/ LateUse
  <2>1. pc' \in {"stop", "exit", "crashed"}
    BY <1>6 DEF LoopEnds, StopNext, StopOne, StopDone, CallbackWaits, LateUse, GoOn
  <2> QED
    BY <2>1
<1>7. CASE Signal
  <2>1. /\ threadGroups' = threadGroups /\ options' = options /\ conf' = conf
        /\ pc' = pc \/ pc' = "killed"
    BY <1>7 DEF Signal, groupVars, GoOn, Stays
  <2> QED
    BY <1>0, <2>1 DEF Wanted, Has
<1>8. CASE UNCHANGED slVars
  BY <1>0, <1>8 DEF slVars, rootVars, groupVars, Wanted, Has
<1> QED
  BY <1>1, <1>2, <1>3, <1>4, <1>5, <1>6, <1>7, <1>8 DEF SlNext, Main, Initialize, Run, MakeGroups

-----------------------------------------------------------------------------
(* The factories                                                            *)

\* The threads that the three known types run on.
LEMMA PoolOfTypes ==
    /\ KnownTypes = {"tcp_server", "http_server", "tcp_client"}
    /\ PoolOf["tcp_server"] = "CONN_ACCEPT"
    /\ PoolOf["http_server"] = "CONN_ACCEPT"
    /\ PoolOf["tcp_client"] = "CONN_CLIENT"
  BY DEF KnownTypes, PoolOf

\* What a step does to the groups past Initialize: nothing.
LEMMA UsableStays ==
    ASSUME UNCHANGED threadGroups
    PROVE  /\ \A d : Usable(d)' <=> Usable(d)
           /\ \A p : HasIOPool(p)' <=> HasIOPool(p)
  BY DEF Usable, HasIOPool

\* The default factories.
LEMMA DefaultFactories ==
    ASSUME SetThreadGroups
    PROVE  /\ Sound' /\ DefaultsMade'
           /\ pc' = "factories" /\ at' = 1
<1> DEFINE srv == [name |-> "tcp_server", type |-> "tcp_server"]
           cli == [name |-> "tcp_client", type |-> "tcp_client"]
           A   == HasIOPool("CONN_ACCEPT")
           C   == HasIOPool("CONN_CLIENT")
<1>1. factories' = (IF A THEN << srv >> ELSE << >>) \o (IF C THEN << cli >> ELSE << >>)
  BY DEF DefaultFactory, SetThreadGroups
<1>2. srv.name = "tcp_server" /\ srv.type = "tcp_server"
  OBVIOUS
<1>3. cli.name = "tcp_client" /\ cli.type = "tcp_client"
  OBVIOUS
<1>4. UNCHANGED threadGroups /\ pc' = "factories" /\ at' = 1
  BY DEF DefaultFactory, SetThreadGroups, groupVars, GoOn
<1>5. /\ \A f \in DOMAIN factories' :
            \/ factories'[f] = srv /\ A
            \/ factories'[f] = cli /\ C
      /\ A => \E f \in DOMAIN factories' : factories'[f] = srv
      /\ C => \E f \in DOMAIN factories' : factories'[f] = cli
  <2> HIDE DEF srv, cli, A, C
  <2>1. CASE A /\ C
    <3>1. factories' = << srv >> \o << cli >>
      BY <1>1, <2>1
    <3>2. << srv >> \in Seq({srv, cli}) /\ << cli >> \in Seq({srv, cli})
      OBVIOUS
    <3>3. Len(<< srv >>) = 1 /\ Len(<< cli >>) = 1 /\ << srv >>[1] = srv /\ << cli >>[1] = cli
      OBVIOUS
    <3>4. DOMAIN factories' = 1 .. 2 /\ factories'[1] = srv /\ factories'[2] = cli
      BY <3>1, <3>2, <3>3, ConcatProperties, LenProperties
    <3> QED
      BY <2>1, <3>4
  <2>2. CASE A /\ ~C
    <3>1. factories' = << srv >>
      BY <1>1, <2>2
    <3> QED
      BY <2>2, <3>1
  <2>3. CASE ~A /\ C
    <3>1. factories' = << cli >>
      BY <1>1, <2>3
    <3> QED
      BY <2>3, <3>1
  <2>4. CASE ~A /\ ~C
    <3>1. factories' = << >>
      BY <1>1, <2>4
    <3> QED
      BY <2>4, <3>1
  <2> QED
    BY <2>1, <2>2, <2>3, <2>4
<1>6. /\ Default(srv) /\ (A => Usable(srv))
      /\ Default(cli) /\ (C => Usable(cli))
  BY <1>2, <1>3, PoolOfTypes DEF Default, Usable
<1> HIDE DEF srv, cli, A, C
<1>7. \A f \in DOMAIN factories' : Usable(factories'[f]) /\ Default(factories'[f])
  BY <1>5, <1>6
<1>8. Sound'
  <2>1. ASSUME NEW f \in DOMAIN factories'
        PROVE  (Usable(factories[f]) /\ Default(factories[f]))'
    BY <1>4, <1>7 DEF Usable, Default, HasIOPool
  <2> QED
    BY <2>1 DEF Sound
<1>9. DefaultsMade'
  <2>1. (HasIOPool(PoolOf["tcp_server"]) => Made([name |-> "tcp_server", type |-> "tcp_server"]))'
    BY <1>4, <1>5, PoolOfTypes DEF Made, HasIOPool, srv, A
  <2>2. (HasIOPool(PoolOf["tcp_client"]) => Made([name |-> "tcp_client", type |-> "tcp_client"]))'
    BY <1>4, <1>5, PoolOfTypes DEF Made, HasIOPool, cli, C
  <2> QED
    BY <2>1, <2>2 DEF DefaultsMade
<1> QED
  BY <1>4, <1>8, <1>9

\* One registration.
LEMMA OneMoreFactory ==
    ASSUME TypeInv, FactoryInv, RegisterServiceFactory
    PROVE  FactoryInv'
<1> DEFINE r == registered[at]
<1>1. /\ pc = "factories" /\ pc' = "factories" /\ at' = at + 1 /\ at \in DOMAIN registered
      /\ UNCHANGED <<threadGroups, registered>>
  BY DEF RegisterServiceFactory, groupVars, Stays
<1>2. factories' = IF Usable(r) THEN Append(factories, r) ELSE factories
  BY DEF RegisterServiceFactory, Usable
<1>3. factories \in Seq(Pairs) /\ r \in Pairs /\ at \in Nat
  BY <1>1, ListsArePairs DEF TypeInv
<1>4. DOMAIN registered \subseteq Nat
  BY ListsArePairs DEF TypeInv
<1>5. Sound /\ DefaultsMade /\ RegisteredMade
  BY <1>1 DEF FactoryInv
<1> HIDE DEF r
<1>6. /\ \A f \in DOMAIN factories : f \in DOMAIN factories' /\ factories'[f] = factories[f]
      /\ \A f \in DOMAIN factories' :
            \/ f \in DOMAIN factories /\ factories'[f] = factories[f]
            \/ factories'[f] = r /\ Usable(r)
      /\ Usable(r) => \E f \in DOMAIN factories' : factories'[f] = r
  <2>1. CASE Usable(r)
    <3>1. /\ Len(factories') = Len(factories) + 1 /\ Len(factories) \in Nat
          /\ factories'[Len(factories) + 1] = r
          /\ \A i \in 1 .. Len(factories) : factories'[i] = factories[i]
          /\ DOMAIN factories = 1 .. Len(factories)
          /\ DOMAIN factories' = 1 .. Len(factories) + 1
      BY <1>2, <1>3, <2>1, AppendProperties, LenProperties
    <3> QED
      BY <2>1, <3>1
  <2>2. CASE ~Usable(r)
    BY <1>2, <2>2
  <2> QED
    BY <2>1, <2>2
<1>7. Sound'
  <2>1. ASSUME NEW f \in DOMAIN factories'
        PROVE  (/\ Usable(factories[f])
                /\ \/ Default(factories[f])
                   \/ \E q \in DOMAIN registered : registered[q] = factories[f])'
    <3>1. /\ Usable(factories'[f])
          /\ \/ Default(factories'[f])
             \/ \E q \in DOMAIN registered : registered[q] = factories'[f]
      BY <1>1, <1>5, <1>6 DEF Sound, r
    <3> QED
      BY <1>1, <3>1 DEF Usable, HasIOPool, Default
  <2> QED
    BY <2>1 DEF Sound
<1>8. \A d : Made(d) => Made(d)'
  BY <1>6 DEF Made
<1>9. DefaultsMade'
  BY <1>1, <1>5, <1>8, UsableStays DEF DefaultsMade
<1>10. RegisteredMade'
  <2>1. ASSUME NEW q \in DOMAIN registered, q < at + 1, Usable(registered[q])
        PROVE  Made(registered[q])'
    <3>1. CASE q = at
      BY <1>1, <1>6, <2>1, <3>1 DEF Made, r
    <3>2. CASE q < at
      BY <1>1, <1>5, <1>8, <2>1, <3>2 DEF RegisteredMade
    <3> QED
      BY <1>3, <1>4, <2>1, <3>1, <3>2
  <2> QED
    BY <1>1, <2>1, UsableStays DEF RegisteredMade, Made
<1> QED
  BY <1>7, <1>9, <1>10 DEF FactoryInv

\* The other steps.
LEMMA NextFactories == TypeInv /\ FactoryInv /\ [SlNext]_slVars => FactoryInv'
<1> SUFFICES ASSUME TypeInv, FactoryInv, [SlNext]_slVars PROVE FactoryInv'
  OBVIOUS
<1>1. CASE LoadConfig \/ MakeGroups
  <2>1. pc' \in {"groups", "failed"}
    BY <1>1 DEF ConfigRead, LoadConfig, MakeGroups, rootVars, GoOn
  <2> QED
    BY <2>1 DEF FactoryInv
<1>2. CASE SetThreadGroups
  <2>1. /\ Sound' /\ DefaultsMade' /\ pc' = "factories" /\ at' = 1
        /\ registered' \in FactoryLists
    BY <1>2, DefaultFactories DEF TypeInv, DefaultFactory, SetThreadGroups, Stays
  <2>2. \A q \in DOMAIN registered' : ~ (q < at')
    BY <2>1, ListsArePairs
  <2>3. RegisteredMade'
    BY <2>1, <2>2 DEF RegisteredMade
  <2> QED
    BY <2>1, <2>3 DEF FactoryInv
<1>3. CASE RegisterServiceFactory
  BY <1>3, OneMoreFactory
<1>4. ASSUME UNCHANGED <<factories, registered, threadGroups>>,
             pc \in {"factories", "start", "loop"},
             \A q \in DOMAIN registered : pc' # "factories" \/ q < at' => pc # "factories" \/ q < at
      PROVE  FactoryInv'
  <2>1. Sound /\ DefaultsMade /\ RegisteredMade
    BY <1>4 DEF FactoryInv
  <2>2. Sound' /\ DefaultsMade'
    BY <1>4, <2>1, UsableStays DEF Sound, DefaultsMade, Default, Made, Usable, HasIOPool
  <2>3. RegisteredMade'
    BY <1>4, <2>1, UsableStays DEF RegisteredMade, Made, Usable, HasIOPool
  <2> QED
    BY <2>2, <2>3 DEF FactoryInv
<1>5. CASE FactoriesDone
  <2>1. /\ at \in Nat \ {0} /\ at \notin DOMAIN registered /\ registered \in FactoryLists
        /\ pc = "factories" /\ UNCHANGED <<factories, registered, threadGroups>>
    BY <1>5 DEF FactoriesDone, TypeInv, groupVars, Stays
  <2>2. \A q \in DOMAIN registered : q < at
    BY <2>1, ListsArePairs
  <2> QED
    BY <1>4, <2>1, <2>2
<1>6. CASE NotCreated \/ StartService \/ DuplicateName \/ StartDone
  <2>1. pc = "start" /\ UNCHANGED <<factories, registered, threadGroups>>
    BY <1>6 DEF NotCreated, StartService, DuplicateName, StartDone, groupVars, Stays
  <2> QED
    BY <1>4, <2>1
<1>7. CASE LoopEnds \/ StopNext \/ StopOne \/ StopDone \/ CallbackWaits \/ LateUse
  <2>1. pc' \in {"stop", "exit", "crashed"}
    BY <1>7 DEF LoopEnds, StopNext, StopOne, StopDone, CallbackWaits, LateUse, GoOn
  <2> QED
    BY <2>1 DEF FactoryInv
<1>8. CASE Signal \/ UNCHANGED slVars
  <2>1. /\ UNCHANGED <<factories, registered, threadGroups>>
        /\ pc' = "killed" \/ UNCHANGED <<pc, at>>
    BY <1>8 DEF Signal, slVars, rootVars, groupVars, GoOn, Stays
  <2>2. CASE pc' = "killed"
    BY <2>2 DEF FactoryInv
  <2>3. CASE UNCHANGED <<pc, at>> /\ pc \in {"factories", "start", "loop"}
    BY <1>4, <2>1, <2>3
  <2>4. CASE pc' \notin {"factories", "start", "loop"}
    BY <2>4 DEF FactoryInv
  <2> QED
    BY <2>1, <2>2, <2>3, <2>4
<1> QED
  BY <1>1, <1>2, <1>3, <1>5, <1>6, <1>7, <1>8 DEF SlNext, Main, Initialize, Run

-----------------------------------------------------------------------------
(* The services                                                             *)

\* Start has started what it has come by and CreateService finds a factory for.
LEMMA NextStarts == TypeInv /\ StartInv /\ [SlNext]_slVars => StartInv'
<1> SUFFICES ASSUME TypeInv, StartInv, [SlNext]_slVars, NEW k \in Positions'
             PROVE  (/\ pc \in {"load", "groups", "factories"} => state[k] = "none"
                     /\ pc = "start" /\ k < at => (state[k] = "started" <=> CanCreate(k))
                     /\ pc = "start" /\ k >= at => state[k] = "none"
                     /\ pc = "loop" => (state[k] = "started" <=> CanCreate(k)))'
  BY DEF StartInv
<1>0. configs' = configs /\ k \in Positions
  <2> USE DEF Stays
  <2>1. LoadConfig \/ SetThreadGroups \/ RegisterServiceFactory => configs' = configs
    BY DEF ConfigRead, LoadConfig, SetThreadGroups, RegisterServiceFactory
  <2>2. FactoriesDone \/ NotCreated \/ StartService \/ DuplicateName => configs' = configs
    BY DEF FactoriesDone, NotCreated, StartService, DuplicateName
  <2>3. StartDone \/ LoopEnds \/ StopNext \/ StopDone \/ Signal => configs' = configs
    BY DEF StartDone, LoopEnds, StopNext, StopDone, Signal
  <2>4. MakeGroups \/ UNCHANGED slVars => configs' = configs
    BY DEF MakeGroups, slVars, rootVars
  <2>5. StopOne \/ CallbackWaits \/ LateUse => configs' = configs
    BY DEF StopOne, CallbackWaits, LateUse
  <2> QED
    BY <2>1, <2>2, <2>3, <2>4, <2>5 DEF SlNext, Main, Initialize, Run, Positions
<1>1. /\ pc \in {"load", "groups", "factories"} => state[k] = "none"
      /\ pc = "start" /\ k < at => (state[k] = "started" <=> CanCreate(k))
      /\ pc = "start" /\ k >= at => state[k] = "none"
      /\ pc = "loop" => (state[k] = "started" <=> CanCreate(k))
  BY <1>0 DEF StartInv
<1>2. /\ at \in Nat \ {0} /\ k \in Nat \ {0} /\ state \in [Positions -> States]
      /\ configs \in ServiceLists /\ Len(configs) \in Nat /\ Positions = 1 .. Len(configs)
  BY <1>0, ListsArePairs DEF TypeInv, Positions
<1>3. factories' = factories => (CanCreate(k)' <=> CanCreate(k))
  BY <1>0 DEF CanCreate
<1>4. CASE LoadConfig \/ MakeGroups \/ SetThreadGroups \/ RegisterServiceFactory
  <2>1. /\ pc \in {"load", "groups", "factories"} /\ state' = state
        /\ pc' \in {"groups", "factories", "failed"}
    BY <1>4 DEF ConfigRead, LoadConfig, MakeGroups, SetThreadGroups, RegisterServiceFactory, rootVars, GoOn
  <2> QED
    BY <1>1, <2>1
<1>5. CASE FactoriesDone
  <2>1. pc = "factories" /\ state' = state /\ pc' = "start" /\ at' = 1
    BY <1>5 DEF FactoriesDone, GoOn
  <2>2. ~ (k < 1)
    BY <1>2
  <2> QED
    BY <1>1, <2>1, <2>2
<1>6. CASE NotCreated
  <2>1. /\ pc = "start" /\ pc' = "start" /\ state' = state /\ at' = at + 1
        /\ factories' = factories /\ ~CanCreate(at)
    BY <1>6 DEF NotCreated
  <2>2. CASE k = at
    <3>1. state[k] = "none" /\ k < at' /\ ~ (k >= at')
      BY <1>1, <1>2, <2>1, <2>2
    <3> QED
      BY <1>3, <2>1, <2>2, <3>1
  <2>3. CASE k # at
    <3>1. (k < at' <=> k < at) /\ (k >= at' => k >= at)
      BY <1>2, <2>1, <2>3
    <3> QED
      BY <1>1, <1>3, <2>1, <3>1
  <2> QED
    BY <2>2, <2>3
<1>7. CASE StartService
  <2>1. pc = "start" /\ factories' = factories /\ CanCreate(at) /\ at \in Positions
    BY <1>7 DEF StartService
  <2>2. CASE pc' = "failed"
    BY <2>2
  <2>3. CASE pc' = pc /\ at' = at + 1 /\ state' = [state EXCEPT ![at] = "started"]
    <3>1. CASE k = at
      <4>1. state'[k] = "started" /\ k < at' /\ ~ (k >= at')
        BY <1>2, <2>1, <2>3, <3>1
      <4> QED
        BY <1>3, <2>1, <2>3, <3>1, <4>1
    <3>2. CASE k # at
      <4>1. (k < at' <=> k < at) /\ (k >= at' => k >= at) /\ state'[k] = state[k]
        BY <1>0, <1>2, <2>1, <2>3, <3>2
      <4> QED
        BY <1>1, <1>3, <2>1, <2>3, <4>1
    <3> QED
      BY <3>1, <3>2
  <2> QED
    BY <1>7, <2>2, <2>3 DEF StartService, GoOn
<1>8. CASE StartDone
  <2>1. /\ pc = "start" /\ pc' = "loop" /\ state' = state /\ factories' = factories
        /\ at \notin Positions
    BY <1>8 DEF StartDone, GoOn
  <2>2. k < at
    BY <1>0, <1>2, <2>1
  <2> QED
    BY <1>1, <1>3, <2>1, <2>2
<1>9. CASE \/ DuplicateName \/ LoopEnds \/ StopNext \/ StopOne \/ StopDone
           \/ CallbackWaits \/ LateUse
  <2>1. pc' \in {"fatal", "stop", "exit", "crashed"}
    BY <1>9
       DEF DuplicateName, LoopEnds, StopNext, StopOne, StopDone, CallbackWaits, LateUse, GoOn
  <2> QED
    BY <2>1
<1>10. CASE Signal \/ UNCHANGED slVars
  <2>1. /\ state' = state /\ factories' = factories
        /\ pc' = "killed" \/ (pc' = pc /\ at' = at)
    BY <1>10 DEF Signal, slVars, rootVars, GoOn
  <2> QED
    BY <1>1, <1>3, <2>1
<1> QED
  BY <1>4, <1>5, <1>6, <1>7, <1>8, <1>9, <1>10 DEF SlNext, Main, Initialize, Run

\* A name is found, for itself, for one server or for clients.
NameOK(n) ==
    services[n] # None =>
        /\ \/ Cardinality(services[n]) = 1
           \/ \A k \in services[n] : configs[k].type = "tcp_client"
        /\ \A k \in services[n] : configs[k].name = n

\* The step in which a service enters services_.
LEMMA StartNames ==
    ASSUME TypeInv, NameInv, StartService
    PROVE  NameInv'
<1> DEFINE m == configs[at].name
<1>1. /\ at \in Positions /\ RegisterServiceBase(at) /\ Registrable(at)
      /\ configs' = configs /\ left' = left /\ stopping' = stopping
      /\ \/ state' = [state EXCEPT ![at] = "started"]
         \/ state' = [state EXCEPT ![at] = "broken"]
  BY DEF StartService, Stays, stopVars
<1>2. /\ Positions' = Positions /\ Names' = Names
  BY <1>1 DEF Positions, Names
<1>3. /\ m \in Names
      /\ services'[m] = IF services[m] = None THEN {at} ELSE services[m] \cup {at}
      /\ \A n \in Names \ {m} : services'[n] = services[n]
  BY <1>1, RegisterTypes
<1>4. /\ services \in [Names -> (SUBSET Positions) \cup {None}]
      /\ state \in [Positions -> States]
      /\ \A S \in SUBSET Positions : S # None
  BY DEF TypeInv, Positions
<1>5. services[m] = None \/ (/\ configs[at].type = "tcp_client" /\ services[m] # None
                             /\ \A k \in services[m] : configs[k].type = "tcp_client")
  BY <1>1 DEF Registrable, IsGroup, IsClient
<1>6. /\ \A k \in Positions : state[k] \in {"started", "stopped"} => Found(k)
      /\ \A n \in Names : NameOK(n)
      /\ left \subseteq {n \in Names : services[n] # None}
      /\ \A k \in stopping : Found(k)
  BY DEF NameInv, NameOK
<1>7. \A k \in Positions : configs[k].name \in Names
  BY DEF Names
<1>m. m = configs[at].name
  OBVIOUS
<1> HIDE DEF m
<1>8. services'[m] # None /\ at \in services'[m]
  <2>1. CASE services[m] = None
    <3>1. services'[m] = {at}
      BY <1>3, <2>1
    <3>2. {at} \in SUBSET Positions
      BY <1>1
    <3> QED
      BY <1>4, <3>1, <3>2
  <2>2. CASE services[m] # None
    <3>1. services'[m] = services[m] \cup {at}
      BY <1>3, <2>2
    <3>2. services[m] \in SUBSET Positions
      BY <1>3, <1>4, <2>2
    <3>3. services[m] \cup {at} \in SUBSET Positions
      BY <1>1, <3>2
    <3> QED
      BY <1>4, <3>1, <3>3
  <2> QED
    BY <2>1, <2>2
<1>b. ASSUME NEW k, Found(k) PROVE Found(k)'
  <2>1. /\ k \in Positions /\ services[configs[k].name] # None
        /\ k \in services[configs[k].name]
    BY <1>b DEF Found
  <2>2. services'[configs[k].name] # None /\ k \in services'[configs[k].name]
    <3>1. CASE configs[k].name = m
      BY <1>3, <1>8, <2>1, <3>1
    <3>2. CASE configs[k].name # m
      BY <1>3, <1>7, <2>1, <3>2
    <3> QED
      BY <3>1, <3>2
  <2> QED
    BY <1>1, <1>2, <2>1, <2>2 DEF Found
<1>9. ASSUME NEW k \in Positions, state'[k] \in {"started", "stopped"}
      PROVE  Found(k)'
  <2>1. CASE k = at
    BY <1>1, <1>2, <1>8, <1>m, <2>1 DEF Found
  <2>2. CASE k # at
    <3>1. state'[k] = state[k]
      BY <1>1, <1>4, <2>2
    <3> QED
      BY <1>6, <1>9, <1>b, <3>1
  <2> QED
    BY <2>1, <2>2
<1>10. ASSUME NEW n \in Names
       PROVE  NameOK(n)'
  <2>1. CASE n # m
    <3>1. services'[n] = services[n] /\ NameOK(n)
      BY <1>3, <1>6, <2>1
    <3> QED
      BY <1>1, <3>1 DEF NameOK
  <2>2. CASE n = m /\ services[m] = None
    <3>1. services'[m] = {at}
      BY <1>3, <2>2
    <3>2. Cardinality({at}) = 1
      BY FS_Singleton
    <3>3. \A k \in {at} : configs[k].name = m
      BY <1>m
    <3> QED
      BY <1>1, <2>2, <3>1, <3>2, <3>3 DEF NameOK
  <2>3. CASE n = m /\ services[m] # None
    <3>1. services'[m] = services[m] \cup {at}
      BY <1>3, <2>3
    <3>2. \A k \in services[m] \cup {at} : configs[k].type = "tcp_client"
      BY <1>5, <2>3
    <3>3. \A k \in services[m] \cup {at} : configs[k].name = m
      BY <1>3, <1>6, <1>m, <2>3 DEF NameOK
    <3> QED
      BY <1>1, <2>3, <3>1, <3>2, <3>3 DEF NameOK
  <2> QED
    BY <2>1, <2>2, <2>3
<1>11. ASSUME NEW n \in left PROVE n \in Names /\ services'[n] # None
  BY <1>3, <1>6, <1>8
<1> QED
  BY <1>1, <1>2, <1>6, <1>9, <1>b, <1>10, <1>11 DEF NameInv, NameOK

\* The other steps only stop services, or set out to.
LEMMA NextNames == TypeInv /\ NameInv /\ [SlNext]_slVars => NameInv'
<1> SUFFICES ASSUME TypeInv, NameInv, [SlNext]_slVars PROVE NameInv'
  OBVIOUS
<1>1. CASE StartService
  BY <1>1, StartNames
<1>2. ASSUME UNCHANGED <<configs, services, state>>,
             left' \subseteq {n \in Names : services[n] # None},
             \A k \in stopping' : Found(k)
      PROVE  NameInv'
  <2>1. Positions' = Positions /\ Names' = Names
    BY <1>2 DEF Positions, Names
  <2>2. \A k : Found(k)' <=> Found(k)
    BY <1>2, <2>1 DEF Found
  <2> HIDE DEF Found
  <2> QED
    BY <1>2, <2>1, <2>2 DEF NameInv
<1>3. CASE StopNext
  <2>1. PICK n \in left : stopping' = services[n] /\ left' = left \ {n}
    BY <1>3 DEF StopNext, StopService
  <2>2. UNCHANGED <<configs, services, state>>
    BY <1>3 DEF StopNext, Stays
  <2>3. n \in Names /\ services[n] # None /\ \A k \in services[n] : configs[k].name = n
    BY <2>1 DEF NameInv
  <2>4. services[n] \in SUBSET Positions
    BY <2>3 DEF TypeInv
  <2>5. \A k \in stopping' : Found(k)
    BY <2>1, <2>3, <2>4 DEF Found
  <2>6. left' \subseteq {m \in Names : services[m] # None}
    BY <2>1 DEF NameInv
  <2> QED
    BY <1>2, <2>2, <2>5, <2>6
<1>4. CASE StopOne
  <2>1. PICK k \in stopping : /\ state' = [state EXCEPT ![k] = "stopped"]
                              /\ stopping' = stopping \ {k}
    BY <1>4 DEF StopOne
  <2>2. UNCHANGED <<configs, services, left>>
    BY <1>4 DEF StopOne, Stays
  <2>3. Positions' = Positions /\ Names' = Names
    BY <2>2 DEF Positions, Names
  <2>4. \A j : Found(j)' <=> Found(j)
    BY <2>2, <2>3 DEF Found
  <2>5. Found(k) /\ \A j \in stopping' : Found(j)
    BY <2>1 DEF NameInv
  <2>6. ASSUME NEW j \in Positions, state'[j] \in {"started", "stopped"} PROVE Found(j)
    <3>1. j = k \/ state'[j] = state[j]
      BY <2>1 DEF TypeInv
    <3> QED
      BY <2>5, <2>6, <3>1 DEF NameInv
  <2> HIDE DEF Found
  <2> QED
    BY <2>2, <2>3, <2>4, <2>5, <2>6 DEF NameInv
<1>5. CASE LoopEnds
  <2>1. \A k \in stopping' : Found(k)
    BY <1>5 DEF LoopEnds, NameInv
  <2> QED
    BY <1>2, <1>5, <2>1 DEF LoopEnds, Stays
<1>6. CASE ~ (StartService \/ StopNext \/ StopOne \/ LoopEnds)
  <2> DEFINE Same == UNCHANGED <<configs, services, state, left, stopping>>
  <2> USE DEF Stays, stopVars
  <2>1. LoadConfig \/ SetThreadGroups \/ RegisterServiceFactory => Same
    BY DEF ConfigRead, LoadConfig, SetThreadGroups, RegisterServiceFactory
  <2>2. FactoriesDone \/ NotCreated \/ DuplicateName => Same
    BY DEF FactoriesDone, NotCreated, DuplicateName
  <2>3. StartDone \/ StopDone \/ Signal => Same
    BY DEF StartDone, StopDone, Signal
  <2>4. MakeGroups \/ UNCHANGED slVars => Same
    BY DEF MakeGroups, slVars, rootVars
  <2>5. CallbackWaits \/ LateUse => Same
    BY DEF CallbackWaits, LateUse
  <2> HIDE DEF Same
  <2>6. Same
    BY <1>6, <2>1, <2>2, <2>3, <2>4, <2>5 DEF SlNext, Main, Initialize, Run
  <2> QED
    BY <1>2, <2>6 DEF NameInv, Same
<1> QED
  BY <1>1, <1>3, <1>4, <1>5, <1>6

-----------------------------------------------------------------------------
(* Theorems                                                                 *)

\* The initial state.
LEMMA InitInv == SlInit => IInv
<1> SUFFICES ASSUME SlInit PROVE IInv
  OBVIOUS
<1>1. TypeInv
  BY InitTypes
<1>2. RouteInv
  BY DEF SlInit, TgInit, RouteInv
<1>3. GroupInv
  BY DEF SlInit, TgInit, GroupInv, ConnTypes, Types, IOTypes
<1>4. FactoryInv
  BY DEF SlInit, FactoryInv
<1>5. StartInv
  BY DEF SlInit, StartInv, Positions
<1>6. NameInv
  <2>1. /\ \A k \in Positions : state[k] = "none"
        /\ \A n \in Names : services[n] = None
        /\ left = {} /\ stopping = {}
    BY DEF SlInit, Positions, Names
  <2> QED
    BY <2>1 DEF NameInv
<1> QED
  BY <1>1, <1>2, <1>3, <1>4, <1>5, <1>6 DEF IInv

\* The inductive invariant, from LoadConfig to the last service stopped.
THEOREM Invariant == SlSpec => []IInv
<1>1. IInv /\ [SlNext]_slVars => IInv'
  BY NextTypes, NextRoutes, NextGroups, NextFactories, NextStarts, NextNames DEF IInv
<1> QED
  BY InitInv, <1>1, PTL DEF SlSpec

\* GetEventBaseByThreadID of the index that set_thread_id gave an IO thread is
\* that thread, whatever groups were made and in whatever numbers.
THEOREM HighHalfRoutes == SlSpec => []ThreadIdsRoute
<1>1. IInv => ThreadIdsRoute
  BY DEF IInv, RouteInv, ThreadIdsRoute, EventBaseByThreadID
<1> QED
  BY Invariant, <1>1, PTL

\* CreateService finds a factory exactly for the services that the application
\* registered, or that are named after their type, with threads to run on.
LEMMA CreatesProvided ==
    ASSUME IInv, pc = "loop", ~MixedThreads, NEW k \in Positions
    PROVE  CanCreate(k) <=> /\ configs[k].type \in KnownTypes
                            /\ Provided(k)
                            /\ ThreadsConfigured(configs[k].type)
<1> DEFINE d == configs[k]
<1>1. d \in Pairs
  BY ListsArePairs DEF IInv, TypeInv, Positions
<1>2. Sound /\ DefaultsMade /\ RegisteredMade
  BY DEF IInv, FactoryInv
<1>3. \A t \in ConnTypes :
         threadGroups[t] # NoGroup <=>
             (IF t = "CONN_CLIENT" THEN "client" ELSE "accept") \in DOMAIN conf
  BY DEF IInv, GroupInv, Wanted, MixedThreads
<1> HIDE DEF d
<1>4. d.type \in KnownTypes => (ThreadsConfigured(d.type) <=> HasIOPool(PoolOf[d.type]))
  <2>1. CASE d.type = "tcp_client"
    BY <1>3, <2>1, PoolOfTypes DEF ThreadsConfigured, HasIOPool, ConnTypes, IOTypes
  <2>2. CASE d.type = "tcp_server"
    BY <1>3, <2>2, PoolOfTypes DEF ThreadsConfigured, HasIOPool, ConnTypes, IOTypes
  <2>3. CASE d.type = "http_server"
    BY <1>3, <2>3, PoolOfTypes DEF ThreadsConfigured, HasIOPool, ConnTypes, IOTypes
  <2> QED
    BY <2>1, <2>2, <2>3, PoolOfTypes
<1>5. CanCreate(k) <=> Made(d)
  BY DEF CanCreate, Made, d
<1>6. Provided(k) <=> \/ d.name = d.type /\ d.type # "http_server"
                      \/ \E r \in DOMAIN registered : registered[r] = d
  BY DEF Provided, d
<1>7. ASSUME Made(d) PROVE Usable(d) /\ Provided(k)
  <2>1. Usable(d) /\ (Default(d) \/ \E r \in DOMAIN registered : registered[r] = d)
    BY <1>2, <1>7 DEF Made, Sound
  <2>2. Default(d) => d.name = d.type /\ d.type # "http_server"
    BY DEF Default
  <2> QED
    BY <1>6, <2>1, <2>2
<1>8. ASSUME Usable(d), Provided(k) PROVE Made(d)
  <2>1. CASE \E r \in DOMAIN registered : registered[r] = d
    BY <1>2, <1>8, <2>1 DEF RegisteredMade
  <2>2. CASE d.name = d.type /\ d.type # "http_server"
    <3>1. d.type \in {"tcp_server", "tcp_client"} /\ HasIOPool(PoolOf[d.type])
      BY <1>8, <2>2, PoolOfTypes DEF Usable
    <3>2. Made([name |-> d.type, type |-> d.type])
      BY <1>2, <3>1 DEF DefaultsMade
    <3>3. d = [name |-> d.type, type |-> d.type]
      BY <1>1, <2>2 DEF Pairs
    <3> QED
      BY <3>2, <3>3
  <2> QED
    BY <1>6, <1>8, <2>1, <2>2
<1>9. CanCreate(k) <=> d.type \in KnownTypes /\ Provided(k) /\ ThreadsConfigured(d.type)
  BY <1>4, <1>5, <1>7, <1>8 DEF Usable
<1> QED
  BY <1>9 DEF d

\* While a server without mixed threads serves, the services of the file that
\* the application provides and that have their threads run, and no others;
\* Stop finds every one of them under its name.
THEOREM StartsConfigured == SlSpec => []ConfiguredIsStarted
<1>1. IInv => ConfiguredIsStarted
  <2> SUFFICES ASSUME IInv PROVE ConfiguredIsStarted
    OBVIOUS
  <2>1. ASSUME pc = "loop", ~MixedThreads, NEW k \in Positions
        PROVE  state[k] = "started" <=> /\ configs[k].type \in KnownTypes
                                        /\ Provided(k)
                                        /\ ThreadsConfigured(configs[k].type)
    BY <2>1, CreatesProvided DEF IInv, StartInv
  <2>2. /\ \A k \in Positions :
              state[k] \in {"started", "stopped"} =>
                  services[configs[k].name] # None /\ k \in services[configs[k].name]
        /\ \A n \in Names :
              services[n] # None =>
                  \/ Cardinality(services[n]) = 1
                  \/ \A k \in services[n] : IsClient(k)
    BY DEF IInv, NameInv, Found, IsClient
  <2> QED
    BY <2>1, <2>2 DEF ConfiguredIsStarted
<1> QED
  BY Invariant, <1>1, PTL
=============================================================================
