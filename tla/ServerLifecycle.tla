--------------------------- MODULE ServerLifecycle ---------------------------
(***************************************************************************)
(* The life of a server process: BaseMain::DoMain calls Root::LoadConfig,  *)
(* Root::Initialize (thread groups, service factories) and Root::Run,      *)
(* which starts the configured services through ServiceManager, installs   *)
(* the signal handlers, runs the main event base until a signal ends it,   *)
(* and stops the services.  Signals arrive at any time.                    *)
(***************************************************************************)
EXTENDS ThreadGroups, FiniteSets

CONSTANTS
    ServiceArrays,  \* possible "services" arrays of the configuration file
    FactoryLists,   \* possible Root::services_: sequences of [name, type]
    None

\* The JSON objects of a "services" array: either key may be missing.
ServiceKeys == {"service_name", "service_type"}
ASSUME ServiceArraysAssumption ==
    \A a \in ServiceArrays :
        /\ Len(a) \in Nat /\ DOMAIN a = 1 .. Len(a)
        /\ \A k \in DOMAIN a :
              DOMAIN a[k] \subseteq ServiceKeys /\ \A key \in DOMAIN a[k] : a[k][key] \in STRING
ASSUME FactoryListsAssumption == \A l \in FactoryLists : l \in Seq([name : STRING, type : STRING])

\* ServiceConfig::SetConf and ToServiceConfigs: a key that is missing leaves the
\* member empty.
TextUnder(item, key) == IF key \in DOMAIN item THEN item[key] ELSE ""
ServiceConfig(item) ==
    [name |-> TextUnder(item, "service_name"), type |-> TextUnder(item, "service_type")]
ToServiceConfigs(items) == [k \in DOMAIN items |-> ServiceConfig(items[k])]
ServiceLists == {ToServiceConfigs(a) : a \in ServiceArrays}

ASSUME NoServiceAssumption == \A l \in ServiceLists : \A S \in SUBSET (DOMAIN l) : S # None

\* The service types of RegisterServiceFactory, with the threads they need.
PoolOf == [tcp_server |-> "CONN_ACCEPT", http_server |-> "CONN_ACCEPT",
           tcp_client |-> "CONN_CLIENT"]
KnownTypes == DOMAIN PoolOf

VARIABLES
    conf,        \* the "thread_group" object of the configuration file
    configs,     \* the "services" array, ServiceManager::service_configs_
    registered,  \* what the application passed to Root::RegisterService
    pc,          \* where the main thread is
    at,          \* position of the main thread in the list it walks
    factories,   \* ServiceFactoryManager::factories_
    services,    \* services_: positions in configs under their name, or None
    state,       \* of the service made for each position in configs
    handlers,    \* the signal handlers are installed
    quit,        \* the main event base was told to stop
    left,        \* names that Stop has not come to yet
    stopping,    \* positions under the name Stop is at that are not stopped yet
    waiting      \* of these, the clients whose event base waits for the group's mutex_

stopVars == <<left, stopping, waiting>>
rootVars == <<conf, configs, registered, pc, at, factories, services, state, handlers, quit,
              stopVars>>
slVars == <<rootVars, groupVars>>

Positions == DOMAIN configs
Names     == {configs[k].name : k \in Positions}

Ended == {"failed", "exit", "fatal", "killed", "crashed"}

SlInit ==
    /\ TgInit
    /\ conf \in GroupConfs
    /\ configs \in ServiceLists
    /\ registered \in FactoryLists
    /\ pc = "load"
    /\ at = 1
    /\ factories = << >>
    /\ services = [n \in {configs[k].name : k \in DOMAIN configs} |-> None]
    /\ state = [k \in DOMAIN configs |-> "none"]
    /\ handlers = FALSE
    /\ quit = FALSE
    /\ left = {} /\ stopping = {} /\ waiting = {}

GoOn(next) == pc' = next /\ at' = 1
Stays == UNCHANGED <<conf, configs, registered>>   \* the files and the program

-----------------------------------------------------------------------------
(* LoadConfig and Initialize                                                *)

\* ConfigManager reads the file and calls SetConf for every registered part.
ConfigRead ==
    /\ GoOn("groups")
    /\ options' = SetConf(conf)

LoadConfig ==
    /\ pc = "load"
    /\ \/ ConfigRead
       \/ /\ GoOn("failed")            \* no file, or no JSON in it
          /\ UNCHANGED options
    /\ Stays
    /\ UNCHANGED <<starting, threadGroups, threadDatas, threadId, factories, services,
                   state, handlers, quit, stopVars>>

MakeGroups ==
    /\ pc = "groups"
    /\ MakeThreadGroup \/ ThreadStarted
    /\ UNCHANGED rootVars

\* GetDefaultFactory of a type: the factory is named after it.
DefaultFactory(type) == [name |-> type, type |-> type]

\* ServiceManager::set_thread_groups
SetThreadGroups ==
    /\ pc = "groups"
    /\ Initialized
    /\ factories' =
          (IF HasIOPool("CONN_ACCEPT") THEN <<DefaultFactory("tcp_server")>>
           ELSE << >>)
          \o (IF HasIOPool("CONN_CLIENT") THEN <<DefaultFactory("tcp_client")>>
              ELSE << >>)
    /\ GoOn("factories")
    /\ Stays
    /\ UNCHANGED <<groupVars, services, state, handlers, quit, stopVars>>

\* ServiceManager::RegisterServiceFactory: an unknown type, or a type whose
\* threads do not exist, is only logged.
RegisterServiceFactory ==
    /\ pc = "factories"
    /\ at \in DOMAIN registered
    /\ LET r == registered[at]
       IN  factories' = IF r.type \in KnownTypes /\ HasIOPool(PoolOf[r.type])
                        THEN Append(factories, r) ELSE factories
    /\ at' = at + 1
    /\ Stays
    /\ UNCHANGED <<groupVars, pc, services, state, handlers, quit, stopVars>>

FactoriesDone ==
    /\ pc = "factories"
    /\ at \notin DOMAIN registered
    /\ GoOn("start")
    /\ Stays
    /\ UNCHANGED <<groupVars, factories, services, state, handlers, quit, stopVars>>

-----------------------------------------------------------------------------
(* ServiceManager::Start, one configured service after the other            *)

\* Fault: the type decides alone.
TypeOnlyCanCreate(k) == \E f \in DOMAIN factories : factories[f].type = configs[k].type

\* CreateService: a factory of the configured type and of the configured name.
CanCreate(k) == \E f \in DOMAIN factories : factories[f] = configs[k]

\* CreateService finds no factory: logged, and on with the next.
NotCreated ==
    /\ pc = "start"
    /\ at \in Positions
    /\ ~CanCreate(at)
    /\ at' = at + 1
    /\ Stays
    /\ UNCHANGED <<groupVars, pc, factories, services, state, handlers, quit, stopVars>>

IsClient(k) == configs[k].type = "tcp_client"
IsGroup(n)  == services[n] # None /\ \A k \in services[n] : IsClient(k)

\* RegisterServiceBase: the first of its name is entered, a tcp_client as a
\* group of its own; a further tcp_client joins the group.
RegisterServiceBase(k) ==
    LET n == configs[k].name
    IN  services' = [services EXCEPT ![n] = IF @ = None THEN {k} ELSE @ \cup {k}]

Registrable(k) ==
    LET n == configs[k].name
    IN  services[n] = None \/ (IsClient(k) /\ IsGroup(n))

\* The servers bind their port in Start, and that may throw; a client only
\* begins to connect.
Binds(k) == ~IsClient(k)

StartService ==
    /\ pc = "start"
    /\ at \in Positions
    /\ CanCreate(at) /\ Registrable(at)
    /\ RegisterServiceBase(at)
    /\ \/ /\ state' = [state EXCEPT ![at] = "started"]
          /\ at' = at + 1
          /\ UNCHANGED pc
       \/ /\ Binds(at)                         \* Run catches it and returns
          /\ state' = [state EXCEPT ![at] = "broken"]
          /\ GoOn("failed")
    /\ Stays
    /\ UNCHANGED <<groupVars, factories, handlers, quit, stopVars>>

\* LOG(FATAL): the name belongs to a service of another kind, or to a server.
DuplicateName ==
    /\ pc = "start"
    /\ at \in Positions
    /\ CanCreate(at) /\ ~Registrable(at)
    /\ GoOn("fatal")
    /\ Stays
    /\ UNCHANGED <<groupVars, factories, services, state, handlers, quit, stopVars>>

\* writePid and the calls of signal(); then loopForever.
StartDone ==
    /\ pc = "start"
    /\ at \notin Positions
    /\ GoOn("loop")
    /\ handlers' = TRUE
    /\ Stays
    /\ UNCHANGED <<groupVars, factories, services, state, quit, stopVars>>

-----------------------------------------------------------------------------
(* Signals and ServiceManager::Stop                                         *)

\* SIGTERM, SIGINT or SIGHUP: before the handlers are installed the process is
\* killed; afterwards OnShutdownDaemon ends the loop of g_main_evb.
Signal ==
    /\ pc \notin Ended
    /\ \/ /\ ~handlers
          /\ GoOn("killed")
          /\ UNCHANGED quit
       \/ /\ handlers
          /\ quit' = TRUE
          /\ UNCHANGED <<pc, at>>
    /\ Stays
    /\ UNCHANGED <<groupVars, factories, services, state, handlers, stopVars>>

LoopEnds ==
    /\ pc = "loop"
    /\ quit
    /\ GoOn("stop")
    /\ left' = {n \in Names : services[n] # None}
    /\ Stays
    /\ UNCHANGED <<groupVars, factories, services, state, handlers, quit, stopping, waiting>>

\* Fault: the group stops its first client only.
FirstStopService(n) == stopping' = {CHOOSE k \in services[n] : TRUE}

\* Stop of the service found under name n: a server, or a group, which stops
\* its clients one after the other under its mutex_.
StopService(n) == stopping' = services[n]

\* The next service of the hash map services_, in any order.
StopNext ==
    /\ pc = "stop"
    /\ stopping = {}
    /\ \E n \in left : StopService(n) /\ left' = left \ {n}
    /\ Stays
    /\ UNCHANGED <<groupVars, pc, at, factories, services, state, handlers, quit, waiting>>

\* Stop of one server or client, in the order of the configuration; that of a
\* client waits until its event base has run it.
StopOne ==
    /\ pc = "stop"
    /\ \E k \in stopping \ waiting :
          /\ \A j \in stopping : k <= j
          /\ state' = [state EXCEPT ![k] = "stopped"]
          /\ stopping' = stopping \ {k}
    /\ Stays
    /\ UNCHANGED <<groupVars, pc, at, factories, services, handlers, quit, left, waiting>>

StopDone ==
    /\ pc = "stop"
    /\ left = {} /\ stopping = {}
    /\ GoOn("exit")
    /\ Stays
    /\ UNCHANGED <<groupVars, factories, services, state, handlers, quit, stopVars>>

\* A callback on the event base of a client sends to the group that is being
\* stopped: GetOnlineClients waits for the mutex_, and the event base with it
\* (TcpClientGroup, NoCircularWait).
CallbackWaits ==
    /\ pc = "stop"
    /\ \E k \in stopping \ waiting : IsClient(k) /\ waiting' = waiting \cup {k}
    /\ Stays
    /\ UNCHANGED <<groupVars, pc, at, factories, services, state, handlers, quit, left,
                   stopping>>

\* A reconnect timer or a send comes to a client that was stopped, and uses the
\* client_ that Stop has reset (TcpClient, StopIsSafe).
LateUse ==
    /\ pc \notin Ended
    /\ \E k \in Positions : IsClient(k) /\ state[k] = "stopped"
    /\ GoOn("crashed")
    /\ Stays
    /\ UNCHANGED <<groupVars, factories, services, state, handlers, quit, stopVars>>

-----------------------------------------------------------------------------
Initialize == MakeGroups \/ SetThreadGroups \/ RegisterServiceFactory \/ FactoriesDone

Run ==
    \/ NotCreated \/ StartService \/ DuplicateName \/ StartDone
    \/ LoopEnds \/ StopNext \/ StopOne \/ StopDone

\* BaseMain::DoMain: each of the three goes on only where the one before ended well.
Main == LoadConfig \/ Initialize \/ Run

SlNext == Main \/ Signal \/ CallbackWaits \/ LateUse

SlSpec == SlInit /\ [][SlNext]_slVars

\* The main thread goes on.
SlFairSpec == SlSpec /\ WF_slVars(Main)

-----------------------------------------------------------------------------
(* Properties                                                               *)

\* The high half of a conn_id leads back to the thread that issued it: the
\* index an IO thread's manager was given is the index of its own event base
\* in thread_datas_, whatever groups of other kinds were made before.
ThreadIdsRoute ==
    \A i \in DOMAIN threadDatas :
        threadDatas[i].evb =>
            EventBaseByThreadID(threadId[threadDatas[i].thread]) = threadDatas[i].thread

\* Part of ConfiguredIsStarted: a service is made available by its name, or by
\* the name of its type for the two default factories.
Provided(k) ==
    \/ configs[k].name = configs[k].type /\ configs[k].type # "http_server"
    \/ \E r \in DOMAIN registered : registered[r] = configs[k]

ThreadsConfigured(type) == (IF type = "tcp_client" THEN "client" ELSE "accept") \in DOMAIN conf

MixedThreads == "conn" \in DOMAIN conf

\* When a server with threads of their own for accepted connections and for
\* clients serves, it runs exactly the configured services of a known type that
\* the application registered and whose threads are configured (for the mixed
\* threads see MixedThreadsServe).  Every started service is found under its
\* name in services_, where Stop looks for it, and a name stands for one server
\* or for clients only.
ConfiguredIsStarted ==
    /\ pc = "loop" /\ ~MixedThreads =>
          \A k \in Positions :
              state[k] = "started" <=>
                  /\ configs[k].type \in KnownTypes
                  /\ Provided(k)
                  /\ ThreadsConfigured(configs[k].type)
    /\ \A k \in Positions :
          state[k] \in {"started", "stopped"} =>
              services[configs[k].name] # None /\ k \in services[configs[k].name]
    /\ \A n \in Names :
          services[n] # None =>
              \/ Cardinality(services[n]) = 1
              \/ \A k \in services[n] : IsClient(k)

\* The comments on ThreadType (thread_group_list_manager.h:37 and 45) describe
\* "conn" as threads with event bases for accepted connections and for clients,
\* set in place of "accept" and "client": when such a server serves, it runs
\* every service of a known type that the application registered.
MixedThreadsServe ==
    pc = "loop" /\ MixedThreads =>
        \A k \in Positions :
            configs[k].type \in KnownTypes /\ Provided(k) => state[k] = "started"

\* A signal that finds the handlers installed leads to an orderly end: every
\* started service has been stopped, also the clients that joined a group.  It
\* fails to only where there are clients: Stop waits for ever for an event base
\* that waits for the group's mutex_, or a client is used after its stop.
ShutdownCompletes ==
    quit ~> \/ pc = "exit" /\ \A k \in Positions : state[k] # "started"
            \/ \E k \in stopping : k \in waiting
            \/ pc = "crashed"
=============================================================================
