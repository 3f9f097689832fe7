----------------------------- MODULE ThreadGroups ----------------------------
(***************************************************************************)
(* ThreadGroupListManager: the "thread_group" configuration becomes thread *)
(* pools, and every thread of every pool gets the next index of            *)
(* thread_datas_.  The thread-local connection manager of an IO thread     *)
(* puts that index into the high half of its conn_ids, and                 *)
(* GetEventBaseByThreadID finds the way back.                              *)
(***************************************************************************)
EXTENDS Naturals, Sequences

CONSTANTS
    GroupConfs,       \* possible "thread_group" objects: functions from keys to sizes
    HardwareThreads,  \* GetIOThreadSize(): used for a size of 0
    NoGroup

Keys == {"conn", "accept", "client", "fiber", "db", "redis"}

IOTypes  == {"CONN_ACCEPT", "CONN_CLIENT", "FIBER"}     \* with event bases
CPUTypes == {"DB", "REDIS"}
Types    == IOTypes \cup CPUTypes \cup {"CONN"}

ASSUME GroupConfsAssumption ==
    \A c \in GroupConfs : DOMAIN c \subseteq Keys /\ \A k \in DOMAIN c : c[k] \in Nat
ASSUME HardwareAssumption == HardwareThreads \in Nat \ {0}
ASSUME NoGroupAssumption == NoGroup \notin Nat

VARIABLES
    options,      \* ThreadGroupListOption::options not yet made into groups
    starting,     \* threads of the group being made that are not announced yet
    threadGroups, \* thread_groups_: the number of threads of a group, or NoGroup
    threadDatas,  \* thread_datas_: <<type, number in its pool>> and whether it has an evb
    threadId      \* thread_id_ of the ThreadLocalConnManager of the IO threads told it

groupVars == <<options, starting, threadGroups, threadDatas, threadId>>

-----------------------------------------------------------------------------
(* ThreadGroupListOption::SetConf                                           *)

Option(conf, key, type) ==
    IF key \in DOMAIN conf
    THEN << [type |-> type, size |-> IF conf[key] > 0 THEN conf[key] ELSE HardwareThreads] >>
    ELSE << >>

\* "conn" is looked at first; when it is set, "accept" and "client" are not.
SetConf(conf) ==
    (IF "conn" \in DOMAIN conf
     THEN Option(conf, "conn", "CONN")
     ELSE Option(conf, "accept", "CONN_ACCEPT") \o Option(conf, "client", "CONN_CLIENT"))
    \o Option(conf, "fiber", "FIBER") \o Option(conf, "db", "DB") \o Option(conf, "redis", "REDIS")

TgInit ==
    /\ options = << >>
    /\ starting = << >>
    /\ threadGroups = [t \in Types |-> NoGroup]
    /\ threadDatas = << >>
    /\ threadId = << >>

-----------------------------------------------------------------------------
(* ThreadGroupListManager::Initialize                                       *)

\* MakeThreadGroup for the next option: a pool of IO or of CPU threads; the
\* type CONN is reported as not supported and leaves no group.
MakeThreadGroup ==
    LET o == Head(options)
    IN  /\ options # << >>
        /\ starting = << >>
        /\ options' = Tail(options)
        /\ \/ /\ o.type = "CONN"
              /\ UNCHANGED <<starting, threadGroups>>
           \/ /\ o.type # "CONN"
              /\ starting' = [k \in 1 .. o.size |-> <<o.type, k>>]
              /\ threadGroups' = [threadGroups EXCEPT ![o.type] = o.size]
        /\ UNCHANGED <<threadDatas, threadId>>

\* set_thread_id(idx), run on thread u by its event base.
SetThreadId(u, idx) ==
    threadId' = [v \in DOMAIN threadId \cup {u} |-> IF v = u THEN idx ELSE threadId[v]]

\* What is kept of a thread: whether it has an event base.
ThreadData(u, io) == [thread |-> u, evb |-> io]

\* Fault: the index counts the threads of the group instead of all threads.
GroupwiseThreadStarted ==
    LET u  == Head(starting)
        io == u[1] \in IOTypes
    IN  /\ starting # << >>
        /\ starting' = Tail(starting)
        /\ IF io THEN SetThreadId(u, u[2] - 1) ELSE UNCHANGED threadId
        /\ threadDatas' = Append(threadDatas, ThreadData(u, io))
        /\ UNCHANGED <<options, threadGroups>>

\* The observer's threadStarted: the callback sets thread_id_ on the thread
\* itself if it has an event base, and enters the thread.
ThreadStarted ==
    LET u   == Head(starting)
        idx == Len(threadDatas)
        io  == u[1] \in IOTypes
    IN  /\ starting # << >>
        /\ starting' = Tail(starting)
        /\ IF io THEN SetThreadId(u, idx) ELSE UNCHANGED threadId
        /\ threadDatas' = Append(threadDatas, ThreadData(u, io))
        /\ UNCHANGED <<options, threadGroups>>

Initialized == options = << >> /\ starting = << >>

-----------------------------------------------------------------------------
(* Lookups                                                                  *)

\* GetIOThreadPoolExecutor finds a pool for this type.
HasIOPool(type) == type \in IOTypes /\ threadGroups[type] # NoGroup

\* GetEventBaseByThreadID: the thread of the event base at index idx.
EventBaseByThreadID(idx) == threadDatas[idx + 1].thread
=============================================================================
