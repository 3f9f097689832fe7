------------------------------ MODULE Snowflake ------------------------------
(***************************************************************************)
(* The id generator of base/snowflake_id_util.cc: one IdWorker per thread  *)
(* (GetNextIDBySnowflake) and one static IdWorker (...UnSafe), all reading *)
(* the wall clock.  An id packs 25 bits of the clock, 5 bits of the        *)
(* worker's number, 5 bits of the server's worker id and 12 bits of the    *)
(* sequence; the widths are the constants TimeSpace, SlotSpace, SeqSpace.  *)
(***************************************************************************)
EXTENDS Integers, Sequences

CONSTANTS
    Callers,       \* threads that call GetNextIDBySnowflake
    Static,        \* the static worker of GetNextIDBySnowflakeUnSafe
    WorkerIds,     \* worker_id passed to InitSnowflakeWorkerID
    DataCenters,   \* data_center_id passed to it
    TimeSpace,     \* 2^25 milliseconds
    SlotSpace,     \* 2^5 values of the fields for the two numbers
    NumberSpace,   \* 2^16 values of g_thread_id
    SeqSpace,      \* 2^12 sequence numbers
    MaxTime,       \* bound: the clock
    Garbage,       \* bound: what the uninitialized last_timestamp_ may hold
    MaxSetBacks,   \* bound: how often the clock is set back
    MaxIds         \* bound: ids issued

ASSUME TimeAssumption  == TimeSpace \in Nat \ {0} /\ MaxTime \in Nat \ {0}
ASSUME GarbageAssumption == Garbage \subseteq 0 .. MaxTime
ASSUME SlotAssumption  == SlotSpace \in Nat \ {0} /\ NumberSpace \in Nat /\ SlotSpace <= NumberSpace
ASSUME GivenAssumption == WorkerIds \subseteq Nat /\ DataCenters \subseteq Nat
ASSUME SeqAssumption   == SeqSpace \in Nat \ {0}
ASSUME BoundAssumption == MaxSetBacks \in Nat /\ MaxIds \in Nat
ASSUME StaticAssumption == Static \notin Callers

Workers == Callers \cup {Static}

VARIABLES
    now,         \* what gettimeofday returns, in milliseconds
    epoch,       \* history: how often the clock was set back
    workerId,    \* g_worker_id
    dataCenter,  \* g_data_center_id
    nextNumber,  \* g_thread_id
    made,        \* history: workers made for threads so far
    created,     \* the workers constructed so far
    number,      \* data_center_id_: the number of the worker
    server,      \* worker_id_: g_worker_id when the worker was constructed
    last,        \* last_timestamp_, not initialized by the constructor
    seq,         \* sequence_number_
    waiting,     \* workers inside tilNextMillis
    log,         \* history: the ids issued, in order, with their origin
    wrapped      \* history: <<worker, ms>> in which the sequence restarted

clockVars  == <<now, epoch>>
givenVars  == <<workerId, dataCenter>>
workerVars == <<nextNumber, made, created, number, server>>
sfVars == <<clockVars, givenVars, workerVars, last, seq, waiting, log, wrapped>>

Times   == 0 .. MaxTime
Entries == [by : Workers, number : Nat, server : Nat, at : Times, seq : 0 .. SeqSpace - 1,
            epoch : 0 .. MaxSetBacks]

SfTypeOK ==
    /\ now \in Times /\ epoch \in 0 .. MaxSetBacks
    /\ workerId \in WorkerIds \cup {1} /\ dataCenter \in DataCenters \cup {1}
    /\ nextNumber \in 0 .. NumberSpace - 1 /\ made \in Nat
    /\ created \subseteq Workers
    /\ number \in [Workers -> Nat] /\ server \in [Workers -> Nat]
    /\ last \in [Workers -> Times]
    /\ seq \in [Workers -> 0 .. SeqSpace - 1]
    /\ waiting \subseteq created
    /\ log \in Seq(Entries)
    /\ wrapped \subseteq Workers \X Times

SfInit ==
    /\ now = 1
    /\ epoch = 0
    /\ workerId = 1
    /\ dataCenter = 1
    /\ nextNumber = 0
    /\ made = 0
    /\ created = {}
    /\ number = [w \in Workers |-> 0]
    /\ server = [w \in Workers |-> 0]
    /\ last = [w \in Workers |-> 0]
    /\ seq = [w \in Workers |-> 0]
    /\ waiting = {}
    /\ log = << >>
    /\ wrapped = {}

-----------------------------------------------------------------------------
(* The wall clock of nowInMsec                                              *)

Tick ==
    /\ now < MaxTime
    /\ now' = now + 1
    /\ UNCHANGED <<epoch, givenVars, workerVars, last, seq, waiting, log, wrapped>>

\* gettimeofday follows adjustments of the system time.
SetBack ==
    /\ epoch < MaxSetBacks
    /\ epoch' = epoch + 1
    /\ now' \in 1 .. now - 1
    /\ UNCHANGED <<givenVars, workerVars, last, seq, waiting, log, wrapped>>

-----------------------------------------------------------------------------
(* Construction of workers                                                  *)

InitSnowflakeWorkerID ==
    /\ workerId' \in WorkerIds
    /\ dataCenter' \in DataCenters
    /\ UNCHANGED <<clockVars, workerVars, last, seq, waiting, log, wrapped>>

\* IdWorker(worker_id, data_center_id): last_timestamp_ is whatever the memory
\* held.
Construct(w, n) ==
    /\ w \notin created
    /\ created' = created \cup {w}
    /\ number' = [number EXCEPT ![w] = n]
    /\ server' = [server EXCEPT ![w] = workerId]
    /\ \E garbage \in Garbage : last' = [last EXCEPT ![w] = garbage]
    /\ UNCHANGED <<clockVars, givenVars, seq, waiting, log, wrapped>>

\* g_thread_id++ on 16 bits.
NextNumber(n) == IF n + 1 = NumberSpace THEN 0 ELSE n + 1

\* Fault: the number is loaded after the increment of another thread, the
\* variant the code's comment warns of.
RacyNewWorker(t) ==
    /\ Construct(t, nextNumber)
    /\ nextNumber' \in {nextNumber, NextNumber(nextNumber)}
    /\ made' = made + 1

\* First GetIdWorkerByThreadLocal of thread t: next_id = g_thread_id++.
NewWorker(t) ==
    /\ Construct(t, nextNumber)
    /\ nextNumber' = NextNumber(nextNumber)
    /\ made' = made + 1

\* First GetNextIDBySnowflakeUnSafe: the number is g_data_center_id.
NewStaticWorker ==
    /\ Construct(Static, dataCenter)
    /\ UNCHANGED <<nextNumber, made>>

-----------------------------------------------------------------------------
(* IdWorker::GetNextID                                                      *)

\* The end of GetNextID with timestamp ts and sequence number s.
Issue(w, ts, s) ==
    /\ last' = [last EXCEPT ![w] = ts]
    /\ log' = Append(log, [by |-> w, number |-> number[w], server |-> server[w],
                           at |-> ts, seq |-> s, epoch |-> epoch])

\* (s + 1) & 0xFFF
NextSeq(s) == IF s + 1 = SeqSpace THEN 0 ELSE s + 1

Ready(w) == w \in created /\ w \notin waiting /\ Len(log) < MaxIds

\* Fault: last_timestamp_ is never stored, so that every id looks like the
\* first of its millisecond.
ForgetfulNewMillisecond(w) ==
    /\ Ready(w)
    /\ seq' = [seq EXCEPT ![w] = 0]
    /\ log' = Append(log, [by |-> w, number |-> number[w], server |-> server[w],
                           at |-> now, seq |-> 0, epoch |-> epoch])
    /\ UNCHANGED <<clockVars, givenVars, workerVars, last, waiting, wrapped>>

\* The clock shows another millisecond than at the last call.
NewMillisecond(w) ==
    /\ Ready(w)
    /\ last[w] # now
    /\ seq' = [seq EXCEPT ![w] = 0]
    /\ Issue(w, now, 0)
    /\ UNCHANGED <<clockVars, givenVars, workerVars, waiting, wrapped>>

\* The same millisecond, and the sequence has a next number.
SameMillisecond(w) ==
    /\ Ready(w)
    /\ last[w] = now
    /\ NextSeq(seq[w]) # 0
    /\ seq' = [seq EXCEPT ![w] = NextSeq(@)]
    /\ Issue(w, now, NextSeq(seq[w]))
    /\ UNCHANGED <<clockVars, givenVars, workerVars, waiting, wrapped>>

\* The sequence is used up: GetNextID calls tilNextMillis.
SequenceFull(w) ==
    /\ Ready(w)
    /\ last[w] = now
    /\ NextSeq(seq[w]) = 0
    /\ seq' = [seq EXCEPT ![w] = 0]
    /\ waiting' = waiting \cup {w}
    /\ UNCHANGED <<clockVars, givenVars, workerVars, last, log, wrapped>>

\* tilNextMillis spins while the clock is at or before its argument, which is
\* sequence_number_ (0 here) and not last_timestamp_.
TilNextMillis(w) ==
    /\ w \in waiting
    /\ now > seq[w]
    /\ Len(log) < MaxIds
    /\ waiting' = waiting \ {w}
    /\ Issue(w, now, seq[w])
    /\ wrapped' = IF now = last[w] THEN wrapped \cup {<<w, now>>} ELSE wrapped
    /\ UNCHANGED <<clockVars, givenVars, workerVars, seq>>

-----------------------------------------------------------------------------
GetNextID(w) ==
    NewMillisecond(w) \/ SameMillisecond(w) \/ SequenceFull(w) \/ TilNextMillis(w)

SfNext ==
    \/ Tick \/ SetBack \/ InitSnowflakeWorkerID \/ NewStaticWorker
    \/ \E t \in Callers : NewWorker(t)
    \/ \E w \in Workers : GetNextID(w)

SfSpec == SfInit /\ [][SfNext]_sfVars

-----------------------------------------------------------------------------
(* Properties                                                               *)

\* The fields of the 64 bit value.
Stamp(e) == e.at % TimeSpace
Slot(n)  == n % SlotSpace
Id(e)    == <<Stamp(e), Slot(e.number), Slot(e.server), e.seq>>

\* The id of e is smaller than the one of f, for ids of one worker.
Before(e, f) == Stamp(e) < Stamp(f) \/ (Stamp(e) = Stamp(f) /\ e.seq < f.seq)

Restarted(e, f) == e.at = f.at /\ <<e.by, e.at>> \in wrapped

\* "Ordered by time as a whole" (snowflake_id_util.h): the ids of one worker
\* grow strictly, whatever last_timestamp_ held at first, except across a set
\* clock, across a turn of the 25 bit time stamp, and within a millisecond in
\* which tilNextMillis let the sequence start over.
IdsOrdered ==
    \A j, k \in DOMAIN log :
        LET e == log[j]
            f == log[k]
        IN  j < k /\ e.by = f.by /\ e.epoch = f.epoch
              /\ e.at \div TimeSpace = f.at \div TimeSpace
                => Before(e, f) \/ Restarted(e, f)

\* "No id collisions" (snowflake_id_util.h), with the cases in which two workers
\* do get the same id: two threads only if 2^5 or more workers were made from
\* one to the other, or g_thread_id wrapped; a thread and the static worker only
\* if there are more threads than the static worker's field says.  A program
\* whose data_center_id is at least its number of threads, both below 2^5, has
\* no collision, in whatever order its threads come.
Apart(a, b) == a - b >= SlotSpace \/ b - a >= SlotSpace
IdsUnique ==
    \A j, k \in DOMAIN log :
        LET e == log[j]
            f == log[k]
        IN  e.by # f.by /\ Id(e) = Id(f) =>
                IF Static \in {e.by, f.by}
                THEN made > Slot(number[Static])
                ELSE Apart(e.number, f.number) \/ made > NumberSpace
=============================================================================
