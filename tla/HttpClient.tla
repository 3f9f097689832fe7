------------------------------ MODULE HttpClient -----------------------------
(***************************************************************************)
(* The HTTP client: HttpClient with its manual reference count, the        *)
(* RabbitHttpClient callbacks that proxygen runs, and HttpClientSyncFetch, *)
(* which suspends the calling fiber in FiberDataInfo::Wait until the reply *)
(* posts its baton or two seconds have passed.  FiberDataManager keeps the *)
(* suspended fetches of the thread.                                        *)
(*                                                                         *)
(* One event-base thread runs everything; a fiber runs without interruption *)
(* between two waits, so each action is one such run or one callback.  The *)
(* caller of a synchronous fetch keeps the reply it was given (the weakest *)
(* assumption for a reply that comes too late).                            *)
(***************************************************************************)
EXTENDS Naturals, FiniteSets

CONSTANTS
    MaxFetches, \* bound: the calls made
    None,       \* no fetch
    IdSpace,    \* number of values of current_fiber_id_ (2^32 in the code)
    MaxQueue,   \* FIBER_MAX_QUEUE_SIZE
    FirstIds    \* where earlier fetches may have left current_fiber_id_

FiberIds == 0 .. IdSpace - 1
Fetches  == 1 .. MaxFetches   \* numbered in the order in which they are made

ASSUME FiberSpaceAssumption == IdSpace \in Nat \ {0, 1}
ASSUME MaxQueueAssumption   == MaxQueue \in Nat
ASSUME FirstIdsAssumption   == FirstIds \subseteq FiberIds
ASSUME NoFetchAssumption    == None \notin Fetches
\* A wait lasts two seconds at most, far less than 2^32 allocations take.
ASSUME FewFetchesAssumption == MaxFetches \in Nat /\ MaxFetches < IdSpace - 1

VARIABLES
    inited,         \* inited_ of the thread's FiberDataManager
    currentFiberId, \* current_fiber_id_
    datas,          \* datas_
    pc,             \* where the caller of each fetch is
    sync,           \* history: HttpClientSyncFetch, not HttpClientGet or Post
    fiberId,        \* low half of FiberDataInfo::fiber_id, 0 for none
    fiberState,     \* FiberDataInfo::state
    baton,          \* FiberDataInfo::baton
    refCount,       \* HttpClient::ref_count_
    object,         \* the HttpClient: not created, live or deleted
    conn,           \* its connection and transaction inside proxygen
    reply,          \* HttpClient::reply_
    result,         \* reply_data of the caller, or what its callback received
    calls           \* history: how often cb_ was called

fiberVars == <<inited, currentFiberId, datas, fiberId, fiberState, baton>>
hcVars == <<fiberVars, pc, sync, refCount, object, conn, reply, result, calls>>

Codes    == {"OK", "INVALID", "CONNECT_ERROR", "HTTP_ERROR", "NONE"}
Replies  == [code : Codes, headers : BOOLEAN, body : BOOLEAN]
Blank    == [code |-> "NONE", headers |-> FALSE, body |-> FALSE]
\* The values of FiberDataInfo::state that the build without USE_TIMEOUT_HANDLER sets.
FiberStates == {"kIdle", "kTimeout", "kPosted"}
Active   == {"connecting", "open", "replying", "failed"}

HcTypeOK ==
    /\ inited \in BOOLEAN
    /\ currentFiberId \in FiberIds
    /\ datas \in [FiberIds -> Fetches \cup {None}]
    /\ pc \in [Fetches -> {"new", "waiting", "done"}]
    /\ sync \in [Fetches -> BOOLEAN]
    /\ fiberId \in [Fetches -> FiberIds]
    /\ fiberState \in [Fetches -> FiberStates]
    /\ baton \in [Fetches -> {"empty", "posted", "timeout"}]
    /\ refCount \in [Fetches -> 0 .. 2]
    /\ object \in [Fetches -> {"none", "live", "deleted"}]
    /\ conn \in [Fetches -> Active \cup {"none", "gone"}]
    /\ reply \in [Fetches -> Replies]
    /\ result \in [Fetches -> Replies]
    /\ calls \in [Fetches -> Nat]

\* The thread has run before: any number of earlier fetches have come and gone.
HcInit ==
    /\ inited \in BOOLEAN
    /\ currentFiberId \in FirstIds
    /\ datas = [i \in FiberIds |-> None]
    /\ pc = [r \in Fetches |-> "new"]
    /\ sync = [r \in Fetches |-> FALSE]
    /\ fiberId = [r \in Fetches |-> 0]
    /\ fiberState = [r \in Fetches |-> "kIdle"]
    /\ baton = [r \in Fetches |-> "empty"]
    /\ refCount = [r \in Fetches |-> 0]
    /\ object = [r \in Fetches |-> "none"]
    /\ conn = [r \in Fetches |-> "none"]
    /\ reply = [r \in Fetches |-> Blank]
    /\ result = [r \in Fetches |-> Blank]
    /\ calls = [r \in Fetches |-> 0]

-----------------------------------------------------------------------------
(* FiberDataManager                                                         *)

QueueSize == Cardinality({i \in FiberIds : datas[i] # None})

\* ++current_fiber_id_, once more if it became 0.
NextFiberId(c) == IF (c + 1) % IdSpace = 0 THEN 1 ELSE (c + 1) % IdSpace

\* AllocFiberData enters r under id; insert leaves an entry that is there alone.
InsertFiberData(id, r) == datas' = [datas EXCEPT ![id] = IF @ = None THEN r ELSE @]

\* DeleteFiberData erases what is entered under id.
DeleteFiberData(id) == datas' = [datas EXCEPT ![id] = None]

\* The FiberDataInfo of r can still be locked through a weak_ptr: the fiber's
\* own stack or datas_ holds it.
FiberAlive(r) == pc[r] = "waiting" \/ \E i \in FiberIds : datas[i] = r

\* FiberDataInfo::Post(true); a baton that is already resolved stays so.
Post(r) ==
    /\ fiberState' = [fiberState EXCEPT ![r] = "kPosted"]
    /\ baton' = [baton EXCEPT ![r] = IF @ = "empty" THEN "posted" ELSE @]

-----------------------------------------------------------------------------
(* HttpClient                                                               *)

\* ReleaseRef: the last reference deletes the object.
ReleaseRef(r) ==
    /\ refCount' = [refCount EXCEPT ![r] = @ - 1]
    /\ object' = [object EXCEPT ![r] = IF refCount[r] = 1 THEN "deleted" ELSE @]

\* Fault: the weak_ptr to the fiber data is not consulted.
UnguardedCallback(r, a) ==
    /\ calls' = [calls EXCEPT ![r] = @ + 1]
    /\ result' = [result EXCEPT ![r] = a]
    /\ reply' = [reply EXCEPT ![r] = a]
    /\ Post(r)

\* Fault: r2->Move(reply) instead of reply.Move(*r2).
SwappedMoveCallback(r, a) ==
    /\ calls' = [calls EXCEPT ![r] = @ + 1]
    /\ reply' = [reply EXCEPT ![r] = result[r]]
    /\ UNCHANGED result
    /\ Post(r)

\* cb_(reply_) with reply a.  The callback of a synchronous fetch moves the
\* reply to the caller and wakes the fiber, if both are still there.
Callback(r, a) ==
    /\ calls' = [calls EXCEPT ![r] = @ + 1]
    /\ \/ /\ sync[r] /\ FiberAlive(r)
          /\ result' = [result EXCEPT ![r] = a]
          /\ reply' = [reply EXCEPT ![r] = [a EXCEPT !.headers = FALSE, !.body = FALSE]]
          /\ Post(r)
       \/ /\ sync[r] /\ ~FiberAlive(r)
          /\ reply' = [reply EXCEPT ![r] = a]
          /\ UNCHANGED <<result, fiberState, baton>>
       \/ /\ ~sync[r]
          /\ result' = [result EXCEPT ![r] = a]
          /\ reply' = [reply EXCEPT ![r] = a]
          /\ UNCHANGED <<fiberState, baton>>

\* r is the next call to be made.
IsNext(r) == pc[r] = "new" /\ \A s \in Fetches : pc[s] = "new" => r <= s

\* HttpClientGet and HttpClientPost with a url that does not parse or resolve:
\* Fetch calls back at once, and the caller's reference is the last.
FetchInvalid(r) ==
    /\ IsNext(r)
    /\ pc' = [pc EXCEPT ![r] = "done"]
    /\ reply' = [reply EXCEPT ![r].code = "INVALID"]
    /\ result' = [result EXCEPT ![r].code = "INVALID"]
    /\ calls' = [calls EXCEPT ![r] = @ + 1]
    /\ object' = [object EXCEPT ![r] = "deleted"]
    /\ UNCHANGED <<fiberVars, sync, refCount, conn>>

\* HttpClientGet and HttpClientPost: Fetch takes a reference for the
\* connection, the caller's own one is released when Fetch returns.
FetchAsync(r) ==
    /\ IsNext(r)
    /\ pc' = [pc EXCEPT ![r] = "done"]
    /\ object' = [object EXCEPT ![r] = "live"]
    /\ refCount' = [refCount EXCEPT ![r] = 1]
    /\ conn' = [conn EXCEPT ![r] = "connecting"]
    /\ UNCHANGED <<fiberVars, sync, reply, result, calls>>

-----------------------------------------------------------------------------
(* HttpClientSyncFetch                                                      *)

\* No initialised manager on this thread, or AllocFiberData returned null.
SyncRefused(r) ==
    /\ IsNext(r)
    /\ ~inited \/ QueueSize >= MaxQueue
    /\ pc' = [pc EXCEPT ![r] = "done"]
    /\ sync' = [sync EXCEPT ![r] = TRUE]
    /\ UNCHANGED <<fiberVars, refCount, object, conn, reply, result, calls>>

\* Fetch calls back with INVALID: no wait, and everything is released again.
SyncInvalid(r) ==
    /\ IsNext(r)
    /\ inited /\ QueueSize < MaxQueue
    /\ pc' = [pc EXCEPT ![r] = "done"]
    /\ sync' = [sync EXCEPT ![r] = TRUE]
    /\ currentFiberId' = NextFiberId(currentFiberId)
    /\ fiberId' = [fiberId EXCEPT ![r] = NextFiberId(currentFiberId)]
    /\ DeleteFiberData(NextFiberId(currentFiberId))
    /\ reply' = [reply EXCEPT ![r].code = "INVALID"]
    /\ result' = [result EXCEPT ![r].code = "INVALID"]
    /\ calls' = [calls EXCEPT ![r] = @ + 1]
    /\ object' = [object EXCEPT ![r] = "deleted"]
    /\ UNCHANGED <<inited, fiberState, baton, refCount, conn>>

\* Fault: AllocFiberData compares with > instead of <.
OverfullSyncFetch(r) ==
    /\ IsNext(r)
    /\ inited /\ QueueSize <= MaxQueue
    /\ pc' = [pc EXCEPT ![r] = "waiting"]
    /\ sync' = [sync EXCEPT ![r] = TRUE]
    /\ currentFiberId' = NextFiberId(currentFiberId)
    /\ fiberId' = [fiberId EXCEPT ![r] = NextFiberId(currentFiberId)]
    /\ InsertFiberData(NextFiberId(currentFiberId), r)
    /\ object' = [object EXCEPT ![r] = "live"]
    /\ refCount' = [refCount EXCEPT ![r] = 2]
    /\ conn' = [conn EXCEPT ![r] = "connecting"]
    /\ UNCHANGED <<inited, fiberState, baton, reply, result, calls>>

\* The connection is started and the fiber waits.  An attempt that fails inside
\* connect() has its OnConnectError as the next step: the baton is then posted
\* before the wait, which ends at once.
SyncFetch(r) ==
    /\ IsNext(r)
    /\ inited /\ QueueSize < MaxQueue
    /\ pc' = [pc EXCEPT ![r] = "waiting"]
    /\ sync' = [sync EXCEPT ![r] = TRUE]
    /\ currentFiberId' = NextFiberId(currentFiberId)
    /\ fiberId' = [fiberId EXCEPT ![r] = NextFiberId(currentFiberId)]
    /\ InsertFiberData(NextFiberId(currentFiberId), r)
    /\ object' = [object EXCEPT ![r] = "live"]
    /\ refCount' = [refCount EXCEPT ![r] = 2]
    /\ conn' = [conn EXCEPT ![r] = "connecting"]
    /\ UNCHANGED <<inited, fiberState, baton, reply, result, calls>>

\* FIBER_HTTP_TIMEOUT seconds have passed: timed_wait resolves the baton.
WaitTimeout(r) ==
    /\ pc[r] = "waiting"
    /\ baton[r] = "empty"
    /\ baton' = [baton EXCEPT ![r] = "timeout"]
    /\ UNCHANGED <<inited, currentFiberId, datas, fiberId, fiberState, pc, sync,
                   refCount, object, conn, reply, result, calls>>

\* Fault: the fiber goes on waiting after a timeout.
DeafResume(r) ==
    /\ baton[r] = "posted"
    /\ pc[r] = "waiting"
    /\ DeleteFiberData(fiberId[r])
    /\ pc' = [pc EXCEPT ![r] = "done"]
    /\ ReleaseRef(r)
    /\ UNCHANGED <<inited, currentFiberId, fiberId, fiberState, baton, sync, conn, reply,
                   result, calls>>

\* Wait returns on the fiber: a timeout is noted, DeleteFiberData removes the
\* entry, the client is released and the reply goes to the caller.
Resume(r) ==
    /\ pc[r] = "waiting"
    /\ baton[r] # "empty"
    /\ fiberState' = [fiberState EXCEPT ![r] = IF baton[r] = "timeout" THEN "kTimeout" ELSE @]
    /\ DeleteFiberData(fiberId[r])
    /\ pc' = [pc EXCEPT ![r] = "done"]
    /\ ReleaseRef(r)
    /\ UNCHANGED <<inited, currentFiberId, fiberId, baton, sync, conn, reply, result, calls>>

-----------------------------------------------------------------------------
(* Callbacks of proxygen                                                    *)

\* connectSuccess: the request is sent on a new transaction.
ConnectSuccess(r) ==
    /\ conn[r] = "connecting"
    /\ conn' = [conn EXCEPT ![r] = "open"]
    /\ UNCHANGED <<fiberVars, pc, sync, refCount, object, reply, result, calls>>

\* Fault: OnConnectError forgets ReleaseRef.
UnreleasedConnectError(r) ==
    /\ conn[r] = "connecting"
    /\ conn' = [conn EXCEPT ![r] = "gone"]
    /\ Callback(r, [reply[r] EXCEPT !.code = "CONNECT_ERROR"])
    /\ UNCHANGED <<inited, currentFiberId, datas, fiberId, pc, sync, refCount, object>>

\* connectError -> OnConnectError.
OnConnectError(r) ==
    /\ conn[r] = "connecting"
    /\ conn' = [conn EXCEPT ![r] = "gone"]
    /\ Callback(r, [reply[r] EXCEPT !.code = "CONNECT_ERROR"])
    /\ ReleaseRef(r)
    /\ UNCHANGED <<inited, currentFiberId, datas, fiberId, pc, sync>>

\* onHeadersComplete -> OnHeadersComplete.
OnHeadersComplete(r) ==
    /\ conn[r] = "open"
    /\ conn' = [conn EXCEPT ![r] = "replying"]
    /\ reply' = [reply EXCEPT ![r].headers = TRUE]
    /\ UNCHANGED <<fiberVars, pc, sync, refCount, object, result, calls>>

\* Fault: the commented-out lines of OnError, which call back and release as
\* well; the transaction is detached all the same afterwards.
ReleasingOnError(r) ==
    /\ conn[r] \in {"open", "replying"}
    /\ conn' = [conn EXCEPT ![r] = "failed"]
    /\ Callback(r, [reply[r] EXCEPT !.code = "HTTP_ERROR"])
    /\ ReleaseRef(r)
    /\ UNCHANGED <<inited, currentFiberId, datas, fiberId, pc, sync>>

\* onError -> OnError: only the code is noted.
OnError(r) ==
    /\ conn[r] \in {"open", "replying"}
    /\ conn' = [conn EXCEPT ![r] = "failed"]
    /\ reply' = [reply EXCEPT ![r].code = "HTTP_ERROR"]
    /\ UNCHANGED <<fiberVars, pc, sync, refCount, object, result, calls>>

\* Fault: the code is set to OK whatever OnError has noted.
OverwritingBodyComplete(r) ==
    /\ conn[r] \in {"replying", "failed"}
    /\ conn' = [conn EXCEPT ![r] = "gone"]
    /\ Callback(r, [reply[r] EXCEPT !.code = "OK", !.body = TRUE])
    /\ ReleaseRef(r)
    /\ UNCHANGED <<inited, currentFiberId, datas, fiberId, pc, sync>>

\* detachTransaction -> OnBodyComplete, after the whole reply or an error.
OnBodyComplete(r) ==
    /\ conn[r] \in {"replying", "failed"}
    /\ conn' = [conn EXCEPT ![r] = "gone"]
    /\ Callback(r, IF reply[r].code = "NONE"
                   THEN [reply[r] EXCEPT !.code = "OK", !.body = TRUE]
                   ELSE reply[r])
    /\ ReleaseRef(r)
    /\ UNCHANGED <<inited, currentFiberId, datas, fiberId, pc, sync>>

-----------------------------------------------------------------------------
Network(r) ==
    \/ ConnectSuccess(r)
    \/ OnConnectError(r)
    \/ OnHeadersComplete(r)
    \/ OnError(r)
    \/ OnBodyComplete(r)

HcNext ==
    \E r \in Fetches :
        \/ FetchInvalid(r) \/ FetchAsync(r)
        \/ SyncRefused(r) \/ SyncInvalid(r) \/ SyncFetch(r)
        \/ WaitTimeout(r) \/ Resume(r)
        \/ Network(r)

HcSpec == HcInit /\ [][HcNext]_hcVars

-----------------------------------------------------------------------------
(* Properties                                                               *)

\* The reference count is the number of parties that will still use the
\* client, the suspended fetch and the connection, and the object is deleted
\* exactly when there is none left: no use after delete, no second delete, no
\* leak, in every order of reply, error and timeout.
RefCountExact ==
    \A r \in Fetches :
        /\ refCount[r] = (IF pc[r] = "waiting" THEN 1 ELSE 0)
                       + (IF conn[r] \in Active THEN 1 ELSE 0)
        /\ object[r] = "live" <=> refCount[r] > 0

\* datas_ holds exactly the suspended fetches, each under its own id, never
\* under the reserved 0, and never more than the queue limit.
FiberDataExact ==
    /\ \A i \in FiberIds, r \in Fetches :
          datas[i] = r <=> pc[r] = "waiting" /\ fiberId[r] = i
    /\ datas[0] = None
    /\ QueueSize <= MaxQueue

\* A synchronous fetch that returns NONE has waited for the whole timeout, or
\* was refused before it started: a reply that arrives before the fiber runs
\* again is never lost, also when the timeout resolved the baton first.
NoneOnlyAfterTimeout ==
    \A r \in Fetches :
        sync[r] /\ pc[r] = "done" /\ result[r].code = "NONE" =>
            \/ fiberId[r] = 0
            \/ fiberState[r] = "kTimeout" /\ baton[r] = "timeout"

\* What the caller may rely on: an OK reply is whole and no other has a body.
\* Headers come with an OK reply only; the case of a transaction that fails after
\* its headers came is left to SetOnlyIfOK.
ReplyWhole ==
    \A r \in Fetches :
        LET a == result[r]
        IN  /\ a.body <=> a.code = "OK"
            /\ a.code # "HTTP_ERROR" => (a.headers <=> a.code = "OK")

\* The comment on HttpClientReplyData::result (http_client.h:20): headers and
\* body are set only when the result is 0, which is OK.
SetOnlyIfOK ==
    \A r \in Fetches : result[r].headers \/ result[r].body => result[r].code = "OK"

\* The reply that a synchronous fetch returned does not change afterwards,
\* although the connection may still be open and call back late.
ReturnedIsFinal ==
    [][\A r \in Fetches :
          sync[r] /\ pc[r] = "done" => result'[r] = result[r] /\ pc'[r] = "done"]_hcVars

\* Every client calls back once when its connection or transaction is over,
\* never twice: OnError leaves the call to detachTransaction.
CallsBackOnce ==
    \A r \in Fetches :
        calls[r] = IF conn[r] = "gone" \/ result[r].code = "INVALID" THEN 1 ELSE 0

\* A suspended fetch returns, whatever the server does.
FetchReturns == \A r \in Fetches : pc[r] = "waiting" ~> pc[r] = "done"
=============================================================================
