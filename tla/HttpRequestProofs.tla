-------------------------- MODULE HttpRequestProofs --------------------------
(***************************************************************************)
(* Proofs about HttpClient and HttpRequest, for any number of requests and *)
(* fetches, any queue limit and any size of the fiber id space.            *)
(*                                                                         *)
(* None of the properties is inductive.  The reference count needs the     *)
(* state of the connection, what a callback delivers needs what came of    *)
(* the reply before it, and an id is free in datas_ only because fewer ids *)
(* than there are were given out since it was taken (IdInv).  HcInv is     *)
(* kept by every step of the client, ChainInv and OwnerInv by every step   *)
(* of the server, which is a step of the client or leaves it alone.        *)
(***************************************************************************)
EXTENDS HttpRequest, FiniteSetTheorems, TLAPS

USE FiberSpaceAssumption, MaxQueueAssumption, FirstIdsAssumption, NoFetchAssumption,
    FewFetchesAssumption, NoRequestAssumption
USE DEF FiberStates

-----------------------------------------------------------------------------
(* What holds of one fetch                                                  *)

\* A call that has not been made has left no trace.
NewInv(r) ==
    pc[r] = "new" =>
        /\ ~sync[r] /\ fiberId[r] = 0 /\ baton[r] = "empty" /\ conn[r] = "none"
        /\ reply[r].code = "NONE" /\ ~reply[r].headers /\ ~reply[r].body
        /\ result[r].code = "NONE" /\ ~result[r].headers /\ ~result[r].body

\* The reference count counts the suspended caller and the connection.
RefInv(r) ==
    /\ refCount[r] = (IF pc[r] = "waiting" THEN 1 ELSE 0)
                   + (IF conn[r] \in Active THEN 1 ELSE 0)
    /\ object[r] = "live" <=> refCount[r] > 0

\* What has come of the reply, by the state of the connection.
ReplyInv(r) ==
    /\ conn[r] \in {"connecting", "open"} =>
          reply[r].code = "NONE" /\ ~reply[r].headers /\ ~reply[r].body
    /\ conn[r] = "replying" =>
          reply[r].code = "NONE" /\ reply[r].headers /\ ~reply[r].body
    /\ conn[r] = "failed" => reply[r].code = "HTTP_ERROR" /\ ~reply[r].body

\* What the caller has got, and how often it was called back.
ResultInv(r) ==
    /\ result[r].body <=> result[r].code = "OK"
    /\ result[r].code = "OK" => result[r].headers
    /\ result[r].headers => result[r].code \in {"OK", "HTTP_ERROR"}
    /\ conn[r] \in Active => result[r].code = "NONE" /\ calls[r] = 0
    /\ conn[r] = "none" => calls[r] = IF result[r].code = "INVALID" THEN 1 ELSE 0
    /\ conn[r] = "gone" => calls[r] = 1

\* A posted baton means a reply; without one the wait ended by the timeout.
WaitInv(r) ==
    /\ pc[r] = "waiting" => sync[r] /\ fiberId[r] # 0
    /\ pc[r] = "waiting" /\ baton[r] = "posted" => result[r].code # "NONE"
    /\ sync[r] /\ pc[r] = "done" /\ result[r].code = "NONE" =>
          fiberId[r] = 0 \/ (fiberState[r] = "kTimeout" /\ baton[r] = "timeout")

FetchInv(r) == NewInv(r) /\ RefInv(r) /\ ReplyInv(r) /\ ResultInv(r) /\ WaitInv(r)

-----------------------------------------------------------------------------
(* What holds of the fiber ids                                              *)

\* How many ids were given out after x when c is the last.
Since(x, c) == IF c >= x THEN c - x ELSE c + (IdSpace - 1) - x

\* Fetches are made in order, each takes at most one id, so the id of r is no
\* older than the fetches made since.
IdInv ==
    /\ \A r, s \in Fetches : pc[s] = "new" /\ pc[r] # "new" => r < s
    /\ \A r \in Fetches : fiberId[r] # 0 => currentFiberId # 0
    /\ \A r, s \in Fetches :
          pc[s] = "new" /\ fiberId[r] # 0 => Since(fiberId[r], currentFiberId) + r < s

HcInv == HcTypeOK /\ (\A r \in Fetches : FetchInv(r)) /\ IdInv /\ FiberDataExact

-----------------------------------------------------------------------------
(* What holds of requests                                                   *)

\* A suspended fiber waits in a fetch of its own, which has saved its chain.
ChainInv ==
    /\ \A q \in Requests : fiber[q] = "running" => chain = q /\ blockedBy = None
    /\ \A q \in Requests : fiber[q] = "suspended" =>
          /\ fetchOf[q] \in Fetches
          /\ pc[fetchOf[q]] = "waiting"
          /\ chainBack[fetchOf[q]] = q
          /\ fetchOf[q] # blockedBy
    /\ blockedBy # None => pc[blockedBy] = "waiting"

\* From onEOM to requestComplete or onError the handler owns itself; after that
\* it is gone.
OwnerInv ==
    \A q \in Requests :
        /\ fiber[q] # "finished" => sends[q] = 0
        /\ fiber[q] # "none" =>
              /\ txn[q] \in {"received", "complete", "failed"}
              /\ txn[q] = "received" => self[q]
              /\ txn[q] # "received" => handler[q] = "deleted"

IInv == HrTypeOK /\ HcInv /\ ChainInv /\ OwnerInv

-----------------------------------------------------------------------------
(* Fiber ids                                                                *)

\* The counter skips 0.
LEMMA NextFiberIdCases ==
    ASSUME NEW c \in FiberIds
    PROVE  /\ c + 1 < IdSpace => NextFiberId(c) = c + 1
           /\ c + 1 = IdSpace => NextFiberId(c) = 1
           /\ NextFiberId(c) \in FiberIds \ {0}
  <1>1. c \in Nat /\ c + 1 <= IdSpace /\ IdSpace > 1
    BY DEF FiberIds
  <1>2. c + 1 < IdSpace => (c + 1) % IdSpace = c + 1
    BY <1>1
  <1>3. c + 1 = IdSpace => (c + 1) % IdSpace = 0
    BY <1>1
  <1> QED
    BY <1>1, <1>2, <1>3 DEF NextFiberId, FiberIds

\* One more id was given out since x, unless the counter is back at x.
LEMMA SinceNext ==
    ASSUME NEW c \in FiberIds \ {0}, NEW x \in FiberIds \ {0}
    PROVE  /\ Since(x, c) \in Nat
           /\ Since(x, NextFiberId(c)) <= Since(x, c) + 1
           /\ NextFiberId(c) = x => Since(x, c) = IdSpace - 2
           /\ Since(x, x) = 0
  <1>1. /\ c + 1 < IdSpace => NextFiberId(c) = c + 1
        /\ c + 1 = IdSpace => NextFiberId(c) = 1
    BY NextFiberIdCases
  <1>2. /\ c \in Nat /\ c > 0 /\ c < IdSpace
        /\ x \in Nat /\ x > 0 /\ x < IdSpace
        /\ c + 1 < IdSpace \/ c + 1 = IdSpace
    BY DEF FiberIds
  <1>3. CASE c + 1 < IdSpace
    BY <1>1, <1>2, <1>3 DEF Since
  <1>4. CASE c + 1 = IdSpace
    BY <1>1, <1>2, <1>4 DEF Since
  <1> QED
    BY <1>2, <1>3, <1>4

\* A step that makes no call and gives out no id.
LEMMA IdStutter ==
    ASSUME IdInv, UNCHANGED <<fiberId, currentFiberId>>,
           \A s \in Fetches : pc'[s] = "new" <=> pc[s] = "new"
    PROVE  IdInv'
  BY DEF IdInv, Since

\* A call that takes no id.
LEMMA IdCall ==
    ASSUME IdInv, NEW r \in Fetches, IsNext(r), UNCHANGED <<fiberId, currentFiberId>>,
           pc'[r] # "new", \A s \in Fetches \ {r} : pc'[s] = pc[s]
    PROVE  IdInv'
  <1>1. \A s \in Fetches : pc[s] = "new" => r <= s
    BY DEF IsNext
  <1>2. \A p, s \in Fetches : pc'[s] = "new" /\ pc'[p] # "new" => p < s
    BY <1>1 DEF IdInv, Fetches
  <1>3. \A p, s \in Fetches :
           pc'[s] = "new" /\ fiberId[p] # 0 => Since(fiberId[p], currentFiberId) + p < s
    BY DEF IdInv
  <1> QED
    BY <1>2, <1>3 DEF IdInv, Since

\* AllocFiberData for call r: nobody has the new id.
LEMMA IdAlloc ==
    ASSUME HcTypeOK, IdInv, NEW r \in Fetches, IsNext(r),
           currentFiberId' = NextFiberId(currentFiberId),
           fiberId' = [fiberId EXCEPT ![r] = NextFiberId(currentFiberId)],
           pc'[r] # "new", \A s \in Fetches \ {r} : pc'[s] = pc[s]
    PROVE  /\ IdInv'
           /\ NextFiberId(currentFiberId) \in FiberIds \ {0}
           /\ \A s \in Fetches : fiberId[s] # NextFiberId(currentFiberId)
  <1> DEFINE id == NextFiberId(currentFiberId)
  <1>1. /\ currentFiberId \in FiberIds /\ fiberId \in [Fetches -> FiberIds]
        /\ 0 \in FiberIds
    BY DEF HcTypeOK, FiberIds
  <1>2. id \in FiberIds \ {0}
    BY <1>1, NextFiberIdCases
  <1>3. /\ \A s \in Fetches : pc[s] = "new" => r <= s
        /\ pc[r] = "new"
    BY DEF IsNext
  <1>4. \A p \in Fetches : p \in Nat /\ p > 0 /\ p < IdSpace - 1
    BY DEF Fetches
  <1>5. ASSUME NEW p \in Fetches, fiberId[p] # 0
        PROVE  /\ currentFiberId \in FiberIds \ {0} /\ fiberId[p] \in FiberIds \ {0}
               /\ Since(fiberId[p], currentFiberId) \in Nat
               /\ Since(fiberId[p], currentFiberId) + p < r
               /\ Since(fiberId[p], id) <= Since(fiberId[p], currentFiberId) + 1
               /\ id = fiberId[p] => Since(fiberId[p], currentFiberId) = IdSpace - 2
    <2>1. currentFiberId \in FiberIds \ {0} /\ fiberId[p] \in FiberIds \ {0}
      BY <1>1, <1>5 DEF IdInv
    <2>2. Since(fiberId[p], currentFiberId) + p < r
      BY <1>3, <1>5 DEF IdInv
    <2> QED
      BY <2>1, <2>2, SinceNext
  <1>6. ASSUME NEW p \in Fetches PROVE fiberId[p] # id
    <2>1. CASE fiberId[p] = 0
      BY <1>2, <2>1
    <2>2. CASE fiberId[p] # 0
      BY <1>4, <1>5, <2>2
    <2> QED
      BY <2>1, <2>2
  <1>7. \A p, s \in Fetches : pc'[s] = "new" /\ pc'[p] # "new" => p < s
    BY <1>3, <1>4 DEF IdInv
  <1>8. ASSUME NEW p \in Fetches, NEW s \in Fetches, pc'[s] = "new", fiberId'[p] # 0
        PROVE  Since(fiberId'[p], id) + p < s
    <2>1. s # r /\ pc[s] = "new" /\ r < s
      BY <1>3, <1>4, <1>8
    <2>2. CASE p = r
      <3>1. fiberId'[p] = id /\ Since(id, id) = 0
        BY <1>1, <1>2, <2>2, SinceNext
      <3> QED
        BY <1>4, <2>1, <2>2, <3>1
    <2>3. CASE p # r
      <3>1. fiberId'[p] = fiberId[p] /\ fiberId[p] # 0
        BY <1>1, <1>8, <2>3
      <3>2. Since(fiberId[p], id) \in Nat
        BY <1>2, <1>5, <3>1, SinceNext
      <3> QED
        BY <1>4, <1>5, <2>1, <3>1, <3>2
    <2> QED
      BY <2>2, <2>3
  <1>9. \A p \in Fetches : fiberId'[p] # 0 => currentFiberId' # 0
    BY <1>2
  <1>10. \A p, s \in Fetches : pc'[s] = "new" /\ fiberId'[p] # 0 => Since(fiberId'[p], id) + p < s
    BY <1>8
  <1>11. IdInv'
    <2> HIDE DEF id
    <2>1. currentFiberId' = id
      BY DEF id
    <2>2. \A p \in Fetches : Since(fiberId[p], currentFiberId)' = Since(fiberId'[p], id)
      BY <2>1 DEF Since
    <2> QED
      BY <1>7, <1>9, <1>10, <2>2 DEF IdInv
  <1> QED
    BY <1>2, <1>6, <1>11

\* datas_ is left alone and so are the suspended fetches.
LEMMA DatasStutter ==
    ASSUME FiberDataExact, UNCHANGED datas,
           \A s \in Fetches :
              /\ pc'[s] = "waiting" <=> pc[s] = "waiting"
              /\ pc[s] = "waiting" => fiberId'[s] = fiberId[s]
    PROVE  FiberDataExact'
  <1>1. QueueSize' = QueueSize
    BY DEF QueueSize
  <1> QED
    BY <1>1 DEF FiberDataExact

\* The ids in datas_ are finitely many.
LEMMA UsedFinite ==
    /\ IsFiniteSet({i \in FiberIds : datas[i] # None})
    /\ IsFiniteSet({i \in FiberIds : datas'[i] # None})
  <1>1. IsFiniteSet(FiberIds)
    BY FS_Interval DEF FiberIds
  <1>2. /\ {i \in FiberIds : datas[i] # None} \subseteq FiberIds
        /\ {i \in FiberIds : datas'[i] # None} \subseteq FiberIds
    OBVIOUS
  <1> QED
    BY <1>1, <1>2, FS_Subset

\* An id that no fetch has is not in datas_.
LEMMA IdFree ==
    ASSUME HcTypeOK, FiberDataExact, NEW id \in FiberIds, \A s \in Fetches : fiberId[s] # id
    PROVE  datas[id] = None
  BY DEF HcTypeOK, FiberDataExact

\* AllocFiberData and the suspension of r.
LEMMA DatasInsert ==
    ASSUME HcTypeOK, FiberDataExact, NEW r \in Fetches, NEW id \in FiberIds \ {0},
           QueueSize < MaxQueue, pc[r] = "new",
           \A s \in Fetches : fiberId[s] # id,
           InsertFiberData(id, r),
           fiberId' = [fiberId EXCEPT ![r] = id],
           pc' = [pc EXCEPT ![r] = "waiting"]
    PROVE  FiberDataExact'
  <1>1. datas \in [FiberIds -> Fetches \cup {None}] /\ fiberId \in [Fetches -> FiberIds]
    BY DEF HcTypeOK
  <1>2. datas[id] = None
    BY IdFree
  <1>a. datas' = [datas EXCEPT ![id] = r]
    BY <1>1, <1>2 DEF InsertFiberData
  <1>3. ASSUME NEW i \in FiberIds, NEW s \in Fetches
        PROVE  datas'[i] = s <=> pc'[s] = "waiting" /\ fiberId'[s] = i
    <2>1. CASE s = r
      <3>1. pc'[s] = "waiting" /\ fiberId'[s] = id
        BY <1>1, <2>1 DEF HcTypeOK
      <3>2. i # id => datas'[i] # r
        BY <1>1, <1>a DEF FiberDataExact
      <3> QED
        BY <1>1, <1>a, <2>1, <3>1, <3>2
    <2>2. CASE s # r
      <3>1. pc'[s] = pc[s] /\ fiberId'[s] = fiberId[s] /\ fiberId[s] # id
        BY <1>1, <2>2 DEF HcTypeOK
      <3>2. CASE i = id
        BY <1>1, <1>a, <2>2, <3>1, <3>2
      <3>3. CASE i # id
        BY <1>1, <1>a, <3>1, <3>3 DEF FiberDataExact
      <3> QED
        BY <3>2, <3>3
    <2> QED
      BY <2>1, <2>2
  <1>4. datas'[0] = None
    BY <1>1, <1>a DEF FiberDataExact, FiberIds
  <1>5. QueueSize' <= MaxQueue
    <2> DEFINE U == {i \in FiberIds : datas[i] # None}
    <2>1. {i \in FiberIds : datas'[i] # None} = U \cup {id}
      BY <1>1, <1>a
    <2>2. IsFiniteSet(U) /\ id \notin U
      BY <1>2, UsedFinite
    <2> HIDE DEF U
    <2>3. Cardinality(U \cup {id}) = Cardinality(U) + 1 /\ Cardinality(U) \in Nat
      BY <2>2, FS_AddElement, FS_CardinalityType
    <2>4. QueueSize = Cardinality(U) /\ QueueSize' = Cardinality(U \cup {id})
      BY <2>1 DEF QueueSize, U
    <2> QED
      BY <2>3, <2>4
  <1> QED
    BY <1>3, <1>4, <1>5 DEF FiberDataExact

\* DeleteFiberData of r, which returns.
LEMMA DatasDelete ==
    ASSUME HcTypeOK, FiberDataExact, NEW r \in Fetches, pc[r] = "waiting",
           DeleteFiberData(fiberId[r]), UNCHANGED fiberId,
           pc' = [pc EXCEPT ![r] = "done"]
    PROVE  FiberDataExact'
  <1>1. datas \in [FiberIds -> Fetches \cup {None}] /\ fiberId[r] \in FiberIds
    BY DEF HcTypeOK
  <1>2. datas' = [datas EXCEPT ![fiberId[r]] = None]
    BY DEF DeleteFiberData
  <1>3. datas[fiberId[r]] = r
    BY <1>1 DEF FiberDataExact
  <1>4. ASSUME NEW i \in FiberIds, NEW s \in Fetches
        PROVE  datas'[i] = s <=> pc'[s] = "waiting" /\ fiberId'[s] = i
    <2>1. CASE s = r
      <3>1. pc'[s] = "done"
        BY <2>1 DEF HcTypeOK
      <3>2. datas'[i] # r
        BY <1>1, <1>2 DEF FiberDataExact
      <3> QED
        BY <2>1, <3>1, <3>2
    <2>2. CASE s # r
      <3>1. pc'[s] = pc[s] /\ fiberId'[s] = fiberId[s]
        BY <2>2 DEF HcTypeOK
      <3> QED
        BY <1>1, <1>2, <1>3, <2>2, <3>1 DEF FiberDataExact
    <2> QED
      BY <2>1, <2>2
  <1>5. datas'[0] = None
    BY <1>1, <1>2 DEF FiberDataExact, FiberIds
  <1>6. QueueSize' <= MaxQueue
    <2> DEFINE U == {i \in FiberIds : datas[i] # None}
               V == {i \in FiberIds : datas'[i] # None}
    <2>1. V \subseteq U
      BY <1>1, <1>2
    <2>2. IsFiniteSet(U) /\ IsFiniteSet(V)
      BY UsedFinite
    <2>3. Cardinality(V) <= Cardinality(U) /\ Cardinality(U) \in Nat /\ Cardinality(V) \in Nat
      <3> HIDE DEF U, V
      <3> QED
        BY <2>1, <2>2, FS_Subset, FS_CardinalityType
    <2> QED
      BY <2>3 DEF FiberDataExact, QueueSize
  <1> QED
    BY <1>4, <1>5, <1>6 DEF FiberDataExact

-----------------------------------------------------------------------------
(* Steps of a fetch                                                         *)

\* What the steps of other fetches leave alone.
Same(s) ==
    /\ pc'[s] = pc[s] /\ sync'[s] = sync[s] /\ fiberId'[s] = fiberId[s]
    /\ fiberState'[s] = fiberState[s] /\ baton'[s] = baton[s]
    /\ refCount'[s] = refCount[s] /\ object'[s] = object[s] /\ conn'[s] = conn[s]
    /\ reply'[s] = reply[s] /\ result'[s] = result[s] /\ calls'[s] = calls[s]

\* A fetch that a step leaves alone keeps what holds of it.
LEMMA SameFetch ==
    ASSUME NEW s \in Fetches, FetchInv(s), Same(s)
    PROVE  FetchInv(s)'
  <1> USE DEF FetchInv, Same
  <1>1. NewInv(s)'
    BY DEF NewInv
  <1>2. RefInv(s)'
    BY DEF RefInv
  <1>3. ReplyInv(s)' /\ ResultInv(s)'
    BY DEF ReplyInv, ResultInv
  <1>4. WaitInv(s)'
    BY DEF WaitInv
  <1> QED
    BY <1>1, <1>2, <1>3, <1>4

\* A url that does not parse, called asynchronously.
LEMMA FetchInvalidStep ==
    ASSUME HcInv, NEW r \in Fetches, FetchInvalid(r)
    PROVE  HcInv'
  <1> USE DEF HcInv
  <1>1. NewInv(r) /\ RefInv(r) /\ ResultInv(r) /\ pc[r] = "new" /\ IsNext(r)
    BY DEF FetchInv, FetchInvalid, IsNext
  <1>2. /\ pc' = [pc EXCEPT ![r] = "done"]
        /\ object' = [object EXCEPT ![r] = "deleted"]
        /\ calls' = [calls EXCEPT ![r] = calls[r] + 1]
        /\ UNCHANGED <<fiberVars, sync, refCount, conn>>
    BY DEF FetchInvalid
  <1>3. /\ reply' = [reply EXCEPT ![r] = [reply[r] EXCEPT !.code = "INVALID"]]
        /\ result' = [result EXCEPT ![r] = [result[r] EXCEPT !.code = "INVALID"]]
    BY DEF FetchInvalid
  <1>4. reply[r] \in Replies /\ result[r] \in Replies
    BY DEF HcTypeOK
  <1> DEFINE a == [reply[r] EXCEPT !.code = "INVALID"]
             b == [result[r] EXCEPT !.code = "INVALID"]
  <1>5. a \in Replies /\ b \in Replies
    BY <1>4 DEF Replies, Codes
  <1>6. /\ b.code = "INVALID" /\ b.headers = result[r].headers /\ b.body = result[r].body
    BY <1>4 DEF Replies
  <1> HIDE DEF a, b
  <1>7. reply' = [reply EXCEPT ![r] = a] /\ result' = [result EXCEPT ![r] = b]
    BY <1>3 DEF a, b
  <1>8. HcTypeOK'
    BY <1>2, <1>5, <1>7 DEF HcTypeOK, fiberVars
  <1>9. ASSUME NEW s \in Fetches PROVE FetchInv(s)'
    <2>1. CASE s # r
      BY <1>2, <1>7, <2>1, SameFetch DEF Same, HcTypeOK, fiberVars
    <2>2. CASE s = r
      <3>1. /\ result'[r] = b /\ conn'[r] = conn[r] /\ calls'[r] = calls[r] + 1
            /\ pc'[r] = "done" /\ object'[r] = "deleted" /\ refCount'[r] = refCount[r]
        BY <1>2, <1>7 DEF HcTypeOK
      <3>2. NewInv(r)' /\ ReplyInv(r)' /\ WaitInv(r)'
        BY <1>1, <1>6, <3>1 DEF NewInv, ReplyInv, WaitInv
      <3>3. RefInv(r)'
        BY <1>1, <3>1 DEF RefInv, NewInv, Active
      <3>4. ResultInv(r)'
        BY <1>1, <1>6, <3>1 DEF ResultInv, NewInv, Active
      <3> QED
        BY <2>2, <3>2, <3>3, <3>4 DEF FetchInv
    <2> QED
      BY <2>1, <2>2
  <1>10. IdInv'
    BY <1>1, <1>2, IdCall DEF HcTypeOK, fiberVars
  <1>11. FiberDataExact'
    BY <1>1, <1>2, DatasStutter DEF HcTypeOK, fiberVars
  <1> QED
    BY <1>8, <1>9, <1>10, <1>11

\* HttpClientGet and HttpClientPost: the connection holds the only reference.
LEMMA FetchAsyncStep ==
    ASSUME HcInv, NEW r \in Fetches, FetchAsync(r)
    PROVE  HcInv'
  <1> USE DEF HcInv
  <1>1. NewInv(r) /\ RefInv(r) /\ ResultInv(r) /\ pc[r] = "new" /\ IsNext(r)
    BY DEF FetchInv, FetchAsync, IsNext
  <1>2. /\ pc' = [pc EXCEPT ![r] = "done"]
        /\ object' = [object EXCEPT ![r] = "live"]
        /\ refCount' = [refCount EXCEPT ![r] = 1]
        /\ conn' = [conn EXCEPT ![r] = "connecting"]
        /\ UNCHANGED <<fiberVars, sync, reply, result, calls>>
    BY DEF FetchAsync
  <1>3. HcTypeOK'
    BY <1>2 DEF HcTypeOK, fiberVars, Active
  <1>4. ASSUME NEW s \in Fetches PROVE FetchInv(s)'
    <2>1. CASE s # r
      BY <1>2, <2>1, SameFetch DEF Same, HcTypeOK, fiberVars
    <2>2. CASE s = r
      <3>1. /\ conn'[r] = "connecting" /\ pc'[r] = "done" /\ object'[r] = "live"
            /\ refCount'[r] = 1
        BY <1>2 DEF HcTypeOK
      <3>2. NewInv(r)' /\ ReplyInv(r)' /\ WaitInv(r)'
        BY <1>1, <1>2, <3>1 DEF NewInv, ReplyInv, WaitInv
      <3>3. RefInv(r)'
        BY <3>1 DEF RefInv, Active
      <3>4. ResultInv(r)'
        BY <1>1, <1>2, <3>1 DEF ResultInv, NewInv, Active
      <3> QED
        BY <2>2, <3>2, <3>3, <3>4 DEF FetchInv
    <2> QED
      BY <2>1, <2>2
  <1>5. IdInv'
    BY <1>1, <1>2, IdCall DEF HcTypeOK, fiberVars
  <1>6. FiberDataExact'
    BY <1>1, <1>2, DatasStutter DEF HcTypeOK, fiberVars
  <1> QED
    BY <1>3, <1>4, <1>5, <1>6

\* A synchronous fetch that AllocFiberData refuses has no id.
LEMMA SyncRefusedStep ==
    ASSUME HcInv, NEW r \in Fetches, SyncRefused(r)
    PROVE  HcInv'
  <1> USE DEF HcInv
  <1>1. FetchInv(r) /\ NewInv(r) /\ pc[r] = "new" /\ IsNext(r)
    BY DEF FetchInv, SyncRefused, IsNext
  <1>2. /\ pc' = [pc EXCEPT ![r] = "done"]
        /\ sync' = [sync EXCEPT ![r] = TRUE]
        /\ UNCHANGED <<fiberVars, refCount, object, conn, reply, result, calls>>
    BY DEF SyncRefused
  <1>3. HcTypeOK'
    BY <1>2 DEF HcTypeOK, fiberVars
  <1>4. ASSUME NEW s \in Fetches PROVE FetchInv(s)'
    <2>1. CASE s # r
      BY <1>2, <2>1, SameFetch DEF Same, HcTypeOK, fiberVars
    <2>2. CASE s = r
      <3>1. pc'[r] = "done" /\ fiberId'[r] = 0
        BY <1>1, <1>2 DEF HcTypeOK, NewInv, fiberVars
      <3>2. NewInv(r)' /\ ReplyInv(r)' /\ WaitInv(r)'
        BY <1>1, <1>2, <3>1 DEF NewInv, ReplyInv, WaitInv, FetchInv
      <3>3. RefInv(r)'
        BY <1>1, <1>2, <3>1 DEF RefInv, FetchInv
      <3>4. ResultInv(r)'
        BY <1>1, <1>2 DEF ResultInv, FetchInv
      <3> QED
        BY <2>2, <3>2, <3>3, <3>4 DEF FetchInv
    <2> QED
      BY <2>1, <2>2
  <1>5. IdInv'
    BY <1>1, <1>2, IdCall DEF HcTypeOK, fiberVars
  <1>6. FiberDataExact'
    BY <1>1, <1>2, DatasStutter DEF HcTypeOK, fiberVars
  <1> QED
    BY <1>3, <1>4, <1>5, <1>6

\* A synchronous fetch whose Fetch calls back at once takes an id and gives its
\* entry back.
LEMMA SyncInvalidStep ==
    ASSUME HcInv, NEW r \in Fetches, SyncInvalid(r)
    PROVE  HcInv'
  <1> USE DEF HcInv
  <1> DEFINE id == NextFiberId(currentFiberId)
             a == [reply[r] EXCEPT !.code = "INVALID"]
             b == [result[r] EXCEPT !.code = "INVALID"]
  <1>1. FetchInv(r) /\ NewInv(r) /\ RefInv(r) /\ ResultInv(r) /\ pc[r] = "new" /\ IsNext(r)
    BY DEF FetchInv, SyncInvalid, IsNext
  <1>2. /\ pc' = [pc EXCEPT ![r] = "done"]
        /\ sync' = [sync EXCEPT ![r] = TRUE]
        /\ currentFiberId' = id
        /\ fiberId' = [fiberId EXCEPT ![r] = id]
        /\ calls' = [calls EXCEPT ![r] = calls[r] + 1]
        /\ object' = [object EXCEPT ![r] = "deleted"]
        /\ DeleteFiberData(id)
        /\ UNCHANGED <<inited, fiberState, baton, refCount, conn>>
    BY DEF SyncInvalid
  <1>3. reply' = [reply EXCEPT ![r] = a] /\ result' = [result EXCEPT ![r] = b]
    BY DEF SyncInvalid
  <1>4. reply[r] \in Replies /\ result[r] \in Replies
    BY DEF HcTypeOK
  <1>5. a \in Replies /\ b \in Replies
    BY <1>4 DEF Replies, Codes
  <1>6. /\ b.code = "INVALID" /\ b.headers = result[r].headers /\ b.body = result[r].body
    BY <1>4 DEF Replies
  <1>7. IdInv' /\ id \in FiberIds \ {0} /\ \A s \in Fetches : fiberId[s] # id
    BY <1>1, <1>2, IdAlloc DEF HcTypeOK
  <1> HIDE DEF a, b, id
  <1>d. datas' = datas
    <2>1. datas[id] = None
      BY <1>7, IdFree
    <2> QED
      BY <1>2, <1>7, <2>1 DEF DeleteFiberData, HcTypeOK
  <1>8. HcTypeOK'
    BY <1>2, <1>3, <1>5, <1>7, <1>d DEF HcTypeOK
  <1>9. ASSUME NEW s \in Fetches PROVE FetchInv(s)'
    <2>1. CASE s # r
      BY <1>2, <1>3, <2>1, SameFetch DEF Same, HcTypeOK
    <2>2. CASE s = r
      <3>1. /\ result'[r] = b /\ conn'[r] = conn[r] /\ calls'[r] = calls[r] + 1
            /\ pc'[r] = "done" /\ object'[r] = "deleted" /\ refCount'[r] = refCount[r]
        BY <1>2, <1>3 DEF HcTypeOK
      <3>2. NewInv(r)' /\ ReplyInv(r)' /\ WaitInv(r)'
        BY <1>1, <1>6, <3>1 DEF NewInv, ReplyInv, WaitInv
      <3>3. RefInv(r)'
        BY <1>1, <3>1 DEF RefInv, NewInv, Active
      <3>4. ResultInv(r)'
        BY <1>1, <1>6, <3>1 DEF ResultInv, NewInv, Active
      <3> QED
        BY <2>2, <3>2, <3>3, <3>4 DEF FetchInv
    <2> QED
      BY <2>1, <2>2
  <1>10. FiberDataExact'
    <2>1. \A s \in Fetches :
             /\ pc'[s] = "waiting" <=> pc[s] = "waiting"
             /\ pc[s] = "waiting" => fiberId'[s] = fiberId[s]
      BY <1>1, <1>2 DEF HcTypeOK
    <2> QED
      BY <1>d, <2>1, DatasStutter
  <1> QED
    BY <1>7, <1>8, <1>9, <1>10

\* A synchronous fetch that waits: the caller and the connection hold one
\* reference each, and datas_ has a new entry.
LEMMA SyncFetchStep ==
    ASSUME HcInv, NEW r \in Fetches, SyncFetch(r)
    PROVE  HcInv'
  <1> USE DEF HcInv
  <1> DEFINE id == NextFiberId(currentFiberId)
  <1>1. /\ NewInv(r) /\ RefInv(r) /\ ResultInv(r) /\ pc[r] = "new" /\ IsNext(r)
        /\ QueueSize < MaxQueue
    BY DEF FetchInv, SyncFetch, IsNext
  <1>2. /\ pc' = [pc EXCEPT ![r] = "waiting"]
        /\ sync' = [sync EXCEPT ![r] = TRUE]
        /\ currentFiberId' = id
        /\ fiberId' = [fiberId EXCEPT ![r] = id]
        /\ InsertFiberData(id, r)
        /\ object' = [object EXCEPT ![r] = "live"]
        /\ refCount' = [refCount EXCEPT ![r] = 2]
        /\ conn' = [conn EXCEPT ![r] = "connecting"]
        /\ UNCHANGED <<inited, fiberState, baton, reply, result, calls>>
    BY DEF SyncFetch
  <1>3. IdInv' /\ id \in FiberIds \ {0} /\ \A s \in Fetches : fiberId[s] # id
    BY <1>1, <1>2, IdAlloc DEF HcTypeOK
  <1> HIDE DEF id
  <1>4. HcTypeOK'
    BY <1>2, <1>3 DEF InsertFiberData, HcTypeOK, Active
  <1>5. ASSUME NEW s \in Fetches PROVE FetchInv(s)'
    <2>1. CASE s # r
      BY <1>2, <2>1, SameFetch DEF Same, HcTypeOK
    <2>2. CASE s = r
      <3>1. /\ conn'[r] = "connecting" /\ pc'[r] = "waiting" /\ object'[r] = "live"
            /\ refCount'[r] = 2 /\ fiberId'[r] = id /\ sync'[r]
        BY <1>2 DEF HcTypeOK
      <3>2. NewInv(r)' /\ ReplyInv(r)' /\ WaitInv(r)'
        BY <1>1, <1>2, <1>3, <3>1 DEF NewInv, ReplyInv, WaitInv
      <3>3. RefInv(r)'
        BY <3>1 DEF RefInv, Active
      <3>4. ResultInv(r)'
        BY <1>1, <1>2, <3>1 DEF ResultInv, NewInv, Active
      <3> QED
        BY <2>2, <3>2, <3>3, <3>4 DEF FetchInv
    <2> QED
      BY <2>1, <2>2
  <1>6. FiberDataExact'
    BY <1>1, <1>2, <1>3, DatasInsert
  <1> QED
    BY <1>3, <1>4, <1>5, <1>6

\* The timeout resolves the baton; the fiber has not run yet.
LEMMA WaitTimeoutStep ==
    ASSUME HcInv, NEW r \in Fetches, WaitTimeout(r)
    PROVE  HcInv'
  <1> USE DEF HcInv
  <1>1. /\ pc[r] = "waiting"
        /\ baton' = [baton EXCEPT ![r] = "timeout"]
        /\ UNCHANGED <<inited, currentFiberId, datas, fiberId, fiberState, pc, sync,
                       refCount, object, conn, reply, result, calls>>
    BY DEF WaitTimeout
  <1>2. HcTypeOK'
    BY <1>1 DEF HcTypeOK
  <1>3. ASSUME NEW s \in Fetches PROVE FetchInv(s)'
    <2>1. CASE s # r
      BY <1>1, <2>1, SameFetch DEF Same, HcTypeOK
    <2>2. CASE s = r
      <3>1. FetchInv(r) /\ baton'[r] = "timeout"
        BY <1>1 DEF HcTypeOK
      <3>2. NewInv(r)' /\ WaitInv(r)'
        BY <1>1, <3>1 DEF NewInv, WaitInv, FetchInv
      <3>3. RefInv(r)' /\ ReplyInv(r)' /\ ResultInv(r)'
        BY <1>1, <3>1 DEF RefInv, ReplyInv, ResultInv, FetchInv
      <3> QED
        BY <2>2, <3>2, <3>3 DEF FetchInv
    <2> QED
      BY <2>1, <2>2
  <1>4. IdInv' /\ FiberDataExact'
    BY <1>1, IdStutter, DatasStutter
  <1> QED
    BY <1>2, <1>3, <1>4

\* ReleaseRef by one of the users: the count goes down by one, and the last one
\* deletes the object.
LEMMA ReleaseEffect ==
    ASSUME HcTypeOK, NEW r \in Fetches, ReleaseRef(r), refCount[r] > 0
    PROVE  /\ refCount' \in [Fetches -> 0 .. 2]
           /\ object' \in [Fetches -> {"none", "live", "deleted"}]
           /\ refCount'[r] = refCount[r] - 1
           /\ object'[r] = IF refCount[r] = 1 THEN "deleted" ELSE object[r]
           /\ \A s \in Fetches \ {r} : refCount'[s] = refCount[s] /\ object'[s] = object[s]
  <1>1. refCount[r] - 1 \in 0 .. 2
    BY DEF HcTypeOK
  <1> QED
    BY <1>1 DEF ReleaseRef, HcTypeOK

\* Wait returns: the fetch has a reply or has waited for the whole timeout.
LEMMA ResumeStep ==
    ASSUME HcInv, NEW r \in Fetches, Resume(r)
    PROVE  HcInv'
  <1> USE DEF HcInv
  <1>1. /\ pc[r] = "waiting" /\ baton[r] # "empty" /\ FetchInv(r)
        /\ fiberState' = [fiberState EXCEPT ![r] = IF baton[r] = "timeout" THEN "kTimeout"
                                                   ELSE fiberState[r]]
        /\ DeleteFiberData(fiberId[r])
        /\ pc' = [pc EXCEPT ![r] = "done"]
        /\ ReleaseRef(r)
        /\ UNCHANGED <<inited, currentFiberId, fiberId, baton, sync, conn, reply, result, calls>>
    BY DEF Resume
  <1>2. refCount[r] > 0 /\ refCount[r] = 1 + (IF conn[r] \in Active THEN 1 ELSE 0)
    BY <1>1 DEF FetchInv, RefInv
  <1>3. /\ refCount' \in [Fetches -> 0 .. 2]
        /\ object' \in [Fetches -> {"none", "live", "deleted"}]
        /\ refCount'[r] = refCount[r] - 1
        /\ object'[r] = IF refCount[r] = 1 THEN "deleted" ELSE object[r]
        /\ \A s \in Fetches \ {r} : refCount'[s] = refCount[s] /\ object'[s] = object[s]
    BY <1>1, <1>2, ReleaseEffect
  <1>4. datas' \in [FiberIds -> Fetches \cup {None}]
    BY <1>1 DEF DeleteFiberData, HcTypeOK
  <1>5. HcTypeOK'
    BY <1>1, <1>3, <1>4 DEF HcTypeOK
  <1>6. ASSUME NEW s \in Fetches PROVE FetchInv(s)'
    <2>1. CASE s # r
      BY <1>1, <1>3, <2>1, SameFetch DEF Same, HcTypeOK
    <2>2. CASE s = r
      <3>1. /\ pc'[r] = "done"
            /\ baton[r] = "timeout" => fiberState'[r] = "kTimeout"
            /\ baton[r] \in {"posted", "timeout"}
        BY <1>1 DEF HcTypeOK
      <3>2. NewInv(r)' /\ WaitInv(r)'
        BY <1>1, <3>1 DEF NewInv, WaitInv, FetchInv
      <3>3. RefInv(r)'
        BY <1>1, <1>2, <1>3, <3>1 DEF RefInv, FetchInv
      <3>4. ReplyInv(r)' /\ ResultInv(r)'
        BY <1>1 DEF ReplyInv, ResultInv, FetchInv
      <3> QED
        BY <2>2, <3>2, <3>3, <3>4 DEF FetchInv
    <2> QED
      BY <2>1, <2>2
  <1>7. IdInv'
    BY <1>1, IdStutter DEF HcTypeOK
  <1>8. FiberDataExact'
    BY <1>1, DatasDelete
  <1> QED
    BY <1>5, <1>6, <1>7, <1>8

\* The weak_ptr of the fiber data can be locked exactly while the fiber waits.
LEMMA AliveIsWaiting ==
    ASSUME HcInv, NEW r \in Fetches
    PROVE  FiberAlive(r) <=> pc[r] = "waiting"
  BY DEF HcInv, HcTypeOK, FiberAlive, FiberDataExact

\* The connection ends with a callback of reply a: it finds a caller that waits,
\* or leaves one that has returned alone, and the last user deletes the client.
LEMMA CallbackStep ==
    ASSUME HcInv, NEW r \in Fetches, conn[r] \in Active,
           NEW a \in Replies, a.code # "NONE", a.body <=> a.code = "OK",
           a.code = "OK" => a.headers, a.headers => a.code \in {"OK", "HTTP_ERROR"},
           Callback(r, a), ReleaseRef(r), conn' = [conn EXCEPT ![r] = "gone"],
           UNCHANGED <<inited, currentFiberId, datas, fiberId, pc, sync>>
    PROVE  HcInv' /\ \A s \in Fetches : sync[s] /\ pc[s] = "done" => result'[s] = result[s]
  <1> USE DEF HcInv
  <1> DEFINE m == [a EXCEPT !.headers = FALSE, !.body = FALSE]
  <1>1. FetchInv(r) /\ calls' = [calls EXCEPT ![r] = calls[r] + 1] /\ pc[r] # "new"
    BY DEF Callback, FetchInv, NewInv, Active
  <1>2. refCount[r] > 0 /\ refCount[r] = 1 + (IF pc[r] = "waiting" THEN 1 ELSE 0)
    BY <1>1 DEF FetchInv, RefInv
  <1>3. /\ refCount' \in [Fetches -> 0 .. 2]
        /\ object' \in [Fetches -> {"none", "live", "deleted"}]
        /\ refCount'[r] = refCount[r] - 1
        /\ object'[r] = IF refCount[r] = 1 THEN "deleted" ELSE object[r]
        /\ \A s \in Fetches \ {r} : refCount'[s] = refCount[s] /\ object'[s] = object[s]
    BY <1>2, ReleaseEffect
  <1>4. m \in Replies
    BY DEF Replies
  <1>5. /\ result' \in [Fetches -> Replies]
        /\ reply' \in [Fetches -> Replies]
        /\ fiberState' \in [Fetches -> FiberStates]
        /\ baton' \in [Fetches -> {"empty", "posted", "timeout"}]
        /\ \A s \in Fetches \ {r} :
              /\ result'[s] = result[s] /\ reply'[s] = reply[s]
              /\ fiberState'[s] = fiberState[s] /\ baton'[s] = baton[s]
        /\ \/ sync[r] /\ pc[r] = "waiting" /\ result'[r] = a
           \/ ~sync[r] /\ pc[r] # "waiting" /\ result'[r] = a
           \/ /\ sync[r] /\ pc[r] = "done" /\ result'[r] = result[r]
              /\ fiberState'[r] = fiberState[r] /\ baton'[r] = baton[r]
    <2>1. CASE sync[r] /\ FiberAlive(r)
      <3>1. result' = [result EXCEPT ![r] = a] /\ reply' = [reply EXCEPT ![r] = m] /\ Post(r)
        BY <2>1 DEF Callback
      <3>2. pc[r] = "waiting"
        BY <2>1, AliveIsWaiting
      <3> HIDE DEF m
      <3>3. /\ fiberState' \in [Fetches -> FiberStates]
            /\ baton' \in [Fetches -> {"empty", "posted", "timeout"}]
            /\ \A s \in Fetches \ {r} : fiberState'[s] = fiberState[s] /\ baton'[s] = baton[s]
        BY <3>1 DEF Post, HcTypeOK
      <3> QED
        <4>1. /\ result' \in [Fetches -> Replies] /\ result'[r] = a
              /\ \A s \in Fetches \ {r} : result'[s] = result[s]
          BY <3>1 DEF HcTypeOK
        <4>2. reply' \in [Fetches -> Replies] /\ \A s \in Fetches \ {r} : reply'[s] = reply[s]
          BY <1>4, <3>1 DEF HcTypeOK
        <4> QED
          BY <2>1, <3>2, <3>3, <4>1, <4>2
    <2>2. CASE sync[r] /\ ~FiberAlive(r)
      <3>1. reply' = [reply EXCEPT ![r] = a] /\ UNCHANGED <<result, fiberState, baton>>
        BY <2>2 DEF Callback
      <3>2. pc[r] = "done"
        BY <1>1, <2>2, AliveIsWaiting DEF HcTypeOK
      <3> QED
        BY <2>2, <3>1, <3>2 DEF HcTypeOK
    <2>3. CASE ~sync[r]
      <3>1. /\ result' = [result EXCEPT ![r] = a] /\ reply' = [reply EXCEPT ![r] = a]
            /\ UNCHANGED <<fiberState, baton>>
        BY <2>3 DEF Callback
      <3>2. pc[r] # "waiting"
        BY <1>1, <2>3 DEF FetchInv, WaitInv
      <3> QED
        BY <2>3, <3>1, <3>2 DEF HcTypeOK
    <2> QED
      BY <2>1, <2>2, <2>3
  <1>6. HcTypeOK'
    <2>1. calls' \in [Fetches -> Nat] /\ conn' \in [Fetches -> Active \cup {"none", "gone"}]
      BY <1>1 DEF HcTypeOK
    <2> QED
      BY <1>3, <1>5, <2>1 DEF HcTypeOK
  <1>7. ASSUME NEW s \in Fetches PROVE FetchInv(s)'
    <2>1. CASE s # r
      BY <1>1, <1>3, <1>5, <2>1, SameFetch DEF Same, HcTypeOK
    <2>2. CASE s = r
      <3>1. conn'[r] = "gone" /\ calls'[r] = calls[r] + 1
        BY <1>1 DEF HcTypeOK
      <3>2. NewInv(r)' /\ ReplyInv(r)'
        BY <1>1, <3>1 DEF NewInv, ReplyInv
      <3>3. RefInv(r)'
        BY <1>1, <1>2, <1>3, <3>1 DEF RefInv, FetchInv, Active
      <3>4. ResultInv(r)'
        BY <1>1, <1>5, <3>1 DEF ResultInv, FetchInv, Active
      <3>5. WaitInv(r)'
        BY <1>1, <1>5 DEF WaitInv, FetchInv
      <3> QED
        BY <2>2, <3>2, <3>3, <3>4, <3>5 DEF FetchInv
    <2> QED
      BY <2>1, <2>2
  <1>8. IdInv' /\ FiberDataExact'
    BY IdStutter, DatasStutter
  <1>9. ASSUME NEW s \in Fetches, sync[s], pc[s] = "done" PROVE result'[s] = result[s]
    BY <1>5, <1>9
  <1> QED
    BY <1>6, <1>7, <1>8, <1>9

\* Progress on a connection that does not end it.
LEMMA ProgressStep ==
    ASSUME HcInv, NEW r \in Fetches, conn[r] \in Active,
           NEW w \in Active, NEW a \in Replies,
           conn' = [conn EXCEPT ![r] = w], reply' = [reply EXCEPT ![r] = a],
           w \in {"connecting", "open"} => a.code = "NONE" /\ ~a.headers /\ ~a.body,
           w = "replying" => a.code = "NONE" /\ a.headers /\ ~a.body,
           w = "failed" => a.code = "HTTP_ERROR" /\ ~a.body,
           UNCHANGED <<fiberVars, pc, sync, refCount, object, result, calls>>
    PROVE  HcInv'
  <1> USE DEF HcInv
  <1>1. HcTypeOK'
    BY DEF HcTypeOK, fiberVars
  <1>2. ASSUME NEW s \in Fetches PROVE FetchInv(s)'
    <2>1. CASE s # r
      BY <2>1, SameFetch DEF Same, HcTypeOK, fiberVars
    <2>2. CASE s = r
      <3>1. conn'[r] = w /\ reply'[r] = a /\ FetchInv(r) /\ pc[r] # "new"
        BY DEF HcTypeOK, FetchInv, NewInv, Active
      <3>2. NewInv(r)' /\ ReplyInv(r)' /\ WaitInv(r)'
        BY <3>1 DEF NewInv, ReplyInv, WaitInv, FetchInv, fiberVars
      <3>3. RefInv(r)'
        BY <3>1 DEF RefInv, FetchInv
      <3>4. ResultInv(r)'
        BY <3>1 DEF ResultInv, FetchInv, Active
      <3> QED
        BY <2>2, <3>2, <3>3, <3>4 DEF FetchInv
    <2> QED
      BY <2>1, <2>2
  <1>3. IdInv' /\ FiberDataExact'
    BY IdStutter, DatasStutter DEF fiberVars
  <1> QED
    BY <1>1, <1>2, <1>3

\* Every callback of proxygen keeps what holds of the fetches, and changes no
\* result that a synchronous fetch has returned.
LEMMA NetworkStep ==
    ASSUME HcInv, NEW r \in Fetches, Network(r)
    PROVE  HcInv' /\ \A s \in Fetches : sync[s] /\ pc[s] = "done" => result'[s] = result[s]
  <1>1. reply[r] \in Replies /\ FetchInv(r) /\ HcTypeOK /\ ReplyInv(r)
    BY DEF HcInv, HcTypeOK, FetchInv
  <1>2. /\ reply[r].code \in Codes
        /\ reply[r].headers \in BOOLEAN /\ reply[r].body \in BOOLEAN
    BY <1>1 DEF Replies
  <1>3. CASE ConnectSuccess(r)
    <2>1. /\ conn[r] = "connecting" /\ conn' = [conn EXCEPT ![r] = "open"]
          /\ UNCHANGED <<fiberVars, pc, sync, refCount, object, reply, result, calls>>
      BY <1>3 DEF ConnectSuccess
    <2>2. reply' = [reply EXCEPT ![r] = reply[r]]
      BY <1>1, <2>1 DEF HcTypeOK
    <2>3. reply[r].code = "NONE" /\ ~reply[r].headers /\ ~reply[r].body
      BY <1>1, <2>1 DEF ReplyInv
    <2> QED
      BY <1>1, <2>1, <2>2, <2>3, ProgressStep DEF Active
  <1>4. CASE OnHeadersComplete(r)
    <2> DEFINE a == [reply[r] EXCEPT !.headers = TRUE]
    <2>1. /\ conn[r] = "open" /\ conn' = [conn EXCEPT ![r] = "replying"]
          /\ reply' = [reply EXCEPT ![r] = a]
          /\ UNCHANGED <<fiberVars, pc, sync, refCount, object, result, calls>>
      BY <1>4 DEF OnHeadersComplete
    <2>2. a \in Replies /\ a.code = reply[r].code /\ a.headers = TRUE /\ a.body = reply[r].body
      BY <1>1 DEF Replies
    <2>3. reply[r].code = "NONE" /\ ~reply[r].body
      BY <1>1, <2>1 DEF ReplyInv
    <2> HIDE DEF a
    <2> QED
      BY <2>1, <2>2, <2>3, ProgressStep DEF Active
  <1>5. CASE OnError(r)
    <2> DEFINE a == [reply[r] EXCEPT !.code = "HTTP_ERROR"]
    <2>1. /\ conn[r] \in {"open", "replying"} /\ conn' = [conn EXCEPT ![r] = "failed"]
          /\ reply' = [reply EXCEPT ![r] = a]
          /\ UNCHANGED <<fiberVars, pc, sync, refCount, object, result, calls>>
      BY <1>5 DEF OnError
    <2>2. a \in Replies /\ a.code = "HTTP_ERROR" /\ a.body = reply[r].body
      BY <1>1 DEF Replies, Codes
    <2>3. ~reply[r].body
      BY <1>1, <2>1 DEF ReplyInv
    <2> HIDE DEF a
    <2> QED
      BY <2>1, <2>2, <2>3, ProgressStep DEF Active
  <1>6. CASE OnConnectError(r)
    <2> DEFINE a == [reply[r] EXCEPT !.code = "CONNECT_ERROR"]
    <2>1. /\ conn[r] = "connecting" /\ conn' = [conn EXCEPT ![r] = "gone"]
          /\ Callback(r, a) /\ ReleaseRef(r)
          /\ UNCHANGED <<inited, currentFiberId, datas, fiberId, pc, sync>>
      BY <1>6 DEF OnConnectError
    <2>2. /\ a \in Replies /\ a.code = "CONNECT_ERROR"
          /\ a.headers = reply[r].headers /\ a.body = reply[r].body
      BY <1>1 DEF Replies, Codes
    <2>3. ~reply[r].headers /\ ~reply[r].body
      BY <1>1, <2>1 DEF ReplyInv
    <2> HIDE DEF a
    <2> QED
      BY <2>1, <2>2, <2>3, CallbackStep DEF Active
  <1>7. CASE OnBodyComplete(r)
    <2> DEFINE a == IF reply[r].code = "NONE"
                    THEN [reply[r] EXCEPT !.code = "OK", !.body = TRUE]
                    ELSE reply[r]
    <2>1. /\ conn[r] \in {"replying", "failed"} /\ conn' = [conn EXCEPT ![r] = "gone"]
          /\ Callback(r, a) /\ ReleaseRef(r)
          /\ UNCHANGED <<inited, currentFiberId, datas, fiberId, pc, sync>>
      BY <1>7 DEF OnBodyComplete
    <2>2. CASE conn[r] = "replying"
      <3>1. reply[r].code = "NONE" /\ reply[r].headers /\ ~reply[r].body
        BY <1>1, <2>2 DEF ReplyInv
      <3>2. a = [reply[r] EXCEPT !.code = "OK", !.body = TRUE]
        BY <3>1
      <3>3. a \in Replies /\ a.code = "OK" /\ a.body = TRUE /\ a.headers = reply[r].headers
        BY <1>1, <3>2 DEF Replies, Codes
      <3> HIDE DEF a
      <3> QED
        BY <2>1, <3>1, <3>3, CallbackStep DEF Active
    <2>3. CASE conn[r] = "failed"
      <3>1. reply[r].code = "HTTP_ERROR" /\ ~reply[r].body
        BY <1>1, <2>3 DEF ReplyInv
      <3>2. a = reply[r]
        BY <3>1
      <3> HIDE DEF a
      <3> QED
        BY <1>1, <2>1, <3>1, <3>2, CallbackStep DEF Active
    <2> QED
      BY <2>1, <2>2, <2>3
  <1> QED
    BY <1>3, <1>4, <1>5, <1>6, <1>7 DEF Network

\* What has been returned to the caller of a synchronous fetch stays.
Final ==
    \A s \in Fetches :
        sync[s] /\ pc[s] = "done" => result'[s] = result[s] /\ pc'[s] = "done"

\* Every step of the client keeps the invariant and what was returned.
LEMMA HcStep ==
    ASSUME HcInv, HcNext
    PROVE  HcInv' /\ Final
  <1>1. PICK r \in Fetches :
           \/ FetchInvalid(r) \/ FetchAsync(r)
           \/ SyncRefused(r) \/ SyncInvalid(r) \/ SyncFetch(r)
           \/ WaitTimeout(r) \/ Resume(r)
           \/ Network(r)
    BY DEF HcNext
  <1>2. HcTypeOK
    BY DEF HcInv
  <1>3. CASE FetchInvalid(r)
    <2>1. pc[r] = "new" /\ pc' = [pc EXCEPT ![r] = "done"]
      BY <1>3 DEF FetchInvalid, IsNext
    <2>2. \A s \in Fetches \ {r} : result'[s] = result[s]
      BY <1>2, <1>3 DEF FetchInvalid, HcTypeOK
    <2> QED
      BY <1>2, <1>3, <2>1, <2>2, FetchInvalidStep DEF Final, HcTypeOK
  <1>4. CASE FetchAsync(r)
    BY <1>2, <1>4, FetchAsyncStep DEF Final, HcTypeOK, FetchAsync, IsNext
  <1>5. CASE SyncRefused(r)
    BY <1>2, <1>5, SyncRefusedStep DEF Final, HcTypeOK, SyncRefused, IsNext
  <1>6. CASE SyncInvalid(r)
    <2>1. pc[r] = "new" /\ pc' = [pc EXCEPT ![r] = "done"]
      BY <1>6 DEF SyncInvalid, IsNext
    <2>2. \A s \in Fetches \ {r} : result'[s] = result[s]
      BY <1>2, <1>6 DEF SyncInvalid, HcTypeOK
    <2> QED
      BY <1>2, <1>6, <2>1, <2>2, SyncInvalidStep DEF Final, HcTypeOK
  <1>7. CASE SyncFetch(r)
    BY <1>2, <1>7, SyncFetchStep DEF Final, HcTypeOK, SyncFetch, IsNext
  <1>8. CASE WaitTimeout(r)
    BY <1>8, WaitTimeoutStep DEF Final, WaitTimeout
  <1>9. CASE Resume(r)
    BY <1>2, <1>9, ResumeStep DEF Final, HcTypeOK, Resume
  <1>10. CASE Network(r)
    <2>1. UNCHANGED pc
      BY <1>10 DEF Network, ConnectSuccess, OnConnectError, OnHeadersComplete, OnError,
                   OnBodyComplete
    <2> QED
      BY <1>10, <2>1, NetworkStep DEF Final
  <1> QED
    BY <1>1, <1>3, <1>4, <1>5, <1>6, <1>7, <1>8, <1>9, <1>10

\* The client's variables stay as they are.
LEMMA HcStutter ==
    ASSUME HcInv, UNCHANGED hcVars
    PROVE  HcInv' /\ Final
  <1> USE DEF HcInv, hcVars, fiberVars
  <1>1. HcTypeOK'
    BY DEF HcTypeOK
  <1>2. \A s \in Fetches : FetchInv(s)'
    BY SameFetch DEF Same
  <1>3. IdInv' /\ FiberDataExact'
    BY IdStutter, DatasStutter
  <1> QED
    BY <1>1, <1>2, <1>3 DEF Final

\* A thread whose earlier fetches have come and gone.
LEMMA HcInitInv ==
    HcInit => HcInv
  <1> SUFFICES ASSUME HcInit PROVE HcInv
    OBVIOUS
  <1> USE DEF HcInit
  <1>1. Blank \in Replies /\ Blank.code = "NONE" /\ ~Blank.headers /\ ~Blank.body
    BY DEF Blank, Replies, Codes
  <1>2. HcTypeOK
    BY <1>1 DEF HcTypeOK, FiberIds
  <1>3. ASSUME NEW s \in Fetches PROVE FetchInv(s)
    BY <1>1 DEF FetchInv, NewInv, RefInv, ReplyInv, ResultInv, WaitInv, Active
  <1>4. IdInv
    BY DEF IdInv
  <1>5. QueueSize = 0
    <2>1. {i \in FiberIds : datas[i] # None} = {}
      OBVIOUS
    <2> QED
      BY <2>1, FS_EmptySet DEF QueueSize
  <1>6. FiberDataExact
    BY <1>5 DEF FiberDataExact, FiberIds
  <1> QED
    BY <1>2, <1>3, <1>4, <1>6 DEF HcInv

-----------------------------------------------------------------------------
(* Requests                                                                 *)

\* A callback of proxygen, the start or the end of a fiber: no fetch moves.
RequestStep(q) ==
    \/ OnRequest(q) \/ OnEOM(q) \/ RequestComplete(q) \/ RequestError(q)
    \/ RunFiber(q) \/ EndOfTask(q)

\* They keep the types of the request's variables.
LEMMA RequestStepType ==
    ASSUME HrTypeOK, HcTypeOK', NEW q \in Requests, RequestStep(q)
    PROVE  HrTypeOK'
  <1> USE DEF HrTypeOK
  <1>1. inited \in BOOLEAN
    BY DEF HcTypeOK
  <1>2. CASE OnRequest(q)
    BY <1>2 DEF OnRequest
  <1>3. CASE OnEOM(q)
    BY <1>1, <1>3 DEF OnEOM
  <1>4. CASE RequestComplete(q)
    BY <1>4 DEF RequestComplete, ResetSelf
  <1>5. CASE RequestError(q)
    BY <1>5 DEF RequestError, ResetSelf
  <1>6. CASE RunFiber(q)
    BY <1>6 DEF RunFiber
  <1>7. CASE EndOfTask(q)
    BY <1>7 DEF EndOfTask
  <1> QED
    BY <1>2, <1>3, <1>4, <1>5, <1>6, <1>7 DEF RequestStep

\* They touch the call chain only when no fiber is in possession of it.
LEMMA RequestStepChain ==
    ASSUME HrTypeOK, ChainInv, NEW q \in Requests, RequestStep(q)
    PROVE  ChainInv' /\ UNCHANGED hcVars
  <1> USE DEF HrTypeOK
  <1>1. CASE OnRequest(q) \/ RequestComplete(q) \/ RequestError(q)
    BY <1>1 DEF OnRequest, RequestComplete, RequestError, ChainInv, hcVars
  <1>2. CASE OnEOM(q)
    <2>1. /\ \A p \in Requests : fiber'[p] = fiber[p] \/ fiber'[p] = "ready"
          /\ UNCHANGED <<hcVars, fetchOf, blockedBy, chain, chainBack>>
      BY <1>2 DEF OnEOM
    <2> QED
      BY <2>1 DEF ChainInv, hcVars
  <1>3. CASE RunFiber(q)
    <2>1. LoopFree /\ UNCHANGED <<hcVars, fetchOf, blockedBy, chainBack>>
      BY <1>3 DEF RunFiber
    <2>2. \A p \in Requests :
             /\ fiber'[p] = "running" => p = q /\ chain' = q
             /\ fiber'[p] = "suspended" => fiber[p] = "suspended"
      BY <1>3 DEF RunFiber, LoopFree
    <2> QED
      BY <2>1, <2>2 DEF ChainInv, hcVars, LoopFree
  <1>4. CASE EndOfTask(q)
    <2>1. /\ \A p \in Requests : fiber'[p] = fiber[p] \/ fiber'[p] = "finished"
          /\ UNCHANGED <<hcVars, fetchOf, blockedBy, chain, chainBack>>
      BY <1>4 DEF EndOfTask
    <2> QED
      BY <2>1 DEF ChainInv, hcVars
  <1> QED
    BY <1>1, <1>2, <1>3, <1>4 DEF RequestStep

\* An answer is sent at most once and only to a live transaction.
Answered ==
    \A q \in Requests : sends'[q] # sends[q] => txn[q] = "received" /\ sends[q] = 0

\* self is set from onEOM until requestComplete or onError destroys the handler.
LEMMA RequestStepOwner ==
    ASSUME HrTypeOK, OwnerInv, HcTypeOK, NEW q \in Requests, RequestStep(q)
    PROVE  OwnerInv' /\ Answered
  <1> USE DEF HrTypeOK
  <1>1. inited \in BOOLEAN
    BY DEF HcTypeOK
  <1>2. CASE OnRequest(q)
    BY <1>2 DEF OnRequest, OwnerInv, Answered
  <1>3. CASE OnEOM(q)
    <2>1. fiber[q] = "none"
      BY <1>3 DEF OnEOM, OwnerInv
    <2>2. fiber'[q] # "none" => self'[q]
      BY <1>1, <1>3, <2>1 DEF OnEOM
    <2> QED
      BY <1>3, <2>1, <2>2 DEF OnEOM, OwnerInv, Answered
  <1>4. CASE RequestComplete(q)
    BY <1>4 DEF RequestComplete, ResetSelf, OwnerInv, Answered
  <1>5. CASE RequestError(q)
    BY <1>5 DEF RequestError, ResetSelf, OwnerInv, Answered
  <1>6. CASE RunFiber(q)
    BY <1>6 DEF RunFiber, OwnerInv, Answered
  <1>7. CASE EndOfTask(q)
    BY <1>7 DEF EndOfTask, OwnerInv, Answered
  <1> QED
    BY <1>2, <1>3, <1>4, <1>5, <1>6, <1>7 DEF RequestStep

\* A fetch does not touch transactions, handlers and answers, and no fiber ends.
LEMMA FetchOwner ==
    ASSUME OwnerInv, UNCHANGED <<txn, handler, self, sends>>,
           \A q \in Requests :
              \/ fiber'[q] = fiber[q]
              \/ fiber[q] \in {"running", "suspended"} /\ fiber'[q] \in {"running", "suspended"}
    PROVE  OwnerInv' /\ Answered
  BY DEF OwnerInv, Answered

\* A call leaves the other callers where they are.
LEMMA CallEffect ==
    ASSUME HcTypeOK, NEW r \in Fetches
    PROVE  /\ FetchAsync(r) \/ FetchInvalid(r) \/ SyncRefused(r) \/ SyncInvalid(r) =>
                 /\ pc[r] = "new" /\ pc'[r] = "done"
                 /\ \A s \in Fetches \ {r} : pc'[s] = pc[s]
           /\ SyncFetch(r) =>
                 /\ pc[r] = "new" /\ pc'[r] = "waiting"
                 /\ \A s \in Fetches \ {r} : pc'[s] = pc[s]
           /\ Resume(r) =>
                 /\ pc[r] = "waiting" /\ pc'[r] = "done"
                 /\ \A s \in Fetches \ {r} : pc'[s] = pc[s]
  BY DEF HcTypeOK, IsNext, FetchAsync, FetchInvalid, SyncRefused, SyncInvalid, SyncFetch, Resume

\* No suspended fiber waits in a call that returns at once.
LEMMA ChainCall ==
    ASSUME ChainInv, NEW r \in Fetches, pc[r] = "new",
           \A s \in Fetches \ {r} : pc'[s] = pc[s], blockedBy \in Fetches \cup {None},
           UNCHANGED <<fiber, fetchOf, blockedBy, chain, chainBack>>
    PROVE  ChainInv'
  BY DEF ChainInv

\* The handler function fetches: the fiber saves its chain and is suspended.
LEMMA HandlerFetchStep ==
    ASSUME IInv, NEW q \in Requests, NEW r \in Fetches, HandlerFetch(q, r), HcTypeOK'
    PROVE  HrTypeOK' /\ ChainInv' /\ OwnerInv' /\ Answered
  <1> USE DEF IInv, HrTypeOK
  <1>1. /\ fiber[q] = "running" /\ chain = q /\ blockedBy = None
        /\ UNCHANGED <<txn, handler, self, blockedBy, chain, sends, freedUse>>
    BY DEF HandlerFetch, ChainInv
  <1>2. CASE (SyncRefused(r) \/ SyncInvalid(r)) /\ UNCHANGED <<fiber, fetchOf, chainBack>>
    BY <1>1, <1>2, CallEffect, ChainCall, FetchOwner
  <1>3. CASE /\ SyncFetch(r)
             /\ fiber' = [fiber EXCEPT ![q] = "suspended"]
             /\ fetchOf' = [fetchOf EXCEPT ![q] = r]
             /\ chainBack' = [chainBack EXCEPT ![r] = chain]
    <2>1. /\ pc[r] = "new" /\ pc'[r] = "waiting"
          /\ \A s \in Fetches \ {r} : pc'[s] = pc[s]
      BY <1>3, CallEffect
    <2>2. HrTypeOK'
      BY <1>1, <1>3
    <2>3. ASSUME NEW p \in Requests, fiber'[p] = "running"
          PROVE  FALSE
      BY <1>1, <1>3, <2>3 DEF ChainInv
    <2>4. ASSUME NEW p \in Requests, fiber'[p] = "suspended"
          PROVE  /\ fetchOf'[p] \in Fetches /\ pc'[fetchOf'[p]] = "waiting"
                 /\ chainBack'[fetchOf'[p]] = p /\ fetchOf'[p] # blockedBy'
      <3>1. CASE p = q
        BY <1>1, <1>3, <2>1, <3>1
      <3>2. CASE p # q
        <4>1. fetchOf[p] # r /\ fetchOf'[p] = fetchOf[p] /\ fiber[p] = "suspended"
          BY <1>3, <2>1, <2>4, <3>2 DEF ChainInv
        <4> QED
          BY <1>1, <1>3, <2>1, <4>1 DEF ChainInv
      <3> QED
        BY <3>1, <3>2
    <2>5. ChainInv'
      BY <1>1, <2>3, <2>4 DEF ChainInv
    <2> QED
      BY <1>1, <1>3, <2>2, <2>5, FetchOwner
  <1> QED
    BY <1>2, <1>3 DEF HandlerFetch

\* The fiber goes on with the chain that its own fetch has saved.
LEMMA ResumeFiberStep ==
    ASSUME IInv, NEW q \in Requests, ResumeFiber(q), HcTypeOK'
    PROVE  HrTypeOK' /\ ChainInv' /\ OwnerInv' /\ Answered
  <1> USE DEF IInv, HrTypeOK
  <1> DEFINE f == fetchOf[q]
  <1>1. /\ LoopFree /\ fiber[q] = "suspended" /\ Resume(f)
        /\ fiber' = [fiber EXCEPT ![q] = "running"]
        /\ fetchOf' = [fetchOf EXCEPT ![q] = None]
        /\ chain' = chainBack[f]
        /\ UNCHANGED <<txn, handler, self, blockedBy, chainBack, sends, freedUse>>
    BY DEF ResumeFiber
  <1>2. f \in Fetches /\ chainBack[f] = q /\ blockedBy = None
    BY <1>1 DEF ChainInv, LoopFree
  <1> HIDE DEF f
  <1>3. \A s \in Fetches \ {f} : pc'[s] = pc[s]
    BY <1>1, <1>2, CallEffect
  <1>4. HrTypeOK'
    BY <1>1, <1>2
  <1>5. ASSUME NEW p \in Requests, fiber'[p] = "suspended"
        PROVE  /\ fetchOf'[p] \in Fetches /\ pc'[fetchOf'[p]] = "waiting"
               /\ chainBack'[fetchOf'[p]] = p /\ fetchOf'[p] # blockedBy'
    <2>1. p # q /\ fiber[p] = "suspended" /\ fetchOf'[p] = fetchOf[p]
      BY <1>1, <1>5
    <2>2. fetchOf[p] \in Fetches \ {f}
      BY <1>2, <2>1 DEF ChainInv
    <2> QED
      BY <1>1, <1>3, <2>1, <2>2 DEF ChainInv
  <1>6. \A p \in Requests : fiber'[p] = "running" => p = q
    BY <1>1 DEF LoopFree
  <1>7. ChainInv'
    BY <1>1, <1>2, <1>5, <1>6 DEF ChainInv
  <1>8. OwnerInv' /\ Answered
    BY <1>1, FetchOwner
  <1> QED
    BY <1>4, <1>7, <1>8

\* A fetch outside a fiber that blocks the thread, and its return.
LEMMA BlockingStep ==
    ASSUME IInv, NEW r \in Fetches, BlockingFetch(r) \/ BlockingReturn(r), HcTypeOK'
    PROVE  HrTypeOK' /\ ChainInv' /\ OwnerInv' /\ Answered
  <1> USE DEF IInv, HrTypeOK
  <1>1. UNCHANGED <<txn, handler, self, fiber, fetchOf, sends, freedUse>>
    BY DEF BlockingFetch, BlockingReturn
  <1>2. OwnerInv' /\ Answered
    BY <1>1, FetchOwner
  <1>3. CASE /\ BlockingFetch(r)
             /\ SyncRefused(r) \/ SyncInvalid(r)
             /\ UNCHANGED <<blockedBy, chainBack>>
    <2>1. UNCHANGED chain
      BY <1>3 DEF BlockingFetch
    <2> QED
      BY <1>1, <1>2, <1>3, <2>1, CallEffect, ChainCall
  <1>4. CASE /\ BlockingFetch(r)
             /\ SyncFetch(r)
             /\ blockedBy' = r
             /\ chainBack' = [chainBack EXCEPT ![r] = chain]
    <2>1. LoopFree /\ UNCHANGED chain
      BY <1>4 DEF BlockingFetch
    <2>2. /\ pc[r] = "new" /\ pc'[r] = "waiting"
          /\ \A s \in Fetches \ {r} : pc'[s] = pc[s]
      BY <1>4, CallEffect
    <2>3. HrTypeOK'
      BY <1>1, <1>4, <2>1
    <2>4. \A p \in Requests : fiber[p] = "suspended" => fetchOf[p] # r
      BY <2>2 DEF ChainInv
    <2>5. ChainInv'
      BY <1>1, <1>4, <2>1, <2>2, <2>4 DEF ChainInv, LoopFree
    <2> QED
      BY <1>2, <2>3, <2>5
  <1>5. CASE BlockingReturn(r)
    <2>1. /\ blockedBy = r /\ blockedBy' = None /\ chain' = chainBack[r] /\ Resume(r)
          /\ UNCHANGED chainBack
      BY <1>5 DEF BlockingReturn
    <2>2. \A s \in Fetches \ {r} : pc'[s] = pc[s]
      BY <2>1, CallEffect
    <2>3. HrTypeOK'
      BY <1>1, <2>1
    <2>4. r # None
      OBVIOUS
    <2>5. \A p \in Requests : fiber[p] # "running"
      BY <2>1, <2>4 DEF ChainInv
    <2>6. ChainInv'
      BY <1>1, <2>1, <2>2, <2>5 DEF ChainInv
    <2> QED
      BY <1>2, <2>3, <2>6
  <1> QED
    BY <1>3, <1>4, <1>5 DEF BlockingFetch

\* The event loop serves a fetch: no request is touched and nobody is called.
LEMMA LoopStep ==
    ASSUME IInv, NEW r \in Fetches, CallbackFetch(r) \/ Timeout(r) \/ Proxygen(r), HcTypeOK'
    PROVE  HrTypeOK' /\ ChainInv' /\ OwnerInv' /\ Answered
  <1> USE DEF IInv, HrTypeOK, requestVars
  <1>1. UNCHANGED requestVars
    BY DEF CallbackFetch, Timeout, Proxygen
  <1>2. HrTypeOK' /\ OwnerInv' /\ Answered
    BY <1>1, FetchOwner
  <1>3. CASE CallbackFetch(r)
    <2>1. FetchAsync(r) \/ FetchInvalid(r)
      BY <1>3 DEF CallbackFetch
    <2>2. pc[r] = "new" /\ \A s \in Fetches \ {r} : pc'[s] = pc[s]
      BY <2>1, CallEffect
    <2> QED
      BY <1>1, <1>2, <2>2, ChainCall
  <1>4. CASE Timeout(r) \/ Proxygen(r)
    <2>1. UNCHANGED pc
      BY <1>4 DEF Timeout, WaitTimeout, Proxygen, Network, ConnectSuccess, OnConnectError,
                  OnHeadersComplete, OnError, OnBodyComplete
    <2> QED
      BY <1>1, <1>2, <2>1 DEF ChainInv
  <1> QED
    BY <1>3, <1>4

\* A step of the server is a step of the client, or none.
LEMMA ClientStep ==
    ASSUME IInv, HrNext
    PROVE  HcNext \/ UNCHANGED hcVars
  <1>1. CASE \E q \in Requests : RequestStep(q)
    BY <1>1, RequestStepChain DEF IInv
  <1>2. ASSUME NEW q \in Requests, ResumeFiber(q)
        PROVE  HcNext
    BY <1>2 DEF ResumeFiber, HcNext, IInv, ChainInv
  <1>3. ASSUME NEW q \in Requests, NEW r \in Fetches, HandlerFetch(q, r)
        PROVE  HcNext
    BY <1>3 DEF HandlerFetch, HcNext
  <1>4. ASSUME NEW r \in Fetches,
               \/ CallbackFetch(r) \/ BlockingFetch(r) \/ BlockingReturn(r)
               \/ Timeout(r) \/ Proxygen(r)
        PROVE  HcNext
    BY <1>4 DEF CallbackFetch, BlockingFetch, BlockingReturn, Timeout, Proxygen, HcNext, Network
  <1> QED
    BY <1>1, <1>2, <1>3, <1>4 DEF HrNext, RequestStep

\* The server starts with no request and no call chain.
LEMMA InitInv ==
    HrInit => IInv
  <1> SUFFICES ASSUME HrInit PROVE IInv
    OBVIOUS
  <1>1. HcInv /\ HcTypeOK
    BY HcInitInv DEF HrInit, HcInv
  <1>2. HrTypeOK
    BY <1>1 DEF HrInit, HrTypeOK
  <1>3. ChainInv /\ OwnerInv
    BY DEF HrInit, ChainInv, OwnerInv
  <1> QED
    BY <1>1, <1>2, <1>3 DEF IInv

\* Every step keeps the invariant, what was returned, and answers once.
LEMMA NextInv ==
    ASSUME IInv, [HrNext]_hrVars
    PROVE  IInv' /\ Final /\ Answered
  <1>1. HcInv' /\ Final
    <2>1. HcInv
      BY DEF IInv
    <2> QED
      BY <2>1, ClientStep, HcStep, HcStutter DEF hrVars
  <1>2. HcTypeOK' /\ HcTypeOK
    BY <1>1 DEF HcInv, IInv
  <1>3. ASSUME NEW q \in Requests, RequestStep(q)
        PROVE  HrTypeOK' /\ ChainInv' /\ OwnerInv' /\ Answered
    BY <1>2, <1>3, RequestStepType, RequestStepChain, RequestStepOwner DEF IInv
  <1>4. ASSUME NEW q \in Requests, ResumeFiber(q) \/ \E r \in Fetches : HandlerFetch(q, r)
        PROVE  HrTypeOK' /\ ChainInv' /\ OwnerInv' /\ Answered
    BY <1>2, <1>4, ResumeFiberStep, HandlerFetchStep
  <1>5. ASSUME NEW r \in Fetches,
               \/ CallbackFetch(r) \/ BlockingFetch(r) \/ BlockingReturn(r)
               \/ Timeout(r) \/ Proxygen(r)
        PROVE  HrTypeOK' /\ ChainInv' /\ OwnerInv' /\ Answered
    BY <1>2, <1>5, BlockingStep, LoopStep
  <1>6. ASSUME UNCHANGED hrVars
        PROVE  HrTypeOK' /\ ChainInv' /\ OwnerInv' /\ Answered
    <2>1. UNCHANGED requestVars /\ UNCHANGED hcVars
      BY <1>6 DEF hrVars
    <2>2. UNCHANGED pc
      BY <2>1 DEF hcVars
    <2>3. HrTypeOK'
      BY <1>2, <2>1 DEF IInv, HrTypeOK, requestVars
    <2>4. ChainInv' /\ OwnerInv' /\ Answered
      BY <2>1, <2>2 DEF IInv, ChainInv, OwnerInv, Answered, requestVars
    <2> QED
      BY <2>3, <2>4
  <1>7. ASSUME HrNext
        PROVE  HrTypeOK' /\ ChainInv' /\ OwnerInv' /\ Answered
    BY <1>3, <1>4, <1>5, <1>7 DEF HrNext, RequestStep
  <1>8. HrTypeOK' /\ ChainInv' /\ OwnerInv' /\ Answered
    BY <1>6, <1>7
  <1> QED
    BY <1>1, <1>8 DEF IInv

-----------------------------------------------------------------------------
(* Theorems                                                                 *)

\* The inductive invariant holds in every reachable state.
THEOREM Invariant == HrSpec => []IInv
  <1>1. HrInit => IInv
    BY InitInv
  <1>2. IInv /\ [HrNext]_hrVars => IInv'
    BY NextInv
  <1> QED
    BY <1>1, <1>2, PTL DEF HrSpec

\* Type correctness of the client and of the request handlers.
THEOREM TypeCorrect == HrSpec => []HrTypeOK
  <1>1. IInv => HrTypeOK
    BY DEF IInv
  <1> QED
    BY <1>1, Invariant, PTL

\* ReleaseRef: the count is exact in every order of reply, error and timeout,
\* so HttpClient is deleted once and never used after that.
THEOREM ReferencesCounted == HrSpec => []RefCountExact
  <1>1. IInv => RefCountExact
    BY DEF IInv, HcInv, FetchInv, RefInv, RefCountExact
  <1> QED
    BY <1>1, Invariant, PTL

\* datas_ holds the suspended fetches, each under its own id, although
\* current_fiber_id_ wraps, and never more than FIBER_MAX_QUEUE_SIZE.
THEOREM FiberDataKept == HrSpec => []FiberDataExact
  <1>1. IInv => FiberDataExact
    BY DEF IInv, HcInv
  <1> QED
    BY <1>1, Invariant, PTL

\* HttpClientSyncFetch returns NONE only when it was refused or has waited for
\* the whole timeout.
THEOREM ReplyNotLost == HrSpec => []NoneOnlyAfterTimeout
  <1>1. IInv => NoneOnlyAfterTimeout
    BY DEF IInv, HcInv, FetchInv, WaitInv, NoneOnlyAfterTimeout
  <1> QED
    BY <1>1, Invariant, PTL

\* cb_ is called once for every connection that is over and every refused url.
THEOREM OneCallback == HrSpec => []CallsBackOnce
  <1>1. ASSUME IInv, NEW r \in Fetches
        PROVE  calls[r] = IF conn[r] = "gone" \/ result[r].code = "INVALID" THEN 1 ELSE 0
    <2>1. ResultInv(r) /\ conn[r] \in Active \cup {"none", "gone"}
      BY <1>1 DEF IInv, HcInv, FetchInv, HcTypeOK
    <2> QED
      BY <2>1 DEF ResultInv
  <1>2. IInv => CallsBackOnce
    BY <1>1 DEF CallsBackOnce
  <1> QED
    BY <1>2, Invariant, PTL

\* A reply with code OK is whole, every other one has no body.
THEOREM RepliesWhole == HrSpec => []ReplyWhole
  <1>1. IInv => ReplyWhole
    BY DEF IInv, HcInv, FetchInv, ResultInv, ReplyWhole
  <1> QED
    BY <1>1, Invariant, PTL

\* What HttpClientSyncFetch has returned is not changed by a late callback.
THEOREM LateReplyHarmless == HrSpec => ReturnedIsFinal
  <1>1. IInv /\ [HrNext]_hrVars =>
           [\A r \in Fetches :
               sync[r] /\ pc[r] = "done" => result'[r] = result[r] /\ pc'[r] = "done"]_hcVars
    BY NextInv DEF Final
  <1> QED
    BY <1>1, Invariant, PTL DEF HrSpec, ReturnedIsFinal

\* The thread-local call chain is the running fiber's own, for any number of
\* fibers that take turns.
THEOREM ChainKept == HrSpec => []ChainIsOwn
  <1>1. IInv => ChainIsOwn
    BY DEF IInv, ChainInv, ChainIsOwn
  <1> QED
    BY <1>1, Invariant, PTL

\* Nobody is answered twice or after onError: the weak pointer of onEOM tells.
THEOREM AnswersOnce == HrSpec => AnsweredOnce
  <1>1. IInv /\ [HrNext]_hrVars =>
           [\A q \in Requests :
               sends'[q] # sends[q] => txn[q] = "received" /\ sends[q] = 0]_hrVars
    BY NextInv DEF Answered
  <1> QED
    BY <1>1, Invariant, PTL DEF HrSpec, AnsweredOnce
=============================================================================
