----------------------------- MODULE HttpRequest -----------------------------
(***************************************************************************)
(* RabbitHttpRequestHandler: the server side of an HTTP request, composed  *)
(* with the HTTP client.  onEOM hands the request to a fiber, which runs   *)
(* the registered handler function; that may call HttpClientSyncFetch and  *)
(* is suspended in it.  Meanwhile proxygen reports requestComplete or      *)
(* onError, either of which drops self, the only owning reference, and     *)
(* other fibers run on the same thread.                                    *)
(*                                                                         *)
(* Everything happens on one event-base thread: the event loop runs one    *)
(* callback or one fiber at a time, and a fiber runs until it waits or     *)
(* ends.  A synchronous fetch made by a callback that is not on a fiber    *)
(* blocks the thread.  What a fiber does once it has touched a handler     *)
(* that is gone is undefined: the flag freedUse, after which it stops.     *)
(***************************************************************************)
EXTENDS HttpClient

CONSTANTS MaxRequests   \* bound: the HTTP requests

Requests == 1 .. MaxRequests   \* numbered in the order of their arrival

ASSUME NoRequestAssumption == MaxRequests \in Nat /\ None \notin Requests

VARIABLES
    txn,        \* the transaction as proxygen sees it
    handler,    \* the RabbitHttpRequestHandler object
    self,       \* its member self is set
    fiber,      \* the task added by onEOM
    fetchOf,    \* the fetch the fiber waits in, or None
    blockedBy,  \* the fetch that blocks the thread outside a fiber, or None
    chain,      \* the thread-local CallChainData: whose it is
    chainBack,  \* chain_back of each suspended fetch
    sends,      \* history: number of responses sent
    freedUse    \* a fiber has used a handler after its destruction

requestVars == <<txn, handler, self, fiber, fetchOf, blockedBy, chain, chainBack, sends,
                 freedUse>>
hrVars == <<hcVars, requestVars>>

HrTypeOK ==
    /\ HcTypeOK
    /\ txn \in [Requests -> {"none", "receiving", "received", "complete", "failed"}]
    /\ handler \in [Requests -> {"none", "live", "deleted"}]
    /\ self \in [Requests -> BOOLEAN]
    /\ fiber \in [Requests -> {"none", "ready", "running", "suspended", "finished"}]
    /\ fetchOf \in [Requests -> Fetches \cup {None}]
    /\ blockedBy \in Fetches \cup {None}
    /\ chain \in Requests \cup {None}
    /\ chainBack \in [Fetches -> Requests \cup {None}]
    /\ sends \in [Requests -> Nat]
    /\ freedUse \in [Requests -> BOOLEAN]

HrInit ==
    /\ HcInit
    /\ txn = [q \in Requests |-> "none"]
    /\ handler = [q \in Requests |-> "none"]
    /\ self = [q \in Requests |-> FALSE]
    /\ fiber = [q \in Requests |-> "none"]
    /\ fetchOf = [q \in Requests |-> None]
    /\ blockedBy = None
    /\ chain = None
    /\ chainBack = [r \in Fetches |-> None]
    /\ sends = [q \in Requests |-> 0]
    /\ freedUse = [q \in Requests |-> FALSE]

\* The event loop can run its next callback or fiber.
LoopFree == blockedBy = None /\ \A q \in Requests : fiber[q] # "running"

-----------------------------------------------------------------------------
(* Callbacks of proxygen for a request                                      *)

\* RabbitHttpRequestHandlerFactory::onRequest and the handler's onRequest.
OnRequest(q) ==
    /\ LoopFree
    /\ txn[q] = "none" /\ \A p \in Requests : txn[p] = "none" => q <= p
    /\ txn' = [txn EXCEPT ![q] = "receiving"]
    /\ handler' = [handler EXCEPT ![q] = "live"]
    /\ UNCHANGED <<hcVars, self, fiber, fetchOf, blockedBy, chain, chainBack, sends, freedUse>>

\* onEOM: without a fiber manager it does nothing; otherwise self owns the
\* handler from now on and the task is queued.
OnEOM(q) ==
    /\ LoopFree
    /\ txn[q] = "receiving"
    /\ txn' = [txn EXCEPT ![q] = "received"]
    /\ self' = [self EXCEPT ![q] = inited]
    /\ fiber' = [fiber EXCEPT ![q] = IF inited THEN "ready" ELSE @]
    /\ UNCHANGED <<hcVars, handler, fetchOf, blockedBy, chain, chainBack, sends, freedUse>>

\* self.reset(): destroys the handler if it was set.
ResetSelf(q) ==
    /\ self' = [self EXCEPT ![q] = FALSE]
    /\ handler' = [handler EXCEPT ![q] = IF self[q] THEN "deleted" ELSE @]

\* requestComplete, once the response has been written.
RequestComplete(q) ==
    /\ LoopFree
    /\ txn[q] = "received"
    /\ sends[q] > 0
    /\ txn' = [txn EXCEPT ![q] = "complete"]
    /\ ResetSelf(q)
    /\ UNCHANGED <<hcVars, fiber, fetchOf, blockedBy, chain, chainBack, sends, freedUse>>

\* onError of the handler: the peer went away, a timeout, a failed write.
RequestError(q) ==
    /\ LoopFree
    /\ txn[q] \in {"receiving", "received"}
    /\ txn' = [txn EXCEPT ![q] = "failed"]
    /\ ResetSelf(q)
    /\ UNCHANGED <<hcVars, fiber, fetchOf, blockedBy, chain, chainBack, sends, freedUse>>

-----------------------------------------------------------------------------
(* The task of onEOM                                                        *)

\* The fiber starts: downstream_ and request_ are members of the handler.
\* The handler function makes the thread's call chain its own.
RunFiber(q) ==
    /\ LoopFree
    /\ fiber[q] = "ready"
    /\ \/ /\ handler[q] # "deleted"
          /\ fiber' = [fiber EXCEPT ![q] = "running"]
          /\ chain' = q
          /\ UNCHANGED freedUse
       \/ /\ handler[q] = "deleted"
          /\ freedUse' = [freedUse EXCEPT ![q] = TRUE]
          /\ fiber' = [fiber EXCEPT ![q] = "finished"]
          /\ UNCHANGED chain
    /\ UNCHANGED <<hcVars, txn, handler, self, fetchOf, blockedBy, chainBack, sends>>

\* The handler function calls HttpClientSyncFetch: it is refused, the url is
\* invalid, or the call chain is saved and the fiber waits.
HandlerFetch(q, r) ==
    /\ fiber[q] = "running"
    /\ \/ /\ SyncRefused(r) \/ SyncInvalid(r)
          /\ UNCHANGED <<fiber, fetchOf, chainBack>>
       \/ /\ SyncFetch(r)
          /\ fiber' = [fiber EXCEPT ![q] = "suspended"]
          /\ fetchOf' = [fetchOf EXCEPT ![q] = r]
          /\ chainBack' = [chainBack EXCEPT ![r] = chain]
    /\ UNCHANGED <<txn, handler, self, blockedBy, chain, sends, freedUse>>

\* Fault: the call chain is not restored.
ChainlessResume(q) ==
    /\ LoopFree
    /\ fiber[q] = "suspended"
    /\ Resume(fetchOf[q])
    /\ fiber' = [fiber EXCEPT ![q] = "running"]
    /\ fetchOf' = [fetchOf EXCEPT ![q] = None]
    /\ UNCHANGED <<txn, handler, self, blockedBy, chain, chainBack, sends, freedUse>>

\* HttpClientSyncFetch returns to the handler function.
ResumeFiber(q) ==
    /\ LoopFree
    /\ fiber[q] = "suspended"
    /\ Resume(fetchOf[q])
    /\ fiber' = [fiber EXCEPT ![q] = "running"]
    /\ fetchOf' = [fetchOf EXCEPT ![q] = None]
    /\ chain' = chainBack[fetchOf[q]]
    /\ UNCHANGED <<txn, handler, self, blockedBy, chainBack, sends, freedUse>>

\* Faults: the weak pointer is not locked after the handler function; the
\* fiber answers nobody.
UnlockedEndOfTask(q) ==
    /\ fiber[q] = "running"
    /\ fiber' = [fiber EXCEPT ![q] = "finished"]
    /\ sends' = [sends EXCEPT ![q] = @ + 1]
    /\ UNCHANGED <<hcVars, txn, handler, self, fetchOf, blockedBy, chain, chainBack, freedUse>>
SilentEndOfTask(q) ==
    /\ fiber[q] = "running"
    /\ fiber' = [fiber EXCEPT ![q] = "finished"]
    /\ UNCHANGED <<hcVars, txn, handler, self, fetchOf, blockedBy, chain, chainBack, sends,
                   freedUse>>

\* The handler function is through, or has thrown: the weak pointer tells
\* whether there is still somebody to answer, with 200 or with 500.
EndOfTask(q) ==
    /\ fiber[q] = "running"
    /\ fiber' = [fiber EXCEPT ![q] = "finished"]
    /\ \/ handler[q] # "deleted" /\ sends' = [sends EXCEPT ![q] = @ + 1]
       \/ handler[q] = "deleted" /\ UNCHANGED sends
    /\ UNCHANGED <<hcVars, txn, handler, self, fetchOf, blockedBy, chain, chainBack, freedUse>>

-----------------------------------------------------------------------------
(* Fetches of callbacks, and the event loop's part in all fetches           *)

\* A callback makes an asynchronous fetch.
CallbackFetch(r) ==
    /\ LoopFree
    /\ FetchAsync(r) \/ FetchInvalid(r)
    /\ UNCHANGED requestVars

\* A callback calls HttpClientSyncFetch outside a fiber: it is refused, the url
\* is invalid, or the baton blocks the thread, and with it the event loop that
\* would bring the reply.
BlockingFetch(r) ==
    /\ LoopFree
    /\ \/ /\ SyncRefused(r) \/ SyncInvalid(r)
          /\ UNCHANGED <<blockedBy, chainBack>>
       \/ /\ SyncFetch(r)
          /\ blockedBy' = r
          /\ chainBack' = [chainBack EXCEPT ![r] = chain]
    /\ UNCHANGED <<txn, handler, self, fiber, fetchOf, chain, sends, freedUse>>

BlockingReturn(r) ==
    /\ blockedBy = r
    /\ Resume(r)
    /\ blockedBy' = None
    /\ chain' = chainBack[r]
    /\ UNCHANGED <<txn, handler, self, fiber, fetchOf, chainBack, sends, freedUse>>

\* The loop's timer ends the wait of a fiber; a blocked thread is woken by the
\* kernel.
Timeout(r) ==
    /\ LoopFree \/ blockedBy = r
    /\ WaitTimeout(r)
    /\ UNCHANGED requestVars

\* proxygen's callbacks.  Only a connect that fails at once, inside connect(),
\* gets through to a blocked thread.
Proxygen(r) ==
    /\ \/ LoopFree /\ Network(r)
       \/ blockedBy = r /\ OnConnectError(r)
    /\ UNCHANGED requestVars

-----------------------------------------------------------------------------
HrNext ==
    \/ \E q \in Requests :
          \/ OnRequest(q) \/ OnEOM(q) \/ RequestComplete(q) \/ RequestError(q)
          \/ RunFiber(q) \/ ResumeFiber(q) \/ EndOfTask(q)
          \/ \E r \in Fetches : HandlerFetch(q, r)
    \/ \E r \in Fetches :
          \/ CallbackFetch(r) \/ BlockingFetch(r) \/ BlockingReturn(r)
          \/ Timeout(r) \/ Proxygen(r)

HrSpec == HrInit /\ [][HrNext]_hrVars

\* The event loop runs ready fibers and fires due timers, a running fiber goes
\* on, proxygen ends every connection attempt and every transaction, also that
\* of a request whose response was sent.
HrFairness ==
    /\ \A q \in Requests :
          /\ WF_hrVars(RunFiber(q))
          /\ WF_hrVars(ResumeFiber(q))
          /\ WF_hrVars(EndOfTask(q))
          /\ WF_hrVars(RequestComplete(q))
    /\ \A r \in Fetches :
          /\ WF_hrVars(Timeout(r))
          /\ WF_hrVars(BlockingReturn(r))
          /\ WF_hrVars(Proxygen(r))

HrFairSpec == HrSpec /\ HrFairness

-----------------------------------------------------------------------------
(* Properties                                                               *)

\* A request is answered once, and never after its transaction has failed: the
\* fiber sleeps between the start of the handler function and its end, and the
\* weak pointer says whether onError came in between.
AnsweredOnce ==
    [][\A q \in Requests :
          sends'[q] # sends[q] => txn[q] = "received" /\ sends[q] = 0]_hrVars

\* A running fiber finds its own call chain in the thread-local, although other
\* fibers ran, and set theirs, while it was suspended in a fetch.
ChainIsOwn == \A q \in Requests : fiber[q] = "running" => chain = q

\* A request that was received completely is answered, unless the transaction
\* failed or the thread has no fiber manager: the fetches of its handler time
\* out, a thread blocked by somebody's fetch goes on, and fibers take turns.
RequestAnswered ==
    \A q \in Requests :
        (txn[q] = "received" /\ inited) ~> (sends[q] > 0 \/ txn[q] = "failed")

\* "OnHttpHandler may switch to onError, so weak_capture_ptr has to be checked
\* after OnHttpHandler" (comment in onEOM): with that check no fiber uses a
\* handler that onError has destroyed.
NoUseAfterDestroy == \A q \in Requests : ~freedUse[q]
=============================================================================
