--------------------------- MODULE SimpleTcpClient ----------------------------
(***************************************************************************)
(* SimpleTcpClient with the SimpleConnHandler of its pipelines: a client   *)
(* that connects when it is told to and reports to a SocketEventCallback.  *)
(* Connect replaces the pipeline of the bootstrap, and what becomes of the *)
(* old one is never looked at.                                             *)
(*                                                                         *)
(* Everything runs on the client's event base.  The application acts       *)
(* between callbacks and inside them: it may close or connect while        *)
(* OnNewConnection runs, and connect while OnConnectionClosed or           *)
(* OnConnectionError runs.                                                 *)
(***************************************************************************)
EXTENDS Naturals

CONSTANTS MaxConnects   \* bound: calls of Connect

ASSUME MaxConnectsAssumption == MaxConnects \in Nat

Connects == 1 .. MaxConnects   \* the pipelines, in the order of their making

VARIABLES
    current,     \* client_.getPipeline(), 0 for none
    link,        \* the socket of each pipeline
    manager,     \* pipelines whose manager is the client
    isConnected, \* connected_
    listening,   \* callback_ of the client is set, and connect_error_callback_
    heard,       \* pipelines whose handler has a callback
    reports,     \* history: callbacks made for each pipeline, by kind
    aborted,     \* the process has crashed, and why, or "no"
    acts,        \* history: what the application did while it was unsafe
    destroyed    \* the client is gone

stVars == <<current, link, manager, isConnected, listening, heard, reports, aborted, acts,
            destroyed>>

Kinds   == {"new", "closed", "error"}
Silent  == [k \in Kinds |-> 0]

StInit ==
    /\ current = 0
    /\ link = [i \in Connects |-> "none"]
    /\ manager = {}
    /\ isConnected = FALSE
    /\ listening = FALSE
    /\ heard = {}
    /\ reports = [i \in Connects |-> Silent]
    /\ aborted = "no"
    /\ acts = {}
    /\ destroyed = FALSE

Running == aborted = "no" /\ ~destroyed
Is(state) == current # 0 /\ link[current] = state
Unused == {i \in Connects : link[i] = "none"}
Fresh  == CHOOSE i \in Unused : \A j \in Unused : i <= j
MaxCloses == 2   \* bound: reports of one close

\* callback_ is called if the handler of i, or the client, has one.
Told(r, i, kind, has) == IF has THEN [r EXCEPT ![i][kind] = @ + 1] ELSE r

-----------------------------------------------------------------------------
(* Connect and ConnectByFactory                                             *)

\* ClientBootstrap2::connect: a new pipeline, with the client's callback, takes
\* the place of the old one, whose socket is closed without a report.  If that
\* one was still connecting, its connectErr runs onError.
Replace(r) ==
    /\ current' = Fresh
    /\ link' = [i \in Connects |-> IF i = Fresh THEN "connecting"
                                   ELSE IF i = current THEN "gone" ELSE link[i]]
    /\ heard' = IF listening THEN heard \cup {Fresh} ELSE heard
    /\ reports' = IF Is("connecting") THEN Told(r, current, "error", listening) ELSE r

Connect ==
    /\ Running
    /\ Unused # {}
    /\ Replace(reports)
    /\ acts' = IF Is("up") THEN acts \cup {"replaced"} ELSE acts
    /\ UNCHANGED <<manager, isConnected, listening, aborted, destroyed>>

\* connectSuccess: transportActive reports the connection, then the promise is
\* fulfilled with the pipeline that the bootstrap has by then.
Connected ==
    /\ Running
    /\ Is("connecting")
    /\ LET r == Told(reports, current, "new", current \in heard)
       IN  \/ /\ link' = [link EXCEPT ![current] = "up"]
              /\ reports' = r
              /\ UNCHANGED <<current, heard, acts>>
           \/ /\ current \in heard
              /\ link' = [link EXCEPT ![current] = "closed"]
              /\ reports' = Told(r, current, "closed", TRUE)
              /\ acts' = acts \cup {"closed in OnNewConnection"}
              /\ UNCHANGED <<current, heard>>
           \/ /\ current \in heard /\ Unused # {}
              /\ current' = Fresh
              /\ link' = [link EXCEPT ![current] = "gone", ![Fresh] = "connecting"]
              /\ heard' = IF listening THEN heard \cup {Fresh} ELSE heard
              /\ reports' = r
              /\ acts' = acts \cup {"connected in OnNewConnection"}
    /\ manager' = manager \cup {current'}
    /\ isConnected' = TRUE
    /\ UNCHANGED <<listening, aborted, destroyed>>

\* connectErr: OnConnectionError, inside which the application may try again.
ConnectError ==
    /\ Running
    /\ Is("connecting")
    /\ LET r == Told(reports, current, "error", listening)
       IN  \/ /\ link' = [link EXCEPT ![current] = "closed"]
              /\ reports' = r
              /\ UNCHANGED <<current, heard>>
           \/ /\ listening /\ Unused # {}
              /\ current' = Fresh
              /\ link' = [link EXCEPT ![current] = "gone", ![Fresh] = "connecting"]
              /\ heard' = heard \cup {Fresh}
              /\ reports' = r
    /\ UNCHANGED <<manager, isConnected, listening, aborted, acts, destroyed>>

-----------------------------------------------------------------------------
(* SimpleConnHandler                                                        *)

\* Fault: deletePipeline forgets connected_.
StaleSimpleDelete(i) ==
    /\ aborted' = IF i \in manager /\ current' # i THEN "CHECK" ELSE aborted
    /\ UNCHANGED isConnected

\* SimpleTcpClient::deletePipeline, reached if the client is the manager of the
\* pipeline i: the CHECK, then connected_.
SimpleDelete(i) ==
    \/ /\ i \in manager /\ current' = i
       /\ isConnected' = FALSE
       /\ UNCHANGED aborted
    \/ /\ i \in manager /\ current' # i
       /\ aborted' = "CHECK"
       /\ UNCHANGED isConnected
    \/ /\ i \notin manager
       /\ UNCHANGED <<isConnected, aborted>>

\* close: reports OnConnectionClosed each time, then fireClose.  The peer closes,
\* reading fails, or the application closes, perhaps a second time or while the
\* attempt is under way, which then ends with connectErr.
Close ==
    /\ Running
    /\ Is("up") \/ (Is("closed") /\ reports[current]["closed"] < MaxCloses) \/ Is("connecting")
    /\ LET r == Told(reports, current, "closed", current \in heard)
       IN  \/ /\ link' = [link EXCEPT ![current] = "closed"]
              /\ reports' = Told(r, current, "error", listening /\ Is("connecting"))
              /\ UNCHANGED <<current, heard, acts>>
           \/ /\ current \in heard /\ Unused # {}
              /\ Replace(r)
              /\ acts' = acts \cup {"connected in OnConnectionClosed"}
    /\ SimpleDelete(current)
    /\ UNCHANGED <<manager, listening, destroyed>>

\* read: OnDataArrived returned -1.  The log line reads the length of the
\* message that was moved to OnDataArrived, a null pointer, before close.
RefusedData ==
    /\ Running
    /\ Is("up") /\ current \in heard
    /\ aborted' = "refused data"
    /\ UNCHANGED <<current, link, manager, isConnected, listening, heard, reports, acts, destroyed>>

-----------------------------------------------------------------------------
\* SetSocketEventCallback and clearCallBack: handlers keep what they were given.
SetCallback ==
    /\ Running
    /\ listening' = ~listening
    /\ UNCHANGED <<current, link, manager, isConnected, heard, reports, aborted, acts, destroyed>>

\* ~SimpleTcpClient: no manager any more, and the pipeline goes with client_; an
\* attempt under way still reports its error.
Destroy ==
    /\ Running
    /\ destroyed' = TRUE
    /\ manager' = manager \ {current}
    /\ link' = [i \in Connects |-> IF i = current THEN "gone" ELSE link[i]]
    /\ reports' = IF Is("connecting") THEN Told(reports, current, "error", listening) ELSE reports
    /\ UNCHANGED <<current, isConnected, listening, heard, aborted, acts>>

StNext ==
    Connect \/ Connected \/ ConnectError \/ Close \/ RefusedData \/ SetCallback \/ Destroy

StSpec == StInit /\ [][StNext]_stVars

-----------------------------------------------------------------------------
(* Properties                                                               *)

\* connected_ is true exactly while the pipeline that GetPipeline returns is up,
\* whatever attempts fail, are repeated or are closed, until the application does
\* one of the things recorded in acts: it connects over a connection that is up,
\* closes or connects inside OnNewConnection, or connects inside
\* OnConnectionClosed.  deletePipeline's CHECK fails only for an application that
\* connects inside OnConnectionClosed.  Every pipeline that was up and had a
\* callback has reported that once, and one that is still up nothing else.
ConnectedTruthful ==
    /\ Running /\ acts = {} => (isConnected <=> Is("up"))
    /\ aborted = "CHECK" => "connected in OnConnectionClosed" \in acts
    /\ \A i \in Connects : reports[i]["new"] <= 1
    /\ Is("up") => reports[current] = [Silent EXCEPT !["new"] = IF current \in heard THEN 1 ELSE 0]
=============================================================================
