---------------------------- MODULE ConnDirectory ----------------------------
(***************************************************************************)
(* What connection management promises its users (TcpConnEventCallback and *)
(* ServiceManager::SendIOBuf): a directory from ids to open connections.   *)
(* A connection enters it once, under an id no other open connection has;  *)
(* it leaves it once; a message goes to the connection that owns its id at *)
(* that moment, and to nobody else.  Threads, queues and the counter are   *)
(* not visible here.                                                       *)
(***************************************************************************)
EXTENDS Sequences

CONSTANTS
    Conns,
    ConnIds,
    NoId,      \* not an id
    Messages   \* records with the field id, a member of ConnIds

VARIABLES
    live,     \* the id each connection is reachable under, or NoId
    gone,     \* the connections that have been closed
    written   \* the messages each connection received

dirVars == <<live, gone, written>>

DirInit ==
    /\ live = [p \in Conns |-> NoId]
    /\ gone = {}
    /\ written = [p \in Conns |-> << >>]

Open(p, id) ==
    /\ live[p] = NoId
    /\ p \notin gone
    /\ \A q \in Conns : live[q] # id
    /\ live' = [live EXCEPT ![p] = id]
    /\ UNCHANGED <<gone, written>>

CloseEntry(p) ==
    /\ live' = [live EXCEPT ![p] = NoId]
    /\ gone' = gone \cup {p}

Close(p) ==
    /\ live[p] # NoId
    /\ CloseEntry(p)
    /\ UNCHANGED written

\* The owner of the id receives the message; a failing write also closes it.
Receive(p, m) ==
    /\ live[p] = m.id
    /\ written' = [written EXCEPT ![p] = Append(@, m)]
    /\ \/ UNCHANGED <<live, gone>>
       \/ CloseEntry(p)

DirNext ==
    \E p \in Conns :
        \/ \E id \in ConnIds : Open(p, id)
        \/ Close(p)
        \/ \E m \in Messages : Receive(p, m)

DirSpec == DirInit /\ [][DirNext]_dirVars
=============================================================================
