-------------------------- MODULE StandaloneProofs ---------------------------
(***************************************************************************)
(* Proofs about the simple client and the id generator, and about their    *)
(* union with the hash, whose own proofs are in RendezvousHashProofs.  Any *)
(* number of threads, any widths of the fields of an id, any clock,        *)
(* whatever last_timestamp_ held at first, any number of calls of Connect. *)
(*                                                                         *)
(* None of the properties is inductive.  That the next id of a worker is   *)
(* larger needs what last_timestamp_ and sequence_number_ say of the ids   *)
(* it has issued since the clock was last set (WorkerInv); that two        *)
(* threads differ needs where their numbers come from (NumberInv); that    *)
(* connected_ is reset needs the manager of the pipeline that is up to be  *)
(* the client; that a connection is reported once needs what was reported  *)
(* of an attempt while it was under way (ReportInv), and that only the     *)
(* bootstrap's present pipeline is under way (CurrentInv).                 *)
(***************************************************************************)
EXTENDS Standalone, RendezvousHashProofs, IOThreadPoolProofs

-----------------------------------------------------------------------------
(* The client                                                               *)

USE MaxConnectsAssumption

Links == {"none", "connecting", "up", "closed", "gone"}

\* The types of the variables; reports are kept by kind.
StTypeInv ==
    /\ current \in Connects \cup {0}
    /\ link \in [Connects -> Links]
    /\ manager \subseteq Connects
    /\ isConnected \in BOOLEAN
    /\ listening \in BOOLEAN
    /\ heard \subseteq Connects
    /\ reports \in [Connects -> [Kinds -> Nat]]
    /\ aborted \in {"no", "CHECK", "refused data"}
    /\ destroyed \in BOOLEAN

\* The pipeline of the bootstrap has a socket, and it alone may be connecting or
\* up.
CurrentInv ==
    /\ current # 0 => link[current] # "none"
    /\ \A i \in Connects : link[i] \in {"connecting", "up"} => i = current

\* What was reported of a pipeline, by the state of its socket.
ReportInv ==
    \A i \in Connects :
        /\ link[i] \in {"none", "connecting"} => reports[i] = Silent
        /\ link[i] = "up" => reports[i] = [Silent EXCEPT !["new"] = IF i \in heard THEN 1 ELSE 0]
        /\ reports[i]["new"] <= 1

\* The client manages the pipeline that is up.
ManagerInv == Running /\ Is("up") => current \in manager

\* connected_ and the CHECK of deletePipeline.
TruthInv ==
    /\ Running /\ acts = {} => (isConnected <=> Is("up"))
    /\ aborted = "CHECK" => "connected in OnConnectionClosed" \in acts

StInv == StTypeInv /\ CurrentInv /\ ReportInv /\ ManagerInv /\ TruthInv

-----------------------------------------------------------------------------
(* Pipelines and reports                                                    *)

\* Connect takes a pipeline that has not been used.
LEMMA FreshIsUnused ==
    ASSUME Unused # {}
    PROVE  Fresh \in Connects /\ link[Fresh] = "none"
  <1>1. Unused \subseteq Nat
    BY DEF Unused, Connects
  <1>2. \E i \in Unused : \A j \in Unused : i <= j
    BY <1>1, LeastExists
  <1>3. Fresh \in Unused
    BY <1>2 DEF Fresh
  <1> QED
    BY <1>3 DEF Unused

\* A report of kind k concerns one pipeline and one kind, if it is made at all.
LEMMA ToldEffect ==
    ASSUME NEW r \in [Connects -> [Kinds -> Nat]], NEW i \in Connects, NEW k \in Kinds, NEW q,
           q = r \/ q = [r EXCEPT ![i][k] = @ + 1]
    PROVE  /\ q \in [Connects -> [Kinds -> Nat]]
           /\ \A j \in Connects \ {i} : q[j] = r[j]
           /\ \A l \in Kinds \ {k} : q[i][l] = r[i][l]
  <1>1. CASE q = [r EXCEPT ![i][k] = @ + 1]
    <2>1. q = [r EXCEPT ![i] = [r[i] EXCEPT ![k] = r[i][k] + 1]]
      BY <1>1
    <2>2. r[i] \in [Kinds -> Nat] /\ r[i][k] + 1 \in Nat
      OBVIOUS
    <2>3. [r[i] EXCEPT ![k] = r[i][k] + 1] \in [Kinds -> Nat]
      BY <2>2
    <2> QED
      BY <2>1, <2>2, <2>3
  <1> QED
    BY <1>1

\* A step in which the present pipeline ends, at w, after at most one report of
\* its connection.
EndsAt(w) ==
    /\ current' = current
    /\ link' = [link EXCEPT ![current] = w]
    /\ UNCHANGED heard

\* A step in which a new attempt takes its place.
Replaced ==
    /\ current' \in Connects /\ link[current'] = "none"
    /\ \A i \in Connects : link'[i] = IF i = current' THEN "connecting"
                                      ELSE IF i = current THEN "gone" ELSE link[i]
    /\ heard \subseteq heard' /\ heard' \subseteq heard \cup {current'}

\* What a step may report that ends the present pipeline.
ReportedOnce ==
    /\ \A j \in Connects \ {current} : reports'[j] = reports[j]
    /\ current # 0 => reports'[current]["new"] <= 1

\* The end of a pipeline keeps what is said of pipelines and reports.
LEMMA EndStep ==
    ASSUME StInv, NEW w \in {"closed", "gone"}, current # 0, EndsAt(w), ReportedOnce
    PROVE  CurrentInv' /\ ReportInv' /\ ~Is("up")'
  <1>1. /\ current \in Connects /\ link \in [Connects -> Links]
        /\ link'[current] = w /\ w # "none" /\ w \notin {"none", "connecting", "up"}
        /\ \A j \in Connects \ {current} : link'[j] = link[j] /\ reports'[j] = reports[j]
        /\ current' = current /\ heard' = heard
        /\ reports'[current]["new"] <= 1
    BY DEF StInv, StTypeInv, EndsAt, ReportedOnce
  <1>2. CurrentInv'
    BY <1>1 DEF StInv, CurrentInv
  <1>3. ReportInv'
    <2> SUFFICES ASSUME NEW i \in Connects
                 PROVE  /\ link'[i] \in {"none", "connecting"} => reports'[i] = Silent
                        /\ link'[i] = "up" =>
                              reports'[i] = [Silent EXCEPT !["new"] = IF i \in heard THEN 1 ELSE 0]
                        /\ reports'[i]["new"] <= 1
      BY <1>1 DEF ReportInv
    <2>1. CASE i = current
      BY <1>1, <2>1
    <2>2. CASE i # current
      BY <1>1, <2>2 DEF StInv, ReportInv
    <2> QED
      BY <2>1, <2>2
  <1> QED
    BY <1>1, <1>2, <1>3 DEF Is

\* So does a new attempt.
LEMMA ReplaceStep ==
    ASSUME StInv, Replaced, ReportedOnce
    PROVE  CurrentInv' /\ ReportInv' /\ ~Is("up")' /\ link'[current'] = "connecting"
  <1>1. 0 \notin Connects
    BY DEF Connects
  <1>2. current' # current /\ link'[current'] = "connecting"
    BY <1>1 DEF Replaced, StInv, CurrentInv
  <1>3. CurrentInv'
    BY <1>1, <1>2 DEF StInv, CurrentInv, Replaced
  <1>4. ASSUME NEW i \in Connects
        PROVE  /\ link'[i] \in {"none", "connecting"} => reports'[i] = Silent
               /\ link'[i] = "up" =>
                     reports'[i] = [Silent EXCEPT !["new"] = IF i \in heard' THEN 1 ELSE 0]
               /\ reports'[i]["new"] <= 1
    <2>1. CASE i = current
      BY <1>1, <1>2, <2>1 DEF Replaced, ReportedOnce
    <2>2. CASE i = current'
      BY <1>1, <1>2, <2>2 DEF Replaced, ReportedOnce, StInv, ReportInv
    <2>3. CASE i # current /\ i # current'
      <3>1. link'[i] = link[i] /\ reports'[i] = reports[i] /\ (i \in heard <=> i \in heard')
        BY <2>3 DEF Replaced, ReportedOnce
      <3> QED
        BY <3>1 DEF StInv, ReportInv
    <2> QED
      BY <2>1, <2>2, <2>3
  <1>5. ReportInv'
    BY <1>4 DEF ReportInv
  <1> QED
    BY <1>2, <1>3, <1>5 DEF Is

-----------------------------------------------------------------------------
(* Steps of the client                                                      *)

\* Replace after reports r, which say no more of the connection than reports do.
LEMMA ReplaceEffect ==
    ASSUME StInv, Unused # {}, NEW r \in [Connects -> [Kinds -> Nat]], Replace(r),
           \A j \in Connects \ {current} : r[j] = reports[j],
           current # 0 => r[current]["new"] <= 1
    PROVE  Replaced /\ ReportedOnce /\ reports' \in [Connects -> [Kinds -> Nat]]
           /\ link' \in [Connects -> Links] /\ heard' \subseteq Connects
           /\ current' \in Connects
  <1>1. Fresh \in Connects /\ link[Fresh] = "none" /\ current' = Fresh
    BY FreshIsUnused DEF Replace
  <1>2. /\ link' = [i \in Connects |-> IF i = Fresh THEN "connecting"
                                      ELSE IF i = current THEN "gone" ELSE link[i]]
        /\ heard' = IF listening THEN heard \cup {Fresh} ELSE heard
    BY DEF Replace
  <1> HIDE DEF Fresh
  <1>3. Replaced /\ link' \in [Connects -> Links] /\ heard' \subseteq Connects
    BY <1>1, <1>2 DEF Replaced, StInv, StTypeInv, Links
  <1>4. CASE Is("connecting")
    <2>1. current \in Connects /\ listening \in BOOLEAN /\ "error" \in Kinds /\ "new" \in Kinds
      BY <1>4 DEF Is, StInv, StTypeInv, Kinds
    <2>2. reports' = r \/ reports' = [r EXCEPT ![current]["error"] = @ + 1]
      BY <1>4 DEF Replace, Told
    <2>3. /\ reports' \in [Connects -> [Kinds -> Nat]]
          /\ \A j \in Connects \ {current} : reports'[j] = r[j]
          /\ \A l \in Kinds \ {"error"} : reports'[current][l] = r[current][l]
      BY SMTT(30), <2>1, <2>2, ToldEffect
    <2>4. reports'[current]["new"] = r[current]["new"]
      BY <2>1, <2>2, <2>3
    <2> QED
      BY <1>1, <1>3, <1>4, <2>2, <2>3, <2>4 DEF ReportedOnce, Is
  <1>5. CASE ~Is("connecting")
    <2>1. reports' = r
      BY <1>5 DEF Replace
    <2> QED
      BY <1>1, <1>3, <2>1 DEF ReportedOnce
  <1> QED
    BY <1>4, <1>5

\* Connect: the old pipeline is closed without a word.
LEMMA ConnectStep ==
    ASSUME StInv, Connect
    PROVE  StInv'
  <1>1. /\ Running /\ Unused # {} /\ Replace(reports)
        /\ acts' = IF Is("up") THEN acts \cup {"replaced"} ELSE acts
        /\ UNCHANGED <<manager, isConnected, listening, aborted, destroyed>>
    BY DEF Connect
  <1>2. StTypeInv /\ reports \in [Connects -> [Kinds -> Nat]] /\ current \in Connects \cup {0}
    BY DEF StInv, StTypeInv
  <1>3. current # 0 => reports[current]["new"] <= 1
    BY <1>2 DEF StInv, ReportInv
  <1>4. /\ Replaced /\ ReportedOnce /\ reports' \in [Connects -> [Kinds -> Nat]]
        /\ link' \in [Connects -> Links] /\ heard' \subseteq Connects /\ current' \in Connects
    BY <1>1, <1>2, <1>3, ReplaceEffect
  <1>5. CurrentInv' /\ ReportInv' /\ ~Is("up")'
    BY <1>4, ReplaceStep
  <1>6. StTypeInv'
    BY <1>1, <1>2, <1>4 DEF StTypeInv
  <1>7. TruthInv' /\ ManagerInv'
    BY <1>1, <1>5 DEF TruthInv, ManagerInv, Running, StInv
  <1> QED
    BY <1>5, <1>6, <1>7 DEF StInv

\* connectSuccess, and what the application does inside OnNewConnection.
LEMMA ConnectedStep ==
    ASSUME StInv, Connected
    PROVE  StInv'
  <1> DEFINE r == Told(reports, current, "new", current \in heard)
  <1>1. /\ Running /\ Is("connecting") /\ manager' = manager \cup {current'} /\ isConnected' = TRUE
        /\ UNCHANGED <<listening, aborted, destroyed>>
    BY DEF Connected
  <1>2. /\ StTypeInv /\ reports \in [Connects -> [Kinds -> Nat]] /\ current \in Connects
        /\ link[current] = "connecting" /\ "new" \in Kinds /\ "closed" \in Kinds
        /\ reports[current] = Silent /\ current # 0
    BY <1>1 DEF StInv, StTypeInv, Is, ReportInv, Kinds, Connects
  <1>3. /\ r \in [Connects -> [Kinds -> Nat]]
        /\ \A j \in Connects \ {current} : r[j] = reports[j]
        /\ \A l \in Kinds \ {"new"} : r[current][l] = reports[current][l]
        /\ r[current]["new"] = IF current \in heard THEN reports[current]["new"] + 1
                               ELSE reports[current]["new"]
    <2>1. CASE current \in heard
      <3>1. r = [reports EXCEPT ![current]["new"] = @ + 1]
        BY <2>1 DEF Told
      <3> HIDE DEF r
      <3>2. r[current]["new"] = reports[current]["new"] + 1
        BY <1>2, <3>1
      <3> QED
        BY <1>2, <2>1, <3>1, <3>2, ToldEffect
    <2>2. CASE current \notin heard
      BY <1>2, <2>2 DEF Told
    <2> QED
      BY <2>1, <2>2
  <1>4. Silent["new"] = 0 /\ Silent \in [Kinds -> Nat]
    BY <1>2 DEF Silent
  <1>5. r[current]["new"] <= 1 /\ r[current]["new"] = IF current \in heard THEN 1 ELSE 0
    BY <1>2, <1>3, <1>4
  <1>6. r[current] = [Silent EXCEPT !["new"] = IF current \in heard THEN 1 ELSE 0]
    <2>1. r[current] \in [Kinds -> Nat]
      BY <1>2, <1>3
    <2>2. \A l \in Kinds \ {"new"} : r[current][l] = Silent[l]
      BY <1>2, <1>3
    <2> QED
      BY <1>4, <1>5, <2>1, <2>2
  <1> HIDE DEF r
  <1>7. CASE /\ link' = [link EXCEPT ![current] = "up"]
             /\ reports' = r
             /\ UNCHANGED <<current, heard, acts>>
    <2>1. StTypeInv'
      BY <1>1, <1>2, <1>3, <1>7 DEF StTypeInv, Links
    <2>2. /\ link'[current] = "up" /\ current' = current
          /\ \A j \in Connects \ {current} : link'[j] = link[j] /\ reports'[j] = reports[j]
      BY <1>2, <1>3, <1>7 DEF StTypeInv
    <2>3. CurrentInv'
      BY <2>2 DEF CurrentInv, StInv
    <2>4. ReportInv'
      <3> SUFFICES ASSUME NEW i \in Connects
                   PROVE  /\ link'[i] \in {"none", "connecting"} => reports'[i] = Silent
                          /\ link'[i] = "up" => reports'[i] =
                                [Silent EXCEPT !["new"] = IF i \in heard THEN 1 ELSE 0]
                          /\ reports'[i]["new"] <= 1
        BY <1>7 DEF ReportInv
      <3>1. CASE i = current
        BY <1>5, <1>6, <1>7, <2>2, <3>1
      <3>2. CASE i # current
        BY <2>2, <3>2 DEF StInv, ReportInv
      <3> QED
        BY <3>1, <3>2
    <2>5. Is("up")' /\ current' \in manager'
      BY <1>1, <1>2, <2>2 DEF Is
    <2>6. TruthInv' /\ ManagerInv'
      BY <1>1, <1>7, <2>5 DEF TruthInv, ManagerInv, Running, StInv
    <2> QED
      BY <2>1, <2>3, <2>4, <2>6 DEF StInv
  <1>8. CASE /\ link' = [link EXCEPT ![current] = "closed"]
             /\ reports' = Told(r, current, "closed", TRUE)
             /\ acts' = acts \cup {"closed in OnNewConnection"}
             /\ UNCHANGED <<current, heard>>
    <2>1. /\ reports' \in [Connects -> [Kinds -> Nat]]
          /\ \A j \in Connects \ {current} : reports'[j] = r[j]
          /\ \A l \in Kinds \ {"closed"} : reports'[current][l] = r[current][l]
      <3>1. reports' = [r EXCEPT ![current]["closed"] = @ + 1]
        BY <1>8 DEF Told
      <3> QED
        BY <1>2, <1>3, <3>1, ToldEffect
    <2>2. ReportedOnce /\ EndsAt("closed")
      BY <1>2, <1>3, <1>5, <1>8, <2>1 DEF ReportedOnce, EndsAt
    <2>3. CurrentInv' /\ ReportInv' /\ ~Is("up")'
      BY <1>2, <2>2, EndStep
    <2>4. StTypeInv'
      BY <1>1, <1>2, <1>8, <2>1 DEF StTypeInv, Links
    <2>5. TruthInv' /\ ManagerInv'
      BY <1>1, <1>8, <2>3 DEF TruthInv, ManagerInv, Running, StInv
    <2> QED
      BY <2>3, <2>4, <2>5 DEF StInv
  <1>9. CASE /\ Unused # {}
             /\ current' = Fresh
             /\ link' = [link EXCEPT ![current] = "gone", ![Fresh] = "connecting"]
             /\ heard' = IF listening THEN heard \cup {Fresh} ELSE heard
             /\ reports' = r
             /\ acts' = acts \cup {"connected in OnNewConnection"}
    <2>1. Fresh \in Connects /\ link[Fresh] = "none" /\ Fresh # current
      BY <1>2, <1>9, FreshIsUnused
    <2>2. Replaced /\ ReportedOnce
      BY <1>2, <1>3, <1>5, <1>9, <2>1 DEF Replaced, ReportedOnce, StTypeInv
    <2>3. CurrentInv' /\ ReportInv' /\ ~Is("up")'
      BY <2>2, ReplaceStep
    <2>4. StTypeInv'
      BY <1>1, <1>2, <1>3, <1>9, <2>1 DEF StTypeInv, Links
    <2>5. TruthInv' /\ ManagerInv'
      BY <1>1, <1>9, <2>3 DEF TruthInv, ManagerInv, Running, StInv
    <2> QED
      BY <2>3, <2>4, <2>5 DEF StInv
  <1> QED
    BY <1>7, <1>8, <1>9 DEF Connected, r

\* connectErr, and the application that tries again inside OnConnectionError.
LEMMA ConnectErrorStep ==
    ASSUME StInv, ConnectError
    PROVE  StInv'
  <1> DEFINE r == Told(reports, current, "error", listening)
  <1>1. /\ Running /\ Is("connecting")
        /\ UNCHANGED <<manager, isConnected, listening, aborted, acts, destroyed>>
        /\ reports' = r
    BY DEF ConnectError
  <1>2. /\ StTypeInv /\ reports \in [Connects -> [Kinds -> Nat]] /\ current \in Connects
        /\ link[current] = "connecting" /\ "new" \in Kinds /\ "error" \in Kinds
        /\ reports[current]["new"] <= 1 /\ current # 0
    BY <1>1 DEF StInv, StTypeInv, Is, ReportInv, Kinds, Connects
  <1>3. r = reports \/ r = [reports EXCEPT ![current]["error"] = @ + 1]
    BY DEF Told
  <1> HIDE DEF r
  <1>4. /\ r \in [Connects -> [Kinds -> Nat]]
        /\ \A j \in Connects \ {current} : r[j] = reports[j]
        /\ \A l \in Kinds \ {"error"} : r[current][l] = reports[current][l]
    BY <1>2, <1>3, ToldEffect
  <1>5. ReportedOnce
    BY <1>1, <1>2, <1>4 DEF ReportedOnce
  <1>6. ~Is("up")
    BY <1>2 DEF Is
  <1>7. CASE link' = [link EXCEPT ![current] = "closed"] /\ UNCHANGED <<current, heard>>
    <2>1. CurrentInv' /\ ReportInv' /\ ~Is("up")'
      BY <1>2, <1>5, <1>7, EndStep DEF EndsAt
    <2>2. StTypeInv'
      BY <1>1, <1>2, <1>4, <1>7 DEF StTypeInv, Links
    <2>3. TruthInv' /\ ManagerInv'
      BY <1>1, <1>6, <2>1 DEF TruthInv, ManagerInv, Running, StInv
    <2> QED
      BY <2>1, <2>2, <2>3 DEF StInv
  <1>8. CASE /\ Unused # {}
             /\ current' = Fresh
             /\ link' = [link EXCEPT ![current] = "gone", ![Fresh] = "connecting"]
             /\ heard' = heard \cup {Fresh}
    <2>1. Fresh \in Connects /\ link[Fresh] = "none" /\ Fresh # current
      BY <1>2, <1>8, FreshIsUnused
    <2>2. Replaced
      BY <1>2, <1>8, <2>1 DEF Replaced, StTypeInv
    <2>3. CurrentInv' /\ ReportInv' /\ ~Is("up")'
      BY <1>5, <2>2, ReplaceStep
    <2>4. StTypeInv'
      BY <1>1, <1>2, <1>4, <1>8, <2>1 DEF StTypeInv, Links
    <2>5. TruthInv' /\ ManagerInv'
      BY <1>1, <1>6, <2>3 DEF TruthInv, ManagerInv, Running, StInv
    <2> QED
      BY <2>3, <2>4, <2>5 DEF StInv
  <1> QED
    BY <1>7, <1>8 DEF ConnectError

\* close of the present pipeline, in whatever state it is, and deletePipeline.
LEMMA CloseStep ==
    ASSUME StInv, Close
    PROVE  StInv'
  <1> DEFINE r == Told(reports, current, "closed", current \in heard)
  <1>1. /\ Running /\ current # 0 /\ SimpleDelete(current)
        /\ UNCHANGED <<manager, listening, destroyed>>
    BY DEF Close, Is
  <1>2. /\ StTypeInv /\ reports \in [Connects -> [Kinds -> Nat]] /\ current \in Connects
        /\ "new" \in Kinds /\ "error" \in Kinds /\ "closed" \in Kinds
        /\ reports[current]["new"] <= 1
    BY <1>1 DEF StInv, StTypeInv, ReportInv, Kinds, Connects
  <1>3. r = reports \/ r = [reports EXCEPT ![current]["closed"] = @ + 1]
    BY DEF Told
  <1> HIDE DEF r
  <1>4. /\ r \in [Connects -> [Kinds -> Nat]]
        /\ \A j \in Connects \ {current} : r[j] = reports[j]
        /\ \A l \in Kinds \ {"closed"} : r[current][l] = reports[current][l]
    BY SMTT(30), <1>2, <1>3, ToldEffect
  <1>5. /\ isConnected' \in BOOLEAN
        /\ aborted' \in {"no", "CHECK", "refused data"}
        /\ current' = current => aborted' = aborted
        /\ isConnected' = FALSE \/ current' # current
              \/ (isConnected' = isConnected /\ current \notin manager)
    BY <1>1, <1>2 DEF SimpleDelete, StTypeInv
  <1>6. CASE /\ link' = [link EXCEPT ![current] = "closed"]
             /\ reports' = Told(r, current, "error", listening /\ Is("connecting"))
             /\ UNCHANGED <<current, heard, acts>>
    <2>1. reports' = r \/ reports' = [r EXCEPT ![current]["error"] = @ + 1]
      BY <1>6 DEF Told
    <2>2. /\ reports' \in [Connects -> [Kinds -> Nat]]
          /\ \A j \in Connects \ {current} : reports'[j] = r[j]
          /\ \A l \in Kinds \ {"error"} : reports'[current][l] = r[current][l]
      BY <1>2, <1>4, <2>1, ToldEffect
    <2>3. ReportedOnce
      BY <1>2, <1>4, <2>2 DEF ReportedOnce
    <2>4. CurrentInv' /\ ReportInv' /\ ~Is("up")'
      BY <1>1, <1>6, <2>3, EndStep DEF EndsAt
    <2>5. StTypeInv'
      BY <1>1, <1>2, <1>5, <1>6, <2>2 DEF StTypeInv, Links
    <2>6. acts = {} => ~isConnected'
      BY <1>1, <1>5, <1>6 DEF StInv, ManagerInv, TruthInv
    <2>7. TruthInv' /\ ManagerInv'
      BY <1>1, <1>5, <1>6, <2>4, <2>6 DEF TruthInv, ManagerInv, StInv
    <2> QED
      BY <2>4, <2>5, <2>7 DEF StInv
  <1>7. CASE /\ Unused # {} /\ Replace(r)
             /\ acts' = acts \cup {"connected in OnConnectionClosed"}
    <2>1. current # 0 => r[current]["new"] <= 1
      BY <1>2, <1>4
    <2>2. /\ Replaced /\ ReportedOnce /\ reports' \in [Connects -> [Kinds -> Nat]]
          /\ link' \in [Connects -> Links] /\ heard' \subseteq Connects /\ current' \in Connects
      BY <1>4, <1>7, <2>1, ReplaceEffect
    <2>3. CurrentInv' /\ ReportInv' /\ ~Is("up")'
      BY <2>2, ReplaceStep
    <2>4. StTypeInv'
      BY <1>1, <1>2, <1>5, <2>2 DEF StTypeInv
    <2>5. TruthInv' /\ ManagerInv'
      BY <1>7, <2>3 DEF TruthInv, ManagerInv
    <2> QED
      BY <2>3, <2>4, <2>5 DEF StInv
  <1> QED
    BY <1>6, <1>7 DEF Close, r

\* ~SimpleTcpClient: the pipeline goes, and with it the client's claims.
LEMMA DestroyStep ==
    ASSUME StInv, Destroy
    PROVE  StInv'
  <1>1. /\ Running /\ destroyed' = TRUE /\ manager' = manager \ {current}
        /\ link' = [i \in Connects |-> IF i = current THEN "gone" ELSE link[i]]
        /\ UNCHANGED <<current, isConnected, listening, heard, aborted, acts>>
    BY DEF Destroy
  <1>2. StTypeInv /\ reports \in [Connects -> [Kinds -> Nat]]
    BY DEF StInv, StTypeInv
  <1>3. /\ reports' \in [Connects -> [Kinds -> Nat]]
        /\ \A j \in Connects \ {current} : reports'[j] = reports[j]
        /\ current # 0 => reports'[current]["new"] = reports[current]["new"]
    <2>1. CASE Is("connecting")
      <3>1. current \in Connects /\ "error" \in Kinds /\ "new" \in Kinds \ {"error"}
        BY <1>2, <2>1 DEF Is, StTypeInv, Kinds
      <3>2. reports' = reports \/ reports' = [reports EXCEPT ![current]["error"] = @ + 1]
        BY <2>1 DEF Destroy, Told
      <3> QED
        BY <1>2, <3>1, <3>2, ToldEffect
    <2>2. CASE ~Is("connecting")
      BY <1>2, <2>2 DEF Destroy
    <2> QED
      BY <2>1, <2>2
  <1>4. StTypeInv'
    BY <1>1, <1>2, <1>3 DEF StTypeInv, Links
  <1>5. TruthInv' /\ ManagerInv'
    BY <1>1 DEF TruthInv, ManagerInv, Running, StInv
  <1>6. CASE current = 0
    <2>1. 0 \notin Connects
      BY DEF Connects
    <2>2. link' = link /\ \A j \in Connects : reports'[j] = reports[j]
      BY <1>1, <1>2, <1>3, <1>6, <2>1 DEF StTypeInv
    <2>3. CurrentInv' /\ ReportInv'
      BY <1>1, <2>2 DEF CurrentInv, ReportInv, StInv
    <2> QED
      BY <1>4, <1>5, <2>3 DEF StInv
  <1>7. CASE current # 0
    <2>1. current \in Connects
      BY <1>2, <1>7 DEF StTypeInv
    <2>2. EndsAt("gone")
      BY <1>1, <1>2, <2>1 DEF EndsAt, StTypeInv
    <2>3. ReportedOnce
      BY <1>3, <1>7, <2>1 DEF ReportedOnce, StInv, ReportInv
    <2>4. CurrentInv' /\ ReportInv'
      BY <1>7, <2>2, <2>3, EndStep
    <2> QED
      BY <1>4, <1>5, <2>4 DEF StInv
  <1> QED
    BY <1>6, <1>7

\* The client starts without a pipeline.
LEMMA StInitInv ==
    StInit => StInv
  <1> SUFFICES ASSUME StInit PROVE StInv
    OBVIOUS
  <1>1. Silent \in [Kinds -> Nat] /\ Silent["new"] = 0
    BY DEF Silent, Kinds
  <1>2. StTypeInv
    BY <1>1 DEF StInit, StTypeInv, Links
  <1>3. ReportInv
    BY <1>1 DEF StInit, ReportInv
  <1>4. CurrentInv /\ ManagerInv /\ TruthInv
    BY DEF StInit, CurrentInv, ManagerInv, TruthInv, Is, Running
  <1> QED
    BY <1>2, <1>3, <1>4 DEF StInv

\* Every step keeps the invariant.
LEMMA StNextInv ==
    ASSUME StInv, [StNext]_stVars
    PROVE  StInv'
  <1>1. CASE RefusedData
    <2>1. /\ aborted' = "refused data"
          /\ UNCHANGED <<current, link, manager, isConnected, listening, heard, reports, acts,
                         destroyed>>
      BY <1>1 DEF RefusedData
    <2>2. StTypeInv' /\ CurrentInv' /\ ReportInv'
      BY <2>1 DEF StInv, StTypeInv, CurrentInv, ReportInv
    <2>3. ManagerInv' /\ TruthInv'
      BY <2>1 DEF StInv, ManagerInv, TruthInv, Running
    <2> QED
      BY <2>2, <2>3 DEF StInv
  <1>2. CASE SetCallback
    <2>1. /\ listening' = ~listening
          /\ UNCHANGED <<current, link, manager, isConnected, heard, reports, aborted, acts,
                         destroyed>>
      BY <1>2 DEF SetCallback
    <2>2. listening' \in BOOLEAN
      BY <2>1
    <2>3. StTypeInv' /\ CurrentInv' /\ ReportInv'
      BY <2>1, <2>2 DEF StInv, StTypeInv, CurrentInv, ReportInv
    <2>4. ManagerInv' /\ TruthInv'
      BY <2>1 DEF StInv, ManagerInv, TruthInv, Running, Is
    <2> QED
      BY <2>3, <2>4 DEF StInv
  <1>3. CASE UNCHANGED stVars
    <2>1. StTypeInv' /\ CurrentInv' /\ ReportInv'
      BY <1>3 DEF stVars, StInv, StTypeInv, CurrentInv, ReportInv
    <2>2. ManagerInv' /\ TruthInv'
      BY <1>3 DEF stVars, StInv, ManagerInv, TruthInv, Running, Is
    <2> QED
      BY <2>1, <2>2 DEF StInv
  <1> QED
    BY <1>1, <1>2, <1>3, ConnectStep, ConnectedStep, ConnectErrorStep, CloseStep, DestroyStep
    DEF StNext

-----------------------------------------------------------------------------
(* Theorems about the client                                                *)

\* The inductive invariant holds in every reachable state.
THEOREM StInvariant == StSpec => []StInv
  <1>1. StInit => StInv
    BY StInitInv
  <1>2. StInv /\ [StNext]_stVars => StInv'
    BY StNextInv
  <1> QED
    BY <1>1, <1>2, PTL DEF StSpec

\* connected_ tells the truth, deletePipeline's CHECK holds, and each connection
\* is reported once, for every order of attempts, failures and closes.
THEOREM ClientTellsTruth == StSpec => []ConnectedTruthful
  <1>1. ASSUME StInv, Is("up")
        PROVE  reports[current] = [Silent EXCEPT !["new"] = IF current \in heard THEN 1 ELSE 0]
    BY <1>1 DEF StInv, StTypeInv, ReportInv, Is
  <1>2. StInv => ConnectedTruthful
    BY <1>1 DEF StInv, TruthInv, ReportInv, ConnectedTruthful
  <1> QED
    BY <1>2, StInvariant, PTL

-----------------------------------------------------------------------------
(* The id generator                                                         *)

USE TimeAssumption, GarbageAssumption, SlotAssumption, GivenAssumption, SeqAssumption,
    BoundAssumption, StaticAssumption

\* An id carries the fields of its worker, and the clock's epoch or an earlier.
EntryInv ==
    \A j \in DOMAIN log :
        /\ log[j].by \in created
        /\ log[j].number = number[log[j].by]
        /\ log[j].epoch <= epoch

\* The ids of the present epoch are no later than last_timestamp_, which the
\* clock has not passed backwards, and those of that millisecond have no larger
\* sequence number unless the sequence started over or is about to.
WorkerInv ==
    \A j \in DOMAIN log :
        LET e == log[j]
        IN  e.epoch = epoch =>
                /\ e.at <= last[e.by] /\ last[e.by] <= now
                /\ e.at = last[e.by] =>
                      e.seq <= seq[e.by] \/ e.by \in waiting \/ <<e.by, e.at>> \in wrapped

\* Until g_thread_id wraps it counts the threads, and each gets its own number.
NumberInv ==
    /\ made < NumberSpace => nextNumber = made
    /\ made <= NumberSpace =>
          /\ \A t \in Callers \cap created : number[t] < made
          /\ \A t, u \in Callers \cap created : number[t] = number[u] => t = u

\* IdsOrdered, said of the times instead of their residues.
OrderInv ==
    \A j, k \in DOMAIN log :
        LET e == log[j]
            f == log[k]
        IN  j < k /\ e.by = f.by /\ e.epoch = f.epoch =>
                \/ e.at < f.at
                \/ e.at = f.at /\ (e.seq < f.seq \/ <<e.by, e.at>> \in wrapped)

SfInv == SfTypeOK /\ EntryInv /\ WorkerInv /\ NumberInv /\ OrderInv

-----------------------------------------------------------------------------
(* Arithmetic of the fields of an id                                        *)

\* Two times of the same turn of the time stamp are ordered as their residues.
LEMMA StampOrder ==
    ASSUME NEW a \in Nat, NEW b \in Nat, NEW m \in Nat \ {0}, a \div m = b \div m
    PROVE  (a < b => a % m < b % m) /\ (a = b => a % m = b % m)
  <1>1. /\ a = m * (a \div m) + (a % m)
        /\ b = m * (b \div m) + (b % m)
        /\ a \div m \in Nat /\ a % m \in Nat /\ b % m \in Nat
    BY Z3
  <1> DEFINE p == m * (a \div m)
  <1>2. p \in Nat /\ a = p + (a % m) /\ b = p + (b % m)
    BY <1>1
  <1> HIDE DEF p
  <1> QED
    BY <1>1, <1>2

\* A remainder is below its divisor and not above its dividend.
LEMMA RemainderBound ==
    ASSUME NEW m \in Nat \ {0}
    PROVE  \A n \in Nat : n % m \in Nat /\ n % m < m /\ n % m <= n
  BY Z3

\* Different numbers with the same residue are a multiple apart.
LEMMA SlotApart ==
    ASSUME NEW a \in Nat, NEW b \in Nat, NEW m \in Nat \ {0}, a % m = b % m, a # b
    PROVE  a - b >= m \/ b - a >= m
  <1> DEFINE p == a \div m
             q == b \div m
  <1>1. /\ a = m * p + (a % m) /\ b = m * q + (b % m)
        /\ p \in Nat /\ q \in Nat /\ a % m \in Nat /\ b % m \in Nat
    BY Z3
  <1> HIDE DEF p, q
  <1>2. ASSUME NEW x \in Nat, NEW y \in Nat, x > y
        PROVE  m * x - m * y >= m
    <2>1. m * x - m * y = m * (x - y) /\ x - y \in Nat /\ x - y >= 1
      BY <1>2
    <2>2. \A d \in Nat : d >= 1 => m * d >= m
      BY Z3
    <2> QED
      BY <2>1, <2>2
  <1>3. p # q
    BY <1>1
  <1>4. CASE p > q
    <2>1. m * p - m * q >= m
      BY <1>1, <1>2, <1>4
    <2>2. a - b = m * p - m * q
      BY <1>1
    <2> QED
      BY <2>1, <2>2
  <1>5. CASE q > p
    <2>1. m * q - m * p >= m
      BY <1>1, <1>2, <1>5
    <2>2. b - a = m * q - m * p
      BY <1>1
    <2> QED
      BY <2>1, <2>2
  <1> QED
    BY <1>1, <1>3, <1>4, <1>5

-----------------------------------------------------------------------------
(* Steps of the id generator                                                *)

\* The log after an id was issued.
Issued(w, s) ==
    /\ log' \in Seq(Entries)
    /\ DOMAIN log' = 1 .. Len(log) + 1
    /\ \A j \in DOMAIN log : j < Len(log) + 1 /\ j \in DOMAIN log' /\ log'[j] = log[j]
    /\ \A j \in DOMAIN log' : j \in DOMAIN log \/ j = Len(log) + 1
    /\ LET e == log'[Len(log) + 1]
       IN  /\ e.by = w /\ e.number = number[w] /\ e.at = now /\ e.seq = s
           /\ e.epoch = epoch
    /\ last' \in [Workers -> Times]
    /\ last'[w] = now
    /\ \A v \in Workers \ {w} : last'[v] = last[v]

\* Issue appends the id and notes the time.
LEMMA IssueEffect ==
    ASSUME SfTypeOK, NEW w \in Workers, NEW s \in 0 .. SeqSpace - 1, Issue(w, now, s)
    PROVE  Issued(w, s)
  <1> DEFINE e == [by |-> w, number |-> number[w], server |-> server[w],
                   at |-> now, seq |-> s, epoch |-> epoch]
  <1>1. log \in Seq(Entries) /\ log' = Append(log, e) /\ now \in Times
    BY DEF SfTypeOK, Issue
  <1>2. e \in Entries
    BY DEF SfTypeOK, Entries
  <1>3. e.by = w /\ e.number = number[w] /\ e.at = now /\ e.seq = s /\ e.epoch = epoch
    OBVIOUS
  <1> HIDE DEF e
  <1>4. /\ log' \in Seq(Entries) /\ Len(log') = Len(log) + 1
        /\ \A j \in 1 .. Len(log) : log'[j] = log[j]
        /\ log'[Len(log) + 1] = e
    BY <1>1, <1>2, AppendProperties
  <1>5. DOMAIN log = 1 .. Len(log) /\ DOMAIN log' = 1 .. Len(log) + 1 /\ Len(log) \in Nat
    BY <1>1, <1>4, LenProperties
  <1>6. /\ last' \in [Workers -> Times] /\ last'[w] = now
        /\ \A v \in Workers \ {w} : last'[v] = last[v]
    BY <1>1 DEF SfTypeOK, Issue
  <1> QED
    BY <1>3, <1>4, <1>5, <1>6 DEF Issued

\* The fields of an issued id.
LEMMA EntryTypes ==
    ASSUME SfTypeOK, NEW j \in DOMAIN log
    PROVE  /\ log[j].by \in Workers /\ log[j].at \in Times /\ log[j].at \in Nat
           /\ log[j].seq \in Nat /\ log[j].epoch \in Nat /\ log[j].number \in Nat
           /\ j \in Nat
  <1>1. log \in Seq(Entries) /\ log[j] \in Entries /\ j \in Nat
    BY LenProperties, ElementOfSeq DEF SfTypeOK
  <1> QED
    BY <1>1 DEF Entries, Times

\* Worker w issues an id at the present time: what it has issued in this
\* millisecond is smaller, or the sequence has started over.
LEMMA IssueStep ==
    ASSUME SfInv, NEW w \in created, NEW s \in 0 .. SeqSpace - 1, Issued(w, s),
           seq' \in [Workers -> 0 .. SeqSpace - 1],
           s <= seq'[w], \A v \in Workers \ {w} : seq'[v] = seq[v],
           waiting \ {w} \subseteq waiting', wrapped \subseteq wrapped',
           UNCHANGED <<clockVars, workerVars>>,
           \A j \in DOMAIN log :
              log[j].by = w /\ log[j].epoch = epoch /\ log[j].at = now =>
                 log[j].seq < s \/ <<w, now>> \in wrapped'
    PROVE  EntryInv' /\ WorkerInv' /\ NumberInv' /\ OrderInv'
  <1> USE DEF SfInv, clockVars, workerVars
  <1> DEFINE new == Len(log) + 1
  <1>1. /\ w \in Workers /\ now \in Nat /\ epoch \in Nat /\ seq[w] \in Nat
        /\ last \in [Workers -> Times] /\ Times \subseteq Nat /\ s \in Nat
    <2>1. /\ w \in Workers /\ now \in Times /\ epoch \in Nat /\ seq[w] \in 0 .. SeqSpace - 1
          /\ last \in [Workers -> Times]
      BY DEF SfTypeOK
    <2> QED
      BY <2>1 DEF Times
  <1>2. /\ \A j \in DOMAIN log : j < new /\ j \in DOMAIN log' /\ log'[j] = log[j]
        /\ \A j \in DOMAIN log' : j \in DOMAIN log \/ j = new
        /\ log'[new].by = w /\ log'[new].number = number[w] /\ log'[new].at = now
        /\ log'[new].seq = s /\ log'[new].epoch = epoch
        /\ last'[w] = now
        /\ \A v \in Workers \ {w} : last'[v] = last[v]
    BY DEF Issued
  <1>3. new \in Nat
    BY LenProperties DEF SfTypeOK
  <1> HIDE DEF new
  <1>4. EntryInv'
    <2> SUFFICES ASSUME NEW j \in DOMAIN log'
                 PROVE  /\ log'[j].by \in created /\ log'[j].number = number[log'[j].by]
                        /\ log'[j].epoch <= epoch
      BY DEF EntryInv
    <2> QED
      BY <1>1, <1>2 DEF EntryInv
  <1>5. WorkerInv'
    <2> SUFFICES ASSUME NEW j \in DOMAIN log', log'[j].epoch = epoch
                 PROVE  /\ log'[j].at <= last'[log'[j].by] /\ last'[log'[j].by] <= now
                        /\ log'[j].at = last'[log'[j].by] =>
                              \/ log'[j].seq <= seq'[log'[j].by] \/ log'[j].by \in waiting'
                              \/ <<log'[j].by, log'[j].at>> \in wrapped'
      BY DEF WorkerInv
    <2>1. CASE j = new
      BY <1>1, <1>2, <2>1
    <2>2. CASE j \in DOMAIN log
      <3> DEFINE v == log[j].by
      <3>1. /\ log'[j] = log[j] /\ v \in Workers /\ log[j].at \in Nat /\ log[j].seq \in Nat
            /\ last[v] \in Nat
        BY <1>1, <1>2, <2>2, EntryTypes
      <3>2. /\ log[j].at <= last[v] /\ last[v] <= now
            /\ log[j].at = last[v] =>
                  log[j].seq <= seq[v] \/ v \in waiting \/ <<v, log[j].at>> \in wrapped
        BY <2>2, <3>1 DEF WorkerInv
      <3>3. CASE v # w
        BY <1>2, <3>1, <3>2, <3>3
      <3>4. CASE v = w
        <4>1. log[j].at <= now
          BY <1>1, <3>1, <3>2
        <4>2. log[j].at = now => log[j].seq < s \/ <<w, now>> \in wrapped'
          BY <2>2, <3>1, <3>4
        <4>3. log[j].seq < s => log[j].seq <= seq'[w]
          <5>1. seq'[w] \in Nat
            BY <1>1
          <5> QED
            BY <1>1, <3>1, <5>1
        <4> QED
          BY <1>1, <1>2, <3>1, <3>4, <4>1, <4>2, <4>3
      <3> QED
        BY <3>3, <3>4
    <2> QED
      BY <1>2, <2>1, <2>2
  <1>6. OrderInv'
    <2> SUFFICES ASSUME NEW j \in DOMAIN log', NEW k \in DOMAIN log', j < k,
                        log'[j].by = log'[k].by, log'[j].epoch = log'[k].epoch
                 PROVE  \/ log'[j].at < log'[k].at
                        \/ /\ log'[j].at = log'[k].at
                           /\ \/ log'[j].seq < log'[k].seq
                              \/ <<log'[j].by, log'[j].at>> \in wrapped'
      BY DEF OrderInv
    <2>1. CASE k \in DOMAIN log
      <3>1. j \in DOMAIN log
        BY <1>2, <1>3, <2>1, EntryTypes
      <3> QED
        BY <1>2, <2>1, <3>1 DEF OrderInv
    <2>2. CASE k = new
      <3>1. j \in DOMAIN log
        BY <1>2, <1>3, <2>2
      <3>2. /\ log'[j] = log[j] /\ log[j].by = w /\ log[j].epoch = epoch
            /\ log[j].at \in Nat /\ last[w] \in Nat
        BY <1>1, <1>2, <2>2, <3>1, EntryTypes
      <3>3. log[j].at <= now
        <4>1. log[j].epoch = epoch =>
                 log[j].at <= last[log[j].by] /\ last[log[j].by] <= now
          BY <3>1 DEF WorkerInv
        <4> QED
          BY <1>1, <3>2, <4>1
      <3> QED
        BY <1>1, <1>2, <2>2, <3>1, <3>2, <3>3
    <2> QED
      BY <1>2, <2>1, <2>2
  <1>7. NumberInv'
    BY DEF NumberInv
  <1> QED
    BY <1>4, <1>5, <1>6, <1>7

\* Nothing is issued, no worker changes and the clock is not set back.
LEMMA QuietStep ==
    ASSUME SfInv, UNCHANGED <<epoch, workerVars, last, log, wrapped>>,
           now' \in Nat, now <= now', waiting \subseteq waiting',
           \A v \in Workers : seq'[v] = seq[v] \/ v \in waiting'
    PROVE  EntryInv' /\ WorkerInv' /\ NumberInv' /\ OrderInv'
  <1> USE DEF SfInv, workerVars
  <1>1. EntryInv' /\ NumberInv' /\ OrderInv'
    BY DEF EntryInv, NumberInv, OrderInv
  <1>2. WorkerInv'
    <2> SUFFICES ASSUME NEW j \in DOMAIN log, log[j].epoch = epoch
                 PROVE  /\ log[j].at <= last[log[j].by] /\ last[log[j].by] <= now'
                        /\ log[j].at = last[log[j].by] =>
                              \/ log[j].seq <= seq'[log[j].by] \/ log[j].by \in waiting'
                              \/ <<log[j].by, log[j].at>> \in wrapped
      BY DEF WorkerInv
    <2>1. /\ log[j].at <= last[log[j].by] /\ last[log[j].by] <= now
          /\ log[j].at = last[log[j].by] =>
                \/ log[j].seq <= seq[log[j].by] \/ log[j].by \in waiting
                \/ <<log[j].by, log[j].at>> \in wrapped
      BY DEF WorkerInv
    <2>2. log[j].by \in Workers
      BY EntryTypes
    <2>3. last[log[j].by] \in Nat /\ now \in Nat
      BY <2>2 DEF SfTypeOK, Times
    <2> QED
      BY <2>1, <2>2, <2>3
  <1> QED
    BY <1>1, <1>2

\* The clock is set back: no id of the new epoch exists.
LEMMA SetBackStep ==
    ASSUME SfInv, SetBack
    PROVE  SfInv'
  <1> USE DEF SfInv, SetBack, givenVars, workerVars
  <1>1. epoch \in Nat /\ epoch' = epoch + 1 /\ now' \in Times /\ epoch' \in 0 .. MaxSetBacks
    BY DEF SfTypeOK, Times
  <1>2. SfTypeOK'
    BY <1>1 DEF SfTypeOK
  <1>3. \A j \in DOMAIN log : log[j].epoch \in Nat /\ log[j].epoch <= epoch
    BY EntryTypes DEF EntryInv
  <1>4. EntryInv' /\ NumberInv' /\ OrderInv'
    BY <1>1, <1>3 DEF EntryInv, NumberInv, OrderInv
  <1>5. WorkerInv'
    BY <1>1, <1>3 DEF WorkerInv
  <1> QED
    BY <1>2, <1>4, <1>5

\* A worker is constructed: it has issued nothing.
LEMMA ConstructStep ==
    ASSUME SfInv, NEW w \in Workers, NEW n \in Nat, Construct(w, n),
           \/ /\ w \in Callers /\ n = nextNumber
              /\ nextNumber' = NextNumber(nextNumber) /\ made' = made + 1
           \/ w = Static /\ UNCHANGED <<nextNumber, made>>
    PROVE  SfInv'
  <1> USE DEF SfInv
  <1>1. /\ w \notin created /\ created' = created \cup {w}
        /\ number' = [number EXCEPT ![w] = n]
        /\ server' = [server EXCEPT ![w] = workerId]
        /\ UNCHANGED <<now, epoch, workerId, dataCenter, seq, waiting, log, wrapped>>
    BY DEF Construct, clockVars, givenVars
  <1>2. PICK g \in Garbage : last' = [last EXCEPT ![w] = g]
    BY DEF Construct
  <1>3. nextNumber \in Nat /\ nextNumber < NumberSpace /\ made \in Nat
    BY DEF SfTypeOK
  <1>4. nextNumber' \in 0 .. NumberSpace - 1 /\ made' \in Nat
    BY <1>3 DEF NextNumber
  <1>5. SfTypeOK'
    <2>1. workerId \in Nat /\ g \in Times
      BY DEF SfTypeOK, Times
    <2> QED
      BY <1>1, <1>2, <1>4, <2>1 DEF SfTypeOK
  <1>6. \A v \in created : v # w /\ last'[v] = last[v] /\ number'[v] = number[v]
    BY <1>1, <1>2 DEF SfTypeOK
  <1>7. \A j \in DOMAIN log : log[j].by \in created
    BY DEF EntryInv
  <1>8. EntryInv'
    BY <1>1, <1>6, <1>7 DEF EntryInv
  <1>9. WorkerInv' /\ OrderInv'
    BY <1>1, <1>6, <1>7 DEF WorkerInv, OrderInv
  <1>10. NumberInv'
    <2>1. CASE w = Static /\ UNCHANGED <<nextNumber, made>>
      <3>1. Callers \cap created' = Callers \cap created
        BY <1>1, <2>1
      <3> QED
        BY <1>6, <2>1, <3>1 DEF NumberInv
    <2>2. CASE /\ w \in Callers /\ n = nextNumber
               /\ nextNumber' = NextNumber(nextNumber) /\ made' = made + 1
      <3>1. made' < NumberSpace => nextNumber' = made'
        BY <1>3, <2>2 DEF NumberInv, NextNumber
      <3>2. ASSUME made' <= NumberSpace
            PROVE  /\ \A t \in Callers \cap created' : number'[t] < made'
                   /\ \A t, u \in Callers \cap created' : number'[t] = number'[u] => t = u
        <4>1. made < NumberSpace /\ n = made /\ number'[w] = made
          BY <1>1, <1>3, <2>2, <3>2 DEF NumberInv, SfTypeOK
        <4>2. \A t \in Callers \cap created : number[t] \in Nat /\ number[t] < made
          BY <1>3, <4>1 DEF NumberInv, SfTypeOK
        <4>3. \A t, u \in Callers \cap created : number[t] = number[u] => t = u
          BY <1>3, <4>1 DEF NumberInv
        <4>4. \A t \in Callers \cap created' : t = w \/ t \in Callers \cap created
          BY <1>1
        <4>5. \A t \in Callers \cap created' : number'[t] < made'
          BY <1>3, <1>6, <2>2, <4>1, <4>2, <4>4
        <4>6. ASSUME NEW t \in Callers \cap created', NEW u \in Callers \cap created',
                     number'[t] = number'[u]
              PROVE  t = u
          BY <1>3, <1>6, <4>1, <4>2, <4>3, <4>4, <4>6
        <4> QED
          BY <4>5, <4>6
      <3> QED
        BY <3>1, <3>2 DEF NumberInv
    <2> QED
      BY <2>1, <2>2
  <1> QED
    BY <1>5, <1>8, <1>9, <1>10

\* The next sequence number fits into its bits, and grows unless it is 0.
LEMMA NextSeqRange ==
    ASSUME NEW s \in 0 .. SeqSpace - 1
    PROVE  /\ NextSeq(s) \in 0 .. SeqSpace - 1
           /\ NextSeq(s) # 0 => NextSeq(s) = s + 1
  BY DEF NextSeq

\* GetNextID in another millisecond than the last one.
LEMMA NewMillisecondStep ==
    ASSUME SfInv, NEW w \in Workers, NewMillisecond(w)
    PROVE  SfInv'
  <1> USE DEF SfInv
  <1>1. /\ w \in created /\ last[w] # now
        /\ seq' = [seq EXCEPT ![w] = 0] /\ Issue(w, now, 0)
        /\ UNCHANGED <<clockVars, givenVars, workerVars, waiting, wrapped>>
    BY DEF NewMillisecond, Ready
  <1>2. 0 \in 0 .. SeqSpace - 1
    OBVIOUS
  <1>3. Issued(w, 0)
    BY <1>1, <1>2, IssueEffect
  <1>4. seq' \in [Workers -> 0 .. SeqSpace - 1] /\ seq'[w] = 0
        /\ \A v \in Workers \ {w} : seq'[v] = seq[v]
    BY <1>1, <1>2 DEF SfTypeOK
  <1>5. ASSUME NEW j \in DOMAIN log, log[j].by = w, log[j].epoch = epoch
        PROVE  log[j].at # now
    <2>1. log[j].at <= last[log[j].by] /\ last[log[j].by] <= now
      BY <1>5 DEF WorkerInv
    <2>2. last[w] \in Nat /\ now \in Nat
      BY DEF SfTypeOK, Times
    <2>3. log[j].at \in Nat
      BY EntryTypes
    <2> QED
      BY <1>1, <1>5, <2>1, <2>2, <2>3
  <1>6. 0 <= seq'[w]
    BY <1>4
  <1>7. EntryInv' /\ WorkerInv' /\ NumberInv' /\ OrderInv'
    BY <1>1, <1>2, <1>3, <1>4, <1>5, <1>6, IssueStep
  <1>8. SfTypeOK'
    BY <1>1, <1>3, <1>4 DEF SfTypeOK, Issued, clockVars, givenVars, workerVars
  <1> QED
    BY <1>7, <1>8

\* GetNextID in the same millisecond, with a sequence number left.
LEMMA SameMillisecondStep ==
    ASSUME SfInv, NEW w \in Workers, SameMillisecond(w)
    PROVE  SfInv'
  <1> USE DEF SfInv
  <1> DEFINE s == NextSeq(seq[w])
  <1>1. /\ w \in created /\ w \notin waiting /\ last[w] = now /\ s # 0
        /\ seq' = [seq EXCEPT ![w] = s] /\ Issue(w, now, s)
        /\ UNCHANGED <<clockVars, givenVars, workerVars, waiting, wrapped>>
    BY DEF SameMillisecond, Ready
  <1>2. s \in 0 .. SeqSpace - 1 /\ s = seq[w] + 1 /\ seq[w] \in Nat
    BY <1>1, NextSeqRange DEF SfTypeOK
  <1> HIDE DEF s
  <1>3. Issued(w, s)
    BY <1>1, <1>2, IssueEffect
  <1>4. seq' \in [Workers -> 0 .. SeqSpace - 1] /\ seq'[w] = s
        /\ \A v \in Workers \ {w} : seq'[v] = seq[v]
    BY <1>1, <1>2 DEF SfTypeOK
  <1>5. ASSUME NEW j \in DOMAIN log, log[j].by = w, log[j].epoch = epoch, log[j].at = now
        PROVE  log[j].seq < s \/ <<w, now>> \in wrapped
    <2>1. log[j].at = last[log[j].by] =>
             \/ log[j].seq <= seq[log[j].by] \/ log[j].by \in waiting
             \/ <<log[j].by, log[j].at>> \in wrapped
      BY <1>5 DEF WorkerInv
    <2>2. log[j].seq <= seq[w] \/ <<w, now>> \in wrapped
      BY <1>1, <1>5, <2>1
    <2>3. log[j].seq \in Nat
      BY EntryTypes
    <2> QED
      BY <1>2, <2>2, <2>3
  <1>6. s <= seq'[w]
    BY <1>2, <1>4
  <1>7. EntryInv' /\ WorkerInv' /\ NumberInv' /\ OrderInv'
    BY <1>1, <1>2, <1>3, <1>4, <1>5, <1>6, IssueStep
  <1>8. SfTypeOK'
    BY <1>1, <1>3, <1>4 DEF SfTypeOK, Issued, clockVars, givenVars, workerVars
  <1> QED
    BY <1>7, <1>8

\* The return of tilNextMillis, in a later millisecond or in the same one.
LEMMA TilNextMillisStep ==
    ASSUME SfInv, NEW w \in Workers, TilNextMillis(w)
    PROVE  SfInv'
  <1> USE DEF SfInv
  <1> DEFINE s == seq[w]
  <1>1. /\ w \in waiting /\ waiting' = waiting \ {w} /\ Issue(w, now, s)
        /\ wrapped' = IF now = last[w] THEN wrapped \cup {<<w, now>>} ELSE wrapped
        /\ UNCHANGED <<clockVars, givenVars, workerVars, seq>>
    BY DEF TilNextMillis
  <1>2. /\ w \in created /\ s \in 0 .. SeqSpace - 1 /\ now \in Times /\ s <= seq'[w]
        /\ seq' \in [Workers -> 0 .. SeqSpace - 1]
    BY <1>1 DEF SfTypeOK
  <1> HIDE DEF s
  <1>3. Issued(w, s)
    BY <1>1, <1>2, IssueEffect
  <1>4. ASSUME NEW j \in DOMAIN log, log[j].by = w, log[j].epoch = epoch, log[j].at = now
        PROVE  <<w, now>> \in wrapped'
    <2>1. log[j].at <= last[log[j].by] /\ last[log[j].by] <= now
      BY <1>4 DEF WorkerInv
    <2>2. last[w] \in Nat /\ now \in Nat
      BY DEF SfTypeOK, Times
    <2>3. last[w] = now
      BY <1>4, <2>1, <2>2
    <2> QED
      BY <1>1, <2>3
  <1>5. wrapped \subseteq wrapped' /\ wrapped' \subseteq Workers \X Times
    BY <1>1, <1>2 DEF SfTypeOK
  <1>6. EntryInv' /\ WorkerInv' /\ NumberInv' /\ OrderInv'
    BY <1>1, <1>2, <1>3, <1>4, <1>5, IssueStep
  <1>7. SfTypeOK'
    BY <1>1, <1>2, <1>3, <1>5 DEF SfTypeOK, Issued, clockVars, givenVars, workerVars
  <1> QED
    BY <1>6, <1>7

\* One worker calls GetNextID.
LEMMA GetNextIDStep ==
    ASSUME SfInv, NEW w \in Workers, GetNextID(w)
    PROVE  SfInv'
  <1>1. CASE SequenceFull(w)
    <2> USE DEF SfInv
    <2>1. /\ w \in created
          /\ seq' = [seq EXCEPT ![w] = 0] /\ waiting' = waiting \cup {w}
          /\ UNCHANGED <<clockVars, givenVars, workerVars, last, log, wrapped>>
      BY <1>1 DEF SequenceFull, Ready
    <2>2. SfTypeOK'
      BY <2>1 DEF SfTypeOK, clockVars, givenVars, workerVars
    <2>3. now' = now /\ now \in Nat /\ now <= now'
      BY <2>1 DEF SfTypeOK, clockVars, Times
    <2>4. \A v \in Workers : seq'[v] = seq[v] \/ v \in waiting'
      BY <2>1 DEF SfTypeOK
    <2> QED
      BY <2>1, <2>2, <2>3, <2>4, QuietStep DEF clockVars
  <1> QED
    BY <1>1, NewMillisecondStep, SameMillisecondStep, TilNextMillisStep DEF GetNextID

\* No worker exists at first.
LEMMA SfInitInv ==
    SfInit => SfInv
  <1> SUFFICES ASSUME SfInit PROVE SfInv
    OBVIOUS
  <1>1. SfTypeOK
    BY EmptySeq DEF SfInit, SfTypeOK, Times
  <1>2. DOMAIN log = {}
    BY DEF SfInit
  <1> QED
    BY <1>1, <1>2 DEF SfInit, SfInv, EntryInv, WorkerInv, NumberInv, OrderInv

\* Every step keeps the invariant.
LEMMA SfNextInv ==
    ASSUME SfInv, [SfNext]_sfVars
    PROVE  SfInv'
  <1>1. SfTypeOK /\ now \in Nat /\ nextNumber \in Nat /\ dataCenter \in Nat /\ now <= now
    BY DEF SfInv, SfTypeOK, Times
  <1>2. CASE Tick
    <2>1. now' = now + 1 /\ now' \in Times
      BY <1>1, <1>2 DEF Tick, Times
    <2>2. SfTypeOK'
      BY <1>1, <1>2, <2>1 DEF Tick, SfTypeOK, workerVars, givenVars
    <2> QED
      BY <1>1, <1>2, <2>1, <2>2, QuietStep DEF Tick, SfInv
  <1>3. CASE SetBack
    BY <1>3, SetBackStep
  <1>4. CASE InitSnowflakeWorkerID
    <2>1. SfTypeOK'
      BY <1>1, <1>4 DEF InitSnowflakeWorkerID, SfTypeOK, workerVars, clockVars, givenVars
    <2> QED
      BY <1>1, <1>4, <2>1, QuietStep DEF InitSnowflakeWorkerID, SfInv, clockVars
  <1>5. CASE NewStaticWorker
    BY <1>1, <1>5, ConstructStep DEF NewStaticWorker, Workers
  <1>6. ASSUME NEW t \in Callers, NewWorker(t)
        PROVE  SfInv'
    BY <1>1, <1>6, ConstructStep DEF NewWorker, Workers
  <1>7. CASE UNCHANGED sfVars
    <2>1. SfTypeOK'
      BY <1>1, <1>7 DEF sfVars, SfTypeOK, workerVars, clockVars, givenVars
    <2> QED
      BY <1>1, <1>7, <2>1, QuietStep DEF sfVars, SfInv, clockVars
  <1> QED
    BY <1>2, <1>3, <1>4, <1>5, <1>6, <1>7, GetNextIDStep DEF SfNext

-----------------------------------------------------------------------------
(* Theorems about the id generator                                          *)

\* The inductive invariant holds in every reachable state.
THEOREM SfInvariant == SfSpec => []SfInv
  <1>1. SfInit => SfInv
    BY SfInitInv
  <1>2. SfInv /\ [SfNext]_sfVars => SfInv'
    BY SfNextInv
  <1> QED
    BY <1>1, <1>2, PTL DEF SfSpec

\* Type correctness, in particular that a sequence number fits its bits.
THEOREM SfTypeCorrect == SfSpec => []SfTypeOK
  <1>1. SfInv => SfTypeOK
    BY DEF SfInv
  <1> QED
    BY <1>1, SfInvariant, PTL

\* The ids a worker issues grow strictly between two settings of the clock and
\* within one turn of the time stamp, up to tilNextMillis.
THEOREM IdsGrow == SfSpec => []IdsOrdered
  <1>1. ASSUME SfInv, NEW j \in DOMAIN log, NEW k \in DOMAIN log, j < k,
               log[j].by = log[k].by, log[j].epoch = log[k].epoch,
               log[j].at \div TimeSpace = log[k].at \div TimeSpace
        PROVE  Before(log[j], log[k]) \/ Restarted(log[j], log[k])
    <2>1. log[j].at \in Nat /\ log[k].at \in Nat
      BY <1>1, EntryTypes DEF SfInv
    <2>2. \/ log[j].at < log[k].at
          \/ /\ log[j].at = log[k].at
             /\ log[j].seq < log[k].seq \/ <<log[j].by, log[j].at>> \in wrapped
      BY <1>1 DEF SfInv, OrderInv
    <2>3. /\ log[j].at < log[k].at => Stamp(log[j]) < Stamp(log[k])
          /\ log[j].at = log[k].at => Stamp(log[j]) = Stamp(log[k])
      BY <1>1, <2>1, StampOrder DEF Stamp
    <2> QED
      BY <2>2, <2>3 DEF Before, Restarted
  <1>2. SfInv => IdsOrdered
    BY <1>1 DEF IdsOrdered
  <1> QED
    BY <1>2, SfInvariant, PTL

\* Equal ids of two workers mean that their numbers are SlotSpace or more apart,
\* that g_thread_id wrapped, or that the static worker has a thread's number:
\* with at most SlotSpace threads, and no more of them than the static worker's
\* number modulo SlotSpace, there are none.
THEOREM WorkersDiffer == SfSpec => []IdsUnique
  <1>1. ASSUME SfInv, NEW j \in DOMAIN log, NEW k \in DOMAIN log, log[j].by # log[k].by,
               Id(log[j]) = Id(log[k])
        PROVE  /\ log[j].by \in created /\ log[k].by \in created
               /\ log[j].number \in Nat /\ log[k].number \in Nat
               /\ log[j].number = number[log[j].by] /\ log[k].number = number[log[k].by]
               /\ log[j].number % SlotSpace = log[k].number % SlotSpace
    <2>1. log[j].number \in Nat /\ log[k].number \in Nat
      BY <1>1, EntryTypes DEF SfInv
    <2>2. log[j].number % SlotSpace = log[k].number % SlotSpace
      BY <1>1 DEF Id, Slot
    <2> QED
      BY <1>1, <2>1, <2>2 DEF SfInv, EntryInv
  <1>2. ASSUME SfInv, NEW j \in DOMAIN log, NEW k \in DOMAIN log, log[j].by # log[k].by,
               Id(log[j]) = Id(log[k]), log[j].by # Static, log[k].by # Static
        PROVE  Apart(log[j].number, log[k].number) \/ made > NumberSpace
    <2> SUFFICES ASSUME made <= NumberSpace
                 PROVE  Apart(log[j].number, log[k].number)
      BY <1>2 DEF SfInv, SfTypeOK
    <2>1. created \subseteq Workers
      BY <1>2 DEF SfInv, SfTypeOK
    <2>2. log[j].number # log[k].number
      BY <1>1, <1>2, <2>1 DEF SfInv, NumberInv, Workers
    <2> QED
      BY <1>1, <1>2, <2>2, SlotApart DEF Apart
  <1>3. ASSUME SfInv, NEW j \in DOMAIN log, NEW k \in DOMAIN log, log[j].by # log[k].by,
               Id(log[j]) = Id(log[k]), log[j].by = Static
        PROVE  made > Slot(number[Static])
    <2>1. made \in Nat /\ created \subseteq Workers
      BY <1>3 DEF SfInv, SfTypeOK
    <2>2. log[k].by \in Callers \cap created
      BY <1>1, <1>3, <2>1 DEF Workers
    <2>3. \A n \in Nat : n % SlotSpace \in Nat /\ n % SlotSpace < SlotSpace /\ n % SlotSpace <= n
      BY RemainderBound
    <2>4. Slot(number[Static]) = log[k].number % SlotSpace
      BY <1>1, <1>3 DEF Slot
    <2>5. CASE made <= NumberSpace
      <3>1. log[k].number < made
        BY <1>1, <1>3, <2>2, <2>5 DEF SfInv, NumberInv
      <3> QED
        BY <1>1, <1>3, <2>1, <2>3, <2>4, <3>1
    <2>6. CASE made > NumberSpace
      <3>1. log[k].number \in Nat
        BY <1>1, <1>3
      <3> QED
        BY <2>1, <2>3, <2>4, <2>6, <3>1
    <2> QED
      BY <2>1, <2>5, <2>6
  <1>4. ASSUME SfInv, NEW j \in DOMAIN log, NEW k \in DOMAIN log, log[j].by # log[k].by,
               Id(log[j]) = Id(log[k])
        PROVE  IF Static \in {log[j].by, log[k].by} THEN made > Slot(number[Static])
               ELSE Apart(log[j].number, log[k].number) \/ made > NumberSpace
    <2>1. CASE log[j].by = Static
      BY <1>3, <1>4, <2>1
    <2>2. CASE log[k].by = Static
      BY <1>3, <1>4, <2>2
    <2> QED
      BY <1>2, <1>4, <2>1, <2>2
  <1>5. SfInv => IdsUnique
    BY <1>4 DEF IdsUnique
  <1> QED
    BY <1>5, SfInvariant, PTL

-----------------------------------------------------------------------------
(* The parts together                                                       *)

\* A behaviour of the union is a behaviour of each part: while another part
\* moves, this one stutters.
THEOREM BehavesAsParts == SaSpec => SfSpec /\ RhSpec /\ StSpec /\ PoolSpec
  <1>1. SaInit => SfInit /\ RhInit /\ StInit /\ PoolInit
    BY DEF SaInit
  <1>2. [SaNext]_saVars =>
           [SfNext]_sfVars /\ [RhNext]_nodes /\ [StNext]_stVars /\ [PoolNext]_poolVars
    BY DEF SaNext, saVars
  <1> QED
    BY <1>1, <1>2, PTL DEF SaSpec, SfSpec, RhSpec, StSpec, PoolSpec

\* What the four parts promise holds of the union of them that TLC checks.
THEOREM PartsKeepPromises ==
    SaSpec => /\ []SfTypeOK /\ []IdsOrdered /\ []IdsUnique /\ []ConnectedTruthful /\ KeysStay
              /\ []TablesAgree /\ []WrittenOnce /\ []StayingReached
  BY BehavesAsParts, SfTypeCorrect, IdsGrow, WorkersDiffer, ClientTellsTruth, KeysStayPut,
     TablesKept, WritesOnce, ReachesStaying, PTL
=============================================================================
