---------------------------- MODULE LossyChannel -----------------------------
(***************************************************************************)
(* What a client group promises to those who send through it: a message    *)
(* may be lost, but it reaches no receiver twice, only a broadcast reaches *)
(* several receivers, and what one sender sends arrives at each receiver   *)
(* in the order it was sent.                                               *)
(***************************************************************************)
EXTENDS Naturals, Sequences

CONSTANTS Senders, Receivers

VARIABLES
    sent,   \* messages in the order of the calls: [from, all]
    got     \* per receiver, the numbers of the messages in the order they came

vars == <<sent, got>>

Init == sent = << >> /\ got = [r \in Receivers |-> << >>]

Got(r) == {got[r][i] : i \in DOMAIN got[r]}

Send(k, all) ==
    /\ sent' = Append(sent, [from |-> k, all |-> all])
    /\ UNCHANGED got

\* Message n comes after everything that its sender sent before and that came
\* at all; a message for one receiver is at no other.
Deliver(r, n) ==
    /\ \A m \in Got(r) : sent[m].from = sent[n].from => m < n
    /\ sent[n].all \/ \A q \in Receivers : n \notin Got(q)
    /\ got' = [got EXCEPT ![r] = Append(@, n)]
    /\ UNCHANGED sent

Next ==
    \/ \E k \in Senders, all \in BOOLEAN : Send(k, all)
    \/ \E r \in Receivers : \E n \in DOMAIN sent : Deliver(r, n)

Spec == Init /\ [][Next]_vars
=============================================================================
