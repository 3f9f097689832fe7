---------------------------- MODULE RendezvousHash ----------------------------
(***************************************************************************)
(* RendezvousHash: weighted rendezvous hashing of keys to nodes.  The list *)
(* of nodes changes between two tables that the application builds from    *)
(* it; each table is immutable.                                            *)
(*                                                                         *)
(* 64 bit hashes have MaxHash for their largest value.  The score          *)
(* pow(hash / max, 1 / weight) is compared exactly: c1 at weight w1 beats  *)
(* c2 at w2 if (c1 / m)^w2 > (c2 / m)^w1; the division of the weights by   *)
(* their sum cancels out.  Rounding and underflow of double are left out,  *)
(* and so are negative weights, which the constructor refuses.             *)
(***************************************************************************)
EXTENDS Naturals, Sequences

CONSTANTS
    Names,       \* names of nodes
    NameHash,    \* fnv64_buf of a name
    Mix,         \* twang_mix64, a permutation of the hashes
    MaxHash,     \* the largest hash, 2^64 - 1
    MaxWeight,   \* bound: the weight of a node
    MaxNodes     \* bound: nodes of a table

Hashes == 0 .. MaxHash

ASSUME MaxHashAssumption  == MaxHash \in Nat \ {0}
ASSUME NameHashAssumption == NameHash \in [Names -> Hashes]
ASSUME MixAssumption ==
    Mix \in [Hashes -> Hashes] /\ \A h \in Hashes : \E g \in Hashes : Mix[g] = h
ASSUME TableBoundAssumption == MaxWeight \in Nat \ {0} /\ MaxNodes \in Nat

VARIABLE nodes   \* the pairs of name and weight in nodes_, << >> before the first table

Weights == 0 .. MaxWeight

RhInit == nodes = << >>

-----------------------------------------------------------------------------
(* The node of a key                                                        *)

\* Fault: the hash is combined with the position of the node.
PlaceHash(t, i, key) == Mix[(i + key) % (MaxHash + 1)]

\* computeHash(it.first + key): the sum of two uint64_t wraps.
CombinedHash(t, i, key) == Mix[(NameHash[t[i].name] + key) % (MaxHash + 1)]

\* scaledWeight is 0: a weight of no more than epsilon, or a hash of 0.
ScoresZero(t, i, key) == t[i].weight = 0 \/ CombinedHash(t, i, key) = 0

\* c to the power of n.
Power(c, n) ==
    LET pow[k \in 0 .. n] == IF k = 0 THEN 1 ELSE c * pow[k - 1]
    IN  pow[n]

\* The scaledWeight of node i is larger than that of node j.
Beats(t, i, j, key) ==
    /\ ~ScoresZero(t, i, key)
    /\ \/ ScoresZero(t, j, key)
       \/ Power(CombinedHash(t, i, key), t[j].weight) * Power(MaxHash, t[i].weight)
            > Power(CombinedHash(t, j, key), t[i].weight) * Power(MaxHash, t[j].weight)

\* RendezvousHash::get on table t, which keeps the first of the best nodes;
\* positions count from 1.
Get(t, key) ==
    CHOOSE i \in DOMAIN t :
        /\ \A j \in DOMAIN t : ~Beats(t, j, i, key)
        /\ \A j \in 1 .. i - 1 : Beats(t, i, j, key)

-----------------------------------------------------------------------------
(* The application changes one node and builds a new table                  *)

WeightSum(t) ==
    LET sum[n \in 0 .. Len(t)] == IF n = 0 THEN 0 ELSE sum[n - 1] + t[n].weight
    IN  sum[Len(t)]

\* The constructor.  normalizeWeights throws if no node has a weight, and the
\* application keeps the table it has.
Build(t) == WeightSum(t) > 0 /\ nodes' = t

AddNode(name, weight, i) ==
    /\ Len(nodes) < MaxNodes
    /\ \A j \in DOMAIN nodes : nodes[j].name # name
    /\ Build(SubSeq(nodes, 1, i) \o <<[name |-> name, weight |-> weight]>>
             \o SubSeq(nodes, i + 1, Len(nodes)))

RemoveNode(i) == Build(SubSeq(nodes, 1, i - 1) \o SubSeq(nodes, i + 1, Len(nodes)))

Reweigh(i, weight) == weight # nodes[i].weight /\ Build([nodes EXCEPT ![i].weight = weight])

RhNext ==
    \/ \E name \in Names, weight \in Weights, i \in 0 .. Len(nodes) : AddNode(name, weight, i)
    \/ \E i \in DOMAIN nodes : RemoveNode(i) \/ \E weight \in Weights : Reweigh(i, weight)

RhSpec == RhInit /\ [][RhNext]_nodes

-----------------------------------------------------------------------------
(* Properties                                                               *)

\* The node of a key, and the weight of a name, 0 if it is not in the table.
Owner(t, key) == t[Get(t, key)].name
WeightOf(t, name) ==
    IF \E i \in DOMAIN t : t[i].name = name
    THEN t[CHOOSE i \in DOMAIN t : t[i].name = name].weight
    ELSE 0

\* From one table to the next a key moves only away from a node that lost
\* weight or left, or to a node that gained weight or joined: with sums that
\* wrap, names whose hashes collide, ties, and nodes without weight.  The one
\* exception are keys that no node has a score for; only such a key can belong
\* to a node without weight.
KeysStay ==
    [][nodes # << >> =>
          \A key \in Hashes :
              LET from == Owner(nodes, key)
                  to   == Owner(nodes', key)
              IN  /\ from # to =>
                        \/ WeightOf(nodes', from) < WeightOf(nodes, from)
                        \/ WeightOf(nodes, to) < WeightOf(nodes', to)
                        \/ \A i \in DOMAIN nodes : ScoresZero(nodes, i, key)
                  /\ WeightOf(nodes, from) = 0 =>
                        \A i \in DOMAIN nodes : ScoresZero(nodes, i, key)]_nodes
=============================================================================
