-------------------------- MODULE JsonParserProofs ---------------------------
(***************************************************************************)
(* Proof that the pointers the json parser keeps into the value it builds  *)
(* are safe, for every input of bytes, every depth of nesting and whatever *)
(* the callback answers: ParseSpec => []RefsValid.                         *)
(*                                                                         *)
(* RefsValid is not inductive: which container a closing token pops is     *)
(* decided by states, to which RefsValid does not relate refStack.         *)
(* Reading does: refStack is a Chain through the value that is being       *)
(* built, one entry for each open container, of the type in states.        *)
(* ChainPut is the core of the proof: a write at or below the top of the   *)
(* stack leaves every pointer of the stack valid.                          *)
(***************************************************************************)
EXTENDS JsonParser, SequenceTheorems, WellFoundedInduction, TLAPS

-----------------------------------------------------------------------------
(* The inductive invariant                                                  *)

\* What the lexer hands over: a string token holds a sequence of integers.
LexTyped ==
    /\ shape \in Inputs
    /\ read \in Seq(Int) /\ Len(read) <= Len(shape.bytes)
    /\ ended \in BOOLEAN /\ nextUnget \in BOOLEAN
    /\ current \in Int
    /\ code \in [high : Int, value : Int, digits : Int]
    /\ tokenBuffer \in Seq(Int)
    /\ token.type = "value_string" => Content(token.value) \in Seq(Int)

DomTyped ==
    /\ states \in Seq(BOOLEAN)
    /\ callback \in BOOLEAN
    /\ refStack \in Seq(Position \cup {NullPtr})
    /\ keyKeepStack \in Seq(BOOLEAN)

IsSequence(c) == c \in Seq({c[i] : i \in DOMAIN c})

\* The value x can be the container of an array (isArray) or of an object.
Holds(x, isArray) ==
    /\ Kind(x) = IF isArray THEN "array" ELSE "object"
    /\ isArray => IsSequence(Content(x))

\* The pointers refs lead into the value r along one path, to containers of
\* the types open.
Chain(r, refs, open) ==
    \A i \in 1 .. Len(refs) : refs[i] # NullPtr =>
        /\ Len(refs[i]) = i - 1
        /\ Exists(r, refs[i])
        /\ Holds(At(r, refs[i]), open[i])
        /\ \A j \in 1 .. i : refs[j] = SubSeq(refs[i], 1, j - 1)

\* The containers that are open: the one that was just begun is not yet on
\* the stack of states.
Opened == IF at = "object begun" THEN Append(states, FALSE)
        ELSE IF at = "array begun" THEN Append(states, TRUE)
        ELSE states

PlaceMade ==
    \/ callback /\ ~Last(keyKeepStack)
    \/ /\ objectElement \in Position
       /\ Exists(root, objectElement)
       /\ objectElement # << >>
       /\ Front(objectElement) = Last(refStack)

Reading ==
    /\ Len(refStack) = Len(Opened)
    /\ Chain(root, refStack, Opened)
    /\ ~callback => \A i \in 1 .. Len(refStack) : refStack[i] # NullPtr
    /\ at = "in array" => states # << >> /\ Last(states)
    /\ at \in {"in object", "key", "separator"} => states # << >> /\ ~Last(states)
    /\ at = "end" => states = << >>
    /\ at \in {"separator", "value"} /\ states # << >> /\ ~Last(states) =>
          /\ callback => keyKeepStack # << >>
          /\ Last(refStack) # NullPtr => PlaceMade

IInv ==
    /\ LexTyped
    /\ DomTyped
    /\ at \notin {"accepted", "rejected"} => Reading

-----------------------------------------------------------------------------
(* Positions                                                                *)

\* A set of naturals that is not empty has a least element.
LEMMA LeastExists ==
    ASSUME NEW S, S \subseteq Nat, S # {}
    PROVE  \E x \in S : \A y \in S : x <= y
  <1> DEFINE R == OpToRel(<, Nat)
  <1>1. PICK x \in S : \A y \in S : ~ (<<y, x>> \in R)
    BY NatLessThanWellFounded, WFMin
  <1>2. \A y \in S : ~ (y < x)
    BY <1>1 DEF OpToRel
  <1> QED
    BY <1>2

\* f follows the path p from the value v.
Follows(f, v, p) ==
    f[0] = v /\ \A n \in 1 .. Len(p) : f[n] = Content(f[n - 1])[p[n]]

\* What the recursive function of At is a fixed point of.
WalkStep(v, p, f) == [n \in 0 .. Len(p) |-> IF n = 0 THEN v ELSE Content(f[n - 1])[p[n]]]

\* The recursive function of At exists.
LEMMA WalkExists ==
    ASSUME NEW v, NEW p \in Position
    PROVE  \E f : f = WalkStep(v, p, f)
  <1> DEFINE Good(k, f) == f = [n \in 0 .. k |-> IF n = 0 THEN v ELSE Content(f[n - 1])[p[n]]]
             Bad == {k \in 0 .. Len(p) : ~ \E f : Good(k, f)}
  <1>l. Len(p) \in Nat
    BY DEF Position
  <1>1. SUFFICES Bad = {}
    <2>1. \A f : Good(Len(p), f) <=> f = WalkStep(v, p, f)
      BY DEF WalkStep
    <2> QED
      BY <1>l, <2>1
  <1>2. SUFFICES ASSUME Bad # {} PROVE FALSE
    OBVIOUS
  <1>3. PICK k \in Bad : \A j \in Bad : k <= j
    <2>1. Bad \subseteq Nat
      BY <1>l
    <2> HIDE DEF Bad
    <2> QED
      BY <2>1, <1>2, LeastExists
  <1>4. CASE k = 0
    <2> DEFINE f == [n \in 0 .. 0 |-> v]
    <2>1. Good(0, f)
      OBVIOUS
    <2> QED
      BY <2>1, <1>4, <1>3
  <1>5. CASE k # 0
    <2>0. k \in Nat /\ k > 0 /\ k - 1 \in 0 .. Len(p)
      BY <1>3, <1>5, <1>l
    <2>a. k - 1 \notin Bad
      <3>1. ~(k <= k - 1)
        BY <2>0
      <3> HIDE DEF Bad
      <3> QED
        BY <1>3, <3>1
    <2>1. PICK f : Good(k - 1, f)
      <3> HIDE DEF Good
      <3> QED
        BY <2>0, <2>a
    <2> DEFINE g == [n \in 0 .. k |-> IF n < k THEN f[n] ELSE Content(f[k - 1])[p[k]]]
    <2>2. ASSUME NEW n \in 0 .. k
          PROVE  g[n] = IF n = 0 THEN v ELSE Content(g[n - 1])[p[n]]
      <3>1. CASE n < k
        <4>1. n \in 0 .. k - 1
          BY <3>1, <2>0
        <4>2. f[n] = IF n = 0 THEN v ELSE Content(f[n - 1])[p[n]]
          BY <4>1, <2>1
        <4>3. g[n] = f[n] /\ (n # 0 => g[n - 1] = f[n - 1])
          BY <3>1, <4>1, <2>0
        <4> QED
          BY <4>2, <4>3
      <3>2. CASE ~(n < k)
        <4>1. n = k
          BY <3>2, <2>0
        <4>2. g[k] = Content(f[k - 1])[p[k]] /\ g[k - 1] = f[k - 1]
          BY <2>0
        <4> QED
          BY <4>1, <4>2, <2>0
      <3> QED
        BY <3>1, <3>2
    <2>3. Good(k, g)
      <3> DEFINE h == [n \in 0 .. k |-> IF n = 0 THEN v ELSE Content(g[n - 1])[p[n]]]
      <3>1. \A n \in 0 .. k : g[n] = h[n]
        <4> HIDE DEF g
        <4> QED
          BY <2>2
      <3> QED
        BY <3>1
    <2> QED
      BY <2>3, <1>3
  <1> QED
    BY <1>4, <1>5

\* Any function that follows a path ends at the value At gives.
LEMMA AtFollows ==
    ASSUME NEW v, NEW p \in Position, NEW f, Follows(f, v, p)
    PROVE  At(v, p) = f[Len(p)]
  <1> DEFINE walk == CHOOSE g : g = WalkStep(v, p, g)
             Bad == {n \in 0 .. Len(p) : walk[n] # f[n]}
  <1>l. Len(p) \in Nat
    BY DEF Position
  <1>1. walk = WalkStep(v, p, walk)
    BY WalkExists
  <1>2. At(v, p) = walk[Len(p)]
    BY DEF At, WalkStep
  <1> HIDE DEF walk
  <1>3. walk[0] = v /\ \A n \in 1 .. Len(p) : walk[n] = Content(walk[n - 1])[p[n]]
    BY <1>1, <1>l DEF WalkStep
  <1>4. Bad = {}
    <2>1. SUFFICES ASSUME Bad # {} PROVE FALSE
      OBVIOUS
    <2>2. PICK k \in Bad : \A j \in Bad : k <= j
      <3>1. Bad \subseteq Nat
        BY <1>l
      <3> HIDE DEF Bad
      <3> QED
        BY <2>1, <3>1, LeastExists
    <2>3. k # 0
      BY <2>2, <1>3 DEF Follows
    <2>4. k - 1 \in 0 .. Len(p) /\ k \in 1 .. Len(p) /\ ~(k <= k - 1)
      BY <2>2, <2>3, <1>l
    <2>5. walk[k - 1] = f[k - 1]
      BY <2>2, <2>4
    <2> QED
      BY <2>2, <2>4, <2>5, <1>3 DEF Follows
  <1> QED
    BY <1>2, <1>4, <1>l

\* The walk along a path gives the values at its prefixes.
LEMMA WalkAlong ==
    ASSUME NEW v, NEW p \in Position
    PROVE  \E f : /\ Follows(f, v, p)
                  /\ \A m \in 0 .. Len(p) : At(v, SubSeq(p, 1, m)) = f[m]
  <1>l. Len(p) \in Nat
    BY DEF Position
  <1>1. PICK f : f = WalkStep(v, p, f)
    BY WalkExists
  <1>2. Follows(f, v, p)
    <2>1. f[0] = v
      BY <1>1, <1>l DEF WalkStep
    <2>2. \A n \in 1 .. Len(p) : f[n] = Content(f[n - 1])[p[n]]
      BY <1>1, <1>l DEF WalkStep
    <2> QED
      BY <2>1, <2>2 DEF Follows
  <1>3. ASSUME NEW m \in 0 .. Len(p)
        PROVE  At(v, SubSeq(p, 1, m)) = f[m]
    <2>1. SubSeq(p, 1, m) \in Position /\ Len(SubSeq(p, 1, m)) = m
      BY <1>l DEF Position
    <2>2. \A n \in 1 .. m : SubSeq(p, 1, m)[n] = p[n]
      BY <1>l DEF Position
    <2>3. Follows(f, v, SubSeq(p, 1, m))
      BY <1>2, <2>1, <2>2, <1>l DEF Follows
    <2> QED
      BY <2>1, <2>3, AtFollows
  <1> QED
    BY <1>2, <1>3

\* The value around x n steps above the end of the path p.
Around(v, p, n, x) ==
    LET into == At(v, SubSeq(p, 1, Len(p) - n))
    IN  <<Kind(into), [Content(into) EXCEPT ![p[Len(p) - n + 1]] = x]>>

\* What the recursive function of Put is a fixed point of.
PutStep(v, p, w, f) ==
    [n \in 0 .. Len(p) |-> IF n = 0 THEN w ELSE Around(v, p, n, f[n - 1])]

\* The recursive function of Put exists.
LEMMA PutExists ==
    ASSUME NEW v, NEW p \in Position, NEW w
    PROVE  \E f : f = PutStep(v, p, w, f)
  <1> DEFINE Good(k, f) == f = [n \in 0 .. k |-> IF n = 0 THEN w ELSE Around(v, p, n, f[n - 1])]
             Bad == {k \in 0 .. Len(p) : ~ \E f : Good(k, f)}
  <1>l. Len(p) \in Nat
    BY DEF Position
  <1>1. SUFFICES Bad = {}
    <2>1. \A f : Good(Len(p), f) <=> f = PutStep(v, p, w, f)
      BY DEF PutStep
    <2> QED
      BY <1>l, <2>1
  <1>2. SUFFICES ASSUME Bad # {} PROVE FALSE
    OBVIOUS
  <1>3. PICK k \in Bad : \A j \in Bad : k <= j
    <2>1. Bad \subseteq Nat
      BY <1>l
    <2> HIDE DEF Bad
    <2> QED
      BY <2>1, <1>2, LeastExists
  <1>4. CASE k = 0
    <2> DEFINE f == [n \in 0 .. 0 |-> w]
    <2>1. Good(0, f)
      OBVIOUS
    <2> QED
      BY <2>1, <1>4, <1>3
  <1>5. CASE k # 0
    <2>0. k \in Nat /\ k > 0 /\ k - 1 \in 0 .. Len(p)
      BY <1>3, <1>5, <1>l
    <2>a. k - 1 \notin Bad
      <3>1. ~(k <= k - 1)
        BY <2>0
      <3> HIDE DEF Bad
      <3> QED
        BY <1>3, <3>1
    <2>1. PICK f : Good(k - 1, f)
      <3> HIDE DEF Good
      <3> QED
        BY <2>0, <2>a
    <2> DEFINE g == [n \in 0 .. k |-> IF n < k THEN f[n] ELSE Around(v, p, k, f[k - 1])]
    <2>2. ASSUME NEW n \in 0 .. k
          PROVE  g[n] = IF n = 0 THEN w ELSE Around(v, p, n, g[n - 1])
      <3>1. CASE n < k
        <4>1. n \in 0 .. k - 1
          BY <3>1, <2>0
        <4>2. f[n] = IF n = 0 THEN w ELSE Around(v, p, n, f[n - 1])
          BY <4>1, <2>1
        <4>3. g[n] = f[n] /\ (n # 0 => g[n - 1] = f[n - 1])
          BY <3>1, <4>1, <2>0
        <4> QED
          BY <4>2, <4>3
      <3>2. CASE ~(n < k)
        <4>1. n = k
          BY <3>2, <2>0
        <4>2. g[k] = Around(v, p, k, f[k - 1]) /\ g[k - 1] = f[k - 1]
          BY <2>0
        <4> QED
          BY <4>1, <4>2, <2>0
      <3> QED
        BY <3>1, <3>2
    <2>3. Good(k, g)
      <3> DEFINE h == [n \in 0 .. k |-> IF n = 0 THEN w ELSE Around(v, p, n, g[n - 1])]
      <3>1. \A n \in 0 .. k : g[n] = h[n]
        <4> HIDE DEF g
        <4> QED
          BY <2>2
      <3> QED
        BY <3>1
    <2> QED
      BY <2>3, <1>3
  <1> QED
    BY <1>4, <1>5

\* A prefix of a prefix.
LEMMA PrefixPrefix ==
    ASSUME NEW p \in Position, NEW m \in 0 .. Len(p), NEW n \in 0 .. m
    PROVE  /\ SubSeq(p, 1, m) \in Position
           /\ Len(SubSeq(p, 1, m)) = m
           /\ \A i \in 1 .. m : SubSeq(p, 1, m)[i] = p[i]
           /\ SubSeq(SubSeq(p, 1, m), 1, n) = SubSeq(p, 1, n)
  <1>l. Len(p) \in Nat /\ p \in Seq(Nat \cup Seq(Int))
    BY DEF Position
  <1>1. /\ SubSeq(p, 1, m) \in Position
        /\ Len(SubSeq(p, 1, m)) = m
        /\ \A i \in 1 .. m : SubSeq(p, 1, m)[i] = p[i]
    BY <1>l DEF Position
  <1>2. SubSeq(SubSeq(p, 1, m), 1, n) = SubSeq(p, 1, n)
    <2> DEFINE q == SubSeq(p, 1, m)
    <2>1. SubSeq(q, 1, n) = [i \in 1 .. n |-> q[i]] /\ SubSeq(p, 1, n) = [i \in 1 .. n |-> p[i]]
      BY <1>l, <1>1 DEF Position
    <2>2. \A i \in 1 .. n : q[i] = p[i]
      BY <1>1, <1>l
    <2> HIDE DEF q
    <2> QED
      BY <2>1, <2>2
  <1> QED
    BY <1>1, <1>2

\* What is around a value exists with it.
LEMMA ExistsPrefix ==
    ASSUME NEW v, NEW p \in Position, Exists(v, p), NEW m \in 0 .. Len(p)
    PROVE  Exists(v, SubSeq(p, 1, m))
  <1> DEFINE q == SubSeq(p, 1, m)
  <1>l. Len(p) \in Nat
    BY DEF Position
  <1>1. Len(q) = m /\ \A i \in 1 .. m : q[i] = p[i] /\ SubSeq(q, 1, i - 1) = SubSeq(p, 1, i - 1)
    BY PrefixPrefix, <1>l
  <1>2. \A i \in 1 .. m : i \in 1 .. Len(p)
    BY <1>l
  <1> HIDE DEF q
  <1>3. Exists(v, q)
    BY <1>1, <1>2 DEF Exists
  <1> QED
    BY <1>3 DEF q

\* A member of a container exists if the container does and has it.
LEMMA ExistsMember ==
    ASSUME NEW v, NEW p \in Position, NEW k \in Nat \cup Seq(Int)
    PROVE  /\ Append(p, k) \in Position
           /\ Len(Append(p, k)) = Len(p) + 1
           /\ SubSeq(Append(p, k), 1, Len(p)) = p
           /\ Append(p, k)[Len(p) + 1] = k
           /\ Exists(v, Append(p, k)) <=>
                 /\ Exists(v, p)
                 /\ IsStructured(At(v, p))
                 /\ k \in DOMAIN Content(At(v, p))
           /\ At(v, Append(p, k)) = Content(At(v, p))[k]
  <1> DEFINE q == Append(p, k)
  <1>l. Len(p) \in Nat /\ p \in Seq(Nat \cup Seq(Int))
    BY DEF Position
  <1>1. /\ q \in Position
        /\ Len(q) = Len(p) + 1
        /\ q[Len(p) + 1] = k
        /\ \A i \in 1 .. Len(p) : q[i] = p[i]
    BY <1>l DEF Position
  <1>2. SubSeq(q, 1, Len(p)) = p
    BY <1>l
  <1> HIDE DEF q
  <1>3. \A i \in 1 .. Len(p) : SubSeq(q, 1, i - 1) = SubSeq(p, 1, i - 1)
    <2> TAKE i \in 1 .. Len(p)
    <2>1. Len(p) \in 0 .. Len(q) /\ i - 1 \in 0 .. Len(p)
      BY <1>1, <1>l
    <2> QED
      BY <1>1, <1>2, <2>1, PrefixPrefix
  <1>4. SubSeq(q, 1, Len(p) + 1 - 1) = p
    BY <1>2, <1>l
  <1>5. Exists(v, q) <=>
           Exists(v, p) /\ IsStructured(At(v, p)) /\ k \in DOMAIN Content(At(v, p))
    <2>1. \A i : i \in 1 .. Len(q) <=> i \in 1 .. Len(p) \/ i = Len(p) + 1
      BY <1>1, <1>l
    <2> DEFINE In(x, i) == /\ IsStructured(At(v, SubSeq(x, 1, i - 1)))
                           /\ x[i] \in DOMAIN Content(At(v, SubSeq(x, 1, i - 1)))
    <2>2. \A x : Exists(v, x) <=> \A i \in 1 .. Len(x) : In(x, i)
      BY DEF Exists
    <2>3. \A i \in 1 .. Len(p) : In(q, i) <=> In(p, i)
      BY <1>1, <1>3
    <2>4. In(q, Len(p) + 1) <=> IsStructured(At(v, p)) /\ k \in DOMAIN Content(At(v, p))
      <3> DEFINE i == Len(p) + 1
      <3>1. q[i] = k /\ SubSeq(q, 1, i - 1) = p
        BY <1>1, <1>4
      <3> HIDE DEF i
      <3>2. In(q, i) <=> IsStructured(At(v, p)) /\ k \in DOMAIN Content(At(v, p))
        BY <3>1
      <3> QED
        BY <3>2 DEF i
    <2> HIDE DEF In
    <2> QED
      BY <2>1, <2>2, <2>3, <2>4
  <1>6. At(v, q) = Content(At(v, p))[k]
    <2>1. PICK f : Follows(f, v, q) /\ \A m \in 0 .. Len(q) : At(v, SubSeq(q, 1, m)) = f[m]
      BY <1>1, WalkAlong
    <2>2. SubSeq(q, 1, Len(q)) = q
      BY <1>1 DEF Position
    <2>3. Len(q) \in 0 .. Len(q) /\ Len(p) \in 0 .. Len(q) /\ Len(q) \in 1 .. Len(q)
          /\ Len(q) - 1 = Len(p)
      BY <1>1, <1>l
    <2>4. At(v, q) = f[Len(q)] /\ At(v, p) = f[Len(p)]
      BY <2>1, <2>2, <2>3, <1>2
    <2> QED
      BY <2>1, <2>3, <2>4, <1>1 DEF Follows
  <1> QED
    BY <1>1, <1>2, <1>5, <1>6 DEF q

\* y is the container x with another member k.
ButMember(y, x, k) == \E z : y = <<Kind(x), [Content(x) EXCEPT ![k] = z]>>

\* Put replaces the value at an existing position, and of the containers
\* around it nothing but the member on the path.
LEMMA PutReplaces ==
    ASSUME NEW v, NEW p \in Position, NEW w, Exists(v, p)
    PROVE  /\ At(Put(v, p, w), p) = w
           /\ Exists(Put(v, p, w), p)
           /\ \A m \in 0 .. Len(p) - 1 :
                 ButMember(At(Put(v, p, w), SubSeq(p, 1, m)), At(v, SubSeq(p, 1, m)), p[m + 1])
  <1> DEFINE put == CHOOSE f : f = PutStep(v, p, w, f)
             into(m) == At(v, SubSeq(p, 1, m))
             g == [m \in 0 .. Len(p) |-> put[Len(p) - m]]
  <1>l. Len(p) \in Nat /\ p \in Seq(Nat \cup Seq(Int))
    BY DEF Position
  <1>1. put = PutStep(v, p, w, put)
    BY PutExists
  <1>2. Put(v, p, w) = put[Len(p)]
    BY DEF Put, PutStep, Around
  <1> HIDE DEF put
  <1>3. put[0] = w /\ \A n \in 1 .. Len(p) : put[n] = Around(v, p, n, put[n - 1])
    BY <1>1, <1>l DEF PutStep
  <1>4. g[0] = Put(v, p, w) /\ g[Len(p)] = w
    BY <1>2, <1>3, <1>l
  <1>5. ASSUME NEW m \in 0 .. Len(p) - 1
        PROVE  g[m] = <<Kind(into(m)), [Content(into(m)) EXCEPT ![p[m + 1]] = g[m + 1]]>>
    <2>1. /\ Len(p) - m \in 1 .. Len(p)
          /\ Len(p) - (Len(p) - m) = m
          /\ Len(p) - m - 1 = Len(p) - (m + 1)
          /\ m + 1 \in 0 .. Len(p)
          /\ m \in 0 .. Len(p)
      BY <1>l
    <2>2. put[Len(p) - m] = Around(v, p, Len(p) - m, put[Len(p) - (m + 1)])
      BY <1>3, <2>1
    <2>3. g[m] = put[Len(p) - m] /\ g[m + 1] = put[Len(p) - (m + 1)]
      BY <2>1
    <2> HIDE DEF g
    <2> QED
      BY <2>1, <2>2, <2>3 DEF Around
  <1> HIDE DEF g
  <1>6. \A m \in 0 .. Len(p) - 1 : IsStructured(into(m)) /\ p[m + 1] \in DOMAIN Content(into(m))
    <2> TAKE m \in 0 .. Len(p) - 1
    <2>1. m + 1 \in 1 .. Len(p) /\ m + 1 - 1 = m
      BY <1>l
    <2> QED
      BY <2>1 DEF Exists
  <1>7. Follows(g, Put(v, p, w), p)
    <2>1. ASSUME NEW n \in 1 .. Len(p)
          PROVE  g[n] = Content(g[n - 1])[p[n]]
      <3>1. n - 1 \in 0 .. Len(p) - 1 /\ n - 1 + 1 = n
        BY <1>l
      <3>2. g[n - 1] = <<Kind(into(n - 1)), [Content(into(n - 1)) EXCEPT ![p[n]] = g[n]]>>
        BY <1>5, <3>1
      <3>3. p[n] \in DOMAIN Content(into(n - 1))
        BY <1>6, <3>1
      <3>4. Content(g[n - 1]) = [Content(into(n - 1)) EXCEPT ![p[n]] = g[n]]
        BY <3>2 DEF Content
      <3> HIDE DEF into
      <3> QED
        BY <3>3, <3>4
    <2> QED
      BY <2>1, <1>4 DEF Follows
  <1>8. ASSUME NEW m \in 0 .. Len(p)
        PROVE  At(Put(v, p, w), SubSeq(p, 1, m)) = g[m]
    <2>1. /\ SubSeq(p, 1, m) \in Position /\ Len(SubSeq(p, 1, m)) = m
          /\ \A i \in 1 .. m : SubSeq(p, 1, m)[i] = p[i]
      BY PrefixPrefix, <1>l
    <2>2. \A i \in 1 .. m : i \in 1 .. Len(p)
      BY <1>l
    <2>3. Follows(g, Put(v, p, w), SubSeq(p, 1, m))
      BY <1>7, <2>1, <2>2 DEF Follows
    <2> QED
      BY <2>1, <2>3, AtFollows
  <1>9. At(Put(v, p, w), p) = w
    <2>1. SubSeq(p, 1, Len(p)) = p /\ Len(p) \in 0 .. Len(p)
      BY <1>l
    <2> QED
      BY <2>1, <1>8, <1>4
  <1>10. ASSUME NEW m \in 0 .. Len(p) - 1
         PROVE  At(Put(v, p, w), SubSeq(p, 1, m)) =
                   <<Kind(into(m)), [Content(into(m)) EXCEPT ![p[m + 1]] = g[m + 1]]>>
    <2>1. m \in 0 .. Len(p)
      BY <1>l
    <2> QED
      BY <1>5, <1>8, <2>1
  <1>11. Exists(Put(v, p, w), p)
    <2> SUFFICES ASSUME NEW n \in 1 .. Len(p)
                 PROVE  /\ IsStructured(At(Put(v, p, w), SubSeq(p, 1, n - 1)))
                        /\ p[n] \in DOMAIN Content(At(Put(v, p, w), SubSeq(p, 1, n - 1)))
      BY DEF Exists
    <2>1. n - 1 \in 0 .. Len(p) - 1 /\ n - 1 + 1 = n
      BY <1>l
    <2>2. At(Put(v, p, w), SubSeq(p, 1, n - 1)) =
             <<Kind(into(n - 1)), [Content(into(n - 1)) EXCEPT ![p[n]] = g[n]]>>
      BY <1>10, <2>1
    <2>3. IsStructured(into(n - 1)) /\ p[n] \in DOMAIN Content(into(n - 1))
      BY <1>6, <2>1
    <2> HIDE DEF into
    <2> QED
      BY <2>2, <2>3 DEF IsStructured, IsArray, IsObject, Kind, Content
  <1> QED
    BY <1>9, <1>10, <1>11 DEF ButMember

-----------------------------------------------------------------------------
(* Pointers into a value                                                    *)

\* A sequence over any set is a sequence.
LEMMA IsSequenceIntro ==
    ASSUME NEW S, NEW c \in Seq(S)
    PROVE  IsSequence(c)
  <1>1. \A i \in 1 .. Len(c) : c[i] \in {c[j] : j \in DOMAIN c}
    OBVIOUS
  <1>2. c \in Seq({c[j] : j \in DOMAIN c})
    BY <1>1
  <1> QED
    BY <1>2 DEF IsSequence

LEMMA SequenceExcept ==
    ASSUME NEW c, IsSequence(c), NEW k, NEW x
    PROVE  IsSequence([c EXCEPT ![k] = x])
  <1> DEFINE S == {c[j] : j \in DOMAIN c} \cup {x}
             d == [c EXCEPT ![k] = x]
  <1>1. c \in Seq(S) /\ x \in S
    BY DEF IsSequence
  <1> HIDE DEF S
  <1>2. PICK n \in Nat : c \in [1 .. n -> S]
    BY <1>1, SeqDef
  <1>3. d \in [1 .. n -> S]
    BY <1>1, <1>2
  <1>4. d \in Seq(S)
    <2> HIDE DEF d
    <2> QED
      BY <1>3, SeqDef
  <1> QED
    BY <1>4, IsSequenceIntro

LEMMA SequenceAppend ==
    ASSUME NEW c, IsSequence(c), NEW x
    PROVE  /\ IsSequence(Append(c, x))
           /\ Len(c) + 1 \in Nat
           /\ Len(c) + 1 \in DOMAIN Append(c, x)
           /\ Append(c, x)[Len(c) + 1] = x
  <1> DEFINE S == {c[j] : j \in DOMAIN c} \cup {x}
  <1>1. c \in Seq(S) /\ x \in S
    BY DEF IsSequence
  <1> HIDE DEF S
  <1>2. /\ Append(c, x) \in Seq(S)
        /\ Len(c) + 1 \in Nat
        /\ Len(c) + 1 \in DOMAIN Append(c, x)
        /\ Append(c, x)[Len(c) + 1] = x
    BY <1>1
  <1> QED
    BY <1>2, IsSequenceIntro

LEMMA SequenceFront ==
    ASSUME NEW c, IsSequence(c)
    PROVE  IsSequence(Front(c))
  <1> DEFINE S == {c[j] : j \in DOMAIN c}
  <1>1. c \in Seq(S)
    BY DEF IsSequence
  <1> HIDE DEF S
  <1>2. Front(c) \in Seq(S)
    BY <1>1 DEF Front
  <1> QED
    BY <1>2, IsSequenceIntro

\* It is a container of the same type.
LEMMA HoldsButMember ==
    ASSUME NEW x, NEW y, NEW k, ButMember(y, x, k), NEW isArray, Holds(x, isArray)
    PROVE  Holds(y, isArray)
  <1>1. PICK z : y = <<Kind(x), [Content(x) EXCEPT ![k] = z]>>
    BY DEF ButMember
  <1>2. Kind(y) = Kind(x) /\ Content(y) = [Content(x) EXCEPT ![k] = z]
    BY <1>1 DEF Kind, Content
  <1>3. ASSUME isArray PROVE IsSequence(Content(y))
    <2> DEFINE c == Content(x)
    <2>1. IsSequence(c)
      BY <1>3 DEF Holds
    <2>2. Content(y) = [c EXCEPT ![k] = z]
      BY <1>2
    <2> HIDE DEF c
    <2>3. IsSequence([c EXCEPT ![k] = z])
      BY <2>1, SequenceExcept
    <2> QED
      BY <2>2, <2>3
  <1> QED
    BY <1>2, <1>3 DEF Holds

Refs == Seq(Position \cup {NullPtr})

\* The position q passes through all of refs.
Through(q, refs) == \A i \in 1 .. Len(refs) : refs[i] = SubSeq(q, 1, i - 1)

\* If the last pointer of a chain is not null, none is, and all lead to it.
LEMMA ChainTop ==
    ASSUME NEW r, NEW refs \in Refs, NEW open, Chain(r, refs, open),
           refs # << >>, Last(refs) # NullPtr
    PROVE  /\ Last(refs) \in Position
           /\ Len(refs) \in Nat \ {0}
           /\ Len(Last(refs)) = Len(refs) - 1
           /\ Exists(r, Last(refs))
           /\ Holds(At(r, Last(refs)), open[Len(refs)])
           /\ Through(Last(refs), refs)
  <1>1. Len(refs) \in Nat \ {0} /\ Last(refs) = refs[Len(refs)] /\ Last(refs) \in Position
    BY DEF Refs, Last
  <1>2. Len(refs) \in 1 .. Len(refs)
    BY <1>1
  <1> QED
    BY <1>1, <1>2 DEF Chain, Through

\* A member of the last container is on the same path.
LEMMA ThroughMember ==
    ASSUME NEW refs \in Refs, refs # << >>, NEW p \in Position, Len(p) = Len(refs) - 1,
           Through(p, refs), NEW q \in Position, Len(q) = Len(refs), SubSeq(q, 1, Len(refs) - 1) = p
    PROVE  Through(q, refs)
  <1>1. Len(refs) \in Nat \ {0}
    BY DEF Refs
  <1> SUFFICES ASSUME NEW i \in 1 .. Len(refs)
               PROVE  refs[i] = SubSeq(q, 1, i - 1)
    BY DEF Through
  <1>2. Len(refs) - 1 \in 0 .. Len(q) /\ i - 1 \in 0 .. Len(refs) - 1
    BY <1>1
  <1>3. SubSeq(SubSeq(q, 1, Len(refs) - 1), 1, i - 1) = SubSeq(q, 1, i - 1)
    BY <1>2, PrefixPrefix
  <1> QED
    BY <1>3 DEF Through

\* Putting a value at the last pointer, or below it, keeps the chain.
LEMMA ChainPut ==
    ASSUME NEW r, NEW refs \in Refs, NEW open, Chain(r, refs, open),
           NEW q \in Position, Exists(r, q), Through(q, refs), Len(q) >= Len(refs) - 1,
           NEW w, Len(q) = Len(refs) - 1 => Holds(w, open[Len(refs)])
    PROVE  Chain(Put(r, q, w), refs, open)
  <1> DEFINE s == Put(r, q, w)
  <1>l. Len(refs) \in Nat /\ Len(q) \in Nat
    BY DEF Refs, Position
  <1>p. /\ At(s, q) = w
        /\ Exists(s, q)
        /\ \A m \in 0 .. Len(q) - 1 :
              ButMember(At(s, SubSeq(q, 1, m)), At(r, SubSeq(q, 1, m)), q[m + 1])
    BY PutReplaces
  <1> HIDE DEF s
  <1>1. SUFFICES ASSUME NEW i \in 1 .. Len(refs), refs[i] # NullPtr
                 PROVE  /\ Exists(s, refs[i])
                        /\ Holds(At(s, refs[i]), open[i])
    <2>1. \A i \in 1 .. Len(refs) : refs[i] # NullPtr =>
             /\ Len(refs[i]) = i - 1
             /\ \A j \in 1 .. i : refs[j] = SubSeq(refs[i], 1, j - 1)
      BY DEF Chain
    <2> QED
      BY <2>1, <1>1 DEF Chain, s
  <1>2. i - 1 \in 0 .. Len(q) /\ refs[i] = SubSeq(q, 1, i - 1)
    BY <1>l DEF Through
  <1>3. Exists(s, refs[i])
    BY <1>2, <1>p, ExistsPrefix
  <1>4. CASE i - 1 = Len(q)
    <2>1. i = Len(refs) /\ Len(q) = Len(refs) - 1
      BY <1>4, <1>l
    <2>2. SubSeq(q, 1, Len(q)) = q
      BY DEF Position
    <2> QED
      BY <1>2, <1>3, <1>4, <2>1, <2>2, <1>p
  <1>5. CASE i - 1 # Len(q)
    <2>1. i - 1 \in 0 .. Len(q) - 1
      BY <1>5, <1>2, <1>l
    <2>2. ButMember(At(s, refs[i]), At(r, refs[i]), q[i - 1 + 1])
      BY <1>p, <2>1, <1>2
    <2>3. Holds(At(r, refs[i]), open[i])
      BY <1>1 DEF Chain
    <2> QED
      BY <1>3, <2>2, <2>3, HoldsButMember
  <1> QED
    BY <1>4, <1>5

\* A pointer to a member of the last container continues the chain.
LEMMA ChainPush ==
    ASSUME NEW r, NEW refs \in Refs, NEW open \in Seq(BOOLEAN), Len(open) = Len(refs),
           Chain(r, refs, open), NEW isArray \in BOOLEAN,
           NEW q \in Position, Len(q) = Len(refs), Through(q, refs), Exists(r, q),
           Holds(At(r, q), isArray)
    PROVE  Chain(r, Append(refs, q), Append(open, isArray))
  <1> DEFINE refs1 == Append(refs, q)
             open1 == Append(open, isArray)
  <1>1. /\ Len(refs) \in Nat
        /\ Len(refs1) = Len(refs) + 1
        /\ refs1[Len(refs) + 1] = q
        /\ open1[Len(refs) + 1] = isArray
        /\ \A i \in 1 .. Len(refs) : refs1[i] = refs[i] /\ open1[i] = open[i]
    BY DEF Refs
  <1> HIDE DEF refs1, open1
  <1>2. SUFFICES ASSUME NEW i \in 1 .. Len(refs1), refs1[i] # NullPtr
                 PROVE  /\ Len(refs1[i]) = i - 1
                        /\ Exists(r, refs1[i])
                        /\ Holds(At(r, refs1[i]), open1[i])
                        /\ \A j \in 1 .. i : refs1[j] = SubSeq(refs1[i], 1, j - 1)
    BY <1>2 DEF Chain, refs1, open1
  <1>3. CASE i \in 1 .. Len(refs)
    <2>1. refs1[i] = refs[i] /\ open1[i] = open[i] /\ \A j \in 1 .. i : refs1[j] = refs[j]
      BY <1>1, <1>3
    <2> QED
      BY <2>1, <1>2, <1>3 DEF Chain
  <1>4. CASE i = Len(refs) + 1
    <2>1. \A j \in 1 .. Len(refs) : refs1[j] = SubSeq(q, 1, j - 1)
      BY <1>1 DEF Through
    <2>2. q = SubSeq(q, 1, Len(refs) + 1 - 1)
      BY DEF Position
    <2>3. \A j \in 1 .. i : j \in 1 .. Len(refs) \/ j = Len(refs) + 1
      BY <1>1, <1>4
    <2>4. \A j \in 1 .. i : refs1[j] = SubSeq(q, 1, j - 1)
      BY <2>1, <2>2, <2>3, <1>1
    <2> QED
      BY <2>4, <1>1, <1>4
  <1> QED
    BY <1>1, <1>3, <1>4

\* Nor does a null pointer break it.
LEMMA ChainPushNull ==
    ASSUME NEW r, NEW refs \in Refs, NEW open \in Seq(BOOLEAN), Len(open) = Len(refs),
           Chain(r, refs, open), NEW isArray \in BOOLEAN
    PROVE  Chain(r, Append(refs, NullPtr), Append(open, isArray))
  <1> DEFINE refs1 == Append(refs, NullPtr)
             open1 == Append(open, isArray)
  <1>1. /\ Len(refs) \in Nat
        /\ Len(refs1) = Len(refs) + 1
        /\ refs1[Len(refs) + 1] = NullPtr
        /\ \A i \in 1 .. Len(refs) : refs1[i] = refs[i] /\ open1[i] = open[i]
    BY DEF Refs
  <1> HIDE DEF refs1, open1
  <1>2. SUFFICES ASSUME NEW i \in 1 .. Len(refs1), refs1[i] # NullPtr
                 PROVE  /\ Len(refs1[i]) = i - 1
                        /\ Exists(r, refs1[i])
                        /\ Holds(At(r, refs1[i]), open1[i])
                        /\ \A j \in 1 .. i : refs1[j] = SubSeq(refs1[i], 1, j - 1)
    BY <1>2 DEF Chain, refs1, open1
  <1>3. i \in 1 .. Len(refs)
    BY <1>1, <1>2
  <1>4. refs1[i] = refs[i] /\ open1[i] = open[i] /\ \A j \in 1 .. i : refs1[j] = refs[j]
    BY <1>1, <1>3
  <1> QED
    BY <1>2, <1>3, <1>4 DEF Chain

\* A chain without its last pointer is a chain.
LEMMA ChainPop ==
    ASSUME NEW r, NEW refs \in Refs, NEW open \in Seq(BOOLEAN), Len(open) = Len(refs),
           Chain(r, refs, open), refs # << >>
    PROVE  /\ Front(refs) \in Refs /\ Front(open) \in Seq(BOOLEAN)
           /\ Len(Front(refs)) = Len(refs) - 1
           /\ Len(Front(open)) = Len(refs) - 1
           /\ Chain(r, Front(refs), Front(open))
  <1> DEFINE refs1 == Front(refs)
             open1 == Front(open)
  <1>1. /\ Len(refs) \in Nat \ {0}
        /\ refs1 \in Refs /\ open1 \in Seq(BOOLEAN)
        /\ Len(refs1) = Len(refs) - 1
        /\ Len(open1) = Len(refs) - 1
        /\ \A i \in 1 .. Len(refs) - 1 : refs1[i] = refs[i] /\ open1[i] = open[i]
    BY DEF Refs, Front
  <1> HIDE DEF refs1, open1
  <1>2. ASSUME NEW i \in 1 .. Len(refs1), refs1[i] # NullPtr
        PROVE  /\ Len(refs1[i]) = i - 1
               /\ Exists(r, refs1[i])
               /\ Holds(At(r, refs1[i]), open1[i])
               /\ \A j \in 1 .. i : refs1[j] = SubSeq(refs1[i], 1, j - 1)
    <2>1. refs1[i] = refs[i] /\ open1[i] = open[i] /\ \A j \in 1 .. i : refs1[j] = refs[j]
      BY <1>1
    <2>2. i \in 1 .. Len(refs)
      BY <1>1
    <2> QED
      BY <1>2, <2>1, <2>2 DEF Chain
  <1>3. Chain(r, refs1, open1)
    BY <1>2 DEF Chain
  <1> QED
    BY <1>1, <1>3 DEF refs1, open1

-----------------------------------------------------------------------------
(* The lexer                                                                *)

\* What get() returns is an integer, and it keeps to the input.
LEMMA GetTyped ==
    ASSUME LexTyped, NEW c, NEW back \in BOOLEAN, Get(c, back)
    PROVE  /\ c \in Int
           /\ shape' \in Inputs
           /\ read' \in Seq(Int) /\ Len(read') <= Len(shape'.bytes)
           /\ ended' \in BOOLEAN /\ nextUnget' \in BOOLEAN
           /\ current' \in Int
  <1>1. shape.bytes \in Seq(SUBSET (0 .. 255)) /\ Len(shape.bytes) \in Nat /\ Len(read) \in Nat
    BY DEF LexTyped, Inputs
  <1>2. CASE nextUnget
    <2>1. c = current /\ read' = read /\ shape' = shape
      BY <1>2 DEF Get, NextBytes
    <2> QED
      BY <2>1 DEF LexTyped, Get
  <1>3. CASE ~nextUnget /\ (ended \/ Len(read) = Len(shape.bytes))
    <2>1. c = EOF /\ read' = read /\ shape' = shape
      BY <1>3 DEF Get, NextBytes
    <2> QED
      BY <2>1 DEF LexTyped, Get, EOF
  <1>4. CASE ~nextUnget /\ ~ended /\ Len(read) # Len(shape.bytes)
    <2> DEFINE bs == shape.bytes
               n  == Len(read) + 1
    <2>1. bs \in Seq(SUBSET (0 .. 255)) /\ n \in 1 .. Len(bs) /\ n = Len(read) + 1
      BY <1>1, <1>4 DEF LexTyped
    <2>2. c \in bs[n] \/ c = EOF
      BY <1>4 DEF Get, NextBytes
    <2>3. shape' = shape /\ (read' = read \/ read' = Append(read, c))
      BY DEF Get
    <2> HIDE DEF bs, n
    <2>4. bs[n] \subseteq 0 .. 255
      <3> DEFINE S == SUBSET (0 .. 255)
      <3>0. bs \in Seq(S)
        BY <2>1
      <3> HIDE DEF S
      <3>1. bs[n] \in S
        BY <2>1, <3>0, ElementOfSeq
      <3> USE DEF S
      <3> QED
        BY <3>1
    <2>5. c \in Int
      BY <2>2, <2>4 DEF EOF
    <2>6. read' \in Seq(Int) /\ Len(read') <= Len(bs)
      <3>1. read \in Seq(Int) /\ Len(read) <= Len(bs)
        BY DEF LexTyped, bs
      <3>2. Append(read, c) \in Seq(Int) /\ Len(Append(read, c)) = n
        BY <2>1, <2>5, <3>1
      <3>3. n <= Len(bs)
        BY <2>1
      <3> QED
        BY <2>3, <3>1, <3>2, <3>3
    <2> QED
      BY <2>3, <2>5, <2>6 DEF LexTyped, Get, bs
  <1> QED
    BY <1>2, <1>3, <1>4 DEF LexTyped

\* The lexer's tables: structural characters are not strings, and escapes and
\* hexadecimal digits stand for integers.
LEMMA TablesTyped ==
    /\ \A c \in DOMAIN Structural : Structural[c] # "value_string"
    /\ \A c \in DOMAIN SimpleEscapes : SimpleEscapes[c] \in Int
    /\ \A c \in DOMAIN HexDigit : HexDigit[c] \in Int
  <1>1. \A c \in DOMAIN Structural : Structural[c] # "value_string"
    BY DEF Structural
  <1>2. \A c \in DOMAIN SimpleEscapes : SimpleEscapes[c] \in Int
    BY DEF SimpleEscapes
  <1>3. \A c \in DOMAIN HexDigit : HexDigit[c] \in Int
    BY DEF HexDigit
  <1> QED
    BY <1>1, <1>2, <1>3

LEMMA Utf8Typed ==
    ASSUME NEW n \in Int
    PROVE  Utf8(n) \in Seq(Int)
  <1> DEFINE a == n \div 64
             b == n % 64
             c == n \div 4096
             d == n \div 262144
             e == (n \div 64) % 64
             f == (n \div 4096) % 64
             s1 == <<n>>
             s2 == <<192 + a, 128 + b>>
             s3 == <<224 + c, 128 + e, 128 + b>>
             s4 == <<240 + d, 128 + f, 128 + e, 128 + b>>
  <1>1. a \in Int /\ b \in Int /\ c \in Int /\ d \in Int
    OBVIOUS
  <1>2. e \in Int /\ f \in Int
    OBVIOUS
  <1>3. Utf8(n) = s1 \/ Utf8(n) = s2 \/ Utf8(n) = s3 \/ Utf8(n) = s4
    BY DEF Utf8
  <1> HIDE DEF a, b, c, d, e, f
  <1>4. s1 \in Seq(Int) /\ s2 \in Seq(Int)
    BY <1>1
  <1>5. s3 \in Seq(Int)
    BY <1>1, <1>2
  <1>6. s4 \in Seq(Int)
    BY <1>1, <1>2
  <1> HIDE DEF s1, s2, s3, s4
  <1> QED
    BY <1>3, <1>4, <1>5, <1>6

CodeTyped == code \in [high : Int, value : Int, digits : Int]
TokenTyped == token.type = "value_string" => Content(token.value) \in Seq(Int)

\* Only a string ends in a string token.
LEMMA ReturnTyped ==
    ASSUME LexTyped
    PROVE  /\ \A m : GoTo(m) => TokenTyped'
           /\ \A type, value : Return(type, value) /\ type # "value_string" => TokenTyped'
           /\ Fail => TokenTyped'
           /\ UNCHANGED token => TokenTyped'
           /\ UNCHANGED code => CodeTyped'
           /\ NoCode \in [high : Int, value : Int, digits : Int]
           /\ UNCHANGED tokenBuffer => tokenBuffer' \in Seq(Int)
           /\ \A s \in Seq(Int) : Add(s) => tokenBuffer' \in Seq(Int)
  <1>1. UNCHANGED token => TokenTyped'
    BY DEF LexTyped, TokenTyped
  <1>2. \A m : GoTo(m) => TokenTyped'
    BY <1>1 DEF GoTo
  <1>3. \A type, value : Return(type, value) /\ type # "value_string" => TokenTyped'
    BY DEF Return, TokenTyped
  <1>4. Fail => TokenTyped'
    BY <1>3 DEF Fail
  <1>5. /\ UNCHANGED code => CodeTyped'
        /\ NoCode \in [high : Int, value : Int, digits : Int]
    BY DEF LexTyped, CodeTyped, NoCode
  <1>6. UNCHANGED tokenBuffer => tokenBuffer' \in Seq(Int)
    BY DEF LexTyped
  <1>7. \A s \in Seq(Int) : Add(s) => tokenBuffer' \in Seq(Int)
    BY DEF LexTyped, Add
  <1> QED
    BY <1>1, <1>2, <1>3, <1>4, <1>5, <1>6, <1>7

LEMMA LexTypedIntro ==
    ASSUME LexTyped, NEW c, NEW back \in BOOLEAN, Get(c, back),
           CodeTyped', TokenTyped', tokenBuffer' \in Seq(Int)
    PROVE  LexTyped'
  BY GetTyped DEF LexTyped, CodeTyped, TokenTyped

\* One byte is a sequence.
LEMMA Byte ==
    \A c \in Int : <<c>> \in Seq(Int)
  OBVIOUS

LEMMA ScanTyped ==
    ASSUME LexTyped, SkipBom \/ BomRest \/ Scan \/ ScanLiteral \/ Surrogate
    PROVE  LexTyped'
  <1>1. CASE SkipBom
    <2>1. PICK c \in NextBytes : /\ \/ Get(c, FALSE) /\ GoTo("bom rest")
                                    \/ Get(c, TRUE) /\ GoTo("scan")
                                 /\ UNCHANGED <<code, tokenBuffer>>
      BY <1>1 DEF SkipBom
    <2> QED
      BY <2>1, ReturnTyped, LexTypedIntro
  <1>2. CASE BomRest
    <2>1. PICK c \in NextBytes : /\ Get(c, FALSE)
                                 /\ GoTo("scan") \/ UNCHANGED token \/ Fail
                                 /\ UNCHANGED <<code, tokenBuffer>>
      BY <1>2 DEF BomRest, Expected
    <2> QED
      BY <2>1, ReturnTyped, LexTypedIntro
  <1>3. CASE Surrogate
    <2>1. PICK c \in NextBytes : /\ Get(c, FALSE)
                                 /\ GoTo("codepoint") \/ UNCHANGED token \/ Fail
                                 /\ UNCHANGED <<code, tokenBuffer>>
      BY <1>3 DEF Surrogate, Expected
    <2> QED
      BY <2>1, ReturnTyped, LexTypedIntro
  <1>4. CASE ScanLiteral
    <2>1. PICK c \in NextBytes : /\ Get(c, FALSE)
                                 /\ LiteralToken \/ UNCHANGED token \/ Fail
                                 /\ UNCHANGED <<code, tokenBuffer>>
      BY <1>4 DEF ScanLiteral, Expected
    <2>2. LiteralToken => TokenTyped'
      BY ReturnTyped DEF LiteralToken
    <2> QED
      BY <2>1, <2>2, ReturnTyped, LexTypedIntro
  <1>5. CASE Scan
    <2>1. PICK c \in NextBytes :
             /\ Get(c, FALSE)
             /\ tokenBuffer' = <<c>> \/ tokenBuffer' = << >>
             /\ \/ UNCHANGED token
                \/ \E m : GoTo(m)
                \/ c \in DOMAIN Structural /\ Return(Structural[c], Null)
                \/ Return("end_of_input", Null)
                \/ Fail
             /\ UNCHANGED code
      BY <1>5 DEF Scan
    <2>2. tokenBuffer' \in Seq(Int)
      <3>1. c \in Int /\ <<c>> \in Seq(Int)
        BY <2>1, GetTyped, Byte
      <3>2. << >> \in Seq(Int)
        OBVIOUS
      <3> QED
        BY <2>1, <3>1, <3>2
    <2>3. TokenTyped'
      BY <2>1, ReturnTyped, TablesTyped
    <2> QED
      BY <2>1, <2>2, <2>3, ReturnTyped, LexTypedIntro
  <1> QED
    BY <1>1, <1>2, <1>3, <1>4, <1>5

LEMMA EndCodepointTyped ==
    ASSUME LexTyped, NEW high \in Int, NEW n \in Int, EndCodepoint(high, n)
    PROVE  CodeTyped' /\ TokenTyped' /\ tokenBuffer' \in Seq(Int)
  <1>1. Utf8(n) \in Seq(Int) /\ Utf8(high * 1024 + n - 56613888) \in Seq(Int)
    BY Utf8Typed
  <1>2. CASE n \in High /\ code' = [NoCode EXCEPT !.high = n] /\ GoTo("surrogate")
             /\ UNCHANGED tokenBuffer
    <2>1. CodeTyped'
      BY <1>2 DEF CodeTyped, NoCode
    <2> QED
      BY <1>2, <2>1, ReturnTyped
  <1>3. CASE /\ code' = NoCode
             /\ Fail \/ GoTo("string")
             /\ UNCHANGED tokenBuffer \/ \E s \in Seq(Int) : Add(s)
    <2>1. CodeTyped'
      BY <1>3, ReturnTyped DEF CodeTyped
    <2> QED
      BY <1>3, <2>1, ReturnTyped
  <1> QED
    BY <1>1, <1>2, <1>3 DEF EndCodepoint

LEMMA ScanStringTyped ==
    ASSUME LexTyped, ScanString \/ NextByteInRange \/ ScanEscape \/ GetCodepoint
    PROVE  LexTyped'
  <1>1. CASE ScanString
    <2>1. PICK c \in NextBytes :
             /\ Get(c, FALSE)
             /\ \/ Return("value_string", String(tokenBuffer)) /\ UNCHANGED tokenBuffer
                \/ GoTo("escape") /\ UNCHANGED tokenBuffer
                \/ Add(<<c>>) /\ UNCHANGED token
                \/ Add(<<c>>) /\ GoTo("utf8")
                \/ Fail /\ UNCHANGED tokenBuffer
             /\ UNCHANGED code
      BY <1>1 DEF ScanString
    <2>2. Return("value_string", String(tokenBuffer)) => TokenTyped'
      BY DEF Return, String, Content, TokenTyped, LexTyped
    <2>3. c \in Int /\ <<c>> \in Seq(Int)
      BY <2>1, GetTyped, Byte
    <2>4. TokenTyped' /\ CodeTyped' /\ tokenBuffer' \in Seq(Int)
      BY <2>1, <2>2, <2>3, ReturnTyped
    <2> QED
      BY <2>1, <2>4, LexTypedIntro
  <1>2. CASE NextByteInRange
    <2>1. PICK c \in NextBytes :
             /\ Get(c, FALSE)
             /\ \/ Add(<<c>>) /\ \E m : GoTo(m)
                \/ Fail /\ UNCHANGED tokenBuffer
             /\ UNCHANGED code
      BY <1>2 DEF NextByteInRange
    <2>2. c \in Int /\ <<c>> \in Seq(Int)
      BY <2>1, GetTyped, Byte
    <2>3. TokenTyped' /\ CodeTyped' /\ tokenBuffer' \in Seq(Int)
      BY <2>1, <2>2, ReturnTyped
    <2> QED
      BY <2>1, <2>3, LexTypedIntro
  <1>3. CASE ScanEscape
    <2>1. PICK c \in NextBytes :
             /\ Get(c, FALSE)
             /\ \/ /\ c \in DOMAIN SimpleEscapes /\ Add(<<SimpleEscapes[c]>>)
                   /\ GoTo("string") /\ UNCHANGED code
                \/ GoTo("codepoint") /\ code' = NoCode /\ UNCHANGED tokenBuffer
                \/ Fail /\ UNCHANGED <<tokenBuffer, code>>
      BY <1>3 DEF ScanEscape
    <2>2. c \in DOMAIN SimpleEscapes => <<SimpleEscapes[c]>> \in Seq(Int)
      BY TablesTyped, Byte
    <2>3. code' = NoCode => CodeTyped'
      BY ReturnTyped DEF CodeTyped
    <2>4. TokenTyped' /\ CodeTyped' /\ tokenBuffer' \in Seq(Int)
      BY <2>1, <2>2, <2>3, ReturnTyped
    <2> QED
      BY <2>1, <2>4, LexTypedIntro
  <1>4. CASE GetCodepoint
    <2>1. PICK c \in NextBytes :
             /\ Get(c, FALSE)
             /\ \/ /\ c \in DOMAIN HexDigit
                   /\ code' = [code EXCEPT !.value = 16 * @ + HexDigit[c], !.digits = @ + 1]
                   /\ UNCHANGED <<token, tokenBuffer>>
                \/ /\ c \in DOMAIN HexDigit
                   /\ EndCodepoint(code.high, 16 * code.value + HexDigit[c])
                \/ Fail /\ code' = NoCode /\ UNCHANGED tokenBuffer
      BY <1>4 DEF GetCodepoint
    <2>2. code \in [high : Int, value : Int, digits : Int]
      BY DEF LexTyped
    <2>3. ASSUME c \in DOMAIN HexDigit,
                 code' = [code EXCEPT !.value = 16 * @ + HexDigit[c], !.digits = @ + 1]
          PROVE  CodeTyped'
      <3>1. code.value \in Int /\ code.digits \in Int /\ HexDigit[c] \in Int
        BY <2>2, <2>3, TablesTyped
      <3>2. 16 * code.value + HexDigit[c] \in Int /\ code.digits + 1 \in Int
        BY <3>1
      <3> QED
        BY <2>2, <2>3, <3>2 DEF CodeTyped
    <2>4. ASSUME c \in DOMAIN HexDigit,
                 EndCodepoint(code.high, 16 * code.value + HexDigit[c])
          PROVE  CodeTyped' /\ TokenTyped' /\ tokenBuffer' \in Seq(Int)
      <3>1. code.high \in Int /\ code.value \in Int /\ HexDigit[c] \in Int
        BY <2>2, <2>4, TablesTyped
      <3>2. 16 * code.value + HexDigit[c] \in Int
        BY <3>1
      <3> QED
        BY <2>4, <3>1, <3>2, EndCodepointTyped
    <2>5. code' = NoCode => CodeTyped'
      BY ReturnTyped DEF CodeTyped
    <2>6. TokenTyped' /\ CodeTyped' /\ tokenBuffer' \in Seq(Int)
      BY <2>1, <2>3, <2>4, <2>5, ReturnTyped
    <2> QED
      BY <2>1, <2>6, LexTypedIntro
  <1> QED
    BY <1>1, <1>2, <1>3, <1>4

LEMMA ScanNumberTyped ==
    ASSUME LexTyped, ScanNumber
    PROVE  LexTyped'
  <1>1. PICK c \in NextBytes :
           /\ \/ Get(c, TRUE) /\ token' = NumberToken(tokenBuffer) /\ UNCHANGED tokenBuffer
              \/ Get(c, FALSE) /\ Fail /\ UNCHANGED tokenBuffer
              \/ Get(c, FALSE) /\ (\E m : GoTo(m)) /\ Add(<<c>>)
           /\ UNCHANGED code
    BY DEF ScanNumber
  <1>2. c \in Int /\ <<c>> \in Seq(Int)
    BY <1>1, GetTyped, Byte
  <1>3. token' = NumberToken(tokenBuffer) => TokenTyped'
    <2>1. NumberToken(tokenBuffer).type # "value_string"
      BY DEF NumberToken
    <2> QED
      BY <2>1 DEF TokenTyped
  <1>4. TokenTyped' /\ CodeTyped' /\ tokenBuffer' \in Seq(Int)
    BY <1>1, <1>2, <1>3, ReturnTyped
  <1> QED
    BY <1>1, <1>4, LexTypedIntro

LEMMA LexStepTyped ==
    ASSUME LexTyped, LexStep
    PROVE  LexTyped'
  BY ScanTyped, ScanStringTyped, ScanNumberTyped DEF LexStep

LEMMA GetTokenTyped ==
    ASSUME LexTyped, GetToken \/ UNCHANGED lexVars
    PROVE  LexTyped'
  <1>1. CASE GetToken
    BY <1>1 DEF GetToken, LexTyped, NoToken
  <1>2. CASE UNCHANGED lexVars
    BY <1>2 DEF lexVars, LexTyped
  <1> QED
    BY <1>1, <1>2

-----------------------------------------------------------------------------
(* The consumer                                                             *)

\* A value can be stored: at the root, in an array, or at the place of a key.
Ready(open) ==
    refStack # << >> =>
        /\ Last(refStack) # NullPtr
        /\ ~Last(open) => /\ objectElement \in Position
                          /\ Exists(root, objectElement)
                          /\ objectElement # << >>
                          /\ Front(objectElement) = Last(refStack)

\* Chains of the value that is being built, with the types of their containers.
Chained(open) ==
    /\ refStack \in Refs
    /\ open \in Seq(BOOLEAN)
    /\ Len(refStack) = Len(open)
    /\ Chain(root, refStack, open)

\* The containers at the ends of chains are what their types say.
LEMMA TopContainer ==
    ASSUME NEW r, NEW refs \in Refs, NEW open \in Seq(BOOLEAN), Len(refs) = Len(open),
           Chain(r, refs, open), refs # << >>, Last(refs) # NullPtr
    PROVE  /\ Last(open) \in BOOLEAN
           /\ open[Len(refs)] = Last(open)
           /\ IsArray(At(r, Last(refs))) <=> Last(open)
           /\ IsObject(At(r, Last(refs))) <=> ~Last(open)
           /\ IsStructured(At(r, Last(refs)))
           /\ Last(open) => IsSequence(Content(At(r, Last(refs))))
  <1>1. Len(refs) \in Nat \ {0}
    BY ChainTop
  <1>2. Last(open) = open[Len(refs)] /\ open[Len(refs)] \in BOOLEAN
    BY <1>1 DEF Last
  <1>3. Holds(At(r, Last(refs)), Last(open))
    BY <1>2, ChainTop
  <1> QED
    BY <1>2, <1>3 DEF Holds, IsArray, IsObject, IsStructured

\* Storing a value keeps the chain, and the place of the value continues it.
LEMMA StoreKeeps ==
    ASSUME NEW open, Chained(open), Ready(open), NEW v, Store(v)
    PROVE  /\ Chain(root', refStack, open)
           /\ Place \in Position
           /\ Len(Place) = Len(refStack)
           /\ Through(Place, refStack)
           /\ Exists(root', Place)
           /\ At(root', Place) = v
  <1> DEFINE back == Last(refStack)
             c == Content(At(root, back))
  <1>0. /\ refStack \in Refs /\ Len(refStack) \in Nat
        /\ open \in Seq(BOOLEAN) /\ Len(refStack) = Len(open)
        /\ Chain(root, refStack, open)
    BY DEF Chained, Refs
  <1>1. CASE refStack = << >>
    <2>1. Place = << >> /\ root' = Put(root, << >>, v)
      BY <1>1 DEF Place, Store
    <2>2. << >> \in Position /\ Len(<< >>) = 0 /\ Exists(root, << >>) /\ Len(refStack) = 0
      BY <1>1 DEF Position, Exists
    <2>3. At(root', << >>) = v /\ Exists(root', << >>)
      BY <2>1, <2>2, PutReplaces
    <2>4. Chain(root', refStack, open) /\ Through(<< >>, refStack)
      BY <2>2 DEF Chain, Through
    <2> QED
      BY <2>1, <2>2, <2>3, <2>4
  <1>2. CASE refStack # << >> /\ Last(open)
    <2>0. back # NullPtr
      BY <1>2 DEF Ready
    <2>1. IsArray(At(root, back)) /\ IsSequence(c) /\ open[Len(refStack)] = Last(open)
      BY <1>0, <1>2, <2>0, TopContainer
    <2>2. /\ back \in Position
          /\ Len(back) = Len(refStack) - 1
          /\ Exists(root, back)
          /\ Through(back, refStack)
      BY <1>0, <1>2, <2>0, ChainTop
    <2>3. /\ root' = Put(root, back, Array(Append(c, v)))
          /\ Place = Append(back, Len(c) + 1)
      BY <1>2, <2>1 DEF Store, Place
    <2>4. /\ IsSequence(Append(c, v)) /\ Len(c) + 1 \in Nat
          /\ Len(c) + 1 \in DOMAIN Append(c, v) /\ Append(c, v)[Len(c) + 1] = v
      <3> HIDE DEF c
      <3> QED
        BY <2>1, SequenceAppend
    <2> HIDE DEF c, back
    <2>5. Holds(Array(Append(c, v)), open[Len(refStack)])
      BY <1>2, <2>1, <2>4 DEF Holds, Array, Kind, Content
    <2>6. Chain(root', refStack, open)
      <3>1. Len(back) >= Len(refStack) - 1
        BY <2>2, <1>0
      <3> QED
        BY <1>0, <2>2, <2>3, <2>5, <3>1, ChainPut
    <2>7. At(root', back) = Array(Append(c, v)) /\ Exists(root', back)
      BY <2>2, <2>3, PutReplaces
    <2>8. IsStructured(At(root', back)) /\ Content(At(root', back)) = Append(c, v)
      BY <2>7 DEF IsStructured, IsArray, Array, Kind, Content
    <2>9. /\ Place \in Position
          /\ Len(Place) = Len(back) + 1
          /\ SubSeq(Place, 1, Len(back)) = back
          /\ Exists(root', Place)
          /\ At(root', Place) = v
      <3> DEFINE k == Len(c) + 1
      <3>1. /\ k \in Nat \cup Seq(Int) /\ Place = Append(back, k)
            /\ k \in DOMAIN Content(At(root', back)) /\ Content(At(root', back))[k] = v
        BY <2>3, <2>4, <2>8
      <3> HIDE DEF k
      <3>2. /\ Place \in Position
            /\ Len(Place) = Len(back) + 1
            /\ SubSeq(Place, 1, Len(back)) = back
        BY <2>2, <3>1, ExistsMember
      <3>3. At(root', Append(back, k)) = Content(At(root', back))[k]
        BY <2>2, <3>1, ExistsMember
      <3>4. Exists(root', Append(back, k))
        BY <2>2, <2>7, <2>8, <3>1, ExistsMember
      <3> QED
        BY <3>1, <3>2, <3>3, <3>4
    <2>10. Len(Place) = Len(refStack) /\ SubSeq(Place, 1, Len(refStack) - 1) = back
      BY <2>2, <2>9, <1>0
    <2>11. Through(Place, refStack)
      BY <1>0, <1>2, <2>2, <2>9, <2>10, ThroughMember
    <2> QED
      BY <2>6, <2>9, <2>10, <2>11
  <1>3. CASE refStack # << >> /\ ~Last(open)
    <2>0. /\ back # NullPtr
          /\ objectElement \in Position
          /\ Exists(root, objectElement)
          /\ objectElement # << >>
          /\ Front(objectElement) = back
      BY <1>3 DEF Ready
    <2>1. ~IsArray(At(root, back))
      BY <1>0, <1>3, <2>0, TopContainer
    <2>2. /\ back \in Position
          /\ Len(back) = Len(refStack) - 1
          /\ Through(back, refStack)
      BY <1>0, <1>3, <2>0, ChainTop
    <2>3. root' = Put(root, objectElement, v) /\ Place = objectElement
      BY <1>3, <2>1 DEF Store, Place
    <2>4. Len(objectElement) = Len(back) + 1 /\ SubSeq(objectElement, 1, Len(back)) = back
      BY <2>0 DEF Front, Position
    <2>5. /\ Len(objectElement) = Len(refStack)
          /\ SubSeq(objectElement, 1, Len(refStack) - 1) = back
      BY <2>2, <2>4, <1>0
    <2> HIDE DEF back
    <2>6. Through(objectElement, refStack)
      BY <1>0, <1>3, <2>0, <2>2, <2>5, ThroughMember
    <2>7. At(root', objectElement) = v /\ Exists(root', objectElement)
      BY <2>0, <2>3, PutReplaces
    <2>8. Len(objectElement) >= Len(refStack) - 1 /\ Len(objectElement) # Len(refStack) - 1
      BY <2>5, <1>0
    <2>9. Chain(root', refStack, open)
      BY <1>0, <2>0, <2>3, <2>6, <2>8, ChainPut
    <2> QED
      BY <2>0, <2>3, <2>5, <2>6, <2>7, <2>9
  <1> QED
    BY <1>1, <1>2, <1>3

\* While a value is expected, everything that is stored has its place.
ValuePlace(open) ==
    /\ ~callback => \A i \in 1 .. Len(refStack) : refStack[i] # NullPtr
    /\ open # << >> /\ ~Last(open) =>
          /\ callback => keyKeepStack # << >>
          /\ Last(refStack) # NullPtr => PlaceMade

LEMMA LastIsElement ==
    ASSUME refStack \in Refs, refStack # << >>
    PROVE  /\ Len(refStack) \in Nat \ {0}
           /\ Len(refStack) \in 1 .. Len(refStack)
           /\ Last(refStack) = refStack[Len(refStack)]
  BY DEF Refs, Last

LEMMA ReadyWithoutCallback ==
    ASSUME NEW open, Chained(open), ValuePlace(open), ~callback
    PROVE  Ready(open)
  <1>1. refStack # << >> => open # << >> /\ Last(refStack) # NullPtr
    <2>1. ASSUME refStack # << >> PROVE open # << >> /\ Last(refStack) # NullPtr
      <3>1. refStack \in Refs /\ Len(open) = Len(refStack)
        BY DEF Chained
      <3>2. Len(refStack) \in 1 .. Len(refStack) /\ Last(refStack) = refStack[Len(refStack)]
            /\ Len(refStack) # 0
        BY <2>1, <3>1, LastIsElement
      <3> QED
        BY <3>1, <3>2 DEF ValuePlace
    <2> QED
      BY <2>1
  <1> QED
    BY <1>1 DEF Ready, ValuePlace, PlaceMade

\* handle_value stores a value where there is a place for it.
LEMMA ReadyKept ==
    ASSUME NEW open, Chained(open), ValuePlace(open), KeptPlace # NullPtr
    PROVE  Ready(open) /\ KeptPlace = Place
  <1>1. KeptPlace = Place /\ (refStack # << >> => Last(refStack) # NullPtr)
        /\ ~(UnderKey /\ ~Last(keyKeepStack))
    BY DEF KeptPlace
  <1>2. ASSUME refStack # << >>, ~Last(open)
        PROVE  /\ objectElement \in Position
               /\ Exists(root, objectElement)
               /\ objectElement # << >>
               /\ Front(objectElement) = Last(refStack)
    <2>1. IsObject(At(root, Last(refStack)))
      BY <1>1, <1>2, TopContainer DEF Chained
    <2>2. UnderKey
      BY <1>1, <1>2, <2>1 DEF UnderKey
    <2>3. open # << >>
      <3>1. Len(refStack) # 0 /\ Len(refStack) = Len(open)
        BY <1>2, LastIsElement DEF Chained
      <3> QED
        BY <3>1
    <2> QED
      BY <1>1, <1>2, <2>2, <2>3 DEF ValuePlace, PlaceMade
  <1> QED
    BY <1>1, <1>2 DEF Ready

LEMMA HandleKeptKeeps ==
    ASSUME NEW open, Chained(open), ValuePlace(open), keyKeepStack \in Seq(BOOLEAN),
           NEW v, HandleKept(v)
    PROVE  /\ Chain(root', refStack, open)
           /\ keyKeepStack' \in Seq(BOOLEAN)
           /\ KeptPlace # NullPtr =>
                 /\ KeptPlace \in Position
                 /\ Len(KeptPlace) = Len(refStack)
                 /\ Through(KeptPlace, refStack)
                 /\ Exists(root', KeptPlace)
                 /\ At(root', KeptPlace) = v
  <1>1. keyKeepStack' \in Seq(BOOLEAN)
    <2>1. Front(keyKeepStack) \in Seq(BOOLEAN)
      BY DEF Front
    <2> QED
      BY <2>1 DEF HandleKept
  <1>2. CASE KeptPlace = NullPtr
    BY <1>1, <1>2 DEF HandleKept, Chained
  <1>3. CASE KeptPlace # NullPtr
    <2>1. Ready(open) /\ KeptPlace = Place
      BY <1>3, ReadyKept
    <2>2. Store(v)
      BY <1>3 DEF HandleKept
    <2> QED
      BY <1>1, <2>1, <2>2, StoreKeeps
  <1> QED
    BY <1>2, <1>3

LEMMA PlainValueKeeps ==
    ASSUME NEW open, Chained(open), ValuePlace(open), keyKeepStack \in Seq(BOOLEAN),
           callback \in BOOLEAN, NEW v, PlainValue(v)
    PROVE  /\ refStack' = refStack
           /\ Chain(root', refStack, open)
           /\ keyKeepStack' \in Seq(BOOLEAN)
  <1>0. refStack' = refStack
    BY DEF PlainValue
  <1>1. CASE ~callback /\ Store(v) /\ UNCHANGED keyKeepStack
    BY <1>0, <1>1, ReadyWithoutCallback, StoreKeeps
  <1>2. CASE UNCHANGED <<root, keyKeepStack>>
    BY <1>0, <1>2 DEF Chained
  <1>3. CASE HandleKept(v)
    BY <1>0, <1>3, HandleKeptKeeps
  <1> QED
    BY <1>1, <1>2, <1>3 DEF PlainValue

\* start_object, start_array: the pointer to the new container continues the chain.
LEMMA StartKeeps ==
    ASSUME NEW open, Chained(open), ValuePlace(open), keyKeepStack \in Seq(BOOLEAN),
           callback \in BOOLEAN, NEW isArray \in BOOLEAN, NEW v, Holds(v, isArray),
           StartContainer(v)
    PROVE  /\ refStack' \in Refs
           /\ Len(refStack') = Len(refStack) + 1
           /\ Chain(root', refStack', Append(open, isArray))
           /\ ~callback => \A i \in 1 .. Len(refStack') : refStack'[i] # NullPtr
           /\ keyKeepStack' \in Seq(BOOLEAN)
  <1>0. /\ refStack \in Refs /\ open \in Seq(BOOLEAN) /\ Len(open) = Len(refStack)
        /\ Len(refStack) \in Nat
        /\ Chain(root, refStack, open)
    BY DEF Chained, Refs
  <1>1. ASSUME NEW q \in Position, refStack' = Append(refStack, q), Chain(root', refStack, open),
               Len(q) = Len(refStack), Through(q, refStack), Exists(root', q), At(root', q) = v
        PROVE  /\ refStack' \in Refs
               /\ Len(refStack') = Len(refStack) + 1
               /\ Chain(root', refStack', Append(open, isArray))
    <2>1. Chain(root', refStack', Append(open, isArray))
      BY <1>0, <1>1, ChainPush
    <2>2. refStack' \in Refs /\ Len(refStack') = Len(refStack) + 1
      BY <1>0, <1>1 DEF Refs
    <2> QED
      BY <2>1, <2>2
  <1>2. ASSUME refStack' = Append(refStack, NullPtr), Chain(root', refStack, open)
        PROVE  /\ refStack' \in Refs
               /\ Len(refStack') = Len(refStack) + 1
               /\ Chain(root', refStack', Append(open, isArray))
    <2>1. Chain(root', refStack', Append(open, isArray))
      BY <1>0, <1>2, ChainPushNull
    <2>2. refStack' \in Refs /\ Len(refStack') = Len(refStack) + 1
      BY <1>0, <1>2 DEF Refs
    <2> QED
      BY <2>1, <2>2
  <1>3. CASE /\ ~callback /\ Store(v) /\ refStack' = Append(refStack, Place)
             /\ UNCHANGED keyKeepStack
    <2>1. /\ Chain(root', refStack, open)
          /\ Place \in Position
          /\ Len(Place) = Len(refStack)
          /\ Through(Place, refStack)
          /\ Exists(root', Place)
          /\ At(root', Place) = v
      BY <1>3, ReadyWithoutCallback, StoreKeeps
    <2>2. /\ refStack' \in Refs
          /\ Len(refStack') = Len(refStack) + 1
          /\ Chain(root', refStack', Append(open, isArray))
      BY <1>1, <1>3, <2>1
    <2>3. ASSUME NEW i \in 1 .. Len(refStack')
          PROVE  refStack'[i] # NullPtr
      <3>1. Place # NullPtr
        BY <2>1, NullPtrAssumption
      <3>2. CASE i \in 1 .. Len(refStack)
        <4>1. refStack'[i] = refStack[i]
          BY <1>0, <1>3, <3>2 DEF Refs
        <4> QED
          BY <4>1, <3>2, <1>3 DEF ValuePlace
      <3>3. CASE i = Len(refStack) + 1
        <4>1. refStack'[i] = Place
          BY <1>0, <1>3, <3>3 DEF Refs
        <4> QED
          BY <4>1, <3>1
      <3> QED
        BY <1>0, <2>2, <3>2, <3>3
    <2> QED
      BY <1>3, <2>2, <2>3
  <1>4. CASE callback /\ HandleKept(v) /\ refStack' = Append(refStack, KeptPlace)
    <2>1. Chain(root', refStack, open) /\ keyKeepStack' \in Seq(BOOLEAN)
      BY <1>4, HandleKeptKeeps
    <2>2. CASE KeptPlace = NullPtr
      BY <1>2, <1>4, <2>1, <2>2
    <2>3. CASE KeptPlace # NullPtr
      <3>1. /\ KeptPlace \in Position
            /\ Len(KeptPlace) = Len(refStack)
            /\ Through(KeptPlace, refStack)
            /\ Exists(root', KeptPlace)
            /\ At(root', KeptPlace) = v
        BY <1>4, <2>3, HandleKeptKeeps
      <3> QED
        BY <1>1, <1>4, <2>1, <3>1
    <2> QED
      BY <2>2, <2>3
  <1>5. CASE callback /\ refStack' = Append(refStack, NullPtr) /\ UNCHANGED <<root, keyKeepStack>>
    <2>1. Chain(root', refStack, open)
      BY <1>0, <1>5
    <2> QED
      BY <1>2, <1>5, <2>1
  <1> QED
    BY <1>3, <1>4, <1>5 DEF StartContainer

\* key(): makes a place in the object that is being read.
LEMMA KeyKeeps ==
    ASSUME NEW open, Chained(open), open # << >>, ~Last(open),
           ~callback => \A i \in 1 .. Len(refStack) : refStack[i] # NullPtr,
           keyKeepStack \in Seq(BOOLEAN), callback \in BOOLEAN, UNCHANGED callback,
           NEW k \in Seq(Int), Key(k)
    PROVE  /\ refStack' = refStack
           /\ Chain(root', refStack, open)
           /\ keyKeepStack' \in Seq(BOOLEAN)
           /\ callback => keyKeepStack' # << >>
           /\ Last(refStack) # NullPtr => PlaceMade'
  <1> DEFINE back == Last(refStack)
             Make(v) == /\ root' = Put(root, back, WithKey(At(root, back), k, v))
                        /\ objectElement' = Append(back, k)
  <1>0. /\ refStack \in Refs /\ open \in Seq(BOOLEAN) /\ Len(open) = Len(refStack)
        /\ Len(refStack) \in Nat /\ refStack # << >>
        /\ Chain(root, refStack, open)
    BY DEF Chained, Refs
  <1>1. refStack' = refStack
    BY DEF Key
  <1>2. ASSUME NEW v, Make(v), back # NullPtr
        PROVE  /\ Chain(root', refStack, open)
               /\ objectElement' \in Position
               /\ Exists(root', objectElement')
               /\ objectElement' # << >>
               /\ Front(objectElement') = Last(refStack)
    <2> DEFINE w == WithKey(At(root, back), k, v)
    <2>1. /\ back \in Position
          /\ Len(back) = Len(refStack) - 1
          /\ Len(back) \in Nat
          /\ Exists(root, back)
          /\ Through(back, refStack)
      BY <1>0, <1>2, ChainTop DEF Position
    <2>2. open[Len(refStack)] = Last(open)
      BY <1>0, <1>2, TopContainer
    <2>3. Kind(w) = "object" /\ IsStructured(w) /\ k \in DOMAIN Content(w)
      BY DEF WithKey, Object, Kind, Content, IsStructured, IsObject
    <2>4. root' = Put(root, back, w) /\ objectElement' = Append(back, k)
      BY <1>2
    <2> HIDE DEF w, back
    <2>5. Holds(w, open[Len(refStack)])
      BY <2>2, <2>3 DEF Holds
    <2>6. Len(back) >= Len(refStack) - 1
      BY <1>0, <2>1
    <2>7. Chain(root', refStack, open)
      BY <1>0, <2>1, <2>4, <2>5, <2>6, ChainPut
    <2>8. At(root', back) = w /\ Exists(root', back)
      BY <2>1, <2>4, PutReplaces
    <2>9. objectElement' \in Position /\ Len(objectElement') = Len(back) + 1
          /\ SubSeq(objectElement', 1, Len(back)) = back
      BY <2>1, <2>4, ExistsMember
    <2>10. Exists(root', objectElement')
      <3>1. /\ Exists(root', back)
            /\ IsStructured(At(root', back))
            /\ k \in DOMAIN Content(At(root', back))
        BY <2>3, <2>8
      <3>2. Exists(root', Append(back, k))
        BY <2>1, <3>1, ExistsMember
      <3> QED
        BY <2>4, <3>2
    <2>11. objectElement' # << >> /\ Front(objectElement') = back
      BY <2>1, <2>9 DEF Front, Position
    <2> QED
      BY <2>7, <2>9, <2>10, <2>11 DEF back
  <1>3. CASE ~callback
    <2>1. back # NullPtr
      BY <1>0, <1>3, LastIsElement
    <2>2. (\E v : Make(v)) /\ UNCHANGED keyKeepStack
      BY <1>3 DEF Key
    <2> HIDE DEF Make, back
    <2>3. PICK v : Make(v)
      BY <2>2
    <2> QED
      BY <1>1, <1>2, <1>3, <2>1, <2>2, <2>3 DEF PlaceMade
  <1>4. CASE callback
    <2>1. PICK keep \in BOOLEAN :
             /\ keyKeepStack' = Append(keyKeepStack, keep)
             /\ \/ keep /\ back # NullPtr /\ Make(Discarded)
                \/ ~(keep /\ back # NullPtr) /\ UNCHANGED <<root, objectElement>>
      BY <1>4 DEF Key
    <2>2. /\ keyKeepStack' \in Seq(BOOLEAN) /\ keyKeepStack' # << >>
          /\ Last(keyKeepStack') = keep
      BY <2>1 DEF Last
    <2>3. CASE back # NullPtr /\ Make(Discarded)
      <3> HIDE DEF Make, back
      <3> QED
        BY <1>1, <1>2, <2>2, <2>3 DEF PlaceMade
    <2>4. CASE ~(keep /\ back # NullPtr) /\ UNCHANGED <<root, objectElement>>
      BY <1>0, <1>1, <1>4, <2>2, <2>4 DEF PlaceMade
    <2> QED
      BY <2>1, <2>3, <2>4
  <1> QED
    BY <1>3, <1>4

\* end_object, end_array: the chain loses its last pointer.
LEMMA EndKeptKeeps ==
    ASSUME NEW open, Chained(open), open # << >>, NEW isArray \in BOOLEAN,
           NEW keep \in BOOLEAN, EndKept(isArray, keep)
    PROVE  refStack' = Front(refStack) /\ Chain(root', Front(refStack), Front(open))
  <1> DEFINE own == Last(refStack)
             rest == Front(refStack)
             below == Front(open)
             given == IF own # NullPtr /\ ~keep THEN Put(root, own, Discarded) ELSE root
             parent == At(given, Last(rest))
             inside == rest # << >> /\ Last(rest) # NullPtr
  <1>0. /\ refStack \in Refs /\ open \in Seq(BOOLEAN) /\ Len(open) = Len(refStack)
        /\ Len(refStack) \in Nat /\ refStack # << >>
        /\ Chain(root, refStack, open)
    BY DEF Chained, Refs
  <1>1. /\ rest \in Refs /\ below \in Seq(BOOLEAN)
        /\ Len(rest) = Len(refStack) - 1 /\ Len(below) = Len(refStack) - 1
        /\ Len(rest) \in Nat
        /\ \A i \in 1 .. Len(rest) : rest[i] = refStack[i]
        /\ Chain(root, rest, below)
    <2>1. \A i \in 1 .. Len(refStack) - 1 : rest[i] = refStack[i]
      BY <1>0 DEF Front, Refs
    <2>2. Len(rest) \in Nat
      BY <1>0 DEF Front, Refs
    <2> QED
      BY <1>0, <2>1, <2>2, ChainPop
  <1>2. refStack' = rest
    BY DEF EndKept
  <1>3. Chain(given, rest, below)
    <2>1. CASE own # NullPtr /\ ~keep
      <3>1. /\ own \in Position
            /\ Len(own) = Len(refStack) - 1
            /\ Exists(root, own)
            /\ Through(own, refStack)
        BY <1>0, <2>1, ChainTop
      <3>2. given = Put(root, own, Discarded)
        BY <2>1
      <3> HIDE DEF own, rest, below, given
      <3>3. Through(own, rest)
        <4>1. \A i \in 1 .. Len(rest) : i \in 1 .. Len(refStack)
          BY <1>0, <1>1
        <4> QED
          BY <1>1, <3>1, <4>1 DEF Through
      <3>4. Len(own) >= Len(rest) - 1 /\ Len(own) # Len(rest) - 1
        BY <1>1, <3>1
      <3> QED
        BY <1>1, <3>1, <3>2, <3>3, <3>4, ChainPut
    <2>2. CASE ~(own # NullPtr /\ ~keep)
      BY <1>1, <2>2
    <2> QED
      BY <2>1, <2>2
  <1>4. \/ root' = given
        \/ /\ inside
           /\ \/ IsObject(parent) /\ root' = Put(given, Last(rest), EraseDiscarded(parent))
              \/ IsArray(parent) /\ root' = Put(given, Last(rest), Array(Front(Content(parent))))
    BY DEF EndKept
  <1> HIDE DEF own, given, rest, below
  <1>5. ASSUME inside
        PROVE  /\ Last(rest) \in Position
               /\ Len(Last(rest)) = Len(rest) - 1
               /\ Len(Last(rest)) >= Len(rest) - 1
               /\ Exists(given, Last(rest))
               /\ Through(Last(rest), rest)
               /\ Holds(parent, below[Len(rest)])
               /\ below[Len(rest)] = Last(below) /\ Last(below) \in BOOLEAN
               /\ IsArray(parent) <=> Last(below)
               /\ IsObject(parent) <=> ~Last(below)
               /\ Last(below) => IsSequence(Content(parent))
    <2>1. /\ Last(rest) \in Position
          /\ Len(Last(rest)) = Len(rest) - 1
          /\ Exists(given, Last(rest))
          /\ Through(Last(rest), rest)
          /\ Holds(parent, below[Len(rest)])
      BY <1>1, <1>3, <1>5, ChainTop
    <2>2. /\ below[Len(rest)] = Last(below) /\ Last(below) \in BOOLEAN
          /\ IsArray(parent) <=> Last(below)
          /\ IsObject(parent) <=> ~Last(below)
          /\ Last(below) => IsSequence(Content(parent))
      BY <1>1, <1>3, <1>5, TopContainer
    <2>3. Len(Last(rest)) >= Len(rest) - 1
      BY <1>1, <2>1
    <2> QED
      BY <2>1, <2>2, <2>3
  <1>6. CASE root' = given
    BY <1>2, <1>3, <1>6 DEF rest, below
  <1>7. CASE inside /\ IsObject(parent) /\ root' = Put(given, Last(rest), EraseDiscarded(parent))
    <2>1. Kind(EraseDiscarded(parent)) = "object"
      <3>1. \A x, k : Kind(WithoutKey(x, k)) = "object"
        BY DEF WithoutKey, Object, Kind
      <3>2. Kind(parent) = "object"
        BY <1>7 DEF IsObject
      <3> HIDE DEF parent
      <3> QED
        BY <3>1, <3>2 DEF EraseDiscarded
    <2>2. Holds(EraseDiscarded(parent), below[Len(rest)])
      BY <1>5, <1>7, <2>1 DEF Holds
    <2> HIDE DEF parent
    <2>3. Chain(root', rest, below)
      BY <1>1, <1>3, <1>5, <1>7, <2>2, ChainPut
    <2> QED
      BY <1>2, <2>3 DEF rest, below
  <1>8. CASE inside /\ IsArray(parent)
             /\ root' = Put(given, Last(rest), Array(Front(Content(parent))))
    <2>1. IsSequence(Front(Content(parent)))
      BY <1>5, <1>8, SequenceFront
    <2>2. Holds(Array(Front(Content(parent))), below[Len(rest)])
      <3> HIDE DEF parent
      <3> QED
        BY <1>5, <1>8, <2>1 DEF Holds, Array, Kind, Content
    <2> HIDE DEF parent
    <2>3. Chain(root', rest, below)
      BY <1>1, <1>3, <1>5, <1>8, <2>2, ChainPut
    <2> QED
      BY <1>2, <2>3 DEF rest, below
  <1> QED
    BY <1>4, <1>6, <1>7, <1>8

LEMMA EndKeeps ==
    ASSUME NEW open, Chained(open), open # << >>, callback \in BOOLEAN,
           NEW isArray \in BOOLEAN, EndContainer(isArray)
    PROVE  /\ refStack' = Front(refStack)
           /\ Chain(root', Front(refStack), Front(open))
           /\ UNCHANGED keyKeepStack
  <1>1. UNCHANGED keyKeepStack
    BY DEF EndContainer
  <1>2. CASE ~callback /\ refStack' = Front(refStack) /\ UNCHANGED root
    <2>1. refStack # << >>
      BY DEF Chained
    <2> QED
      BY <1>1, <1>2, <2>1, ChainPop DEF Chained
  <1>3. CASE \E keep \in BOOLEAN : EndKept(isArray, keep)
    BY <1>1, <1>3, EndKeptKeeps
  <1> QED
    BY <1>2, <1>3 DEF EndContainer

-----------------------------------------------------------------------------
(* Every step keeps the invariant                                           *)

LEMMA FrontAppend ==
    ASSUME NEW s \in Seq(BOOLEAN), NEW b \in BOOLEAN
    PROVE  /\ Front(Append(s, b)) = s
           /\ Append(s, b) # << >>
           /\ Last(Append(s, b)) = b
           /\ Append(s, b) \in Seq(BOOLEAN)
           /\ Len(Append(s, b)) = Len(s) + 1
  BY DEF Front, Last

\* What Reading says, in the terms of the consumer's lemmas.
LEMMA ReadingChained ==
    ASSUME IInv, at \notin {"accepted", "rejected"}
    PROVE  Chained(Opened) /\ (at = "value" => ValuePlace(Opened))
  <1>1. Opened \in Seq(BOOLEAN)
    <2>1. states \in Seq(BOOLEAN)
      BY DEF IInv, DomTyped
    <2>2. Append(states, TRUE) \in Seq(BOOLEAN) /\ Append(states, FALSE) \in Seq(BOOLEAN)
      BY <2>1, FrontAppend
    <2> QED
      BY <2>1, <2>2 DEF Opened
  <1>2. at = "value" => Opened = states
    BY DEF Opened
  <1> QED
    BY <1>1, <1>2 DEF IInv, DomTyped, Reading, Chained, ValuePlace, Refs

\* After a value: the parser goes on in the container st ends with.
LEMMA ValueDoneReads ==
    ASSUME LexTyped, DomTyped, NEW st \in Seq(BOOLEAN), ValueDone(st), UNCHANGED callback,
           refStack' \in Refs, Len(refStack') = Len(st), Chain(root', refStack', st),
           ~callback => \A i \in 1 .. Len(refStack') : refStack'[i] # NullPtr,
           keyKeepStack' \in Seq(BOOLEAN)
    PROVE  IInv'
  <1>1. LexTyped'
    BY GetTokenTyped DEF ValueDone
  <1>2. DomTyped'
    BY DEF DomTyped, ValueDone, Refs
  <1>3. states' = st /\ at' = IF st = << >> THEN "end"
                              ELSE IF Last(st) THEN "in array" ELSE "in object"
    BY DEF ValueDone
  <1>4. Opened' = st
    BY <1>3 DEF Opened
  <1>5. Reading'
    BY <1>3, <1>4 DEF Reading
  <1> QED
    BY <1>1, <1>2, <1>5 DEF IInv

\* end_object, end_array and what follows.
LEMMA EndReads ==
    ASSUME IInv, at \notin {"accepted", "rejected"}, Opened # << >>, UNCHANGED callback,
           NEW isArray \in BOOLEAN, EndContainer(isArray), ValueDone(Front(Opened))
    PROVE  IInv'
  <1>0. LexTyped /\ DomTyped /\ Reading
    BY DEF IInv
  <1>1. Chained(Opened)
    BY ReadingChained
  <1>2. /\ refStack' = Front(refStack)
        /\ Chain(root', Front(refStack), Front(Opened))
        /\ keyKeepStack' = keyKeepStack
    BY <1>0, <1>1, EndKeeps DEF DomTyped
  <1>3. refStack \in Refs /\ Len(refStack) = Len(Opened) /\ Opened \in Seq(BOOLEAN)
        /\ refStack # << >>
    BY <1>1 DEF Chained
  <1>4. /\ Front(refStack) \in Refs /\ Front(Opened) \in Seq(BOOLEAN)
        /\ Len(Front(refStack)) = Len(refStack) - 1
        /\ Len(Front(Opened)) = Len(refStack) - 1
        /\ \A i \in 1 .. Len(Front(refStack)) : /\ i \in 1 .. Len(refStack)
                                                /\ Front(refStack)[i] = refStack[i]
    BY <1>3 DEF Refs, Front
  <1>5. ~callback => \A i \in 1 .. Len(refStack') : refStack'[i] # NullPtr
    BY <1>0, <1>2, <1>4 DEF Reading
  <1>6. keyKeepStack' \in Seq(BOOLEAN)
    BY <1>0, <1>2 DEF DomTyped
  <1>7. refStack' \in Refs /\ Len(refStack') = Len(Front(Opened))
        /\ Chain(root', refStack', Front(Opened))
    BY <1>2, <1>4
  <1> HIDE DEF Opened
  <1> QED
    BY <1>0, <1>4, <1>5, <1>6, <1>7, ValueDoneReads

\* key() and the separator that must follow.
LEMMA KeyReads ==
    ASSUME IInv, at \notin {"accepted", "rejected"}, Opened # << >>, ~Last(Opened),
           UNCHANGED callback, token.type = "value_string", Key(Content(token.value)),
           GetToken, at' = "separator", states' = Opened
    PROVE  IInv'
  <1>0. LexTyped /\ DomTyped /\ Reading
    BY DEF IInv
  <1>1. Chained(Opened)
    BY ReadingChained
  <1>2. Content(token.value) \in Seq(Int)
    BY <1>0 DEF LexTyped
  <1>3. ~callback => \A i \in 1 .. Len(refStack) : refStack[i] # NullPtr
    BY <1>0 DEF Reading
  <1>4. /\ refStack' = refStack
        /\ Chain(root', refStack, Opened)
        /\ keyKeepStack' \in Seq(BOOLEAN)
        /\ callback => keyKeepStack' # << >>
        /\ Last(refStack) # NullPtr => PlaceMade'
    BY <1>0, <1>1, <1>2, <1>3, KeyKeeps DEF DomTyped
  <1>5. LexTyped'
    BY <1>0, GetTokenTyped
  <1>6. DomTyped'
    BY <1>0, <1>1, <1>4 DEF DomTyped, Chained
  <1>7. Opened' = Opened
    <2>1. Opened' = states'
      BY DEF Opened
    <2> QED
      BY <2>1
  <1>8. Reading'
    <2>1. Len(refStack) = Len(Opened)
      BY <1>1 DEF Chained
    <2> HIDE DEF Opened
    <2> QED
      BY <1>3, <1>4, <1>7, <2>1 DEF Reading
  <1> QED
    BY <1>5, <1>6, <1>8 DEF IInv

LEMMA RejectKeeps ==
    ASSUME IInv, Reject, UNCHANGED callback
    PROVE  IInv'
  <1>1. LexTyped'
    BY GetTokenTyped DEF IInv, Reject, ParseError
  <1>2. DomTyped'
    BY DEF IInv, DomTyped, Reject, ParseError, domVars
  <1> QED
    BY <1>1, <1>2 DEF IInv, Reject, ParseError

LEMMA ValueKeeps ==
    ASSUME IInv, Value, UNCHANGED callback
    PROVE  IInv'
  <1>0. LexTyped /\ DomTyped /\ Reading /\ at = "value" /\ Opened = states
    BY DEF IInv, Value, Opened
  <1>1. Chained(states) /\ ValuePlace(states)
    BY <1>0, ReadingChained
  <1>2. /\ states \in Seq(BOOLEAN) /\ callback \in BOOLEAN /\ keyKeepStack \in Seq(BOOLEAN)
        /\ refStack \in Refs /\ Len(refStack) = Len(states)
    BY <1>0, <1>1 DEF DomTyped, Chained
  <1>3. CASE PlainValue(token.value) /\ ValueDone(states)
    <2>1. /\ refStack' = refStack
          /\ Chain(root', refStack, states)
          /\ keyKeepStack' \in Seq(BOOLEAN)
      BY <1>1, <1>2, <1>3, PlainValueKeeps
    <2>2. ~callback => \A i \in 1 .. Len(refStack') : refStack'[i] # NullPtr
      BY <1>1, <2>1 DEF ValuePlace
    <2> QED
      BY <1>0, <1>2, <1>3, <2>1, <2>2, ValueDoneReads
  <1>4. ASSUME NEW isArray \in BOOLEAN, NEW v, Holds(v, isArray), StartContainer(v),
               at' = IF isArray THEN "array begun" ELSE "object begun", GetToken, UNCHANGED states
        PROVE  IInv'
    <2>1. /\ refStack' \in Refs
          /\ Len(refStack') = Len(refStack) + 1
          /\ Chain(root', refStack', Append(states, isArray))
          /\ ~callback => \A i \in 1 .. Len(refStack') : refStack'[i] # NullPtr
          /\ keyKeepStack' \in Seq(BOOLEAN)
      BY <1>1, <1>2, <1>4, StartKeeps
    <2>2. LexTyped'
      BY <1>0, <1>4, GetTokenTyped
    <2>3. DomTyped'
      BY <1>2, <1>4, <2>1 DEF DomTyped, Refs
    <2>4. Opened' = Append(states, isArray)
      BY <1>4 DEF Opened
    <2>5. Len(Append(states, isArray)) = Len(refStack) + 1
      BY <1>2
    <2>6. Reading'
      BY <1>4, <2>1, <2>4, <2>5 DEF Reading
    <2> QED
      BY <2>2, <2>3, <2>6 DEF IInv
  <1>5. CASE StartContainer(EmptyObject) /\ at' = "object begun" /\ GetToken /\ UNCHANGED states
    <2>1. Holds(EmptyObject, FALSE)
      BY DEF Holds, EmptyObject, Object, Kind
    <2> QED
      BY <1>4, <1>5, <2>1
  <1>6. CASE StartContainer(Array(<< >>)) /\ at' = "array begun" /\ GetToken /\ UNCHANGED states
    <2>1. IsSequence(<< >>)
      BY DEF IsSequence
    <2>2. Holds(Array(<< >>), TRUE)
      BY <2>1 DEF Holds, Array, Kind, Content
    <2> QED
      BY <1>4, <1>6, <2>2
  <1>7. CASE Reject
    BY <1>7, RejectKeeps
  <1> QED
    BY <1>3, <1>5, <1>6, <1>7 DEF Value

LEMMA BegunKeeps ==
    ASSUME IInv, ObjectBegun \/ ArrayBegun, UNCHANGED callback
    PROVE  IInv'
  <1>0. LexTyped /\ DomTyped /\ states \in Seq(BOOLEAN)
    BY DEF IInv, DomTyped
  <1>1. CASE ObjectBegun
    <2>0. at = "object begun" /\ Opened = Append(states, FALSE)
      BY <1>1 DEF ObjectBegun, Opened
    <2>1. Front(Opened) = states /\ Opened # << >> /\ ~Last(Opened)
      BY <1>0, <2>0, FrontAppend
    <2>2. CASE EndContainer(FALSE) /\ ValueDone(states)
      BY <2>0, <2>1, <2>2, EndReads
    <2>3. CASE /\ token.type = "value_string" /\ Key(Content(token.value))
               /\ states' = Append(states, FALSE) /\ at' = "separator" /\ GetToken
      BY <2>0, <2>1, <2>3, KeyReads
    <2>4. CASE Reject
      BY <2>4, RejectKeeps
    <2> QED
      BY <1>1, <2>2, <2>3, <2>4 DEF ObjectBegun
  <1>2. CASE ArrayBegun
    <2>0. at = "array begun" /\ Opened = Append(states, TRUE) /\ Reading
      BY <1>2 DEF ArrayBegun, Opened, IInv
    <2>1. Front(Opened) = states /\ Opened # << >> /\ Last(Opened) /\ Opened \in Seq(BOOLEAN)
      BY <1>0, <2>0, FrontAppend
    <2>2. CASE EndContainer(TRUE) /\ ValueDone(states)
      BY <2>0, <2>1, <2>2, EndReads
    <2>3. CASE states' = Append(states, TRUE) /\ at' = "value" /\ UNCHANGED <<lexVars, domVars>>
      <3>1. Opened' = Opened /\ states' = Opened
        BY <2>0, <2>3 DEF Opened
      <3>2. LexTyped'
        BY <1>0, <2>3, GetTokenTyped
      <3>3. DomTyped'
        BY <1>0, <2>1, <2>3, <3>1 DEF DomTyped, domVars
      <3>4. Reading'
        <4> HIDE DEF Opened
        <4> QED
          BY <2>0, <2>1, <2>3, <3>1 DEF Reading, domVars
      <3> QED
        BY <3>2, <3>3, <3>4 DEF IInv
    <2> QED
      BY <1>2, <2>2, <2>3 DEF ArrayBegun
  <1> QED
    BY <1>1, <1>2

\* A separator: nothing but the place in the grammar changes.
LEMMA SeparatorKeeps ==
    ASSUME IInv, at \in {"separator", "in array", "in object"}, GetToken,
           UNCHANGED states, UNCHANGED domVars, UNCHANGED callback,
           \/ at = "in object" /\ at' = "key"
           \/ at \in {"separator", "in array"} /\ at' = "value"
    PROVE  IInv'
  <1>0. LexTyped /\ DomTyped /\ Reading /\ Opened = states /\ Opened' = states
    BY DEF IInv, Opened
  <1>1. LexTyped'
    BY <1>0, GetTokenTyped
  <1>2. DomTyped'
    BY <1>0 DEF DomTyped, domVars
  <1>3. PlaceMade' <=> PlaceMade
    BY DEF PlaceMade, domVars
  <1>4. UNCHANGED <<refStack, root, keyKeepStack, callback, states>>
    BY DEF domVars
  <1>b. callback' <=> callback
    BY ONLY <1>4
  <1>5. Reading'
    <2>1. Len(refStack') = Len(Opened') /\ Chain(root', refStack', Opened')
      BY <1>0, <1>4 DEF Reading
    <2>2. ~callback' => \A i \in 1 .. Len(refStack') : refStack'[i] # NullPtr
      BY <1>0, <1>b, <1>4 DEF Reading
    <2>3. at' = "key" => states' # << >> /\ ~Last(states')
      BY <1>0, <1>4 DEF Reading
    <2>4. at' = "value" /\ states' # << >> /\ ~Last(states') =>
             /\ callback' => keyKeepStack' # << >>
             /\ Last(refStack') # NullPtr => PlaceMade'
      BY <1>0, <1>b, <1>3, <1>4 DEF Reading
    <2> QED
      BY <2>1, <2>2, <2>3, <2>4 DEF Reading
  <1> QED
    BY <1>1, <1>2, <1>5 DEF IInv

LEMMA WithinKeeps ==
    ASSUME IInv, Separator \/ InArray \/ InObject \/ NextKey, UNCHANGED callback
    PROVE  IInv'
  <1>0. states \in Seq(BOOLEAN)
    BY DEF IInv, DomTyped
  <1>1. CASE Separator
    <2>1. at = "separator"
      BY <1>1 DEF Separator
    <2> QED
      BY <1>1, <2>1, SeparatorKeeps, RejectKeeps DEF Separator
  <1>2. CASE InArray
    <2>1. at = "in array" /\ Opened = states /\ states # << >>
      BY <1>2 DEF InArray, Opened, IInv, Reading
    <2>2. CASE EndContainer(TRUE) /\ ValueDone(Front(states))
      BY <2>1, <2>2, EndReads
    <2> QED
      BY <1>2, <2>1, <2>2, SeparatorKeeps, RejectKeeps DEF InArray
  <1>3. CASE InObject
    <2>1. at = "in object" /\ Opened = states /\ states # << >>
      BY <1>3 DEF InObject, Opened, IInv, Reading
    <2>2. CASE EndContainer(FALSE) /\ ValueDone(Front(states))
      BY <2>1, <2>2, EndReads
    <2> QED
      BY <1>3, <2>1, <2>2, SeparatorKeeps, RejectKeeps DEF InObject
  <1>4. CASE NextKey
    <2>1. at = "key" /\ Opened = states /\ states # << >> /\ ~Last(states)
      BY <1>4 DEF NextKey, Opened, IInv, Reading
    <2> QED
      BY <1>4, <2>1, KeyReads, RejectKeeps DEF NextKey
  <1> QED
    BY <1>1, <1>2, <1>3, <1>4

LEMMA EndOfInputKeeps ==
    ASSUME IInv, End, UNCHANGED callback
    PROVE  IInv'
  <1>1. CASE /\ at' = "accepted"
             /\ UNCHANGED <<lexVars, states, refStack, objectElement, keepStack,
                            keyKeepStack, dropped>>
    <2>1. LexTyped'
      BY <1>1, GetTokenTyped DEF IInv
    <2>2. DomTyped'
      BY <1>1 DEF IInv, DomTyped
    <2> QED
      BY <1>1, <2>1, <2>2 DEF IInv
  <1> QED
    BY <1>1, RejectKeeps DEF End

LEMMA StutterKeeps ==
    ASSUME IInv, LexTyped', UNCHANGED <<at, states, domVars, callback>>
    PROVE  IInv'
  <1>1. DomTyped'
    BY DEF IInv, DomTyped, domVars
  <1>2. Opened' = Opened /\ (PlaceMade' <=> PlaceMade)
    BY DEF Opened, PlaceMade, domVars
  <1>3. UNCHANGED <<refStack, root, keyKeepStack, callback, states, at>>
    BY DEF domVars
  <1>b. callback' <=> callback
    BY <1>3
  <1>4. ASSUME Reading PROVE Reading'
    <2>1. Len(refStack') = Len(Opened') /\ Chain(root', refStack', Opened')
      BY <1>2, <1>3, <1>4 DEF Reading
    <2>2. ~callback' => \A i \in 1 .. Len(refStack') : refStack'[i] # NullPtr
      BY <1>b, <1>3, <1>4 DEF Reading
    <2>3. /\ at' = "in array" => states' # << >> /\ Last(states')
          /\ at' \in {"in object", "key", "separator"} => states' # << >> /\ ~Last(states')
          /\ at' = "end" => states' = << >>
      BY <1>3, <1>4 DEF Reading
    <2>4. at' \in {"separator", "value"} /\ states' # << >> /\ ~Last(states') =>
             /\ callback' => keyKeepStack' # << >>
             /\ Last(refStack') # NullPtr => PlaceMade'
      BY <1>2, <1>b, <1>3, <1>4 DEF Reading
    <2> QED
      BY <2>1, <2>2, <2>3, <2>4 DEF Reading
  <1> QED
    BY <1>1, <1>3, <1>4 DEF IInv

\* Initially nothing is open.
LEMMA InitInv ==
    ASSUME ParseInit(Inputs)
    PROVE  IInv
  <1>1. LexTyped
    <2>1. Len(shape.bytes) \in Nat /\ shape \in Inputs
      BY DEF ParseInit, LexInit, Inputs
    <2>2. read = << >> /\ Len(read) = 0 /\ read \in Seq(Int)
      BY DEF ParseInit, LexInit
    <2>3. ended = FALSE /\ nextUnget = FALSE /\ current \in Int
      <3>1. EOF \in Int
        BY DEF EOF
      <3> QED
        BY <3>1 DEF ParseInit, LexInit
    <2>4. code \in [high : Int, value : Int, digits : Int] /\ tokenBuffer \in Seq(Int)
          /\ token.type # "value_string"
      BY DEF ParseInit, LexInit, NoCode, NoToken
    <2>5. Len(read) <= Len(shape.bytes)
      BY <2>1, <2>2
    <2> QED
      BY <2>1, <2>2, <2>3, <2>4, <2>5 DEF LexTyped
  <1>2. DomTyped
    BY DEF ParseInit, DomInit, DomTyped
  <1>3. Reading
    <2>1. Opened = << >> /\ refStack = << >> /\ states = << >> /\ at = "value"
      BY DEF ParseInit, DomInit, Opened
    <2> QED
      BY <2>1 DEF Reading, Chain
  <1> QED
    BY <1>1, <1>2, <1>3 DEF IInv

LEMMA NextInv ==
    ASSUME IInv, [ParseNext]_parseVars
    PROVE  IInv'
  <1>1. CASE LexStep /\ UNCHANGED <<at, states, domVars, callback>>
    BY <1>1, LexStepTyped, StutterKeeps DEF IInv
  <1>2. CASE ParseStep
    <2>1. UNCHANGED callback
      BY <1>2 DEF ParseStep
    <2> QED
      BY <1>2, <2>1, ValueKeeps, BegunKeeps, WithinKeeps, EndOfInputKeeps DEF ParseStep
  <1>3. CASE UNCHANGED parseVars
    <2>1. UNCHANGED lexVars /\ UNCHANGED <<at, states, domVars, callback>>
      BY <1>3 DEF parseVars
    <2> QED
      BY <2>1, GetTokenTyped, StutterKeeps DEF IInv
  <1> QED
    BY <1>1, <1>2, <1>3 DEF ParseNext

LEMMA Invariant == ParseSpec => []IInv
  <1>1. ParseInit(Inputs) => IInv
    BY InitInv
  <1>2. IInv /\ [ParseNext]_parseVars => IInv'
    BY NextInv
  <1> QED
    BY <1>1, <1>2, PTL DEF ParseSpec

\* The invariant gives what the consumers rely on.
LEMMA InvRefs ==
    ASSUME IInv
    PROVE  RefsValid
  <1>1. ASSUME at \notin {"accepted", "rejected"}, NEW i \in Pointers
        PROVE  /\ Exists(root, refStack[i])
               /\ IsStructured(At(root, refStack[i]))
               /\ i = 1 => refStack[i] = << >>
               /\ i > 1 => i - 1 \in Pointers /\ Front(refStack[i]) = refStack[i - 1]
    <2>0. Chained(Opened)
      BY <1>1, ReadingChained
    <2>1. i \in 1 .. Len(refStack) /\ refStack[i] # NullPtr /\ refStack[i] \in Position
          /\ refStack \in Refs
      BY <2>0 DEF Pointers, Chained, Refs
    <2>2. /\ Len(refStack[i]) = i - 1
          /\ Exists(root, refStack[i])
          /\ Holds(At(root, refStack[i]), Opened[i])
          /\ \A j \in 1 .. i : refStack[j] = SubSeq(refStack[i], 1, j - 1)
      BY <2>0, <2>1 DEF Chained, Chain
    <2>3. IsStructured(At(root, refStack[i]))
      BY <2>2 DEF Holds, IsStructured, IsArray, IsObject
    <2>4. i = 1 => refStack[i] = << >>
      BY <2>1, <2>2 DEF Position
    <2>5. ASSUME i > 1
          PROVE  i - 1 \in Pointers /\ Front(refStack[i]) = refStack[i - 1]
      <3>1. i - 1 \in 1 .. i /\ i - 1 \in 1 .. Len(refStack) /\ i - 1 \in 0 .. Len(refStack[i])
            /\ i - 1 - 1 \in 0 .. Len(refStack[i])
        BY <2>1, <2>2, <2>5 DEF Refs
      <3>2. refStack[i - 1] = SubSeq(refStack[i], 1, i - 1 - 1)
        BY <2>2, <3>1
      <3>3. refStack[i - 1] \in Position
        <4>1. 0 \in 0 .. i - 1 - 1
          BY <3>1
        <4>2. SubSeq(refStack[i], 1, i - 1 - 1) \in Position
          BY <2>1, <3>1, <4>1, PrefixPrefix
        <4> QED
          BY <3>2, <4>2
      <3>4. refStack[i - 1] # NullPtr
        BY <3>3, NullPtrAssumption
      <3>5. Front(refStack[i]) = refStack[i - 1]
        BY <2>2, <3>2 DEF Front
      <3>6. i - 1 \in DOMAIN refStack
        BY <2>1, <3>1 DEF Refs
      <3> QED
        BY <3>4, <3>5, <3>6 DEF Pointers
    <2> QED
      BY <2>2, <2>3, <2>4, <2>5
  <1>2. ASSUME at = "value", states # << >>, ~Last(states), Last(refStack) # NullPtr
        PROVE  \/ callback /\ ~Last(keyKeepStack)
               \/ /\ objectElement # NullPtr
                  /\ Exists(root, objectElement)
                  /\ Front(objectElement) = Last(refStack)
    <2>1. PlaceMade
      BY <1>2 DEF IInv, Reading
    <2> QED
      BY <2>1, NullPtrAssumption DEF PlaceMade
  <1> QED
    BY <1>1, <1>2 DEF RefsValid

\* The pointers that the json parser keeps into the value it builds, ref_stack
\* and object_element, are valid whenever they are used: for every input, and
\* for every answer of the callback.
THEOREM ParserRefsValid == ParseSpec => []RefsValid
  <1>1. IInv => RefsValid
    BY InvRefs
  <1> QED
    BY <1>1, Invariant, PTL
=============================================================================
