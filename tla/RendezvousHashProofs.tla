------------------------ MODULE RendezvousHashProofs -------------------------
(***************************************************************************)
(* Proof that keys stay with their nodes: RhSpec => KeysStay, for every    *)
(* size of the hashes and every range of weights.                          *)
(*                                                                         *)
(* Scores are compared as products of powers.  The laws of powers come     *)
(* first, each by a least counterexample; then that comparing scores is    *)
(* total and transitive and that more weight never scores less; then that  *)
(* Get finds the first of the best nodes; then, for two tables, that a key *)
(* which moves against the weights would make four scores equal, and the   *)
(* position decides alike in both.                                         *)
(***************************************************************************)
EXTENDS RendezvousHash, SequenceTheorems, WellFoundedInduction, TLAPS

-----------------------------------------------------------------------------
(* Powers                                                                   *)

\* A set of naturals that is not empty has a least element.
LEMMA LeastExists ==
    ASSUME NEW S, S \subseteq Nat, S # {}
    PROVE  \E x \in S : \A y \in S : x <= y
  <1> DEFINE R == OpToRel(<, Nat)
  <1>1. PICK x \in S : \A y \in S : ~ (<<y, x>> \in R)
    BY NatLessThanWellFounded, WFMin
  <1>2. \A y \in S : ~ (y < x)
    BY <1>1 DEF OpToRel
  <1> QED
    BY <1>2

\* What the recursive function of Power is a fixed point of.
PowerStep(c, n, f) == [k \in 0 .. n |-> IF k = 0 THEN 1 ELSE c * f[k - 1]]

\* f counts up the powers of c.
PowersOf(f, c, n) == f[0] = 1 /\ \A k \in 1 .. n : f[k] = c * f[k - 1]

\* The recursive function of Power exists.
LEMMA PowerExists ==
    ASSUME NEW c \in Nat, NEW n \in Nat
    PROVE  \E f : f = PowerStep(c, n, f)
  <1> DEFINE Bad == {k \in Nat : ~ \E f : f = PowerStep(c, k, f)}
  <1>1. SUFFICES ASSUME Bad # {} PROVE FALSE
    OBVIOUS
  <1>2. PICK k \in Bad : \A j \in Bad : k <= j
    <2>1. Bad \subseteq Nat
      OBVIOUS
    <2> HIDE DEF Bad
    <2> QED
      BY <2>1, <1>1, LeastExists
  <1>3. CASE k = 0
    <2> DEFINE f == [m \in 0 .. 0 |-> 1]
    <2>1. f = PowerStep(c, 0, f)
      BY DEF PowerStep
    <2> QED
      BY <2>1, <1>2, <1>3
  <1>4. CASE k # 0
    <2>0. k \in Nat /\ k > 0 /\ k - 1 \in Nat /\ ~(k <= k - 1)
      BY <1>2, <1>4
    <2>a. k - 1 \notin Bad
      <3> HIDE DEF Bad
      <3> QED
        BY <1>2, <2>0
    <2>1. PICK f : f = PowerStep(c, k - 1, f)
      BY <2>0, <2>a
    <2> DEFINE g == [m \in 0 .. k |-> IF m < k THEN f[m] ELSE c * f[k - 1]]
    <2>2. ASSUME NEW m \in 0 .. k
          PROVE  g[m] = IF m = 0 THEN 1 ELSE c * g[m - 1]
      <3>1. CASE m < k
        <4>1. m \in 0 .. k - 1
          BY <3>1, <2>0
        <4>2. f[m] = IF m = 0 THEN 1 ELSE c * f[m - 1]
          BY <4>1, <2>1 DEF PowerStep
        <4>3. g[m] = f[m] /\ (m # 0 => g[m - 1] = f[m - 1])
          BY <3>1, <4>1, <2>0
        <4> QED
          BY <4>2, <4>3
      <3>2. CASE ~(m < k)
        <4>1. m = k
          BY <3>2, <2>0
        <4>2. g[k] = c * f[k - 1] /\ g[k - 1] = f[k - 1]
          BY <2>0
        <4> QED
          BY <4>1, <4>2, <2>0
      <3> QED
        BY <3>1, <3>2
    <2>3. g = PowerStep(c, k, g)
      <3> DEFINE h == [m \in 0 .. k |-> IF m = 0 THEN 1 ELSE c * g[m - 1]]
      <3>1. \A m \in 0 .. k : g[m] = h[m]
        <4> HIDE DEF g
        <4> QED
          BY <2>2
      <3>2. g = h
        BY <3>1
      <3> QED
        BY <3>2 DEF PowerStep
    <2> QED
      BY <2>3, <1>2
  <1> QED
    BY <1>3, <1>4

\* Any function that counts up the powers of c gives the value of Power.
LEMMA PowerIs ==
    ASSUME NEW c \in Nat, NEW n \in Nat, NEW f, PowersOf(f, c, n)
    PROVE  Power(c, n) = f[n]
  <1> DEFINE pow == CHOOSE g : g = PowerStep(c, n, g)
             Bad == {k \in 0 .. n : pow[k] # f[k]}
  <1>1. pow = PowerStep(c, n, pow)
    BY PowerExists
  <1>2. Power(c, n) = pow[n]
    BY DEF Power, PowerStep
  <1> HIDE DEF pow
  <1>3. pow[0] = 1 /\ \A k \in 1 .. n : pow[k] = c * pow[k - 1]
    BY <1>1 DEF PowerStep
  <1>4. Bad = {}
    <2>1. SUFFICES ASSUME Bad # {} PROVE FALSE
      OBVIOUS
    <2>2. PICK k \in Bad : \A j \in Bad : k <= j
      <3>1. Bad \subseteq Nat
        OBVIOUS
      <3> HIDE DEF Bad
      <3> QED
        BY <2>1, <3>1, LeastExists
    <2>3. k # 0
      BY <2>2, <1>3 DEF PowersOf
    <2>4. k - 1 \in 0 .. n /\ k \in 1 .. n /\ ~(k <= k - 1)
      BY <2>2, <2>3
    <2>5. pow[k - 1] = f[k - 1]
      BY <2>2, <2>4
    <2> QED
      BY <2>2, <2>4, <2>5, <1>3 DEF PowersOf
  <1> QED
    BY <1>2, <1>4

LEMMA PowerZero ==
    ASSUME NEW c \in Nat
    PROVE  Power(c, 0) = 1
  <1> DEFINE f == [k \in 0 .. 0 |-> 1]
  <1>1. PowersOf(f, c, 0) /\ f[0] = 1
    BY DEF PowersOf
  <1> HIDE DEF f
  <1> QED
    BY <1>1, PowerIs

LEMMA PowerNext ==
    ASSUME NEW c \in Nat, NEW n \in Nat
    PROVE  Power(c, n + 1) = c * Power(c, n)
  <1>1. PICK f : f = PowerStep(c, n + 1, f)
    BY PowerExists
  <1>2. PowersOf(f, c, n + 1)
    <2>1. f[0] = 1
      BY <1>1 DEF PowerStep
    <2>2. \A k \in 1 .. n + 1 : f[k] = c * f[k - 1]
      BY <1>1 DEF PowerStep
    <2> QED
      BY <2>1, <2>2 DEF PowersOf
  <1>3. PowersOf(f, c, n)
    BY <1>2 DEF PowersOf
  <1>4. f[n + 1] = c * f[n]
    <2>1. n + 1 \in 1 .. n + 1 /\ n + 1 - 1 = n
      OBVIOUS
    <2> QED
      BY <1>2, <2>1 DEF PowersOf
  <1> QED
    BY <1>2, <1>3, <1>4, PowerIs

\* Induction: what holds for 0 and carries over from n to n + 1 holds always.
LEMMA Induct ==
    ASSUME NEW S, 0 \in S, \A n \in Nat : n \in S => n + 1 \in S
    PROVE  \A n \in Nat : n \in S
  <1> DEFINE Bad == {n \in Nat : n \notin S}
  <1>1. SUFFICES ASSUME Bad # {} PROVE FALSE
    OBVIOUS
  <1>2. PICK k \in Bad : \A j \in Bad : k <= j
    <2>1. Bad \subseteq Nat
      OBVIOUS
    <2> HIDE DEF Bad
    <2> QED
      BY <2>1, <1>1, LeastExists
  <1>3. k \in Nat /\ k # 0
    BY <1>2
  <1>4. k - 1 \in Nat /\ k - 1 + 1 = k /\ ~(k <= k - 1)
    BY <1>3
  <1>5. k - 1 \in S
    BY <1>2, <1>4
  <1> QED
    BY <1>2, <1>4, <1>5

-----------------------------------------------------------------------------
(* Products and powers of natural numbers                                   *)

LEMMA Products ==
    ASSUME NEW a \in Nat, NEW b \in Nat, NEW c \in Nat
    PROVE  /\ a * b \in Nat
           /\ a * b = b * a
           /\ (a * b) * c = a * (b * c)
           /\ a <= b => a * c <= b * c
           /\ a < b /\ c > 0 => a * c < b * c
           /\ a > 0 /\ b > 0 => a * b > 0
  <1>1. a * b \in Nat /\ a * b = b * a /\ (a * b) * c = a * (b * c)
    OBVIOUS
  <1>2. a <= b => a * c <= b * c
    OBVIOUS
  <1>3. a < b /\ c > 0 => a * c < b * c
    OBVIOUS
  <1>4. a > 0 /\ b > 0 => a * b > 0
    OBVIOUS
  <1> QED
    BY <1>1, <1>2, <1>3, <1>4

LEMMA ProductsOrdered ==
    ASSUME NEW a \in Nat, NEW b \in Nat, NEW c \in Nat, NEW d \in Nat, a <= b, c <= d
    PROVE  a * c <= b * d
  <1>1. a * c <= b * c
    BY Products
  <1>2. c * b <= d * b
    BY Products
  <1>3. a * c \in Nat /\ b * c \in Nat /\ b * d \in Nat /\ c * b = b * c /\ d * b = b * d
    BY Products
  <1> QED
    BY <1>1, <1>2, <1>3

LEMMA PowerNat ==
    ASSUME NEW c \in Nat
    PROVE  \A n \in Nat : Power(c, n) \in Nat
  <1> DEFINE S == {n \in Nat : Power(c, n) \in Nat}
  <1>1. 0 \in S
    BY PowerZero
  <1>2. ASSUME NEW n \in Nat, n \in S PROVE n + 1 \in S
    BY <1>2, PowerNext, Products
  <1>3. \A n \in Nat : n \in S
    <2> HIDE DEF S
    <2> QED
      BY <1>1, <1>2, Induct
  <1> QED
    BY <1>3

LEMMA PowerPositive ==
    ASSUME NEW c \in Nat, c > 0
    PROVE  \A n \in Nat : Power(c, n) > 0
  <1> DEFINE S == {n \in Nat : Power(c, n) > 0}
  <1>1. 0 \in S
    BY PowerZero
  <1>2. ASSUME NEW n \in Nat, n \in S PROVE n + 1 \in S
    <2>1. Power(c, n) \in Nat /\ Power(c, n + 1) = c * Power(c, n)
      BY PowerNat, PowerNext
    <2> QED
      BY <1>2, <2>1, Products
  <1>3. \A n \in Nat : n \in S
    <2> HIDE DEF S
    <2> QED
      BY <1>1, <1>2, Induct
  <1> QED
    BY <1>3

\* c ^ (m + n) = c ^ m * c ^ n
LEMMA PowerSum ==
    ASSUME NEW c \in Nat, NEW m \in Nat
    PROVE  \A n \in Nat : Power(c, m + n) = Power(c, m) * Power(c, n)
  <1> DEFINE S == {n \in Nat : Power(c, m + n) = Power(c, m) * Power(c, n)}
  <1>1. 0 \in S
    <2>1. Power(c, m) \in Nat
      BY PowerNat
    <2>2. Power(c, 0) = 1
      BY PowerZero
    <2>3. m + 0 = m /\ Power(c, m) * 1 = Power(c, m)
      BY <2>1
    <2> QED
      BY <2>2, <2>3
  <1>2. ASSUME NEW n \in Nat, n \in S PROVE n + 1 \in S
    <2> DEFINE x == Power(c, m)
               y == Power(c, n)
    <2>1. x \in Nat /\ y \in Nat
      BY PowerNat
    <2>2. Power(c, n + 1) = c * y
      BY PowerNext
    <2>3. m + n \in Nat /\ m + (n + 1) = (m + n) + 1
      OBVIOUS
    <2>4. Power(c, m + (n + 1)) = c * Power(c, m + n)
      BY <2>3, PowerNext
    <2>5. Power(c, m + n) = x * y
      BY <1>2
    <2> HIDE DEF x, y
    <2>6. c * (x * y) = x * (c * y)
      BY <2>1
    <2>7. Power(c, m + (n + 1)) = x * Power(c, n + 1)
      BY <2>2, <2>4, <2>5, <2>6
    <2> QED
      BY <2>7 DEF x
  <1>3. \A n \in Nat : n \in S
    <2> HIDE DEF S
    <2> QED
      BY <1>1, <1>2, Induct
  <1> QED
    BY <1>3

\* (c * d) ^ n = c ^ n * d ^ n
LEMMA PowerProduct ==
    ASSUME NEW c \in Nat, NEW d \in Nat
    PROVE  \A n \in Nat : Power(c * d, n) = Power(c, n) * Power(d, n)
  <1> DEFINE S == {n \in Nat : Power(c * d, n) = Power(c, n) * Power(d, n)}
  <1>0. c * d \in Nat
    BY Products
  <1>1. 0 \in S
    BY <1>0, PowerZero
  <1>2. ASSUME NEW n \in Nat, n \in S PROVE n + 1 \in S
    <2> DEFINE x == Power(c, n)
               y == Power(d, n)
    <2>1. x \in Nat /\ y \in Nat
      BY PowerNat
    <2>2. Power(c, n + 1) = c * x /\ Power(d, n + 1) = d * y
      BY PowerNext
    <2>3. Power(c * d, n + 1) = (c * d) * (x * y)
      <3>1. Power(c * d, n + 1) = (c * d) * Power(c * d, n)
        BY <1>0, PowerNext
      <3> QED
        BY <3>1, <1>2
    <2> HIDE DEF x, y
    <2>4. (c * d) * (x * y) = (c * x) * (d * y)
      BY <2>1
    <2> QED
      BY <2>2, <2>3, <2>4
  <1>3. \A n \in Nat : n \in S
    <2> HIDE DEF S
    <2> QED
      BY <1>1, <1>2, Induct
  <1> QED
    BY <1>3

\* (c ^ m) ^ n = c ^ (m * n)
LEMMA PowerPower ==
    ASSUME NEW c \in Nat, NEW m \in Nat
    PROVE  \A n \in Nat : Power(Power(c, m), n) = Power(c, m * n)
  <1> DEFINE S == {n \in Nat : Power(Power(c, m), n) = Power(c, m * n)}
  <1>0. Power(c, m) \in Nat
    BY PowerNat
  <1>1. 0 \in S
    <2>1. m * 0 = 0
      OBVIOUS
    <2> QED
      BY <1>0, <2>1, PowerZero
  <1>2. ASSUME NEW n \in Nat, n \in S PROVE n + 1 \in S
    <2>1. m * n \in Nat /\ m * (n + 1) = m + m * n
      OBVIOUS
    <2>2. Power(Power(c, m), n + 1) = Power(c, m) * Power(Power(c, m), n)
      BY <1>0, PowerNext
    <2>3. Power(c, m + m * n) = Power(c, m) * Power(c, m * n)
      BY <2>1, PowerSum
    <2>4. Power(Power(c, m), n) = Power(c, m * n)
      BY <1>2
    <2>5. Power(Power(c, m), n + 1) = Power(c, m * (n + 1))
      BY <2>1, <2>2, <2>3, <2>4
    <2> QED
      BY <2>5
  <1>3. \A n \in Nat : n \in S
    <2> HIDE DEF S
    <2> QED
      BY <1>1, <1>2, Induct
  <1> QED
    BY <1>3

\* c <= d implies c ^ n <= d ^ n, and c < d implies c ^ n < d ^ n unless n is 0.
LEMMA PowerOrdered ==
    ASSUME NEW c \in Nat, NEW d \in Nat, c <= d
    PROVE  \A n \in Nat : Power(c, n) <= Power(d, n)
  <1> DEFINE S == {n \in Nat : Power(c, n) <= Power(d, n)}
  <1>1. 0 \in S
    BY PowerZero
  <1>2. ASSUME NEW n \in Nat, n \in S PROVE n + 1 \in S
    <2>1. Power(c, n) \in Nat /\ Power(d, n) \in Nat
      BY PowerNat
    <2>2. Power(c, n + 1) = c * Power(c, n) /\ Power(d, n + 1) = d * Power(d, n)
      BY PowerNext
    <2>3. c * Power(c, n) <= d * Power(d, n)
      BY <1>2, <2>1, ProductsOrdered
    <2> QED
      BY <2>2, <2>3
  <1>3. \A n \in Nat : n \in S
    <2> HIDE DEF S
    <2> QED
      BY <1>1, <1>2, Induct
  <1> QED
    BY <1>3

LEMMA PowerStrict ==
    ASSUME NEW c \in Nat, NEW d \in Nat, c < d, NEW n \in Nat, n > 0
    PROVE  Power(c, n) < Power(d, n)
  <1> DEFINE m == n - 1
             x == Power(c, m)
             y == Power(d, m)
  <1>1. m \in Nat /\ n = m + 1
    OBVIOUS
  <1> HIDE DEF m
  <1>2. x \in Nat /\ y \in Nat /\ x <= y /\ y > 0
    <2>1. x \in Nat /\ y \in Nat
      BY <1>1, PowerNat
    <2>2. x <= y
      BY <1>1, PowerOrdered
    <2>3. d > 0
      OBVIOUS
    <2>4. y > 0
      BY <1>1, <2>3, PowerPositive
    <2> QED
      BY <2>1, <2>2, <2>4
  <1>3. Power(c, n) = c * x /\ Power(d, n) = d * y
    BY <1>1, PowerNext
  <1> HIDE DEF x, y
  <1>4. c * x <= c * y /\ c * y < d * y
    BY <1>2, Products, ProductsOrdered
  <1>5. c * x \in Nat /\ c * y \in Nat /\ d * y \in Nat
    BY <1>2, Products
  <1> QED
    BY <1>3, <1>4, <1>5

-----------------------------------------------------------------------------
(* The order of the scores                                                  *)

\* A hash c at weight v scores no more than a hash d at weight w: the score
\* (c / MaxHash) ^ (1 / v) is at most (d / MaxHash) ^ (1 / w).
AtMost(c, v, d, w) ==
    Power(c, w) * Power(MaxHash, v) <= Power(d, v) * Power(MaxHash, w)

Positive == Nat \ {0}

LEMMA AtMostTransitive ==
    ASSUME NEW c1 \in Positive, NEW w1 \in Positive, NEW c2 \in Positive, NEW w2 \in Positive,
           NEW c3 \in Positive, NEW w3 \in Positive,
           AtMost(c1, w1, c2, w2), AtMost(c2, w2, c3, w3)
    PROVE  AtMost(c1, w1, c3, w3)
  <1> DEFINE m == MaxHash
             x == Power(c1, w3) * Power(m, w1)    \* the two sides of the goal
             y == Power(c3, w1) * Power(m, w3)
             a == Power(c1, w2 * w3)
             b == Power(c2, w1 * w3)
             c == Power(c3, w1 * w2)
             p == Power(m, w1 * w3)
             q == Power(m, w2 * w3)
             r == Power(m, w1 * w2)
  <1>0. m \in Nat /\ m > 0
    BY MaxHashAssumption
  <1> HIDE DEF m
  <1>t. /\ c1 \in Nat /\ c2 \in Nat /\ c3 \in Nat /\ w1 \in Nat /\ w2 \in Nat /\ w3 \in Nat
        /\ c2 > 0 /\ w2 > 0
    BY DEF Positive
  <1>w. /\ w1 * w2 \in Nat /\ w1 * w3 \in Nat /\ w2 * w3 \in Nat
        /\ w2 * w1 = w1 * w2 /\ w3 * w1 = w1 * w3 /\ w3 * w2 = w2 * w3
    BY <1>t, Products
  <1>n. a \in Nat /\ b \in Nat /\ c \in Nat /\ p \in Nat /\ q \in Nat /\ r \in Nat
    BY <1>0, <1>t, <1>w, PowerNat
  <1>b. b > 0
    BY <1>t, <1>w, PowerPositive
  <1>p. p > 0
    BY <1>0, <1>w, PowerPositive
  \* Raising a product of two powers to a power.
  <1>1. ASSUME NEW u \in Nat, NEW i \in Nat, NEW v \in Nat, NEW j \in Nat, NEW k \in Nat
        PROVE  Power(Power(u, i) * Power(v, j), k) = Power(u, i * k) * Power(v, j * k)
    <2>1. Power(u, i) \in Nat /\ Power(v, j) \in Nat
      BY PowerNat
    <2>2. Power(Power(u, i) * Power(v, j), k) = Power(Power(u, i), k) * Power(Power(v, j), k)
      BY <2>1, PowerProduct
    <2>3. Power(Power(u, i), k) = Power(u, i * k) /\ Power(Power(v, j), k) = Power(v, j * k)
      BY PowerPower
    <2> QED
      BY <2>2, <2>3
  \* The first hypothesis to the power w3, the second to the power w1.
  <1>2. a * p <= b * q
    <2> DEFINE s == Power(c1, w2) * Power(m, w1)
               t == Power(c2, w1) * Power(m, w2)
    <2>1. s \in Nat /\ t \in Nat /\ s <= t
      BY <1>0, <1>t, PowerNat, Products DEF AtMost, m
    <2>2. Power(s, w3) <= Power(t, w3)
      <3> HIDE DEF s, t
      <3> QED
        BY <2>1, <1>t, PowerOrdered
    <2>3. Power(s, w3) = a * p
      BY <1>0, <1>1, <1>t
    <2>4. Power(t, w3) = b * q
      BY <1>0, <1>1, <1>t
    <2> QED
      BY <2>2, <2>3, <2>4
  <1>3. b * r <= c * p
    <2> DEFINE s == Power(c2, w3) * Power(m, w2)
               t == Power(c3, w2) * Power(m, w3)
    <2>1. s \in Nat /\ t \in Nat /\ s <= t
      BY <1>0, <1>t, PowerNat, Products DEF AtMost, m
    <2>2. Power(s, w1) <= Power(t, w1)
      <3> HIDE DEF s, t
      <3> QED
        BY <2>1, <1>t, PowerOrdered
    <2>3. Power(s, w1) = b * r
      <3>1. Power(s, w1) = Power(c2, w3 * w1) * Power(m, w2 * w1)
        BY <1>0, <1>1, <1>t
      <3> QED
        BY <3>1, <1>w
    <2>4. Power(t, w1) = c * p
      <3>1. Power(t, w1) = Power(c3, w2 * w1) * Power(m, w3 * w1)
        BY <1>0, <1>1, <1>t
      <3> QED
        BY <3>1, <1>w
    <2> QED
      BY <2>2, <2>3, <2>4
  \* The goal to the power w2.
  <1>4. Power(x, w2) = a * r /\ Power(y, w2) = c * q
    <2>1. Power(x, w2) = Power(c1, w3 * w2) * Power(m, w1 * w2)
      BY <1>0, <1>1, <1>t
    <2>2. Power(y, w2) = Power(c3, w1 * w2) * Power(m, w3 * w2)
      BY <1>0, <1>1, <1>t
    <2> QED
      BY <2>1, <2>2, <1>w
  <1>5. x \in Nat /\ y \in Nat
    BY <1>0, <1>t, PowerNat, Products
  <1> HIDE DEF x, y, a, b, c, p, q, r
  <1>6. a * r <= c * q
    <2>1. (a * p) * (b * r) <= (b * q) * (c * p)
      <3>1. a * p \in Nat /\ b * q \in Nat /\ b * r \in Nat /\ c * p \in Nat
        BY <1>n, Products
      <3> QED
        BY <1>2, <1>3, <3>1, ProductsOrdered
    <2>2. (a * p) * (b * r) = (a * r) * (b * p) /\ (b * q) * (c * p) = (c * q) * (b * p)
      BY <1>n
    <2>3. b * p \in Nat /\ b * p > 0 /\ a * r \in Nat /\ c * q \in Nat
      BY <1>n, <1>b, <1>p, Products
    <2>4. c * q < a * r => (c * q) * (b * p) < (a * r) * (b * p)
      BY <2>3, Products
    <2>5. (c * q) * (b * p) \in Nat /\ (a * r) * (b * p) \in Nat
      BY <2>3, Products
    <2> QED
      BY <2>1, <2>2, <2>3, <2>4, <2>5
  <1>7. x <= y
    <2>1. y < x => Power(y, w2) < Power(x, w2)
      BY <1>5, <1>t, PowerStrict
    <2>2. a * r \in Nat /\ c * q \in Nat
      BY <1>n, Products
    <2> QED
      BY <1>4, <1>5, <1>6, <2>1, <2>2
  <1> QED
    BY <1>7 DEF AtMost, x, y, m

\* A node that gains weight scores no less.
LEMMA AtMostGains ==
    ASSUME NEW c \in Positive, c <= MaxHash, NEW v \in Positive, NEW u \in Positive, v <= u
    PROVE  AtMost(c, v, c, u)
  <1> DEFINE m == MaxHash
             e == u - v
             x == Power(c, v)
             y == Power(m, v)
             s == Power(c, e)
             t == Power(m, e)
  <1>0. m \in Nat /\ c \in Nat /\ v \in Nat /\ u \in Nat /\ e \in Nat /\ u = v + e /\ c <= m
    BY MaxHashAssumption DEF Positive
  <1> HIDE DEF m, e
  <1>1. Power(c, u) = x * s /\ Power(m, u) = y * t
    <2>1. Power(c, v + e) = x * s
      BY <1>0, PowerSum
    <2>2. Power(m, v + e) = y * t
      BY <1>0, PowerSum
    <2> QED
      BY <1>0, <2>1, <2>2
  <1>2. x \in Nat /\ y \in Nat /\ s \in Nat /\ t \in Nat
    BY <1>0, PowerNat
  <1>3. s <= t
    BY <1>0, PowerOrdered
  <1> HIDE DEF x, y, s, t
  <1>4. (x * y) * s <= (x * y) * t
    <2>1. x * y \in Nat
      BY <1>2, Products
    <2> QED
      BY <1>2, <1>3, <2>1, ProductsOrdered
  <1>5. (x * s) * y = (x * y) * s /\ x * (y * t) = (x * y) * t
    BY <1>2
  <1>6. (x * s) * y <= x * (y * t)
    BY <1>4, <1>5
  <1> QED
    BY <1>1, <1>6 DEF AtMost, x, y, m

Node  == [name : Names, weight : Weights]
Table == Seq(Node)

\* The hash of a key at a node, and whether it scores nothing there.
HashAt(x, key) == Mix[(NameHash[x.name] + key) % (MaxHash + 1)]
Zero(x, key)   == x.weight = 0 \/ HashAt(x, key) = 0

\* Node x scores no more than node y.
NoMore(x, y, key) ==
    \/ Zero(x, key)
    \/ ~Zero(y, key) /\ AtMost(HashAt(x, key), x.weight, HashAt(y, key), y.weight)

LEMMA HashAtTyped ==
    ASSUME NEW x \in Node, NEW key \in Hashes
    PROVE  /\ HashAt(x, key) \in Nat /\ HashAt(x, key) <= MaxHash
           /\ x.weight \in Nat
           /\ ~Zero(x, key) => HashAt(x, key) \in Positive /\ x.weight \in Positive
  <1> DEFINE h == NameHash[x.name]
  <1>1. h \in 0 .. MaxHash /\ key \in 0 .. MaxHash /\ MaxHash \in Nat
    BY NameHashAssumption, MaxHashAssumption DEF Hashes, Node
  <1> HIDE DEF h
  <1>2. (h + key) % (MaxHash + 1) \in 0 .. MaxHash
    <2> DEFINE a == h + key
               b == MaxHash + 1
    <2>1. a \in Nat /\ b \in Nat /\ b > 0
      BY <1>1
    <2> HIDE DEF a, b
    <2>2. a % b \in 0 .. b - 1
      BY <2>1
    <2>3. b - 1 = MaxHash
      BY <1>1 DEF b
    <2> QED
      BY <2>2, <2>3 DEF a, b
  <1>3. Mix[(h + key) % (MaxHash + 1)] \in 0 .. MaxHash
    BY <1>2, MixAssumption DEF Hashes
  <1>4. HashAt(x, key) \in 0 .. MaxHash
    BY <1>3 DEF HashAt, h
  <1>5. x.weight \in Nat
    BY TableBoundAssumption DEF Node, Weights
  <1> QED
    BY <1>1, <1>4, <1>5 DEF Zero, Positive

\* Beats compares two nodes of a table by their scores.
LEMMA BeatsScores ==
    ASSUME NEW t \in Table, NEW i \in DOMAIN t, NEW j \in DOMAIN t, NEW key \in Hashes
    PROVE  /\ Beats(t, i, j, key) <=> ~NoMore(t[i], t[j], key)
           /\ ScoresZero(t, i, key) <=> Zero(t[i], key)
  <1>0. t[i] \in Node /\ t[j] \in Node
    BY DEF Table
  <1>1. /\ CombinedHash(t, i, key) = HashAt(t[i], key)
        /\ CombinedHash(t, j, key) = HashAt(t[j], key)
    BY DEF CombinedHash, HashAt
  <1>2. /\ ScoresZero(t, i, key) <=> Zero(t[i], key)
        /\ ScoresZero(t, j, key) <=> Zero(t[j], key)
    BY <1>1 DEF ScoresZero, Zero
  <1> DEFINE a == Power(HashAt(t[i], key), t[j].weight) * Power(MaxHash, t[i].weight)
             b == Power(HashAt(t[j], key), t[i].weight) * Power(MaxHash, t[j].weight)
  <1>3. a \in Nat /\ b \in Nat
    BY <1>0, HashAtTyped, MaxHashAssumption, PowerNat, Products
  <1>4. AtMost(HashAt(t[i], key), t[i].weight, HashAt(t[j], key), t[j].weight) <=> a <= b
    BY DEF AtMost
  <1>5. Beats(t, i, j, key) <=> ~ScoresZero(t, i, key) /\ (ScoresZero(t, j, key) \/ a > b)
    BY <1>1 DEF Beats
  <1>6. a > b <=> ~(a <= b)
    <2> HIDE DEF a, b
    <2> QED
      BY <1>3
  <1> HIDE DEF a, b
  <1> QED
    BY <1>2, <1>4, <1>5, <1>6 DEF NoMore

LEMMA NoMoreTotal ==
    ASSUME NEW x \in Node, NEW y \in Node, NEW key \in Hashes
    PROVE  NoMore(x, y, key) \/ NoMore(y, x, key)
  <1> DEFINE a == Power(HashAt(x, key), y.weight) * Power(MaxHash, x.weight)
             b == Power(HashAt(y, key), x.weight) * Power(MaxHash, y.weight)
  <1>1. a \in Nat /\ b \in Nat
    BY HashAtTyped, MaxHashAssumption, PowerNat, Products
  <1>2. /\ AtMost(HashAt(x, key), x.weight, HashAt(y, key), y.weight) <=> a <= b
        /\ AtMost(HashAt(y, key), y.weight, HashAt(x, key), x.weight) <=> b <= a
    BY DEF AtMost
  <1>3. a <= b \/ b <= a
    <2> HIDE DEF a, b
    <2> QED
      BY <1>1
  <1> HIDE DEF a, b
  <1> QED
    BY <1>2, <1>3 DEF NoMore

LEMMA NoMoreTransitive ==
    ASSUME NEW x \in Node, NEW y \in Node, NEW z \in Node, NEW key \in Hashes,
           NoMore(x, y, key), NoMore(y, z, key)
    PROVE  NoMore(x, z, key)
  <1>1. CASE Zero(x, key)
    BY <1>1 DEF NoMore
  <1>2. CASE ~Zero(x, key)
    <2>1. /\ ~Zero(y, key) /\ ~Zero(z, key)
          /\ AtMost(HashAt(x, key), x.weight, HashAt(y, key), y.weight)
          /\ AtMost(HashAt(y, key), y.weight, HashAt(z, key), z.weight)
      BY <1>2 DEF NoMore
    <2>2. /\ HashAt(x, key) \in Positive /\ x.weight \in Positive
          /\ HashAt(y, key) \in Positive /\ y.weight \in Positive
          /\ HashAt(z, key) \in Positive /\ z.weight \in Positive
      BY <1>2, <2>1, HashAtTyped
    <2>3. AtMost(HashAt(x, key), x.weight, HashAt(z, key), z.weight)
      BY <2>1, <2>2, AtMostTransitive
    <2> QED
      BY <2>1, <2>3 DEF NoMore
  <1> QED
    BY <1>1, <1>2

LEMMA NoMoreGains ==
    ASSUME NEW x \in Node, NEW y \in Node, NEW key \in Hashes,
           x.name = y.name, x.weight <= y.weight
    PROVE  NoMore(x, y, key)
  <1>1. HashAt(x, key) = HashAt(y, key) /\ x.weight \in Nat /\ y.weight \in Nat
    BY HashAtTyped DEF HashAt
  <1>2. CASE Zero(x, key)
    BY <1>2 DEF NoMore
  <1>3. CASE ~Zero(x, key)
    <2>1. ~Zero(y, key)
      BY <1>1, <1>3 DEF Zero
    <2>2. /\ HashAt(x, key) \in Positive /\ HashAt(x, key) <= MaxHash
          /\ x.weight \in Positive /\ y.weight \in Positive
      BY <1>3, <2>1, HashAtTyped
    <2>3. AtMost(HashAt(x, key), x.weight, HashAt(x, key), y.weight)
      BY <2>2, AtMostGains
    <2> QED
      BY <1>1, <2>1, <2>3 DEF NoMore
  <1> QED
    BY <1>2, <1>3

-----------------------------------------------------------------------------
(* The node of a key                                                        *)

\* One of the first k nodes scores most among them.
LEMMA BestExists ==
    ASSUME NEW t \in Table, t # << >>, NEW key \in Hashes
    PROVE  \E i \in DOMAIN t : \A j \in DOMAIN t : NoMore(t[j], t[i], key)
  <1> DEFINE S == {k \in Nat : k + 1 \in 1 .. Len(t) =>
                     \E i \in 1 .. k + 1 : \A j \in 1 .. k + 1 : NoMore(t[j], t[i], key)}
  <1>l. Len(t) \in Nat \ {0} /\ DOMAIN t = 1 .. Len(t)
    BY DEF Table
  <1>n. \A i \in 1 .. Len(t) : t[i] \in Node
    BY DEF Table
  <1>1. 0 \in S
    <2>1. NoMore(t[1], t[1], key)
      BY <1>l, <1>n, NoMoreTotal
    <2>2. 1 .. 0 + 1 = {1}
      OBVIOUS
    <2>3. \E i \in 1 .. 0 + 1 : \A j \in 1 .. 0 + 1 : NoMore(t[j], t[i], key)
      BY <2>1, <2>2
    <2> QED
      BY <2>3
  <1>2. ASSUME NEW k \in Nat, k \in S PROVE k + 1 \in S
    <2> SUFFICES ASSUME k + 1 + 1 \in 1 .. Len(t)
                 PROVE  \E i \in 1 .. k + 1 + 1 : \A j \in 1 .. k + 1 + 1 : NoMore(t[j], t[i], key)
      OBVIOUS
    <2>1. k + 1 \in 1 .. Len(t)
      BY <1>l
    <2>2. PICK i \in 1 .. k + 1 : \A j \in 1 .. k + 1 : NoMore(t[j], t[i], key)
      BY <1>2, <2>1
    <2> DEFINE n == k + 1 + 1
    <2>3. /\ n \in 1 .. n /\ i \in 1 .. n /\ i \in 1 .. Len(t) /\ n \in 1 .. Len(t)
          /\ \A j \in 1 .. n : j \in 1 .. k + 1 \/ j = n
          /\ \A j \in 1 .. n : j \in 1 .. Len(t)
      BY <1>l, <2>2
    <2> HIDE DEF n
    <2>4. t[i] \in Node /\ t[n] \in Node /\ \A j \in 1 .. n : t[j] \in Node
      BY <1>n, <2>3
    <2>5. CASE NoMore(t[n], t[i], key)
      <3>1. \A j \in 1 .. n : NoMore(t[j], t[i], key)
        BY <2>2, <2>3, <2>5
      <3> QED
        BY <2>3, <3>1 DEF n
    <2>6. CASE NoMore(t[i], t[n], key)
      <3>1. ASSUME NEW j \in 1 .. n PROVE NoMore(t[j], t[n], key)
        <4>1. CASE j \in 1 .. k + 1
          BY <2>2, <2>4, <2>6, <4>1, NoMoreTransitive
        <4>2. CASE j = n
          BY <2>4, <4>2, NoMoreTotal
        <4> QED
          BY <2>3, <4>1, <4>2
      <3> QED
        BY <2>3, <3>1 DEF n
    <2> QED
      BY <2>4, <2>5, <2>6, NoMoreTotal
  <1>3. \A k \in Nat : k \in S
    <2> HIDE DEF S
    <2> QED
      BY <1>1, <1>2, Induct
  <1>4. Len(t) - 1 \in Nat /\ Len(t) - 1 + 1 = Len(t) /\ Len(t) \in 1 .. Len(t)
    BY <1>l
  <1>5. Len(t) - 1 \in S
    BY <1>3, <1>4
  <1> QED
    BY <1>l, <1>4, <1>5

\* Get finds the first of the best nodes.
LEMMA GetBest ==
    ASSUME NEW t \in Table, t # << >>, NEW key \in Hashes
    PROVE  /\ Get(t, key) \in DOMAIN t
           /\ \A j \in DOMAIN t : ~Beats(t, j, Get(t, key), key)
           /\ \A j \in 1 .. Get(t, key) - 1 : Beats(t, Get(t, key), j, key)
  <1> DEFINE Best == {i \in DOMAIN t : \A j \in DOMAIN t : NoMore(t[j], t[i], key)}
             First(i) == /\ \A j \in DOMAIN t : ~Beats(t, j, i, key)
                         /\ \A j \in 1 .. i - 1 : Beats(t, i, j, key)
  <1>l. Len(t) \in Nat /\ DOMAIN t = 1 .. Len(t) /\ \A i \in DOMAIN t : t[i] \in Node
    BY DEF Table
  <1>1. PICK i \in Best : \A j \in Best : i <= j
    <2>1. Best \subseteq Nat /\ Best # {}
      BY <1>l, BestExists
    <2> HIDE DEF Best
    <2> QED
      BY <2>1, LeastExists
  <1>2. i \in DOMAIN t /\ \A j \in DOMAIN t : NoMore(t[j], t[i], key)
    BY <1>1
  <1>3. \A j \in DOMAIN t : ~Beats(t, j, i, key)
    BY <1>2, BeatsScores
  <1>4. ASSUME NEW j \in 1 .. i - 1 PROVE Beats(t, i, j, key)
    <2>1. j \in DOMAIN t /\ ~(i <= j)
      BY <1>l, <1>2
    <2>2. j \notin Best
      BY <1>1, <2>1
    <2>3. PICK k \in DOMAIN t : ~NoMore(t[k], t[j], key)
      BY <2>1, <2>2
    <2>4. ~NoMore(t[i], t[j], key)
      BY <1>l, <1>2, <2>1, <2>3, NoMoreTransitive
    <2> QED
      BY <1>2, <2>1, <2>4, BeatsScores
  <1>5. First(i)
    BY <1>3, <1>4
  <1>6. Get(t, key) = CHOOSE k \in DOMAIN t : First(k)
    BY DEF Get
  <1> HIDE DEF First
  <1>7. Get(t, key) \in DOMAIN t /\ First(Get(t, key))
    BY <1>2, <1>5, <1>6
  <1> QED
    BY <1>7 DEF First

-----------------------------------------------------------------------------
(* Two tables                                                               *)

\* No two nodes of a table share their name.
Distinct(t) == \A i, j \in DOMAIN t : t[i].name = t[j].name => i = j

\* The names that are in both tables are in the same order.
SameOrder(t, u) ==
    \A i1, i2 \in DOMAIN t, j1, j2 \in DOMAIN u :
        t[i1].name = u[j1].name /\ t[i2].name = u[j2].name => (i1 < i2 <=> j1 < j2)

\* What KeysStay says of one key and two tables.
Stays(t, u, key) ==
    /\ Owner(t, key) # Owner(u, key) =>
          \/ WeightOf(u, Owner(t, key)) < WeightOf(t, Owner(t, key))
          \/ WeightOf(t, Owner(u, key)) < WeightOf(u, Owner(u, key))
          \/ \A i \in DOMAIN t : ScoresZero(t, i, key)
    /\ WeightOf(t, Owner(t, key)) = 0 => \A i \in DOMAIN t : ScoresZero(t, i, key)

LEMMA WeightIs ==
    ASSUME NEW t \in Table, Distinct(t)
    PROVE  /\ \A i \in DOMAIN t : WeightOf(t, t[i].name) = t[i].weight
           /\ \A name : (\A i \in DOMAIN t : t[i].name # name) => WeightOf(t, name) = 0
  <1>1. ASSUME NEW i \in DOMAIN t
        PROVE  WeightOf(t, t[i].name) = t[i].weight
    <2> DEFINE k == CHOOSE k \in DOMAIN t : t[k].name = t[i].name
    <2>1. k \in DOMAIN t /\ t[k].name = t[i].name
      OBVIOUS
    <2>2. WeightOf(t, t[i].name) = t[k].weight
      BY DEF WeightOf
    <2> HIDE DEF k
    <2>3. k = i
      BY <2>1 DEF Distinct
    <2> QED
      BY <2>2, <2>3
  <1>2. ASSUME NEW name, \A i \in DOMAIN t : t[i].name # name
        PROVE  WeightOf(t, name) = 0
    BY <1>2 DEF WeightOf
  <1> QED
    BY <1>1, <1>2

\* If the best node scores nothing, no node does.
LEMMA BestScoresZero ==
    ASSUME NEW t \in Table, t # << >>, NEW key \in Hashes, Zero(t[Get(t, key)], key)
    PROVE  \A i \in DOMAIN t : ScoresZero(t, i, key)
  <1> DEFINE f == Get(t, key)
  <1>1. f \in DOMAIN t /\ \A j \in DOMAIN t : ~Beats(t, j, f, key)
    BY GetBest
  <1>2. Zero(t[f], key)
    OBVIOUS
  <1> HIDE DEF f
  <1> SUFFICES ASSUME NEW i \in DOMAIN t PROVE ScoresZero(t, i, key)
    OBVIOUS
  <1>3. NoMore(t[i], t[f], key)
    BY <1>1, BeatsScores
  <1>4. Zero(t[i], key)
    BY <1>2, <1>3 DEF NoMore
  <1> QED
    BY <1>1, <1>4, BeatsScores

\* The argument of the whole module: between two tables that order their names
\* alike, a key stays unless the weights say otherwise.
LEMMA StaysBetween ==
    ASSUME NEW t \in Table, t # << >>, Distinct(t), NEW u \in Table, u # << >>, Distinct(u),
           SameOrder(t, u), NEW key \in Hashes
    PROVE  Stays(t, u, key)
  <1> DEFINE f == Get(t, key)
             g == Get(u, key)
  <1>1. /\ f \in DOMAIN t
        /\ \A j \in DOMAIN t : NoMore(t[j], t[f], key)
        /\ \A j \in DOMAIN t : j < f => ~NoMore(t[f], t[j], key)
    <2>1. /\ f \in DOMAIN t
          /\ \A j \in DOMAIN t : ~Beats(t, j, f, key)
          /\ \A j \in 1 .. f - 1 : Beats(t, f, j, key)
      BY GetBest
    <2> HIDE DEF f
    <2>2. \A j \in DOMAIN t : j < f => j \in 1 .. f - 1
      BY <2>1 DEF Table
    <2> QED
      BY <2>1, <2>2, BeatsScores
  <1>2. /\ g \in DOMAIN u
        /\ \A j \in DOMAIN u : NoMore(u[j], u[g], key)
        /\ \A j \in DOMAIN u : j < g => ~NoMore(u[g], u[j], key)
    <2>1. /\ g \in DOMAIN u
          /\ \A j \in DOMAIN u : ~Beats(u, j, g, key)
          /\ \A j \in 1 .. g - 1 : Beats(u, g, j, key)
      BY GetBest
    <2> HIDE DEF g
    <2>2. \A j \in DOMAIN u : j < g => j \in 1 .. g - 1
      BY <2>1 DEF Table
    <2> QED
      BY <2>1, <2>2, BeatsScores
  <1>3. /\ \A i \in DOMAIN t : t[i] \in Node /\ t[i].weight \in Nat
        /\ \A i \in DOMAIN u : u[i] \in Node /\ u[i].weight \in Nat
        /\ DOMAIN t \subseteq Nat /\ DOMAIN u \subseteq Nat
    <2>1. \A i \in DOMAIN t : t[i] \in Node
      BY DEF Table
    <2>2. \A i \in DOMAIN u : u[i] \in Node
      BY DEF Table
    <2>3. \A x \in Node : x.weight \in Nat
      BY TableBoundAssumption DEF Node, Weights
    <2>4. DOMAIN t \subseteq Nat /\ DOMAIN u \subseteq Nat
      BY DEF Table
    <2> QED
      BY <2>1, <2>2, <2>3, <2>4
  <1>4. Owner(t, key) = t[f].name /\ Owner(u, key) = u[g].name
    BY DEF Owner
  <1>5. Zero(t[f], key) => \A i \in DOMAIN t : ScoresZero(t, i, key)
    BY BestScoresZero
  <1> HIDE DEF f, g
  <1>6. t[f].weight = 0 => Zero(t[f], key)
    BY DEF Zero
  <1>7. WeightOf(t, t[f].name) = t[f].weight /\ WeightOf(u, u[g].name) = u[g].weight
    BY <1>1, <1>2, WeightIs
  <1>8. ASSUME t[f].name # u[g].name, ~Zero(t[f], key),
               ~(WeightOf(u, t[f].name) < WeightOf(t, t[f].name)),
               ~(WeightOf(t, u[g].name) < WeightOf(u, u[g].name))
        PROVE  FALSE
    <2>1. t[f].weight > 0
      BY <1>1, <1>3, <1>8 DEF Zero
    \* The old owner is in the new table, with no less weight.
    <2>2. PICK h \in DOMAIN u : u[h].name = t[f].name
      <3>1. SUFFICES ASSUME \A h \in DOMAIN u : u[h].name # t[f].name PROVE FALSE
        OBVIOUS
      <3>2. WeightOf(u, t[f].name) = 0
        BY <3>1, WeightIs
      <3> QED
        BY <1>7, <1>8, <2>1, <3>2
    <2>3. WeightOf(u, t[f].name) = u[h].weight
      BY <2>2, WeightIs
    <2>4. NoMore(t[f], u[h], key)
      <3>1. t[f].weight <= u[h].weight
        BY <1>1, <1>3, <1>7, <1>8, <2>2, <2>3
      <3> QED
        BY <1>1, <1>3, <2>2, <3>1, NoMoreGains
    <2>5. NoMore(u[h], u[g], key)
      BY <1>2, <2>2
    \* The new owner was in the old table, with no less weight.
    <2>6. u[g].weight > 0
      <3>1. ~Zero(u[g], key)
        BY <1>8, <2>4, <2>5 DEF NoMore
      <3> QED
        BY <1>2, <1>3, <3>1 DEF Zero
    <2>7. PICK e \in DOMAIN t : t[e].name = u[g].name
      <3>1. SUFFICES ASSUME \A e \in DOMAIN t : t[e].name # u[g].name PROVE FALSE
        OBVIOUS
      <3>2. WeightOf(t, u[g].name) = 0
        BY <3>1, WeightIs
      <3> QED
        BY <1>7, <1>8, <2>6, <3>2
    <2>8. WeightOf(t, u[g].name) = t[e].weight
      BY <2>7, WeightIs
    <2>9. NoMore(u[g], t[e], key)
      <3>1. u[g].weight <= t[e].weight
        BY <1>2, <1>3, <1>7, <1>8, <2>7, <2>8
      <3> QED
        BY <1>2, <1>3, <2>7, <3>1, NoMoreGains
    <2>10. NoMore(t[e], t[f], key)
      BY <1>1, <2>7
    <2>n. t[e] \in Node /\ t[f] \in Node /\ u[g] \in Node /\ u[h] \in Node
      BY <1>1, <1>2, <1>3, <2>2, <2>7
    \* All four score the same, and the position decides.
    <2>11. NoMore(t[f], t[e], key)
      <3>1. NoMore(t[f], u[g], key)
        BY <2>4, <2>5, <2>n, NoMoreTransitive
      <3> QED
        BY <3>1, <2>9, <2>n, NoMoreTransitive
    <2>12. NoMore(u[g], u[h], key)
      <3>1. NoMore(u[g], t[f], key)
        BY <2>9, <2>10, <2>n, NoMoreTransitive
      <3> QED
        BY <3>1, <2>4, <2>n, NoMoreTransitive
    <2>13. ~(e < f) /\ ~(h < g)
      BY <1>1, <1>2, <2>2, <2>7, <2>11, <2>12
    <2>14. f < e <=> h < g
      BY <1>1, <1>2, <2>2, <2>7 DEF SameOrder
    <2>15. e # f
      BY <1>8, <2>7
    <2>16. e \in Nat /\ f \in Nat
      BY <1>1, <1>3, <2>7
    <2> QED
      BY <2>13, <2>14, <2>15, <2>16
  <1> QED
    BY <1>4, <1>5, <1>6, <1>7, <1>8 DEF Stays

-----------------------------------------------------------------------------
(* The steps                                                                *)

\* Table u is t with a node x of a new name put in after position p.
Inserted(t, u, p, x) ==
    /\ Len(u) = Len(t) + 1
    /\ \A k \in 1 .. Len(u) :
          u[k] = IF k <= p THEN t[k] ELSE IF k = p + 1 THEN x ELSE t[k - 1]
    /\ \A k \in 1 .. Len(t) : t[k].name # x.name

\* Table u is t without the node at position p.
Removed(t, u, p) ==
    /\ Len(u) = Len(t) - 1
    /\ \A k \in 1 .. Len(u) : u[k] = IF k < p THEN t[k] ELSE t[k + 1]

\* Both tables have the same names in the same positions.
Renewed(t, u) ==
    /\ Len(u) = Len(t)
    /\ \A k \in 1 .. Len(t) : u[k].name = t[k].name

LEMMA InsertedKeeps ==
    ASSUME NEW t \in Table, NEW u \in Table, NEW p \in 0 .. Len(t), NEW x \in Node,
           Inserted(t, u, p, x), Distinct(t)
    PROVE  Distinct(u) /\ SameOrder(t, u)
  <1> DEFINE m == Len(t)
             At(k) == IF k <= p THEN k ELSE k - 1
  <1>0. m \in Nat /\ p \in 0 .. m /\ DOMAIN t = 1 .. m /\ DOMAIN u = 1 .. m + 1
    BY DEF Table, Inserted
  <1>1. \A k \in 1 .. m + 1 : k # p + 1 => At(k) \in 1 .. m /\ u[k] = t[At(k)]
    BY <1>0 DEF Inserted
  <1>2. u[p + 1] = x /\ \A k \in 1 .. m : t[k].name # x.name
    BY <1>0 DEF Inserted
  <1>3. \A i, j \in 1 .. m : t[i].name = t[j].name => i = j
    BY <1>0 DEF Distinct
  <1>4. \A j, k \in 1 .. m + 1 : j # p + 1 /\ k # p + 1 =>
            (At(j) = At(k) => j = k) /\ (At(j) < At(k) <=> j < k)
    BY <1>0
  <1> HIDE DEF m, At
  <1>5. ASSUME NEW i \in 1 .. m + 1, NEW j \in 1 .. m + 1, u[i].name = u[j].name
        PROVE  i = j
    <2>1. i = p + 1 => j = p + 1
      BY <1>1, <1>2, <1>5
    <2>2. j = p + 1 => i = p + 1
      BY <1>1, <1>2, <1>5
    <2>3. CASE i # p + 1 /\ j # p + 1
      <3>1. At(i) \in 1 .. m /\ At(j) \in 1 .. m /\ t[At(i)].name = t[At(j)].name
        BY <1>1, <1>5, <2>3
      <3>2. At(i) = At(j)
        BY <1>3, <3>1
      <3> QED
        BY <1>4, <2>3, <3>2
    <2> QED
      BY <2>1, <2>2, <2>3
  <1>6. ASSUME NEW i1 \in 1 .. m, NEW i2 \in 1 .. m, NEW j1 \in 1 .. m + 1, NEW j2 \in 1 .. m + 1,
               t[i1].name = u[j1].name, t[i2].name = u[j2].name
        PROVE  i1 < i2 <=> j1 < j2
    <2>1. j1 # p + 1 /\ j2 # p + 1
      BY <1>2, <1>6
    <2>2. /\ At(j1) \in 1 .. m /\ At(j2) \in 1 .. m
          /\ t[i1].name = t[At(j1)].name /\ t[i2].name = t[At(j2)].name
      BY <1>1, <1>6, <2>1
    <2>3. i1 = At(j1) /\ i2 = At(j2)
      BY <1>3, <2>2
    <2> QED
      BY <1>4, <2>1, <2>3
  <1> QED
    BY <1>0, <1>5, <1>6 DEF Distinct, SameOrder

LEMMA RemovedKeeps ==
    ASSUME NEW t \in Table, NEW u \in Table, NEW p \in 1 .. Len(t), Removed(t, u, p), Distinct(t)
    PROVE  Distinct(u) /\ SameOrder(t, u)
  <1> DEFINE m == Len(t)
             At(k) == IF k < p THEN k ELSE k + 1
  <1>0. m \in Nat /\ p \in 1 .. m /\ DOMAIN t = 1 .. m /\ DOMAIN u = 1 .. m - 1
    BY DEF Table, Removed
  <1>1. \A k \in 1 .. m - 1 : At(k) \in 1 .. m /\ u[k] = t[At(k)]
    BY <1>0 DEF Removed
  <1>3. \A i, j \in 1 .. m : t[i].name = t[j].name => i = j
    BY <1>0 DEF Distinct
  <1>4. \A j, k \in 1 .. m - 1 : (At(j) = At(k) => j = k) /\ (At(j) < At(k) <=> j < k)
    BY <1>0
  <1> HIDE DEF m, At
  <1>5. ASSUME NEW i \in 1 .. m - 1, NEW j \in 1 .. m - 1, u[i].name = u[j].name
        PROVE  i = j
    BY <1>1, <1>3, <1>4, <1>5
  <1>6. ASSUME NEW i1 \in 1 .. m, NEW i2 \in 1 .. m, NEW j1 \in 1 .. m - 1, NEW j2 \in 1 .. m - 1,
               t[i1].name = u[j1].name, t[i2].name = u[j2].name
        PROVE  i1 < i2 <=> j1 < j2
    <2>1. i1 = At(j1) /\ i2 = At(j2)
      BY <1>1, <1>3, <1>6
    <2> QED
      BY <1>4, <2>1
  <1> QED
    BY <1>0, <1>5, <1>6 DEF Distinct, SameOrder

LEMMA RenewedKeeps ==
    ASSUME NEW t \in Table, NEW u \in Table, Renewed(t, u), Distinct(t)
    PROVE  Distinct(u) /\ SameOrder(t, u)
  <1>1. /\ DOMAIN t = 1 .. Len(t) /\ DOMAIN u = 1 .. Len(t)
        /\ \A k \in 1 .. Len(t) : u[k].name = t[k].name
    BY DEF Table, Renewed
  <1>2. Distinct(u)
    BY <1>1 DEF Distinct
  <1>3. \A i, j \in 1 .. Len(t) : t[i].name = u[j].name => i = j
    BY <1>1 DEF Distinct
  <1>4. SameOrder(t, u)
    BY <1>1, <1>3 DEF SameOrder
  <1> QED
    BY <1>2, <1>4

\* A table without nodes is refused: the sum of its weights is 0.
LEMMA EmptyRefused == ~(WeightSum(<< >>) > 0)
  <1> DEFINE step(f) == [n \in 0 .. Len(<< >>) |->
                            IF n = 0 THEN 0 ELSE f[n - 1] + << >>[n].weight]
             sum == CHOOSE f : f = step(f)
             zero == [n \in 0 .. Len(<< >>) |-> 0]
  <1>1. zero = step(zero)
    <2>1. \A n \in 0 .. Len(<< >>) : n = 0
      OBVIOUS
    <2> QED
      BY <2>1
  <1>2. WeightSum(<< >>) = sum[Len(<< >>)]
    BY DEF WeightSum
  <1>3. sum = step(sum)
    <2> HIDE DEF zero, step
    <2> QED
      BY <1>1
  <1> HIDE DEF sum
  <1>4. sum[0] = 0
    BY <1>3
  <1> QED
    BY <1>2, <1>4

\* The first i nodes of a table, and the nodes after them.
LEMMA Cut ==
    ASSUME NEW t \in Table, NEW i \in 0 .. Len(t)
    PROVE  /\ SubSeq(t, 1, i) \in Table /\ Len(SubSeq(t, 1, i)) = i
           /\ \A k \in 1 .. i : SubSeq(t, 1, i)[k] = t[k]
           /\ SubSeq(t, i + 1, Len(t)) \in Table
           /\ Len(SubSeq(t, i + 1, Len(t))) = Len(t) - i
           /\ \A k \in 1 .. Len(t) - i : SubSeq(t, i + 1, Len(t))[k] = t[k + i]
  <1> DEFINE m == Len(t)
             a == SubSeq(t, 1, i)
             b == SubSeq(t, i + 1, m)
  <1>1. m \in Nat /\ i \in 0 .. m
    BY DEF Table
  <1>2. \A k \in 1 .. m : t[k] \in Node
    BY DEF Table
  <1>3. /\ a \in Table /\ Len(a) = IF 1 <= i THEN i - 1 + 1 ELSE 0
        /\ \A k \in 1 .. i - 1 + 1 : a[k] = t[1 + k - 1]
    <2>1. \A k \in 1 .. i : t[k] \in Node
      BY <1>1, <1>2
    <2> QED
      BY <1>1, <2>1, SubSeqProperties DEF Table
  <1>4. /\ b \in Table /\ Len(b) = IF i + 1 <= m THEN m - (i + 1) + 1 ELSE 0
        /\ \A k \in 1 .. m - (i + 1) + 1 : b[k] = t[i + 1 + k - 1]
    <2>1. \A k \in i + 1 .. m : t[k] \in Node
      BY <1>1, <1>2
    <2> QED
      BY <1>1, <2>1, SubSeqProperties DEF Table
  <1> HIDE DEF m, a, b
  <1>5. Len(a) = i /\ \A k \in 1 .. i : a[k] = t[k]
    BY <1>1, <1>3
  <1>6. Len(b) = m - i
    BY <1>1, <1>4
  <1>7. \A k \in 1 .. m - i : b[k] = t[k + i]
    BY <1>1, <1>4
  <1> QED
    BY <1>3, <1>4, <1>5, <1>6, <1>7 DEF a, b, m

\* Table v is table s, of m nodes, and then table t, of n nodes.
Join(v, s, m, t, n) ==
    /\ v \in Table /\ Len(v) = m + n
    /\ \A k \in 1 .. m + n : v[k] = IF k <= m THEN s[k] ELSE t[k - m]

LEMMA Joined ==
    ASSUME NEW s \in Table, NEW t \in Table, NEW m \in Nat, NEW n \in Nat, Len(s) = m, Len(t) = n
    PROVE  Join(s \o t, s, m, t, n)
  BY ConcatProperties DEF Table, Join

\* The inductive invariant: a list of nodes with distinct names.  The
\* application never adds a name that is in the list.
RhInv == nodes \in Table /\ Distinct(nodes)

LEMMA RhInitInv == RhInit => RhInv
  BY DEF RhInit, RhInv, Table, Distinct

\* What a step may do to the tables.
LEMMA RhNextInv ==
    ASSUME RhInv, RhNext
    PROVE  RhInv' /\ nodes' # << >> /\ SameOrder(nodes, nodes')
  <1> DEFINE t == nodes
             u == nodes'
  <1>0. t \in Table /\ Distinct(t)
    BY DEF RhInv
  <1>l. Len(t) \in Nat /\ DOMAIN t = 1 .. Len(t) /\ \A k \in 1 .. Len(t) : t[k] \in Node
    BY <1>0 DEF Table
  <1>n. Len(t) \in Nat
    BY <1>l
  <1>b. ASSUME NEW v, Build(v) PROVE u = v /\ u # << >>
    BY <1>b, EmptyRefused DEF Build
  <1>1. ASSUME NEW name \in Names, NEW weight \in Weights, NEW i \in 0 .. Len(nodes),
               AddNode(name, weight, i)
        PROVE  u \in Table /\ u # << >> /\ Distinct(u) /\ SameOrder(t, u)
    <2> DEFINE x == [name |-> name, weight |-> weight]
               a == SubSeq(t, 1, i)
               b == SubSeq(t, i + 1, Len(t))
    <2>1. u = a \o <<x>> \o b /\ u # << >>
      BY <1>1, <1>b DEF AddNode
    <2>2. x \in Node
      BY DEF Node
    <2>3. /\ a \in Table /\ Len(a) = i /\ \A k \in 1 .. i : a[k] = t[k]
          /\ b \in Table /\ Len(b) = Len(t) - i /\ \A k \in 1 .. Len(t) - i : b[k] = t[k + i]
      BY <1>0, <1>n, Cut
    <2>4. \A k \in 1 .. Len(t) : t[k].name # x.name
      BY <1>1, <1>l DEF AddNode
    <2> HIDE DEF x, a, b
    <2>s. <<x>> \in Table /\ Len(<<x>>) = 1 /\ <<x>>[1] = x
      BY <2>2 DEF Table
    <2>t. i \in Nat /\ i + 1 \in Nat /\ Len(t) - i \in Nat
      BY <1>n
    <2> DEFINE y == <<x>>
               c == a \o y
    <2>y. y \in Table /\ Len(y) = 1 /\ y[1] = x
      BY <2>s
    <2> HIDE DEF y
    <2>j. Join(c, a, i, y, 1)
      BY <2>t, <2>3, <2>y, Joined
    <2>c. /\ c \in Table /\ Len(c) = i + 1
          /\ \A k \in 1 .. i + 1 : c[k] = IF k <= i THEN a[k] ELSE y[k - i]
      BY <2>j DEF Join
    <2>u. u = c \o b
      BY <2>1 DEF y
    <2> HIDE DEF c
    <2>5. /\ u \in Table /\ Len(u) = i + 1 + (Len(t) - i)
          /\ \A k \in 1 .. i + 1 + (Len(t) - i) :
                u[k] = IF k <= i + 1 THEN c[k] ELSE b[k - (i + 1)]
      <3>1. Join(u, c, i + 1, b, Len(t) - i)
        BY <2>u, <2>t, <2>3, <2>c, Joined
      <3> QED
        BY <3>1 DEF Join
    <2>6. Inserted(t, u, i, x)
      <3>0. i + 1 + (Len(t) - i) = Len(t) + 1 /\ i \in 0 .. Len(t)
        BY <1>n
      <3>1. Len(u) = Len(t) + 1
        BY <2>5, <3>0
      <3>2. ASSUME NEW k \in 1 .. Len(t) + 1
            PROVE  u[k] = IF k <= i THEN t[k] ELSE IF k = i + 1 THEN x ELSE t[k - 1]
        <4>0. u[k] = IF k <= i + 1 THEN c[k] ELSE b[k - (i + 1)]
          BY <2>5, <3>0
        <4>1. CASE k <= i
          <5>1. k \in 1 .. i /\ k \in 1 .. i + 1 /\ k <= i + 1
            BY <1>n, <4>1
          <5> QED
            BY <2>3, <2>c, <4>0, <4>1, <5>1
        <4>2. CASE k = i + 1
          <5>1. k \in 1 .. i + 1 /\ k <= i + 1 /\ ~(k <= i) /\ k - i = 1
            BY <1>n, <4>2
          <5> QED
            BY <2>y, <2>c, <4>0, <4>2, <5>1
        <4>3. CASE k > i + 1
          <5>1. /\ k - (i + 1) \in 1 .. Len(t) - i /\ k - (i + 1) + i = k - 1
                /\ ~(k <= i + 1) /\ ~(k <= i) /\ k # i + 1
            BY <1>n, <4>3
          <5>2. b[k - (i + 1)] = t[k - 1]
            BY <2>3, <5>1
          <5> QED
            BY <4>0, <5>1, <5>2
        <4> QED
          BY <1>n, <4>1, <4>2, <4>3
      <3> QED
        BY <3>1, <3>2, <2>4 DEF Inserted
    <2> QED
      BY <1>0, <2>1, <2>2, <2>5, <2>6, InsertedKeeps
  <1>2. ASSUME NEW i \in DOMAIN nodes, RemoveNode(i)
        PROVE  u \in Table /\ u # << >> /\ Distinct(u) /\ SameOrder(t, u)
    <2> DEFINE a == SubSeq(t, 1, i - 1)
               b == SubSeq(t, i + 1, Len(t))
    <2>1. u = a \o b /\ u # << >>
      BY <1>2, <1>b DEF RemoveNode
    <2>2. i \in 1 .. Len(t)
      BY <1>l
    <2>3. /\ a \in Table /\ Len(a) = i - 1 /\ \A k \in 1 .. i - 1 : a[k] = t[k]
          /\ b \in Table /\ Len(b) = Len(t) - i /\ \A k \in 1 .. Len(t) - i : b[k] = t[k + i]
      <3>1. i - 1 \in 0 .. Len(t) /\ i \in 0 .. Len(t)
        BY <1>n, <2>2
      <3> QED
        BY <1>0, <3>1, Cut
    <2> HIDE DEF a, b
    <2>4. /\ u \in Table /\ Len(u) = i - 1 + (Len(t) - i)
          /\ \A k \in 1 .. i - 1 + (Len(t) - i) :
                u[k] = IF k <= i - 1 THEN a[k] ELSE b[k - (i - 1)]
      <3>1. i - 1 \in Nat /\ Len(t) - i \in Nat
        BY <1>n, <2>2
      <3>2. Join(u, a, i - 1, b, Len(t) - i)
        BY <2>1, <2>3, <3>1, Joined
      <3> QED
        BY <3>2 DEF Join
    <2>5. Removed(t, u, i)
      <3>0. i - 1 + (Len(t) - i) = Len(t) - 1
        BY <1>n, <2>2
      <3>1. Len(u) = Len(t) - 1
        BY <2>4, <3>0
      <3>2. ASSUME NEW k \in 1 .. Len(t) - 1
            PROVE  u[k] = IF k < i THEN t[k] ELSE t[k + 1]
        <4>0. u[k] = IF k <= i - 1 THEN a[k] ELSE b[k - (i - 1)]
          BY <2>4, <3>0
        <4>1. CASE k < i
          <5>1. k \in 1 .. i - 1 /\ k <= i - 1
            BY <2>2, <4>1
          <5> QED
            BY <2>3, <4>0, <4>1, <5>1
        <4>2. CASE ~(k < i)
          <5>1. /\ k - (i - 1) \in 1 .. Len(t) - i /\ k - (i - 1) + i = k + 1
                /\ ~(k <= i - 1)
            BY <1>n, <2>2, <4>2
          <5>2. b[k - (i - 1)] = t[k + 1]
            BY <2>3, <5>1
          <5> QED
            BY <4>0, <4>2, <5>1, <5>2
        <4> QED
          BY <4>1, <4>2
      <3> QED
        BY <3>1, <3>2 DEF Removed
    <2> QED
      BY <1>0, <2>1, <2>2, <2>4, <2>5, RemovedKeeps
  <1>3. ASSUME NEW i \in DOMAIN nodes, NEW weight \in Weights, Reweigh(i, weight)
        PROVE  u \in Table /\ u # << >> /\ Distinct(u) /\ SameOrder(t, u)
    <2>1. u = [t EXCEPT ![i].weight = weight] /\ u # << >>
      BY <1>3, <1>b DEF Reweigh
    <2>2. /\ [t[i] EXCEPT !.weight = weight] \in Node
          /\ [t[i] EXCEPT !.weight = weight].name = t[i].name
      BY <1>l DEF Node
    <2>3. u \in Table
      BY <1>0, <2>1, <2>2 DEF Table
    <2>4. Renewed(t, u)
      BY <1>0, <1>l, <2>1, <2>2, <2>3 DEF Renewed, Table
    <2> QED
      BY <1>0, <2>1, <2>3, <2>4, RenewedKeeps
  <1> QED
    BY <1>1, <1>2, <1>3 DEF RhNext, RhInv

\* KeysStay: with every step of the application that builds a new table, a key
\* moves only where the weights say so.
THEOREM KeysStayPut == RhSpec => KeysStay
  <1>1. RhInv /\ [RhNext]_nodes => RhInv'
    <2>1. RhInv /\ RhNext => RhInv'
      BY RhNextInv
    <2>2. RhInv /\ UNCHANGED nodes => RhInv'
      BY DEF RhInv
    <2> QED
      BY <2>1, <2>2
  <1> DEFINE Step == nodes # << >> => \A key \in Hashes : Stays(nodes, nodes', key)
  <1>2. RhInv /\ [RhNext]_nodes => [Step]_nodes
    <2>1. ASSUME RhInv, RhNext, nodes # << >>, NEW key \in Hashes
          PROVE  Stays(nodes, nodes', key)
      <3>1. /\ nodes \in Table /\ Distinct(nodes) /\ nodes' \in Table /\ Distinct(nodes')
            /\ nodes' # << >> /\ SameOrder(nodes, nodes')
        BY <2>1, RhNextInv DEF RhInv
      <3> QED
        BY <2>1, <3>1, StaysBetween
    <2> QED
      BY <2>1
  <1>3. [][Step]_nodes => KeysStay
    BY PTL DEF KeysStay, Stays, Step
  <1> HIDE DEF Step
  <1> QED
    BY <1>1, <1>2, <1>3, RhInitInv, PTL DEF RhSpec
=============================================================================
