------------------------- MODULE RecursionTheorems -------------------------
(***************************************************************************)
(* What proofs about recursive functions rest on, stated with sets: a      *)
(* predicate over the natural numbers is the set of the numbers that       *)
(* satisfy it, and the body of a recursive function maps what it calls to  *)
(* what it computes.                                                       *)
(***************************************************************************)
EXTENDS PowersOfTwo, WellFoundedInduction, TLAPS

\* Induction over the natural numbers.
THEOREM SetInduction ==
  ASSUME NEW P \in SUBSET Nat, 0 \in P, \A n \in P : n + 1 \in P
  PROVE  \A n \in Nat : n \in P
<1>1. IsWellFoundedOn(OpToRel(<, Nat), Nat)
  BY NatLessThanWellFounded
<1> DEFINE T == Nat \ P
<1>2. SUFFICES ASSUME T # {} PROVE FALSE
  OBVIOUS
<1>3. T \subseteq Nat
  OBVIOUS
<1>4. PICK x \in T : \A y \in T : ~(<<y, x>> \in OpToRel(<, Nat))
  <2> HIDE DEF T
  <2> QED  BY <1>1, <1>2, <1>3, WFMin
<1>5. x \in Nat /\ x # 0 /\ x - 1 \in Nat
  OBVIOUS
<1>6. x - 1 \in T
  <2>1. ASSUME x - 1 \in P PROVE FALSE
    <3>1. (x - 1) + 1 \in P
      BY <2>1
    <3> QED  BY <3>1, <1>5
  <2> QED  BY <2>1, <1>5
<1>7. <<x - 1, x>> \in OpToRel(<, Nat)
  BY <1>5 DEF OpToRel
<1> QED
  BY <1>4, <1>6, <1>7

\* Induction in which a number may rest on all the smaller ones.
THEOREM StrongSetInduction ==
  ASSUME NEW P \in SUBSET Nat, \A n \in Nat : (\A m \in 0..(n - 1) : m \in P) => n \in P
  PROVE  \A n \in Nat : n \in P
<1> DEFINE Q == {n \in Nat : \A m \in 0..(n - 1) : m \in P}
<1>1. Q \in SUBSET Nat /\ 0 \in Q
  OBVIOUS
<1>2. ASSUME NEW n \in Q PROVE n + 1 \in Q
  <2>1. n \in P
    OBVIOUS
  <2>2. \A m \in 0..((n + 1) - 1) : m \in 0..(n - 1) \/ m = n
    OBVIOUS
  <2> QED  BY <2>1, <2>2
<1>3. \A n \in Nat : n \in Q
  <2> HIDE DEF Q
  <2> QED  BY <1>1, <1>2, SetInduction
<1> QED
  BY <1>3

\* A set of small numbers has a largest one.
THEOREM LargestExists ==
  ASSUME NEW N \in Nat, NEW S \in SUBSET (0..N), S # {}
  PROVE  \E k \in S : \A i \in S : i <= k
<1> DEFINE P == {n \in Nat : \A T \in SUBSET (0..n) : T # {} => \E k \in T : \A i \in T : i <= k}
<1>1. P \in SUBSET Nat /\ 0 \in P
  <2>1. ASSUME NEW T \in SUBSET (0..0), T # {} PROVE \E k \in T : \A i \in T : i <= k
    <3>1. PICK k \in T : TRUE
      BY <2>1
    <3>2. \A i \in T : i \in 0..0
      OBVIOUS
    <3>3. k \in 0..0 /\ \A i \in T : i <= k
      BY <3>2
    <3> QED  BY <3>3
  <2> QED  BY <2>1
<1>2. ASSUME NEW n \in P PROVE n + 1 \in P
  <2>1. ASSUME NEW T \in SUBSET (0..(n + 1)), T # {} PROVE \E k \in T : \A i \in T : i <= k
    <3>1. n \in Nat
      OBVIOUS
    <3>2. CASE n + 1 \in T
      BY <3>1, <3>2
    <3>3. CASE n + 1 \notin T
      <4>1. \A i \in T : i \in 0..n
        BY <3>1, <3>3
      <4>2. T \in SUBSET (0..n)
        BY <4>1
      <4> QED  BY <2>1, <4>2
    <3> QED  BY <3>2, <3>3
  <2>2. n + 1 \in Nat
    OBVIOUS
  <2> QED  BY <2>1, <2>2
<1>3. \A n \in Nat : n \in P
  <2> HIDE DEF P
  <2> QED  BY <1>1, <1>2, SetInduction
<1> QED
  BY <1>3

\* The functions from S to V: a name that is not expanded where a theorem is
\* used, since no solver finds the S and V of a set of functions by itself.
Maps(S, V) == [S -> V]

\* A body that looks at no argument of the same or a higher rank has a function.
THEOREM RecursiveFunctionExists ==
  ASSUME NEW S, NEW V, NEW rank \in Maps(S, Nat), NEW D \in Maps(Maps(S, V), Maps(S, V)),
         Maps(S, V) # {},
         \A g, h \in Maps(S, V) : \A s \in S :
            (\A t \in S : rank[t] < rank[s] => g[t] = h[t]) => D[g][s] = D[h][s]
  PROVE  \E f \in Maps(S, V) : D[f] = f
<1> USE DEF Maps
<1> DEFINE Good(n) == {g \in [S -> V] : \A s \in S : rank[s] < n => g[s] = D[g][s]}
<1>1. \A n \in Nat : Good(n) # {}
  <2> DEFINE P == {n \in Nat : Good(n) # {}}
  <2>1. P \in SUBSET Nat
    OBVIOUS
  <2>2. 0 \in P
    <3>1. PICK some \in [S -> V] : TRUE
      OBVIOUS
    <3>2. some \in Good(0)
      OBVIOUS
    <3> QED  BY <3>2
  <2>3. ASSUME NEW n \in P PROVE n + 1 \in P
    <3>1. PICK g \in Good(n) : TRUE
      OBVIOUS
    <3> DEFINE h == D[g]
    <3>2. h \in [S -> V]
      OBVIOUS
    <3>3. ASSUME NEW s \in S, rank[s] < n + 1 PROVE h[s] = D[h][s]
      <4>1. ASSUME NEW t \in S, rank[t] < rank[s] PROVE g[t] = h[t]
        <5>1. rank[t] < n
          BY <3>3, <4>1
        <5> QED  BY <5>1
      <4>2. D[g][s] = D[h][s]
        <5> HIDE DEF h
        <5> QED  BY <3>2, <4>1
      <4> QED  BY <4>2
    <3>4. h \in Good(n + 1)
      <4> HIDE DEF h
      <4> QED  BY <3>2, <3>3
    <3>5. n + 1 \in Nat
      OBVIOUS
    <3> HIDE DEF Good, h
    <3> QED  BY <3>4, <3>5
  <2>4. \A n \in Nat : n \in P
    <3> HIDE DEF P
    <3> QED  BY <2>1, <2>2, <2>3, SetInduction
  <2> QED  BY <2>4
<1>2. ASSUME NEW m \in Nat, NEW n \in Nat, NEW g \in Good(m), NEW h \in Good(n),
             NEW s \in S, rank[s] < m, rank[s] < n
      PROVE  g[s] = h[s]
  <2> DEFINE P == {k \in Nat : \A t \in S : rank[t] = k /\ k < m /\ k < n => g[t] = h[t]}
  <2>1. P \in SUBSET Nat
    OBVIOUS
  <2>2. ASSUME NEW k \in Nat, \A j \in 0..(k - 1) : j \in P PROVE k \in P
    <3>1. ASSUME NEW t \in S, rank[t] = k, k < m, k < n PROVE g[t] = h[t]
      <4>1. ASSUME NEW u \in S, rank[u] < rank[t] PROVE g[u] = h[u]
        <5>1. rank[u] \in 0..(k - 1) /\ rank[u] < m /\ rank[u] < n
          BY <3>1, <4>1
        <5> QED  BY <5>1, <2>2
      <4>2. D[g][t] = D[h][t]
        BY <4>1
      <4>3. g[t] = D[g][t] /\ h[t] = D[h][t]
        BY <3>1
      <4> QED  BY <4>2, <4>3
    <3> QED  BY <3>1
  <2>3. \A k \in Nat : k \in P
    <3> HIDE DEF P
    <3> QED  BY <2>1, <2>2, StrongSetInduction
  <2>4. rank[s] \in P
    BY <2>3
  <2> QED  BY <2>4, <1>2
<1> DEFINE part(n) == CHOOSE g : g \in Good(n)
<1>3. \A n \in Nat : part(n) \in Good(n)
  <2> HIDE DEF Good
  <2> QED  BY <1>1
<1> DEFINE f == [s \in S |-> part(rank[s] + 1)[s]]
<1>4. ASSUME NEW s \in S PROVE part(rank[s] + 1) \in Good(rank[s] + 1) /\ rank[s] + 1 \in Nat
  <2>1. rank[s] + 1 \in Nat
    OBVIOUS
  <2> HIDE DEF part, Good
  <2> QED  BY <1>3, <2>1
<1>5. f \in [S -> V]
  <2>1. \A s \in S : part(rank[s] + 1) \in [S -> V]
    BY <1>4
  <2> HIDE DEF part
  <2> QED  BY <2>1
<1>6. ASSUME NEW s \in S PROVE f[s] = D[f][s]
  <2> DEFINE g == part(rank[s] + 1)
  <2>1. g \in Good(rank[s] + 1) /\ g \in [S -> V]
    BY <1>4
  <2>2. ASSUME NEW t \in S, rank[t] < rank[s] PROVE g[t] = f[t]
    <3>1. part(rank[t] + 1) \in Good(rank[t] + 1)
      BY <1>4
    <3>2. rank[t] < rank[s] + 1 /\ rank[t] < rank[t] + 1 /\ rank[s] + 1 \in Nat /\ rank[t] + 1 \in Nat
      BY <2>2
    <3>3. part(rank[t] + 1)[t] = g[t]
      <4> HIDE DEF part, Good, g
      <4> QED  BY <1>2, <2>1, <3>1, <3>2
    <3> QED  BY <3>3
  <2>3. D[g][s] = D[f][s]
    <3> HIDE DEF g, f
    <3> QED  BY <1>5, <2>1, <2>2
  <2>4. g[s] = D[g][s]
    <3> HIDE DEF g
    <3> QED  BY <2>1
  <2> QED  BY <2>3, <2>4
<1>7. D[f] = f
  <2> HIDE DEF f
  <2>1. D[f] \in [S -> V]
    BY <1>5
  <2> QED  BY <1>5, <1>6, <2>1
<1> QED
  <2> HIDE DEF f
  <2> QED  BY <1>5, <1>7

-----------------------------------------------------------------------------
(* Arithmetic                                                              *)

\* Quotients and remainders.
THEOREM Quotient ==
  ASSUME NEW p \in Nat, p >= 1, NEW q \in Nat, NEW r \in 0..(p - 1)
  PROVE  (p * q + r) \div p = q /\ (p * q + r) % p = r
OBVIOUS

THEOREM Division ==
  ASSUME NEW p \in Nat, p >= 1, NEW x \in Nat
  PROVE  x = p * (x \div p) + (x % p) /\ (x % p) \in 0..(p - 1) /\ (x \div p) \in Nat
OBVIOUS

\* Halving a quotient doubles the divisor.
THEOREM Halving ==
  ASSUME NEW x \in Nat, NEW p \in Nat, p >= 1
  PROVE  /\ (x \div p) \div 2 = x \div (2 * p)
         /\ x \div p \in Nat
         /\ p <= x => x \div p >= 1
         /\ x \div p >= 1 => p <= x
         /\ x \div 1 = x
<1> DEFINE q == x \div p
           r == x % p
<1>1. x = p * q + r /\ r \in 0..(p - 1) /\ q \in Nat
  BY Division
<1>2. (x \div p) \div 2 = x \div (2 * p)
  OBVIOUS
<1> HIDE DEF q, r
<1>3. p <= x => q >= 1
  <2>1. q = 0 => x = r
    BY <1>1
  <2> QED  BY <1>1, <2>1
<1>4. q >= 1 => p <= x
  <2>1. q >= 1 => p * q >= p
    BY <1>1
  <2> QED  BY <1>1, <2>1
<1>5. x \div 1 = x
  OBVIOUS
<1> QED
  BY <1>1, <1>2, <1>3, <1>4, <1>5 DEF q

\* Where the children of node i begin and end, in units of p leaves each.
THEOREM Products ==
  ASSUME NEW p \in Nat, NEW i \in Nat
  PROVE  /\ i * (2 * p) = (2 * i) * p
         /\ (2 * i) * p + p = (2 * i + 1) * p
         /\ (i + 1) * (2 * p) = (2 * i + 2) * p
         /\ (2 * i + 1) * p + p = (2 * i + 2) * p
         /\ i * p + p = (i + 1) * p
         /\ p >= 1 => i <= i * p
         /\ i * p \in Nat
OBVIOUS

-----------------------------------------------------------------------------
(* Powers of two                                                           *)

\* The recursion defines a positive number for every exponent.
THEOREM Pow2Is ==
  /\ Pow2 \in [Nat -> Nat]
  /\ Pow2[0] = 1
  /\ \A k \in Nat : Pow2[k] >= 1 /\ Pow2[k + 1] = 2 * Pow2[k]
<1> DEFINE Step(f, k) == IF k = 0 THEN 1 ELSE 2 * f[k - 1]
           D == [f \in Maps(Nat, Nat) |-> [k \in Nat |-> Step(f, k)]]
           rank == [k \in Nat |-> k]
<1>1. D \in Maps(Maps(Nat, Nat), Maps(Nat, Nat))
  <2>1. ASSUME NEW f \in [Nat -> Nat], NEW k \in Nat PROVE Step(f, k) \in Nat
    <3>1. k # 0 => k - 1 \in Nat
      OBVIOUS
    <3> QED  BY <3>1
  <2> HIDE DEF Step
  <2> QED  BY <2>1 DEF Maps
<1>2. ASSUME NEW g \in Maps(Nat, Nat), NEW h \in Maps(Nat, Nat), NEW k \in Nat,
             \A t \in Nat : rank[t] < rank[k] => g[t] = h[t]
      PROVE  D[g][k] = D[h][k]
  <2>1. k # 0 => k - 1 \in Nat /\ k - 1 < k
    OBVIOUS
  <2>2. k # 0 => g[k - 1] = h[k - 1]
    BY <1>2, <2>1
  <2> QED  BY <2>2
<1>3. Maps(Nat, Nat) # {} /\ rank \in Maps(Nat, Nat)
  <2>1. rank \in [Nat -> Nat]
    OBVIOUS
  <2> QED  BY <2>1 DEF Maps
<1>4. \E f \in Maps(Nat, Nat) : D[f] = f
  <2> HIDE DEF D, rank
  <2> QED  BY <1>1, <1>2, <1>3, RecursiveFunctionExists
<1>5. PICK f \in Maps(Nat, Nat) : D[f] = f
  BY <1>4
<1>6. f = [k \in Nat |-> Step(f, k)]
  BY <1>5
<1>7. Pow2 = [k \in Nat |-> Step(Pow2, k)]
  <2>1. Pow2 = CHOOSE p : p = [k \in Nat |-> Step(p, k)]
    BY DEF Pow2
  <2> HIDE DEF Step
  <2> QED  BY <1>6, <2>1
<1>8. Pow2[0] = 1 /\ \A k \in Nat : Pow2[k + 1] = 2 * Pow2[k]
  <2>1. \A k \in Nat : Pow2[k] = Step(Pow2, k)
    <3> HIDE DEF Step
    <3> QED  BY <1>7
  <2>2. ASSUME NEW k \in Nat PROVE Pow2[k + 1] = 2 * Pow2[k]
    <3>1. k + 1 \in Nat /\ k + 1 # 0 /\ (k + 1) - 1 = k
      OBVIOUS
    <3>2. Pow2[k + 1] = Step(Pow2, k + 1)
      BY <2>1, <3>1
    <3> QED  BY <3>1, <3>2
  <2> QED  BY <2>1, <2>2
<1>9. \A k \in Nat : Pow2[k] \in Nat /\ Pow2[k] >= 1
  <2> DEFINE P == {k \in Nat : Pow2[k] \in Nat /\ Pow2[k] >= 1}
  <2>1. P \in SUBSET Nat /\ 0 \in P
    BY <1>8
  <2>2. ASSUME NEW k \in P PROVE k + 1 \in P
    BY <1>8
  <2>3. \A k \in Nat : k \in P
    <3> HIDE DEF P
    <3> QED  BY <2>1, <2>2, SetInduction
  <2> QED  BY <2>3
<1>10. Pow2 \in [Nat -> Nat]
  <2>1. DOMAIN Pow2 = Nat /\ Pow2 = [k \in Nat |-> Pow2[k]]
    <3> HIDE DEF Step
    <3> QED  BY <1>7
  <2> QED  BY <1>9, <2>1
<1> QED
  BY <1>8, <1>9, <1>10

\* Exponents add up.
THEOREM Pow2Sum == \A a, b \in Nat : Pow2[a + b] = Pow2[a] * Pow2[b]
<1> SUFFICES ASSUME NEW a \in Nat PROVE \A b \in Nat : Pow2[a + b] = Pow2[a] * Pow2[b]
  OBVIOUS
<1> DEFINE P == {b \in Nat : Pow2[a + b] = Pow2[a] * Pow2[b]}
<1>1. P \in SUBSET Nat /\ 0 \in P
  <2>1. a + 0 = a /\ Pow2[a] \in Nat /\ Pow2[0] = 1
    BY Pow2Is
  <2>2. Pow2[a] * 1 = Pow2[a]
    BY <2>1
  <2> QED  BY <2>1, <2>2
<1>2. ASSUME NEW b \in P PROVE b + 1 \in P
  <2>1. b \in Nat /\ Pow2[a + b] = Pow2[a] * Pow2[b]
    OBVIOUS
  <2>2. a + (b + 1) = (a + b) + 1 /\ a + b \in Nat
    BY <2>1
  <2>3. Pow2[a + (b + 1)] = 2 * Pow2[a + b] /\ Pow2[b + 1] = 2 * Pow2[b]
    BY <2>1, <2>2, Pow2Is
  <2>4. Pow2[a] \in Nat /\ Pow2[b] \in Nat
    BY <2>1, Pow2Is
  <2>5. 2 * (Pow2[a] * Pow2[b]) = Pow2[a] * (2 * Pow2[b])
    BY <2>4
  <2> QED  BY <2>1, <2>3, <2>5
<1>3. \A b \in Nat : b \in P
  <2> HIDE DEF P
  <2> QED  BY <1>1, <1>2, SetInduction
<1> QED
  BY <1>3

\* A power of two is a multiple of every smaller one.
THEOREM Pow2Divides ==
  ASSUME NEW a \in Nat, NEW b \in Nat, a <= b
  PROVE  Pow2[b - a] \in Nat /\ Pow2[b] = Pow2[a] * Pow2[b - a]
<1>1. b - a \in Nat /\ a + (b - a) = b
  OBVIOUS
<1>2. Pow2[b - a] \in Nat
  BY <1>1, Pow2Is
<1>3. Pow2[a + (b - a)] = Pow2[a] * Pow2[b - a]
  BY <1>1, Pow2Sum
<1> QED
  BY <1>1, <1>2, <1>3

\* They grow with the exponent, faster than it.
THEOREM Pow2Grows ==
  \A a, b \in Nat : /\ a < Pow2[a]
                    /\ a <= b => Pow2[a] <= Pow2[b]
                    /\ a < b => 2 * Pow2[a] <= Pow2[b]
<1> SUFFICES ASSUME NEW a \in Nat
             PROVE  /\ a < Pow2[a]
                    /\ \A b \in Nat : /\ a <= b => Pow2[a] <= Pow2[b]
                                      /\ a < b => 2 * Pow2[a] <= Pow2[b]
  OBVIOUS
<1>1. a < Pow2[a]
  <2> DEFINE P == {n \in Nat : n < Pow2[n]}
  <2>1. P \in SUBSET Nat /\ 0 \in P
    BY Pow2Is
  <2>2. ASSUME NEW n \in P PROVE n + 1 \in P
    BY Pow2Is
  <2>3. \A n \in Nat : n \in P
    <3> HIDE DEF P
    <3> QED  BY <2>1, <2>2, SetInduction
  <2> QED  BY <2>3
<1>2. ASSUME NEW b \in Nat, a <= b PROVE Pow2[a] <= Pow2[b]
  <2> DEFINE P == {n \in Nat : Pow2[a] <= Pow2[a + n]}
  <2>1. P \in SUBSET Nat /\ 0 \in P
    BY Pow2Is
  <2>2. ASSUME NEW n \in P PROVE n + 1 \in P
    <3>1. n \in Nat /\ a + n \in Nat /\ a + (n + 1) = (a + n) + 1
      OBVIOUS
    <3>2. Pow2[a + (n + 1)] = 2 * Pow2[a + n] /\ Pow2[a + n] \in Nat /\ Pow2[a] \in Nat
      BY <3>1, Pow2Is
    <3> QED  BY <3>1, <3>2
  <2>3. \A n \in Nat : n \in P
    <3> HIDE DEF P
    <3> QED  BY <2>1, <2>2, SetInduction
  <2>4. b - a \in P /\ a + (b - a) = b
    BY <1>2, <2>3
  <2> QED  BY <2>4
<1>3. ASSUME NEW b \in Nat, a < b PROVE 2 * Pow2[a] <= Pow2[b]
  <2>1. b - 1 \in Nat /\ a <= b - 1 /\ (b - 1) + 1 = b
    BY <1>3
  <2>2. Pow2[a] <= Pow2[b - 1]
    <3> DEFINE c == b - 1
    <3>1. c \in Nat /\ a <= c
      BY <2>1
    <3> HIDE DEF c
    <3>2. Pow2[a] <= Pow2[c]
      BY <3>1, <1>2
    <3> QED  BY <3>2 DEF c
  <2>3. Pow2[b] = 2 * Pow2[b - 1] /\ Pow2[a] \in Nat /\ Pow2[b - 1] \in Nat
    BY <2>1, Pow2Is
  <2> QED  BY <2>2, <2>3
<1> QED
  BY <1>1, <1>2, <1>3

\* Log2 is the exponent of the largest power that is not above a number.
THEOREM Log2Is ==
  ASSUME NEW n \in Nat, n >= 1
  PROVE  Log2(n) \in Nat /\ Pow2[Log2(n)] <= n /\ n < Pow2[Log2(n) + 1]
<1> DEFINE P == {m \in Nat : m >= 1 => \E k \in 0..m : Pow2[k] <= m /\ m < Pow2[k + 1]}
<1>1. P \in SUBSET Nat /\ 0 \in P
  OBVIOUS
<1>2. ASSUME NEW m \in P PROVE m + 1 \in P
  <2>1. CASE m = 0
    <3>1. Pow2[0] = 1 /\ Pow2[0 + 1] = 2
      BY Pow2Is
    <3>2. 0 \in 0..(m + 1) /\ Pow2[0] <= m + 1 /\ m + 1 < Pow2[0 + 1]
      BY <2>1, <3>1
    <3> QED  BY <2>1, <3>2
  <2>2. CASE m # 0
    <3>1. PICK k \in 0..m : Pow2[k] <= m /\ m < Pow2[k + 1]
      BY <2>2
    <3>2. /\ Pow2[k] \in Nat /\ Pow2[k + 1] \in Nat
          /\ Pow2[(k + 1) + 1] = 2 * Pow2[k + 1] /\ Pow2[k + 1] >= 1
      BY Pow2Is
    <3>3. CASE m + 1 < Pow2[k + 1]
      <4>1. k \in 0..(m + 1) /\ Pow2[k] <= m + 1
        BY <3>1, <3>2
      <4> QED  BY <3>3, <4>1
    <3>4. CASE ~(m + 1 < Pow2[k + 1])
      <4>1. k + 1 \in 0..(m + 1) /\ Pow2[k + 1] <= m + 1 /\ m + 1 < Pow2[(k + 1) + 1]
        BY <3>1, <3>2, <3>4
      <4> QED  BY <4>1
    <3> QED  BY <3>3, <3>4
  <2> QED  BY <2>1, <2>2
<1>3. \A m \in Nat : m \in P
  <2> HIDE DEF P
  <2> QED  BY <1>1, <1>2, SetInduction
<1>4. \E k \in 0..n : Pow2[k] <= n /\ n < Pow2[k + 1]
  BY <1>3
<1> QED
  BY <1>4 DEF Log2

\* Each of N rounds leads from where the last one may end to where it may end itself.
Leads(N, Ends, round) == \A k \in 1..N : \A x \in Ends[k - 1] : round[<<k, x>>] \in Ends[k]

IsLoop(f, N, Ends, round, e) ==
    /\ \A k \in 0..N : f[k] \in Ends[k]
    /\ f = [k \in 0..N |-> IF k = 0 THEN e ELSE round[<<k, f[k - 1]>>]]

\* A loop of N rounds from e: the values it goes through are those of a function.
THEOREM LoopExists ==
  ASSUME NEW N \in Nat, NEW V, NEW Ends \in Maps(0..N, SUBSET V), NEW round, NEW e \in Ends[0],
         Leads(N, Ends, round)
  PROVE  \E f : IsLoop(f, N, Ends, round, e)
<1> DEFINE S == 0..N
           M == Maps(S, V)
           Guarded(y) == IF y \in V THEN y ELSE e
           At(g, k) == IF k = 0 THEN e ELSE Guarded(round[<<k, g[k - 1]>>])
           D == [g \in M |-> [k \in S |-> At(g, k)]]
           rank == [k \in S |-> k]
<1>1. \A k \in S : Ends[k] \subseteq V
  BY DEF Maps
<1>2. 0 \in S /\ e \in V
  BY <1>1
<1>3. D \in Maps(M, M)
  <2>1. \A g \in M : \A k \in S : At(g, k) \in V
    BY <1>2
  <2>2. \A g \in M : [k \in S |-> At(g, k)] \in M
    <3> HIDE DEF At
    <3> QED  BY <2>1 DEF Maps
  <2> HIDE DEF M, At
  <2> QED  BY <2>2 DEF Maps
<1>4. ASSUME NEW g \in M, NEW h \in M, NEW k \in S,
             \A l \in S : rank[l] < rank[k] => g[l] = h[l]
      PROVE  D[g][k] = D[h][k]
  <2>1. At(g, k) = At(h, k)
    <3>1. CASE k = 0
      BY <3>1
    <3>2. CASE k # 0
      <4>1. k - 1 \in S /\ k - 1 < k
        BY <3>2
      <4>2. g[k - 1] = h[k - 1]
        BY <1>4, <4>1
      <4> QED  BY <3>2, <4>2
    <3> QED  BY <3>1, <3>2
  <2> HIDE DEF M, At
  <2> QED  BY <2>1
<1>5. rank \in Maps(S, Nat) /\ M # {}
  <2>1. rank \in Maps(S, Nat)
    BY DEF Maps
  <2>2. \A k \in S : e \in V
    BY <1>2
  <2> HIDE DEF S, rank
  <2>3. [k \in S |-> e] \in M
    BY <2>2 DEF Maps
  <2> QED  BY <2>1, <2>3
<1>6. \E f \in M : D[f] = f
  <2> HIDE DEF D, rank, S
  <2> QED  BY <1>3, <1>4, <1>5, RecursiveFunctionExists
<1>7. PICK f \in M : D[f] = f
  BY <1>6
<1>8. f = [k \in S |-> At(f, k)]
  <2> HIDE DEF M, At
  <2> QED  BY <1>7
<1>9. \A k \in S : f[k] = At(f, k)
  <2> HIDE DEF At
  <2> QED  BY <1>8
<1>10. \A k \in S : f[k] \in Ends[k]
  <2> DEFINE P == {k \in Nat : k <= N => f[k] \in Ends[k]}
  <2>1. P \in SUBSET Nat /\ 0 \in P
    BY <1>2, <1>9
  <2>2. ASSUME NEW k \in P PROVE k + 1 \in P
    <3> SUFFICES ASSUME k + 1 <= N PROVE f[k + 1] \in Ends[k + 1]
      OBVIOUS
    <3>1. k + 1 \in S /\ k + 1 \in 1..N /\ k + 1 # 0 /\ (k + 1) - 1 = k /\ f[k] \in Ends[k]
      OBVIOUS
    <3> HIDE DEF P, S
    <3>2. round[<<k + 1, f[k]>>] \in Ends[k + 1]
      BY <3>1 DEF Leads
    <3>3. f[k + 1] = Guarded(round[<<k + 1, f[k]>>])
      BY <1>9, <3>1
    <3> QED  BY <1>1, <3>1, <3>2, <3>3
  <2> HIDE DEF P
  <2>3. \A k \in Nat : k \in P
    BY <2>1, <2>2, SetInduction
  <2> QED  BY <2>3 DEF P
<1>11. \A k \in S : At(f, k) = IF k = 0 THEN e ELSE round[<<k, f[k - 1]>>]
  <2> SUFFICES ASSUME NEW k \in S, k # 0 PROVE At(f, k) = round[<<k, f[k - 1]>>]
    OBVIOUS
  <2>1. k \in 1..N /\ k - 1 \in S
    OBVIOUS
  <2>2. round[<<k, f[k - 1]>>] \in Ends[k] /\ k \in S
    BY <1>10, <2>1 DEF Leads
  <2> QED  BY <1>1, <2>2
<1>12. f = [k \in S |-> IF k = 0 THEN e ELSE round[<<k, f[k - 1]>>]]
  <2>1. [k \in S |-> At(f, k)] = [k \in S |-> IF k = 0 THEN e ELSE round[<<k, f[k - 1]>>]]
    <3> HIDE DEF At
    <3> QED  BY <1>11
  <2> HIDE DEF At
  <2> QED  BY <1>8, <2>1
<1> QED
  BY <1>10, <1>12 DEF IsLoop

\* What each round keeps holds at the end.
Keeps(f, N, Ends) == \A k \in 1..N : f[k - 1] \in Ends[k - 1] => f[k] \in Ends[k]

THEOREM LoopKeeps ==
  ASSUME NEW N \in Nat, NEW Ends, NEW f, f[0] \in Ends[0], Keeps(f, N, Ends)
  PROVE  \A k \in 0..N : f[k] \in Ends[k]
<1> DEFINE P == {k \in Nat : k <= N => f[k] \in Ends[k]}
<1>1. P \in SUBSET Nat /\ 0 \in P
  OBVIOUS
<1>2. ASSUME NEW k \in P PROVE k + 1 \in P
  <2>1. ASSUME k + 1 <= N PROVE f[k + 1] \in Ends[k + 1]
    <3>1. k + 1 \in 1..N /\ (k + 1) - 1 = k /\ f[k] \in Ends[k]
      BY <2>1
    <3> QED  BY <3>1 DEF Keeps
  <2> QED  BY <2>1
<1>3. \A k \in Nat : k \in P
  <2> HIDE DEF P
  <2> QED  BY <1>1, <1>2, SetInduction
<1> QED
  BY <1>3
=============================================================================
