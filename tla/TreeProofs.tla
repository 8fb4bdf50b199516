----------------------------- MODULE TreeProofs -----------------------------
(***************************************************************************)
(* Proofs about Turnament, AvlTree and SplayTree.  Find is exact in a      *)
(* tournament tree over a range of any length and any values, after any    *)
(* sequence of changes; a search tree stays balanced and holds what a set  *)
(* would, for any integers and any sequence of inserts and erases; and a   *)
(* splay tree stays consistent while its nodes move between handles, for   *)
(* any integers and any sequence of inserts and splays.                    *)
(***************************************************************************)
EXTENDS Turnament, AvlTree, SplayTree, RecursionTheorems, FiniteSetTheorems, SequenceTheorems

-----------------------------------------------------------------------------
(* Tournament trees: the inductive invariant                               *)

\* Each inner node is the sum of its children.
Sums(d) == \A i \in 1..(length - 1) : d[i] = plus(d[2 * i], d[2 * i + 1])

TreeInv == data # <<>> => data \in [TreeNodes -> Nat] /\ Sums(data)

-----------------------------------------------------------------------------
(* Arithmetic                                                              *)

LEMMA TrailingZerosIs ==
  ASSUME NEW n \in Nat, n >= 1
  PROVE  TrailingZeros(n) \in Nat /\ n % Pow2[TrailingZeros(n)] = 0
<1> DEFINE Zeros(m) == {k \in 0..m : m % Pow2[k] = 0 /\ m % Pow2[k + 1] # 0}
           P == {m \in Nat : m >= 1 => Zeros(m) # {}}
<1>1. ASSUME NEW m \in Nat, \A l \in 0..(m - 1) : l \in P PROVE m \in P
  <2> SUFFICES ASSUME m >= 1 PROVE Zeros(m) # {}
    OBVIOUS
  <2>1. Pow2[0] = 1 /\ Pow2[0 + 1] = 2
    BY Pow2Is
  <2>2. CASE m % 2 = 1
    <3>1. m % 1 = 0
      OBVIOUS
    <3>2. 0 \in Zeros(m)
      BY <2>1, <2>2, <3>1
    <3> QED  BY <3>2
  <2>3. CASE m % 2 # 1
    <3> DEFINE h == m \div 2
    <3>1. h \in 0..(m - 1) /\ h >= 1 /\ m = 2 * h /\ h \in Nat
      BY <2>3
    <3> HIDE DEF h
    <3>2. PICK k \in 0..h : h % Pow2[k] = 0 /\ h % Pow2[k + 1] # 0
      BY <1>1, <3>1
    <3>3. ASSUME NEW p \in Nat, p >= 1 PROVE (2 * h) % (2 * p) = 2 * (h % p)
      <4> DEFINE q == h \div p
                 r == h % p
      <4>1. h = p * q + r /\ r \in 0..(p - 1) /\ q \in Nat
        BY <3>1, <3>3, Division
      <4> HIDE DEF q, r
      <4>2. 2 * h = (2 * p) * q + 2 * r /\ 2 * r \in 0..(2 * p - 1) /\ 2 * p \in Nat /\ 2 * p >= 1
        BY <3>3, <4>1
      <4>3. (2 * h) % (2 * p) = 2 * r
        BY <4>1, <4>2, Quotient
      <4> QED  BY <4>3 DEF r
    <3>4. /\ Pow2[k] \in Nat /\ Pow2[k] >= 1 /\ Pow2[k + 1] \in Nat /\ Pow2[k + 1] >= 1
          /\ Pow2[k + 1] = 2 * Pow2[k] /\ Pow2[(k + 1) + 1] = 2 * Pow2[k + 1]
      BY <3>1, Pow2Is
    <3>5. m % Pow2[k + 1] = 2 * (h % Pow2[k])
      BY <3>1, <3>3, <3>4
    <3>6. m % Pow2[(k + 1) + 1] = 2 * (h % Pow2[k + 1])
      BY <3>1, <3>3, <3>4
    <3>7. h % Pow2[k + 1] \in 0..(Pow2[k + 1] - 1)
      BY <3>1, <3>4, Division
    <3>8. k + 1 \in Zeros(m)
      BY <3>1, <3>2, <3>5, <3>6, <3>7
    <3> QED  BY <3>8
  <2> QED  BY <2>2, <2>3
<1>2. \A m \in Nat : m \in P
  <2> HIDE DEF P
  <2>1. P \in SUBSET Nat
    BY DEF P
  <2> QED  BY <1>1, <2>1, StrongSetInduction
<1>3. Zeros(n) # {}
  BY <1>2
<1>4. TrailingZeros(n) \in Zeros(n)
  BY <1>3 DEF TrailingZeros
<1> QED
  BY <1>4

\* The node that find takes is aligned to its end of the range, and within it.
LEMMA BlockIs ==
  ASSUME NEW from \in Nat, NEW size \in Nat, size >= 1
  PROVE  /\ Block(from, size) \in Nat
         /\ Pow2[Block(from, size)] <= size
         /\ \E q \in Nat : from = Pow2[Block(from, size)] * q
<1>1. Log2(size) \in Nat /\ Pow2[Log2(size)] <= size
  BY Log2Is
<1>2. CASE from = 0
  <2>1. Pow2[Log2(size)] \in Nat
    BY <1>1, Pow2Is
  <2>2. from = Pow2[Log2(size)] * 0
    BY <1>2, <2>1
  <2> QED  BY <1>1, <1>2, <2>2 DEF Block
<1>3. CASE from # 0
  <2> DEFINE z == TrailingZeros(from)
             g == Log2(size)
  <2>1. z \in Nat /\ from % Pow2[z] = 0
    BY <1>3, TrailingZerosIs
  <2>2. g \in Nat /\ Pow2[g] <= size
    BY <1>1
  <2>3. Block(from, size) = IF g < z THEN g ELSE z
    BY <1>3 DEF Block
  <2> HIDE DEF z, g
  <2>4. Pow2[z] \in Nat /\ Pow2[z] >= 1 /\ Pow2[g] \in Nat
    BY <2>1, <2>2, Pow2Is
  <2>5. from = Pow2[z] * (from \div Pow2[z]) /\ from \div Pow2[z] \in Nat
    <3> DEFINE p == Pow2[z]
               q == from \div p
    <3>1. from = p * q + (from % p) /\ q \in Nat /\ from % p = 0 /\ p \in Nat
      BY <2>1, <2>4, Division
    <3> HIDE DEF p, q
    <3>2. from = p * q
      BY <3>1
    <3> QED  BY <3>1, <3>2 DEF p, q
  <2>6. CASE g < z
    <3> DEFINE w == Pow2[z - g]
               q == from \div Pow2[z]
    <3>1. w \in Nat /\ Pow2[z] = Pow2[g] * w
      BY <2>1, <2>2, <2>6, Pow2Divides
    <3>2. from = Pow2[z] * q /\ q \in Nat
      BY <2>5
    <3> HIDE DEF w, q
    <3>3. from = Pow2[g] * (w * q) /\ w * q \in Nat
      BY <2>4, <3>1, <3>2
    <3> QED  BY <2>2, <2>3, <2>6, <3>3
  <2>7. CASE ~(g < z)
    <3>1. Pow2[z] <= Pow2[g]
      BY <2>1, <2>2, <2>7, Pow2Grows
    <3>2. Pow2[z] <= size
      BY <2>2, <2>4, <3>1
    <3> QED  BY <2>1, <2>3, <2>5, <2>7, <3>2
  <2> QED  BY <2>6, <2>7
<1> QED
  BY <1>2, <1>3

\* The length of the row of leaves is a power of two, and they fit.
LEMMA LengthIs == length \in Nat /\ length >= Leaves /\ \E h \in Nat : length = Pow2[h]
<1>1. Leaves \in Nat /\ Leaves >= 1
  BY TurnamentAssumption
<1>2. /\ Log2(Leaves) \in Nat /\ Pow2[Log2(Leaves)] <= Leaves
      /\ Leaves < Pow2[Log2(Leaves) + 1]
  BY <1>1, Log2Is
<1>3. Log2(Leaves) + 1 \in Nat /\ Pow2[Log2(Leaves) + 1] \in Nat
  BY <1>2, Pow2Is
<1>4. CASE Pow2[Log2(Leaves)] = Leaves
  BY <1>1, <1>2, <1>4 DEF length
<1>5. CASE Pow2[Log2(Leaves)] # Leaves
  BY <1>1, <1>2, <1>3, <1>5 DEF length
<1> QED
  BY <1>4, <1>5

-----------------------------------------------------------------------------
(* What a node says of the leaves under it                                 *)

\* Node i and the level p = 2^k at which its leaves are i * p .. i * p + p - 1.
Covers(i, p) == length <= i * p /\ (i + 1) * p <= 2 * length

\* A node with children covers what they cover.
LEMMA ChildrenCover ==
  ASSUME NEW i \in Nat, NEW p \in Nat, p >= 1, Covers(i, 2 * p)
  PROVE  /\ i \in 1..(length - 1)
         /\ 2 * i \in TreeNodes /\ Covers(2 * i, p)
         /\ 2 * i + 1 \in TreeNodes /\ Covers(2 * i + 1, p)
<1>1. length \in Nat /\ length >= 1
  BY LengthIs, TurnamentAssumption
<1>2. /\ i * (2 * p) = (2 * i) * p
      /\ (2 * i) * p + p = (2 * i + 1) * p
      /\ (i + 1) * (2 * p) = (2 * i + 2) * p
      /\ (2 * i + 1) * p + p = (2 * i + 2) * p
      /\ (2 * i) * p \in Nat
  BY Products
<1>3. length <= (2 * i) * p /\ (2 * i + 2) * p <= 2 * length
  BY <1>2 DEF Covers
<1>4. (2 * i + 1) + 1 = 2 * i + 2 /\ 2 * i \in Nat /\ 2 * i + 1 \in Nat /\ 2 * i + 2 \in Nat
  OBVIOUS
<1>5. Covers(2 * i, p) /\ Covers(2 * i + 1, p)
  BY <1>1, <1>2, <1>3, <1>4 DEF Covers
<1>6. 2 * i + 2 <= (2 * i + 2) * p
  BY <1>4, Products
<1>7. i + 1 <= length
  BY <1>1, <1>2, <1>3, <1>6
<1>8. i # 0
  BY <1>1, <1>2, <1>3
<1> QED
  BY <1>1, <1>5, <1>7, <1>8 DEF TreeNodes

LEMMA CoveringIsNode ==
  ASSUME NEW i \in Nat, NEW p \in Nat, p >= 1, Covers(i, p)
  PROVE  i \in TreeNodes
<1>1. length \in Nat /\ length >= 1
  BY LengthIs, TurnamentAssumption
<1>2. i + 1 <= (i + 1) * p /\ (i # 0 \/ i * p = 0)
  BY Products
<1> QED
  BY <1>1, <1>2 DEF Covers, TreeNodes

Reached(l, v) == data[l] >= v

\* l is the first (last) of the entries from .. to - 1 that satisfies the
\* predicate.
IsFound(side, from, to, v, l) ==
    /\ l \in from..(to - 1) /\ Reached(l, v)
    /\ \A m \in from..(to - 1) : Reached(m, v) => IF side = "Left" THEN l <= m ELSE m <= l

\* A node satisfies the predicate exactly if one of its leaves does.
LEMMA NodeSumsLeaves ==
  ASSUME data \in [TreeNodes -> Nat], Sums(data), NEW v \in Nat, NEW k \in Nat,
         NEW i \in Nat, Covers(i, Pow2[k])
  PROVE  Reached(i, v) <=> \E l \in (i * Pow2[k])..((i + 1) * Pow2[k] - 1) : Reached(l, v)
<1> DEFINE Claim(n, j) ==
             Reached(j, v) <=> \E l \in (j * Pow2[n])..((j + 1) * Pow2[n] - 1) : Reached(l, v)
           P == {n \in Nat : \A j \in Nat : Covers(j, Pow2[n]) => Claim(n, j)}
<1>1. P \in SUBSET Nat
  OBVIOUS
<1>2. 0 \in P
  <2>1. Pow2[0] = 1
    BY Pow2Is
  <2>2. ASSUME NEW j \in Nat PROVE Claim(0, j)
    <3>1. j * Pow2[0] = j /\ (j + 1) * Pow2[0] - 1 = j
      BY <2>1
    <3>2. (j * Pow2[0])..((j + 1) * Pow2[0] - 1) = {j}
      BY <3>1
    <3> QED  BY <3>2
  <2> QED  BY <2>2
<1>3. ASSUME NEW n \in P PROVE n + 1 \in P
  <2> DEFINE p == Pow2[n]
  <2>1. n \in Nat /\ p \in Nat /\ p >= 1 /\ Pow2[n + 1] = 2 * p
    BY Pow2Is
  <2>2. ASSUME NEW j \in Nat, Covers(j, Pow2[n + 1]) PROVE Claim(n + 1, j)
    <3>1. Covers(j, 2 * p)
      BY <2>1, <2>2
    <3>2. /\ j \in 1..(length - 1)
          /\ 2 * j \in TreeNodes /\ Covers(2 * j, p)
          /\ 2 * j + 1 \in TreeNodes /\ Covers(2 * j + 1, p)
      <4> HIDE DEF p
      <4> QED  BY <2>1, <3>1, ChildrenCover
    <3>3. Claim(n, 2 * j) /\ Claim(n, 2 * j + 1)
      <4>1. 2 * j \in Nat /\ 2 * j + 1 \in Nat
        OBVIOUS
      <4> HIDE DEF Claim
      <4> QED  BY <3>2, <4>1
    <3>4. Reached(j, v) <=> Reached(2 * j, v) \/ Reached(2 * j + 1, v)
      <4>1. data[j] = plus(data[2 * j], data[2 * j + 1])
        BY <3>2 DEF Sums
      <4>2. data[2 * j] \in Nat /\ data[2 * j + 1] \in Nat
        BY <3>2
      <4> QED  BY <4>1, <4>2 DEF plus, Reached
    <3> DEFINE lo == (2 * j) * p
               mid == (2 * j + 1) * p
               hi == (2 * j + 2) * p
    <3>5. /\ j * (2 * p) = lo /\ lo + p = mid /\ mid + p = hi /\ (j + 1) * (2 * p) = hi
          /\ lo \in Nat
      <4> HIDE DEF p
      <4> QED  BY <2>1, Products
    <3>6. ((2 * j) + 1) * p = mid /\ ((2 * j + 1) + 1) * p = hi
      <4>1. (2 * j + 1) + 1 = 2 * j + 2
        OBVIOUS
      <4> QED  BY <4>1
    <3> HIDE DEF p
    <3>7. /\ Reached(2 * j, v) <=> \E l \in lo..(mid - 1) : Reached(l, v)
          /\ Reached(2 * j + 1, v) <=> \E l \in mid..(hi - 1) : Reached(l, v)
      BY <3>3, <3>6 DEF p
    <3> HIDE DEF lo, mid, hi
    <3>8. lo..(hi - 1) = (lo..(mid - 1)) \cup (mid..(hi - 1))
      BY <2>1, <3>5
    <3>9. Reached(j, v) <=> \E l \in lo..(hi - 1) : Reached(l, v)
      BY <3>4, <3>7, <3>8
    <3>10. j * Pow2[n + 1] = lo /\ (j + 1) * Pow2[n + 1] = hi
      BY <2>1, <3>5
    <3> QED  BY <3>9, <3>10
  <2>3. n + 1 \in Nat
    BY <2>1
  <2> HIDE DEF Claim
  <2> QED  BY <2>2, <2>3
<1>4. \A n \in Nat : n \in P
  <2> HIDE DEF P
  <2> QED  BY <1>1, <1>2, <1>3, SetInduction
<1>5. Claim(k, i)
  <2> HIDE DEF Claim
  <2> QED  BY <1>4
<1> QED
  BY <1>5

-----------------------------------------------------------------------------
(* The descent                                                             *)

\* One step down from node i, where leaf[i] is what a child leads to.
DescendStep(leaf, side, v, i) ==
    IF i >= length THEN i - length
    ELSE LET near == 2 * i + (IF side = "Right" THEN 1 ELSE 0)
             far  == 2 * i + (IF side = "Right" THEN 0 ELSE 1)
         IN  leaf[IF data[near] >= v THEN near ELSE far]

\* The descent ends at a leaf.
LEMMA DescendIs ==
  ASSUME NEW side, NEW v
  PROVE  \A i \in TreeNodes : Descend(side, v)[i] = DescendStep(Descend(side, v), side, v, i)
<1>1. length \in Nat /\ length >= 1
  BY LengthIs, TurnamentAssumption
<1> DEFINE D == [f \in Maps(TreeNodes, Int) |->
                   [i \in TreeNodes |-> DescendStep(f, side, v, i)]]
           rank == [i \in TreeNodes |-> 2 * length - i]
           Near(i) == 2 * i + (IF side = "Right" THEN 1 ELSE 0)
           Far(i) == 2 * i + (IF side = "Right" THEN 0 ELSE 1)
           Next(i) == IF data[Near(i)] >= v THEN Near(i) ELSE Far(i)
<1>2. ASSUME NEW i \in TreeNodes, i < length
      PROVE  Next(i) \in TreeNodes /\ rank[Next(i)] < rank[i]
  <2>0. i \in Int
    BY DEF TreeNodes
  <2>1. Next(i) \in {2 * i, 2 * i + 1}
    <3>1. Near(i) \in {2 * i, 2 * i + 1} /\ Far(i) \in {2 * i, 2 * i + 1}
      BY <2>0
    <3> HIDE DEF Near, Far
    <3> QED  BY <3>1
  <2>2. i \in Nat /\ i >= 1 /\ 2 * i \in TreeNodes /\ 2 * i + 1 \in TreeNodes
    BY <1>1, <1>2 DEF TreeNodes
  <2>3. rank[2 * i] < rank[i] /\ rank[2 * i + 1] < rank[i]
    BY <1>1, <2>2
  <2> HIDE DEF Next, rank
  <2> QED  BY <2>1, <2>2, <2>3
<1>3. \A f : \A i \in TreeNodes :
        DescendStep(f, side, v, i) = IF i >= length THEN i - length ELSE f[Next(i)]
  BY DEF DescendStep
<1>4. D \in Maps(Maps(TreeNodes, Int), Maps(TreeNodes, Int))
  <2>1. ASSUME NEW f \in [TreeNodes -> Int], NEW i \in TreeNodes
        PROVE  DescendStep(f, side, v, i) \in Int
    <3>1. i \in Int
      BY DEF TreeNodes
    <3> HIDE DEF Next, rank
    <3>2. CASE i >= length
      BY <1>1, <1>3, <3>1, <3>2
    <3>3. CASE ~(i >= length)
      <4>1. Next(i) \in TreeNodes
        BY <1>1, <1>2, <3>1, <3>3
      <4>2. DescendStep(f, side, v, i) = f[Next(i)]
        BY <1>3, <3>3
      <4> QED  BY <4>1, <4>2
    <3> QED  BY <3>2, <3>3
  <2> QED  BY <2>1 DEF Maps
<1>5. ASSUME NEW g \in Maps(TreeNodes, Int), NEW h \in Maps(TreeNodes, Int), NEW i \in TreeNodes,
             \A t \in TreeNodes : rank[t] < rank[i] => g[t] = h[t]
      PROVE  D[g][i] = D[h][i]
  <2>1. DescendStep(g, side, v, i) = DescendStep(h, side, v, i)
    <3>1. i \in Int
      BY DEF TreeNodes
    <3>2. CASE i >= length
      BY <1>3, <3>2
    <3>3. CASE ~(i >= length)
      <4>1. Next(i) \in TreeNodes /\ rank[Next(i)] < rank[i]
        BY <1>1, <1>2, <3>1, <3>3
      <4> HIDE DEF Next, rank
      <4>2. g[Next(i)] = h[Next(i)]
        BY <1>5, <4>1
      <4> QED  BY <1>3, <3>3, <4>2
    <3> QED  BY <3>2, <3>3
  <2> QED  BY <2>1
<1>6. Maps(TreeNodes, Int) # {} /\ rank \in Maps(TreeNodes, Nat)
  <2>1. rank \in [TreeNodes -> Nat]
    BY <1>1 DEF TreeNodes
  <2>2. rank \in [TreeNodes -> Int]
    BY <2>1
  <2> HIDE DEF rank
  <2> QED  BY <2>1, <2>2 DEF Maps
<1>7. \E f \in Maps(TreeNodes, Int) : D[f] = f
  <2> HIDE DEF D, rank
  <2> QED  BY <1>4, <1>5, <1>6, RecursiveFunctionExists
<1>8. PICK f \in Maps(TreeNodes, Int) : D[f] = f
  BY <1>7
<1>9. f = [i \in TreeNodes |-> DescendStep(f, side, v, i)]
  BY <1>8
<1>10. Descend(side, v) = CHOOSE g : g = [i \in TreeNodes |-> DescendStep(g, side, v, i)]
  BY DEF Descend, DescendStep
<1>11. Descend(side, v) = [i \in TreeNodes |-> DescendStep(Descend(side, v), side, v, i)]
  BY <1>9, <1>10
<1> QED
  BY <1>11

\* From a node that satisfies the predicate the descent ends at the first (last)
\* of its leaves that does.
LEMMA DescendFinds ==
  ASSUME data \in [TreeNodes -> Nat], Sums(data), NEW side \in {"Left", "Right"}, NEW v \in Nat,
         NEW k \in Nat, NEW i \in Nat, Covers(i, Pow2[k]), Reached(i, v)
  PROVE  \E l \in Nat : /\ Descend(side, v)[i] = l - length
                        /\ IsFound(side, i * Pow2[k], (i + 1) * Pow2[k], v, l)
<1> DEFINE Claim(n, j) ==
             \E l \in Nat : /\ Descend(side, v)[j] = l - length
                            /\ IsFound(side, j * Pow2[n], (j + 1) * Pow2[n], v, l)
           P == {n \in Nat : \A j \in Nat : Covers(j, Pow2[n]) /\ Reached(j, v) => Claim(n, j)}
<1>1. P \in SUBSET Nat
  OBVIOUS
<1>0. length \in Nat /\ length >= 1
  BY LengthIs, TurnamentAssumption
<1>2. 0 \in P
  <2>1. Pow2[0] = 1
    BY Pow2Is
  <2>2. ASSUME NEW j \in Nat, Covers(j, Pow2[0]), Reached(j, v) PROVE Claim(0, j)
    <3>1. j * Pow2[0] = j /\ (j + 1) * Pow2[0] = j + 1
      BY <2>1
    <3>2. j >= length /\ j \in TreeNodes
      BY <1>0, <2>1, <2>2, <3>1, CoveringIsNode DEF Covers
    <3>3. Descend(side, v)[j] = j - length
      BY <3>2, DescendIs DEF DescendStep
    <3>4. IsFound(side, j, j + 1, v, j)
      BY <2>2 DEF IsFound
    <3> QED  BY <3>1, <3>3, <3>4
  <2> HIDE DEF Claim
  <2> QED  BY <2>2
<1>3. ASSUME NEW n \in P PROVE n + 1 \in P
  <2> DEFINE p == Pow2[n]
  <2>1. n \in Nat /\ p \in Nat /\ p >= 1 /\ Pow2[n + 1] = 2 * p /\ n + 1 \in Nat
    BY Pow2Is
  <2>2. ASSUME NEW j \in Nat, Covers(j, Pow2[n + 1]), Reached(j, v) PROVE Claim(n + 1, j)
    <3> DEFINE near == 2 * j + (IF side = "Right" THEN 1 ELSE 0)
               far  == 2 * j + (IF side = "Right" THEN 0 ELSE 1)
               next == IF data[near] >= v THEN near ELSE far
               lo == (2 * j) * p
               mid == (2 * j + 1) * p
               hi == (2 * j + 2) * p
    <3>1. /\ j \in 1..(length - 1)
          /\ 2 * j \in TreeNodes /\ Covers(2 * j, p)
          /\ 2 * j + 1 \in TreeNodes /\ Covers(2 * j + 1, p)
      <4>1. Covers(j, 2 * p)
        BY <2>1, <2>2
      <4> HIDE DEF p
      <4> QED  BY <2>1, <4>1, ChildrenCover
    <3>2. near \in {2 * j, 2 * j + 1} /\ far \in {2 * j, 2 * j + 1}
      OBVIOUS
    <3>3. near \in TreeNodes /\ far \in TreeNodes /\ near \in Nat /\ far \in Nat
          /\ Covers(near, p) /\ Covers(far, p)
      <4> HIDE DEF near, far, p
      <4> QED  BY <3>1, <3>2
    <3>4. Descend(side, v)[j] = Descend(side, v)[next]
      <4>1. j \in TreeNodes /\ ~(j >= length)
        BY <1>0, <3>1 DEF TreeNodes
      <4> QED  BY <4>1, DescendIs DEF DescendStep
    <3>5. Reached(j, v) => Reached(near, v) \/ Reached(far, v)
      <4>1. data[j] = plus(data[2 * j], data[2 * j + 1])
        BY <3>1 DEF Sums
      <4>2. data[2 * j] \in Nat /\ data[2 * j + 1] \in Nat
        BY <3>1
      <4>3. Reached(j, v) => Reached(2 * j, v) \/ Reached(2 * j + 1, v)
        BY <4>1, <4>2 DEF plus, Reached
      <4>4. CASE side = "Right"
        BY <4>3, <4>4
      <4>5. CASE side # "Right"
        BY <4>3, <4>5
      <4> QED  BY <4>4, <4>5
    <3>6. Reached(next, v) /\ next \in {near, far}
      <4> HIDE DEF near, far
      <4> QED  BY <2>2, <3>5 DEF Reached
    <3>7. Claim(n, next)
      <4>1. next \in Nat /\ Covers(next, Pow2[n])
        <5> HIDE DEF near, far, next
        <5> QED  BY <3>3, <3>6
      <4> HIDE DEF Claim, next
      <4> QED  BY <3>6, <4>1
    <3>8. PICK l \in Nat : /\ Descend(side, v)[next] = l - length
                           /\ IsFound(side, next * p, (next + 1) * p, v, l)
      BY <3>7
    <3>9. /\ j * (2 * p) = lo /\ lo + p = mid /\ mid + p = hi /\ (j + 1) * (2 * p) = hi
          /\ lo \in Nat
      <4> HIDE DEF p
      <4> QED  BY <2>1, Products
    <3>10. (2 * j + 1) + 1 = 2 * j + 2 /\ 2 * j + 0 = 2 * j
      OBVIOUS
    <3>11. near = far + 1 \/ far = near + 1
      OBVIOUS
    <3> DEFINE nearLo == near * p
               nearHi == (near + 1) * p
               farLo == far * p
               farHi == (far + 1) * p
    <3>12. IF side = "Left" THEN nearLo = lo /\ nearHi = mid /\ farLo = mid /\ farHi = hi
                            ELSE nearLo = mid /\ nearHi = hi /\ farLo = lo /\ farHi = mid
      <4>1. CASE side = "Left"
        <5>1. near = 2 * j /\ far = 2 * j + 1
          BY <4>1
        <5> HIDE DEF near, far
        <5> QED  BY <4>1, <5>1, <3>10
      <4>2. CASE side = "Right"
        <5>1. near = 2 * j + 1 /\ far = 2 * j
          BY <4>2
        <5> HIDE DEF near, far
        <5> QED  BY <4>2, <5>1, <3>10
      <4> QED  BY <4>1, <4>2
    <3>13. ~Reached(near, v) => \A m \in nearLo..(nearHi - 1) : ~Reached(m, v)
      <4>1. Reached(near, v) <=> \E m \in (near * Pow2[n])..((near + 1) * Pow2[n] - 1) : Reached(m, v)
        <5> HIDE DEF near
        <5> QED  BY <2>1, <3>3, NodeSumsLeaves
      <4> QED  BY <4>1
    <3>14. \/ IsFound(side, nearLo, nearHi, v, l)
           \/ IsFound(side, farLo, farHi, v, l) /\ \A m \in nearLo..(nearHi - 1) : ~Reached(m, v)
      <4>1. CASE data[near] >= v
        <5>1. next = near
          BY <4>1
        <5> HIDE DEF next
        <5> QED  BY <3>8, <5>1
      <4>2. CASE ~(data[near] >= v)
        <5>1. next = far /\ ~Reached(near, v)
          BY <4>2 DEF Reached
        <5> HIDE DEF next
        <5> QED  BY <3>8, <3>13, <5>1
      <4> QED  BY <4>1, <4>2
    <3> HIDE DEF nearLo, nearHi, farLo, farHi, near, far, next
    <3>15. lo < mid /\ mid < hi /\ lo \in Nat /\ mid \in Nat /\ hi \in Nat
      <4> HIDE DEF lo, mid, hi
      <4>1. p \in Nat /\ p >= 1
        BY <2>1
      <4> HIDE DEF p
      <4> QED  BY <3>9, <4>1
    <3> HIDE DEF lo, mid, hi, p
    <3>16. IsFound(side, lo, hi, v, l)
      <4>1. CASE side = "Left"
        <5>1. \/ IsFound(side, lo, mid, v, l)
              \/ IsFound(side, mid, hi, v, l) /\ \A m \in lo..(mid - 1) : ~Reached(m, v)
          BY <3>12, <3>14, <4>1
        <5>2. \A m \in lo..(hi - 1) : m \in lo..(mid - 1) \/ m \in mid..(hi - 1)
          BY <3>15
        <5>3. \A m \in lo..(mid - 1) : m \in lo..(hi - 1)
          BY <3>15
        <5>4. \A m \in mid..(hi - 1) : m \in lo..(hi - 1)
          BY <3>15
        <5>5. CASE IsFound(side, lo, mid, v, l)
          <6>1. l \in lo..(mid - 1) /\ Reached(l, v)
                /\ \A m \in lo..(mid - 1) : Reached(m, v) => l <= m
            BY <4>1, <5>5 DEF IsFound
          <6>2. \A m \in mid..(hi - 1) : l <= m
            BY <3>15, <6>1
          <6> QED  BY <4>1, <5>2, <5>3, <6>1, <6>2 DEF IsFound
        <5>6. CASE IsFound(side, mid, hi, v, l) /\ \A m \in lo..(mid - 1) : ~Reached(m, v)
          BY <4>1, <5>2, <5>4, <5>6 DEF IsFound
        <5> QED  BY <5>1, <5>5, <5>6
      <4>2. CASE side # "Left"
        <5>1. \/ IsFound(side, mid, hi, v, l)
              \/ IsFound(side, lo, mid, v, l) /\ \A m \in mid..(hi - 1) : ~Reached(m, v)
          BY <3>12, <3>14, <4>2
        <5>2. \A m \in lo..(hi - 1) : m \in lo..(mid - 1) \/ m \in mid..(hi - 1)
          BY <3>15
        <5>3. \A m \in lo..(mid - 1) : m \in lo..(hi - 1)
          BY <3>15
        <5>4. \A m \in mid..(hi - 1) : m \in lo..(hi - 1)
          BY <3>15
        <5>5. CASE IsFound(side, mid, hi, v, l)
          <6>1. l \in mid..(hi - 1) /\ Reached(l, v)
                /\ \A m \in mid..(hi - 1) : Reached(m, v) => m <= l
            BY <4>2, <5>5 DEF IsFound
          <6>2. \A m \in lo..(mid - 1) : m <= l
            BY <3>15, <6>1
          <6> QED  BY <4>2, <5>2, <5>4, <6>1, <6>2 DEF IsFound
        <5>6. CASE IsFound(side, lo, mid, v, l) /\ \A m \in mid..(hi - 1) : ~Reached(m, v)
          BY <4>2, <5>2, <5>3, <5>6 DEF IsFound
        <5> QED  BY <5>1, <5>5, <5>6
      <4> QED  BY <4>1, <4>2
    <3>17. j * Pow2[n + 1] = lo /\ (j + 1) * Pow2[n + 1] = hi
      BY <2>1, <3>9
    <3>18. Descend(side, v)[j] = l - length
      BY <3>4, <3>8
    <3> QED  BY <3>16, <3>17, <3>18
  <2> HIDE DEF Claim
  <2> QED  BY <2>1, <2>2
<1>4. \A n \in Nat : n \in P
  <2> HIDE DEF P
  <2> QED  BY <1>1, <1>2, <1>3, SetInduction
<1>5. Claim(k, i)
  <2> HIDE DEF Claim
  <2> QED  BY <1>4
<1> QED
  BY <1>5

-----------------------------------------------------------------------------
(* The search                                                              *)

\* The begin of what is left of a range, and the node that find looks at.
SearchLo(side, from, to, size) == IF side = "Left" THEN to - size ELSE from

SearchLevel(side, from, to, size) ==
    Block(IF side = "Left" THEN SearchLo(side, from, to, size)
          ELSE SearchLo(side, from, to, size) + size, size)

SearchNode(side, from, to, size) ==
    ((IF side = "Left" THEN SearchLo(side, from, to, size)
      ELSE (SearchLo(side, from, to, size) + size) - 1) + length)
    \div Pow2[SearchLevel(side, from, to, size)]

SearchStep(search, side, from, to, v, size) ==
    IF size = 0 THEN None
    ELSE IF data[SearchNode(side, from, to, size)] >= v
         THEN Descend(side, v)[SearchNode(side, from, to, size)]
         ELSE search[size - Pow2[SearchLevel(side, from, to, size)]]

\* That node covers the first (last) leaves of the range.
LEMMA SearchNodeIs ==
  ASSUME NEW side \in {"Left", "Right"}, NEW from \in Nat, NEW to \in Nat, to <= length,
         NEW size \in 1..(to - from)
  PROVE  LET lo == SearchLo(side, from, to, size)
             k  == SearchLevel(side, from, to, size)
             i  == SearchNode(side, from, to, size)
             p  == Pow2[k]
         IN  /\ k \in Nat /\ p \in 1..size /\ i \in Nat /\ Covers(i, p)
             /\ i * p = (IF side = "Left" THEN lo ELSE (lo + size) - p) + length
             /\ (i + 1) * p = i * p + p
<1> DEFINE lo == SearchLo(side, from, to, size)
           edge == IF side = "Left" THEN lo ELSE lo + size
           k == SearchLevel(side, from, to, size)
           i == SearchNode(side, from, to, size)
           p == Pow2[k]
<1>1. lo \in Nat /\ lo + size <= to /\ size \in Nat /\ size >= 1 /\ length \in Nat /\ edge \in Nat
  BY LengthIs DEF SearchLo
<1>2. k = Block(edge, size)
  BY DEF SearchLevel
<1>3. PICK q \in Nat : edge = p * q
  <2> HIDE DEF edge, k
  <2>1. edge \in Nat /\ size \in Nat /\ size >= 1
    BY <1>1
  <2>2. \E q \in Nat : edge = Pow2[Block(edge, size)] * q
    BY ONLY <2>1, BlockIs
  <2> QED  BY <1>2, <2>2
<1>4. k \in Nat /\ p <= size
  <2> HIDE DEF edge, k
  <2> QED  BY <1>1, <1>2, BlockIs
<1>5. p \in Nat /\ p >= 1
  <2> HIDE DEF k
  <2> QED  BY <1>4, Pow2Is
<1>6. PICK w \in Nat : length = p * w
  <2>1. PICK h \in Nat : length = Pow2[h]
    BY LengthIs
  <2>2. k <= h
    <3>1. ASSUME h < k PROVE FALSE
      <4>1. 2 * Pow2[h] <= p
        <5> HIDE DEF k
        <5> QED  BY <1>4, <2>1, <3>1, Pow2Grows
      <4>2. 2 * length <= p
        BY <2>1, <4>1
      <4> HIDE DEF p, lo, edge
      <4>3. p <= size /\ size <= to /\ to <= length /\ size >= 1
        BY <1>1, <1>4
      <4> QED  BY <1>1, <1>5, <4>2, <4>3
    <3> HIDE DEF k
    <3> QED  BY <1>4, <2>1, <3>1
  <2> HIDE DEF k
  <2> QED  BY <1>4, <2>1, <2>2, Pow2Divides
<1>7. (IF side = "Left" THEN lo ELSE (lo + size) - 1) + length
        = (IF side = "Left" THEN edge ELSE edge - 1) + length
  OBVIOUS
<1>8. i = ((IF side = "Left" THEN edge ELSE edge - 1) + length) \div p
  BY <1>7 DEF SearchNode
<1> HIDE DEF k, p, i
<1>9. CASE side = "Left"
  <2>1. edge = lo /\ edge + length = p * (q + w) + 0 /\ q + w \in Nat /\ 0 \in 0..(p - 1)
    BY <1>1, <1>3, <1>5, <1>6, <1>9
  <2>2. i = q + w
    <3>1. (p * (q + w) + 0) \div p = q + w
      BY ONLY <1>5, <2>1, Quotient
    <3> HIDE DEF edge
    <3> QED  BY <1>8, <1>9, <2>1, <3>1
  <2>3. i \in Nat /\ i * p = lo + length
    <3> HIDE DEF lo, edge
    <3> QED  BY <1>1, <1>5, <2>1, <2>2
  <2>4. (i + 1) * p = i * p + p
    BY <1>5, <2>3, Products
  <2>5. Covers(i, p)
    <3> HIDE DEF lo, edge
    <3> QED  BY <1>1, <1>4, <1>5, <2>3, <2>4 DEF Covers
  <2>6. p \in 1..size
    BY <1>1, <1>4, <1>5
  <2> QED  BY <1>4, <1>9, <2>3, <2>4, <2>5, <2>6 DEF p, i, k
<1>10. CASE side = "Right"
  <2>0. edge = lo + size
    BY <1>10
  <2>1. q >= 1 /\ q - 1 \in Nat
    <3>1. edge >= 1
      <4> HIDE DEF lo
      <4> QED  BY <1>1, <2>0
    <3>2. q # 0
      <4> HIDE DEF edge
      <4> QED  BY <1>3, <1>5, <3>1
    <3> QED  BY <3>2
  <2> DEFINE n == (q - 1) + w
  <2>2. (edge - 1) + length = p * n + (p - 1) /\ n \in Nat /\ p - 1 \in 0..(p - 1)
    <3> HIDE DEF edge
    <3> QED  BY <1>3, <1>5, <1>6, <2>1
  <2>3. i = n
    <3>1. (p * n + (p - 1)) \div p = n
      <4> HIDE DEF n
      <4> QED  BY ONLY <1>5, <2>2, Quotient
    <3> HIDE DEF edge, n
    <3> QED  BY <1>8, <1>10, <2>2, <3>1
  <2>4. i \in Nat /\ i * p = ((lo + size) - p) + length
    <3>1. n * p = p * n
      <4> HIDE DEF n
      <4> QED  BY <1>5, <2>2
    <3>2. p * n = (edge - p) + length
      <4> HIDE DEF edge, n
      <4> QED  BY <1>1, <1>5, <2>2
    <3> HIDE DEF edge, n, lo
    <3> QED  BY <2>0, <2>2, <2>3, <3>1, <3>2
  <2>5. (i + 1) * p = i * p + p
    BY <1>5, <2>4, Products
  <2>6. Covers(i, p)
    <3> HIDE DEF lo, edge
    <3> QED  BY <1>1, <1>4, <1>5, <2>4, <2>5 DEF Covers
  <2>7. p \in 1..size
    BY <1>1, <1>4, <1>5
  <2> QED  BY <1>4, <1>10, <2>4, <2>5, <2>6, <2>7 DEF p, i, k
<1> QED
  BY <1>9, <1>10

\* The search ends.
LEMMA SearchIs ==
  ASSUME NEW side \in {"Left", "Right"}, NEW from \in Nat, NEW to \in from..length, NEW v
  PROVE  \E search : /\ find(side, from, to, v) = search[to - from]
                     /\ \A size \in 0..(to - from) :
                          search[size] = SearchStep(search, side, from, to, v, size)
<1> DEFINE S == 0..(to - from)
           V == {None} \cup {Descend(side, v)[n] : n \in Nat}
           D == [f \in Maps(S, V) |-> [size \in S |-> SearchStep(f, side, from, to, v, size)]]
           rank == [size \in S |-> size]
<1>0. length \in Nat /\ to \in Nat /\ to <= length
  BY LengthIs
<1>1. ASSUME NEW size \in S, size # 0
      PROVE  /\ SearchNode(side, from, to, size) \in Nat
             /\ size - Pow2[SearchLevel(side, from, to, size)] \in S
             /\ size - Pow2[SearchLevel(side, from, to, size)] < size
  <2>1. size \in 1..(to - from)
    BY <1>0, <1>1
  <2>2. /\ SearchNode(side, from, to, size) \in Nat
        /\ Pow2[SearchLevel(side, from, to, size)] \in 1..size
    BY <1>0, <2>1, SearchNodeIs
  <2> QED  BY <1>0, <2>1, <2>2
<1>2. D \in Maps(Maps(S, V), Maps(S, V))
  <2>1. ASSUME NEW f \in [S -> V], NEW size \in S PROVE SearchStep(f, side, from, to, v, size) \in V
    <3>1. CASE size = 0
      BY <3>1 DEF SearchStep
    <3>2. CASE size # 0
      <4>1. f[size - Pow2[SearchLevel(side, from, to, size)]] \in V
        <5> HIDE DEF V, S
        <5> QED  BY <1>1, <3>2
      <4>2. Descend(side, v)[SearchNode(side, from, to, size)] \in V
        BY <1>1, <3>2
      <4> HIDE DEF V
      <4> QED  BY <3>2, <4>1, <4>2 DEF SearchStep
    <3> QED  BY <3>1, <3>2
  <2> HIDE DEF V, S
  <2> QED  BY <2>1 DEF Maps
<1>3. ASSUME NEW g \in Maps(S, V), NEW h \in Maps(S, V), NEW size \in S,
             \A t \in S : rank[t] < rank[size] => g[t] = h[t]
      PROVE  D[g][size] = D[h][size]
  <2>1. size # 0 => g[size - Pow2[SearchLevel(side, from, to, size)]]
                    = h[size - Pow2[SearchLevel(side, from, to, size)]]
    <3> SUFFICES ASSUME size # 0
                 PROVE  g[size - Pow2[SearchLevel(side, from, to, size)]]
                        = h[size - Pow2[SearchLevel(side, from, to, size)]]
      OBVIOUS
    <3> DEFINE t == size - Pow2[SearchLevel(side, from, to, size)]
    <3>1. t \in S /\ t < size
      BY <1>1
    <3> HIDE DEF t
    <3>2. rank[t] < rank[size]
      BY <3>1
    <3> HIDE DEF S, V, rank
    <3>3. g[t] = h[t]
      BY <1>3, <3>1, <3>2
    <3> QED  BY <3>3 DEF t
  <2>2. SearchStep(g, side, from, to, v, size) = SearchStep(h, side, from, to, v, size)
    <3> HIDE DEF S, V, rank, D
    <3> QED  BY <2>1 DEF SearchStep
  <2> HIDE DEF S, V, rank
  <2> QED  BY <2>2
<1>4. Maps(S, V) # {} /\ rank \in Maps(S, Nat)
  <2>1. [size \in S |-> None] \in [S -> V]
    OBVIOUS
  <2>2. rank \in [S -> Nat]
    OBVIOUS
  <2> HIDE DEF S, V, rank
  <2> QED  BY <2>1, <2>2 DEF Maps
<1>5. \E f \in Maps(S, V) : D[f] = f
  <2> HIDE DEF D, rank, S, V
  <2> QED  BY <1>2, <1>3, <1>4, RecursiveFunctionExists
<1>6. PICK f \in Maps(S, V) : D[f] = f
  BY <1>5
<1>7. f = [size \in S |-> SearchStep(f, side, from, to, v, size)]
  <2> HIDE DEF S, V
  <2> QED  BY <1>6
<1> DEFINE search == CHOOSE g : g = [size \in S |-> SearchStep(g, side, from, to, v, size)]
<1>8. search = [size \in S |-> SearchStep(search, side, from, to, v, size)]
  <2> HIDE DEF S
  <2> QED  BY <1>7
<1>9. find(side, from, to, v) = search[to - from]
  BY DEF find, SearchStep, SearchNode, SearchLevel, SearchLo
<1>10. \A size \in S : search[size] = SearchStep(search, side, from, to, v, size)
  <2> HIDE DEF search
  <2> QED  BY <1>8
<1> HIDE DEF search
<1> QED
  BY <1>9, <1>10

\* What the search is to give for the leaves lo .. hi - 1.
IsAnswer(side, lo, hi, v, result) ==
    \/ result = None /\ \A m \in (lo + length)..(hi + length - 1) : ~Reached(m, v)
    \/ \E l \in Nat : /\ result = l - length
                      /\ IsFound(side, lo + length, hi + length, v, l)

\* The node at the end of a range, and the rest of it, divide the range: the one
\* that was looked at first wins.
LEMMA AnswerOfParts ==
  ASSUME NEW side \in {"Left", "Right"}, NEW v, NEW lo \in Nat, NEW hi \in Nat, NEW mid \in lo..hi,
         length \in Nat, NEW result,
         LET near == IF side = "Left" THEN <<lo, mid>> ELSE <<mid, hi>>
             far  == IF side = "Left" THEN <<mid, hi>> ELSE <<lo, mid>>
         IN  \/ \E l \in Nat : /\ result = l - length
                               /\ IsFound(side, near[1] + length, near[2] + length, v, l)
             \/ /\ \A m \in (near[1] + length)..(near[2] + length - 1) : ~Reached(m, v)
                /\ IsAnswer(side, far[1], far[2], v, result)
  PROVE  IsAnswer(side, lo, hi, v, result)
<1> DEFINE A == lo + length
           B == mid + length
           C == hi + length
<1>1. A \in Nat /\ B \in A..C /\ C \in Nat
  OBVIOUS
<1>2. \A m \in A..(C - 1) : m \in A..(B - 1) \/ m \in B..(C - 1)
  BY <1>1
<1>3. \A m \in A..(B - 1) : m \in A..(C - 1)
  BY <1>1
<1>4. \A m \in B..(C - 1) : m \in A..(C - 1)
  BY <1>1
<1>5. CASE side = "Left"
  <2>1. \/ \E l \in Nat : result = l - length /\ IsFound(side, A, B, v, l)
        \/ (\A m \in A..(B - 1) : ~Reached(m, v)) /\ IsAnswer(side, mid, hi, v, result)
    BY <1>5
  <2> HIDE DEF A, B, C
  <2>2. ASSUME NEW l \in Nat, result = l - length, IsFound(side, A, B, v, l)
        PROVE  IsFound(side, A, C, v, l)
    <3>1. l \in A..(B - 1) /\ Reached(l, v)
          /\ \A m \in A..(B - 1) : Reached(m, v) => l <= m
      BY <1>5, <2>2 DEF IsFound
    <3>2. \A m \in B..(C - 1) : l <= m
      BY <1>1, <3>1
    <3> QED  BY <1>2, <1>3, <1>5, <3>1, <3>2 DEF IsFound
  <2>3. ASSUME \A m \in A..(B - 1) : ~Reached(m, v), NEW l \in Nat, IsFound(side, B, C, v, l)
        PROVE  IsFound(side, A, C, v, l)
    BY <1>2, <1>4, <1>5, <2>3 DEF IsFound
  <2>4. ASSUME \A m \in A..(B - 1) : ~Reached(m, v), \A m \in B..(C - 1) : ~Reached(m, v)
        PROVE  \A m \in A..(C - 1) : ~Reached(m, v)
    BY <1>2, <2>4
  <2> QED  BY <2>1, <2>2, <2>3, <2>4 DEF IsAnswer, A, B, C
<1>6. CASE side = "Right"
  <2>0. side # "Left"
    BY <1>6
  <2>1. \/ \E l \in Nat : result = l - length /\ IsFound(side, B, C, v, l)
        \/ (\A m \in B..(C - 1) : ~Reached(m, v)) /\ IsAnswer(side, lo, mid, v, result)
    BY <2>0
  <2> HIDE DEF A, B, C
  <2>2. ASSUME NEW l \in Nat, result = l - length, IsFound(side, B, C, v, l)
        PROVE  IsFound(side, A, C, v, l)
    <3>1. l \in B..(C - 1) /\ Reached(l, v)
          /\ \A m \in B..(C - 1) : Reached(m, v) => m <= l
      BY <2>0, <2>2 DEF IsFound
    <3>2. \A m \in A..(B - 1) : m <= l
      BY <1>1, <3>1
    <3> QED  BY <1>2, <1>4, <2>0, <3>1, <3>2 DEF IsFound
  <2>3. ASSUME \A m \in B..(C - 1) : ~Reached(m, v), NEW l \in Nat, IsFound(side, A, B, v, l)
        PROVE  IsFound(side, A, C, v, l)
    BY <1>2, <1>3, <2>0, <2>3 DEF IsFound
  <2>4. ASSUME \A m \in B..(C - 1) : ~Reached(m, v), \A m \in A..(B - 1) : ~Reached(m, v)
        PROVE  \A m \in A..(C - 1) : ~Reached(m, v)
    BY <1>2, <2>4
  <2> QED  BY <2>1, <2>2, <2>3, <2>4 DEF IsAnswer, A, B, C
<1> QED
  BY <1>5, <1>6

\* Whatever is left of the range, the search answers for it.
LEMMA FindAnswers ==
  ASSUME data \in [TreeNodes -> Nat], Sums(data), NEW side \in {"Left", "Right"}, NEW v \in Nat,
         NEW from \in Nat, NEW to \in from..length
  PROVE  IsAnswer(side, from, to, v, find(side, from, to, v))
<1>0. length \in Nat /\ to \in Nat /\ to <= length
  BY LengthIs
<1>1. PICK search : /\ find(side, from, to, v) = search[to - from]
                    /\ \A size \in 0..(to - from) :
                         search[size] = SearchStep(search, side, from, to, v, size)
  BY SearchIs
<1> DEFINE Lo(n) == SearchLo(side, from, to, n)
           Claim(n) == IsAnswer(side, Lo(n), Lo(n) + n, v, search[n])
           P == {n \in Nat : n <= to - from => Claim(n)}
<1>2. ASSUME NEW n \in Nat, \A m \in 0..(n - 1) : m \in P PROVE n \in P
  <2> SUFFICES ASSUME n <= to - from PROVE Claim(n)
    OBVIOUS
  <2>1. n \in 0..(to - from) /\ Lo(n) \in Nat
    BY <1>0 DEF SearchLo
  <2>2. search[n] = SearchStep(search, side, from, to, v, n)
    BY <1>1, <2>1
  <2>3. CASE n = 0
    <3>1. search[n] = None
      BY <2>2, <2>3 DEF SearchStep
    <3>2. (Lo(n) + length)..((Lo(n) + n) + length - 1) = {}
      <4> HIDE DEF Lo
      <4> QED  BY <1>0, <2>1, <2>3
    <3> HIDE DEF Lo
    <3> QED  BY <3>1, <3>2 DEF IsAnswer
  <2>4. CASE n # 0
    <3> DEFINE lo == Lo(n)
               hi == lo + n
               k == SearchLevel(side, from, to, n)
               i == SearchNode(side, from, to, n)
               p == Pow2[k]
               mid == IF side = "Left" THEN lo + p ELSE hi - p
    <3>1. /\ k \in Nat /\ p \in 1..n /\ i \in Nat /\ Covers(i, p)
          /\ i * p = (IF side = "Left" THEN lo ELSE hi - p) + length
          /\ (i + 1) * p = i * p + p
      <4>1. n \in 1..(to - from)
        BY <2>1, <2>4
      <4> QED  BY <1>0, <4>1, SearchNodeIs
    <3>2. search[n] = IF Reached(i, v) THEN Descend(side, v)[i] ELSE search[n - p]
      BY <2>2, <2>4 DEF SearchStep, Reached
    <3>3. lo \in Nat /\ hi \in Nat /\ mid \in lo..hi
      <4>1. lo \in Nat
        BY <2>1
      <4> HIDE DEF lo, p
      <4> QED  BY <3>1, <4>1
    <3>4. IF side = "Left" THEN i * p = lo + length /\ (i + 1) * p = mid + length
                           ELSE i * p = mid + length /\ (i + 1) * p = hi + length
      <4>1. lo \in Nat
        BY <2>1
      <4> HIDE DEF lo, p, i
      <4>2. CASE side = "Left"
        BY <1>0, <3>1, <4>1, <4>2
      <4>3. CASE side = "Right"
        BY <1>0, <3>1, <4>1, <4>3
      <4> QED  BY <4>2, <4>3
    <3>5. CASE Reached(i, v)
      <4>1. PICK l \in Nat : /\ Descend(side, v)[i] = l - length
                             /\ IsFound(side, i * p, (i + 1) * p, v, l)
        <5> HIDE DEF k, i
        <5> QED  BY <3>1, <3>5, DescendFinds
      <4>2. search[n] = l - length
        BY <3>2, <3>5, <4>1
      <4> HIDE DEF lo, hi, mid, i, p
      <4>3. CASE side = "Left"
        <5>1. IsFound(side, lo + length, mid + length, v, l)
          BY <3>4, <4>1, <4>3
        <5> QED  BY <1>0, <3>3, <4>2, <4>3, <5>1, AnswerOfParts DEF hi, lo
      <4>4. CASE side = "Right"
        <5>1. IsFound(side, mid + length, hi + length, v, l)
          BY <3>4, <4>1, <4>4
        <5> QED  BY <1>0, <3>3, <4>2, <4>4, <5>1, AnswerOfParts DEF hi, lo
      <4> QED  BY <4>3, <4>4
    <3>6. CASE ~Reached(i, v)
      <4>1. \A m \in (i * p)..((i + 1) * p - 1) : ~Reached(m, v)
        <5>1. Reached(i, v) <=> \E m \in (i * p)..((i + 1) * p - 1) : Reached(m, v)
          <6> HIDE DEF k, i
          <6> QED  BY <3>1, NodeSumsLeaves
        <5> HIDE DEF i, p
        <5> QED  BY <3>6, <5>1
      <4>2. search[n] = search[n - p]
        BY <3>2, <3>6
      <4>3. Claim(n - p)
        <5>1. n - p \in 0..(n - 1) /\ n - p <= to - from
          <6> HIDE DEF p
          <6> QED  BY <2>1, <3>1, <1>0
        <5> HIDE DEF Claim, p
        <5> QED  BY <1>2, <5>1
      <4>4. /\ side = "Left" => Lo(n - p) = mid /\ Lo(n - p) + (n - p) = hi
            /\ side = "Right" => Lo(n - p) = lo /\ Lo(n - p) + (n - p) = mid
        <5>1. p \in Int
          BY <3>1
        <5> HIDE DEF p
        <5> QED  BY <1>0, <2>1, <5>1 DEF SearchLo
      <4>5. /\ side = "Left" => IsAnswer(side, mid, hi, v, search[n])
            /\ side = "Right" => IsAnswer(side, lo, mid, v, search[n])
        <5> HIDE DEF lo, hi, mid, p, Lo
        <5> QED  BY <4>2, <4>3, <4>4
      <4> HIDE DEF lo, hi, mid, i, p
      <4>6. CASE side = "Left"
        <5>0. i * p = lo + length /\ (i + 1) * p = mid + length
          BY <3>4, <4>6
        <5>1. \A m \in (lo + length)..(mid + length - 1) : ~Reached(m, v)
          <6>1. (i * p)..((i + 1) * p - 1) = (lo + length)..(mid + length - 1)
            BY <1>0, <3>3, <5>0
          <6> HIDE DEF k
          <6> QED  BY <4>1, <6>1
        <5> QED  BY <1>0, <3>3, <4>5, <4>6, <5>1, AnswerOfParts DEF hi, lo
      <4>7. CASE side = "Right"
        <5>0. i * p = mid + length /\ (i + 1) * p = hi + length
          BY <3>4, <4>7
        <5>1. \A m \in (mid + length)..(hi + length - 1) : ~Reached(m, v)
          <6>1. (i * p)..((i + 1) * p - 1) = (mid + length)..(hi + length - 1)
            BY <1>0, <3>3, <5>0
          <6> HIDE DEF k
          <6> QED  BY <4>1, <6>1
        <5> QED  BY <1>0, <3>3, <4>5, <4>7, <5>1, AnswerOfParts DEF hi, lo
      <4> QED  BY <4>6, <4>7
    <3> QED  BY <3>5, <3>6
  <2> QED  BY <2>3, <2>4
<1>3. \A n \in Nat : n \in P
  <2> HIDE DEF P
  <2>1. P \in SUBSET Nat
    BY DEF P
  <2> QED  BY <1>2, <2>1, StrongSetInduction
<1>4. to - from \in Nat /\ Claim(to - from)
  <2>1. to - from \in Nat /\ to - from <= to - from
    BY <1>0
  <2> HIDE DEF Claim
  <2> QED  BY <1>3, <2>1
<1>5. Lo(to - from) = from /\ Lo(to - from) + (to - from) = to
  BY <1>0 DEF SearchLo
<1> HIDE DEF Lo
<1> QED
  BY <1>1, <1>4, <1>5

-----------------------------------------------------------------------------
(* The sums that a tree is built from and that a change renews             *)

\* Nodes of a set are computed from their children, the others are given.
SumStep(f, inner, given, i) == IF i \in inner THEN plus(f[2 * i], f[2 * i + 1]) ELSE given[i]

LEMMA InnerIs ==
  ASSUME NEW i \in 1..(length - 1)
  PROVE  i \in Nat /\ 2 * i \in TreeNodes /\ 2 * i + 1 \in TreeNodes /\ i \in TreeNodes
<1>1. length \in Nat
  BY LengthIs
<1> QED
  BY <1>1 DEF TreeNodes

LEMMA SumsExist ==
  ASSUME NEW inner \in SUBSET (1..(length - 1)), NEW given \in [TreeNodes -> Nat]
  PROVE  \E f : f = [i \in TreeNodes |-> SumStep(f, inner, given, i)]
<1> DEFINE D == [f \in Maps(TreeNodes, Nat) |->
                   [i \in TreeNodes |-> SumStep(f, inner, given, i)]]
           rank == [i \in TreeNodes |-> 2 * length - i]
<1>1. length \in Nat
  BY LengthIs
<1>2. D \in Maps(Maps(TreeNodes, Nat), Maps(TreeNodes, Nat))
  <2>1. ASSUME NEW f \in [TreeNodes -> Nat], NEW i \in TreeNodes
        PROVE  SumStep(f, inner, given, i) \in Nat
    <3>1. CASE i \in inner
      <4>1. f[2 * i] \in Nat /\ f[2 * i + 1] \in Nat
        BY <3>1, InnerIs
      <4> QED  BY <3>1, <4>1 DEF SumStep, plus
    <3>2. CASE i \notin inner
      BY <3>2 DEF SumStep
    <3> QED  BY <3>1, <3>2
  <2> QED  BY <2>1 DEF Maps
<1>3. ASSUME NEW g \in Maps(TreeNodes, Nat), NEW h \in Maps(TreeNodes, Nat), NEW i \in TreeNodes,
             \A t \in TreeNodes : rank[t] < rank[i] => g[t] = h[t]
      PROVE  D[g][i] = D[h][i]
  <2>1. SumStep(g, inner, given, i) = SumStep(h, inner, given, i)
    <3>1. CASE i \in inner
      <4>1. i \in Nat /\ i >= 1 /\ 2 * i \in TreeNodes /\ 2 * i + 1 \in TreeNodes
        BY <3>1, InnerIs
      <4>2. rank[2 * i] < rank[i] /\ rank[2 * i + 1] < rank[i]
        BY <1>1, <4>1
      <4> HIDE DEF rank
      <4>3. g[2 * i] = h[2 * i] /\ g[2 * i + 1] = h[2 * i + 1]
        BY <1>3, <4>1, <4>2
      <4> QED  BY <3>1, <4>3 DEF SumStep
    <3>2. CASE i \notin inner
      BY <3>2 DEF SumStep
    <3> QED  BY <3>1, <3>2
  <2> QED  BY <2>1
<1>4. Maps(TreeNodes, Nat) # {} /\ rank \in Maps(TreeNodes, Nat)
  <2>1. rank \in [TreeNodes -> Nat]
    BY <1>1 DEF TreeNodes
  <2> HIDE DEF rank
  <2> QED  BY <2>1 DEF Maps
<1>5. \E f \in Maps(TreeNodes, Nat) : D[f] = f
  <2> HIDE DEF D, rank
  <2> QED  BY <1>2, <1>3, <1>4, RecursiveFunctionExists
<1>6. PICK f \in Maps(TreeNodes, Nat) : D[f] = f
  BY <1>5
<1>7. f = [i \in TreeNodes |-> SumStep(f, inner, given, i)]
  BY <1>6
<1> QED
  BY <1>7

\* A sum is computed for every node.
LEMMA SumsAreTyped ==
  ASSUME NEW inner \in SUBSET (1..(length - 1)), NEW given \in [TreeNodes -> Nat], NEW f,
         f = [i \in TreeNodes |-> SumStep(f, inner, given, i)]
  PROVE  f \in [TreeNodes -> Nat]
<1>1. length \in Nat
  BY LengthIs
<1>2. \A i \in TreeNodes : f[i] = SumStep(f, inner, given, i)
  BY Zenon
<1> DEFINE P == {n \in Nat : \A i \in TreeNodes : 2 * length - i = n => f[i] \in Nat}
<1>3. ASSUME NEW n \in Nat, \A m \in 0..(n - 1) : m \in P PROVE n \in P
  <2>1. ASSUME NEW i \in TreeNodes, 2 * length - i = n PROVE f[i] \in Nat
    <3>1. CASE i \in inner
      <4>1. i \in Nat /\ i >= 1 /\ 2 * i \in TreeNodes /\ 2 * i + 1 \in TreeNodes
        BY <3>1, InnerIs
      <4>2. \A j \in TreeNodes : 2 * length - j \in Nat
        BY <1>1 DEF TreeNodes
      <4>3. 2 * length - 2 * i \in 0..(n - 1) /\ 2 * length - (2 * i + 1) \in 0..(n - 1)
        BY <1>1, <2>1, <4>1, <4>2
      <4>4. f[2 * i] \in Nat /\ f[2 * i + 1] \in Nat
        BY <1>3, <4>1, <4>3
      <4>5. f[i] = plus(f[2 * i], f[2 * i + 1])
        BY <1>2, <3>1 DEF SumStep
      <4> QED  BY <4>4, <4>5 DEF plus
    <3>2. CASE i \notin inner
      BY <1>2, <3>2 DEF SumStep
    <3> QED  BY <3>1, <3>2
  <2> QED  BY <2>1
<1>4. \A n \in Nat : n \in P
  <2> HIDE DEF P
  <2>1. P \in SUBSET Nat
    BY DEF P
  <2> QED  BY <1>3, <2>1, StrongSetInduction
<1>5. \A i \in TreeNodes : f[i] \in Nat
  <2>1. \A i \in TreeNodes : 2 * length - i \in Nat
    BY <1>1 DEF TreeNodes
  <2> QED  BY <1>4, <2>1
<1>6. f = [i \in TreeNodes |-> f[i]]
  BY Zenon
<1> QED
  BY <1>5, <1>6

\* What Construct computes: every inner node is a sum.
NodeStep(f, range, i) ==
    IF i < length THEN plus(f[2 * i], f[2 * i + 1])
    ELSE IF i - length < Leaves THEN range[i - length] ELSE 0

LEMMA ConstructSums ==
  ASSUME NEW range \in [0..(Leaves - 1) -> Values], Construct(range)
  PROVE  data' \in [TreeNodes -> Nat] /\ Sums(data')
<1> DEFINE inner == 1..(length - 1)
           given == [i \in TreeNodes |->
                       IF i >= length /\ i - length < Leaves THEN range[i - length] ELSE 0]
<1>0. length \in Nat
  BY LengthIs
<1>1. given \in [TreeNodes -> Nat]
  <2>1. ASSUME NEW i \in TreeNodes, i >= length, i - length < Leaves PROVE range[i - length] \in Nat
    <3>1. i - length \in 0..(Leaves - 1)
      BY <1>0, <2>1, TurnamentAssumption DEF TreeNodes
    <3> QED  BY <3>1, TurnamentAssumption
  <2> QED  BY <2>1
<1>2. ASSUME NEW f, NEW i \in TreeNodes
      PROVE  NodeStep(f, range, i) = SumStep(f, inner, given, i)
  <2>1. i \in inner <=> i < length
    BY <1>0 DEF TreeNodes
  <2>2. i < length <=> ~(i >= length)
    BY <1>0 DEF TreeNodes
  <2>3. given[i] = IF i >= length /\ i - length < Leaves THEN range[i - length] ELSE 0
    OBVIOUS
  <2> HIDE DEF inner, given
  <2> QED  BY <2>1, <2>2, <2>3 DEF NodeStep, SumStep
<1> HIDE DEF given
<1>3. PICK f : f = [i \in TreeNodes |-> SumStep(f, inner, given, i)]
  BY <1>1, SumsExist
<1>4. f = [i \in TreeNodes |-> NodeStep(f, range, i)]
  <2> HIDE DEF inner
  <2> QED  BY <1>2, <1>3
<1>5. data' = CHOOSE g : g = [i \in TreeNodes |-> NodeStep(g, range, i)]
  BY DEF Construct, NodeStep
<1> DEFINE d == CHOOSE g : g = [i \in TreeNodes |-> NodeStep(g, range, i)]
<1>6. d = [i \in TreeNodes |-> NodeStep(d, range, i)]
  BY <1>4
<1> HIDE DEF d
<1>7. d = [i \in TreeNodes |-> SumStep(d, inner, given, i)]
  <2> HIDE DEF inner
  <2> QED  BY <1>2, <1>6
<1>8. d \in [TreeNodes -> Nat]
  BY <1>1, <1>7, SumsAreTyped
<1>9. Sums(d)
  <2>1. ASSUME NEW i \in 1..(length - 1) PROVE d[i] = plus(d[2 * i], d[2 * i + 1])
    <3>1. i \in TreeNodes
      BY InnerIs
    <3>2. d[i] = SumStep(d, inner, given, i)
      BY <1>7, <3>1
    <3> QED  BY <3>2 DEF SumStep
  <2> QED  BY <2>1 DEF Sums
<1>10. data' = d
  BY <1>5 DEF d
<1> QED
  BY <1>8, <1>9, <1>10

\* The nodes that set renews: a leaf and those above it.
Path(leaf) == {leaf \div Pow2[k] : k \in 0..Log2(leaf)}

LEMMA PathIs ==
  ASSUME NEW leaf \in Nat, leaf >= length, leaf < 2 * length
  PROVE  /\ leaf \in Path(leaf)
         /\ Path(leaf) \ {leaf} \subseteq 1..(length - 1)
         /\ \A i \in 1..(length - 1) : 2 * i \in Path(leaf) \/ 2 * i + 1 \in Path(leaf) => i \in Path(leaf)
<1>1. length \in Nat /\ length >= 1 /\ leaf >= 1
  BY LengthIs, TurnamentAssumption
<1>2. Log2(leaf) \in Nat /\ Pow2[Log2(leaf)] <= leaf /\ leaf < Pow2[Log2(leaf) + 1]
  BY <1>1, Log2Is
<1>3. leaf \in Path(leaf)
  <2>1. Pow2[0] = 1 /\ leaf \div 1 = leaf /\ 0 \in 0..Log2(leaf)
    BY <1>2, Pow2Is, Halving
  <2>2. leaf \div Pow2[0] = leaf
    BY <2>1
  <2> QED  BY <2>1, <2>2 DEF Path
<1>4. ASSUME NEW k \in 0..Log2(leaf), leaf \div Pow2[k] # leaf
      PROVE  leaf \div Pow2[k] \in 1..(length - 1)
  <2> DEFINE p == Pow2[k]
             g == Pow2[Log2(leaf)]
  <2>1. p \in Nat /\ p >= 1 /\ p <= leaf
    <3>1. k \in Nat /\ k <= Log2(leaf) /\ Log2(leaf) \in Nat
      BY <1>2
    <3>2. p <= g /\ p \in Nat /\ p >= 1 /\ g \in Nat
      BY <3>1, Pow2Grows, Pow2Is
    <3>3. g <= leaf
      BY <1>2
    <3> HIDE DEF p, g
    <3> QED  BY <3>2, <3>3
  <2>2. leaf \div p \in Nat /\ leaf \div p >= 1
    <3> HIDE DEF p
    <3> QED  BY <2>1, Halving
  <2>3. p # 1
    <3> HIDE DEF p
    <3>1. leaf \div 1 = leaf
      BY Halving
    <3> QED  BY <1>4, <3>1 DEF p
  <2> DEFINE q == leaf \div p
             r == leaf % p
  <2>4. leaf = p * q + r /\ r \in 0..(p - 1) /\ q \in Nat
    <3> HIDE DEF p
    <3> QED  BY <2>1, Division
  <2> HIDE DEF p, q, r
  <2>5. 2 * q <= p * q
    <3>1. p - 2 \in Nat
      BY <2>1, <2>3
    <3>2. (p - 2) * q \in Nat
      BY <2>4, <3>1
    <3>3. (p - 2) * q = p * q - 2 * q
      BY <2>1, <2>4
    <3> QED  BY <2>1, <2>4, <3>2, <3>3
  <2>6. q < length
    <3>1. p * q \in Nat /\ r \in Nat
      BY <2>1, <2>4
    <3>2. 2 * q <= leaf
      BY <2>4, <2>5, <3>1
    <3> QED  BY <1>1, <2>4, <3>2
  <2> QED  BY <1>1, <2>2, <2>6 DEF p, q
<1>5. ASSUME NEW i \in 1..(length - 1), NEW c \in {2 * i, 2 * i + 1}, c \in Path(leaf)
      PROVE  i \in Path(leaf)
  <2>1. i \in Nat /\ i >= 1 /\ c \in Nat /\ c \div 2 = i
    <3>1. i \in Nat /\ i >= 1
      BY <1>1
    <3>2. (2 * i) \div 2 = i /\ (2 * i + 1) \div 2 = i /\ c \in Nat
      BY <3>1
    <3> QED  BY <3>1, <3>2
  <2>2. PICK k \in 0..Log2(leaf) : c = leaf \div Pow2[k]
    BY <1>5 DEF Path
  <2> DEFINE p == Pow2[k]
  <2>3. k \in Nat /\ p \in Nat /\ p >= 1 /\ Pow2[k + 1] = 2 * p
    BY <1>2, Pow2Is
  <2>4. i = leaf \div (2 * p)
    <3>1. c = leaf \div p
      BY <2>2
    <3> HIDE DEF p
    <3> QED  BY <2>1, <2>3, <3>1, Halving
  <2>5. 2 * p <= leaf
    <3> HIDE DEF p
    <3>1. 2 * p \in Nat /\ 2 * p >= 1 /\ leaf \div (2 * p) >= 1
      BY <2>1, <2>3, <2>4
    <3> QED  BY <3>1, Halving
  <2>6. k # Log2(leaf)
    BY <1>2, <2>3, <2>5
  <2>7. k + 1 \in 0..Log2(leaf) /\ i = leaf \div Pow2[k + 1]
    BY <1>2, <2>3, <2>4, <2>6
  <2> QED  BY <2>7 DEF Path
<1>6. Path(leaf) \ {leaf} \subseteq 1..(length - 1)
  BY <1>4 DEF Path
<1> QED
  BY <1>3, <1>5, <1>6

\* What set computes: sums on the path, the rest as it was.
SetStep(f, leaf, value, i) ==
    IF i = leaf THEN value
    ELSE IF i \in Path(leaf) THEN plus(f[2 * i], f[2 * i + 1])
    ELSE data[i]

LEMMA SetSums ==
  ASSUME data \in [TreeNodes -> Nat], Sums(data), NEW pos \in 0..(Leaves - 1), NEW value \in Values,
         set(pos, value)
  PROVE  data' \in [TreeNodes -> Nat] /\ Sums(data')
<1> DEFINE leaf == pos + length
           inner == Path(leaf) \ {leaf}
           given == [i \in TreeNodes |-> IF i = leaf THEN value ELSE data[i]]
<1>0. length \in Nat /\ length >= Leaves /\ Leaves \in Nat
  BY LengthIs, TurnamentAssumption
<1>1. leaf \in Nat /\ leaf >= length /\ leaf < 2 * length
  BY <1>0
<1>2. given \in [TreeNodes -> Nat]
  BY TurnamentAssumption
<1>3. data' = CHOOSE g : g = [i \in TreeNodes |-> SetStep(g, leaf, value, i)]
  BY DEF set, SetStep, Path
<1> HIDE DEF leaf
<1>4. /\ leaf \in Path(leaf)
      /\ inner \subseteq 1..(length - 1)
      /\ \A i \in 1..(length - 1) : 2 * i \in Path(leaf) \/ 2 * i + 1 \in Path(leaf) => i \in Path(leaf)
  BY <1>1, PathIs
<1>5. ASSUME NEW f, NEW i \in TreeNodes
      PROVE  SetStep(f, leaf, value, i) = SumStep(f, inner, given, i)
  <2>1. i \in inner <=> i \in Path(leaf) /\ i # leaf
    OBVIOUS
  <2>2. given[i] = IF i = leaf THEN value ELSE data[i]
    OBVIOUS
  <2> HIDE DEF inner, given
  <2> QED  BY <2>1, <2>2 DEF SetStep, SumStep
<1> HIDE DEF given, inner
<1>6. PICK f : f = [i \in TreeNodes |-> SumStep(f, inner, given, i)]
  BY <1>2, <1>4, SumsExist
<1>7. f = [i \in TreeNodes |-> SetStep(f, leaf, value, i)]
  BY <1>5, <1>6
<1> DEFINE d == CHOOSE g : g = [i \in TreeNodes |-> SetStep(g, leaf, value, i)]
<1>8. d = [i \in TreeNodes |-> SetStep(d, leaf, value, i)]
  BY <1>7
<1> HIDE DEF d
<1>9. d = [i \in TreeNodes |-> SumStep(d, inner, given, i)]
  BY <1>5, <1>8
<1>10. d \in [TreeNodes -> Nat]
  BY <1>2, <1>4, <1>9, SumsAreTyped
<1>11. \A i \in TreeNodes : d[i] = SetStep(d, leaf, value, i)
  BY <1>8, Zenon
<1>12. Sums(d)
  <2>1. ASSUME NEW i \in 1..(length - 1) PROVE d[i] = plus(d[2 * i], d[2 * i + 1])
    <3>1. i \in TreeNodes /\ 2 * i \in TreeNodes /\ 2 * i + 1 \in TreeNodes
      BY InnerIs
    <3>2. i # leaf
      BY <1>0, <1>1
    <3>3. CASE i \in Path(leaf)
      BY <1>11, <3>1, <3>2, <3>3 DEF SetStep
    <3>4. CASE i \notin Path(leaf)
      <4>1. 2 * i \notin Path(leaf) /\ 2 * i + 1 \notin Path(leaf)
        BY <1>4, <3>4
      <4>2. 2 * i # leaf /\ 2 * i + 1 # leaf
        BY <1>4, <4>1
      <4>3. d[i] = data[i]
        BY <1>11, <3>1, <3>2, <3>4 DEF SetStep
      <4>4. d[2 * i] = data[2 * i]
        BY <1>11, <3>1, <4>1, <4>2 DEF SetStep
      <4>5. d[2 * i + 1] = data[2 * i + 1]
        BY <1>11, <3>1, <4>1, <4>2 DEF SetStep
      <4> QED  BY <4>3, <4>4, <4>5 DEF Sums
    <3> QED  BY <3>3, <3>4
  <2> QED  BY <2>1 DEF Sums
<1>13. data' = d
  BY <1>3 DEF d
<1> QED
  BY <1>10, <1>12, <1>13

-----------------------------------------------------------------------------
(* The theorems                                                            *)

LEMMA TreeInit == TurnamentInit => TreeInv
BY DEF TurnamentInit, TreeInv

LEMMA TreeStep == TreeInv /\ [TurnamentNext]_data => TreeInv'
<1> SUFFICES ASSUME TreeInv, [TurnamentNext]_data PROVE TreeInv'
  OBVIOUS
<1>1. ASSUME NEW range \in [0..(Leaves - 1) -> Values], Construct(range) PROVE TreeInv'
  BY <1>1, ConstructSums DEF TreeInv, Sums, TreeNodes
<1>2. ASSUME NEW pos \in 0..(Leaves - 1), NEW value \in Values, set(pos, value) PROVE TreeInv'
  <2>1. data \in [TreeNodes -> Nat] /\ Sums(data)
    BY <1>2 DEF TreeInv, set
  <2> QED  BY <1>2, <2>1, SetSums DEF TreeInv, Sums, TreeNodes
<1>3. CASE UNCHANGED data
  BY <1>3 DEF TreeInv, Sums, TreeNodes
<1> QED
  BY <1>1, <1>2, <1>3 DEF TurnamentNext

\* Nodes that are sums make find exact.
LEMMA SumsMakeFindExact == TreeInv => FindIsExact
<1> SUFFICES ASSUME TreeInv, data # <<>>,
                    NEW lo \in 0..Leaves, NEW hi \in lo..Leaves, NEW v \in Values
             PROVE  LET found == {i \in lo..(hi - 1) : data[i + length] >= v}
                    IN  /\ find("Left", lo, hi, v) = IF found = {} THEN None ELSE Min(found)
                        /\ find("Right", lo, hi, v) = IF found = {} THEN None ELSE Max(found)
  BY DEF FindIsExact
<1> DEFINE found == {i \in lo..(hi - 1) : data[i + length] >= v}
<1>1. length \in Nat /\ length >= Leaves /\ Leaves \in Nat
  BY LengthIs, TurnamentAssumption
<1>2. lo \in Nat /\ hi \in lo..length /\ hi \in Nat /\ v \in Nat
  BY <1>1, TurnamentAssumption
<1>3. data \in [TreeNodes -> Nat] /\ Sums(data)
  BY DEF TreeInv
<1>4. ASSUME NEW side \in {"Left", "Right"}
      PROVE  IsAnswer(side, lo, hi, v, find(side, lo, hi, v))
  BY <1>2, <1>3, FindAnswers
<1>5. \A i : i \in found <=> i \in lo..(hi - 1) /\ Reached(i + length, v)
  BY DEF Reached
<1> HIDE DEF found
<1>6. ASSUME NEW side \in {"Left", "Right"}, \A m \in (lo + length)..(hi + length - 1) : ~Reached(m, v)
      PROVE  found = {}
  <2>1. \A i \in lo..(hi - 1) : i + length \in (lo + length)..(hi + length - 1)
    BY <1>1, <1>2
  <2> QED  BY <1>5, <1>6, <2>1
<1>7. ASSUME NEW side \in {"Left", "Right"}, NEW l \in Nat,
             IsFound(side, lo + length, hi + length, v, l)
      PROVE  /\ l - length \in found
             /\ \A i \in found : IF side = "Left" THEN l - length <= i ELSE i <= l - length
  <2>1. /\ l \in (lo + length)..(hi + length - 1) /\ Reached(l, v)
        /\ \A m \in (lo + length)..(hi + length - 1) :
             Reached(m, v) => IF side = "Left" THEN l <= m ELSE m <= l
    <3>1. hi + length - 1 = (hi + length) - 1
      BY <1>1, <1>2
    <3> QED  BY <1>7, <3>1 DEF IsFound
  <2>2. l - length \in lo..(hi - 1) /\ (l - length) + length = l
    BY <1>1, <1>2, <2>1
  <2>3. ASSUME NEW i \in found PROVE IF side = "Left" THEN l - length <= i ELSE i <= l - length
    <3>1. i \in lo..(hi - 1) /\ Reached(i + length, v)
      BY <1>5
    <3>2. i + length \in (lo + length)..(hi + length - 1)
      BY <1>1, <1>2, <3>1
    <3>3. IF side = "Left" THEN l <= i + length ELSE i + length <= l
      BY <2>1, <3>1, <3>2
    <3> QED  BY <1>1, <1>2, <3>1, <3>3
  <2> QED  BY <1>5, <2>1, <2>2, <2>3
<1>8. \A i \in found : i \in Int
  BY <1>2, <1>5
<1>9. find("Left", lo, hi, v) = IF found = {} THEN None ELSE Min(found)
  <2> DEFINE r == find("Left", lo, hi, v)
  <2>1. IsAnswer("Left", lo, hi, v, r)
    BY <1>4
  <2> HIDE DEF r
  <2>2. CASE r = None /\ found = {}
    BY <2>2 DEF r
  <2>3. CASE r \in found /\ \A i \in found : r <= i
    <3>1. Min(found) \in found /\ \A i \in found : Min(found) <= i
      BY <2>3 DEF Min
    <3>2. Min(found) <= r /\ r <= Min(found)
      BY <2>3, <3>1
    <3>3. Min(found) = r
      BY <1>8, <2>3, <3>1, <3>2
    <3> QED  BY <2>3, <3>3 DEF r
  <2> QED  BY <1>6, <1>7, <2>1, <2>2, <2>3 DEF IsAnswer
<1>10. find("Right", lo, hi, v) = IF found = {} THEN None ELSE Max(found)
  <2> DEFINE r == find("Right", lo, hi, v)
  <2>1. IsAnswer("Right", lo, hi, v, r)
    BY <1>4
  <2> HIDE DEF r
  <2>2. CASE r = None /\ found = {}
    BY <2>2 DEF r
  <2>3. CASE r \in found /\ \A i \in found : i <= r
    <3>0. \A i \in found : r >= i
      BY <1>8, <2>3
    <3>1. Max(found) \in found /\ \A i \in found : Max(found) >= i
      BY <2>3, <3>0 DEF Max
    <3>2. Max(found) >= r /\ r >= Max(found)
      BY <2>3, <3>0, <3>1
    <3>3. Max(found) = r
      BY <1>8, <2>3, <3>1, <3>2
    <3> QED  BY <2>3, <3>3 DEF r
  <2> QED  BY <1>6, <1>7, <2>1, <2>2, <2>3 DEF IsAnswer
<1> QED
  BY <1>9, <1>10 DEF found

\* Inner nodes are the sums of their children, through any sequence of changes.
THEOREM TreeInvariant == TurnamentSpec => []TreeInv
BY TreeInit, TreeStep, PTL DEF TurnamentSpec

\* find gives the first (last) leaf of any range that satisfies the predicate,
\* whatever the tree was built from and whatever was set since.
THEOREM FindFollowsSums == TurnamentSpec => []FindIsExact
BY TreeInvariant, SumsMakeFindExact, PTL

-----------------------------------------------------------------------------
(* Search trees: the trees of some number of levels                        *)

NodesOver(S, h) == [value : Elements, depth : 1..h, left : S, right : S]

TreesAt(f, h) == IF h = 0 THEN {Empty} ELSE {Empty} \cup NodesOver(f[h - 1], h)

\* The first n members of the family of Trees.
Begins(g, n) == \A k \in 0..n : g[k] = TreesAt(g, k)

LEMMA BeginningsAgree ==
  ASSUME NEW m \in Nat, NEW n \in Nat, NEW g, NEW h, Begins(g, m), Begins(h, n)
  PROVE  \A k \in 0..m : k <= n => g[k] = h[k]
<1> DEFINE P == {k \in Nat : k <= m /\ k <= n => g[k] = h[k]}
<1>1. P \in SUBSET Nat /\ 0 \in P
  <2>1. 0 \in 0..m /\ 0 \in 0..n
    OBVIOUS
  <2> QED  BY <2>1 DEF Begins, TreesAt
<1>2. ASSUME NEW k \in P PROVE k + 1 \in P
  <2> SUFFICES ASSUME k + 1 <= m, k + 1 <= n PROVE g[k + 1] = h[k + 1]
    OBVIOUS
  <2>1. /\ k + 1 \in 0..m /\ k + 1 \in 0..n /\ k + 1 # 0 /\ (k + 1) - 1 = k
        /\ g[k] = h[k]
    OBVIOUS
  <2> HIDE DEF P
  <2>2. g[k + 1] = TreesAt(g, k + 1) /\ h[k + 1] = TreesAt(h, k + 1)
    BY <2>1 DEF Begins
  <2> QED  BY <2>1, <2>2 DEF TreesAt
<1>3. \A k \in Nat : k \in P
  <2> HIDE DEF P
  <2> QED  BY <1>1, <1>2, SetInduction
<1> QED
  BY <1>3

LEMMA BeginningsExist == \A n \in Nat : \E g : Begins(g, n)
<1> DEFINE P == {n \in Nat : \E g : Begins(g, n)}
<1>1. P \in SUBSET Nat /\ 0 \in P
  <2>1. Begins([k \in 0..0 |-> {Empty}], 0)
    BY DEF Begins, TreesAt
  <2> QED  BY <2>1
<1>2. ASSUME NEW n \in P PROVE n + 1 \in P
  <2>1. n \in Nat
    OBVIOUS
  <2>2. PICK g : Begins(g, n)
    OBVIOUS
  <2> DEFINE f == [k \in 0..(n + 1) |-> IF k <= n THEN g[k] ELSE {Empty} \cup NodesOver(g[n], n + 1)]
  <2>3. ASSUME NEW k \in 0..(n + 1) PROVE f[k] = TreesAt(f, k)
    <3>1. CASE k = 0
      <4>1. 0 \in 0..n /\ f[k] = g[k]
        BY <2>1, <3>1
      <4> HIDE DEF f
      <4> QED  BY <2>2, <3>1, <4>1 DEF Begins, TreesAt
    <3>2. CASE k # 0 /\ k <= n
      <4>1. k \in 0..n /\ k - 1 \in 0..n /\ f[k] = g[k] /\ f[k - 1] = g[k - 1]
        BY <2>1, <3>2
      <4> HIDE DEF f
      <4> QED  BY <2>2, <3>2, <4>1 DEF Begins, TreesAt
    <3>3. CASE k = n + 1
      <4>1. k # 0 /\ k - 1 = n /\ n \in 0..n /\ n \in 0..(n + 1) /\ ~(k <= n)
        BY <2>1, <3>3
      <4>2. f[n] = g[n] /\ f[k] = {Empty} \cup NodesOver(g[n], k)
        BY <3>3, <4>1
      <4> HIDE DEF f
      <4> QED  BY <4>1, <4>2 DEF TreesAt
    <3> QED  BY <2>1, <3>1, <3>2, <3>3
  <2>4. Begins(f, n + 1)
    <3> HIDE DEF f
    <3> QED  BY <2>3 DEF Begins
  <2> QED  BY <2>1, <2>4
<1>3. \A n \in Nat : n \in P
  <2> HIDE DEF P
  <2> QED  BY <1>1, <1>2, SetInduction
<1> QED
  BY <1>3

LEMMA TreesIs ==
  /\ Trees[0] = {Empty}
  /\ \A h \in Nat : Trees[h + 1] = {Empty} \cup NodesOver(Trees[h], h + 1)
<1> DEFINE part(n) == CHOOSE g : Begins(g, n)
           f == [h \in Nat |-> part(h)[h]]
<1>1. \A n \in Nat : Begins(part(n), n)
  BY BeginningsExist
<1>2. ASSUME NEW h \in Nat PROVE f[h] = TreesAt(f, h)
  <2>1. f[h] = part(h)[h] /\ h \in 0..h /\ Begins(part(h), h)
    BY <1>1
  <2>2. CASE h = 0
    <3> HIDE DEF part, f
    <3> QED  BY <2>1, <2>2 DEF Begins, TreesAt
  <2>3. CASE h # 0
    <3>1. h - 1 \in Nat /\ h - 1 \in 0..h /\ h - 1 \in 0..(h - 1) /\ h - 1 <= h
      BY <2>3
    <3>2. f[h - 1] = part(h - 1)[h - 1] /\ Begins(part(h - 1), h - 1)
      BY <1>1, <3>1
    <3> HIDE DEF part, f
    <3>3. part(h - 1)[h - 1] = part(h)[h - 1]
      BY <2>1, <3>1, <3>2, BeginningsAgree
    <3> QED  BY <2>1, <2>3, <3>2, <3>3 DEF Begins, TreesAt
  <2> QED  BY <2>2, <2>3
<1>3. f = [h \in Nat |-> TreesAt(f, h)]
  <2>1. DOMAIN f = Nat /\ f = [h \in Nat |-> f[h]]
    OBVIOUS
  <2> HIDE DEF f
  <2> QED  BY <1>2, <2>1
<1>4. Trees = CHOOSE g : g = [h \in Nat |-> TreesAt(g, h)]
  BY DEF Trees, TreesAt, NodesOver
<1>5. Trees = [h \in Nat |-> TreesAt(Trees, h)]
  <2> HIDE DEF f
  <2> QED  BY <1>3, <1>4
<1>6. \A h \in Nat : Trees[h] = TreesAt(Trees, h)
  BY <1>5, Zenon
<1>7. Trees[0] = {Empty}
  BY <1>6 DEF TreesAt
<1>8. ASSUME NEW h \in Nat PROVE Trees[h + 1] = {Empty} \cup NodesOver(Trees[h], h + 1)
  <2>1. h + 1 \in Nat /\ h + 1 # 0 /\ (h + 1) - 1 = h
    OBVIOUS
  <2> QED  BY <1>6, <2>1 DEF TreesAt
<1> QED
  BY <1>7, <1>8

LEMMA MoreLevels ==
  ASSUME NEW h \in Nat, NEW k \in Nat, h <= k
  PROVE  Trees[h] \subseteq Trees[k]
<1> DEFINE P == {n \in Nat : \A m \in 0..n : Trees[m] \subseteq Trees[n]}
<1>1. P \in SUBSET Nat /\ 0 \in P
  OBVIOUS
<1>2. ASSUME NEW n \in P PROVE n + 1 \in P
  <2>1. n \in Nat /\ \A m \in 0..n : Trees[m] \subseteq Trees[n]
    OBVIOUS
  <2>2. Trees[n] \subseteq Trees[n + 1]
    <3>1. CASE n = 0
      BY <2>1, <3>1, TreesIs
    <3>2. CASE n # 0
      <4>1. n - 1 \in Nat /\ n - 1 \in 0..n /\ (n - 1) + 1 = n
        BY <2>1, <3>2
      <4>2. Trees[n - 1] \subseteq Trees[n]
        BY <2>1, <4>1
      <4>3. 1..n \subseteq 1..(n + 1)
        BY <2>1
      <4>4. NodesOver(Trees[n - 1], n) \subseteq NodesOver(Trees[n], n + 1)
        BY <4>2, <4>3 DEF NodesOver
      <4>5. Trees[n] = {Empty} \cup NodesOver(Trees[n - 1], n)
        BY <4>1, TreesIs
      <4>6. Trees[n + 1] = {Empty} \cup NodesOver(Trees[n], n + 1)
        BY <2>1, TreesIs
      <4> QED  BY <4>4, <4>5, <4>6
    <3> QED  BY <3>1, <3>2
  <2>3. ASSUME NEW m \in 0..(n + 1) PROVE Trees[m] \subseteq Trees[n + 1]
    <3>1. m \in 0..n \/ m = n + 1
      BY <2>1
    <3> QED  BY <2>1, <2>2, <3>1
  <2> QED  BY <2>1, <2>3
<1>3. \A n \in Nat : n \in P
  <2> HIDE DEF P
  <2> QED  BY <1>1, <1>2, SetInduction
<1>4. k \in P
  BY <1>3
<1> QED
  BY <1>4

\* The tree with v at its root.
Node(v, d, l, r) == [value |-> v, depth |-> d, left |-> l, right |-> r]

AllTrees == UNION {Trees[h] : h \in Nat}

LEMMA NodeFields ==
  ASSUME NEW v, NEW d, NEW l, NEW r
  PROVE  /\ Node(v, d, l, r).value = v /\ Node(v, d, l, r).depth = d
         /\ Node(v, d, l, r).left = l /\ Node(v, d, l, r).right = r
         /\ d # 0 => Node(v, d, l, r) # Empty
<1>1. Empty.depth = 0
  BY DEF Empty
<1> QED
  BY <1>1 DEF Node

\* A tree that is not empty and has at most h levels has subtrees of less.
LEMMA ChildrenAreTrees ==
  ASSUME NEW h \in Nat, NEW t \in Trees[h], t # Empty
  PROVE  /\ h >= 1 /\ h - 1 \in Nat
         /\ t.value \in Elements /\ t.depth \in 1..h
         /\ t.left \in Trees[h - 1] /\ t.right \in Trees[h - 1]
         /\ t = Node(t.value, t.depth, t.left, t.right)
<1>1. h # 0
  BY TreesIs
<1>2. h - 1 \in Nat /\ (h - 1) + 1 = h /\ h >= 1
  BY <1>1
<1>3. Trees[h] = {Empty} \cup NodesOver(Trees[h - 1], h)
  BY <1>2, TreesIs
<1>4. t \in [value : Elements, depth : 1..h, left : Trees[h - 1], right : Trees[h - 1]]
  BY <1>3 DEF NodesOver
<1> QED
  BY <1>2, <1>4 DEF Node

LEMMA NodeOfTrees ==
  ASSUME NEW h \in Nat, NEW v \in Elements, NEW d \in 1..(h + 1),
         NEW l \in Trees[h], NEW r \in Trees[h]
  PROVE  Node(v, d, l, r) \in Trees[h + 1]
<1>1. Node(v, d, l, r) \in NodesOver(Trees[h], h + 1)
  BY DEF Node, NodesOver
<1> QED
  BY <1>1, TreesIs

LEMMA EmptyIsTree ==
  /\ \A h \in Nat : Empty \in Trees[h]
  /\ Empty \in AllTrees
<1>1. ASSUME NEW h \in Nat PROVE Empty \in Trees[h]
  <2>1. 0 \in Nat /\ 0 <= h /\ Empty \in Trees[0]
    BY TreesIs
  <2> QED  BY <2>1, MoreLevels
<1> QED
  BY <1>1 DEF AllTrees

LEMMA TreeFields ==
  ASSUME NEW t \in AllTrees, t # Empty
  PROVE  /\ t.value \in Elements /\ t.depth \in Nat /\ t.depth >= 1
         /\ t.left \in AllTrees /\ t.right \in AllTrees
         /\ t = Node(t.value, t.depth, t.left, t.right)
<1>1. PICK h \in Nat : t \in Trees[h]
  BY DEF AllTrees
<1>2. /\ h >= 1 /\ h - 1 \in Nat
      /\ t.value \in Elements /\ t.depth \in 1..h
      /\ t.left \in Trees[h - 1] /\ t.right \in Trees[h - 1]
      /\ t = Node(t.value, t.depth, t.left, t.right)
  BY <1>1, ChildrenAreTrees
<1> QED
  BY <1>2 DEF AllTrees

LEMMA DepthIsNat == \A t \in AllTrees : t.depth \in Nat /\ (t = Empty <=> t.depth = 0)
<1>1. Empty.depth = 0
  BY DEF Empty
<1> QED
  BY <1>1, TreeFields

LEMMA NodeIsTree ==
  ASSUME NEW v \in Elements, NEW d \in Nat, d >= 1, NEW l \in AllTrees, NEW r \in AllTrees
  PROVE  Node(v, d, l, r) \in AllTrees
<1>1. PICK i \in Nat : l \in Trees[i]
  BY DEF AllTrees
<1>2. PICK j \in Nat : r \in Trees[j]
  BY DEF AllTrees
<1>3. PICK k \in Nat : i <= k /\ j <= k /\ d <= k
  <2>1. i <= i + j + d /\ j <= i + j + d /\ d <= i + j + d /\ i + j + d \in Nat
    OBVIOUS
  <2> QED  BY <2>1
<1>4. l \in Trees[k] /\ r \in Trees[k] /\ d \in 1..(k + 1)
  BY <1>1, <1>2, <1>3, MoreLevels
<1>5. Node(v, d, l, r) \in Trees[k + 1] /\ k + 1 \in Nat
  BY <1>4, NodeOfTrees
<1> QED
  BY <1>5 DEF AllTrees

-----------------------------------------------------------------------------
(* Balanced trees                                                          *)

Balanced(l, r) == l.depth <= r.depth + 1 /\ r.depth <= l.depth + 1

Over(l, r) == 1 + Higher(l.depth, r.depth)

Closed(C) == \A t \in C : t # Empty =>
    /\ Balanced(t.left, t.right) /\ t.depth = Over(t.left, t.right)
    /\ t.left \in C /\ t.right \in C

\* The trees in which every node is balanced and knows its depth.
AvlTrees == UNION {C \in SUBSET AllTrees : Closed(C)}

LEMMA OverIs ==
  ASSUME NEW l \in AllTrees, NEW r \in AllTrees
  PROVE  /\ Over(l, r) \in Nat /\ Over(l, r) >= 1
         /\ l.depth < Over(l, r) /\ r.depth < Over(l, r)
         /\ Over(l, r) = l.depth + 1 \/ Over(l, r) = r.depth + 1
         /\ l.depth \in Nat /\ r.depth \in Nat
<1>1. l.depth \in Nat /\ r.depth \in Nat
  BY DepthIsNat
<1> QED
  BY <1>1 DEF Over, Higher

LEMMA AvlFields ==
  ASSUME NEW t \in AvlTrees
  PROVE  /\ t \in AllTrees /\ t.depth \in Nat /\ (t = Empty <=> t.depth = 0)
         /\ t # Empty => /\ t.value \in Elements
                         /\ t.left \in AvlTrees /\ t.right \in AvlTrees
                         /\ Balanced(t.left, t.right)
                         /\ t.depth = Over(t.left, t.right)
                         /\ t = Node(t.value, Over(t.left, t.right), t.left, t.right)
                         /\ t.left.depth < t.depth /\ t.right.depth < t.depth
<1>1. PICK C \in SUBSET AllTrees : Closed(C) /\ t \in C
  BY DEF AvlTrees
<1>2. t \in AllTrees /\ t.depth \in Nat /\ (t = Empty <=> t.depth = 0)
  BY <1>1, DepthIsNat
<1>3. ASSUME t # Empty
      PROVE  /\ t.left \in AvlTrees /\ t.right \in AvlTrees
             /\ Balanced(t.left, t.right)
             /\ t.depth = Over(t.left, t.right)
  <2>1. /\ Balanced(t.left, t.right) /\ t.depth = Over(t.left, t.right)
        /\ t.left \in C /\ t.right \in C
    BY <1>1, <1>3 DEF Closed
  <2> QED  BY <1>1, <2>1 DEF AvlTrees
<1>4. ASSUME t # Empty
      PROVE  /\ t.value \in Elements /\ t = Node(t.value, Over(t.left, t.right), t.left, t.right)
             /\ t.left.depth < t.depth /\ t.right.depth < t.depth
  <2>1. /\ t.value \in Elements /\ t.left \in AllTrees /\ t.right \in AllTrees
        /\ t = Node(t.value, t.depth, t.left, t.right)
    BY <1>2, <1>4, TreeFields
  <2>2. t.left.depth < Over(t.left, t.right) /\ t.right.depth < Over(t.left, t.right)
    BY <2>1, OverIs
  <2> QED  BY <1>3, <1>4, <2>1, <2>2
<1> QED
  BY <1>2, <1>3, <1>4

LEMMA EmptyIsAvl == Empty \in AvlTrees
<1>1. {Empty} \in SUBSET AllTrees /\ Closed({Empty})
  BY EmptyIsTree DEF Closed
<1> QED
  BY <1>1 DEF AvlTrees

\* A balanced node over such trees is one.
LEMMA NodeIsAvl ==
  ASSUME NEW v \in Elements, NEW l \in AvlTrees, NEW r \in AvlTrees, Balanced(l, r)
  PROVE  /\ Node(v, Over(l, r), l, r) \in AvlTrees
         /\ Node(v, Over(l, r), l, r) # Empty
<1> DEFINE t == Node(v, Over(l, r), l, r)
<1>1. l \in AllTrees /\ r \in AllTrees
  BY AvlFields
<1>2. Over(l, r) \in Nat /\ Over(l, r) >= 1
  BY <1>1, OverIs
<1>3. /\ t.left = l /\ t.right = r /\ t.depth = Over(l, r) /\ t # Empty
      /\ t \in AllTrees
  BY <1>1, <1>2, NodeFields, NodeIsTree
<1>4. PICK C \in SUBSET AllTrees : Closed(C) /\ l \in C
  BY DEF AvlTrees
<1>5. PICK D \in SUBSET AllTrees : Closed(D) /\ r \in D
  BY DEF AvlTrees
<1> HIDE DEF t
<1>6. Closed(C \cup D \cup {t})
  <2> SUFFICES ASSUME NEW s \in C \cup D \cup {t}, s # Empty
               PROVE  /\ Balanced(s.left, s.right) /\ s.depth = Over(s.left, s.right)
                      /\ s.left \in C \cup D \cup {t} /\ s.right \in C \cup D \cup {t}
    BY DEF Closed
  <2>1. CASE s \in C
    BY <1>4, <2>1 DEF Closed
  <2>2. CASE s \in D
    BY <1>5, <2>2 DEF Closed
  <2>3. CASE s = t
    BY <1>3, <1>4, <1>5, <2>3
  <2> QED  BY <2>1, <2>2, <2>3
<1>7. t \in AvlTrees
  <2>1. C \cup D \cup {t} \in SUBSET AllTrees /\ t \in C \cup D \cup {t}
    BY <1>3
  <2> QED  BY <1>6, <2>1 DEF AvlTrees
<1> QED
  BY <1>3, <1>7 DEF t

\* No such tree has more levels than it says.
LEMMA DepthIsLevels ==
  ASSUME NEW t \in AvlTrees, NEW h \in Nat, t.depth <= h
  PROVE  t \in Trees[h]
<1> DEFINE P == {n \in Nat : \A s \in AvlTrees : s.depth <= n => s \in Trees[n]}
<1>1. P \in SUBSET Nat
  OBVIOUS
<1>2. 0 \in P
  <2> SUFFICES ASSUME NEW s \in AvlTrees, s.depth <= 0 PROVE s \in Trees[0]
    OBVIOUS
  <2>1. s = Empty
    BY AvlFields
  <2> QED  BY <2>1, TreesIs
<1>3. ASSUME NEW n \in P PROVE n + 1 \in P
  <2>1. n \in Nat /\ \A s \in AvlTrees : s.depth <= n => s \in Trees[n]
    OBVIOUS
  <2> SUFFICES ASSUME NEW s \in AvlTrees, s.depth <= n + 1 PROVE s \in Trees[n + 1]
    BY <2>1
  <2> HIDE DEF P
  <2>2. CASE s = Empty
    BY <2>1, <2>2, EmptyIsTree
  <2>3. CASE s # Empty
    <3>1. /\ s \in AllTrees /\ s.value \in Elements /\ s.left \in AvlTrees /\ s.right \in AvlTrees
          /\ s = Node(s.value, s.depth, s.left, s.right)
          /\ s.left.depth < s.depth /\ s.right.depth < s.depth /\ s.depth \in Nat
          /\ s.left.depth \in Nat /\ s.right.depth \in Nat
      BY <2>3, AvlFields
    <3>2. s.left.depth <= n /\ s.right.depth <= n /\ s.depth \in 1..(n + 1)
      BY <2>1, <3>1
    <3>3. s.left \in Trees[n] /\ s.right \in Trees[n]
      BY <2>1, <3>1, <3>2
    <3> QED  BY <2>1, <3>1, <3>2, <3>3, NodeOfTrees
  <2> QED  BY <2>2, <2>3
<1>4. h \in P
  <2> HIDE DEF P
  <2> QED  BY <1>1, <1>2, <1>3, SetInduction
<1> QED
  BY <1>4
-----------------------------------------------------------------------------
(* Checks                                                                  *)

LevelStep(f, tree, k) ==
    IF k = 0 THEN {tree} \ {Empty}
    ELSE (UNION {{t.left, t.right} : t \in f[k - 1]}) \ {Empty}

\* The function of check_invariant.
Level(tree, depth) == CHOOSE f : f = [k \in 0..depth |-> LevelStep(f, tree, k)]

NonEmpty == AllTrees \ {Empty}

LEMMA LevelExists ==
  ASSUME NEW tree \in AllTrees, NEW depth \in Nat
  PROVE  /\ Level(tree, depth) = [k \in 0..depth |-> LevelStep(Level(tree, depth), tree, k)]
         /\ \A k \in 0..depth : Level(tree, depth)[k] = LevelStep(Level(tree, depth), tree, k)
<1> DEFINE S == 0..depth
           V == SUBSET NonEmpty
           M == Maps(S, V)
           D == [f \in M |-> [k \in S |-> LevelStep(f, tree, k)]]
           rank == [k \in S |-> k]
<1>1. ASSUME NEW k \in S, k # 0 PROVE k - 1 \in S /\ rank[k - 1] < rank[k]
  BY <1>1
<1>2. D \in Maps(M, M)
  <2>1. ASSUME NEW f \in M, NEW k \in S PROVE LevelStep(f, tree, k) \in V
    <3>1. CASE k = 0
      BY <3>1 DEF LevelStep, NonEmpty
    <3>2. CASE k # 0
      <4>1. f[k - 1] \in SUBSET NonEmpty
        BY <1>1, <3>2 DEF Maps
      <4>2. \A t \in f[k - 1] : t.left \in AllTrees /\ t.right \in AllTrees
        BY <4>1, TreeFields DEF NonEmpty
      <4> DEFINE U == UNION {{t.left, t.right} : t \in f[k - 1]}
      <4>3. \A x \in U : x \in AllTrees
        BY <4>2
      <4>4. LevelStep(f, tree, k) = U \ {Empty}
        BY <3>2 DEF LevelStep
      <4> HIDE DEF U
      <4> QED  BY <4>3, <4>4 DEF NonEmpty
    <3> QED  BY <3>1, <3>2
  <2>2. \A f \in M : [k \in S |-> LevelStep(f, tree, k)] \in M
    <3> HIDE DEF V, S
    <3> QED  BY <2>1 DEF Maps
  <2> HIDE DEF M
  <2> QED  BY <2>2 DEF Maps
<1>3. ASSUME NEW g \in M, NEW h \in M, NEW n \in S,
             \A m \in S : rank[m] < rank[n] => g[m] = h[m]
      PROVE  D[g][n] = D[h][n]
  <2>1. LevelStep(g, tree, n) = LevelStep(h, tree, n)
    <3>1. CASE n = 0
      BY <3>1 DEF LevelStep
    <3>2. CASE n # 0
      <4>1. g[n - 1] = h[n - 1]
        <5> HIDE DEF rank, S
        <5> QED  BY <1>1, <1>3, <3>2
      <4> QED  BY <3>2, <4>1 DEF LevelStep
    <3> QED  BY <3>1, <3>2
  <2> HIDE DEF M
  <2> QED  BY <2>1
<1>4. rank \in Maps(S, Nat) /\ M # {}
  <2>1. [k \in S |-> {}] \in M
    BY DEF Maps
  <2>2. rank \in [S -> Nat]
    OBVIOUS
  <2> QED  BY <2>1, <2>2 DEF Maps
<1>5. \E f \in M : D[f] = f
  <2> HIDE DEF D, rank, S, V
  <2> QED  BY <1>2, <1>3, <1>4, RecursiveFunctionExists
<1>6. PICK f \in M : D[f] = f
  BY <1>5
<1>7. f = [k \in 0..depth |-> LevelStep(f, tree, k)]
  <2> HIDE DEF M
  <2> QED  BY <1>6
<1>8. Level(tree, depth) = [k \in 0..depth |-> LevelStep(Level(tree, depth), tree, k)]
  BY <1>7 DEF Level
<1>9. \A k \in 0..depth : Level(tree, depth)[k] = LevelStep(Level(tree, depth), tree, k)
  BY <1>8, Zenon
<1> QED
  BY <1>8, <1>9

LEMMA CheckIs ==
  ASSUME NEW tree, NEW depth
  PROVE  check_invariant(tree, depth) <=>
           \A k \in 0..depth : \A t \in Level(tree, depth)[k] :
              Balanced(t.left, t.right) /\ (k < depth => t.depth = Over(t.left, t.right))
BY DEF check_invariant, Level, LevelStep, Balanced, Over

LEMMA CheckOfRoot ==
  ASSUME NEW t \in AllTrees, t # Empty
  PROVE  check_invariant(t, 0) <=> Balanced(t.left, t.right)
<1>1. Level(t, 0)[0] = {t}
  <2>1. Level(t, 0)[0] = LevelStep(Level(t, 0), t, 0)
    <3>1. 0 \in 0..0 /\ 0 \in Nat
      OBVIOUS
    <3> QED  BY <3>1, LevelExists
  <2> QED  BY <2>1 DEF LevelStep
<1>2. check_invariant(t, 0) <=>
        \A k \in 0..0 : \A s \in Level(t, 0)[k] :
           Balanced(s.left, s.right) /\ (k < 0 => s.depth = Over(s.left, s.right))
  BY CheckIs
<1>3. \A k \in 0..0 : k = 0 /\ ~(k < 0)
  OBVIOUS
<1>4. 0 \in 0..0
  OBVIOUS
<1> QED
  BY <1>1, <1>2, <1>3, <1>4

\* A tree in which every node is in order passes the check to any depth.
LEMMA AvlChecks ==
  ASSUME NEW tree \in AvlTrees, NEW depth \in Nat
  PROVE  check_invariant(tree, depth)
<1> DEFINE L == Level(tree, depth)
           P == {k \in Nat : k <= depth => L[k] \subseteq AvlTrees \ {Empty}}
<1>1. tree \in AllTrees
  BY AvlFields
<1>2. \A k \in 0..depth : L[k] = LevelStep(L, tree, k)
  BY <1>1, LevelExists
<1> HIDE DEF L
<1>3. P \in SUBSET Nat /\ 0 \in P
  <2>1. 0 \in 0..depth
    OBVIOUS
  <2>2. L[0] = {tree} \ {Empty}
    BY <1>2, <2>1 DEF LevelStep
  <2> QED  BY <2>2
<1>4. ASSUME NEW k \in P PROVE k + 1 \in P
  <2> SUFFICES ASSUME k + 1 <= depth PROVE L[k + 1] \subseteq AvlTrees \ {Empty}
    OBVIOUS
  <2>1. k + 1 \in 0..depth /\ k + 1 # 0 /\ (k + 1) - 1 = k /\ L[k] \subseteq AvlTrees \ {Empty}
    OBVIOUS
  <2> HIDE DEF P
  <2>2. L[k + 1] = (UNION {{t.left, t.right} : t \in L[k]}) \ {Empty}
    BY <1>2, <2>1 DEF LevelStep
  <2>3. \A t \in L[k] : t.left \in AvlTrees /\ t.right \in AvlTrees
    BY <2>1, AvlFields
  <2> DEFINE U == UNION {{t.left, t.right} : t \in L[k]}
  <2>4. \A x \in U : x \in AvlTrees
    BY <2>3
  <2> HIDE DEF U
  <2>5. L[k + 1] = U \ {Empty}
    BY <2>2 DEF U
  <2> QED  BY <2>4, <2>5
<1>5. \A k \in Nat : k \in P
  <2> HIDE DEF P
  <2> QED  BY <1>3, <1>4, SetInduction
<1>6. ASSUME NEW k \in 0..depth, NEW t \in L[k]
      PROVE  Balanced(t.left, t.right) /\ t.depth = Over(t.left, t.right)
  <2>1. t \in AvlTrees /\ t # Empty
    BY <1>5
  <2> QED  BY <2>1, AvlFields
<1> QED
  BY <1>6, CheckIs DEF L

-----------------------------------------------------------------------------
(* Rotations                                                               *)

LEMMA UpdateIs ==
  ASSUME NEW v, NEW d, NEW l, NEW r
  PROVE  update_depth(Node(v, d, l, r)) = Node(v, Over(l, r), l, r)
BY DEF update_depth, Node, Over

LEMMA Replaced ==
  ASSUME NEW v, NEW d, NEW l, NEW r, NEW x
  PROVE  /\ [Node(v, d, l, r) EXCEPT !["left"] = x] = Node(v, d, x, r)
         /\ [Node(v, d, l, r) EXCEPT !["right"] = x] = Node(v, d, l, x)
         /\ Node(v, d, l, r)["left"] = l /\ Node(v, d, l, r)["right"] = r
<1> DEFINE n == Node(v, d, l, r)
<1>1. n["left"] = l
  BY DEF Node
<1>2. n["right"] = r
  BY DEF Node
<1>3. [n EXCEPT !["left"] = x] = Node(v, d, x, r)
  BY DEF Node
<1>4. [n EXCEPT !["right"] = x] = Node(v, d, l, x)
  BY DEF Node
<1> QED
  BY <1>1, <1>2, <1>3, <1>4

LEMMA RotateIs ==
  ASSUME NEW v, NEW d, NEW w, NEW e, NEW x, NEW y, NEW z
  PROVE  /\ rotate(Node(v, d, Node(w, e, x, y), z), "left", "right")
              = Node(w, Over(x, Node(v, Over(y, z), y, z)), x, Node(v, Over(y, z), y, z))
         /\ rotate(Node(v, d, x, Node(w, e, y, z)), "right", "left")
              = Node(w, Over(Node(v, Over(x, y), x, y), z), Node(v, Over(x, y), x, y), z)
<1>1. rotate(Node(v, d, Node(w, e, x, y), z), "left", "right")
        = Node(w, Over(x, Node(v, Over(y, z), y, z)), x, Node(v, Over(y, z), y, z))
  <2> DEFINE t == Node(v, d, Node(w, e, x, y), z)
  <2>1. t["left"] = Node(w, e, x, y) /\ t["left"]["right"] = y
    BY Replaced
  <2>2. [t EXCEPT !["left"] = y] = Node(v, d, y, z)
    BY Replaced
  <2>3. update_depth(Node(v, d, y, z)) = Node(v, Over(y, z), y, z)
    BY UpdateIs
  <2>4. [Node(w, e, x, y) EXCEPT !["right"] = Node(v, Over(y, z), y, z)]
          = Node(w, e, x, Node(v, Over(y, z), y, z))
    BY Replaced
  <2> HIDE DEF t
  <2>5. rotate(t, "left", "right") = update_depth(Node(w, e, x, Node(v, Over(y, z), y, z)))
    BY <2>1, <2>2, <2>3, <2>4 DEF rotate
  <2> QED  BY <2>5, UpdateIs DEF t
<1>2. rotate(Node(v, d, x, Node(w, e, y, z)), "right", "left")
        = Node(w, Over(Node(v, Over(x, y), x, y), z), Node(v, Over(x, y), x, y), z)
  <2> DEFINE t == Node(v, d, x, Node(w, e, y, z))
  <2>1. t["right"] = Node(w, e, y, z) /\ t["right"]["left"] = y
    BY Replaced
  <2>2. [t EXCEPT !["right"] = y] = Node(v, d, x, y)
    BY Replaced
  <2>3. update_depth(Node(v, d, x, y)) = Node(v, Over(x, y), x, y)
    BY UpdateIs
  <2>4. [Node(w, e, y, z) EXCEPT !["left"] = Node(v, Over(x, y), x, y)]
          = Node(w, e, Node(v, Over(x, y), x, y), z)
    BY Replaced
  <2> HIDE DEF t
  <2>5. rotate(t, "right", "left") = update_depth(Node(w, e, Node(v, Over(x, y), x, y), z))
    BY <2>1, <2>2, <2>3, <2>4 DEF rotate
  <2> QED  BY <2>5, UpdateIs DEF t
<1> QED
  BY <1>1, <1>2

-----------------------------------------------------------------------------
(* What a tree lists                                                       *)

\* Where the recursive calls are: a number of levels and a tree of as many.
Places == {x \in Nat \X AllTrees : x[2] \in Trees[x[1]]}

LEMMA PlacesAre ==
  /\ [x \in Places |-> x[1]] \in Maps(Places, Nat)
  /\ \A h \in Nat : \A t \in Trees[h] : <<h, t>> \in Places
  /\ \A x \in Places : x[1] \in Nat /\ x[2] \in Trees[x[1]] /\ x = <<x[1], x[2]>>
<1>1. \A x \in Places : x[1] \in Nat /\ x[2] \in Trees[x[1]] /\ x = <<x[1], x[2]>>
  BY DEF Places
<1>2. ASSUME NEW h \in Nat, NEW t \in Trees[h] PROVE <<h, t>> \in Places
  <2>1. t \in AllTrees
    BY DEF AllTrees
  <2> QED  BY <2>1 DEF Places
<1>3. [x \in Places |-> x[1]] \in Maps(Places, Nat)
  BY <1>1 DEF Maps
<1> QED
  BY <1>1, <1>2, <1>3

\* The calls of a place are for places of fewer levels.
LEMMA PlacesBelow ==
  ASSUME NEW x \in Places, x[2] # Empty
  PROVE  /\ x[1] - 1 \in Nat /\ x[1] - 1 < x[1]
         /\ <<x[1] - 1, x[2].left>> \in Places /\ <<x[1] - 1, x[2].right>> \in Places
         /\ x[2].value \in Elements
<1>1. x[1] \in Nat /\ x[2] \in Trees[x[1]]
  BY PlacesAre
<1>2. /\ x[1] - 1 \in Nat /\ x[2].value \in Elements
      /\ x[2].left \in Trees[x[1] - 1] /\ x[2].right \in Trees[x[1] - 1]
  BY <1>1, ChildrenAreTrees
<1> QED
  BY <1>1, <1>2, PlacesAre

ListStep(f, h, t) ==
    IF t = Empty THEN <<>> ELSE f[h - 1][t.left] \o <<t.value>> \o f[h - 1][t.right]

\* The function of flatten.
List == CHOOSE f : f = [h \in Nat |-> [t \in Trees[h] |-> ListStep(f, h, t)]]

LEMMA ListExists ==
  /\ \A h \in Nat : \A t \in Trees[h] : List[h][t] = ListStep(List, h, t)
  /\ \A t : flatten(t) = List[t.depth][t]
<1> DEFINE V == Seq(Elements)
           M == Maps(Places, V)
           At(g, x) == IF x[2] = Empty THEN <<>>
                       ELSE g[<<x[1] - 1, x[2].left>>] \o <<x[2].value>> \o g[<<x[1] - 1, x[2].right>>]
           D == [g \in M |-> [x \in Places |-> At(g, x)]]
           rank == [x \in Places |-> x[1]]
<1>1. D \in Maps(M, M)
  <2>1. ASSUME NEW g \in M, NEW x \in Places PROVE At(g, x) \in V
    <3>1. CASE x[2] = Empty
      BY <3>1
    <3>2. CASE x[2] # Empty
      <4>1. g[<<x[1] - 1, x[2].left>>] \in V /\ g[<<x[1] - 1, x[2].right>>] \in V
        BY <3>2, PlacesBelow DEF Maps
      <4>2. <<x[2].value>> \in V
        <5>1. \A v \in Elements : <<v>> \in Seq(Elements)
          OBVIOUS
        <5> QED  BY <3>2, <5>1, PlacesBelow
      <4>3. \A a, b, c \in V : a \o b \o c \in V
        OBVIOUS
      <4> HIDE DEF V, M
      <4> QED  BY <3>2, <4>1, <4>2, <4>3
    <3> QED  BY <3>1, <3>2
  <2>2. \A g \in M : [x \in Places |-> At(g, x)] \in M
    <3> HIDE DEF V, At
    <3> QED  BY <2>1 DEF Maps
  <2> HIDE DEF M, At
  <2> QED  BY <2>2 DEF Maps
<1>2. ASSUME NEW g \in M, NEW h \in M, NEW x \in Places,
             \A y \in Places : rank[y] < rank[x] => g[y] = h[y]
      PROVE  D[g][x] = D[h][x]
  <2>1. At(g, x) = At(h, x)
    <3>1. CASE x[2] = Empty
      BY <3>1
    <3>2. CASE x[2] # Empty
      <4>1. /\ g[<<x[1] - 1, x[2].left>>] = h[<<x[1] - 1, x[2].left>>]
            /\ g[<<x[1] - 1, x[2].right>>] = h[<<x[1] - 1, x[2].right>>]
        <5>1. rank[x] = x[1]
          OBVIOUS
        <5>2. /\ <<x[1] - 1, x[2].left>> \in Places /\ <<x[1] - 1, x[2].right>> \in Places
              /\ x[1] - 1 < x[1]
          BY <3>2, PlacesBelow
        <5>3. rank[<<x[1] - 1, x[2].left>>] = x[1] - 1 /\ rank[<<x[1] - 1, x[2].right>>] = x[1] - 1
          BY <5>2
        <5> HIDE DEF rank, M
        <5> QED  BY <1>2, <5>1, <5>2, <5>3
      <4> QED  BY <3>2, <4>1
    <3> QED  BY <3>1, <3>2
  <2> HIDE DEF M, At
  <2> QED  BY <2>1
<1>3. rank \in Maps(Places, Nat) /\ M # {}
  <2>1. [x \in Places |-> <<>>] \in M
    BY DEF Maps
  <2> QED  BY <2>1, PlacesAre
<1>4. \E f \in M : D[f] = f
  <2> HIDE DEF D, rank, V
  <2> QED  BY <1>1, <1>2, <1>3, RecursiveFunctionExists
<1>5. PICK f \in M : D[f] = f
  BY <1>4
<1>6. \A x \in Places : f[x] = At(f, x) /\ f[x] \in V
  <2>1. f \in [Places -> V]
    BY DEF Maps
  <2>2. f = [x \in Places |-> At(f, x)]
    <3> HIDE DEF M, At
    <3> QED  BY <1>5
  <2> HIDE DEF At, M, V
  <2> QED  BY <2>1, <2>2
<1> HIDE DEF V, D
<1> DEFINE F == [h \in Nat |-> [t \in Trees[h] |-> f[<<h, t>>]]]
<1>7. ASSUME NEW h \in Nat, NEW t \in Trees[h] PROVE f[<<h, t>>] = ListStep(F, h, t)
  <2>1. <<h, t>> \in Places /\ <<h, t>>[1] = h /\ <<h, t>>[2] = t
    BY PlacesAre
  <2>2. f[<<h, t>>] = At(f, <<h, t>>)
    BY <1>6, <2>1
  <2>3. CASE t = Empty
    BY <2>1, <2>2, <2>3 DEF ListStep
  <2>4. CASE t # Empty
    <3>1. h - 1 \in Nat /\ t.left \in Trees[h - 1] /\ t.right \in Trees[h - 1]
      BY <2>4, ChildrenAreTrees
    <3>2. F[h - 1][t.left] = f[<<h - 1, t.left>>] /\ F[h - 1][t.right] = f[<<h - 1, t.right>>]
      BY <3>1
    <3>3. f[<<h, t>>] = f[<<h - 1, t.left>>] \o <<t.value>> \o f[<<h - 1, t.right>>]
      BY <2>1, <2>2, <2>4
    <3> HIDE DEF F
    <3> QED  BY <2>4, <3>2, <3>3 DEF ListStep
  <2> QED  BY <2>3, <2>4
<1>8. F = [h \in Nat |-> [t \in Trees[h] |-> ListStep(F, h, t)]]
  <2>1. \A h \in Nat : [t \in Trees[h] |-> f[<<h, t>>]] = [t \in Trees[h] |-> ListStep(F, h, t)]
    <3> HIDE DEF F
    <3> QED  BY <1>7
  <2>2. [h \in Nat |-> [t \in Trees[h] |-> f[<<h, t>>]]]
          = [h \in Nat |-> [t \in Trees[h] |-> ListStep(F, h, t)]]
    <3> HIDE DEF F
    <3> QED  BY <2>1
  <2> QED  BY <2>2
<1>9. List = [h \in Nat |-> [t \in Trees[h] |-> ListStep(List, h, t)]]
  <2> HIDE DEF F
  <2> QED  BY <1>8 DEF List
<1>10. \A h \in Nat : \A t \in Trees[h] : List[h][t] = ListStep(List, h, t)
  <2>1. \A h \in Nat : List[h] = [t \in Trees[h] |-> ListStep(List, h, t)]
    BY <1>9, Zenon
  <2> QED  BY <2>1, Zenon
<1>11. \A t : flatten(t) = List[t.depth][t]
  BY DEF flatten, List, ListStep
<1> QED
  BY <1>10, <1>11

LEMMA ListOfLevel ==
  ASSUME NEW h \in Nat, NEW t \in Trees[h]
  PROVE  /\ List[h][t] \in Seq(Elements)
         /\ \A k \in Nat : t \in Trees[k] => List[k][t] = List[h][t]
         /\ t = Empty => List[h][t] = <<>>
         /\ t # Empty => List[h][t] = List[h - 1][t.left] \o <<t.value>> \o List[h - 1][t.right]
<1> DEFINE Fine(n) == \A s \in Trees[n] :
             /\ List[n][s] \in Seq(Elements)
             /\ \A k \in Nat : s \in Trees[k] => List[k][s] = List[n][s]
           P == {n \in Nat : Fine(n)}
<1>1. \A n \in Nat : List[n][Empty] = <<>>
  BY ListExists, EmptyIsTree DEF ListStep
<1>2. \A n \in Nat : \A s \in Trees[n] : s # Empty =>
         List[n][s] = List[n - 1][s.left] \o <<s.value>> \o List[n - 1][s.right]
  BY ListExists DEF ListStep
<1>3. Fine(0)
  <2>1. \A s \in Trees[0] : s = Empty
    BY TreesIs
  <2>2. <<>> \in Seq(Elements)
    OBVIOUS
  <2> QED  BY <1>1, <2>1, <2>2
<1>4. ASSUME NEW n \in Nat, Fine(n) PROVE Fine(n + 1)
  <2> SUFFICES ASSUME NEW s \in Trees[n + 1]
               PROVE  /\ List[n + 1][s] \in Seq(Elements)
                      /\ \A k \in Nat : s \in Trees[k] => List[k][s] = List[n + 1][s]
    OBVIOUS
  <2>1. CASE s = Empty
    <3>1. <<>> \in Seq(Elements) /\ n + 1 \in Nat
      OBVIOUS
    <3> QED  BY <1>1, <2>1, <3>1
  <2>2. CASE s # Empty
    <3>1. n + 1 \in Nat /\ (n + 1) - 1 = n
      OBVIOUS
    <3>2. s.left \in Trees[n] /\ s.right \in Trees[n] /\ s.value \in Elements
      BY <2>2, <3>1, ChildrenAreTrees
    <3>3. List[n + 1][s] = List[n][s.left] \o <<s.value>> \o List[n][s.right]
      BY <1>2, <2>2, <3>1
    <3>4. List[n][s.left] \in Seq(Elements) /\ List[n][s.right] \in Seq(Elements)
      BY <1>4, <3>2
    <3>5. List[n + 1][s] \in Seq(Elements)
      <4>1. \A v \in Elements : <<v>> \in Seq(Elements)
        OBVIOUS
      <4>2. \A a, b, c \in Seq(Elements) : a \o b \o c \in Seq(Elements)
        OBVIOUS
      <4> HIDE DEF Fine
      <4> QED  BY <3>2, <3>3, <3>4, <4>1, <4>2
    <3>6. ASSUME NEW k \in Nat, s \in Trees[k] PROVE List[k][s] = List[n + 1][s]
      <4>1. k - 1 \in Nat /\ s.left \in Trees[k - 1] /\ s.right \in Trees[k - 1]
        BY <2>2, <3>6, ChildrenAreTrees
      <4>2. List[k - 1][s.left] = List[n][s.left] /\ List[k - 1][s.right] = List[n][s.right]
        BY <1>4, <3>2, <4>1
      <4>3. List[k][s] = List[k - 1][s.left] \o <<s.value>> \o List[k - 1][s.right]
        BY <1>2, <2>2, <3>6
      <4> QED  BY <3>3, <4>2, <4>3
    <3> QED  BY <3>5, <3>6
  <2> QED  BY <2>1, <2>2
<1>5. \A n \in Nat : n \in P
  <2>1. P \in SUBSET Nat /\ 0 \in P
    BY <1>3
  <2>2. \A n \in P : n + 1 \in P
    <3> HIDE DEF Fine
    <3> QED  BY <1>4
  <2> HIDE DEF P
  <2> QED  BY <2>1, <2>2, SetInduction
<1>6. Fine(h)
  BY <1>5
<1> QED
  BY <1>1, <1>2, <1>6

LEMMA FlattenIs ==
  /\ flatten(Empty) = <<>>
  /\ \A t \in AvlTrees : flatten(t) \in Seq(Elements)
  /\ \A t \in AvlTrees : t # Empty => flatten(t) = flatten(t.left) \o <<t.value>> \o flatten(t.right)
<1>1. ASSUME NEW t \in AvlTrees
      PROVE  /\ t.depth \in Nat /\ t \in Trees[t.depth] /\ flatten(t) = List[t.depth][t]
             /\ flatten(t) \in Seq(Elements)
             /\ t = Empty => flatten(t) = <<>>
  <2>1. t.depth \in Nat /\ t \in Trees[t.depth]
    BY AvlFields, DepthIsLevels
  <2>2. flatten(t) = List[t.depth][t]
    BY ListExists
  <2> QED  BY <2>1, <2>2, ListOfLevel
<1>2. ASSUME NEW t \in AvlTrees, t # Empty
      PROVE  flatten(t) = flatten(t.left) \o <<t.value>> \o flatten(t.right)
  <2> DEFINE h == t.depth
  <2>1. t.left \in AvlTrees /\ t.right \in AvlTrees
    BY <1>2, AvlFields
  <2>2. h \in Nat /\ h - 1 \in Nat /\ t.left \in Trees[h - 1] /\ t.right \in Trees[h - 1]
    BY <1>1, <1>2, ChildrenAreTrees
  <2>3. flatten(t) = List[h - 1][t.left] \o <<t.value>> \o List[h - 1][t.right]
    BY <1>1, <1>2, ListOfLevel
  <2> HIDE DEF h
  <2>4. ASSUME NEW l \in AvlTrees, l \in Trees[h - 1] PROVE List[h - 1][l] = flatten(l)
    <3>1. l.depth \in Nat /\ l \in Trees[l.depth] /\ flatten(l) = List[l.depth][l]
      BY <1>1
    <3>2. h - 1 \in Nat
      BY <2>2
    <3> QED  BY <2>4, <3>1, <3>2, ListOfLevel
  <2>5. List[h - 1][t.left] = flatten(t.left) /\ List[h - 1][t.right] = flatten(t.right)
    BY <2>1, <2>2, <2>4
  <2> QED  BY <2>3, <2>4, <2>5
<1> QED
  BY <1>1, <1>2, EmptyIsAvl

Listed(t) == {flatten(t)[i] : i \in DOMAIN flatten(t)}

Ordered(t) == \A i, j \in DOMAIN flatten(t) : i < j => flatten(t)[i] < flatten(t)[j]

\* Two sequences with a value between them.
LEMMA Joined ==
  ASSUME NEW a \in Seq(Int), NEW v \in Int, NEW b \in Seq(Int), NEW s, s = a \o <<v>> \o b
  PROVE  /\ s \in Seq(Int) /\ Len(s) = Len(a) + 1 + Len(b)
         /\ Len(a) \in Nat /\ Len(b) \in Nat
         /\ \A i \in 1..Len(a) : s[i] = a[i] /\ i \in DOMAIN s
         /\ s[Len(a) + 1] = v /\ Len(a) + 1 \in DOMAIN s
         /\ \A i \in 1..Len(b) : s[Len(a) + 1 + i] = b[i] /\ Len(a) + 1 + i \in DOMAIN s
         /\ DOMAIN s = 1..(Len(a) + 1 + Len(b))
<1>1. Len(a) \in Nat /\ Len(b) \in Nat
  BY LenProperties
<1>2. <<v>> \in Seq(Int) /\ Len(<<v>>) = 1 /\ <<v>>[1] = v
  OBVIOUS
<1> DEFINE c == a \o <<v>>
           m == Len(a)
           n == Len(b)
           w == <<v>>
<1>3. /\ c \in Seq(Int) /\ Len(c) = m + 1
      /\ \A i \in 1..(m + 1) : c[i] = IF i <= m THEN a[i] ELSE w[i - m]
  <2> HIDE DEF w
  <2> QED  BY <1>2, ConcatProperties DEF w
<1>4. /\ s \in Seq(Int) /\ Len(s) = Len(c) + n
      /\ \A i \in 1..(Len(c) + n) : s[i] = IF i <= Len(c) THEN c[i] ELSE b[i - Len(c)]
  <2>1. s = c \o b /\ c \in Seq(Int)
    BY <1>3
  <2> HIDE DEF c
  <2>2. /\ c \o b \in Seq(Int) /\ Len(c \o b) = Len(c) + n
        /\ \A i \in 1..(Len(c) + n) : (c \o b)[i] = IF i <= Len(c) THEN c[i] ELSE b[i - Len(c)]
    BY ONLY <2>1, b \in Seq(Int), ConcatProperties
  <2> QED  BY ONLY <2>1, <2>2
<1>5. DOMAIN s = 1..(m + 1 + n)
  BY <1>3, <1>4, LenProperties
<1> HIDE DEF c, w
<1>6. \A i \in 1..m : s[i] = a[i] /\ i \in 1..(m + 1 + n)
  BY <1>1, <1>3, <1>4
<1>7. s[m + 1] = v /\ m + 1 \in 1..(m + 1 + n)
  <2>1. m + 1 \in 1..(m + 1) /\ ~(m + 1 <= m) /\ (m + 1) - m = 1 /\ m + 1 \in 1..((m + 1) + n) /\ m + 1 <= m + 1
    BY <1>1
  <2>2. c[m + 1] = w[1]
    BY <1>3, <2>1
  <2>3. s[m + 1] = c[m + 1]
    BY <1>3, <1>4, <2>1
  <2> QED  BY <1>2, <2>1, <2>2, <2>3 DEF w
<1>8. \A i \in 1..n : s[m + 1 + i] = b[i] /\ m + 1 + i \in 1..(m + 1 + n)
  <2> SUFFICES ASSUME NEW i \in 1..n PROVE s[m + 1 + i] = b[i] /\ m + 1 + i \in 1..(m + 1 + n)
    OBVIOUS
  <2>1. m + 1 + i \in 1..((m + 1) + n) /\ ~(m + 1 + i <= m + 1) /\ (m + 1 + i) - (m + 1) = i
    BY <1>1
  <2> QED  BY <1>3, <1>4, <2>1
<1> QED
  BY <1>1, <1>3, <1>4, <1>5, <1>6, <1>7, <1>8

\* What a tree lists, and whether in order, by what its subtrees do.
LEMMA ListIs ==
  ASSUME NEW v \in Elements, NEW l \in AvlTrees, NEW r \in AvlTrees, NEW t \in AvlTrees,
         t # Empty, t.value = v, t.left = l, t.right = r
  PROVE  /\ Listed(t) = Listed(l) \cup {v} \cup Listed(r)
         /\ Ordered(t) <=> /\ Ordered(l) /\ Ordered(r)
                           /\ \A x \in Listed(l) : x < v
                           /\ \A x \in Listed(r) : v < x
<1> DEFINE a == flatten(l)
           b == flatten(r)
           s == flatten(t)
           m == Len(a)
           n == Len(b)
<1>1. Elements \subseteq Int
  BY AvlAssumption
<1>2. a \in Seq(Int) /\ b \in Seq(Int) /\ v \in Int /\ s = a \o <<v>> \o b
  <2>1. a \in Seq(Elements) /\ b \in Seq(Elements) /\ s = a \o <<v>> \o b
    BY FlattenIs
  <2>2. \A q \in Seq(Elements) : q \in Seq(Int)
    BY <1>1
  <2> HIDE DEF a, b, s
  <2> QED  BY <1>1, <2>1, <2>2
<1>3. Listed(t) = {s[i] : i \in DOMAIN s} /\ Listed(l) = {a[i] : i \in DOMAIN a} /\ Listed(r) = {b[i] : i \in DOMAIN b}
  BY DEF Listed
<1>4. /\ Ordered(t) <=> \A i, j \in DOMAIN s : i < j => s[i] < s[j]
      /\ Ordered(l) <=> \A i, j \in DOMAIN a : i < j => a[i] < a[j]
      /\ Ordered(r) <=> \A i, j \in DOMAIN b : i < j => b[i] < b[j]
  BY DEF Ordered
<1> HIDE DEF a, b, s
<1>5. /\ m \in Nat /\ n \in Nat
      /\ \A i \in 1..m : s[i] = a[i] /\ i \in DOMAIN s
      /\ s[m + 1] = v /\ m + 1 \in DOMAIN s
      /\ \A i \in 1..n : s[m + 1 + i] = b[i] /\ m + 1 + i \in DOMAIN s
      /\ DOMAIN s = 1..(m + 1 + n)
  BY <1>2, Joined
<1>6. DOMAIN a = 1..m /\ DOMAIN b = 1..n
  BY <1>2, LenProperties
<1>7. /\ \A i \in DOMAIN a : a[i] \in Int
      /\ \A i \in DOMAIN b : b[i] \in Int
  BY <1>2, ElementOfSeq, <1>6
<1> HIDE DEF m, n

\* An index is of one of the three parts.
<1>8. ASSUME NEW i \in DOMAIN s
      PROVE  \/ i \in 1..m /\ s[i] = a[i]
             \/ i = m + 1 /\ s[i] = v
             \/ /\ i - (m + 1) \in 1..n /\ s[i] = b[i - (m + 1)]
                /\ i = m + 1 + (i - (m + 1))
  <2>1. i \in 1..(m + 1 + n)
    BY <1>5
  <2>2. i \in 1..m \/ i = m + 1 \/ (i - (m + 1) \in 1..n /\ m + 1 + (i - (m + 1)) = i)
    BY <1>5, <2>1
  <2> QED  BY <1>5, <2>2
<1>9. Listed(t) = Listed(l) \cup {v} \cup Listed(r)
  <2>1. ASSUME NEW i \in DOMAIN s PROVE s[i] \in Listed(l) \cup {v} \cup Listed(r)
    BY <1>3, <1>6, <1>8
  <2>2. \A i \in DOMAIN a : a[i] \in Listed(t)
    BY <1>3, <1>5, <1>6
  <2>3. \A i \in DOMAIN b : b[i] \in Listed(t)
    BY <1>3, <1>5, <1>6
  <2>4. v \in Listed(t)
    BY <1>3, <1>5
  <2> QED  BY <1>3, <2>1, <2>2, <2>3, <2>4
<1>10. ASSUME Ordered(t)
       PROVE  Ordered(l) /\ Ordered(r) /\ (\A x \in Listed(l) : x < v) /\ (\A x \in Listed(r) : v < x)
  <2>1. \A i, j \in DOMAIN s : i < j => s[i] < s[j]
    BY <1>4, <1>10
  <2>2. Ordered(l)
    BY <1>4, <1>5, <1>6, <2>1
  <2>3. Ordered(r)
    <3>1. ASSUME NEW i \in DOMAIN b, NEW j \in DOMAIN b, i < j PROVE b[i] < b[j]
      <4>1. m + 1 + i < m + 1 + j
        BY <1>5, <1>6, <3>1
      <4> QED  BY <1>5, <1>6, <2>1, <4>1
    <3> QED  BY <1>4, <3>1
  <2>4. \A i \in DOMAIN a : a[i] < v
    <3>1. ASSUME NEW i \in DOMAIN a PROVE a[i] < v
      <4>1. i < m + 1
        BY <1>5, <1>6
      <4> QED  BY <1>5, <1>6, <2>1, <4>1
    <3> QED  BY <3>1
  <2>5. \A i \in DOMAIN b : v < b[i]
    <3>1. ASSUME NEW i \in DOMAIN b PROVE v < b[i]
      <4>1. m + 1 < m + 1 + i
        BY <1>5, <1>6
      <4> QED  BY <1>5, <1>6, <2>1, <4>1
    <3> QED  BY <3>1
  <2> QED  BY <1>3, <2>2, <2>3, <2>4, <2>5
<1>11. ASSUME Ordered(l), Ordered(r), \A x \in Listed(l) : x < v, \A x \in Listed(r) : v < x
       PROVE  Ordered(t)
  <2>1. \A i, j \in 1..m : i < j => a[i] < a[j]
    BY <1>4, <1>6, <1>11
  <2>2. \A i, j \in 1..n : i < j => b[i] < b[j]
    BY <1>4, <1>6, <1>11
  <2>3. /\ \A i \in 1..m : a[i] < v /\ a[i] \in Int
        /\ \A i \in 1..n : v < b[i] /\ b[i] \in Int
    BY <1>3, <1>6, <1>7, <1>11
  <2>4. ASSUME NEW i \in DOMAIN s, NEW j \in DOMAIN s, i < j PROVE s[i] < s[j]
    <3>0. i \in Int /\ j \in Int
      BY <1>5
    <3>1. CASE i \in 1..m /\ s[i] = a[i]
      <4>1. CASE j \in 1..m /\ s[j] = a[j]
        BY <2>1, <2>4, <3>1, <4>1
      <4>2. CASE j = m + 1 /\ s[j] = v
        BY <2>3, <3>1, <4>2
      <4>3. CASE j - (m + 1) \in 1..n /\ s[j] = b[j - (m + 1)]
        <5> DEFINE k == j - (m + 1)
        <5>1. k \in 1..n /\ s[j] = b[k]
          BY <4>3
        <5> HIDE DEF k
        <5>2. v < b[k] /\ b[k] \in Int /\ a[i] < v /\ a[i] \in Int /\ v \in Int
          BY <1>2, <2>3, <3>1, <5>1
        <5> QED  BY <3>1, <5>1, <5>2
      <4> QED  BY <1>8, <4>1, <4>2, <4>3
    <3>2. CASE i = m + 1 /\ s[i] = v
      <4>1. j - (m + 1) \in 1..n /\ s[j] = b[j - (m + 1)]
        BY <1>5, <1>8, <2>4, <3>0, <3>2
      <4> QED  BY <2>3, <3>2, <4>1
    <3>3. CASE i - (m + 1) \in 1..n /\ s[i] = b[i - (m + 1)]
      <4>0. ~(j \in 1..m) /\ j # m + 1
        <5>1. m \in Nat /\ n \in Nat
          BY <1>5
        <5>2. i - (m + 1) >= 1
          BY <3>0, <3>3, <5>1
        <5>3. i > m + 1
          BY <3>0, <5>1, <5>2
        <5>4. j > m + 1
          BY <2>4, <3>0, <5>1, <5>3
        <5> QED  BY <3>0, <5>1, <5>4
      <4>1. j - (m + 1) \in 1..n /\ s[j] = b[j - (m + 1)]
        BY <1>8, <4>0
      <4>2. i - (m + 1) < j - (m + 1)
        BY <1>5, <2>4, <3>0
      <4> QED  BY <2>2, <3>3, <4>1, <4>2
    <3> QED  BY <1>8, <3>1, <3>2, <3>3
  <2> QED  BY <1>4, <2>4
<1> QED
  BY <1>9, <1>10, <1>11

LEMMA EmptyLists == Listed(Empty) = {} /\ Ordered(Empty)
<1>1. flatten(Empty) = <<>> /\ DOMAIN <<>> = {}
  BY FlattenIs
<1> QED
  BY <1>1 DEF Listed, Ordered

LEMMA ListsElements == \A t \in AvlTrees : Listed(t) \subseteq Elements /\ Elements \subseteq Int
<1>1. ASSUME NEW t \in AvlTrees PROVE Listed(t) \subseteq Elements
  <2>1. flatten(t) \in Seq(Elements)
    BY FlattenIs
  <2>2. \A i \in DOMAIN flatten(t) : flatten(t)[i] \in Elements
    <3> DEFINE s == flatten(t)
    <3> HIDE DEF s
    <3>1. s \in Seq(Elements)
      BY <2>1 DEF s
    <3>2. \A i \in DOMAIN s : s[i] \in Elements
      BY <3>1
    <3> QED  BY <3>2 DEF s
  <2> QED  BY <2>2 DEF Listed
<1> QED
  BY <1>1, AvlAssumption
-----------------------------------------------------------------------------
(* Balancing                                                               *)

\* A node that knows its depth.
Made(v, l, r) == Node(v, Over(l, r), l, r)

\* What becomes of a node over l and r that is not balanced.
Turned(v, l, r) ==
    IF l.depth > r.depth
    THEN IF l.left.depth < l.right.depth
         THEN Made(l.right.value, Made(l.value, l.left, l.right.left), Made(v, l.right.right, r))
         ELSE Made(l.value, l.left, Made(v, l.right, r))
    ELSE IF r.right.depth < r.left.depth
         THEN Made(r.left.value, Made(v, l, r.left.left), Made(r.value, r.left.right, r.right))
         ELSE Made(r.value, Made(v, l, r.left), r.right)

LEMMA MadeIs ==
  ASSUME NEW v, NEW l \in AllTrees, NEW r \in AllTrees
  PROVE  /\ Made(v, l, r).value = v /\ Made(v, l, r).depth = Over(l, r)
         /\ Made(v, l, r).left = l /\ Made(v, l, r).right = r
         /\ Made(v, l, r) # Empty
         /\ v \in Elements => Made(v, l, r) \in AllTrees
<1>1. Over(l, r) \in Nat /\ Over(l, r) >= 1
  BY OverIs
<1> QED
  BY <1>1, NodeFields, NodeIsTree DEF Made

LEMMA MadeIsAvl ==
  ASSUME NEW v \in Elements, NEW l \in AvlTrees, NEW r \in AvlTrees, Balanced(l, r)
  PROVE  Made(v, l, r) \in AvlTrees
BY NodeIsAvl DEF Made

\* The side that is deeper is not empty, nor is the inner side of it when that is
\* the deeper one.
LEMMA DeepSides ==
  ASSUME NEW l \in AllTrees, NEW r \in AllTrees, ~Balanced(l, r)
  PROVE  /\ l.depth > r.depth => /\ l # Empty
                                 /\ l.left.depth < l.right.depth => l.right # Empty
         /\ ~(l.depth > r.depth) => /\ r # Empty
                                    /\ r.right.depth < r.left.depth => r.left # Empty
<1>1. /\ l.depth \in Nat /\ r.depth \in Nat
      /\ l = Empty <=> l.depth = 0
      /\ r = Empty <=> r.depth = 0
  BY DepthIsNat
<1>2. ASSUME l # Empty, l.left.depth < l.right.depth PROVE l.right # Empty
  <2>1. l.left \in AllTrees /\ l.right \in AllTrees
    BY <1>2, TreeFields
  <2>2. l.left.depth \in Nat /\ (l.right = Empty <=> l.right.depth = 0)
    BY <2>1, DepthIsNat
  <2> QED  BY <1>2, <2>2
<1>3. ASSUME r # Empty, r.right.depth < r.left.depth PROVE r.left # Empty
  <2>1. r.left \in AllTrees /\ r.right \in AllTrees
    BY <1>3, TreeFields
  <2>2. r.right.depth \in Nat /\ (r.left = Empty <=> r.left.depth = 0)
    BY <2>1, DepthIsNat
  <2> QED  BY <1>3, <2>2
<1>4. l.depth > r.depth => l # Empty
  BY <1>1
<1>5. ~(l.depth > r.depth) => r # Empty
  BY <1>1 DEF Balanced
<1> QED
  BY <1>2, <1>3, <1>4, <1>5

\* The two rotations of fix_invariant.
LEMMA FixIs ==
  ASSUME NEW v, NEW d \in Nat, d >= 1, NEW l \in AllTrees, NEW r \in AllTrees, v \in Elements
  PROVE  fix_invariant(Node(v, d, l, r)) =
           IF Balanced(l, r) THEN Node(v, d, l, r)
           ELSE IF check_invariant(Turned(v, l, r), 2) THEN Turned(v, l, r) ELSE Empty
<1> DEFINE t == Node(v, d, l, r)
<1>1. t \in AllTrees /\ t # Empty /\ t.left = l /\ t.right = r /\ t["left"] = l /\ t["right"] = r
  BY NodeFields, NodeIsTree, Replaced
<1>2. check_invariant(t, 0) <=> Balanced(l, r)
  <2> HIDE DEF t
  <2> QED  BY <1>1, CheckOfRoot
<1>3. CASE Balanced(l, r)
  <2> HIDE DEF t
  <2>1. fix_invariant(t) = t
    BY <1>2, <1>3 DEF fix_invariant
  <2> QED  BY <1>3, <2>1 DEF t
<1>4. CASE ~Balanced(l, r) /\ l.depth > r.depth
  <2>1. /\ l # Empty
        /\ l.left.depth < l.right.depth => l.right # Empty
    BY <1>4, DeepSides
  <2> DEFINE w == l.value
             x == l.left
             y == l.right
  <2>2. l = Node(w, l.depth, x, y) /\ x \in AllTrees /\ y \in AllTrees /\ l["left"] = x /\ l["right"] = y
    <3>1. l = Node(w, l.depth, x, y) /\ x \in AllTrees /\ y \in AllTrees
      BY <2>1, TreeFields
    <3>2. Node(w, l.depth, x, y)["left"] = x /\ Node(w, l.depth, x, y)["right"] = y
      BY Replaced
    <3> HIDE DEF w, x, y
    <3> QED  BY <3>1, <3>2
  <2>3. CASE x.depth < y.depth
    <3> DEFINE u == y.value
               a == y.left
               b == y.right
               inner == [t EXCEPT !["left"] = rotate(t["left"], "right", "left")]
    <3>1. y = Node(u, y.depth, a, b) /\ a \in AllTrees /\ b \in AllTrees
      BY <2>1, <2>2, <2>3, TreeFields
    <3>2. rotate(l, "right", "left") = Made(u, Made(w, x, a), b)
      <4>1. rotate(Node(w, l.depth, x, Node(u, y.depth, a, b)), "right", "left") = Made(u, Made(w, x, a), b)
        BY RotateIs DEF Made
      <4> HIDE DEF u, a, b, w, x, y
      <4> QED  BY <2>2, <3>1, <4>1
    <3>3. inner = Node(v, d, Made(u, Made(w, x, a), b), r)
      <4>1. [Node(v, d, l, r) EXCEPT !["left"] = Made(u, Made(w, x, a), b)]
              = Node(v, d, Made(u, Made(w, x, a), b), r)
        BY Replaced
      <4> HIDE DEF u, a, b, w, x, y
      <4> QED  BY <1>1, <3>2, <4>1
    <3>4. rotate(inner, "left", "right") = Turned(v, l, r)
      <4>1. rotate(Node(v, d, Made(u, Made(w, x, a), b), r), "left", "right")
              = Made(u, Made(w, x, a), Made(v, b, r))
        BY RotateIs DEF Made
      <4>2. Turned(v, l, r) = Made(u, Made(w, x, a), Made(v, b, r))
        BY <1>4, <2>3 DEF Turned
      <4> HIDE DEF u, a, b, w, x, y, inner
      <4> QED  BY <3>3, <4>1, <4>2
    <3>5. fix_invariant(t) = IF check_invariant(rotate(inner, "left", "right"), 2)
                             THEN rotate(inner, "left", "right") ELSE Empty
      <4>1. t.left.depth > t.right.depth /\ t["left"]["left"].depth < t["left"]["right"].depth
            /\ ~check_invariant(t, 0)
        BY <1>1, <1>2, <1>4, <2>2, <2>3
      <4> HIDE DEF t
      <4> QED  BY <4>1 DEF fix_invariant
    <3> HIDE DEF inner
    <3> QED  BY <1>4, <3>4, <3>5
  <2>4. CASE ~(x.depth < y.depth)
    <3>1. rotate(t, "left", "right") = Turned(v, l, r)
      <4>1. rotate(Node(v, d, Node(w, l.depth, x, y), r), "left", "right")
              = Made(w, x, Made(v, y, r))
        BY RotateIs DEF Made
      <4>2. Turned(v, l, r) = Made(w, x, Made(v, y, r))
        BY <1>4, <2>4 DEF Turned
      <4> HIDE DEF w, x, y
      <4> QED  BY <2>2, <4>1, <4>2
    <3>2. fix_invariant(t) = IF check_invariant(rotate(t, "left", "right"), 2)
                             THEN rotate(t, "left", "right") ELSE Empty
      <4>1. t.left.depth > t.right.depth /\ ~(t["left"]["left"].depth < t["left"]["right"].depth)
            /\ ~check_invariant(t, 0)
        BY <1>1, <1>2, <1>4, <2>2, <2>4
      <4> HIDE DEF t
      <4> QED  BY <4>1 DEF fix_invariant
    <3> QED  BY <1>4, <3>1, <3>2
  <2> QED  BY <2>3, <2>4
<1>5. CASE ~Balanced(l, r) /\ ~(l.depth > r.depth)
  <2>1. /\ r # Empty
        /\ r.right.depth < r.left.depth => r.left # Empty
    BY <1>5, DeepSides
  <2> DEFINE w == r.value
             x == r.left
             y == r.right
  <2>2. r = Node(w, r.depth, x, y) /\ x \in AllTrees /\ y \in AllTrees /\ r["left"] = x /\ r["right"] = y
    <3>1. r = Node(w, r.depth, x, y) /\ x \in AllTrees /\ y \in AllTrees
      BY <2>1, TreeFields
    <3>2. Node(w, r.depth, x, y)["left"] = x /\ Node(w, r.depth, x, y)["right"] = y
      BY Replaced
    <3> HIDE DEF w, x, y
    <3> QED  BY <3>1, <3>2
  <2>3. CASE y.depth < x.depth
    <3> DEFINE u == x.value
               a == x.left
               b == x.right
               inner == [t EXCEPT !["right"] = rotate(t["right"], "left", "right")]
    <3>1. x = Node(u, x.depth, a, b) /\ a \in AllTrees /\ b \in AllTrees
      BY <2>1, <2>2, <2>3, TreeFields
    <3>2. rotate(r, "left", "right") = Made(u, a, Made(w, b, y))
      <4>1. rotate(Node(w, r.depth, Node(u, x.depth, a, b), y), "left", "right") = Made(u, a, Made(w, b, y))
        BY RotateIs DEF Made
      <4> HIDE DEF u, a, b, w, x, y
      <4> QED  BY <2>2, <3>1, <4>1
    <3>3. inner = Node(v, d, l, Made(u, a, Made(w, b, y)))
      <4>1. [Node(v, d, l, r) EXCEPT !["right"] = Made(u, a, Made(w, b, y))]
              = Node(v, d, l, Made(u, a, Made(w, b, y)))
        BY Replaced
      <4> HIDE DEF u, a, b, w, x, y
      <4> QED  BY <1>1, <3>2, <4>1
    <3>4. rotate(inner, "right", "left") = Turned(v, l, r)
      <4>1. rotate(Node(v, d, l, Made(u, a, Made(w, b, y))), "right", "left")
              = Made(u, Made(v, l, a), Made(w, b, y))
        BY RotateIs DEF Made
      <4>2. Turned(v, l, r) = Made(u, Made(v, l, a), Made(w, b, y))
        BY <1>5, <2>3 DEF Turned
      <4> HIDE DEF u, a, b, w, x, y, inner
      <4> QED  BY <3>3, <4>1, <4>2
    <3>5. fix_invariant(t) = IF check_invariant(rotate(inner, "right", "left"), 2)
                             THEN rotate(inner, "right", "left") ELSE Empty
      <4>1. ~(t.left.depth > t.right.depth) /\ t["right"]["right"].depth < t["right"]["left"].depth
            /\ ~check_invariant(t, 0)
        BY <1>1, <1>2, <1>5, <2>2, <2>3
      <4> HIDE DEF t
      <4> QED  BY <4>1 DEF fix_invariant
    <3> HIDE DEF inner
    <3> QED  BY <1>5, <3>4, <3>5
  <2>4. CASE ~(y.depth < x.depth)
    <3>1. rotate(t, "right", "left") = Turned(v, l, r)
      <4>1. rotate(Node(v, d, l, Node(w, r.depth, x, y)), "right", "left")
              = Made(w, Made(v, l, x), y)
        BY RotateIs DEF Made
      <4>2. Turned(v, l, r) = Made(w, Made(v, l, x), y)
        BY <1>5, <2>4 DEF Turned
      <4> HIDE DEF w, x, y
      <4> QED  BY <2>2, <4>1, <4>2
    <3>2. fix_invariant(t) = IF check_invariant(rotate(t, "right", "left"), 2)
                             THEN rotate(t, "right", "left") ELSE Empty
      <4>1. ~(t.left.depth > t.right.depth) /\ ~(t["right"]["right"].depth < t["right"]["left"].depth)
            /\ ~check_invariant(t, 0)
        BY <1>1, <1>2, <1>5, <2>2, <2>4
      <4> HIDE DEF t
      <4> QED  BY <4>1 DEF fix_invariant
    <3> QED  BY <1>5, <3>1, <3>2
  <2> QED  BY <2>3, <2>4
<1> QED
  BY <1>3, <1>4, <1>5

\* Turning keeps a tree a tree.
LEMMA TurnedIsTree ==
  ASSUME NEW v \in Elements, NEW l \in AllTrees, NEW r \in AllTrees, ~Balanced(l, r)
  PROVE  Turned(v, l, r) \in AllTrees
<1>1. /\ l.depth > r.depth => /\ l # Empty
                              /\ l.left.depth < l.right.depth => l.right # Empty
      /\ ~(l.depth > r.depth) => /\ r # Empty
                                 /\ r.right.depth < r.left.depth => r.left # Empty
  BY DeepSides
<1>2. \A t \in AllTrees : t # Empty => t.value \in Elements /\ t.left \in AllTrees /\ t.right \in AllTrees
  BY TreeFields
<1>3. \A u \in Elements : \A x, y \in AllTrees : Made(u, x, y) \in AllTrees
  BY MadeIs
<1> QED
  BY <1>1, <1>2, <1>3 DEF Turned

\* v may stand between what l and r list.
Between(l, v, r) ==
    /\ Ordered(l) /\ Ordered(r)
    /\ \A x \in Listed(l) : x < v
    /\ \A x \in Listed(r) : v < x

\* t lists what a node with v over l and r does, in order if that does.
IsOver(t, l, v, r) ==
    /\ Listed(t) = Listed(l) \cup {v} \cup Listed(r)
    /\ Ordered(t) <=> Between(l, v, r)

LEMMA MadeLists ==
  ASSUME NEW v \in Elements, NEW l \in AvlTrees, NEW r \in AvlTrees, Balanced(l, r)
  PROVE  /\ Made(v, l, r) \in AvlTrees
         /\ Made(v, l, r).depth = Over(l, r)
         /\ IsOver(Made(v, l, r), l, v, r)
<1>1. l \in AllTrees /\ r \in AllTrees
  BY AvlFields
<1>2. /\ Made(v, l, r).value = v /\ Made(v, l, r).depth = Over(l, r)
      /\ Made(v, l, r).left = l /\ Made(v, l, r).right = r
      /\ Made(v, l, r) # Empty /\ Made(v, l, r) \in AvlTrees
  BY <1>1, MadeIs, MadeIsAvl
<1> QED
  BY <1>2, ListIs DEF Between, IsOver

LEMMA SplitLists ==
  ASSUME NEW t \in AvlTrees, t # Empty
  PROVE  /\ IsOver(t, t.left, t.value, t.right)
         /\ t.value \in Elements /\ t.left \in AvlTrees /\ t.right \in AvlTrees
<1>1. t.value \in Elements /\ t.left \in AvlTrees /\ t.right \in AvlTrees
  BY AvlFields
<1> QED
  BY <1>1, ListIs DEF Between, IsOver

\* What is promised of a tree u that is made of l, v and r.
Holds(u, l, v, r) ==
    /\ u \in AvlTrees
    /\ u.depth = Over(l, r) \/ u.depth = Over(l, r) - 1
    /\ Listed(u) = Listed(l) \cup {v} \cup Listed(r)
    /\ Between(l, v, r) => Ordered(u)

\* Both orders of two nested nodes list the same.
LEMMA OrderOfTurn ==
  ASSUME NEW A \in SUBSET Int, NEW B \in SUBSET Int, NEW C \in SUBSET Int, NEW p \in Int, NEW q \in Int
  PROVE  /\ (A \cup {p} \cup B) \cup {q} \cup C = A \cup {p} \cup (B \cup {q} \cup C)
         /\ ((\A x \in A : x < p) /\ (\A x \in B : p < x) /\ (\A x \in A \cup {p} \cup B : x < q) /\ (\A x \in C : q < x))
            <=> ((\A x \in B : x < q) /\ (\A x \in C : q < x) /\ (\A x \in A : x < p) /\ (\A x \in B \cup {q} \cup C : p < x))
<1>1. (A \cup {p} \cup B) \cup {q} \cup C = A \cup {p} \cup (B \cup {q} \cup C)
  OBVIOUS
<1>2. ASSUME \A x \in A : x < p, \A x \in B : p < x, \A x \in A \cup {p} \cup B : x < q, \A x \in C : q < x
      PROVE  (\A x \in B : x < q) /\ (\A x \in B \cup {q} \cup C : p < x)
  <2>1. p < q
    BY <1>2
  <2>2. \A x \in C : p < x
    BY <1>2, <2>1
  <2> QED  BY <1>2, <2>1, <2>2
<1>3. ASSUME \A x \in B : x < q, \A x \in C : q < x, \A x \in A : x < p, \A x \in B \cup {q} \cup C : p < x
      PROVE  (\A x \in B : p < x) /\ (\A x \in A \cup {p} \cup B : x < q)
  <2>1. p < q
    BY <1>3
  <2>2. \A x \in A : x < q
    BY <1>3, <2>1
  <2> QED  BY <1>3, <2>1, <2>2
<1> QED
  BY <1>1, <1>2, <1>3

\* A rotation: of the nodes over x, p, y and q, z either may be the upper one.
LEMMA TurnLists ==
  ASSUME NEW x \in AvlTrees, NEW y \in AvlTrees, NEW z \in AvlTrees, NEW p \in Elements, NEW q \in Elements,
         NEW s \in AvlTrees, NEW t \in AvlTrees,
         IsOver(s, x, p, y), IsOver(t, y, q, z)
  PROVE  /\ Listed(s) \cup {q} \cup Listed(z) = Listed(x) \cup {p} \cup Listed(t)
         /\ Between(s, q, z) <=> Between(x, p, t)
<1>1. /\ Listed(x) \in SUBSET Int /\ Listed(y) \in SUBSET Int /\ Listed(z) \in SUBSET Int
      /\ p \in Int /\ q \in Int
  BY ListsElements
<1> DEFINE A == Listed(x)
           B == Listed(y)
           C == Listed(z)
<1>2. /\ (A \cup {p} \cup B) \cup {q} \cup C = A \cup {p} \cup (B \cup {q} \cup C)
      /\ ((\A i \in A : i < p) /\ (\A i \in B : p < i) /\ (\A i \in A \cup {p} \cup B : i < q) /\ (\A i \in C : q < i))
         <=> ((\A i \in B : i < q) /\ (\A i \in C : q < i) /\ (\A i \in A : i < p) /\ (\A i \in B \cup {q} \cup C : p < i))
  BY <1>1, OrderOfTurn
<1> HIDE DEF A, B, C
<1>3. /\ Listed(s) = A \cup {p} \cup B /\ Listed(t) = B \cup {q} \cup C
      /\ Listed(x) = A /\ Listed(y) = B /\ Listed(z) = C
  BY DEF A, B, C, IsOver
<1>4. Between(s, q, z) <=> /\ Ordered(x) /\ Ordered(y) /\ Ordered(z)
                           /\ \A i \in A : i < p
                           /\ \A i \in B : p < i
                           /\ \A i \in A \cup {p} \cup B : i < q
                           /\ \A i \in C : q < i
  BY <1>3 DEF Between, IsOver
<1>5. Between(x, p, t) <=> /\ Ordered(x) /\ Ordered(y) /\ Ordered(z)
                           /\ \A i \in B : i < q
                           /\ \A i \in C : q < i
                           /\ \A i \in A : i < p
                           /\ \A i \in B \cup {q} \cup C : p < i
  BY <1>3 DEF Between, IsOver
<1> QED
  BY <1>2, <1>3, <1>4, <1>5

LEMMA TurnedHolds ==
  ASSUME NEW v \in Elements, NEW l \in AvlTrees, NEW r \in AvlTrees, ~Balanced(l, r),
         l.depth <= r.depth + 2, r.depth <= l.depth + 2
  PROVE  Holds(Turned(v, l, r), l, v, r)
<1>0. /\ l \in AllTrees /\ r \in AllTrees /\ l.depth \in Nat /\ r.depth \in Nat
  BY AvlFields
<1>1. \A t \in AvlTrees : t.depth \in Nat
  BY AvlFields
<1>2. /\ l.depth > r.depth => l.depth = r.depth + 2 /\ Over(l, r) = l.depth + 1
      /\ ~(l.depth > r.depth) => r.depth = l.depth + 2 /\ Over(l, r) = r.depth + 1
  BY <1>0 DEF Balanced, Over, Higher
<1>3. /\ l.depth > r.depth => /\ l # Empty
                              /\ l.left.depth < l.right.depth => l.right # Empty
      /\ ~(l.depth > r.depth) => /\ r # Empty
                                 /\ r.right.depth < r.left.depth => r.left # Empty
  BY <1>0, DeepSides
<1>4. CASE l.depth > r.depth
  <2> DEFINE w == l.value
             x == l.left
             y == l.right
  <2>1. /\ x \in AvlTrees /\ y \in AvlTrees /\ w \in Elements
        /\ Balanced(x, y) /\ l.depth = Over(x, y)
        /\ IsOver(l, x, w, y)
    BY <1>3, <1>4, AvlFields, SplitLists
  <2>2. x.depth \in Nat /\ y.depth \in Nat
    BY <1>1, <2>1
  <2>3. CASE x.depth < y.depth
    <3> DEFINE u == y.value
               a == y.left
               b == y.right
               s == Made(w, x, a)
               n == Made(v, b, r)
    <3>1. /\ a \in AvlTrees /\ b \in AvlTrees /\ u \in Elements
          /\ Balanced(a, b) /\ y.depth = Over(a, b)
          /\ IsOver(y, a, u, b)
      BY <1>3, <1>4, <2>1, <2>3, AvlFields, SplitLists
    <3>2. Turned(v, l, r) = Made(u, s, n)
      BY <1>4, <2>3 DEF Turned
    <3> HIDE DEF w, x, y, u, a, b
    <3>3. a.depth \in Nat /\ b.depth \in Nat
      BY <1>1, <3>1
    <3>4. /\ Balanced(x, a) /\ Balanced(b, r)
          /\ Over(x, a) = r.depth + 1 /\ Over(b, r) = r.depth + 1
      BY <1>0, <1>2, <1>4, <2>1, <2>2, <2>3, <3>1, <3>3 DEF Balanced, Over, Higher
    <3>5. /\ s \in AvlTrees /\ s.depth = r.depth + 1
          /\ IsOver(s, x, w, a)
      BY <2>1, <3>1, <3>4, MadeLists
    <3>6. /\ n \in AvlTrees /\ n.depth = r.depth + 1
          /\ IsOver(n, b, v, r)
      BY <3>1, <3>4, MadeLists
    <3> HIDE DEF s, n
    <3>7. Balanced(s, n) /\ Over(s, n) = r.depth + 2
      BY <1>0, <3>5, <3>6 DEF Balanced, Over, Higher
    <3>8. /\ Made(u, s, n) \in AvlTrees /\ Made(u, s, n).depth = r.depth + 2
          /\ IsOver(Made(u, s, n), s, u, n)
      BY <3>1, <3>5, <3>6, <3>7, MadeLists
    <3>9. /\ Listed(s) \cup {u} \cup Listed(b) = Listed(x) \cup {w} \cup Listed(y)
          /\ Between(s, u, b) <=> Between(x, w, y)
      <4>1. x \in AvlTrees /\ w \in Elements /\ y \in AvlTrees /\ IsOver(y, a, u, b)
        BY <2>1, <3>1
      <4>2. a \in AvlTrees /\ b \in AvlTrees /\ u \in Elements /\ s \in AvlTrees /\ IsOver(s, x, w, a)
        BY <3>1, <3>5
      <4> QED  BY ONLY <4>1, <4>2, TurnLists, SMTT(60)
    <3>10. /\ Listed(l) \cup {v} \cup Listed(r) = Listed(s) \cup {u} \cup Listed(n)
           /\ Between(l, v, r) <=> Between(s, u, n)
      <4>1. Listed(l) = Listed(s) \cup {u} \cup Listed(b) /\ (Ordered(l) <=> Between(s, u, b))
        BY <2>1, <3>9 DEF IsOver
      <4>2. IsOver(l, s, u, b)
        BY <4>1 DEF IsOver
      <4> QED  BY <3>1, <3>5, <3>6, <4>2, TurnLists
    <3>11. r.depth + 2 = Over(l, r) - 1
      BY <1>0, <1>2, <1>4
    <3> QED  BY <3>2, <3>8, <3>10, <3>11 DEF Holds, IsOver
  <2>4. CASE ~(x.depth < y.depth)
    <3> DEFINE n == Made(v, y, r)
    <3>1. Turned(v, l, r) = Made(w, x, n)
      BY <1>4, <2>4 DEF Turned
    <3> HIDE DEF w, x, y
    <3>2. Balanced(y, r) /\ x.depth = r.depth + 1 /\ (Over(y, r) = r.depth + 1 \/ Over(y, r) = r.depth + 2)
      BY <1>0, <1>2, <1>4, <2>1, <2>2, <2>4 DEF Balanced, Over, Higher
    <3>3. /\ n \in AvlTrees /\ n.depth = Over(y, r)
          /\ IsOver(n, y, v, r)
      BY <2>1, <3>2, MadeLists
    <3> HIDE DEF n
    <3>4. Balanced(x, n) /\ (Over(x, n) = r.depth + 2 \/ Over(x, n) = r.depth + 3)
      BY <1>0, <3>2, <3>3 DEF Balanced, Over, Higher
    <3>5. /\ Made(w, x, n) \in AvlTrees /\ Made(w, x, n).depth = Over(x, n)
          /\ IsOver(Made(w, x, n), x, w, n)
      BY <2>1, <3>3, <3>4, MadeLists
    <3>6. /\ Listed(l) \cup {v} \cup Listed(r) = Listed(x) \cup {w} \cup Listed(n)
          /\ Between(l, v, r) <=> Between(x, w, n)
      BY <2>1, <3>3, TurnLists
    <3>7. Over(x, n) = Over(l, r) \/ Over(x, n) = Over(l, r) - 1
      BY <1>0, <1>2, <1>4, <3>4
    <3> QED  BY <3>1, <3>5, <3>6, <3>7 DEF Holds, IsOver
  <2> QED  BY <2>3, <2>4
<1>5. CASE ~(l.depth > r.depth)
  <2> DEFINE w == r.value
             x == r.left
             y == r.right
  <2>1. /\ x \in AvlTrees /\ y \in AvlTrees /\ w \in Elements
        /\ Balanced(x, y) /\ r.depth = Over(x, y)
        /\ IsOver(r, x, w, y)
    BY <1>3, <1>5, AvlFields, SplitLists
  <2>2. x.depth \in Nat /\ y.depth \in Nat
    BY <1>1, <2>1
  <2>3. CASE y.depth < x.depth
    <3> DEFINE u == x.value
               a == x.left
               b == x.right
               s == Made(v, l, a)
               n == Made(w, b, y)
    <3>1. /\ a \in AvlTrees /\ b \in AvlTrees /\ u \in Elements
          /\ Balanced(a, b) /\ x.depth = Over(a, b)
          /\ IsOver(x, a, u, b)
      BY <1>3, <1>5, <2>1, <2>3, AvlFields, SplitLists
    <3>2. Turned(v, l, r) = Made(u, s, n)
      BY <1>5, <2>3 DEF Turned
    <3> HIDE DEF w, x, y, u, a, b
    <3>3. a.depth \in Nat /\ b.depth \in Nat
      BY <1>1, <3>1
    <3>4. /\ Balanced(l, a) /\ Balanced(b, y)
          /\ Over(l, a) = l.depth + 1 /\ Over(b, y) = l.depth + 1
      BY <1>0, <1>2, <1>5, <2>1, <2>2, <2>3, <3>1, <3>3 DEF Balanced, Over, Higher
    <3>5. /\ s \in AvlTrees /\ s.depth = l.depth + 1
          /\ IsOver(s, l, v, a)
      BY <3>1, <3>4, MadeLists
    <3>6. /\ n \in AvlTrees /\ n.depth = l.depth + 1
          /\ IsOver(n, b, w, y)
      BY <2>1, <3>1, <3>4, MadeLists
    <3> HIDE DEF s, n
    <3>7. Balanced(s, n) /\ Over(s, n) = l.depth + 2
      BY <1>0, <3>5, <3>6 DEF Balanced, Over, Higher
    <3>8. /\ Made(u, s, n) \in AvlTrees /\ Made(u, s, n).depth = l.depth + 2
          /\ IsOver(Made(u, s, n), s, u, n)
      BY <3>1, <3>5, <3>6, <3>7, MadeLists
    <3>9. /\ Listed(x) \cup {w} \cup Listed(y) = Listed(a) \cup {u} \cup Listed(n)
          /\ Between(x, w, y) <=> Between(a, u, n)
      <4>1. x \in AvlTrees /\ w \in Elements /\ y \in AvlTrees /\ IsOver(x, a, u, b)
        BY <2>1, <3>1
      <4>2. a \in AvlTrees /\ b \in AvlTrees /\ u \in Elements /\ n \in AvlTrees /\ IsOver(n, b, w, y)
        BY <3>1, <3>6
      <4> QED  BY ONLY <4>1, <4>2, TurnLists, SMTT(60)
    <3>10. /\ Listed(s) \cup {u} \cup Listed(n) = Listed(l) \cup {v} \cup Listed(r)
           /\ Between(s, u, n) <=> Between(l, v, r)
      <4>1. Listed(r) = Listed(a) \cup {u} \cup Listed(n) /\ (Ordered(r) <=> Between(a, u, n))
        BY <2>1, <3>9 DEF IsOver
      <4>2. IsOver(r, a, u, n)
        BY <4>1 DEF IsOver
      <4> QED  BY <3>1, <3>5, <3>6, <4>2, TurnLists
    <3>11. l.depth + 2 = Over(l, r) - 1
      BY <1>0, <1>2, <1>5
    <3> QED  BY <3>2, <3>8, <3>10, <3>11 DEF Holds, IsOver
  <2>4. CASE ~(y.depth < x.depth)
    <3> DEFINE s == Made(v, l, x)
    <3>1. Turned(v, l, r) = Made(w, s, y)
      BY <1>5, <2>4 DEF Turned
    <3> HIDE DEF w, x, y
    <3>2. Balanced(l, x) /\ y.depth = l.depth + 1 /\ (Over(l, x) = l.depth + 1 \/ Over(l, x) = l.depth + 2)
      BY <1>0, <1>2, <1>5, <2>1, <2>2, <2>4 DEF Balanced, Over, Higher
    <3>3. /\ s \in AvlTrees /\ s.depth = Over(l, x)
          /\ IsOver(s, l, v, x)
      BY <2>1, <3>2, MadeLists
    <3> HIDE DEF s
    <3>4. Balanced(s, y) /\ (Over(s, y) = l.depth + 2 \/ Over(s, y) = l.depth + 3)
      BY <1>0, <3>2, <3>3 DEF Balanced, Over, Higher
    <3>5. /\ Made(w, s, y) \in AvlTrees /\ Made(w, s, y).depth = Over(s, y)
          /\ IsOver(Made(w, s, y), s, w, y)
      BY <2>1, <3>3, <3>4, MadeLists
    <3>6. /\ Listed(s) \cup {w} \cup Listed(y) = Listed(l) \cup {v} \cup Listed(r)
          /\ Between(s, w, y) <=> Between(l, v, r)
      BY <2>1, <3>3, TurnLists
    <3>7. Over(s, y) = Over(l, r) \/ Over(s, y) = Over(l, r) - 1
      BY <1>0, <1>2, <1>5, <3>4
    <3> QED  BY <3>1, <3>5, <3>6, <3>7 DEF Holds, IsOver
  <2> QED  BY <2>3, <2>4
<1> QED
  BY <1>4, <1>5

\* A node over two trees that differ by two levels at most.
LEMMA FixHolds ==
  ASSUME NEW v \in Elements, NEW d \in Nat, d >= 1, NEW l \in AvlTrees, NEW r \in AvlTrees,
         l.depth <= r.depth + 2, r.depth <= l.depth + 2
  PROVE  /\ Holds(fix_invariant(update_depth(Node(v, d, l, r))), l, v, r)
         /\ Balanced(l, r) => fix_invariant(update_depth(Node(v, d, l, r))).depth = Over(l, r)
<1>1. /\ l \in AllTrees /\ r \in AllTrees /\ Over(l, r) \in Nat /\ Over(l, r) >= 1
  BY AvlFields, OverIs
<1>2. update_depth(Node(v, d, l, r)) = Node(v, Over(l, r), l, r)
  BY UpdateIs
<1>3. fix_invariant(Node(v, Over(l, r), l, r)) =
           IF Balanced(l, r) THEN Node(v, Over(l, r), l, r)
           ELSE IF check_invariant(Turned(v, l, r), 2) THEN Turned(v, l, r) ELSE Empty
  BY <1>1, FixIs
<1>4. CASE Balanced(l, r)
  <2>1. fix_invariant(update_depth(Node(v, d, l, r))) = Made(v, l, r)
    BY <1>2, <1>3, <1>4 DEF Made
  <2> QED  BY <1>4, <2>1, MadeLists DEF Holds, IsOver
<1>5. CASE ~Balanced(l, r)
  <2>1. Holds(Turned(v, l, r), l, v, r)
    BY <1>5, TurnedHolds
  <2>2. check_invariant(Turned(v, l, r), 2)
    <3>1. Turned(v, l, r) \in AvlTrees /\ 2 \in Nat
      BY <2>1 DEF Holds
    <3> QED  BY <3>1, AvlChecks
  <2>3. fix_invariant(update_depth(Node(v, d, l, r))) = Turned(v, l, r)
    BY <1>2, <1>3, <1>5, <2>2
  <2> QED  BY <1>5, <2>1, <2>3
<1> QED
  BY <1>4, <1>5

\* Any tree stays one.
LEMMA FixIsTree ==
  ASSUME NEW v \in Elements, NEW d \in Nat, d >= 1, NEW l \in AllTrees, NEW r \in AllTrees
  PROVE  fix_invariant(update_depth(Node(v, d, l, r))) \in AllTrees
<1>1. Over(l, r) \in Nat /\ Over(l, r) >= 1
  BY OverIs
<1>2. update_depth(Node(v, d, l, r)) = Node(v, Over(l, r), l, r)
  BY UpdateIs
<1>3. fix_invariant(Node(v, Over(l, r), l, r)) =
           IF Balanced(l, r) THEN Node(v, Over(l, r), l, r)
           ELSE IF check_invariant(Turned(v, l, r), 2) THEN Turned(v, l, r) ELSE Empty
  BY <1>1, FixIs
<1>4. Node(v, Over(l, r), l, r) \in AllTrees
  BY <1>1, NodeIsTree
<1>5. ~Balanced(l, r) => Turned(v, l, r) \in AllTrees
  BY TurnedIsTree
<1>6. Empty \in AllTrees
  BY EmptyIsTree
<1> QED
  BY <1>2, <1>3, <1>4, <1>5, <1>6
-----------------------------------------------------------------------------
(* Insertion and erasure                                                   *)

LEMMA SidesAre ==
  ASSUME NEW t \in AllTrees, t # Empty, NEW v
  PROVE  /\ SideOf(t, v) \in {"left", "right"}
         /\ t["left"] = t.left /\ t["right"] = t.right
         /\ t[SideOf(t, v)] \in {t.left, t.right}
         /\ \A s : [t EXCEPT ![SideOf(t, v)] = s] =
                     IF t.value > v THEN Node(t.value, t.depth, s, t.right)
                     ELSE Node(t.value, t.depth, t.left, s)
         /\ t[SideOf(t, v)] = IF t.value > v THEN t.left ELSE t.right
<1> DEFINE p == t.value
           d == t.depth
           x == t.left
           y == t.right
<1>1. t = Node(p, d, x, y)
  BY TreeFields
<1>2. t["left"] = x /\ t["right"] = y
  <2>1. Node(p, d, x, y)["left"] = x /\ Node(p, d, x, y)["right"] = y
    BY Replaced
  <2> HIDE DEF p, d, x, y
  <2> QED  BY <1>1, <2>1
<1>3. ASSUME NEW s
      PROVE  /\ [t EXCEPT !["left"] = s] = Node(p, d, s, y)
             /\ [t EXCEPT !["right"] = s] = Node(p, d, x, s)
  <2>1. /\ [Node(p, d, x, y) EXCEPT !["left"] = s] = Node(p, d, s, y)
        /\ [Node(p, d, x, y) EXCEPT !["right"] = s] = Node(p, d, x, s)
    BY Replaced
  <2> HIDE DEF p, d, x, y
  <2> QED  BY <1>1, <2>1
<1> HIDE DEF p, d, x, y
<1>4. SideOf(t, v) = IF p > v THEN "left" ELSE "right"
  BY DEF SideOf, p
<1>5. CASE p > v
  <2>1. SideOf(t, v) = "left"
    BY <1>4, <1>5
  <2>2. \A s : [t EXCEPT ![SideOf(t, v)] = s] = Node(p, d, s, y)
    BY <1>3, <2>1
  <2> QED  BY <1>2, <1>5, <2>1, <2>2 DEF p, d, x, y
<1>6. CASE ~(p > v)
  <2>1. SideOf(t, v) = "right"
    BY <1>4, <1>6
  <2>2. \A s : [t EXCEPT ![SideOf(t, v)] = s] = Node(p, d, x, s)
    BY <1>3, <2>1
  <2> QED  BY <1>2, <1>6, <2>1, <2>2 DEF p, d, x, y
<1> QED
  BY <1>5, <1>6

\* A descent to where v belongs: e where that is empty, g where v is.
Rebuilt(t, v, s) == fix_invariant(update_depth([t EXCEPT ![SideOf(t, v)] = s]))

DescentStep(f, v, e, g, h, t) ==
    IF t = Empty THEN e
    ELSE IF t.value = v THEN g[<<h, t>>]
    ELSE Rebuilt(t, v, f[h - 1][t[SideOf(t, v)]])

LEMMA RebuiltIsTree ==
  ASSUME NEW t \in AllTrees, t # Empty, NEW v, NEW s \in AllTrees
  PROVE  Rebuilt(t, v, s) \in AllTrees
<1>1. /\ t.value \in Elements /\ t.depth \in Nat /\ t.depth >= 1
      /\ t.left \in AllTrees /\ t.right \in AllTrees
  BY TreeFields
<1>2. \/ [t EXCEPT ![SideOf(t, v)] = s] = Node(t.value, t.depth, s, t.right)
      \/ [t EXCEPT ![SideOf(t, v)] = s] = Node(t.value, t.depth, t.left, s)
  BY SidesAre
<1>3. /\ fix_invariant(update_depth(Node(t.value, t.depth, s, t.right))) \in AllTrees
      /\ fix_invariant(update_depth(Node(t.value, t.depth, t.left, s))) \in AllTrees
  BY <1>1, FixIsTree
<1> QED
  BY <1>2, <1>3 DEF Rebuilt

Descends(f, v, e, g) == f = [h \in Nat |-> [t \in Trees[h] |-> DescentStep(f, v, e, g, h, t)]]

LEMMA DescentExists ==
  ASSUME NEW v, NEW e \in AllTrees, NEW g \in Maps(Places, AllTrees)
  PROVE  \E f : Descends(f, v, e, g)
<1> DEFINE M == Maps(Places, AllTrees)
           Next(x) == <<x[1] - 1, x[2][SideOf(x[2], v)]>>
           At(f, x) == IF x[2] = Empty THEN e
                       ELSE IF x[2].value = v THEN g[x]
                       ELSE Rebuilt(x[2], v, f[Next(x)])
           D == [f \in M |-> [x \in Places |-> At(f, x)]]
           rank == [x \in Places |-> x[1]]
<1>1. ASSUME NEW x \in Places, x[2] # Empty
      PROVE  Next(x) \in Places /\ rank[Next(x)] < rank[x] /\ x[2] \in AllTrees
  <2>1. x[2] \in AllTrees
    BY DEF Places
  <2>2. /\ <<x[1] - 1, x[2].left>> \in Places /\ <<x[1] - 1, x[2].right>> \in Places
        /\ x[1] - 1 < x[1]
    BY <1>1, PlacesBelow
  <2>3. x[2][SideOf(x[2], v)] \in {x[2].left, x[2].right}
    BY <1>1, <2>1, SidesAre
  <2>4. Next(x) \in Places /\ Next(x)[1] = x[1] - 1
    BY <2>2, <2>3
  <2> HIDE DEF Next
  <2>5. rank[Next(x)] = x[1] - 1 /\ rank[x] = x[1]
    BY <2>4
  <2> QED  BY <2>1, <2>2, <2>4, <2>5
<1> HIDE DEF Next
<1>2. D \in Maps(M, M)
  <2>1. ASSUME NEW f \in M, NEW x \in Places PROVE At(f, x) \in AllTrees
    <3>1. CASE x[2] = Empty
      BY <3>1
    <3>2. CASE x[2] # Empty
      <4>1. g[x] \in AllTrees
        BY DEF Maps
      <4>2. f[Next(x)] \in AllTrees
        BY <1>1, <3>2 DEF Maps
      <4>3. Rebuilt(x[2], v, f[Next(x)]) \in AllTrees
        BY <1>1, <3>2, <4>2, RebuiltIsTree
      <4> QED  BY <3>2, <4>1, <4>3
    <3> QED  BY <3>1, <3>2
  <2>2. \A f \in M : [x \in Places |-> At(f, x)] \in M
    <3> HIDE DEF At
    <3> QED  BY <2>1 DEF Maps
  <2> HIDE DEF M, At
  <2> QED  BY <2>2 DEF Maps
<1>3. ASSUME NEW p \in M, NEW q \in M, NEW x \in Places,
             \A y \in Places : rank[y] < rank[x] => p[y] = q[y]
      PROVE  D[p][x] = D[q][x]
  <2>1. At(p, x) = At(q, x)
    <3>1. CASE x[2] = Empty
      BY <3>1
    <3>2. CASE x[2] # Empty
      <4>1. p[Next(x)] = q[Next(x)]
        <5> HIDE DEF rank, M
        <5> QED  BY <1>1, <1>3, <3>2
      <4> QED  BY <3>2, <4>1
    <3> QED  BY <3>1, <3>2
  <2> HIDE DEF M, At
  <2> QED  BY <2>1
<1>4. rank \in Maps(Places, Nat) /\ M # {}
  BY PlacesAre
<1>5. \E f \in M : D[f] = f
  <2> HIDE DEF D, rank
  <2> QED  BY <1>2, <1>3, <1>4, RecursiveFunctionExists
<1>6. PICK f \in M : D[f] = f
  BY <1>5
<1>7. \A x \in Places : f[x] = At(f, x)
  <2>1. f = [x \in Places |-> At(f, x)]
    <3> HIDE DEF M, At
    <3> QED  BY <1>6
  <2> HIDE DEF At, M
  <2> QED  BY <2>1
<1> HIDE DEF D
<1> DEFINE F == [h \in Nat |-> [t \in Trees[h] |-> f[<<h, t>>]]]
<1>8. ASSUME NEW h \in Nat, NEW t \in Trees[h] PROVE f[<<h, t>>] = DescentStep(F, v, e, g, h, t)
  <2>1. <<h, t>> \in Places /\ <<h, t>>[1] = h /\ <<h, t>>[2] = t
    BY PlacesAre
  <2>2. f[<<h, t>>] = At(f, <<h, t>>)
    BY <1>7, <2>1
  <2>3. CASE t = Empty
    BY <2>1, <2>2, <2>3 DEF DescentStep
  <2>4. CASE t # Empty
    <3> DEFINE s == t[SideOf(t, v)]
    <3>1. h - 1 \in Nat /\ s \in Trees[h - 1]
      <4>1. t \in AllTrees
        BY DEF AllTrees
      <4> QED  BY <2>4, <4>1, ChildrenAreTrees, SidesAre
    <3>2. F[h - 1][s] = f[<<h - 1, s>>]
      <4> HIDE DEF s
      <4> QED  BY <3>1
    <3>3. Next(<<h, t>>) = <<h - 1, s>>
      BY <2>1 DEF Next
    <3>4. f[<<h, t>>] = IF t.value = v THEN g[<<h, t>>] ELSE Rebuilt(t, v, f[<<h - 1, s>>])
      <4> HIDE DEF s
      <4> QED  BY <2>1, <2>2, <2>4, <3>3
    <3> HIDE DEF F
    <3> QED  BY <2>4, <3>2, <3>4 DEF DescentStep
  <2> QED  BY <2>3, <2>4
<1>9. F = [h \in Nat |-> [t \in Trees[h] |-> DescentStep(F, v, e, g, h, t)]]
  <2>1. \A h \in Nat : [t \in Trees[h] |-> f[<<h, t>>]] = [t \in Trees[h] |-> DescentStep(F, v, e, g, h, t)]
    <3> HIDE DEF F
    <3> QED  BY <1>8
  <2>2. [h \in Nat |-> [t \in Trees[h] |-> f[<<h, t>>]]]
          = [h \in Nat |-> [t \in Trees[h] |-> DescentStep(F, v, e, g, h, t)]]
    <3> HIDE DEF F
    <3> QED  BY <2>1
  <2> QED  BY <2>2
<1> QED
  <2> HIDE DEF F
  <2> QED  BY <1>9 DEF Descends

InsertStep(f, v, h, t) ==
    IF t = Empty THEN Leaf(v)
    ELSE IF t.value = v THEN t
    ELSE fix_invariant(update_depth([t EXCEPT ![SideOf(t, v)] = f[h - 1][@]]))

\* The function of insert.
Insertion(v) == CHOOSE f : f = [h \in Nat |-> [t \in Trees[h] |-> InsertStep(f, v, h, t)]]

LEMMA LeafIs ==
  ASSUME NEW v \in Elements
  PROVE  Leaf(v) = Made(v, Empty, Empty) /\ Leaf(v) \in AvlTrees /\ Leaf(v).depth = 1 /\ IsOver(Leaf(v), Empty, v, Empty)
<1>1. Empty.depth = 0
  BY DEF Empty
<1>2. Over(Empty, Empty) = 1 /\ Balanced(Empty, Empty)
  BY <1>1 DEF Over, Higher, Balanced
<1>3. Leaf(v) = Made(v, Empty, Empty)
  BY <1>2 DEF Leaf, Made, Node
<1> QED
  BY <1>2, <1>3, EmptyIsAvl, MadeLists

LEMMA InsertionExists ==
  ASSUME NEW v \in Elements
  PROVE  /\ \A h \in Nat : \A t \in Trees[h] : Insertion(v)[h][t] = InsertStep(Insertion(v), v, h, t)
         /\ \A t : insert(t, v) = Insertion(v)[t.depth][t]
<1> DEFINE g == [x \in Places |-> x[2]]
<1>1. g \in Maps(Places, AllTrees)
  <2>1. \A x \in Places : x[2] \in AllTrees
    BY DEF Places
  <2> QED  BY <2>1 DEF Maps
<1>2. Leaf(v) \in AllTrees
  BY LeafIs, AvlFields
<1>3. PICK f : Descends(f, v, Leaf(v), g)
  <2> HIDE DEF g
  <2> QED  BY <1>1, <1>2, DescentExists
<1>4. ASSUME NEW h \in Nat, NEW t \in Trees[h]
      PROVE  DescentStep(f, v, Leaf(v), g, h, t) = InsertStep(f, v, h, t)
  <2>1. <<h, t>> \in Places /\ <<h, t>>[2] = t
    BY PlacesAre
  <2>2. g[<<h, t>>] = t
    BY <2>1
  <2> HIDE DEF g
  <2> QED  BY <2>2 DEF DescentStep, InsertStep, Rebuilt
<1>5. f = [h \in Nat |-> [t \in Trees[h] |-> InsertStep(f, v, h, t)]]
  <2> HIDE DEF g
  <2>1. \A h \in Nat : [t \in Trees[h] |-> DescentStep(f, v, Leaf(v), g, h, t)]
                         = [t \in Trees[h] |-> InsertStep(f, v, h, t)]
    BY <1>4
  <2>2. [h \in Nat |-> [t \in Trees[h] |-> DescentStep(f, v, Leaf(v), g, h, t)]]
          = [h \in Nat |-> [t \in Trees[h] |-> InsertStep(f, v, h, t)]]
    BY <2>1
  <2>3. f = [h \in Nat |-> [t \in Trees[h] |-> DescentStep(f, v, Leaf(v), g, h, t)]]
    BY <1>3 DEF Descends
  <2> QED  BY <2>2, <2>3
<1>6. Insertion(v) = [h \in Nat |-> [t \in Trees[h] |-> InsertStep(Insertion(v), v, h, t)]]
  BY <1>5 DEF Insertion
<1>7. \A h \in Nat : \A t \in Trees[h] : Insertion(v)[h][t] = InsertStep(Insertion(v), v, h, t)
  <2>1. \A h \in Nat : Insertion(v)[h] = [t \in Trees[h] |-> InsertStep(Insertion(v), v, h, t)]
    BY <1>6, Zenon
  <2> QED  BY <2>1, Zenon
<1>8. \A t : insert(t, v) = Insertion(v)[t.depth][t]
  BY DEF insert, Insertion, InsertStep
<1> QED
  BY <1>7, <1>8
-----------------------------------------------------------------------------
(* What insertion and erasure promise                                      *)

SearchTrees == {t \in AvlTrees : Ordered(t)}

\* u is t with S as what it lists, and it may have got i deeper.
Becomes(u, t, S, i) ==
    /\ u \in SearchTrees
    /\ Listed(u) = S
    /\ u.depth = t.depth \/ u.depth = t.depth + i

LEMMA SearchFields ==
  ASSUME NEW t \in SearchTrees
  PROVE  /\ t \in AvlTrees /\ t \in AllTrees /\ t.depth \in Nat
         /\ Listed(t) \subseteq Elements /\ Listed(t) \in SUBSET Int
         /\ t = Empty => t.depth = 0 /\ Listed(t) = {}
         /\ t # Empty =>
              /\ t.value \in Elements /\ t.value \in Int
              /\ t.left \in SearchTrees /\ t.right \in SearchTrees
              /\ t.left.depth \in Nat /\ t.right.depth \in Nat
              /\ Balanced(t.left, t.right) /\ t.depth = Over(t.left, t.right)
              /\ t.depth >= 1
              /\ Listed(t) = Listed(t.left) \cup {t.value} \cup Listed(t.right)
              /\ \A x \in Listed(t.left) : x < t.value
              /\ \A x \in Listed(t.right) : t.value < x
<1>1. t \in AvlTrees /\ Ordered(t) /\ t \in AllTrees /\ t.depth \in Nat /\ (t = Empty <=> t.depth = 0)
  BY AvlFields DEF SearchTrees
<1>2. Listed(t) \subseteq Elements /\ Elements \subseteq Int
  BY <1>1, ListsElements
<1>3. ASSUME t # Empty
      PROVE  /\ t.value \in Elements /\ t.value \in Int
             /\ t.left \in SearchTrees /\ t.right \in SearchTrees
             /\ Listed(t) = Listed(t.left) \cup {t.value} \cup Listed(t.right)
             /\ \A x \in Listed(t.left) : x < t.value
             /\ \A x \in Listed(t.right) : t.value < x
  <2>1. IsOver(t, t.left, t.value, t.right)
    BY ONLY <1>1, <1>3, SplitLists, SMTT(60)
  <2>2. Between(t.left, t.value, t.right)
    BY <1>1, <2>1 DEF IsOver
  <2>3. t.value \in Elements /\ t.left \in AvlTrees /\ t.right \in AvlTrees
    BY <1>1, <1>3, AvlFields
  <2> QED  BY <1>2, <2>1, <2>2, <2>3 DEF IsOver, Between, SearchTrees
<1>4. ASSUME t # Empty
      PROVE  /\ Balanced(t.left, t.right) /\ t.depth = Over(t.left, t.right) /\ t.depth >= 1
             /\ t.left.depth \in Nat /\ t.right.depth \in Nat
  <2>1. t.left \in AvlTrees /\ t.right \in AvlTrees /\ Balanced(t.left, t.right) /\ t.depth = Over(t.left, t.right)
    BY <1>1, <1>4, AvlFields
  <2>2. t.left.depth \in Nat /\ t.right.depth \in Nat
    BY <2>1, AvlFields
  <2> QED  BY <1>1, <1>4, <2>1, <2>2
<1>5. t = Empty => Listed(t) = {}
  BY EmptyLists
<1> QED
  BY <1>1, <1>2, <1>3, <1>4, <1>5

LEMMA EmptyIsSearchTree == Empty \in SearchTrees /\ Listed(Empty) = {}
BY EmptyLists, EmptyIsAvl DEF SearchTrees

LEMMA LeftRebuilt ==
  ASSUME NEW t \in SearchTrees, t # Empty, NEW i \in {1, -1}, NEW s, NEW S \in SUBSET Int,
         Becomes(s, t.left, S, i), NEW w \in Elements,
         \A x \in S : x < w, \A x \in Listed(t.right) : w < x
  PROVE  Becomes(fix_invariant(update_depth(Node(w, t.depth, s, t.right))), t,
                 S \cup {w} \cup Listed(t.right), i)
<1> DEFINE l == t.left
           r == t.right
           u == fix_invariant(update_depth(Node(w, t.depth, s, r)))
<1>1. /\ l \in SearchTrees /\ r \in SearchTrees /\ l.depth \in Nat /\ r.depth \in Nat
      /\ Balanced(l, r) /\ t.depth = Over(l, r) /\ t.depth >= 1 /\ t.depth \in Nat
  BY SearchFields
<1>2. s \in SearchTrees /\ Listed(s) = S /\ s.depth \in Nat /\ (s.depth = l.depth \/ s.depth = l.depth + i)
  BY SearchFields DEF Becomes
<1>3. s \in AvlTrees /\ r \in AvlTrees /\ Ordered(s) /\ Ordered(r)
  BY <1>1, <1>2 DEF SearchTrees
<1>4. s.depth <= r.depth + 2 /\ r.depth <= s.depth + 2
  BY <1>1, <1>2 DEF Balanced
<1>5. /\ Holds(u, s, w, r)
      /\ Balanced(s, r) => u.depth = Over(s, r)
  <2> HIDE DEF l, r
  <2>1. t.depth \in Nat /\ t.depth >= 1
    BY <1>1
  <2> QED  BY ONLY <1>3, <1>4, <2>1, w \in Elements, FixHolds, SMTT(60) DEF u
<1>6. Between(s, w, r)
  BY <1>2, <1>3 DEF Between
<1> HIDE DEF u
<1>7. u \in SearchTrees /\ Listed(u) = S \cup {w} \cup Listed(r)
  BY <1>2, <1>5, <1>6 DEF Holds, SearchTrees
<1>8. u.depth = t.depth \/ u.depth = t.depth + i
  <2>1. u.depth = Over(s, r) \/ u.depth = Over(s, r) - 1
    BY <1>5 DEF Holds
  <2> HIDE DEF l, r
  <2> QED  BY <1>1, <1>2, <1>5, <2>1 DEF Over, Higher, Balanced
<1> QED
  BY <1>7, <1>8 DEF Becomes, u

LEMMA RightRebuilt ==
  ASSUME NEW t \in SearchTrees, t # Empty, NEW i \in {1, -1}, NEW s, NEW S \in SUBSET Int,
         Becomes(s, t.right, S, i), NEW w \in Elements,
         \A x \in Listed(t.left) : x < w, \A x \in S : w < x
  PROVE  Becomes(fix_invariant(update_depth(Node(w, t.depth, t.left, s))), t,
                 Listed(t.left) \cup {w} \cup S, i)
<1> DEFINE l == t.left
           r == t.right
           u == fix_invariant(update_depth(Node(w, t.depth, l, s)))
<1>1. /\ l \in SearchTrees /\ r \in SearchTrees /\ l.depth \in Nat /\ r.depth \in Nat
      /\ Balanced(l, r) /\ t.depth = Over(l, r) /\ t.depth >= 1 /\ t.depth \in Nat
  BY SearchFields
<1>2. s \in SearchTrees /\ Listed(s) = S /\ s.depth \in Nat /\ (s.depth = r.depth \/ s.depth = r.depth + i)
  BY SearchFields DEF Becomes
<1>3. l \in AvlTrees /\ s \in AvlTrees /\ Ordered(l) /\ Ordered(s)
  BY <1>1, <1>2 DEF SearchTrees
<1>4. l.depth <= s.depth + 2 /\ s.depth <= l.depth + 2
  BY <1>1, <1>2 DEF Balanced
<1>5. /\ Holds(u, l, w, s)
      /\ Balanced(l, s) => u.depth = Over(l, s)
  <2> HIDE DEF l, r
  <2>1. t.depth \in Nat /\ t.depth >= 1
    BY <1>1
  <2> QED  BY ONLY <1>3, <1>4, <2>1, w \in Elements, FixHolds, SMTT(60) DEF u
<1>6. Between(l, w, s)
  BY <1>2, <1>3 DEF Between
<1> HIDE DEF u
<1>7. u \in SearchTrees /\ Listed(u) = Listed(l) \cup {w} \cup S
  BY <1>2, <1>5, <1>6 DEF Holds, SearchTrees
<1>8. u.depth = t.depth \/ u.depth = t.depth + i
  <2>1. u.depth = Over(l, s) \/ u.depth = Over(l, s) - 1
    BY <1>5 DEF Holds
  <2> HIDE DEF l, r
  <2> QED  BY <1>1, <1>2, <1>5, <2>1 DEF Over, Higher, Balanced
<1> QED
  BY <1>7, <1>8 DEF Becomes, u

LEMMA InsertHolds ==
  ASSUME NEW v \in Elements, NEW t \in SearchTrees
  PROVE  Becomes(insert(t, v), t, Listed(t) \cup {v}, 1)
<1> DEFINE f == Insertion(v)
           Fine(n) == \A s \in SearchTrees : s \in Trees[n] => Becomes(f[n][s], s, Listed(s) \cup {v}, 1)
           P == {n \in Nat : Fine(n)}
<1>0. v \in Int
  BY AvlAssumption
<1>1. /\ \A h \in Nat : \A s \in Trees[h] : f[h][s] = InsertStep(f, v, h, s)
      /\ \A s : insert(s, v) = f[s.depth][s]
  BY InsertionExists
<1> HIDE DEF f
<1>2. ASSUME NEW n \in Nat, n = 0 \/ Fine(n - 1), NEW s \in SearchTrees, s \in Trees[n]
      PROVE  Becomes(f[n][s], s, Listed(s) \cup {v}, 1)
  <2>1. f[n][s] = InsertStep(f, v, n, s)
    BY <1>1, <1>2
  <2>2. CASE s = Empty
    <3>1. f[n][s] = Leaf(v)
      BY <2>1, <2>2 DEF InsertStep
    <3>2. Leaf(v) \in AvlTrees /\ Leaf(v).depth = 1 /\ IsOver(Leaf(v), Empty, v, Empty)
      BY LeafIs
    <3>3. Between(Empty, v, Empty)
      BY EmptyLists DEF Between
    <3>4. Listed(Leaf(v)) = {v} /\ Leaf(v) \in SearchTrees
      BY <3>2, <3>3, EmptyLists DEF IsOver, SearchTrees
    <3>5. s.depth = 0 /\ Listed(s) = {}
      BY <2>2, SearchFields
    <3> QED  BY <3>1, <3>2, <3>4, <3>5 DEF Becomes
  <2>3. CASE s # Empty /\ s.value = v
    <3>1. f[n][s] = s
      BY <2>1, <2>3 DEF InsertStep
    <3>2. v \in Listed(s)
      BY <2>3, SearchFields
    <3> QED  BY <3>1, <3>2 DEF Becomes
  <2>4. CASE s # Empty /\ s.value # v
    <3> DEFINE l == s.left
               r == s.right
               w == s.value
    <3>1. /\ l \in SearchTrees /\ r \in SearchTrees /\ w \in Elements /\ w \in Int
          /\ Listed(s) = Listed(l) \cup {w} \cup Listed(r)
          /\ \A x \in Listed(l) : x < w
          /\ \A x \in Listed(r) : w < x
          /\ s \in AllTrees /\ s.depth \in Nat
      BY <2>4, SearchFields
    <3>2. Listed(l) \in SUBSET Int /\ Listed(r) \in SUBSET Int
      BY <3>1, SearchFields
    <3>3. n - 1 \in Nat /\ l \in Trees[n - 1] /\ r \in Trees[n - 1] /\ Fine(n - 1)
      BY <1>2, <2>4, ChildrenAreTrees
    <3>4. f[n][s] = fix_invariant(update_depth([s EXCEPT ![SideOf(s, v)] = f[n - 1][s[SideOf(s, v)]]]))
      BY <2>1, <2>4 DEF InsertStep
    <3>5. CASE w > v
      <4> DEFINE x == f[n - 1][l]
                 S == Listed(l) \cup {v}
      <4>1. Becomes(x, l, S, 1)
        BY <3>1, <3>3
      <4>2. f[n][s] = fix_invariant(update_depth(Node(w, s.depth, x, r)))
        BY <2>4, <3>1, <3>4, <3>5, SidesAre
      <4>3. S \in SUBSET Int /\ \A y \in S : y < w
        BY <1>0, <3>1, <3>2, <3>5
      <4> HIDE DEF S, x
      <4>4. Becomes(fix_invariant(update_depth(Node(w, s.depth, x, r))), s, S \cup {w} \cup Listed(r), 1)
        <5> HIDE DEF Fine
        <5>1. 1 \in {1, -1}
          OBVIOUS
        <5> QED  BY ONLY <2>4, <3>1, <4>1, <4>3, <5>1, s \in SearchTrees, LeftRebuilt, SMTT(60)
      <4>5. S \cup {w} \cup Listed(r) = Listed(s) \cup {v}
        BY <3>1 DEF S
      <4> QED  BY <4>2, <4>4, <4>5
    <3>6. CASE ~(w > v)
      <4> DEFINE x == f[n - 1][r]
                 S == Listed(r) \cup {v}
      <4>1. Becomes(x, r, S, 1)
        BY <3>1, <3>3
      <4>2. f[n][s] = fix_invariant(update_depth(Node(w, s.depth, l, x)))
        BY <2>4, <3>1, <3>4, <3>6, SidesAre
      <4>3. S \in SUBSET Int /\ \A y \in S : w < y
        BY <1>0, <2>4, <3>1, <3>2, <3>6
      <4> HIDE DEF S, x
      <4>4. Becomes(fix_invariant(update_depth(Node(w, s.depth, l, x))), s, Listed(l) \cup {w} \cup S, 1)
        <5> HIDE DEF Fine
        <5>1. 1 \in {1, -1}
          OBVIOUS
        <5> QED  BY ONLY <2>4, <3>1, <4>1, <4>3, <5>1, s \in SearchTrees, RightRebuilt, SMTT(60)
      <4>5. Listed(l) \cup {w} \cup S = Listed(s) \cup {v}
        BY <3>1 DEF S
      <4> QED  BY <4>2, <4>4, <4>5
    <3> QED  BY <3>5, <3>6
  <2> QED  BY <2>2, <2>3, <2>4
<1>3. \A n \in Nat : n \in P
  <2>1. P \in SUBSET Nat /\ 0 \in P
    BY <1>2
  <2>2. ASSUME NEW n \in P PROVE n + 1 \in P
    <3>1. n + 1 \in Nat /\ (n + 1) - 1 = n /\ Fine(n)
      OBVIOUS
    <3> QED  BY <1>2, <3>1
  <2> HIDE DEF P
  <2> QED  BY <2>1, <2>2, SetInduction
<1>4. t.depth \in Nat /\ t \in Trees[t.depth]
  BY SearchFields, DepthIsLevels
<1>5. Fine(t.depth)
  BY <1>3, <1>4
<1> QED
  BY <1>1, <1>4, <1>5
-----------------------------------------------------------------------------
(* The first value of a tree                                               *)

LEMMA FieldsReplaced ==
  ASSUME NEW t \in AllTrees, t # Empty
  PROVE  /\ \A s : [t EXCEPT !.left = s] = Node(t.value, t.depth, s, t.right)
         /\ \A w, s : [t EXCEPT !.value = w, !.right = s] = Node(w, t.depth, t.left, s)
<1> DEFINE p == t.value
           d == t.depth
           x == t.left
           y == t.right
<1>1. t = Node(p, d, x, y)
  BY TreeFields
<1> HIDE DEF p, d, x, y
<1>2. \A s : [t EXCEPT !.left = s] = Node(p, d, s, y)
  BY <1>1 DEF Node
<1>3. ASSUME NEW w, NEW s PROVE [t EXCEPT !.value = w, !.right = s] = Node(w, d, x, s)
  <2>1. [t EXCEPT !.value = w, !.right = s] = [[t EXCEPT !.value = w] EXCEPT !.right = s]
    OBVIOUS
  <2>2. [t EXCEPT !.value = w] = Node(w, d, x, y)
    BY <1>1 DEF Node
  <2>3. [Node(w, d, x, y) EXCEPT !.right = s] = Node(w, d, x, s)
    BY DEF Node
  <2> QED  BY <2>1, <2>2, <2>3
<1> QED
  BY <1>2, <1>3 DEF p, d, x, y

StealStep(f, h, t) ==
    IF t.left = Empty THEN <<t.value, t.right>>
    ELSE <<f[h - 1][t.left][1], fix_invariant(update_depth([t EXCEPT !.left = f[h - 1][t.left][2]]))>>

\* Where something can be stolen.
Occupied == {x \in Places : x[2] # Empty}

Stolen == Elements \X AllTrees

LEMMA StealExists ==
  \A h \in Nat : \A t \in Trees[h] : t # Empty => steal_first[h][t] = StealStep(steal_first, h, t)
<1> DEFINE M == Maps(Occupied, Stolen)
           Next(x) == <<x[1] - 1, x[2].left>>
           At(f, x) == IF x[2].left = Empty THEN <<x[2].value, x[2].right>>
                       ELSE <<f[Next(x)][1], fix_invariant(update_depth([x[2] EXCEPT !.left = f[Next(x)][2]]))>>
           D == [f \in M |-> [x \in Occupied |-> At(f, x)]]
           rank == [x \in Occupied |-> x[1]]
<1>1. ASSUME NEW x \in Occupied
      PROVE  /\ x[2] \in AllTrees /\ x[2] # Empty /\ x \in Places
             /\ x[2].value \in Elements /\ x[2].right \in AllTrees
             /\ x[2].left # Empty => Next(x) \in Occupied /\ rank[Next(x)] < rank[x]
  <2>1. x[2] \in AllTrees /\ x[2] # Empty /\ x \in Places
    BY DEF Places, Occupied
  <2>2. x[2].value \in Elements /\ x[2].right \in AllTrees
    BY <2>1, TreeFields
  <2>3. ASSUME x[2].left # Empty PROVE Next(x) \in Occupied /\ rank[Next(x)] < rank[x]
    <3>1. Next(x) \in Places /\ x[1] - 1 < x[1]
      BY <2>1, PlacesBelow
    <3>2. Next(x)[1] = x[1] - 1 /\ Next(x)[2] = x[2].left
      OBVIOUS
    <3> HIDE DEF Next
    <3>3. Next(x) \in Occupied
      BY <2>3, <3>1, <3>2 DEF Occupied
    <3>4. rank[Next(x)] = Next(x)[1] /\ rank[x] = x[1]
      BY <3>3
    <3> QED  BY <3>1, <3>2, <3>3, <3>4
  <2> QED  BY <2>1, <2>2, <2>3
<1> HIDE DEF Next
<1>2. D \in Maps(M, M)
  <2>1. ASSUME NEW f \in M, NEW x \in Occupied PROVE At(f, x) \in Stolen
    <3>1. CASE x[2].left = Empty
      BY <1>1, <3>1 DEF Stolen
    <3>2. CASE x[2].left # Empty
      <4>1. f[Next(x)] \in Stolen
        BY <1>1, <3>2 DEF Maps
      <4>2. f[Next(x)][1] \in Elements /\ f[Next(x)][2] \in AllTrees
        BY <4>1 DEF Stolen
      <4> DEFINE s == f[Next(x)][2]
      <4>3. [x[2] EXCEPT !.left = s] = Node(x[2].value, x[2].depth, s, x[2].right)
        <5>1. x[2] \in AllTrees /\ x[2] # Empty
          BY <1>1
        <5> QED  BY <5>1, FieldsReplaced
      <4>4. fix_invariant(update_depth(Node(x[2].value, x[2].depth, s, x[2].right))) \in AllTrees
        <5>1. x[2].value \in Elements /\ x[2].depth \in Nat /\ x[2].depth >= 1 /\ x[2].right \in AllTrees
          BY <1>1, TreeFields
        <5>2. s \in AllTrees
          BY <4>2
        <5> HIDE DEF s
        <5> QED  BY <5>1, <5>2, FixIsTree
      <4> HIDE DEF s
      <4>5. At(f, x) = <<f[Next(x)][1], fix_invariant(update_depth(Node(x[2].value, x[2].depth, s, x[2].right)))>>
        BY <3>2, <4>3 DEF s
      <4> QED  BY <4>2, <4>4, <4>5 DEF Stolen
    <3> QED  BY <3>1, <3>2
  <2>2. \A f \in M : [x \in Occupied |-> At(f, x)] \in M
    <3> HIDE DEF At
    <3> QED  BY <2>1 DEF Maps
  <2> HIDE DEF M, At
  <2> QED  BY <2>2 DEF Maps
<1>3. ASSUME NEW p \in M, NEW q \in M, NEW x \in Occupied,
             \A y \in Occupied : rank[y] < rank[x] => p[y] = q[y]
      PROVE  D[p][x] = D[q][x]
  <2>1. At(p, x) = At(q, x)
    <3>1. CASE x[2].left = Empty
      BY <3>1
    <3>2. CASE x[2].left # Empty
      <4>1. p[Next(x)] = q[Next(x)]
        <5> HIDE DEF rank, M
        <5> QED  BY <1>1, <1>3, <3>2
      <4> QED  BY <3>2, <4>1
    <3> QED  BY <3>1, <3>2
  <2> HIDE DEF M, At
  <2> QED  BY <2>1
<1>4. rank \in Maps(Occupied, Nat) /\ M # {}
  <2>1. \A x \in Occupied : x[1] \in Nat /\ <<x[2].value, x[2].right>> \in Stolen
    BY <1>1, PlacesAre DEF Stolen
  <2>2. [x \in Occupied |-> <<x[2].value, x[2].right>>] \in M
    BY <2>1 DEF Maps
  <2> QED  BY <2>1, <2>2 DEF Maps
<1>5. \E f \in M : D[f] = f
  <2> HIDE DEF D, rank
  <2> QED  BY <1>2, <1>3, <1>4, RecursiveFunctionExists
<1>6. PICK f \in M : D[f] = f
  BY <1>5
<1>7. \A x \in Occupied : f[x] = At(f, x)
  <2>1. f = [x \in Occupied |-> At(f, x)]
    <3> HIDE DEF M, At
    <3> QED  BY <1>6
  <2> HIDE DEF At, M
  <2> QED  BY <2>1
<1> HIDE DEF D
<1> DEFINE F == [h \in Nat |-> [t \in Trees[h] \ {Empty} |-> f[<<h, t>>]]]
<1>8. ASSUME NEW h \in Nat, NEW t \in Trees[h] \ {Empty} PROVE f[<<h, t>>] = StealStep(F, h, t)
  <2>1. <<h, t>> \in Places /\ <<h, t>>[1] = h /\ <<h, t>>[2] = t
    BY PlacesAre
  <2>2. <<h, t>> \in Occupied
    BY <2>1 DEF Occupied
  <2>3. f[<<h, t>>] = At(f, <<h, t>>)
    BY <1>7, <2>2
  <2>4. CASE t.left = Empty
    BY <2>1, <2>3, <2>4 DEF StealStep
  <2>5. CASE t.left # Empty
    <3> DEFINE s == t.left
    <3>1. h - 1 \in Nat /\ s \in Trees[h - 1] \ {Empty}
      BY <2>5, ChildrenAreTrees
    <3>2. F[h - 1][s] = f[<<h - 1, s>>]
      <4> HIDE DEF s
      <4> QED  BY <3>1
    <3>3. Next(<<h, t>>) = <<h - 1, s>>
      BY <2>1 DEF Next
    <3>4. f[<<h, t>>] = <<f[<<h - 1, s>>][1], fix_invariant(update_depth([t EXCEPT !.left = f[<<h - 1, s>>][2]]))>>
      <4> HIDE DEF s
      <4> QED  BY <2>1, <2>3, <2>5, <3>3 DEF s
    <3> HIDE DEF F
    <3> QED  BY <2>5, <3>2, <3>4 DEF StealStep
  <2> QED  BY <2>4, <2>5
<1>9. F = [h \in Nat |-> [t \in Trees[h] \ {Empty} |-> StealStep(F, h, t)]]
  <2>1. \A h \in Nat : [t \in Trees[h] \ {Empty} |-> f[<<h, t>>]] = [t \in Trees[h] \ {Empty} |-> StealStep(F, h, t)]
    <3> HIDE DEF F
    <3> QED  BY <1>8
  <2>2. [h \in Nat |-> [t \in Trees[h] \ {Empty} |-> f[<<h, t>>]]]
          = [h \in Nat |-> [t \in Trees[h] \ {Empty} |-> StealStep(F, h, t)]]
    <3> HIDE DEF F
    <3> QED  BY <2>1
  <2> QED  BY <2>2
<1>10. steal_first = [h \in Nat |-> [t \in Trees[h] \ {Empty} |-> StealStep(steal_first, h, t)]]
  <2> HIDE DEF F
  <2> DEFINE Q(g) == g = [h \in Nat |-> [t \in Trees[h] \ {Empty} |-> StealStep(g, h, t)]]
  <2>1. Q(F)
    BY <1>9
  <2>2. steal_first = CHOOSE g : Q(g)
    BY DEF steal_first, StealStep
  <2>3. Q(CHOOSE g : Q(g))
    <3> HIDE DEF Q
    <3> QED  BY <2>1
  <2> QED  BY <2>2, <2>3
<1>11. \A h \in Nat : \A t \in Trees[h] \ {Empty} : steal_first[h][t] = StealStep(steal_first, h, t)
  <2>1. \A h \in Nat : steal_first[h] = [t \in Trees[h] \ {Empty} |-> StealStep(steal_first, h, t)]
    BY <1>10, Zenon
  <2> QED  BY <2>1, Zenon
<1> QED
  BY <1>11

LEMMA StealIsTyped ==
  \A h \in Nat : \A t \in Trees[h] : t # Empty => steal_first[h][t] \in Stolen
<1> DEFINE Fine(n) == \A t \in Trees[n] : t # Empty => steal_first[n][t] \in Stolen
           P == {n \in Nat : Fine(n)}
<1>1. ASSUME NEW n \in Nat, n = 0 \/ Fine(n - 1), NEW t \in Trees[n], t # Empty
      PROVE  steal_first[n][t] \in Stolen
  <2>1. /\ n # 0 /\ n - 1 \in Nat /\ t.left \in Trees[n - 1]
        /\ t \in AllTrees
    BY <1>1, ChildrenAreTrees DEF AllTrees
  <2>2. /\ t.value \in Elements /\ t.depth \in Nat /\ t.depth >= 1 /\ t.right \in AllTrees
        /\ \A s : [t EXCEPT !.left = s] = Node(t.value, t.depth, s, t.right)
    BY <1>1, <2>1, TreeFields, FieldsReplaced
  <2>3. steal_first[n][t] = StealStep(steal_first, n, t)
    BY <1>1, StealExists
  <2>4. CASE t.left = Empty
    BY <2>2, <2>3, <2>4 DEF StealStep, Stolen
  <2>5. CASE t.left # Empty
    <3> DEFINE rest == steal_first[n - 1][t.left]
               u == fix_invariant(update_depth(Node(t.value, t.depth, rest[2], t.right)))
    <3>1. rest \in Stolen
      BY <1>1, <2>1, <2>5
    <3>2. rest[1] \in Elements /\ rest[2] \in AllTrees
      BY <3>1 DEF Stolen
    <3>3. u \in AllTrees
      <4> HIDE DEF rest
      <4> QED  BY <2>2, <3>2, FixIsTree
    <3>4. steal_first[n][t] = <<rest[1], u>>
      BY <2>2, <2>3, <2>5 DEF StealStep
    <3> HIDE DEF u, rest
    <3> QED  BY <3>2, <3>3, <3>4 DEF Stolen
  <2> QED  BY <2>4, <2>5
<1>2. \A n \in Nat : n \in P
  <2>1. P \in SUBSET Nat /\ 0 \in P
    BY <1>1
  <2>2. ASSUME NEW n \in P PROVE n + 1 \in P
    <3>1. n + 1 \in Nat /\ (n + 1) - 1 = n /\ Fine(n)
      OBVIOUS
    <3> QED  BY <1>1, <3>1
  <2> HIDE DEF P
  <2> QED  BY <2>1, <2>2, SetInduction
<1> QED
  BY <1>2

\* r is the first value of t and what is left of t.
Steals(r, t) ==
    /\ r[1] \in Listed(t)
    /\ \A x \in Listed(t) \ {r[1]} : r[1] < x
    /\ Becomes(r[2], t, Listed(t) \ {r[1]}, -1)

LEMMA StealHolds ==
  ASSUME NEW h \in Nat, NEW t \in SearchTrees, t \in Trees[h], t # Empty
  PROVE  Steals(steal_first[h][t], t)
<1> DEFINE Fine(n) == \A s \in SearchTrees : s \in Trees[n] /\ s # Empty => Steals(steal_first[n][s], s)
           P == {n \in Nat : Fine(n)}
<1>1. ASSUME NEW n \in Nat, n = 0 \/ Fine(n - 1), NEW s \in SearchTrees, s \in Trees[n], s # Empty
      PROVE  Steals(steal_first[n][s], s)
  <2> DEFINE l == s.left
             r == s.right
             w == s.value
  <2>1. /\ l \in SearchTrees /\ r \in SearchTrees /\ w \in Elements /\ w \in Int
        /\ Listed(s) = Listed(l) \cup {w} \cup Listed(r)
        /\ \A x \in Listed(l) : x < w
        /\ \A x \in Listed(r) : w < x
        /\ s \in AllTrees /\ s.depth \in Nat /\ l.depth \in Nat /\ r.depth \in Nat
        /\ Balanced(l, r) /\ s.depth = Over(l, r)
    BY <1>1, SearchFields
  <2>2. Listed(l) \in SUBSET Int /\ Listed(r) \in SUBSET Int
    BY <2>1, SearchFields
  <2>3. n - 1 \in Nat /\ l \in Trees[n - 1] /\ Fine(n - 1)
    BY <1>1, ChildrenAreTrees
  <2>4. steal_first[n][s] = StealStep(steal_first, n, s)
    BY <1>1, StealExists
  <2>5. CASE l = Empty
    <3>1. steal_first[n][s] = <<w, r>>
      BY <2>4, <2>5 DEF StealStep
    <3>2. Listed(l) = {} /\ l.depth = 0
      BY <2>1, <2>5, SearchFields
    <3>3. Listed(r) = Listed(s) \ {w} /\ w \in Listed(s)
      BY <2>1, <2>2, <3>2
    <3>4. r.depth = s.depth - 1
      BY <2>1, <3>2 DEF Over, Higher
    <3>5. Becomes(r, s, Listed(s) \ {w}, -1)
      <4>1. s.depth + (-1) = s.depth - 1
        BY <2>1
      <4> HIDE DEF l, r, w
      <4> QED  BY <2>1, <3>3, <3>4, <4>1 DEF Becomes
    <3>6. \A x \in Listed(s) \ {w} : w < x
      BY <2>1, <3>3
    <3>7. <<w, r>>[1] = w /\ <<w, r>>[2] = r
      OBVIOUS
    <3> HIDE DEF l, r, w
    <3> QED  BY <3>1, <3>3, <3>5, <3>6, <3>7 DEF Steals
  <2>6. CASE l # Empty
    <3> DEFINE rest == steal_first[n - 1][l]
               m == rest[1]
               x == rest[2]
               S == Listed(l) \ {m}
               u == fix_invariant(update_depth(Node(w, s.depth, x, r)))
    <3>1. Steals(rest, l)
      BY <2>1, <2>3, <2>6
    <3>2. m \in Listed(l) /\ (\A y \in S : m < y) /\ Becomes(x, l, S, -1)
      BY <3>1 DEF Steals
    <3>3. [s EXCEPT !.left = x] = Node(w, s.depth, x, r)
      <4> HIDE DEF x
      <4> QED  BY <1>1, <2>1, FieldsReplaced
    <3>4. steal_first[n][s] = <<m, u>>
      BY <2>4, <2>6, <3>3 DEF StealStep
    <3>5. S \in SUBSET Int /\ \A y \in S : y < w
      BY <2>1, <2>2
    <3>6. Becomes(u, s, S \cup {w} \cup Listed(r), -1)
      <4> HIDE DEF S, x, l, r, w
      <4>1. -1 \in {1, -1}
        OBVIOUS
      <4>2. /\ \A y \in Listed(s.right) : w < y
            /\ Becomes(x, s.left, S, -1)
            /\ w \in Elements /\ r = s.right
        BY <2>1, <3>2 DEF l, r
      <4> QED  BY ONLY <1>1, <3>5, <4>1, <4>2, s \in SearchTrees, LeftRebuilt, SMTT(60) DEF u
    <3>7. S \cup {w} \cup Listed(r) = Listed(s) \ {m}
      <4>1. m \in Int /\ m < w /\ m \notin Listed(r)
        BY <2>1, <2>2, <3>2
      <4> QED  BY <2>1, <2>2, <4>1
    <3>8. m \in Listed(s) /\ \A y \in Listed(s) \ {m} : m < y
      <4>1. m \in Int /\ m < w
        BY <2>1, <2>2, <3>2
      <4>2. \A y \in Listed(r) : m < y
        BY <2>1, <2>2, <4>1
      <4> HIDE DEF m
      <4> QED  BY <2>1, <3>2, <4>1, <4>2
    <3>9. <<m, u>>[1] = m /\ <<m, u>>[2] = u
      OBVIOUS
    <3> HIDE DEF m, u, S
    <3> QED  BY <3>4, <3>6, <3>7, <3>8, <3>9 DEF Steals
  <2> QED  BY <2>5, <2>6
<1>2. \A n \in Nat : n \in P
  <2>1. P \in SUBSET Nat /\ 0 \in P
    BY <1>1
  <2>2. ASSUME NEW n \in P PROVE n + 1 \in P
    <3>1. n + 1 \in Nat /\ (n + 1) - 1 = n /\ Fine(n)
      OBVIOUS
    <3> QED  BY <1>1, <3>1
  <2> HIDE DEF P
  <2> QED  BY <2>1, <2>2, SetInduction
<1> QED
  BY <1>2
-----------------------------------------------------------------------------
(* Erasure                                                                 *)

\* The tree without the value at its root.
Rootless(h, t) ==
    IF t.left = Empty THEN t.right
    ELSE IF t.right = Empty THEN t.left
    ELSE fix_invariant(update_depth([t EXCEPT !.value = steal_first[h - 1][t.right][1],
                                              !.right = steal_first[h - 1][t.right][2]]))

EraseStep(f, v, h, t) ==
    IF t = Empty THEN Empty
    ELSE IF t.value # v
         THEN fix_invariant(update_depth([t EXCEPT ![SideOf(t, v)] = f[h - 1][@]]))
    ELSE Rootless(h, t)

\* The function of erase.
Erasure(v) == CHOOSE f : f = [h \in Nat |-> [t \in Trees[h] |-> EraseStep(f, v, h, t)]]

LEMMA RootlessIsTree ==
  ASSUME NEW h \in Nat, NEW t \in Trees[h], t # Empty
  PROVE  Rootless(h, t) \in AllTrees
<1>1. t \in AllTrees
  BY DEF AllTrees
<1>2. /\ t.value \in Elements /\ t.depth \in Nat /\ t.depth >= 1
      /\ t.left \in AllTrees /\ t.right \in AllTrees
  BY <1>1, TreeFields
<1>3. h - 1 \in Nat /\ t.right \in Trees[h - 1]
  BY ChildrenAreTrees
<1>4. ASSUME t.left # Empty, t.right # Empty PROVE Rootless(h, t) \in AllTrees
  <2> DEFINE rest == steal_first[h - 1][t.right]
  <2>1. rest \in Stolen
    BY <1>3, <1>4, StealIsTyped
  <2>2. rest[1] \in Elements /\ rest[2] \in AllTrees
    BY <2>1 DEF Stolen
  <2> HIDE DEF rest
  <2>3. [t EXCEPT !.value = rest[1], !.right = rest[2]] = Node(rest[1], t.depth, t.left, rest[2])
    <3>1. \A w, s : [t EXCEPT !.value = w, !.right = s] = Node(w, t.depth, t.left, s)
      BY <1>1, FieldsReplaced
    <3> QED  BY <3>1, Zenon
  <2>4. fix_invariant(update_depth(Node(rest[1], t.depth, t.left, rest[2]))) \in AllTrees
    BY <1>2, <2>2, FixIsTree
  <2> QED  BY <1>4, <2>3, <2>4 DEF Rootless, rest
<1>5. t.left = Empty \/ t.right = Empty => Rootless(h, t) \in AllTrees
  BY <1>2 DEF Rootless
<1> QED
  BY <1>4, <1>5

LEMMA ErasureExists ==
  ASSUME NEW v
  PROVE  /\ \A h \in Nat : \A t \in Trees[h] : Erasure(v)[h][t] = EraseStep(Erasure(v), v, h, t)
         /\ \A t : erase(t, v) = Erasure(v)[t.depth][t]
<1> DEFINE g == [x \in Places |-> IF x[2] = Empty THEN Empty ELSE Rootless(x[1], x[2])]
<1>1. g \in Maps(Places, AllTrees) /\ Empty \in AllTrees
  <2>1. Empty \in AllTrees
    BY EmptyIsTree
  <2>2. \A x \in Places : x[2] # Empty => Rootless(x[1], x[2]) \in AllTrees
    BY PlacesAre, RootlessIsTree
  <2> QED  BY <2>1, <2>2 DEF Maps
<1>3. PICK f : Descends(f, v, Empty, g)
  <2> HIDE DEF g
  <2> QED  BY <1>1, DescentExists
<1>4. ASSUME NEW h \in Nat, NEW t \in Trees[h]
      PROVE  DescentStep(f, v, Empty, g, h, t) = EraseStep(f, v, h, t)
  <2>1. <<h, t>> \in Places /\ <<h, t>>[1] = h /\ <<h, t>>[2] = t
    BY PlacesAre
  <2>2. t # Empty => g[<<h, t>>] = Rootless(h, t)
    BY <2>1
  <2> HIDE DEF g
  <2> QED  BY <2>2 DEF DescentStep, EraseStep, Rebuilt
<1>5. f = [h \in Nat |-> [t \in Trees[h] |-> EraseStep(f, v, h, t)]]
  <2> HIDE DEF g
  <2>1. \A h \in Nat : [t \in Trees[h] |-> DescentStep(f, v, Empty, g, h, t)]
                         = [t \in Trees[h] |-> EraseStep(f, v, h, t)]
    BY <1>4
  <2>2. [h \in Nat |-> [t \in Trees[h] |-> DescentStep(f, v, Empty, g, h, t)]]
          = [h \in Nat |-> [t \in Trees[h] |-> EraseStep(f, v, h, t)]]
    BY <2>1
  <2>3. f = [h \in Nat |-> [t \in Trees[h] |-> DescentStep(f, v, Empty, g, h, t)]]
    BY <1>3 DEF Descends
  <2> QED  BY <2>2, <2>3
<1>6. Erasure(v) = [h \in Nat |-> [t \in Trees[h] |-> EraseStep(Erasure(v), v, h, t)]]
  BY <1>5 DEF Erasure
<1>7. \A h \in Nat : \A t \in Trees[h] : Erasure(v)[h][t] = EraseStep(Erasure(v), v, h, t)
  <2>1. \A h \in Nat : Erasure(v)[h] = [t \in Trees[h] |-> EraseStep(Erasure(v), v, h, t)]
    BY <1>6, Zenon
  <2> QED  BY <2>1, Zenon
<1>8. \A t : erase(t, v) = Erasure(v)[t.depth][t]
  BY DEF erase, Erasure, EraseStep, Rootless
<1> QED
  BY <1>7, <1>8

LEMMA RootlessHolds ==
  ASSUME NEW h \in Nat, NEW t \in SearchTrees, t \in Trees[h], t # Empty
  PROVE  Becomes(Rootless(h, t), t, Listed(t) \ {t.value}, -1)
<1> DEFINE l == t.left
           r == t.right
           w == t.value
<1>1. /\ l \in SearchTrees /\ r \in SearchTrees /\ w \in Elements /\ w \in Int
      /\ Listed(t) = Listed(l) \cup {w} \cup Listed(r)
      /\ \A x \in Listed(l) : x < w
      /\ \A x \in Listed(r) : w < x
      /\ t \in AllTrees /\ t.depth \in Nat /\ l.depth \in Nat /\ r.depth \in Nat
      /\ Balanced(l, r) /\ t.depth = Over(l, r)
      /\ t.depth + (-1) = t.depth - 1
  BY SearchFields
<1>2. /\ Listed(l) \in SUBSET Int /\ Listed(r) \in SUBSET Int
      /\ Listed(r) \subseteq Elements
  BY <1>1, SearchFields
<1>3. Listed(t) \ {w} = Listed(l) \cup Listed(r)
  BY <1>1, <1>2
<1>4. CASE l = Empty
  <2>1. Listed(l) = {} /\ l.depth = 0
    BY <1>1, <1>4, SearchFields
  <2>2. r.depth = t.depth - 1
    BY <1>1, <2>1 DEF Over, Higher
  <2>3. Rootless(h, t) = r
    BY <1>4 DEF Rootless
  <2> HIDE DEF l, r, w
  <2> QED  BY <1>1, <1>3, <2>1, <2>2, <2>3 DEF Becomes, w
<1>5. CASE l # Empty /\ r = Empty
  <2>1. Listed(r) = {} /\ r.depth = 0
    BY <1>1, <1>5, SearchFields
  <2>2. l.depth = t.depth - 1
    BY <1>1, <2>1 DEF Over, Higher
  <2>3. Rootless(h, t) = l
    BY <1>5 DEF Rootless
  <2> HIDE DEF l, r, w
  <2> QED  BY <1>1, <1>3, <2>1, <2>2, <2>3 DEF Becomes, w
<1>6. CASE l # Empty /\ r # Empty
  <2> DEFINE rest == steal_first[h - 1][r]
             m == rest[1]
             x == rest[2]
             S == Listed(r) \ {m}
             u == fix_invariant(update_depth(Node(m, t.depth, l, x)))
  <2>1. h - 1 \in Nat /\ r \in Trees[h - 1]
    BY ChildrenAreTrees
  <2>2. Steals(rest, r)
    BY <1>1, <1>6, <2>1, StealHolds
  <2>3. m \in Listed(r) /\ (\A y \in S : m < y) /\ Becomes(x, r, S, -1)
    BY <2>2 DEF Steals
  <2>4. m \in Elements /\ m \in Int /\ w < m
    BY <1>1, <1>2, <2>3
  <2>5. Rootless(h, t) = u
    <3>1. [t EXCEPT !.value = m, !.right = x] = Node(m, t.depth, l, x)
      <4>1. \A a, s : [t EXCEPT !.value = a, !.right = s] = Node(a, t.depth, t.left, s)
        BY <1>1, FieldsReplaced
      <4> HIDE DEF m, x
      <4> QED  BY <4>1, Zenon
    <3> QED  BY <1>6, <3>1 DEF Rootless
  <2>6. S \in SUBSET Int /\ \A y \in Listed(l) : y < m
    BY <1>1, <1>2, <2>4
  <2>7. Becomes(u, t, Listed(l) \cup {m} \cup S, -1)
    <3> HIDE DEF S, x, m, l, r, w
    <3>1. -1 \in {1, -1}
      OBVIOUS
    <3>2. /\ \A y \in Listed(t.left) : y < m
          /\ Becomes(x, t.right, S, -1)
          /\ l = t.left
      BY <2>3, <2>6 DEF l, r
    <3> QED  BY ONLY <2>3, <2>4, <2>6, <3>1, <3>2, t \in SearchTrees, t # Empty, RightRebuilt, SMTT(60) DEF u
  <2>8. Listed(l) \cup {m} \cup S = Listed(t) \ {w}
    BY <1>3, <2>3
  <2> HIDE DEF u, S, m, x
  <2> QED  BY <2>5, <2>7, <2>8
<1> QED
  BY <1>4, <1>5, <1>6

LEMMA EraseHolds ==
  ASSUME NEW v \in Elements, NEW t \in SearchTrees
  PROVE  Becomes(erase(t, v), t, Listed(t) \ {v}, -1)
<1> DEFINE f == Erasure(v)
           Fine(n) == \A s \in SearchTrees : s \in Trees[n] => Becomes(f[n][s], s, Listed(s) \ {v}, -1)
           P == {n \in Nat : Fine(n)}
<1>0. v \in Int
  BY AvlAssumption
<1>1. /\ \A h \in Nat : \A s \in Trees[h] : f[h][s] = EraseStep(f, v, h, s)
      /\ \A s : erase(s, v) = f[s.depth][s]
  BY ErasureExists
<1> HIDE DEF f
<1>2. ASSUME NEW n \in Nat, n = 0 \/ Fine(n - 1), NEW s \in SearchTrees, s \in Trees[n]
      PROVE  Becomes(f[n][s], s, Listed(s) \ {v}, -1)
  <2>1. f[n][s] = EraseStep(f, v, n, s)
    BY <1>1, <1>2
  <2>2. CASE s = Empty
    <3>1. f[n][s] = s
      BY <2>1, <2>2 DEF EraseStep
    <3>2. Listed(s) = {}
      BY <2>2, SearchFields
    <3> QED  BY <3>1, <3>2 DEF Becomes
  <2>3. CASE s # Empty /\ s.value = v
    <3>1. f[n][s] = Rootless(n, s)
      BY <2>1, <2>3 DEF EraseStep
    <3>2. Becomes(Rootless(n, s), s, Listed(s) \ {s.value}, -1)
      BY <1>2, <2>3, RootlessHolds
    <3> QED  BY <2>3, <3>1, <3>2
  <2>4. CASE s # Empty /\ s.value # v
    <3> DEFINE l == s.left
               r == s.right
               w == s.value
    <3>1. /\ l \in SearchTrees /\ r \in SearchTrees /\ w \in Elements /\ w \in Int
          /\ Listed(s) = Listed(l) \cup {w} \cup Listed(r)
          /\ \A x \in Listed(l) : x < w
          /\ \A x \in Listed(r) : w < x
          /\ s \in AllTrees /\ s.depth \in Nat
      BY <2>4, SearchFields
    <3>2. Listed(l) \in SUBSET Int /\ Listed(r) \in SUBSET Int
      BY <3>1, SearchFields
    <3>3. n - 1 \in Nat /\ l \in Trees[n - 1] /\ r \in Trees[n - 1] /\ Fine(n - 1)
      BY <1>2, <2>4, ChildrenAreTrees
    <3>4. f[n][s] = fix_invariant(update_depth([s EXCEPT ![SideOf(s, v)] = f[n - 1][s[SideOf(s, v)]]]))
      BY <2>1, <2>4 DEF EraseStep
    <3>5. CASE w > v
      <4> DEFINE x == f[n - 1][l]
                 S == Listed(l) \ {v}
      <4>1. Becomes(x, l, S, -1)
        BY <3>1, <3>3
      <4>2. f[n][s] = fix_invariant(update_depth(Node(w, s.depth, x, r)))
        BY <2>4, <3>1, <3>4, <3>5, SidesAre
      <4>3. S \in SUBSET Int /\ \A y \in S : y < w
        BY <3>1, <3>2
      <4>4. S \cup {w} \cup Listed(r) = Listed(s) \ {v}
        <5>1. v \notin Listed(r)
          BY <1>0, <3>1, <3>2, <3>5
        <5> QED  BY <2>4, <3>1, <5>1
      <4> HIDE DEF S, x
      <4>5. Becomes(fix_invariant(update_depth(Node(w, s.depth, x, r))), s, S \cup {w} \cup Listed(r), -1)
        <5> HIDE DEF Fine
        <5>1. -1 \in {1, -1}
          OBVIOUS
        <5> QED  BY ONLY <2>4, <3>1, <4>1, <4>3, <5>1, s \in SearchTrees, LeftRebuilt, SMTT(60)
      <4> QED  BY <4>2, <4>4, <4>5
    <3>6. CASE ~(w > v)
      <4> DEFINE x == f[n - 1][r]
                 S == Listed(r) \ {v}
      <4>1. Becomes(x, r, S, -1)
        BY <3>1, <3>3
      <4>2. f[n][s] = fix_invariant(update_depth(Node(w, s.depth, l, x)))
        BY <2>4, <3>1, <3>4, <3>6, SidesAre
      <4>3. S \in SUBSET Int /\ \A y \in S : w < y
        BY <3>1, <3>2
      <4>4. Listed(l) \cup {w} \cup S = Listed(s) \ {v}
        <5>1. v \notin Listed(l)
          BY <1>0, <3>1, <3>2, <3>6
        <5> QED  BY <2>4, <3>1, <5>1
      <4> HIDE DEF S, x
      <4>5. Becomes(fix_invariant(update_depth(Node(w, s.depth, l, x))), s, Listed(l) \cup {w} \cup S, -1)
        <5> HIDE DEF Fine
        <5>1. -1 \in {1, -1}
          OBVIOUS
        <5> QED  BY ONLY <2>4, <3>1, <4>1, <4>3, <5>1, s \in SearchTrees, RightRebuilt, SMTT(60)
      <4> QED  BY <4>2, <4>4, <4>5
    <3> QED  BY <3>5, <3>6
  <2> QED  BY <2>2, <2>3, <2>4
<1>3. \A n \in Nat : n \in P
  <2>1. P \in SUBSET Nat /\ 0 \in P
    BY <1>2
  <2>2. ASSUME NEW n \in P PROVE n + 1 \in P
    <3>1. n + 1 \in Nat /\ (n + 1) - 1 = n /\ Fine(n)
      OBVIOUS
    <3> QED  BY <1>2, <3>1
  <2> HIDE DEF P
  <2> QED  BY <2>1, <2>2, SetInduction
<1>4. t.depth \in Nat /\ t \in Trees[t.depth]
  BY SearchFields, DepthIsLevels
<1>5. Fine(t.depth)
  BY <1>3, <1>4
<1> QED
  BY <1>1, <1>4, <1>5

-----------------------------------------------------------------------------
(* The set                                                                 *)

\* The root is a correct tree in which every node is in order, and it lists
\* what std::set holds.
AvlInv == root \in SearchTrees /\ Listed(root) = contents

\* An insert or an erase (src/ivl/avl_tree/default.hpp:116-166) turns a correct
\* search tree into a correct one with the value, or without it: no rotation
\* loses, repeats or misplaces a value, two of them are always enough, and the
\* assertion after them never ends the program.
THEOREM TreeStaysCorrect == AvlSpec => []AvlInv
<1>1. AvlInit => AvlInv
  BY EmptyIsSearchTree DEF AvlInit, AvlInv
<1>2. AvlInv /\ [AvlNext]_avlVars => AvlInv'
  <2> SUFFICES ASSUME AvlInv, [AvlNext]_avlVars PROVE AvlInv'
    OBVIOUS
  <2>1. ASSUME NEW v \in Elements, Insert(v) PROVE AvlInv'
    <3>1. Becomes(insert(root, v), root, Listed(root) \cup {v}, 1)
      BY InsertHolds DEF AvlInv
    <3>2. insert(root, v) \in SearchTrees /\ Listed(insert(root, v)) = contents \cup {v}
      BY <3>1 DEF Becomes, AvlInv
    <3>3. root' = insert(root, v) /\ contents' = contents \cup {v}
      BY <2>1 DEF Insert
    <3>4. root' \in SearchTrees /\ Listed(root') = contents'
      BY <3>2, <3>3
    <3> QED  BY <3>4 DEF AvlInv
  <2>2. ASSUME NEW v \in Elements, Erase(v) PROVE AvlInv'
    <3>1. Becomes(erase(root, v), root, Listed(root) \ {v}, -1)
      BY EraseHolds DEF AvlInv
    <3>2. erase(root, v) \in SearchTrees /\ Listed(erase(root, v)) = contents \ {v}
      BY <3>1 DEF Becomes, AvlInv
    <3>3. root' = erase(root, v) /\ contents' = contents \ {v}
      BY <2>2 DEF Erase
    <3>4. root' \in SearchTrees /\ Listed(root') = contents'
      BY <3>2, <3>3
    <3> QED  BY <3>4 DEF AvlInv
  <2>3. CASE UNCHANGED avlVars
    BY <2>3 DEF avlVars, AvlInv
  <2> QED  BY <2>1, <2>2, <2>3 DEF AvlNext
<1> QED
  BY <1>1, <1>2, PTL DEF AvlSpec

\* After any sequence of inserts and erases, of any set of integers: each
\* recorded depth is right, no node is more than one deeper on one side, and the
\* tree read from left to right is what std::set would hold, in order.
THEOREM TreeIsBalancedSet == AvlSpec => []AvlIsBalancedSet
<1>1. AvlInv => AvlIsBalancedSet
  <2> SUFFICES ASSUME AvlInv PROVE AvlIsBalancedSet
    OBVIOUS
  <2>1. root \in SearchTrees /\ root \in AvlTrees /\ Ordered(root) /\ Listed(root) = contents /\ root.depth \in Nat
    BY SearchFields DEF AvlInv, SearchTrees
  <2>2. check_invariant(root, root.depth)
    BY <2>1, AvlChecks
  <2>3. ToSet(flatten(root)) = contents
    BY <2>1 DEF ToSet, Listed
  <2> QED  BY <2>1, <2>2, <2>3 DEF AvlIsBalancedSet, Ordered
<1> QED
  BY <1>1, TreeStaysCorrect, PTL

-----------------------------------------------------------------------------
(* Splay trees: handles and moves                                          *)

Nodes == SplayValues \cup {Nothing}

Heaps == [own : Maps(Handles, Nodes), parent : Maps(SplayValues, Handles \cup {Null}),
          size : Maps(SplayValues, Nat)]

\* No two handles of a heap are one.
LEMMA HandlesDiffer ==
  /\ \A v \in SplayValues, s \in Sides : Child(v, s) \in Handles /\ Child(v, s) \notin {RootHandle, CHandle, GCHandle, Null}
  /\ \A v, w \in SplayValues, s, t \in Sides : Child(v, s) = Child(w, t) => v = w /\ s = t
  /\ \A v \in SplayValues, s \in Sides : child_side(Child(v, s)) = s /\ Child(v, s)[1] = v
  /\ RootHandle \in Handles /\ CHandle \in Handles /\ GCHandle \in Handles /\ Null \notin Handles
  /\ RootHandle # CHandle /\ RootHandle # GCHandle /\ CHandle # GCHandle /\ RootHandle # Null
  /\ \A h \in Handles \ {RootHandle, CHandle, GCHandle} :
       \E v \in SplayValues, s \in Sides : h = Child(v, s)
<1>1. \A v \in SplayValues : v # Nothing
  BY SplayAssumption DEF Nothing
<1> QED
  BY <1>1 DEF Handles, Child, RootHandle, CHandle, GCHandle, Null, child_side, Sides

\* Each side has a sibling, and there is no third.
LEMMA SidesDiffer ==
  /\ \A s \in Sides : sibling(s) \in Sides /\ sibling(s) # s /\ sibling(sibling(s)) = s
  /\ \A s, t \in Sides : t = s \/ t = sibling(s)
  /\ "left" \in Sides /\ "right" \in Sides /\ \A s \in Sides : s = "left" \/ s = "right"
BY DEF Sides, sibling

\* An empty handle holds no node.
LEMMA NothingIs == Nothing \notin SplayValues /\ SplayValues \subseteq Int /\ Nothing \in Nodes
BY SplayAssumption DEF Nothing, Nodes

\* A node has been moved, and its children point to its new handle.
HasMoved(r, m, to, from) ==
    LET n == m.own[from]
    IN  /\ r \in Heaps /\ r.size = m.size
        /\ \A h \in Handles : r.own[h] = IF h = to THEN n ELSE IF h = from THEN Nothing ELSE m.own[h]
        /\ n = Nothing => r.parent = m.parent
        /\ n # Nothing => \A x \in SplayValues :
             r.parent[x] = IF x = n THEN Null
                           ELSE IF \E s \in Sides : x = r.own[Child(n, s)] THEN to ELSE m.parent[x]

\* A move takes a node from one handle to another, and its children with it.
LEMMA MovedIs ==
  ASSUME NEW m \in Heaps, NEW to \in Handles, NEW from \in Handles, to # from
  PROVE  HasMoved(Moved(m, to, from), m, to, from)
<1> DEFINE n == m.own[from]
           o == [m.own EXCEPT ![to] = n, ![from] = Nothing]
           q == [m EXCEPT !.own = o]
           moved == {o[Child(n, s)] : s \in Sides} \ {Nothing}
           p == [x \in SplayValues |-> IF x = n THEN Null ELSE IF x \in moved THEN to ELSE m.parent[x]]
           r == Moved(m, to, from)
<1>1. m.own \in Maps(Handles, Nodes) /\ n \in Nodes /\ m.parent \in Maps(SplayValues, Handles \cup {Null})
  BY DEF Heaps, Maps
<1>2. o \in Maps(Handles, Nodes)
      /\ \A h \in Handles : o[h] = IF h = to THEN n ELSE IF h = from THEN Nothing ELSE m.own[h]
  BY <1>1, NothingIs DEF Maps
<1>3. q = [own |-> o, parent |-> m.parent, size |-> m.size]
  BY DEF Heaps
<1>4. r = fixup(q, to)
  BY DEF Moved
<1> HIDE DEF o, r
<1>5. q.own[to] = n /\ q.own = o /\ q.parent = m.parent /\ q.size = m.size
  BY <1>2, <1>3
<1>6. CASE n = Nothing
  <2>1. r = q
    BY <1>4, <1>5, <1>6 DEF fixup
  <2> HIDE DEF q
  <2>2. r.own = o /\ r.parent = m.parent /\ r.size = m.size
    BY <2>1, <1>5
  <2>3. r \in Heaps
    BY <2>1, <1>2, <1>3 DEF Heaps
  <2> QED  BY <1>2, <1>6, <2>2, <2>3 DEF r, HasMoved
<1>7. CASE n # Nothing
  <2>1. r = [q EXCEPT !.parent = [x \in SplayValues |-> IF x = n THEN Null ELSE IF x \in moved THEN to ELSE @[x]]]
    BY <1>4, <1>5, <1>7 DEF fixup
  <2>2. r = [own |-> o, parent |-> p, size |-> m.size]
    BY <2>1, <1>3
  <2>3. p \in Maps(SplayValues, Handles \cup {Null})
    BY <1>1 DEF Maps
  <2>4. r \in Heaps
    BY <2>2, <2>3, <1>2 DEF Heaps
  <2>5. \A x \in SplayValues : x \in moved <=> \E s \in Sides : x = o[Child(n, s)]
    BY NothingIs
  <2>6. \A x \in SplayValues : r.parent[x] = IF x = n THEN Null
                                ELSE IF \E s \in Sides : x = r.own[Child(n, s)] THEN to ELSE m.parent[x]
    BY <2>2, <2>5
  <2>7. r.size = m.size /\ r.own = o
    BY <2>2
  <2> QED  BY <1>2, <1>7, <2>4, <2>6, <2>7 DEF r, HasMoved
<1> QED
  BY <1>6, <1>7

Size(m, n) == IF n = Nothing THEN 0 ELSE m.size[n]

HasRefreshed(r, m, n) ==
    /\ r \in Heaps /\ r.own = m.own /\ r.parent = m.parent
    /\ \A x \in SplayValues : x # n => r.size[x] = m.size[x]
    /\ \A s \in Sides :
         r.size[n] = 1 + Size(m, m.own[Child(n, s)]) + Size(m, m.own[Child(n, sibling(s))])

\* A refresh makes the size of a node that of its children, and one more.
LEMMA RefreshIs ==
  ASSUME NEW m \in Heaps, NEW h \in Handles, m.own[h] # Nothing
  PROVE  HasRefreshed(refresh_state(m, h), m, m.own[h])
<1> DEFINE n == m.own[h]
           k == 1 + SizeOf(m, Child(n, "left")) + SizeOf(m, Child(n, "right"))
           z == [m.size EXCEPT ![n] = k]
           r == refresh_state(m, h)
<1>1. n \in SplayValues
  BY DEF Heaps, Maps, Nodes
<1>2. Child(n, "left") \in Handles /\ Child(n, "right") \in Handles
  BY <1>1, HandlesDiffer, SidesDiffer
<1>3. \A x \in Handles : SizeOf(m, x) = Size(m, m.own[x]) /\ SizeOf(m, x) \in Nat
  BY DEF SizeOf, Size, Heaps, Maps, Nodes
<1>4. k \in Nat
  BY <1>2, <1>3
<1>5. m.size \in Maps(SplayValues, Nat)
  BY DEF Heaps
<1>6. z \in Maps(SplayValues, Nat) /\ z[n] = k /\ \A x \in SplayValues : x # n => z[x] = m.size[x]
  BY <1>1, <1>4, <1>5 DEF Maps
<1>7. r = [own |-> m.own, parent |-> m.parent, size |-> z]
  <2>1. r = [m EXCEPT !.size[n] = k]
    BY DEF refresh_state
  <2> HIDE DEF r, k
  <2> QED  BY <2>1 DEF Heaps
<1> HIDE DEF z, r
<1>8. r \in Heaps
  BY <1>6, <1>7 DEF Heaps
<1>9. k = 1 + Size(m, m.own[Child(n, "left")]) + Size(m, m.own[Child(n, "right")])
  BY <1>2, <1>3
<1> HIDE DEF k
<1>10. r.own = m.own /\ r.parent = m.parent /\ r.size = z
  BY <1>7
<1>11. ASSUME NEW s \in Sides
       PROVE  r.size[n] = 1 + Size(m, m.own[Child(n, s)]) + Size(m, m.own[Child(n, sibling(s))])
  <2>1. Size(m, m.own[Child(n, "left")]) \in Nat /\ Size(m, m.own[Child(n, "right")]) \in Nat
    BY <1>2, <1>3
  <2>2. CASE s = "left"
    BY <1>6, <1>9, <1>10, <2>1, <2>2 DEF sibling
  <2>3. CASE s = "right"
    BY <1>6, <1>9, <1>10, <2>1, <2>3 DEF sibling
  <2> QED  BY <2>2, <2>3 DEF Sides
<1> QED
  BY <1>6, <1>8, <1>10, <1>11 DEF r, HasRefreshed

-----------------------------------------------------------------------------
(* A rotation                                                              *)

OwnedOnce(m) == \A x, y \in Handles : m.own[x] = m.own[y] /\ m.own[x] # Nothing => x = y

\* Handle h owns a, whose child on that side is b, and h is not below a itself.
Turnable(m, h, side, a, b) ==
    /\ m \in Heaps /\ h \in Handles \ {CHandle, GCHandle} /\ side \in Sides
    /\ m.own[CHandle] = Nothing /\ m.own[GCHandle] = Nothing /\ OwnedOnce(m)
    /\ a \in SplayValues /\ a = m.own[h]
    /\ b \in SplayValues /\ b = m.own[Child(a, side)] /\ a # b
    /\ \A s \in Sides : /\ h # Child(a, s) /\ h # Child(b, s)
                        /\ h # Child(m.own[Child(b, sibling(side))], s)

\* What the handles that take part in a rotation own, and the others what they did.
Owns(r, m, h, c, g, xh, xc, xg, xC, xG) ==
    /\ r \in Heaps
    /\ r.own[h] = xh /\ r.own[c] = xc /\ r.own[g] = xg /\ r.own[CHandle] = xC /\ r.own[GCHandle] = xG
    /\ \A x \in Handles \ {h, c, g, CHandle, GCHandle} : r.own[x] = m.own[x]

\* The handles that take part are different ones, and those of the subtrees are others.
Apart(h, c, g, a2, b2, G) ==
    /\ {h, c, g, a2, b2} \subseteq Handles
    /\ h \notin {c, g, CHandle, GCHandle}
    /\ c \notin {g, CHandle, GCHandle} /\ g \notin {CHandle, GCHandle}
    /\ a2 \notin {h, c, g, CHandle, GCHandle} /\ b2 \notin {h, c, g, a2, CHandle, GCHandle}
    /\ G # Nothing => \A s \in Sides : /\ Child(G, s) \in Handles
                                       /\ Child(G, s) \notin {h, c, g, a2, b2, CHandle, GCHandle}

\* The places a rotation touches are different handles.
LEMMA SpotsAreApart ==
  ASSUME NEW m, NEW h, NEW side, NEW a, NEW b, Turnable(m, h, side, a, b),
         NEW c, c = Child(a, side), NEW g, g = Child(b, sibling(side)),
         NEW a2, a2 = Child(a, sibling(side)), NEW b2, b2 = Child(b, side), NEW G, G = m.own[g]
  PROVE  /\ Apart(h, c, g, a2, b2, G)
         /\ G \in Nodes \ {a, b} /\ m.own[a2] \in Nodes \ {a, b} /\ m.own[b2] \in Nodes \ {a, b}
         /\ G # Nothing => G # m.own[a2] /\ G # m.own[b2]
         /\ m.own[a2] # Nothing => m.own[a2] # m.own[b2]
<1>1. side \in Sides /\ sibling(side) \in Sides /\ sibling(side) # side
  BY SidesDiffer DEF Turnable
<1>2. a \in SplayValues /\ b \in SplayValues /\ a # b /\ h \in Handles \ {CHandle, GCHandle}
      /\ a = m.own[h] /\ b = m.own[c] /\ m.own[CHandle] = Nothing /\ m.own[GCHandle] = Nothing
  BY DEF Turnable
<1>3. {h, c, g, a2, b2} \subseteq Handles
  <2>1. \A v \in SplayValues, s \in Sides : Child(v, s) \in Handles
    BY HandlesDiffer
  <2> QED  BY <1>1, <1>2, <2>1
<1>4. h # c /\ h # g /\ h # a2 /\ h # b2
  BY <1>1 DEF Turnable
<1>5. /\ c \notin {g, CHandle, GCHandle} /\ g \notin {CHandle, GCHandle}
      /\ a2 \notin {c, g, CHandle, GCHandle} /\ b2 \notin {c, g, a2, CHandle, GCHandle}
  <2>1. \A v \in SplayValues, s \in Sides : Child(v, s) # CHandle /\ Child(v, s) # GCHandle
    BY HandlesDiffer
  <2>2. \A v, w \in SplayValues, s, t \in Sides : v # w \/ s # t => Child(v, s) # Child(w, t)
    BY HandlesDiffer
  <2> QED  BY <1>1, <1>2, <2>1, <2>2
<1>6. \A x \in Handles : m.own[x] \in Nodes
  BY DEF Turnable, Heaps, Maps
<1>7. \A x, y \in Handles : m.own[x] = m.own[y] /\ m.own[x] # Nothing => x = y
  BY DEF Turnable, OwnedOnce
<1>8. a # Nothing /\ b # Nothing
  BY <1>2, NothingIs
<1>9. G \in Nodes \ {a, b} /\ m.own[a2] \in Nodes \ {a, b} /\ m.own[b2] \in Nodes \ {a, b}
  BY <1>2, <1>3, <1>4, <1>5, <1>6, <1>7, <1>8
<1>10. /\ G # Nothing => G # m.own[a2] /\ G # m.own[b2]
       /\ m.own[a2] # Nothing => m.own[a2] # m.own[b2]
  BY <1>3, <1>5, <1>7
<1>11. ASSUME G # Nothing, NEW s \in Sides
       PROVE  Child(G, s) \in Handles /\ Child(G, s) \notin {h, c, g, a2, b2, CHandle, GCHandle}
  <2>1. G \in SplayValues /\ G # a /\ G # b
    BY <1>9, <1>11 DEF Nodes
  <2>2. h # Child(G, s)
    BY DEF Turnable
  <2>3. Child(G, s) \in Handles /\ Child(G, s) \notin {CHandle, GCHandle}
    BY <2>1, HandlesDiffer
  <2>4. Child(G, s) \notin {c, g, a2, b2}
    BY <1>1, <1>2, <2>1, HandlesDiffer
  <2> QED  BY <2>2, <2>3, <2>4
<1>12. Apart(h, c, g, a2, b2, G)
  BY <1>2, <1>3, <1>4, <1>5, <1>11 DEF Apart
<1> QED
  BY <1>9, <1>10, <1>12

\* A new parent pointer changes nothing else.
LEMMA ParentIs ==
  ASSUME NEW m \in Heaps, NEW n \in SplayValues, NEW h \in Handles \cup {Null}
  PROVE  LET r == [m EXCEPT !.parent[n] = h]
         IN  /\ r \in Heaps /\ r.own = m.own /\ r.size = m.size
             /\ \A x \in SplayValues : r.parent[x] = IF x = n THEN h ELSE m.parent[x]
<1> DEFINE p == [m.parent EXCEPT ![n] = h]
           r == [m EXCEPT !.parent[n] = h]
<1>1. r = [own |-> m.own, parent |-> p, size |-> m.size]
  BY DEF Heaps
<1>2. m.parent \in Maps(SplayValues, Handles \cup {Null})
  BY DEF Heaps
<1>3. p \in Maps(SplayValues, Handles \cup {Null}) /\ \A x \in SplayValues : p[x] = IF x = n THEN h ELSE m.parent[x]
  BY <1>2 DEF Maps
<1> HIDE DEF p
<1>4. r \in Heaps
  BY <1>1, <1>3 DEF Heaps
<1> HIDE DEF r
<1> QED  BY <1>1, <1>3, <1>4 DEF r

\* What a rotation leaves.
Rotated(r, m, h, side, a, b) ==
    LET c  == Child(a, side)
        g  == Child(b, sibling(side))
        G  == m.own[g]
        A2 == m.own[Child(a, sibling(side))]
        B2 == m.own[Child(b, side)]
    IN  /\ r \in Heaps
        /\ \A x \in Handles : r.own[x] = IF x = h THEN b ELSE IF x = c THEN G
                                         ELSE IF x = g THEN a ELSE m.own[x]
        /\ \A x \in SplayValues :
             r.parent[x] = IF x = b THEN m.parent[a]
                           ELSE IF x = a \/ x = B2 THEN h
                           ELSE IF x = G \/ x = A2 THEN g
                           ELSE IF G # Nothing /\ \E s \in Sides : x = m.own[Child(G, s)] THEN c
                           ELSE m.parent[x]
        /\ \A x \in SplayValues \ {a, b} : r.size[x] = m.size[x]
        /\ r.size[a] = 1 + Size(m, G) + Size(m, A2)
        /\ r.size[b] = 1 + r.size[a] + Size(m, B2)

\* A rotation turns the two nodes at a handle, and leaves every other one.
LEMMA RotateHandleIs ==
  ASSUME NEW m, NEW h, NEW side, NEW a, NEW b, Turnable(m, h, side, a, b)
  PROVE  Rotated(rotate_handle(m, h, side), m, h, side, a, b)
<1> DEFINE s2 == sibling(side)
           c == Child(a, side)
           g == Child(b, s2)
           a2 == Child(a, s2)
           b2 == Child(b, side)
           G == m.own[g]
           A2 == m.own[a2]
           B2 == m.own[b2]
           K(x) == G # Nothing /\ \E s \in Sides : x = m.own[Child(G, s)]
           m1 == Moved(m, CHandle, c)
           n1 == refresh_state(m1, h)
           m2 == Moved(n1, GCHandle, g)
           n2 == refresh_state(m2, CHandle)
           m3 == Moved(n2, c, GCHandle)
           q3 == IF G = Nothing THEN m3 ELSE [m3 EXCEPT !.parent[G] = h]
           n3 == refresh_state(q3, h)
           m4 == Moved(n3, g, h)
           q4 == [m4 EXCEPT !.parent[a] = CHandle]
           n4 == refresh_state(q4, CHandle)
           m5 == Moved(n4, h, CHandle)
           r == [m5 EXCEPT !.parent[b] = m.parent[a]]
<1>1. /\ m \in Heaps /\ h \in Handles \ {CHandle, GCHandle} /\ a \in SplayValues /\ b \in SplayValues
      /\ m.own[h] = a /\ m.own[c] = b /\ a # b /\ side \in Sides
      /\ m.own[CHandle] = Nothing /\ m.own[GCHandle] = Nothing
  BY DEF Turnable
<1>2. s2 \in Sides /\ s2 # side /\ sibling(s2) = side /\ \A s \in Sides : s = side \/ s = s2
  BY <1>1, SidesDiffer
<1>3. /\ Apart(h, c, g, a2, b2, G)
      /\ G \in Nodes \ {a, b} /\ A2 \in Nodes \ {a, b} /\ B2 \in Nodes \ {a, b}
      /\ G # Nothing => G # A2 /\ G # B2
      /\ A2 # Nothing => A2 # B2
  <2> HIDE DEF s2
  <2> QED  BY SpotsAreApart DEF s2
<1>4. \A x \in SplayValues : K(x) => x \notin {a, b, G, A2, B2}
  <2> SUFFICES ASSUME NEW x \in SplayValues, K(x) PROVE x \notin {a, b, G, A2, B2}
    OBVIOUS
  <2>1. PICK s \in Sides : x = m.own[Child(G, s)] /\ G # Nothing
    OBVIOUS
  <2> HIDE DEF K, G, A2, B2, c, g, a2, b2
  <2>2. Child(G, s) \in Handles /\ Child(G, s) \notin {h, c, g, a2, b2, CHandle, GCHandle}
    BY <1>3, <2>1 DEF Apart
  <2>3. \A z \in {h, c, g, a2, b2} : z \in Handles /\ m.own[z] # x
    <3>1. {h, c, g, a2, b2} \subseteq Handles /\ x # Nothing
      BY <1>3, NothingIs DEF Apart
    <3>2. \A z \in Handles : m.own[z] = x => z = Child(G, s)
      BY <2>1, <2>2, <3>1 DEF Turnable, OwnedOnce
    <3> QED  BY <2>2, <3>1, <3>2
  <2> QED  BY <1>1, <2>3 DEF G, A2, B2
<1>5. /\ {h, c, g, a2, b2, CHandle, GCHandle} \subseteq Handles /\ CHandle # GCHandle
      /\ h \notin {c, g, CHandle, GCHandle}
      /\ c \notin {g, CHandle, GCHandle} /\ g \notin {CHandle, GCHandle}
      /\ a2 \notin {h, c, g, CHandle, GCHandle} /\ b2 \notin {h, c, g, a2, CHandle, GCHandle}
      /\ a # Nothing /\ b # Nothing
  <2>1. CHandle \in Handles /\ GCHandle \in Handles /\ CHandle # GCHandle
    BY HandlesDiffer
  <2> HIDE DEF c, g, a2, b2, G
  <2> QED  BY <1>1, <1>3, <2>1, NothingIs DEF Apart
<1>6. G # Nothing => \A s \in Sides : /\ Child(G, s) \in Handles
                                      /\ Child(G, s) \notin {h, c, g, a2, b2, CHandle, GCHandle}
  BY <1>3 DEF Apart
<1>7. \A s \in Sides : Child(b, s) = g \/ Child(b, s) = b2
  BY <1>2
<1>8. \A s \in Sides : Child(a, s) = c \/ Child(a, s) = a2
  BY <1>2
<1>9. G \in Nodes /\ (G # Nothing => G \in SplayValues) /\ m.own[g] = G /\ m.own[a2] = A2 /\ m.own[b2] = B2
      /\ Child(a, side) = c /\ Child(b, s2) = g /\ Child(a, s2) = a2 /\ Child(b, side) = b2
  <2> HIDE DEF c, g, a2, b2, s2
  <2>1. G \in Nodes
    BY <1>1, <1>5 DEF Heaps, Maps
  <2> QED  BY <2>1 DEF Nodes, c, g, a2, b2, s2
<1> HIDE DEF K, G, A2, B2, c, g, a2, b2, s2
<1>10. \A x : K(x) <=> G # Nothing /\ \E s \in Sides : x = m.own[Child(G, s)]
  BY DEF K
<1> DEFINE P(x) == m.parent[x]
\* The child is moved out, then its child.
<1>11. /\ Owns(m1, m, h, c, g, a, Nothing, G, b, Nothing) /\ m1.size = m.size
       /\ \A x \in SplayValues : m1.parent[x] = IF x = b THEN Null ELSE IF x = G \/ x = B2 THEN CHandle ELSE P(x)
  <2>1. HasMoved(m1, m, CHandle, c)
    BY <1>1, <1>5, MovedIs
  <2> HIDE DEF m1
  <2>2. Owns(m1, m, h, c, g, a, Nothing, G, b, Nothing)
    BY <1>1, <1>5, <1>9, <2>1 DEF HasMoved, Owns
  <2>3. \A x \in SplayValues : (\E s \in Sides : x = m1.own[Child(b, s)]) <=> x = G \/ x = B2
    <3>1. m1.own[g] = G /\ m1.own[b2] = B2
      BY <1>5, <1>9, <2>2 DEF Owns
    <3> QED  BY <1>1, <1>2, <1>7, <1>9, <3>1
  <2>4. \A x \in SplayValues : m1.parent[x] = IF x = b THEN Null ELSE IF x = G \/ x = B2 THEN CHandle ELSE P(x)
    BY <1>1, <1>5, <2>1, <2>3 DEF HasMoved
  <2> QED  BY <2>1, <2>2, <2>4 DEF HasMoved
<1> HIDE DEF m1
<1>12. HasRefreshed(n1, m1, a)
  BY <1>5, <1>11, RefreshIs DEF Owns
<1> HIDE DEF n1
<1>13. /\ Owns(m2, m, h, c, g, a, Nothing, Nothing, b, G) /\ \A x \in SplayValues \ {a} : m2.size[x] = m.size[x]
       /\ \A x \in SplayValues : m2.parent[x] = IF x = b \/ x = G THEN Null ELSE IF x = B2 THEN CHandle
                                                ELSE IF K(x) THEN GCHandle ELSE P(x)
  <2>1. Owns(n1, m, h, c, g, a, Nothing, G, b, Nothing) /\ n1.parent = m1.parent
        /\ \A x \in SplayValues \ {a} : n1.size[x] = m.size[x]
    BY <1>11, <1>12 DEF Owns, HasRefreshed
  <2>2. HasMoved(m2, n1, GCHandle, g)
    BY <1>5, <2>1, MovedIs DEF Owns
  <2> HIDE DEF m2
  <2>3. Owns(m2, m, h, c, g, a, Nothing, Nothing, b, G)
    BY <1>1, <1>5, <1>9, <2>1, <2>2 DEF HasMoved, Owns
  <2>4. \A x \in SplayValues : G # Nothing => ((\E s \in Sides : x = m2.own[Child(G, s)]) <=> K(x))
    BY <1>6, <1>10, <2>3 DEF Owns
  <2>5. n1.own[g] = G
    BY <2>1 DEF Owns
  <2>6. CASE G = Nothing
    <3>1. m2.parent = n1.parent
      BY <2>2, <2>5, <2>6 DEF HasMoved
    <3>2. \A x \in SplayValues : x # G /\ ~K(x)
      BY <1>10, <2>6, NothingIs
    <3> QED  BY <1>11, <2>1, <2>2, <2>3, <3>1, <3>2 DEF HasMoved
  <2>7. CASE G # Nothing
    <3>1. \A x \in SplayValues : m2.parent[x] = IF x = G THEN Null ELSE IF K(x) THEN GCHandle ELSE n1.parent[x]
      BY <2>2, <2>4, <2>5, <2>7 DEF HasMoved
    <3>2. \A x \in SplayValues : m2.parent[x] = IF x = b \/ x = G THEN Null ELSE IF x = B2 THEN CHandle
                                                ELSE IF K(x) THEN GCHandle ELSE P(x)
      BY <1>3, <1>4, <1>11, <2>1, <3>1
    <3> QED  BY <2>1, <2>2, <2>3, <3>2 DEF HasMoved
  <2> QED  BY <2>6, <2>7
<1> HIDE DEF m2
<1>14. HasRefreshed(n2, m2, b)
  <2>1. m2 \in Heaps /\ m2.own[CHandle] = b
    BY <1>13 DEF Owns
  <2> QED  BY <1>5, <2>1, RefreshIs
<1> HIDE DEF n2
\* The child's child takes its place.
<1>15. /\ Owns(m3, m, h, c, g, a, G, Nothing, b, Nothing) /\ \A x \in SplayValues \ {a, b} : m3.size[x] = m.size[x]
       /\ \A x \in SplayValues : m3.parent[x] = IF x = b \/ x = G THEN Null ELSE IF x = B2 THEN CHandle
                                                ELSE IF K(x) THEN c ELSE P(x)
  <2>1. Owns(n2, m, h, c, g, a, Nothing, Nothing, b, G) /\ n2.parent = m2.parent
        /\ \A x \in SplayValues \ {a, b} : n2.size[x] = m.size[x]
    BY <1>13, <1>14 DEF Owns, HasRefreshed
  <2>2. HasMoved(m3, n2, c, GCHandle)
    BY <1>5, <2>1, MovedIs DEF Owns
  <2> HIDE DEF m3
  <2>3. Owns(m3, m, h, c, g, a, G, Nothing, b, Nothing)
    BY <1>1, <1>5, <1>9, <2>1, <2>2 DEF HasMoved, Owns
  <2>4. \A x \in SplayValues : G # Nothing => ((\E s \in Sides : x = m3.own[Child(G, s)]) <=> K(x))
    BY <1>6, <1>10, <2>3 DEF Owns
  <2>5. n2.own[GCHandle] = G
    BY <2>1 DEF Owns
  <2>6. CASE G = Nothing
    <3>1. m3.parent = n2.parent
      BY <2>2, <2>5, <2>6 DEF HasMoved
    <3>2. \A x \in SplayValues : x # G /\ ~K(x)
      BY <1>10, <2>6, NothingIs
    <3> QED  BY <1>13, <2>1, <2>2, <2>3, <3>1, <3>2 DEF HasMoved
  <2>7. CASE G # Nothing
    <3>1. \A x \in SplayValues : m3.parent[x] = IF x = G THEN Null ELSE IF K(x) THEN c ELSE n2.parent[x]
      BY <2>2, <2>4, <2>5, <2>7 DEF HasMoved
    <3>2. \A x \in SplayValues : m3.parent[x] = IF x = b \/ x = G THEN Null ELSE IF x = B2 THEN CHandle
                                                ELSE IF K(x) THEN c ELSE P(x)
      BY <1>3, <1>4, <1>13, <2>1, <3>1
    <3> QED  BY <2>1, <2>2, <2>3, <3>2 DEF HasMoved
  <2> QED  BY <2>6, <2>7
<1> HIDE DEF m3
<1>16. /\ Owns(q3, m, h, c, g, a, G, Nothing, b, Nothing) /\ \A x \in SplayValues \ {a, b} : q3.size[x] = m.size[x]
       /\ \A x \in SplayValues : q3.parent[x] = IF x = b THEN Null ELSE IF x = G THEN h ELSE IF x = B2 THEN CHandle
                                                ELSE IF K(x) THEN c ELSE P(x)
  <2>1. CASE G = Nothing
    <3>1. q3 = m3
      BY <2>1
    <3> HIDE DEF q3
    <3> QED  BY <1>15, <2>1, <3>1, NothingIs
  <2>2. CASE G # Nothing
    <3>1. G \in SplayValues /\ h \in Handles \cup {Null} /\ m3 \in Heaps
      BY <1>1, <1>9, <1>15, <2>2 DEF Owns
    <3>2. /\ q3 \in Heaps /\ q3.own = m3.own /\ q3.size = m3.size
          /\ \A x \in SplayValues : q3.parent[x] = IF x = G THEN h ELSE m3.parent[x]
      <4>1. q3 = [m3 EXCEPT !.parent[G] = h]
        BY <2>2
      <4> HIDE DEF q3
      <4> QED  BY <3>1, <4>1, ParentIs
    <3> HIDE DEF q3
    <3>3. Owns(q3, m, h, c, g, a, G, Nothing, b, Nothing) /\ \A x \in SplayValues \ {a, b} : q3.size[x] = m.size[x]
      BY <1>15, <3>2 DEF Owns
    <3> QED  BY <1>3, <1>15, <3>2, <3>3
  <2> QED  BY <2>1, <2>2
<1> HIDE DEF q3
<1>17. HasRefreshed(n3, q3, a)
  <2>1. q3 \in Heaps /\ q3.own[h] = a
    BY <1>16 DEF Owns
  <2> QED  BY <1>5, <2>1, RefreshIs
<1> HIDE DEF n3
<1>18. /\ Owns(n3, m, h, c, g, a, G, Nothing, b, Nothing) /\ n3.parent = q3.parent
       /\ \A x \in SplayValues \ {a, b} : n3.size[x] = m.size[x]
       /\ n3.size[a] = 1 + Size(m, G) + Size(m, A2)
  <2>1. Owns(n3, m, h, c, g, a, G, Nothing, b, Nothing) /\ n3.parent = q3.parent
        /\ \A x \in SplayValues \ {a, b} : n3.size[x] = m.size[x]
    BY <1>16, <1>17 DEF Owns, HasRefreshed
  <2>2. q3.own[c] = G /\ q3.own[a2] = A2
    BY <1>5, <1>9, <1>16 DEF Owns
  <2>3. n3.size[a] = 1 + Size(q3, q3.own[Child(a, side)]) + Size(q3, q3.own[Child(a, sibling(side))])
    BY <1>1, <1>17 DEF HasRefreshed
  <2>4. n3.size[a] = 1 + Size(q3, G) + Size(q3, A2)
    BY <1>9, <2>2, <2>3 DEF s2
  <2>5. Size(q3, G) = Size(m, G) /\ Size(q3, A2) = Size(m, A2)
    BY <1>3, <1>16 DEF Size, Nodes
  <2> QED  BY <2>1, <2>4, <2>5
\* The node itself goes below its child, and the child to where it was.
<1>19. /\ Owns(m4, m, h, c, g, Nothing, G, a, b, Nothing)
       /\ m4.size = n3.size
       /\ \A x \in SplayValues : m4.parent[x] = IF x = a \/ x = b THEN Null ELSE IF x = G \/ x = A2 THEN g
                                                ELSE IF x = B2 THEN CHandle ELSE IF K(x) THEN c ELSE P(x)
  <2>1. HasMoved(m4, n3, g, h)
    BY <1>5, <1>18, MovedIs DEF Owns
  <2> HIDE DEF m4
  <2>2. Owns(m4, m, h, c, g, Nothing, G, a, b, Nothing)
    BY <1>1, <1>5, <1>9, <1>18, <2>1 DEF HasMoved, Owns
  <2>3. \A x \in SplayValues : (\E s \in Sides : x = m4.own[Child(a, s)]) <=> x = G \/ x = A2
    <3>1. m4.own[c] = G /\ m4.own[a2] = A2
      BY <1>5, <1>9, <2>2 DEF Owns
    <3> QED  BY <1>1, <1>2, <1>8, <1>9, <3>1
  <2>4. n3.own[h] = a
    BY <1>18 DEF Owns
  <2>5. \A x \in SplayValues : m4.parent[x] = IF x = a THEN Null ELSE IF x = G \/ x = A2 THEN g ELSE n3.parent[x]
    BY <1>5, <2>1, <2>3, <2>4 DEF HasMoved
  <2>6. \A x \in SplayValues : m4.parent[x] = IF x = a \/ x = b THEN Null ELSE IF x = G \/ x = A2 THEN g
                                                ELSE IF x = B2 THEN CHandle ELSE IF K(x) THEN c ELSE P(x)
    BY <1>3, <1>4, <1>16, <1>18, <2>5
  <2> QED  BY <2>1, <2>2, <2>6 DEF HasMoved
<1> HIDE DEF m4
<1>20. /\ Owns(q4, m, h, c, g, Nothing, G, a, b, Nothing) /\ q4.size = n3.size
       /\ \A x \in SplayValues : q4.parent[x] = IF x = a THEN CHandle ELSE m4.parent[x]
  <2>1. m4 \in Heaps /\ CHandle \in Handles \cup {Null}
    BY <1>5, <1>19 DEF Owns
  <2>2. /\ q4 \in Heaps /\ q4.own = m4.own /\ q4.size = m4.size
        /\ \A x \in SplayValues : q4.parent[x] = IF x = a THEN CHandle ELSE m4.parent[x]
    BY <1>1, <2>1, ParentIs
  <2> HIDE DEF q4
  <2> QED  BY <1>19, <2>2 DEF Owns
<1> HIDE DEF q4
<1>21. HasRefreshed(n4, q4, b)
  <2>1. q4 \in Heaps /\ q4.own[CHandle] = b
    BY <1>20 DEF Owns
  <2> QED  BY <1>5, <2>1, RefreshIs
<1> HIDE DEF n4
<1>22. /\ Owns(n4, m, h, c, g, Nothing, G, a, b, Nothing) /\ n4.parent = q4.parent
       /\ \A x \in SplayValues \ {a, b} : n4.size[x] = m.size[x]
       /\ n4.size[a] = n3.size[a] /\ n4.size[b] = 1 + n4.size[a] + Size(m, B2)
  <2>1. Owns(n4, m, h, c, g, Nothing, G, a, b, Nothing) /\ n4.parent = q4.parent
        /\ \A x \in SplayValues \ {b} : n4.size[x] = n3.size[x]
    BY <1>20, <1>21 DEF Owns, HasRefreshed
  <2>2. q4.own[g] = a /\ q4.own[b2] = B2
    BY <1>5, <1>9, <1>20 DEF Owns
  <2>3. n4.size[b] = 1 + Size(q4, q4.own[Child(b, s2)]) + Size(q4, q4.own[Child(b, sibling(s2))])
    BY <1>2, <1>21 DEF HasRefreshed
  <2>4. n4.size[b] = 1 + Size(q4, a) + Size(q4, B2)
    BY <1>2, <1>9, <2>2, <2>3
  <2>5. Size(q4, a) = n3.size[a] /\ Size(q4, B2) = Size(m, B2)
    BY <1>3, <1>5, <1>18, <1>20 DEF Size, Nodes
  <2> QED  BY <1>1, <1>18, <2>1, <2>4, <2>5
<1>23. /\ Owns(m5, m, h, c, g, b, G, a, Nothing, Nothing) /\ m5.size = n4.size
       /\ \A x \in SplayValues : m5.parent[x] = IF x = b THEN Null ELSE IF x = a \/ x = B2 THEN h
                                                ELSE IF x = G \/ x = A2 THEN g ELSE IF K(x) THEN c ELSE P(x)
  <2>1. HasMoved(m5, n4, h, CHandle)
    BY <1>5, <1>22, MovedIs DEF Owns
  <2> HIDE DEF m5
  <2>2. Owns(m5, m, h, c, g, b, G, a, Nothing, Nothing)
    BY <1>1, <1>5, <1>9, <1>22, <2>1 DEF HasMoved, Owns
  <2>3. \A x \in SplayValues : (\E s \in Sides : x = m5.own[Child(b, s)]) <=> x = a \/ x = B2
    <3>1. m5.own[g] = a /\ m5.own[b2] = B2
      BY <1>5, <1>9, <2>2 DEF Owns
    <3> QED  BY <1>1, <1>2, <1>7, <1>9, <3>1
  <2>4. n4.own[CHandle] = b
    BY <1>22 DEF Owns
  <2>5. \A x \in SplayValues : m5.parent[x] = IF x = b THEN Null ELSE IF x = a \/ x = B2 THEN h ELSE n4.parent[x]
    BY <1>5, <2>1, <2>3, <2>4 DEF HasMoved
  <2>6. \A x \in SplayValues : m5.parent[x] = IF x = b THEN Null ELSE IF x = a \/ x = B2 THEN h
                                                ELSE IF x = G \/ x = A2 THEN g ELSE IF K(x) THEN c ELSE P(x)
    BY <1>3, <1>4, <1>19, <1>20, <1>22, <2>5
  <2> QED  BY <2>1, <2>2, <2>6 DEF HasMoved
<1> HIDE DEF m5
<1>24. /\ Owns(r, m, h, c, g, b, G, a, Nothing, Nothing) /\ r.size = n4.size
       /\ \A x \in SplayValues : r.parent[x] = IF x = b THEN m.parent[a] ELSE m5.parent[x]
  <2>1. m5 \in Heaps /\ m.parent[a] \in Handles \cup {Null}
    BY <1>1, <1>23 DEF Owns, Heaps, Maps
  <2>2. /\ r \in Heaps /\ r.own = m5.own /\ r.size = m5.size
        /\ \A x \in SplayValues : r.parent[x] = IF x = b THEN m.parent[a] ELSE m5.parent[x]
    BY <1>1, <2>1, ParentIs
  <2> HIDE DEF r
  <2> QED  BY <1>23, <2>2 DEF Owns
<1>25. rotate_handle(m, h, side) = r
  <2>1. m.own[h] = a
    BY <1>1
  <2>2. cut(m, h, side, CHandle) = n1
    BY <1>1 DEF cut, n1, m1, c
  <2>3. cut(n1, CHandle, s2, GCHandle) = n2
    <3>1. n1.own[CHandle] = b
      BY <1>11, <1>12 DEF Owns, HasRefreshed
    <3> QED  BY <3>1 DEF cut, n2, m2, g
  <2>4. link(n2, h, GCHandle, side) = n3
    <3>1. n2.own[h] = a
      BY <1>13, <1>14 DEF Owns, HasRefreshed
    <3>2. m3.own[c] = G
      BY <1>15 DEF Owns
    <3>3. Child(n2.own[h], side) = c
      BY <3>1 DEF c
    <3> QED  BY <3>2, <3>3 DEF link, n3, q3, m3
  <2>5. link(n3, CHandle, h, s2) = n4
    <3>1. n3.own[CHandle] = b
      BY <1>18 DEF Owns
    <3>2. m4.own[g] = a
      BY <1>19 DEF Owns
    <3>3. Child(n3.own[CHandle], s2) = g
      BY <3>1 DEF g
    <3> QED  BY <1>5, <3>2, <3>3 DEF link, n4, q4, m4
  <2>6. m5.own[h] = b
    BY <1>23 DEF Owns
  <2> QED  BY <2>1, <2>2, <2>3, <2>4, <2>5, <2>6 DEF rotate_handle, s2, r, m5
<1> HIDE DEF r
<1>26. \A x \in Handles : r.own[x] = IF x = h THEN b ELSE IF x = c THEN G ELSE IF x = g THEN a ELSE m.own[x]
  BY <1>1, <1>5, <1>24 DEF Owns
<1>27. \A x \in SplayValues : r.parent[x] = IF x = b THEN m.parent[a] ELSE IF x = a \/ x = B2 THEN h
                                            ELSE IF x = G \/ x = A2 THEN g ELSE IF K(x) THEN c ELSE m.parent[x]
  BY <1>23, <1>24
<1>28. /\ \A x \in SplayValues \ {a, b} : r.size[x] = m.size[x]
       /\ r.size[a] = 1 + Size(m, G) + Size(m, A2) /\ r.size[b] = 1 + r.size[a] + Size(m, B2)
  BY <1>18, <1>22, <1>24
<1>29. r \in Heaps
  BY <1>24 DEF Owns
<1>30. Rotated(r, m, h, side, a, b)
  BY <1>26, <1>27, <1>28, <1>29 DEF Rotated, K, G, A2, B2, c, g, a2, b2, s2
<1> QED
  BY <1>25, <1>30

-----------------------------------------------------------------------------
(* The tree on the heap                                                    *)

Before(side, x, y) == IF side = "left" THEN x < y ELSE y < x

\* The values u[h] below each handle h are those of a search tree.
Parts(m, u, h) ==
    LET n == m.own[h]
    IN  /\ n = Nothing => u[h] = {}
        /\ n # Nothing => /\ \A s \in Sides : u[h] = {n} \cup u[Child(n, s)] \cup u[Child(n, sibling(s))]
                          /\ \A s \in Sides : \A x \in u[Child(n, s)] : Before(s, x, n)

\* All nodes are below the root, and only nodes that are owned own others.
Rooted(m, u) ==
    /\ \A h \in Handles : m.own[h] # Nothing => m.own[h] \in u[RootHandle]
    /\ \A v \in u[RootHandle] : \E h \in Handles : m.own[h] = v
    /\ \A v \in SplayValues, s \in Sides : m.own[Child(v, s)] # Nothing => v \in u[RootHandle]

\* Parents are where the node above is owned.
PointsUp(m) ==
    /\ m.own[RootHandle] # Nothing => m.parent[m.own[RootHandle]] = Null
    /\ \A h \in Handles, s \in Sides :
         m.own[h] # Nothing /\ m.own[Child(m.own[h], s)] # Nothing
           => m.parent[m.own[Child(m.own[h], s)]] = h

Tree(m, u) ==
    /\ m \in Heaps /\ OwnedOnce(m)
    /\ m.own[CHandle] = Nothing /\ m.own[GCHandle] = Nothing
    /\ u \in Maps(Handles, SUBSET SplayValues)
    /\ \A h \in Handles : Parts(m, u, h)
    /\ Rooted(m, u) /\ PointsUp(m)

\* Each side orders the values, one the other way round.
LEMMA BeforeIs ==
  /\ \A s \in Sides : \A x, y, z \in SplayValues : Before(s, x, y) /\ Before(s, y, z) => Before(s, x, z)
  /\ \A s \in Sides : \A x, y \in SplayValues : Before(s, x, y) <=> Before(sibling(s), y, x)
  /\ \A s \in Sides : \A x \in SplayValues : ~Before(s, x, x)
BY NothingIs DEF Before, Sides, sibling

\* What a heap that is a tree has.
LEMMA TreeIs ==
  ASSUME NEW m, NEW u, Tree(m, u), NEW h \in Handles
  PROVE  /\ m.own[h] \in Nodes /\ u[h] \subseteq SplayValues
         /\ m.own[h] = Nothing => u[h] = {}
         /\ m.own[h] # Nothing =>
              /\ m.own[h] \in SplayValues /\ m.own[h] \in u[h]
              /\ \A s \in Sides : /\ Child(m.own[h], s) \in Handles
                                  /\ u[h] = {m.own[h]} \cup u[Child(m.own[h], s)] \cup u[Child(m.own[h], sibling(s))]
                                  /\ u[Child(m.own[h], s)] \subseteq u[h]
                                  /\ \A x \in u[Child(m.own[h], s)] : Before(s, x, m.own[h])
                                  /\ m.own[h] \notin u[Child(m.own[h], s)]
<1>1. m.own[h] \in Nodes /\ u[h] \subseteq SplayValues /\ Parts(m, u, h)
  BY DEF Tree, Heaps, Maps
<1>2. ASSUME m.own[h] # Nothing PROVE m.own[h] \in SplayValues
  BY <1>1, <1>2 DEF Nodes
<1>3. ASSUME m.own[h] # Nothing, NEW s \in Sides
      PROVE  /\ Child(m.own[h], s) \in Handles
             /\ u[h] = {m.own[h]} \cup u[Child(m.own[h], s)] \cup u[Child(m.own[h], sibling(s))]
             /\ \A x \in u[Child(m.own[h], s)] : Before(s, x, m.own[h])
  BY <1>1, <1>2, <1>3, HandlesDiffer DEF Parts
<1>4. ASSUME m.own[h] # Nothing, NEW s \in Sides, m.own[h] \in u[Child(m.own[h], s)]
      PROVE  FALSE
  BY <1>2, <1>3, <1>4, BeforeIs
<1>5. m.own[h] = Nothing => u[h] = {}
  BY <1>1 DEF Parts
<1>6. m.own[h] # Nothing => m.own[h] \in u[h]
  BY <1>3, SidesDiffer
<1>7. ASSUME m.own[h] # Nothing, NEW s \in Sides PROVE u[Child(m.own[h], s)] \subseteq u[h]
  BY <1>3, <1>7
<1> QED
  BY <1>1, <1>2, <1>3, <1>4, <1>5, <1>6, <1>7

\* What the node at a handle has on each side.
LEMMA NodeIs ==
  ASSUME NEW m, NEW u, Tree(m, u), NEW h \in Handles, NEW n, n = m.own[h], n # Nothing, NEW d \in Sides
  PROVE  /\ n \in SplayValues /\ n \in u[h] /\ Child(n, d) \in Handles
         /\ n \notin u[Child(n, d)] /\ u[Child(n, d)] \subseteq u[h]
BY TreeIs

\* What a rotation at a handle finds below it.
LEMMA BelowFacts ==
  ASSUME NEW m, NEW u, Tree(m, u), NEW h \in Handles, NEW side \in Sides,
         NEW a, a = m.own[h], a # Nothing, NEW b, b = m.own[Child(a, side)], b # Nothing
  PROVE  Turnable(m, h, side, a, b)
<1> DEFINE c == Child(a, side)
           g == Child(b, sibling(side))
           G == m.own[g]
<1>1. a \in SplayValues /\ a \in u[h] /\ c \in Handles /\ a \notin u[c] /\ u[c] \subseteq u[h]
  BY TreeIs
<1>2. b \in SplayValues /\ b \in u[c] /\ g \in Handles /\ u[g] \subseteq u[c]
  <2> HIDE DEF c
  <2>1. b = m.own[c]
    BY DEF c
  <2> QED  BY <1>1, <2>1, TreeIs, SidesDiffer
<1>3. m \in Heaps /\ OwnedOnce(m) /\ m.own[CHandle] = Nothing /\ m.own[GCHandle] = Nothing
  BY DEF Tree
<1>4. \A s \in Sides : a \notin u[Child(a, s)]
  BY TreeIs
<1>5. \A s \in Sides : a \notin u[Child(b, s)]
  <2> HIDE DEF c
  <2>1. \A s \in Sides : u[Child(b, s)] \subseteq u[c]
    <3>1. b = m.own[c]
      BY DEF c
    <3> QED  BY <1>1, <3>1, TreeIs
  <2> QED  BY <1>1, <2>1
<1>6. ASSUME NEW s \in Sides PROVE h # Child(G, s)
  <2> HIDE DEF c, g
  <2>1. CASE G = Nothing
    <3>1. Child(Nothing, s) \notin Handles
      BY NothingIs DEF Handles, Child, Sides, RootHandle, CHandle, GCHandle
    <3> QED  BY <2>1, <3>1
  <2>2. CASE G # Nothing
    <3>1. u[Child(G, s)] \subseteq u[g]
      BY <1>2, <2>2, TreeIs
    <3> QED  BY <1>1, <1>2, <3>1
  <2> QED  BY <2>1, <2>2
<1>7. h \notin {CHandle, GCHandle} /\ a # b
  BY <1>1, <1>2, <1>3
<1> QED
  BY <1>1, <1>2, <1>3, <1>4, <1>5, <1>6, <1>7 DEF Turnable

\* Below a node is one more than on its two sides.
LEMMA CountIs ==
  ASSUME NEW m, NEW u, Tree(m, u), NEW h \in Handles, m.own[h] # Nothing, NEW s \in Sides
  PROVE  LET L == u[Child(m.own[h], s)]
             R == u[Child(m.own[h], sibling(s))]
         IN  /\ Cardinality(L) \in Nat /\ Cardinality(R) \in Nat
             /\ Cardinality(u[h]) = 1 + Cardinality(L) + Cardinality(R)
<1> DEFINE n == m.own[h]
           L == u[Child(n, s)]
           R == u[Child(n, sibling(s))]
<1>1. sibling(s) \in Sides
  BY SidesDiffer
<1>2. n \in SplayValues /\ u[h] = {n} \cup L \cup R /\ n \notin L /\ n \notin R /\ u[h] \subseteq SplayValues
  BY <1>1, TreeIs
<1>3. \A x \in L : Before(s, x, n)
  BY TreeIs
<1>4. \A x \in R : Before(sibling(s), x, n)
  BY <1>1, TreeIs
<1> HIDE DEF n, L, R
<1>5. ASSUME NEW x \in L, x \in R PROVE FALSE
  BY <1>2, <1>3, <1>4, <1>5, BeforeIs
<1>6. IsFiniteSet(L) /\ IsFiniteSet(R)
  <2>1. L \subseteq SplayValues /\ R \subseteq SplayValues
    BY <1>2
  <2> QED  BY <2>1, SplayAssumption, FS_Subset
<1>7. L \cap R = {}
  BY <1>5
<1>8. /\ IsFiniteSet(L \cup R) /\ Cardinality(L) \in Nat /\ Cardinality(R) \in Nat
      /\ Cardinality(L \cup R) = Cardinality(L) + Cardinality(R)
  <2>1. Cardinality(L) \in Nat /\ Cardinality(R) \in Nat /\ Cardinality({}) = 0
    BY <1>6, FS_CardinalityType, FS_EmptySet
  <2>2. IsFiniteSet(L \cup R) /\ Cardinality(L \cup R) = Cardinality(L) + Cardinality(R) - Cardinality(L \cap R)
    BY <1>6, FS_Union
  <2>3. Cardinality(L \cap R) = 0
    BY <1>7, <2>1
  <2> QED  BY ONLY <2>1, <2>2, <2>3
<1>9. n \notin L \cup R /\ u[h] = (L \cup R) \cup {n}
  BY <1>2
<1>10. Cardinality(u[h]) = Cardinality(L \cup R) + 1
  BY <1>8, <1>9, FS_AddElement
<1> QED
  BY <1>8, <1>10 DEF L, R, n

\* Sizes are right, but for the nodes in W; other values have none.
Sized(m, u, W) ==
    /\ \A h \in Handles : m.own[h] # Nothing /\ m.own[h] \notin W => m.size[m.own[h]] = Cardinality(u[h])
    /\ \A v \in SplayValues : v \notin u[RootHandle] => m.size[v] = 0

\* The values below each handle after a rotation.
TurnedBelow(u, a, b, side) ==
    [u EXCEPT ![Child(b, sibling(side))] = {a} \cup u[Child(b, sibling(side))] \cup u[Child(a, sibling(side))],
              ![Child(a, side)] = u[Child(b, sibling(side))]]

HasTurned(w, u, h, side, a, b) ==
    LET c  == Child(a, side)
        g  == Child(b, sibling(side))
        a2 == Child(a, sibling(side))
        b2 == Child(b, side)
    IN  /\ w \in Maps(Handles, SUBSET SplayValues)
        /\ w[g] = {a} \cup u[g] \cup u[a2] /\ w[c] = u[g]
        /\ \A x \in Handles \ {c, g} : w[x] = u[x]
        /\ u[h] = {b} \cup w[g] \cup w[b2]
        /\ \A x \in w[g] : Before(sibling(side), x, b)
        /\ \A x \in w[b2] : Before(side, x, b)
        /\ \A x \in w[c] : Before(side, x, a)
        /\ \A x \in w[a2] : Before(sibling(side), x, a)

\* What is below each handle after a rotation.
LEMMA TurnedIs ==
  ASSUME NEW m, NEW u, Tree(m, u), NEW h \in Handles, NEW side \in Sides,
         NEW a, a = m.own[h], a # Nothing, NEW b, b = m.own[Child(a, side)], b # Nothing
  PROVE  HasTurned(TurnedBelow(u, a, b, side), u, h, side, a, b)
<1> DEFINE w  == TurnedBelow(u, a, b, side)
           c  == Child(a, side)
           g  == Child(b, sibling(side))
           a2 == Child(a, sibling(side))
           b2 == Child(b, side)
<1>1. side \in Sides /\ sibling(side) \in Sides /\ sibling(side) # side /\ sibling(sibling(side)) = side
  BY SidesDiffer
<1>c. b = m.own[c]
  OBVIOUS
<1>2. Turnable(m, h, side, a, b)
  BY BelowFacts
<1>3. Apart(h, c, g, a2, b2, m.own[g])
  BY <1>2, SpotsAreApart
<1>4. a \in SplayValues /\ u[h] = {a} \cup u[c] \cup u[a2] /\ u[h] \subseteq SplayValues
  BY <1>1, TreeIs
<1>5. (\A x \in u[c] : Before(side, x, a)) /\ \A x \in u[a2] : Before(sibling(side), x, a)
  <2>1. \A s \in Sides : \A x \in u[Child(a, s)] : Before(s, x, a)
    <3>1. Parts(m, u, h)
      BY DEF Tree
    <3> QED  BY <3>1 DEF Parts
  <2> QED  BY <1>1, <2>1
<1> HIDE DEF w
<1>6. c \in Handles /\ g \in Handles /\ a2 \in Handles /\ b2 \in Handles /\ c # g
      /\ a2 \notin {c, g} /\ b2 \notin {c, g} /\ m.own[c] = b
  BY <1>3 DEF Apart
<1>7. b \in SplayValues /\ u[c] = {b} \cup u[b2] \cup u[g]
  BY <1>1, <1>6, TreeIs
<1>8. (\A x \in u[b2] : Before(side, x, b)) /\ \A x \in u[g] : Before(sibling(side), x, b)
  <2>1. \A s \in Sides : \A x \in u[Child(b, s)] : Before(s, x, b)
    <3>1. Parts(m, u, c)
      BY <1>6 DEF Tree
    <3> QED  BY <1>6, <3>1 DEF Parts
  <2> QED  BY <1>1, <2>1
<1>9. u \in Maps(Handles, SUBSET SplayValues)
  BY DEF Tree
<1>10. /\ w \in Maps(Handles, SUBSET SplayValues)
       /\ w[g] = {a} \cup u[g] \cup u[a2] /\ w[c] = u[g]
       /\ \A x \in Handles \ {c, g} : w[x] = u[x]
  <2>1. w = [u EXCEPT ![g] = {a} \cup u[g] \cup u[a2], ![c] = u[g]]
    BY DEF w, TurnedBelow
  <2>2. {a} \cup u[g] \cup u[a2] \in SUBSET SplayValues /\ u[g] \in SUBSET SplayValues
    BY <1>4, <1>7
  <2> QED  BY <1>6, <1>9, <2>1, <2>2 DEF Maps
<1>11. u[h] = {b} \cup w[g] \cup w[b2]
  <2>1. w[b2] = u[b2] /\ w[g] = {a} \cup u[g] \cup u[a2]
    BY <1>6, <1>10
  <2>2. u[h] = {a} \cup ({b} \cup u[b2] \cup u[g]) \cup u[a2]
    BY <1>4, <1>7
  <2> QED  BY ONLY <2>1, <2>2
<1>12. \A x \in w[g] : Before(sibling(side), x, b)
  <2>1. Before(side, b, a)
    BY <1>5, <1>7
  <2>2. Before(sibling(side), a, b)
    BY <1>1, <1>4, <1>7, <2>1, BeforeIs
  <2>3. \A x \in u[a2] : x \in SplayValues /\ Before(sibling(side), x, b)
    BY <1>1, <1>4, <1>5, <1>7, <2>2, BeforeIs
  <2> QED  BY <1>8, <1>10, <2>2, <2>3
<1>13. (\A x \in w[b2] : Before(side, x, b)) /\ (\A x \in w[c] : Before(side, x, a))
       /\ \A x \in w[a2] : Before(sibling(side), x, a)
  BY <1>5, <1>6, <1>7, <1>8, <1>10
<1> QED
  BY <1>10, <1>11, <1>12, <1>13 DEF HasTurned, w

\* A rotation keeps the tree, what is below the handle, and counts both nodes anew.
LEMMA RotateKeeps ==
  ASSUME NEW m, NEW u, Tree(m, u), NEW h \in Handles, NEW side \in Sides,
         NEW a, a = m.own[h], a # Nothing, NEW b, b = m.own[Child(a, side)], b # Nothing,
         NEW W, Sized(m, u, W),
         m.own[Child(b, side)] \notin W, m.own[Child(b, sibling(side))] \notin W,
         m.own[Child(a, sibling(side))] \notin W
  PROVE  /\ Rotated(rotate_handle(m, h, side), m, h, side, a, b)
         /\ Tree(rotate_handle(m, h, side), TurnedBelow(u, a, b, side))
         /\ Sized(rotate_handle(m, h, side), TurnedBelow(u, a, b, side), W \ {a, b})
<1> DEFINE r == rotate_handle(m, h, side)
           w == TurnedBelow(u, a, b, side)
           s2 == sibling(side)
           c == Child(a, side)
           g == Child(b, s2)
           a2 == Child(a, s2)
           b2 == Child(b, side)
           G == m.own[g]
           A2 == m.own[a2]
           B2 == m.own[b2]
<1>1. side \in Sides /\ s2 \in Sides /\ s2 # side /\ sibling(s2) = side /\ \A s \in Sides : s = side \/ s = s2
  BY SidesDiffer
<1>2. Turnable(m, h, side, a, b)
  BY BelowFacts
<1>3. Rotated(r, m, h, side, a, b)
  BY <1>2, RotateHandleIs
<1>4. /\ Apart(h, c, g, a2, b2, G)
      /\ G \in Nodes \ {a, b} /\ A2 \in Nodes \ {a, b} /\ B2 \in Nodes \ {a, b}
      /\ G # Nothing => G # A2 /\ G # B2
      /\ A2 # Nothing => A2 # B2
  <2> HIDE DEF s2
  <2> QED  BY <1>2, SpotsAreApart DEF s2
<1>5. /\ w \in Maps(Handles, SUBSET SplayValues)
      /\ w[g] = {a} \cup u[g] \cup u[a2] /\ w[c] = u[g]
      /\ \A x \in Handles \ {c, g} : w[x] = u[x]
      /\ u[h] = {b} \cup w[g] \cup w[b2]
      /\ \A x \in w[g] : Before(s2, x, b)
      /\ \A x \in w[b2] : Before(side, x, b)
      /\ \A x \in w[c] : Before(side, x, a)
      /\ \A x \in w[a2] : Before(s2, x, a)
  <2>1. HasTurned(w, u, h, side, a, b)
    BY TurnedIs
  <2> HIDE DEF w
  <2> QED  BY <2>1 DEF HasTurned
<1>6. /\ r \in Heaps
      /\ \A x \in Handles : r.own[x] = IF x = h THEN b ELSE IF x = c THEN G
                                       ELSE IF x = g THEN a ELSE m.own[x]
      /\ \A x \in SplayValues :
           r.parent[x] = IF x = b THEN m.parent[a]
                         ELSE IF x = a \/ x = B2 THEN h
                         ELSE IF x = G \/ x = A2 THEN g
                         ELSE IF G # Nothing /\ \E s \in Sides : x = m.own[Child(G, s)] THEN c
                         ELSE m.parent[x]
      /\ \A x \in SplayValues \ {a, b} : r.size[x] = m.size[x]
      /\ r.size[a] = 1 + Size(m, G) + Size(m, A2)
      /\ r.size[b] = 1 + r.size[a] + Size(m, B2)
  BY <1>3 DEF Rotated
<1>7. /\ a \in SplayValues /\ b \in SplayValues /\ a # b /\ a # Nothing /\ b # Nothing
      /\ m.own[h] = a /\ m.own[c] = b /\ m.own[CHandle] = Nothing /\ m.own[GCHandle] = Nothing
  BY <1>2, NothingIs DEF Turnable
<1>8. m.own[g] = G /\ m.own[a2] = A2 /\ m.own[b2] = B2
      /\ Child(a, side) = c /\ Child(b, s2) = g /\ Child(a, s2) = a2 /\ Child(b, side) = b2
  OBVIOUS
<1>9. /\ {h, c, g, a2, b2} \subseteq Handles
      /\ h \notin {c, g, CHandle, GCHandle}
      /\ c \notin {g, CHandle, GCHandle} /\ g \notin {CHandle, GCHandle}
      /\ a2 \notin {h, c, g, CHandle, GCHandle} /\ b2 \notin {h, c, g, a2, CHandle, GCHandle}
      /\ G # Nothing => \A s \in Sides : /\ Child(G, s) \in Handles
                                         /\ Child(G, s) \notin {h, c, g, a2, b2, CHandle, GCHandle}
  BY <1>4 DEF Apart
<1>10. RootHandle \in Handles /\ RootHandle \notin {c, g, a2, b2}
       /\ \A s \in Sides : G # Nothing => RootHandle # Child(G, s)
  <2>1. \A v \in SplayValues, s \in Sides : RootHandle # Child(v, s)
    BY HandlesDiffer
  <2>2. RootHandle \in Handles
    BY HandlesDiffer
  <2>3. G # Nothing => G \in SplayValues
    BY <1>4 DEF Nodes
  <2> QED  BY <1>1, <1>7, <2>1, <2>2, <2>3
<1>11. \A v \in SplayValues, s \in Sides : Child(v, s) \in Handles
  BY HandlesDiffer
<1>12. \A x, y \in Handles : m.own[x] = m.own[y] /\ m.own[x] # Nothing => x = y
  BY DEF Tree, OwnedOnce
<1>13. \A x \in Handles : m.own[x] \in Nodes
  BY DEF Tree, Heaps, Maps
<1>14. CHandle \in Handles /\ GCHandle \in Handles
  BY HandlesDiffer
<1> HIDE DEF r, w, G, A2, B2, c, g, a2, b2, s2
<1>15. OwnedOnce(r) /\ r.own[CHandle] = Nothing /\ r.own[GCHandle] = Nothing
  <2>1. ASSUME NEW x \in Handles, NEW y \in Handles, r.own[x] = r.own[y], r.own[x] # Nothing PROVE x = y
    BY <1>6, <1>7, <1>8, <1>9, <1>12, <2>1
  <2>2. r.own[CHandle] = Nothing /\ r.own[GCHandle] = Nothing
    BY <1>6, <1>7, <1>9, <1>14
  <2> QED  BY <2>1, <2>2 DEF OwnedOnce
\* Handles of other nodes.
<1>16. ASSUME NEW n \in SplayValues, n # a, n # b, NEW s \in Sides
       PROVE  Child(n, s) \in Handles /\ Child(n, s) \notin {c, g, a2, b2}
  <2>1. \A t \in Sides : Child(n, s) # Child(a, t) /\ Child(n, s) # Child(b, t)
    BY <1>7, <1>16, HandlesDiffer
  <2>2. Child(n, s) \in Handles
    BY <1>11, <1>16
  <2> QED  BY <1>1, <1>8, <2>1, <2>2
<1>17. ASSUME NEW x \in Handles PROVE Parts(r, w, x)
  <2>1. CASE x = h
    <3>1. r.own[x] = b /\ w[x] = {b} \cup w[g] \cup w[b2]
      BY <1>5, <1>6, <1>9, <2>1
    <3>2. ASSUME NEW s \in Sides
          PROVE  w[x] = {b} \cup w[Child(b, s)] \cup w[Child(b, sibling(s))] /\ \A y \in w[Child(b, s)] : Before(s, y, b)
      <4>1. CASE s = side
        <5>1. Child(b, s) = b2 /\ Child(b, sibling(s)) = g
          BY <1>8, <4>1 DEF s2
        <5> QED  BY <1>5, <3>1, <4>1, <5>1
      <4>2. CASE s = s2
        <5>1. Child(b, s) = g /\ Child(b, sibling(s)) = b2
          BY <1>1, <1>8, <4>2
        <5> QED  BY <1>5, <3>1, <4>2, <5>1
      <4> QED  BY <1>1, <4>1, <4>2
    <3> QED  BY <1>7, <3>1, <3>2 DEF Parts
  <2>2. CASE x = g
    <3>1. r.own[x] = a /\ w[x] = {a} \cup w[c] \cup w[a2]
      BY <1>5, <1>6, <1>9, <2>2
    <3>2. ASSUME NEW s \in Sides
          PROVE  w[x] = {a} \cup w[Child(a, s)] \cup w[Child(a, sibling(s))] /\ \A y \in w[Child(a, s)] : Before(s, y, a)
      <4>1. CASE s = side
        <5>1. Child(a, s) = c /\ Child(a, sibling(s)) = a2
          BY <1>8, <4>1 DEF s2
        <5> QED  BY <1>5, <3>1, <4>1, <5>1
      <4>2. CASE s = s2
        <5>1. Child(a, s) = a2 /\ Child(a, sibling(s)) = c
          BY <1>1, <1>8, <4>2
        <5> QED  BY <1>5, <3>1, <4>2, <5>1
      <4> QED  BY <1>1, <4>1, <4>2
    <3> QED  BY <1>7, <3>1, <3>2 DEF Parts
  <2>3. CASE x \notin {h, g}
    <3> DEFINE y == IF x = c THEN g ELSE x
    <3>1. y \in Handles /\ r.own[x] = m.own[y] /\ w[x] = u[y] /\ y # h /\ y # c
      BY <1>5, <1>6, <1>8, <1>9, <2>3
    <3> HIDE DEF y
    <3>2. CASE m.own[y] = Nothing
      <4>1. u[y] = {}
        BY <3>1, <3>2, TreeIs
      <4> QED  BY <3>1, <3>2, <4>1 DEF Parts
    <3>3. CASE m.own[y] # Nothing
      <4>1. m.own[y] \in SplayValues /\ m.own[y] # a /\ m.own[y] # b
        BY <1>7, <1>9, <1>12, <1>13, <3>1, <3>3 DEF Nodes
      <4>2. \A s \in Sides : w[Child(m.own[y], s)] = u[Child(m.own[y], s)]
        BY <1>5, <1>16, <4>1
      <4>3. \A s \in Sides : /\ u[y] = {m.own[y]} \cup u[Child(m.own[y], s)] \cup u[Child(m.own[y], sibling(s))]
                             /\ \A z \in u[Child(m.own[y], s)] : Before(s, z, m.own[y])
        <5>1. Parts(m, u, y)
          BY <3>1 DEF Tree
        <5> QED  BY <3>3, <5>1 DEF Parts
      <4>4. \A s \in Sides : sibling(s) \in Sides
        BY SidesDiffer
      <4> QED  BY <3>1, <3>3, <4>2, <4>3, <4>4 DEF Parts
    <3> QED  BY <3>2, <3>3
  <2> QED  BY <2>1, <2>2, <2>3
<1>18. w[RootHandle] = u[RootHandle]
  BY <1>5, <1>10
<1>19. Rooted(r, w)
  <2>1. /\ \A x \in Handles : m.own[x] # Nothing => m.own[x] \in u[RootHandle]
        /\ \A v \in u[RootHandle] : \E x \in Handles : m.own[x] = v
        /\ \A v \in SplayValues, s \in Sides : m.own[Child(v, s)] # Nothing => v \in u[RootHandle]
    BY DEF Tree, Rooted
  <2>2. ASSUME NEW x \in Handles, r.own[x] # Nothing PROVE r.own[x] \in u[RootHandle]
    BY <1>6, <1>7, <1>8, <1>9, <2>1, <2>2
  <2>3. ASSUME NEW v \in u[RootHandle] PROVE \E x \in Handles : r.own[x] = v
    <3>1. PICK x \in Handles : m.own[x] = v
      BY <2>1
    <3>2. CASE x = h
      BY <1>6, <1>7, <1>9, <3>1, <3>2
    <3>3. CASE x = c
      BY <1>6, <1>7, <1>9, <3>1, <3>3
    <3>4. CASE x = g
      BY <1>6, <1>8, <1>9, <3>1, <3>4
    <3>5. CASE x \notin {h, c, g}
      BY <1>6, <3>1, <3>5
    <3> QED  BY <3>2, <3>3, <3>4, <3>5
  <2>4. ASSUME NEW v \in SplayValues, NEW s \in Sides, r.own[Child(v, s)] # Nothing PROVE v \in u[RootHandle]
    <3>1. Child(v, s) \in Handles
      BY HandlesDiffer
    <3>2. a \in u[RootHandle] /\ b \in u[RootHandle]
      BY <1>7, <1>9, <2>1
    <3>3. CASE v # a /\ v # b
      <4>1. Child(v, s) \notin {c, g}
        BY <1>16, <3>3
      <4>2. m.own[Child(v, s)] # Nothing
        BY <1>6, <1>7, <2>4, <3>1, <4>1
      <4> QED  BY <2>1, <4>2
    <3> QED  BY <3>2, <3>3
  <2> QED  BY <1>18, <2>2, <2>3, <2>4 DEF Rooted
\* Nodes of other handles are none of those that take part.
<1>20. ASSUME NEW x \in Handles, m.own[x] # Nothing, x \notin {h, c, g, a2, b2},
              \A s \in Sides : G # Nothing => x # Child(G, s)
       PROVE  m.own[x] \in SplayValues /\ r.parent[m.own[x]] = m.parent[m.own[x]] /\ r.own[x] = m.own[x]
  <2>1. m.own[x] \in SplayValues
    BY <1>13, <1>20 DEF Nodes
  <2>2. m.own[x] \notin {a, b, G, A2, B2}
    BY <1>7, <1>8, <1>9, <1>12, <1>20
  <2>3. ~(G # Nothing /\ \E s \in Sides : m.own[x] = m.own[Child(G, s)])
    BY <1>9, <1>12, <1>20
  <2> QED  BY <1>6, <1>20, <2>1, <2>2, <2>3
<1>21. /\ m.own[RootHandle] # Nothing => m.parent[m.own[RootHandle]] = Null
       /\ \A x \in Handles, s \in Sides :
            m.own[x] # Nothing /\ m.own[Child(m.own[x], s)] # Nothing => m.parent[m.own[Child(m.own[x], s)]] = x
  BY DEF Tree, PointsUp
<1>22. ASSUME r.own[RootHandle] # Nothing PROVE r.parent[r.own[RootHandle]] = Null
  <2>1. CASE h = RootHandle
    BY <1>6, <1>7, <1>9, <1>21, <2>1
  <2>2. CASE h # RootHandle
    <3>1. r.own[RootHandle] = m.own[RootHandle]
      BY <1>6, <1>10, <2>2
    <3>2. r.parent[m.own[RootHandle]] = m.parent[m.own[RootHandle]]
      BY <1>10, <1>20, <1>22, <2>2, <3>1
    <3> QED  BY <1>21, <1>22, <3>1, <3>2
  <2> QED  BY <2>1, <2>2
<1>23. ASSUME NEW x \in Handles, NEW s \in Sides, NEW n, n = r.own[x], n # Nothing,
              NEW k, k = Child(n, s), r.own[k] # Nothing
       PROVE  r.parent[r.own[k]] = x
  <2>1. CASE x = h
    <3>1. n = b /\ (k = b2 \/ k = g)
      BY <1>1, <1>6, <1>8, <1>9, <1>23, <2>1
    <3>2. CASE k = b2
      <4>1. r.own[k] = B2 /\ B2 # Nothing /\ B2 \in SplayValues \ {a, b}
        BY <1>4, <1>6, <1>8, <1>9, <1>23, <3>2 DEF Nodes
      <4> QED  BY <1>6, <2>1, <4>1
    <3>3. CASE k = g
      BY <1>6, <1>7, <1>9, <2>1, <3>3
    <3> QED  BY <3>1, <3>2, <3>3
  <2>2. CASE x = g
    <3>1. n = a /\ (k = c \/ k = a2)
      BY <1>1, <1>6, <1>8, <1>9, <1>23, <2>2
    <3>2. CASE k = c
      <4>1. r.own[k] = G /\ G # Nothing /\ G \in SplayValues \ {a, b} /\ G # B2
        BY <1>4, <1>6, <1>9, <1>23, <3>2 DEF Nodes
      <4> QED  BY <1>6, <2>2, <4>1
    <3>3. CASE k = a2
      <4>1. r.own[k] = A2 /\ A2 # Nothing /\ A2 \in SplayValues \ {a, b} /\ A2 # B2
        BY <1>4, <1>6, <1>8, <1>9, <1>23, <3>3 DEF Nodes
      <4> QED  BY <1>6, <2>2, <4>1
    <3> QED  BY <3>1, <3>2, <3>3
  <2>3. CASE x = c
    <3>1. n = G /\ G # Nothing /\ G \in SplayValues /\ k = Child(G, s)
      BY <1>4, <1>6, <1>9, <1>23, <2>3 DEF Nodes
    <3>2. k \in Handles /\ k \notin {h, c, g, a2, b2}
      BY <1>9, <3>1
    <3>3. r.own[k] = m.own[k] /\ m.own[k] \in SplayValues
      BY <1>6, <1>13, <1>23, <3>2 DEF Nodes
    <3>4. m.own[k] \notin {a, b, G, A2, B2}
      BY <1>7, <1>8, <1>9, <1>12, <1>23, <3>2, <3>3
    <3>5. G # Nothing /\ \E t \in Sides : m.own[k] = m.own[Child(G, t)]
      BY <3>1
    <3> QED  BY <1>6, <2>3, <3>3, <3>4, <3>5
  <2>4. CASE x \notin {h, c, g}
    <3>1. n = m.own[x] /\ n \in SplayValues /\ n # a /\ n # b
      BY <1>6, <1>7, <1>9, <1>12, <1>13, <1>23, <2>4 DEF Nodes
    <3>2. G # Nothing => n # G
      BY <1>8, <1>9, <1>12, <2>4, <3>1
    <3>3. k \in Handles /\ k \notin {c, g, a2, b2}
      BY <1>16, <1>23, <3>1
    <3>4. CASE k = h
      <4>1. m.parent[m.own[k]] = x
        BY <1>7, <1>21, <1>23, <3>1, <3>4
      <4> QED  BY <1>6, <1>7, <1>9, <3>4, <4>1
    <3>5. CASE k # h
      <4>1. \A t \in Sides : G # Nothing => k # Child(G, t)
        <5>1. G # Nothing => G \in SplayValues
          BY <1>4 DEF Nodes
        <5> QED  BY <1>23, <3>1, <3>2, <5>1, HandlesDiffer
      <4>2. r.own[k] = m.own[k]
        BY <1>6, <3>3, <3>5
      <4>3. r.parent[m.own[k]] = m.parent[m.own[k]]
        BY <1>20, <1>23, <3>3, <3>5, <4>1, <4>2
      <4>4. m.parent[m.own[k]] = x
        BY <1>21, <1>23, <3>1, <4>2
      <4> QED  BY <4>2, <4>3, <4>4
    <3> QED  BY <3>4, <3>5
  <2> QED  BY <2>1, <2>2, <2>3, <2>4
<1>24. PointsUp(r)
  BY <1>22, <1>23 DEF PointsUp
<1>25. Tree(r, w)
  BY <1>5, <1>6, <1>15, <1>17, <1>19, <1>24 DEF Tree
\* The sizes.
<1>26. /\ \A x \in Handles : m.own[x] # Nothing /\ m.own[x] \notin W => m.size[m.own[x]] = Cardinality(u[x])
       /\ \A v \in SplayValues : v \notin u[RootHandle] => m.size[v] = 0
  BY DEF Sized
<1>27. Size(m, G) = Cardinality(u[g]) /\ Size(m, A2) = Cardinality(u[a2]) /\ Size(m, B2) = Cardinality(u[b2])
  <2>1. ASSUME NEW x \in Handles, m.own[x] \notin W PROVE Size(m, m.own[x]) = Cardinality(u[x])
    <3>1. CASE m.own[x] = Nothing
      <4>1. u[x] = {}
        BY <3>1, TreeIs
      <4> QED  BY <3>1, <4>1, FS_EmptySet DEF Size
    <3>2. CASE m.own[x] # Nothing
      BY <1>26, <2>1, <3>2 DEF Size
    <3> QED  BY <3>1, <3>2
  <2>2. G \notin W /\ A2 \notin W /\ B2 \notin W
    BY DEF G, A2, B2, g, a2, b2, s2
  <2> QED  BY <1>8, <1>9, <2>1, <2>2
<1>28. r.size[a] = Cardinality(w[g])
  <2>1. r.own[g] = a
    BY <1>6, <1>9
  <2>2. Cardinality(w[g]) = 1 + Cardinality(w[Child(a, side)]) + Cardinality(w[Child(a, sibling(side))])
    BY <1>1, <1>7, <1>9, <1>25, <2>1, CountIs
  <2>3. w[Child(a, side)] = u[g] /\ w[Child(a, sibling(side))] = u[a2]
    <3>1. Child(a, sibling(side)) = a2
      BY <1>8 DEF s2
    <3> QED  BY <1>5, <1>8, <1>9, <3>1
  <2> QED  BY <1>6, <1>27, <2>2, <2>3
<1>29. r.size[b] = Cardinality(w[h])
  <2>1. r.own[h] = b
    BY <1>6, <1>9
  <2>2. Cardinality(w[h]) = 1 + Cardinality(w[Child(b, s2)]) + Cardinality(w[Child(b, sibling(s2))])
    BY <1>1, <1>7, <1>9, <1>25, <2>1, CountIs
  <2>3. w[Child(b, s2)] = w[g] /\ w[Child(b, sibling(s2))] = u[b2]
    BY <1>1, <1>5, <1>8, <1>9
  <2> QED  BY <1>6, <1>27, <1>28, <2>2, <2>3
<1>30. Sized(r, w, W \ {a, b})
  <2>1. ASSUME NEW x \in Handles, r.own[x] # Nothing, r.own[x] \notin W \ {a, b}
        PROVE  r.size[r.own[x]] = Cardinality(w[x])
    <3>1. CASE x = h
      BY <1>6, <1>9, <1>29, <3>1
    <3>2. CASE x = g
      BY <1>6, <1>9, <1>28, <3>2
    <3>3. CASE x \notin {h, g}
      <4> DEFINE y == IF x = c THEN g ELSE x
      <4>1. y \in Handles /\ r.own[x] = m.own[y] /\ w[x] = u[y] /\ y # h /\ y # c
        BY <1>5, <1>6, <1>8, <1>9, <3>3
      <4> HIDE DEF y
      <4>2. m.own[y] \in SplayValues /\ m.own[y] # a /\ m.own[y] # b
        BY <1>7, <1>9, <1>12, <1>13, <2>1, <4>1 DEF Nodes
      <4>3. m.size[m.own[y]] = Cardinality(u[y])
        BY <1>26, <2>1, <4>1, <4>2
      <4> QED  BY <1>6, <4>1, <4>2, <4>3
    <3> QED  BY <3>1, <3>2, <3>3
  <2>2. ASSUME NEW v \in SplayValues, v \notin w[RootHandle] PROVE r.size[v] = 0
    <3>1. a \in u[RootHandle] /\ b \in u[RootHandle]
      BY <1>7, <1>9 DEF Tree, Rooted
    <3> QED  BY <1>6, <1>18, <1>26, <2>2, <3>1
  <2> QED  BY <2>1, <2>2 DEF Sized
<1> QED
  BY <1>3, <1>25, <1>30 DEF r, w

-----------------------------------------------------------------------------
(* The climb                                                               *)

\* Where the node above is owned.
LEMMA UpIs ==
  ASSUME NEW m, NEW u, Tree(m, u), NEW h \in Handles, m.own[h] # Nothing,
         NEW up, up = m.parent[m.own[h]], NEW s, s = child_side(h)
  PROVE  /\ h = RootHandle => up = Null
         /\ h # RootHandle => /\ up \in Handles /\ m.own[up] \in SplayValues /\ m.own[up] # Nothing
                              /\ s \in Sides /\ h = Child(m.own[up], s)
<1>1. h = RootHandle => up = Null
  BY DEF Tree, PointsUp
<1>2. ASSUME h # RootHandle
      PROVE  /\ up \in Handles /\ m.own[up] \in SplayValues /\ m.own[up] # Nothing
             /\ s \in Sides /\ h = Child(m.own[up], s)
  <2>1. h \notin {CHandle, GCHandle}
    BY DEF Tree
  <2>2. PICK v \in SplayValues, t \in Sides : h = Child(v, t)
    BY <1>2, <2>1, HandlesDiffer
  <2>3. s = t
    BY <2>2, HandlesDiffer
  <2>4. v \in u[RootHandle]
    BY <2>2 DEF Tree, Rooted
  <2>5. PICK k \in Handles : m.own[k] = v
    BY <2>4 DEF Tree, Rooted
  <2>6. v # Nothing
    BY NothingIs
  <2>7. up = k
    BY <2>2, <2>5, <2>6 DEF Tree, PointsUp
  <2> QED  BY <2>2, <2>3, <2>5, <2>6, <2>7
<1> QED
  BY <1>1, <1>2

\* What is not below the child that goes up keeps what is below it.
LEMMA TurnedKeeps ==
  ASSUME NEW m, NEW u, Tree(m, u), NEW h \in Handles, NEW side \in Sides,
         NEW a, a = m.own[h], a # Nothing, NEW b, b = m.own[Child(a, side)], b # Nothing,
         NEW r, Rotated(r, m, h, side, a, b), NEW z \in Handles,
         NEW y, y \in u[z], y \notin u[Child(a, side)]
  PROVE  /\ TurnedBelow(u, a, b, side)[z] = u[z]
         /\ z # h => r.own[z] = m.own[z]
<1> DEFINE c == Child(a, side)
           g == Child(b, sibling(side))
<1>1. c \in Handles
  BY TreeIs
<1>2. u[g] \subseteq u[c]
  <2> HIDE DEF c
  <2>1. b = m.own[c]
    BY DEF c
  <2> QED  BY <1>1, <2>1, TreeIs, SidesDiffer
<1>3. z # c /\ z # g
  BY <1>1, <1>2
<1>4. HasTurned(TurnedBelow(u, a, b, side), u, h, side, a, b)
  BY TurnedIs
<1>5. TurnedBelow(u, a, b, side)[z] = u[z]
  BY <1>3, <1>4 DEF HasTurned
<1>6. z # h => r.own[z] = m.own[z]
  BY <1>3 DEF Rotated
<1> QED
  BY <1>5, <1>6

\* Below the nodes whose size is stale is the current one.
Stale(m, u, h, W) == \A k \in Handles : m.own[k] \in W => m.own[k] # Nothing /\ m.own[h] \in u[k] /\ k # h

\* No element is on both sides of a node.
LEMMA SidesAreApart ==
  ASSUME NEW m, NEW u, Tree(m, u), NEW h \in Handles, m.own[h] # Nothing, NEW s \in Sides,
         NEW x, x \in u[Child(m.own[h], s)]
  PROVE  x \notin u[Child(m.own[h], sibling(s))] /\ x # m.own[h]
<1> DEFINE n == m.own[h]
<1>1. n \in SplayValues /\ sibling(s) \in Sides /\ u[Child(n, s)] \subseteq SplayValues
  BY TreeIs, SidesDiffer
<1>2. Parts(m, u, h)
  BY DEF Tree
<1>3. \A t \in Sides : \A y \in u[Child(n, t)] : Before(t, y, n)
  BY <1>2 DEF Parts
<1> HIDE DEF n
<1>4. x \in SplayValues /\ Before(s, x, n)
  BY <1>1, <1>3 DEF n
<1>5. ASSUME x \in u[Child(n, sibling(s))] PROVE FALSE
  <2>1. Before(sibling(s), x, n)
    BY <1>1, <1>3, <1>5
  <2> QED  BY <1>1, <1>4, <2>1, BeforeIs
<1>6. x # n
  BY <1>1, <1>4, BeforeIs
<1> QED
  BY <1>5, <1>6 DEF n

\* What a round of the climb does: the current node is where the handle k was.
Risen(r, w, k, m, u, h, W) ==
    /\ k \in Handles /\ m.own[k] # Nothing /\ k # h /\ r.own[k] = m.own[h]
    /\ Tree(r, w) /\ Sized(r, w, W \ {m.own[k], m.own[m.parent[m.own[h]]]})
    /\ \A z \in Handles : m.own[k] \in u[z] => w[z] = u[z] /\ (z # k => r.own[z] = m.own[z])

\* One rotation at the handle above.
LEMMA ZigRises ==
  ASSUME NEW m, NEW u, Tree(m, u), NEW h \in Handles, m.own[h] # Nothing, h # RootHandle,
         NEW W, Sized(m, u, W), Stale(m, u, h, W),
         NEW up, up = m.parent[m.own[h]], NEW s, s = child_side(h)
  PROVE  /\ Rotated(rotate_handle(m, up, s), m, up, s, m.own[up], m.own[h])
         /\ Risen(rotate_handle(m, up, s), TurnedBelow(u, m.own[up], m.own[h], s), up, m, u, h, W)
         /\ Sized(rotate_handle(m, up, s), TurnedBelow(u, m.own[up], m.own[h], s), W \ {m.own[up], m.own[h]})
<1> DEFINE p == m.own[up]
           x == m.own[h]
           r == rotate_handle(m, up, s)
           w == TurnedBelow(u, p, x, s)
<1>1. up \in Handles /\ p \in SplayValues /\ p # Nothing /\ s \in Sides /\ h = Child(p, s)
  BY UpIs
<1>2. x = m.own[Child(p, s)] /\ sibling(s) \in Sides
  BY <1>1, SidesDiffer
<1>3. x \in u[h] /\ \A t \in Sides : x \notin u[Child(x, t)] /\ Child(x, t) \in Handles
  BY TreeIs
<1>4. x \notin u[Child(p, sibling(s))] /\ Child(p, sibling(s)) \in Handles /\ x # p
  <2>1. x \in u[Child(m.own[up], s)]
    BY <1>1, <1>3
  <2> QED  BY <1>1, <1>2, <2>1, SidesAreApart, HandlesDiffer
<1>5. \A k \in Handles : m.own[k] \in W => x \in u[k] /\ k # h
  BY DEF Stale
<1>6. m.own[Child(x, s)] \notin W /\ m.own[Child(x, sibling(s))] \notin W
      /\ m.own[Child(p, sibling(s))] \notin W /\ x \notin W
  BY <1>1, <1>2, <1>3, <1>4, <1>5
<1>7. Rotated(r, m, up, s, p, x) /\ Tree(r, w) /\ Sized(r, w, W \ {p, x})
  <2> HIDE DEF p, x
  <2>1. p = m.own[up] /\ x = m.own[Child(p, s)] /\ x # Nothing
    BY <1>2 DEF p, x
  <2> QED  BY <1>1, <1>6, <2>1, RotateKeeps DEF r, w
<1>8. W \ {p, x} = W \ {p}
  BY <1>6
<1>9. \A z \in Handles : p \in u[z] => w[z] = u[z] /\ (z # up => r.own[z] = m.own[z])
  <2> HIDE DEF p, x, r, w
  <2>1. p = m.own[up] /\ x = m.own[Child(p, s)] /\ x # Nothing /\ w = TurnedBelow(u, p, x, s)
    BY <1>2 DEF p, x, w
  <2>2. ASSUME NEW z \in Handles, p \in u[z] PROVE TurnedBelow(u, p, x, s)[z] = u[z] /\ (z # up => r.own[z] = m.own[z])
    <3>1. Tree(m, u) /\ up \in Handles /\ s \in Sides /\ p # Nothing /\ Rotated(r, m, up, s, p, x)
      BY <1>1, <1>7
    <3>2. p \notin u[Child(p, s)]
      BY ONLY <2>1, <3>1, NodeIs
    <3> QED  BY ONLY <2>1, <2>2, <3>1, <3>2, TurnedKeeps
  <2> QED  BY <2>1, <2>2
<1>10. r.own[up] = x
  BY <1>1, <1>7 DEF Rotated
<1>11. up # h
  BY <1>4
<1> HIDE DEF r, w
<1>12. Risen(r, w, up, m, u, h, W)
  <2>1. m.own[m.parent[m.own[h]]] = p /\ m.own[up] = p
    OBVIOUS
  <2>2. W \ {m.own[up], m.own[m.parent[m.own[h]]]} = W \ {p}
    BY <2>1
  <2> QED  BY <1>1, <1>7, <1>8, <1>9, <1>10, <1>11, <2>2 DEF Risen
<1> QED
  BY <1>7, <1>12 DEF r, w

\* The two handles above.
Chain(m, u, h, up, top, x, p, n, s, t) ==
    /\ {h, up, top} \subseteq Handles /\ s \in Sides /\ t \in Sides
    /\ x = m.own[h] /\ p = m.own[up] /\ n = m.own[top] /\ {x, p, n} \subseteq SplayValues
    /\ h = Child(p, s) /\ up = Child(n, t) /\ x # p /\ x # n /\ p # n
    /\ x \in u[h] /\ p \in u[up] /\ n \in u[top] /\ x \in u[top] /\ p \in u[top]
    /\ p \notin u[h] /\ n \notin u[h] /\ n \notin u[up]
    /\ \A d \in Sides : /\ {Child(x, d), Child(p, d), Child(n, d)} \subseteq Handles
                        /\ top \notin {Child(x, d), Child(p, d), Child(n, d)}
                        /\ x \notin u[Child(x, d)]
    /\ x \notin u[Child(p, sibling(s))] /\ x \notin u[Child(n, sibling(t))]

\* Two levels up, as splay finds them by the parent pointers.
LEMMA ChainIs ==
  ASSUME NEW m, NEW u, Tree(m, u), NEW h \in Handles, m.own[h] # Nothing, h # RootHandle,
         NEW up, up = m.parent[m.own[h]], up # RootHandle,
         NEW top, top = m.parent[m.own[up]], NEW s, s = child_side(h), NEW t, t = child_side(up)
  PROVE  Chain(m, u, h, up, top, m.own[h], m.own[up], m.own[top], s, t)
<1> DEFINE x == m.own[h]
           p == m.own[up]
           n == m.own[top]
<1>1. up \in Handles /\ p \in SplayValues /\ p # Nothing /\ s \in Sides /\ h = Child(p, s)
  BY UpIs
<1>2. top \in Handles /\ n \in SplayValues /\ n # Nothing /\ t \in Sides /\ up = Child(n, t)
  <2>1. up \in Handles /\ m.own[up] # Nothing
    BY <1>1
  <2> QED  BY <2>1, UpIs
<1>3. sibling(s) \in Sides /\ sibling(t) \in Sides
  BY <1>1, <1>2, SidesDiffer
<1>4. x \in u[h] /\ x \in SplayValues /\ \A d \in Sides : Child(x, d) \in Handles /\ x \notin u[Child(x, d)] /\ u[Child(x, d)] \subseteq u[h]
  <2>1. x = m.own[h] /\ h \in Handles /\ x # Nothing
    BY NothingIs
  <2> HIDE DEF x, p, n
  <2>2. \A d \in Sides : /\ x \in SplayValues /\ x \in u[h] /\ Child(x, d) \in Handles
                        /\ x \notin u[Child(x, d)] /\ u[Child(x, d)] \subseteq u[h]
    <3>1. Tree(m, u)
      OBVIOUS
    <3> QED  BY ONLY <2>1, <3>1, NodeIs
  <2> QED  BY <2>2, SidesDiffer
<1>5. p \in u[up] /\ \A d \in Sides : Child(p, d) \in Handles /\ p \notin u[Child(p, d)] /\ u[Child(p, d)] \subseteq u[up]
  <2>1. p = m.own[up] /\ up \in Handles /\ p # Nothing
    BY <1>1
  <2> HIDE DEF x, p, n
  <2>2. \A d \in Sides : /\ p \in SplayValues /\ p \in u[up] /\ Child(p, d) \in Handles
                        /\ p \notin u[Child(p, d)] /\ u[Child(p, d)] \subseteq u[up]
    <3>1. Tree(m, u)
      OBVIOUS
    <3> QED  BY ONLY <2>1, <3>1, NodeIs
  <2> QED  BY <2>2, SidesDiffer
<1>6. n \in u[top] /\ \A d \in Sides : Child(n, d) \in Handles /\ n \notin u[Child(n, d)] /\ u[Child(n, d)] \subseteq u[top]
  <2>1. n = m.own[top] /\ top \in Handles /\ n # Nothing
    BY <1>2
  <2> HIDE DEF x, p, n
  <2>2. \A d \in Sides : /\ n \in SplayValues /\ n \in u[top] /\ Child(n, d) \in Handles
                        /\ n \notin u[Child(n, d)] /\ u[Child(n, d)] \subseteq u[top]
    <3>1. Tree(m, u)
      OBVIOUS
    <3> QED  BY ONLY <2>1, <3>1, NodeIs
  <2> QED  BY <2>2, SidesDiffer
<1>7. x \notin u[Child(p, sibling(s))] /\ x # p
  <2>1. x \in u[Child(m.own[up], s)]
    BY <1>1, <1>4
  <2> QED  BY <1>1, <2>1, SidesAreApart
<1>8. u[h] \subseteq u[up] /\ u[up] \subseteq u[top]
  BY <1>1, <1>2, <1>5, <1>6
<1>9. x \notin u[Child(n, sibling(t))]
  <2>1. x \in u[Child(m.own[top], t)]
    BY <1>2, <1>4, <1>8
  <2> QED  BY <1>2, <2>1, SidesAreApart
<1>10. n \notin u[up] /\ p \notin u[h]
  BY <1>1, <1>2, <1>5, <1>6
<1>11. ASSUME NEW d \in Sides PROVE top \notin {Child(x, d), Child(p, d), Child(n, d)}
  BY <1>4, <1>5, <1>6, <1>8, <1>10
<1> HIDE DEF x, p, n
<1>12. x # n /\ p # n /\ n \notin u[h]
  BY <1>4, <1>5, <1>8, <1>10
<1>13. x \in u[top] /\ p \in u[top]
  BY <1>4, <1>5, <1>8
<1>14. x = m.own[h] /\ p = m.own[up] /\ n = m.own[top]
  BY DEF x, p, n
<1>15. \A d \in Sides : /\ {Child(x, d), Child(p, d), Child(n, d)} \subseteq Handles
                        /\ top \notin {Child(x, d), Child(p, d), Child(n, d)}
                        /\ x \notin u[Child(x, d)]
  BY <1>4, <1>5, <1>6, <1>11
<1>16. x \in u[h] /\ p \in u[up] /\ n \in u[top]
  BY <1>4, <1>5, <1>6
<1>17. {h, up, top} \subseteq Handles /\ {x, p, n} \subseteq SplayValues
  BY <1>1, <1>2, <1>4
<1>18. Chain(m, u, h, up, top, x, p, n, s, t)
  BY <1>1, <1>2, <1>7, <1>9, <1>10, <1>12, <1>13, <1>14, <1>15, <1>16, <1>17 DEF Chain
<1> QED
  BY <1>14, <1>18

\* In r the node x is where n was, above p, and sizes that are wrong are above it.
Lifted(r, m, u, top, x, p, n, W) ==
    \E w : /\ Tree(r, w) /\ Sized(r, w, W \ {n, p}) /\ r.own[top] = x
           /\ \A z \in Handles : n \in u[z] => w[z] = u[z] /\ (z # top => r.own[z] = m.own[z])

\* Two rotations at the upper handle, when both steps go to the same side.
LEMMA ZigZigRises ==
  ASSUME NEW m, NEW u, Tree(m, u), NEW h, NEW up, NEW top, NEW x, NEW p, NEW n, NEW s,
         Chain(m, u, h, up, top, x, p, n, s, s),
         NEW W, Sized(m, u, W), Stale(m, u, h, W)
  PROVE  Lifted(rotate_handle(rotate_handle(m, top, s), top, s), m, u, top, x, p, n, W)
<1> DEFINE m1 == rotate_handle(m, top, s)
           u1 == TurnedBelow(u, n, p, s)
           W1 == W \ {n, p}
           r  == rotate_handle(m1, top, s)
           w  == TurnedBelow(u1, p, x, s)
           s2 == sibling(s)
<1>1. /\ {h, up, top} \subseteq Handles /\ s \in Sides /\ s2 \in Sides /\ s2 # s
      /\ x = m.own[h] /\ p = m.own[up] /\ n = m.own[top] /\ {x, p, n} \subseteq SplayValues
      /\ h = Child(p, s) /\ up = Child(n, s) /\ x # p /\ x # n /\ p # n
      /\ n \in u[top] /\ n \notin u[h] /\ n \notin u[up]
      /\ x # Nothing /\ p # Nothing /\ n # Nothing
  BY SidesDiffer, NothingIs DEF Chain
<1>2. /\ \A d \in Sides : /\ {Child(x, d), Child(p, d), Child(n, d)} \subseteq Handles
                          /\ top \notin {Child(x, d), Child(p, d), Child(n, d)}
                          /\ x \notin u[Child(x, d)]
      /\ x \notin u[Child(p, s2)] /\ x \notin u[Child(n, s2)]
  BY DEF Chain
<1>3. \A k \in Handles : m.own[k] \in W => x \in u[k] /\ k # h
  BY <1>1 DEF Stale
<1>4. /\ m.own[Child(p, s)] \notin W /\ m.own[Child(p, s2)] \notin W /\ m.own[Child(n, s2)] \notin W
      /\ m.own[Child(x, s)] \notin W /\ m.own[Child(x, s2)] \notin W /\ x \notin W
  BY <1>1, <1>2, <1>3
<1>5. Rotated(m1, m, top, s, n, p) /\ Tree(m1, u1) /\ Sized(m1, u1, W1)
  <2>1. /\ Tree(m, u) /\ top \in Handles /\ s \in Sides /\ n = m.own[top] /\ n # Nothing
        /\ p = m.own[Child(n, s)] /\ p # Nothing /\ Sized(m, u, W)
        /\ m.own[Child(p, s)] \notin W /\ m.own[Child(p, sibling(s))] \notin W
        /\ m.own[Child(n, sibling(s))] \notin W
    BY <1>1, <1>4
  <2> QED  BY ONLY <2>1, RotateKeeps DEF m1, u1, W1
<1>6. \A k \in Handles : m1.own[k] = IF k = top THEN p ELSE IF k = up THEN m.own[Child(p, s2)]
                                     ELSE IF k = Child(p, s2) THEN n ELSE m.own[k]
  BY <1>1, <1>5 DEF Rotated
<1> HIDE DEF m1, u1, s2
<1>7. \A d \in Sides : Child(x, d) # up /\ Child(x, d) # Child(p, s2) /\ Child(x, d) # top
  BY <1>1, <1>2, HandlesDiffer
<1>8. h # up /\ h # Child(p, s2) /\ h # top /\ Child(p, s2) # up /\ Child(p, s2) # top
  <2>1. Child(p, s) # Child(n, s) /\ Child(p, s) # Child(p, s2) /\ Child(p, s2) # Child(n, s)
    BY <1>1, HandlesDiffer
  <2> QED  BY <1>1, <1>2, <2>1
<1>9. /\ m1.own[top] = p /\ m1.own[Child(p, s)] = x /\ m1.own[Child(p, s2)] = n
      /\ m1.own[Child(x, s)] = m.own[Child(x, s)] /\ m1.own[Child(x, s2)] = m.own[Child(x, s2)]
  BY <1>1, <1>2, <1>6, <1>7, <1>8
<1>10. Rotated(r, m1, top, s, p, x) /\ Tree(r, w) /\ Sized(r, w, W1 \ {p, x})
  <2>1. /\ Tree(m1, u1) /\ top \in Handles /\ s \in Sides /\ p = m1.own[top] /\ p # Nothing
        /\ x = m1.own[Child(p, s)] /\ x # Nothing /\ Sized(m1, u1, W1)
        /\ m1.own[Child(x, s)] \notin W1 /\ m1.own[Child(x, sibling(s))] \notin W1
        /\ m1.own[Child(p, sibling(s))] \notin W1
    BY <1>1, <1>4, <1>5, <1>9 DEF s2
  <2> HIDE DEF W1
  <2> QED  BY ONLY <2>1, RotateKeeps DEF r, w
<1>11. r.own[top] = x
  BY <1>1, <1>10 DEF Rotated
<1>12. W1 \ {p, x} = W \ {n, p}
  BY <1>4
<1>13. ASSUME NEW z \in Handles, n \in u[z]
       PROVE  u1[z] = u[z] /\ (z # top => m1.own[z] = m.own[z])
  <2>1. /\ Tree(m, u) /\ top \in Handles /\ s \in Sides /\ n = m.own[top] /\ n # Nothing
        /\ p = m.own[Child(n, s)] /\ p # Nothing /\ Rotated(m1, m, top, s, n, p) /\ n \notin u[Child(n, s)]
    BY <1>1, <1>5
  <2> QED  BY ONLY <1>13, <2>1, TurnedKeeps DEF u1
<1>14. n \notin u1[h]
  <2>1. HasTurned(u1, u, top, s, n, p)
    BY <1>1, TurnedIs DEF u1
  <2>2. u1[h] = u[h]
    BY <1>1, <1>8, <2>1 DEF HasTurned, s2
  <2> QED  BY <1>1, <2>2
<1>15. ASSUME NEW z \in Handles, n \in u[z]
       PROVE  w[z] = u[z] /\ (z # top => r.own[z] = m.own[z])
  <2>1. u1[z] = u[z] /\ (z # top => m1.own[z] = m.own[z])
    BY <1>13, <1>15
  <2>2. /\ Tree(m1, u1) /\ top \in Handles /\ s \in Sides /\ p = m1.own[top] /\ p # Nothing
        /\ x = m1.own[Child(p, s)] /\ x # Nothing /\ Rotated(r, m1, top, s, p, x)
        /\ n \in u1[z] /\ n \notin u1[Child(p, s)]
    BY <1>1, <1>5, <1>9, <1>10, <1>14, <1>15, <2>1
  <2> HIDE DEF r
  <2>3. w[z] = u1[z] /\ (z # top => r.own[z] = m1.own[z])
    BY ONLY <1>15, <2>2, TurnedKeeps DEF w
  <2> QED  BY <2>1, <2>3
<1> HIDE DEF r, w
<1>16. Tree(r, w) /\ Sized(r, w, W \ {n, p})
  BY <1>10, <1>12
<1>17. \E q : /\ Tree(r, q) /\ Sized(r, q, W \ {n, p}) /\ r.own[top] = x
              /\ \A z \in Handles : n \in u[z] => q[z] = u[z] /\ (z # top => r.own[z] = m.own[z])
  BY <1>11, <1>15, <1>16
<1> QED
  BY <1>17 DEF r, m1, Lifted

\* A rotation at each handle above, when the steps go to different sides.
LEMMA ZigZagRises ==
  ASSUME NEW m, NEW u, Tree(m, u), NEW h, NEW up, NEW top, NEW x, NEW p, NEW n, NEW s,
         Chain(m, u, h, up, top, x, p, n, s, sibling(s)),
         NEW W, Sized(m, u, W), Stale(m, u, h, W),
         NEW t, t = rotate_handle(rotate_handle(m, up, s), top, sibling(s))
  PROVE  Lifted(t, m, u, top, x, p, n, W)
<1> DEFINE s2 == sibling(s)
           m1 == rotate_handle(m, up, s)
           u1 == TurnedBelow(u, p, x, s)
           W1 == W \ {p, x}
           r  == rotate_handle(m1, top, s2)
           w  == TurnedBelow(u1, n, x, s2)
<1>1. /\ {h, up, top} \subseteq Handles /\ s \in Sides /\ s2 \in Sides /\ s2 # s /\ sibling(s2) = s
      /\ x = m.own[h] /\ p = m.own[up] /\ n = m.own[top] /\ {x, p, n} \subseteq SplayValues
      /\ h = Child(p, s) /\ up = Child(n, s2) /\ x # p /\ x # n /\ p # n
      /\ n \in u[top] /\ p \in u[top] /\ p \notin u[h] /\ n \notin u[h] /\ n \notin u[up]
      /\ x # Nothing /\ p # Nothing /\ n # Nothing
  BY SidesDiffer, NothingIs DEF Chain
<1>2. /\ \A d \in Sides : /\ {Child(x, d), Child(p, d), Child(n, d)} \subseteq Handles
                          /\ top \notin {Child(x, d), Child(p, d), Child(n, d)}
                          /\ x \notin u[Child(x, d)]
      /\ x \notin u[Child(p, s2)] /\ x \notin u[Child(n, s)]
  BY <1>1 DEF Chain
<1>3. \A k \in Handles : m.own[k] \in W => x \in u[k] /\ k # h
  BY <1>1 DEF Stale
<1>4. /\ m.own[Child(p, s2)] \notin W /\ m.own[Child(n, s)] \notin W
      /\ m.own[Child(x, s)] \notin W /\ m.own[Child(x, s2)] \notin W /\ x \notin W
  BY <1>1, <1>2, <1>3
<1>5. Rotated(m1, m, up, s, p, x) /\ Tree(m1, u1) /\ Sized(m1, u1, W1)
  <2>1. /\ Tree(m, u) /\ up \in Handles /\ s \in Sides /\ p = m.own[up] /\ p # Nothing
        /\ x = m.own[Child(p, s)] /\ x # Nothing /\ Sized(m, u, W)
        /\ m.own[Child(x, s)] \notin W /\ m.own[Child(x, sibling(s))] \notin W
        /\ m.own[Child(p, sibling(s))] \notin W
    BY <1>1, <1>4
  <2> QED  BY ONLY <2>1, RotateKeeps DEF m1, u1, W1
<1>6. \A k \in Handles : m1.own[k] = IF k = up THEN x ELSE IF k = h THEN m.own[Child(x, s2)]
                                     ELSE IF k = Child(x, s2) THEN p ELSE m.own[k]
  BY <1>1, <1>5 DEF Rotated
<1> HIDE DEF m1, u1, s2
<1>7. /\ up \notin {h, Child(x, s2), Child(x, s), Child(n, s), top}
      /\ Child(x, s2) \notin {h, Child(x, s)} /\ Child(x, s) # h /\ Child(n, s) \notin {h, Child(x, s2)}
      /\ top \notin {h, Child(x, s2)}
  <2>1. /\ Child(n, s2) # Child(p, s) /\ Child(n, s2) # Child(x, s2) /\ Child(n, s2) # Child(x, s)
        /\ Child(n, s2) # Child(n, s) /\ Child(x, s2) # Child(p, s) /\ Child(x, s2) # Child(x, s)
        /\ Child(x, s) # Child(p, s) /\ Child(n, s) # Child(p, s) /\ Child(n, s) # Child(x, s2)
    BY <1>1, HandlesDiffer
  <2> QED  BY <1>1, <1>2, <2>1
<1>8. /\ m1.own[top] = n /\ m1.own[up] = x /\ m1.own[Child(x, s2)] = p
      /\ m1.own[Child(x, s)] = m.own[Child(x, s)] /\ m1.own[Child(n, s)] = m.own[Child(n, s)]
  BY <1>1, <1>2, <1>6, <1>7
<1>9. Rotated(r, m1, top, s2, n, x) /\ Tree(r, w) /\ Sized(r, w, W1 \ {n, x})
  <2>1. /\ Tree(m1, u1) /\ top \in Handles /\ s2 \in Sides /\ n = m1.own[top] /\ n # Nothing
        /\ x = m1.own[Child(n, s2)] /\ x # Nothing /\ Sized(m1, u1, W1)
        /\ m1.own[Child(x, s2)] \notin W1 /\ m1.own[Child(x, sibling(s2))] \notin W1
        /\ m1.own[Child(n, sibling(s2))] \notin W1
    BY <1>1, <1>4, <1>5, <1>8
  <2> HIDE DEF W1
  <2> QED  BY ONLY <2>1, RotateKeeps DEF r, w
<1>10. r.own[top] = x
  BY <1>1, <1>9 DEF Rotated
<1>11. W1 \ {n, x} = W \ {n, p}
  BY <1>4
<1>12. ASSUME NEW z \in Handles, n \in u[z]
       PROVE  u1[z] = u[z] /\ (z # up => m1.own[z] = m.own[z])
  <2>1. /\ Tree(m, u) /\ up \in Handles /\ s \in Sides /\ p = m.own[up] /\ p # Nothing
        /\ x = m.own[Child(p, s)] /\ x # Nothing /\ Rotated(m1, m, up, s, p, x) /\ n \notin u[Child(p, s)]
    BY <1>1, <1>5
  <2> QED  BY ONLY <1>12, <2>1, TurnedKeeps DEF u1
<1>13. n \notin u1[up]
  <2>1. p \in u[up] /\ p \notin u[h]
    BY DEF Chain
  <2>2. /\ Tree(m, u) /\ up \in Handles /\ s \in Sides /\ p = m.own[up] /\ p # Nothing
        /\ x = m.own[Child(p, s)] /\ x # Nothing /\ Rotated(m1, m, up, s, p, x) /\ p \notin u[Child(p, s)]
    BY <1>1, <1>5, <2>1
  <2>3. u1[up] = u[up]
    BY ONLY <2>1, <2>2, TurnedKeeps DEF u1
  <2> QED  BY <1>1, <2>3
<1>14. ASSUME NEW z \in Handles, n \in u[z]
       PROVE  w[z] = u[z] /\ (z # top => r.own[z] = m.own[z])
  <2>1. u1[z] = u[z] /\ (z # up => m1.own[z] = m.own[z]) /\ z # up
    BY <1>1, <1>12, <1>14
  <2>2. /\ Tree(m1, u1) /\ top \in Handles /\ s2 \in Sides /\ n = m1.own[top] /\ n # Nothing
        /\ x = m1.own[Child(n, s2)] /\ x # Nothing /\ Rotated(r, m1, top, s2, n, x)
        /\ n \in u1[z] /\ n \notin u1[Child(n, s2)]
    BY <1>1, <1>5, <1>8, <1>9, <1>13, <1>14, <2>1
  <2> HIDE DEF r
  <2>3. w[z] = u1[z] /\ (z # top => r.own[z] = m1.own[z])
    BY ONLY <1>14, <2>2, TurnedKeeps DEF w
  <2> QED  BY <2>1, <2>3
<1> HIDE DEF r, w
<1>15. Tree(r, w) /\ Sized(r, w, W \ {n, p})
  BY <1>9, <1>11
<1>16. \E q : /\ Tree(r, q) /\ Sized(r, q, W \ {n, p}) /\ r.own[top] = x
              /\ \A z \in Handles : n \in u[z] => q[z] = u[z] /\ (z # top => r.own[z] = m.own[z])
  BY <1>10, <1>14, <1>15
<1> QED
  BY <1>16 DEF r, m1, s2, Lifted

-----------------------------------------------------------------------------
(* Splay trees: ancestors                                                  *)

\* There are as many values below a handle as a number tells, none if none.
LEMMA BelowIsCounted ==
  ASSUME NEW m, NEW u, Tree(m, u), NEW h \in Handles
  PROVE  /\ Cardinality(u[h]) \in Nat /\ Cardinality(u[h]) <= Cardinality(SplayValues)
         /\ Cardinality(SplayValues) \in Nat
         /\ Cardinality(u[h]) = 0 <=> m.own[h] = Nothing
<1>1. u[h] \subseteq SplayValues /\ IsFiniteSet(SplayValues)
  BY TreeIs, SplayAssumption
<1>2. /\ IsFiniteSet(u[h]) /\ Cardinality(u[h]) \in Nat /\ Cardinality(u[h]) <= Cardinality(SplayValues)
      /\ Cardinality(SplayValues) \in Nat
  BY <1>1, FS_Subset, FS_CardinalityType
<1>3. Cardinality(u[h]) = 0 <=> u[h] = {}
  BY <1>2, FS_EmptySet
<1>4. u[h] = {} <=> m.own[h] = Nothing
  BY TreeIs
<1> QED
  BY <1>2, <1>3, <1>4

\* Going down from handles with a value below leads to the handle that owns it.
LEMMA DescentReaches ==
  ASSUME NEW m, NEW u, Tree(m, u), NEW h \in Handles, m.own[h] # Nothing,
         NEW Q \in SUBSET Handles,
         \A k \in Q : /\ m.own[h] \in u[k] /\ k # h
                      /\ \A s \in Sides : m.own[h] \in u[Child(m.own[k], s)] => Child(m.own[k], s) \in Q
  PROVE  Q = {}
<1> DEFINE P == {n \in Nat : \A k \in Q : Cardinality(u[k]) # n}
<1>1. ASSUME NEW n \in Nat, \A i \in 0..(n - 1) : i \in P, NEW k \in Q
      PROVE  Cardinality(u[k]) # n
  <2>1. k \in Handles /\ m.own[h] \in u[k] /\ m.own[k] # Nothing /\ m.own[k] # m.own[h]
    <3>1. k \in Handles /\ m.own[h] \in u[k] /\ k # h
      BY <1>1
    <3>2. OwnedOnce(m)
      BY DEF Tree
    <3> QED  BY <3>1, <3>2, TreeIs DEF OwnedOnce
  <2>2. \E s \in Sides : m.own[h] \in u[Child(m.own[k], s)]
    <3>1. "left" \in Sides /\ sibling("left") \in Sides
      BY SidesDiffer
    <3>2. u[k] = {m.own[k]} \cup u[Child(m.own[k], "left")] \cup u[Child(m.own[k], sibling("left"))]
      BY <2>1, <3>1, TreeIs
    <3> QED  BY <2>1, <3>1, <3>2
  <2>3. PICK s \in Sides : m.own[h] \in u[Child(m.own[k], s)]
    BY <2>2
  <2>4. Child(m.own[k], s) \in Q
    BY <1>1, <2>3
  <2>5. /\ Cardinality(u[Child(m.own[k], s)]) \in Nat
        /\ Cardinality(u[k]) \in Nat /\ Cardinality(u[Child(m.own[k], s)]) < Cardinality(u[k])
    BY <2>1, CountIs
  <2>6. ASSUME Cardinality(u[k]) = n
        PROVE  FALSE
    <3>1. Cardinality(u[Child(m.own[k], s)]) \in 0..(n - 1)
      BY <2>5, <2>6
    <3> QED  BY <1>1, <2>4, <3>1
  <2> QED  BY <2>6
<1>2. \A n \in Nat : (\A i \in 0..(n - 1) : i \in P) => n \in P
  BY <1>1
<1>3. P \in SUBSET Nat
  OBVIOUS
<1> HIDE DEF P
<1>4. \A n \in Nat : n \in P
  BY ONLY <1>2, <1>3, StrongSetInduction
<1>5. ASSUME NEW k \in Q
      PROVE  FALSE
  BY <1>4, BelowIsCounted DEF P
<1> QED
  BY <1>5

\* What is above a node is above its parent, but for the parent itself.
LEMMA AncestorIs ==
  ASSUME NEW m, NEW u, Tree(m, u), NEW h \in Handles, m.own[h] # Nothing, h # RootHandle,
         NEW up, up = m.parent[m.own[h]], NEW k \in Handles, m.own[h] \in u[k], k # h
  PROVE  m.own[up] \in u[k]
<1> DEFINE x == m.own[h]
           p == m.own[up]
           Q == {z \in Handles : x \in u[z] /\ z # h /\ p \notin u[z]}
<1>1. up \in Handles /\ p # Nothing /\ p \in SplayValues /\ \E s \in Sides : h = Child(p, s)
  BY UpIs
<1>2. ASSUME NEW z \in Q, NEW s \in Sides, x \in u[Child(m.own[z], s)]
      PROVE  Child(m.own[z], s) \in Q
  <2>1. z \in Handles /\ x \in u[z] /\ z # h /\ p \notin u[z] /\ m.own[z] # Nothing
    BY <1>2, TreeIs
  <2>2. /\ m.own[z] \in SplayValues /\ m.own[z] \in u[z] /\ Child(m.own[z], s) \in Handles
        /\ u[Child(m.own[z], s)] \subseteq u[z]
    BY <2>1, TreeIs
  <2>3. Child(m.own[z], s) # h
    <3>1. PICK d \in Sides : h = Child(p, d)
      BY <1>1
    <3>2. m.own[z] # p
      BY <2>1, <2>2
    <3> HIDE DEF p
    <3> QED  BY ONLY <1>1, <2>2, <3>1, <3>2, s \in Sides, HandlesDiffer
  <2> QED  BY <1>2, <2>1, <2>2, <2>3
<1>3. Q \in SUBSET Handles /\ \A z \in Q : x \in u[z] /\ z # h
  OBVIOUS
<1> HIDE DEF Q
<1>4. Q = {}
  BY <1>2, <1>3, DescentReaches
<1> QED
  BY <1>4 DEF Q

\* What is still stale when a node has risen is above it.
LEMMA StaleAbove ==
  ASSUME NEW m, NEW u, Tree(m, u), NEW h \in Handles, m.own[h] # Nothing,
         NEW W, Stale(m, u, h, W), NEW V \in SUBSET W,
         NEW r, NEW w, Tree(r, w), NEW k \in Handles, r.own[k] = m.own[h], m.own[k] # Nothing,
         \A z \in Handles : m.own[k] \in u[z] => w[z] = u[z] /\ (z # k => r.own[z] = m.own[z]),
         \A z \in Handles : m.own[h] \in u[z] /\ z # h /\ m.own[z] \in V => m.own[k] \in u[z] /\ z # k
  PROVE  Stale(r, w, k, V)
<1> SUFFICES ASSUME NEW z \in Handles, r.own[z] \in V
             PROVE  r.own[z] # Nothing /\ r.own[k] \in w[z] /\ z # k
  BY DEF Stale
<1>1. RootHandle \in Handles /\ CHandle \in Handles
  BY HandlesDiffer
<1>2. r.own[z] # Nothing
  <2>1. m.own[CHandle] = Nothing
    BY DEF Tree
  <2> QED  BY <1>1, <2>1 DEF Stale
<1>3. r.own[z] \in w[RootHandle] /\ m.own[k] \in u[RootHandle]
  BY <1>2 DEF Tree, Rooted
<1>4. r.own[z] \in u[RootHandle]
  BY <1>1, <1>3
<1>5. PICK y \in Handles : m.own[y] = r.own[z]
  BY <1>4 DEF Tree, Rooted
<1>6. m.own[h] \in u[y] /\ y # h /\ m.own[y] \in V
  BY <1>5 DEF Stale
<1>7. w[y] = u[y] /\ r.own[y] = m.own[y] /\ y # k
  BY <1>6
<1>8. z = y
  BY <1>2, <1>5, <1>7 DEF Tree, OwnedOnce
<1> QED
  BY <1>2, <1>6, <1>7, <1>8

-----------------------------------------------------------------------------
(* Splay trees: the climb                                                  *)

Targets == {Null, RootHandle}

\* A climb under way: sizes are wrong only above the node that climbs.
Climbing(st, target, u, W) ==
    /\ st = [heap |-> st.heap, current |-> st.current] /\ st.current \in Handles
    /\ Tree(st.heap, u) /\ Sized(st.heap, u, W) /\ Stale(st.heap, u, st.current, W)
    /\ st.heap.own[st.current] # Nothing
    /\ target \in Targets /\ (target = RootHandle => st.current # RootHandle)

\* A step of a climb from where it is: there are more values below, or it is done.
HasClimbed(new, st, target, u, W) ==
    IF st.heap.parent[st.heap.own[st.current]] = target THEN new = st
    ELSE \E w, V : /\ Climbing(new, target, w, V) /\ V \subseteq W
                   /\ Cardinality(u[st.current]) < Cardinality(w[new.current])

\* What the handles above are.
LEMMA ClimbIs ==
  ASSUME NEW st, NEW target, NEW u, NEW W, Climbing(st, target, u, W),
         NEW m, m = st.heap, NEW h, h = st.current, NEW up, up = m.parent[m.own[h]], up # target,
         NEW top, top = m.parent[m.own[up]]
  PROVE  /\ h \in Handles \ {RootHandle} /\ m.own[h] # Nothing /\ up \in Handles /\ m.own[up] # Nothing
         /\ child_side(h) \in Sides /\ h = Child(m.own[up], child_side(h))
         /\ top # target => up # RootHandle
<1>1. /\ h \in Handles /\ m.own[h] # Nothing /\ Tree(m, u) /\ target \in {Null, RootHandle}
      /\ target = RootHandle => h # RootHandle
  BY DEF Climbing, Targets
<1>2. h # RootHandle
  BY <1>1, UpIs
<1>3. /\ up \in Handles /\ m.own[up] # Nothing
      /\ child_side(h) \in Sides /\ h = Child(m.own[up], child_side(h))
  BY <1>1, <1>2, UpIs
<1>4. up = RootHandle => top = Null
  BY <1>1, <1>3, UpIs
<1> QED
  BY <1>1, <1>2, <1>3, <1>4

\* More values are below the parent than below a node, and so on.
LEMMA MoreAbove ==
  ASSUME NEW m, NEW u, Tree(m, u), NEW h \in Handles, NEW n, n = m.own[h], n # Nothing,
         NEW s \in Sides, NEW c, c = Child(n, s)
  PROVE  Cardinality(u[c]) < Cardinality(u[h])
BY CountIs

\* A rotation at the handle above ends below the target.
LEMMA ZigClimbs ==
  ASSUME NEW st, NEW target, NEW u, NEW W, Climbing(st, target, u, W),
         NEW m, m = st.heap, NEW h, h = st.current, NEW up, up = m.parent[m.own[h]], up # target
  PROVE  HasClimbed([heap |-> rotate_handle(m, up, child_side(h)), current |-> up], st, target, u, W)
<1> DEFINE s == child_side(h)
           x == m.own[h]
           p == m.own[up]
           r == rotate_handle(m, up, s)
           w == TurnedBelow(u, p, x, s)
           V == W \ {p, x}
<1>1. /\ h \in Handles /\ h # RootHandle /\ x # Nothing /\ up \in Handles /\ p # Nothing
      /\ s \in Sides /\ h = Child(p, s) /\ Tree(m, u) /\ Sized(m, u, W) /\ Stale(m, u, h, W)
      /\ target \in Targets
  BY ClimbIs DEF Climbing
<1>2. Rotated(r, m, up, s, p, x) /\ Risen(r, w, up, m, u, h, W) /\ Sized(r, w, V)
  BY ONLY <1>1, up = m.parent[m.own[h]], ZigRises
<1> HIDE DEF r, w, s, V
<1>3. /\ Tree(r, w) /\ r.own[up] = x
      /\ \A z \in Handles : p \in u[z] => w[z] = u[z] /\ (z # up => r.own[z] = m.own[z])
  BY <1>2 DEF Risen
<1>4. \A z \in Handles : x \in u[z] /\ z # h /\ m.own[z] \in V => p \in u[z] /\ z # up
  <2>1. SUFFICES ASSUME NEW z \in Handles, x \in u[z], z # h, m.own[z] \in V
                 PROVE  p \in u[z] /\ z # up
    OBVIOUS
  <2>2. Tree(m, u) /\ h \in Handles /\ m.own[h] # Nothing /\ h # RootHandle /\ up = m.parent[m.own[h]]
        /\ z \in Handles /\ m.own[h] \in u[z] /\ z # h
    BY <1>1, <2>1
  <2>3. m.own[up] \in u[z]
    BY ONLY <2>2, AncestorIs
  <2> QED  BY <2>1, <2>3 DEF V
<1>5. V \in SUBSET W
  BY DEF V
<1> HIDE DEF x, p
<1>6. x = m.own[h] /\ p = m.own[up]
  BY DEF x, p
<1>7. Stale(r, w, up, V)
  <2>1. /\ Tree(m, u) /\ h \in Handles /\ m.own[h] # Nothing /\ Stale(m, u, h, W) /\ V \in SUBSET W
        /\ Tree(r, w) /\ up \in Handles /\ r.own[up] = m.own[h] /\ m.own[up] # Nothing
        /\ \A z \in Handles : m.own[up] \in u[z] => w[z] = u[z] /\ (z # up => r.own[z] = m.own[z])
        /\ \A z \in Handles : m.own[h] \in u[z] /\ z # h /\ m.own[z] \in V => m.own[up] \in u[z] /\ z # up
    BY <1>1, <1>3, <1>4, <1>5, <1>6
  <2> QED  BY ONLY <2>1, StaleAbove
<1>8. w[up] = u[up]
  <2>1. Tree(m, u) /\ up \in Handles /\ p = m.own[up] /\ p # Nothing /\ s \in Sides
    BY <1>1, <1>6
  <2>2. p \in u[up]
    BY ONLY <2>1, NodeIs
  <2> QED  BY <1>1, <1>3, <2>2
<1>9. Cardinality(u[h]) < Cardinality(w[up])
  <2>1. Tree(m, u) /\ up \in Handles /\ p = m.own[up] /\ p # Nothing /\ s \in Sides /\ h = Child(p, s)
    BY <1>1, <1>6
  <2>2. Cardinality(u[h]) < Cardinality(u[up])
    BY ONLY <2>1, MoreAbove
  <2> QED  BY <1>8, <2>2
<1> DEFINE new == [heap |-> r, current |-> up]
<1>10. Climbing(new, target, w, V)
  BY <1>1, <1>2, <1>3, <1>6, <1>7 DEF Climbing
<1>11. HasClimbed(new, st, target, u, W)
  <2>1. new.current = up
    OBVIOUS
  <2> HIDE DEF new
  <2> QED  BY <1>5, <1>9, <1>10, <2>1 DEF HasClimbed
<1> QED
  BY <1>11 DEF r, s

\* What is not below handle k is as it was.
Kept(r, w, k, m, u) ==
    \A z \in Handles : m.own[k] \in u[z] => w[z] = u[z] /\ (z # k => r.own[z] = m.own[z])

\* A node that took the place of the one above its parent has climbed.
LEMMA TopClimbs ==
  ASSUME NEW st, NEW target, NEW u, NEW W, Climbing(st, target, u, W),
         NEW m, m = st.heap, NEW h, h = st.current, NEW up, up = m.parent[m.own[h]], up # target,
         NEW top, top = m.parent[m.own[up]], top # target,
         NEW r, NEW w, Tree(r, w), Sized(r, w, W \ {m.own[top], m.own[up]}), r.own[top] = m.own[h],
         Kept(r, w, top, m, u), NEW new, new = [heap |-> r, current |-> top]
  PROVE  HasClimbed(new, st, target, u, W)
<1> DEFINE x == m.own[h]
           p == m.own[up]
           n == m.own[top]
           V == W \ {n, p}
<1>1. /\ h \in Handles /\ h # RootHandle /\ x # Nothing /\ up \in Handles /\ p # Nothing
      /\ child_side(h) \in Sides /\ h = Child(p, child_side(h)) /\ Tree(m, u) /\ Stale(m, u, h, W)
      /\ target \in Targets /\ up # RootHandle
  <2>1. Climbing(st, target, u, W) /\ m = st.heap /\ h = st.current /\ up = m.parent[m.own[h]]
        /\ up # target /\ top = m.parent[m.own[up]] /\ top # target
    OBVIOUS
  <2> HIDE DEF x, p
  <2>2. /\ h \in Handles \ {RootHandle} /\ m.own[h] # Nothing /\ up \in Handles /\ m.own[up] # Nothing
        /\ child_side(h) \in Sides /\ h = Child(m.own[up], child_side(h)) /\ up # RootHandle
    BY ONLY <2>1, ClimbIs
  <2> QED  BY <2>1, <2>2 DEF Climbing, x, p
<1>2. /\ top \in Handles /\ n # Nothing /\ child_side(up) \in Sides /\ up = Child(n, child_side(up))
  <2>1. Tree(m, u) /\ up \in Handles /\ m.own[up] # Nothing /\ top = m.parent[m.own[up]] /\ up # RootHandle
    BY <1>1
  <2> QED  BY ONLY <2>1, UpIs DEF n
<1>3. \A z \in Handles : x \in u[z] /\ z # h /\ m.own[z] \in V => n \in u[z] /\ z # top
  <2>1. SUFFICES ASSUME NEW z \in Handles, x \in u[z], z # h, m.own[z] \in V
                 PROVE  n \in u[z] /\ z # top
    OBVIOUS
  <2>2. Tree(m, u) /\ h \in Handles /\ m.own[h] # Nothing /\ h # RootHandle /\ up = m.parent[m.own[h]]
        /\ z \in Handles /\ m.own[h] \in u[z] /\ z # h
    BY <1>1, <2>1
  <2>3. m.own[up] \in u[z]
    BY ONLY <2>2, AncestorIs
  <2>4. Tree(m, u) /\ up \in Handles /\ m.own[up] # Nothing /\ up # RootHandle /\ top = m.parent[m.own[up]]
        /\ z \in Handles /\ m.own[up] \in u[z] /\ z # up
    BY <1>1, <2>1, <2>3
  <2>5. m.own[top] \in u[z]
    BY ONLY <2>4, AncestorIs
  <2> QED  BY <2>1, <2>5
<1>4. V \in SUBSET W
  OBVIOUS
<1> HIDE DEF V, x, p, n
<1>5. x = m.own[h] /\ p = m.own[up] /\ n = m.own[top] /\ V = W \ {m.own[top], m.own[up]}
  BY DEF x, p, n, V
<1>6. Stale(r, w, top, V)
  <2>1. /\ Tree(m, u) /\ h \in Handles /\ m.own[h] # Nothing /\ Stale(m, u, h, W) /\ V \in SUBSET W
        /\ Tree(r, w) /\ top \in Handles /\ r.own[top] = m.own[h] /\ m.own[top] # Nothing
        /\ \A z \in Handles : m.own[top] \in u[z] => w[z] = u[z] /\ (z # top => r.own[z] = m.own[z])
        /\ \A z \in Handles : m.own[h] \in u[z] /\ z # h /\ m.own[z] \in V => m.own[top] \in u[z] /\ z # top
    BY <1>1, <1>2, <1>3, <1>4, <1>5 DEF Kept
  <2> QED  BY ONLY <2>1, StaleAbove
<1>7. Cardinality(u[h]) < Cardinality(w[top])
  <2>1. Tree(m, u) /\ up \in Handles /\ p = m.own[up] /\ p # Nothing /\ child_side(h) \in Sides
        /\ h = Child(p, child_side(h))
    BY <1>1, <1>5
  <2>2. Cardinality(u[h]) < Cardinality(u[up])
    BY ONLY <2>1, MoreAbove
  <2>3. Tree(m, u) /\ top \in Handles /\ n = m.own[top] /\ n # Nothing /\ child_side(up) \in Sides
        /\ up = Child(n, child_side(up))
    BY <1>1, <1>2, <1>5
  <2>4. Cardinality(u[up]) < Cardinality(u[top])
    BY ONLY <2>3, MoreAbove
  <2>5. n \in u[top]
    BY ONLY <2>3, NodeIs
  <2>6. w[top] = u[top]
    BY <1>2, <1>5, <2>5 DEF Kept
  <2>7. Cardinality(u[h]) \in Nat /\ Cardinality(u[up]) \in Nat /\ Cardinality(u[top]) \in Nat
    <3>1. Tree(m, u) /\ h \in Handles /\ up \in Handles /\ top \in Handles
      BY <1>1, <1>2
    <3> QED  BY ONLY <3>1, BelowIsCounted
  <2> QED  BY ONLY <2>2, <2>4, <2>6, <2>7
<1>8. Climbing(new, target, w, V)
  BY <1>1, <1>2, <1>5, <1>6 DEF Climbing, Targets
<1>9. new.current = top
  OBVIOUS
<1> QED
  BY <1>4, <1>7, <1>8, <1>9 DEF HasClimbed

\* Each step of a climb keeps the tree, sizes that are wrong above it only, and rises.
LEMMA ClimbRises ==
  ASSUME NEW st, NEW target, NEW u, NEW W, Climbing(st, target, u, W)
  PROVE  HasClimbed(Climb(st, target), st, target, u, W)
<1> DEFINE m == st.heap
           h == st.current
           up == m.parent[m.own[h]]
           top == m.parent[m.own[up]]
           s == child_side(h)
           t == child_side(up)
           x == m.own[h]
           p == m.own[up]
           n == m.own[top]
<1>1. CASE up = target
  <2>1. Climb(st, target) = st
    BY <1>1 DEF Climb
  <2> QED  BY <1>1, <2>1 DEF HasClimbed
<1>2. CASE up # target /\ top = target
  <2>1. Climb(st, target) = [heap |-> rotate_handle(m, up, s), current |-> up]
    BY <1>2 DEF Climb
  <2>2. HasClimbed([heap |-> rotate_handle(m, up, s), current |-> up], st, target, u, W)
    BY <1>2, ZigClimbs
  <2> QED  BY <2>1, <2>2
<1>3. CASE up # target /\ top # target
  <2>1. /\ h \in Handles /\ x # Nothing /\ h # RootHandle /\ up # RootHandle
        /\ Tree(m, u) /\ Sized(m, u, W) /\ Stale(m, u, h, W)
    <3>1. /\ Climbing(st, target, u, W) /\ m = st.heap /\ h = st.current /\ up = m.parent[m.own[h]]
          /\ up # target /\ top = m.parent[m.own[up]] /\ top # target
      BY <1>3
    <3> HIDE DEF m, h, up, top
    <3>2. h \in Handles \ {RootHandle} /\ m.own[h] # Nothing /\ up # RootHandle
      BY ONLY <3>1, ClimbIs
    <3> QED  BY <3>1, <3>2 DEF Climbing
  <2>2. up = m.parent[x] /\ top = m.parent[p] /\ s = child_side(h) /\ t = child_side(up)
        /\ x = m.own[h] /\ p = m.own[up] /\ n = m.own[top] /\ m = st.heap /\ h = st.current
    OBVIOUS
  <2>3. Climb(st, target) =
          IF s = t THEN [heap |-> rotate_handle(rotate_handle(m, top, s), top, s), current |-> top]
          ELSE [heap |-> rotate_handle(rotate_handle(m, up, s), top, t), current |-> top]
    BY <1>3 DEF Climb
  <2> HIDE DEF m, h, up, top, s, t, x, p, n
  <2>4. Chain(m, u, h, up, top, x, p, n, s, t)
    BY ONLY <2>1, <2>2, ChainIs
  <2>5. s \in Sides /\ t \in Sides
    BY <2>4 DEF Chain
  <2>6. ASSUME NEW r, Lifted(r, m, u, top, x, p, n, W)
        PROVE  HasClimbed([heap |-> r, current |-> top], st, target, u, W)
    <3> DEFINE new == [heap |-> r, current |-> top]
    <3>1. PICK w : /\ Tree(r, w) /\ Sized(r, w, W \ {n, p}) /\ r.own[top] = x
                   /\ \A z \in Handles : n \in u[z] => w[z] = u[z] /\ (z # top => r.own[z] = m.own[z])
      BY <2>6 DEF Lifted
    <3>2. /\ Climbing(st, target, u, W)
          /\ m = st.heap /\ h = st.current /\ up = m.parent[m.own[h]] /\ up # target
          /\ top = m.parent[m.own[up]] /\ top # target
          /\ Tree(r, w) /\ Sized(r, w, W \ {m.own[top], m.own[up]}) /\ r.own[top] = m.own[h]
          /\ Kept(r, w, top, m, u) /\ new = [heap |-> r, current |-> top]
      BY <1>3, <2>2, <3>1 DEF Kept
    <3> HIDE DEF new
    <3>3. HasClimbed(new, st, target, u, W)
      BY ONLY <3>2, TopClimbs
    <3> QED  BY <3>3 DEF new
  <2>7. CASE s = t
    <3> DEFINE r == rotate_handle(rotate_handle(m, top, s), top, s)
    <3>1. Chain(m, u, h, up, top, x, p, n, s, s)
      BY <2>4, <2>7
    <3>2. Lifted(r, m, u, top, x, p, n, W)
      BY ONLY <2>1, <3>1, ZigZigRises
    <3> HIDE DEF r
    <3>3. HasClimbed([heap |-> r, current |-> top], st, target, u, W)
      BY ONLY <2>6, <3>2
    <3> QED  BY <2>3, <2>7, <3>3 DEF r
  <2>8. CASE s # t
    <3> DEFINE r == rotate_handle(rotate_handle(m, up, s), top, t)
    <3>0. t = sibling(s)
      BY <2>5, <2>8, SidesDiffer
    <3>1. Chain(m, u, h, up, top, x, p, n, s, sibling(s))
      BY <2>4, <3>0
    <3>2. r = rotate_handle(rotate_handle(m, up, s), top, sibling(s))
      BY <3>0
    <3> HIDE DEF r
    <3>3. Lifted(r, m, u, top, x, p, n, W)
      BY ONLY <2>1, <3>1, <3>2, ZigZagRises
    <3>4. HasClimbed([heap |-> r, current |-> top], st, target, u, W)
      BY ONLY <2>6, <3>3
    <3> QED  BY <2>3, <2>8, <3>4 DEF r
  <2> QED  BY <2>7, <2>8
<1> QED
  BY <1>1, <1>2, <1>3

\* A climb to the root leaves no size wrong.
LEMMA StaleAtRoot ==
  ASSUME NEW m, NEW u, Tree(m, u), m.own[RootHandle] # Nothing, NEW W, Stale(m, u, RootHandle, W)
  PROVE  \A k \in Handles : m.own[k] \notin W
<1> DEFINE x == m.own[RootHandle]
           Q == {z \in Handles : x \in u[z] /\ z # RootHandle}
<1>1. RootHandle \in Handles
  BY HandlesDiffer
<1>2. ASSUME NEW z \in Q, NEW s \in Sides, x \in u[Child(m.own[z], s)]
      PROVE  Child(m.own[z], s) \in Q
  <2>1. z \in Handles /\ x \in u[z] /\ m.own[z] # Nothing
    BY <1>2, TreeIs
  <2>2. m.own[z] \in SplayValues
    BY <2>1, TreeIs
  <2> QED  BY <1>2, <2>2, HandlesDiffer
<1>3. Q \in SUBSET Handles /\ \A z \in Q : x \in u[z] /\ z # RootHandle
  OBVIOUS
<1> HIDE DEF Q
<1>4. Q = {}
  BY <1>1, <1>2, <1>3, DescentReaches
<1> QED
  BY <1>4 DEF Q, Stale

-----------------------------------------------------------------------------
(* Splay trees: splay                                                      *)

SplayRounds(f, m, h, target) ==
    f = [k \in 0..Cardinality(SplayValues) |->
           IF k = 0 THEN [heap |-> m, current |-> h] ELSE Climb(f[k - 1], target)]

\* After k rounds more than k values are below the node, if it is still to climb.
Climbed(st, k, target, W) ==
    \E w, V : /\ Climbing(st, target, w, V) /\ V \subseteq W
              /\ \/ st.heap.parent[st.heap.own[st.current]] = target
                 \/ k < Cardinality(w[st.current])

\* A round of splay goes on with the climb.
LEMMA ClimbedGoesOn ==
  ASSUME NEW st, NEW k \in Nat, NEW target, NEW W, Climbed(st, k, target, W)
  PROVE  Climbed(Climb(st, target), k + 1, target, W)
<1>1. PICK u, V : /\ Climbing(st, target, u, V) /\ V \subseteq W
                  /\ \/ st.heap.parent[st.heap.own[st.current]] = target
                     \/ k < Cardinality(u[st.current])
  BY DEF Climbed
<1> DEFINE new == Climb(st, target)
<1>2. HasClimbed(new, st, target, u, V)
  BY <1>1, ClimbRises
<1> HIDE DEF new
<1>3. CASE st.heap.parent[st.heap.own[st.current]] = target
  <2>1. new = st
    BY <1>2, <1>3 DEF HasClimbed
  <2>2. Climbed(st, k + 1, target, W)
    BY <1>1, <1>3 DEF Climbed
  <2> QED  BY <2>1, <2>2 DEF new
<1>4. CASE st.heap.parent[st.heap.own[st.current]] # target
  <2>1. PICK w, X : /\ Climbing(new, target, w, X) /\ X \subseteq V
                    /\ Cardinality(u[st.current]) < Cardinality(w[new.current])
    BY <1>2, <1>4 DEF HasClimbed
  <2>2. Tree(st.heap, u) /\ st.current \in Handles /\ Tree(new.heap, w) /\ new.current \in Handles
    BY <1>1, <2>1 DEF Climbing
  <2>3. Cardinality(u[st.current]) \in Nat
    BY ONLY <2>2, BelowIsCounted
  <2>4. Cardinality(w[new.current]) \in Nat
    BY ONLY <2>2, BelowIsCounted
  <2>5. k + 1 < Cardinality(w[new.current])
    BY <1>1, <1>4, <2>1, <2>3, <2>4
  <2>6. X \subseteq W
    BY <1>1, <2>1
  <2>7. Climbed(new, k + 1, target, W)
    BY <2>1, <2>5, <2>6 DEF Climbed
  <2> QED  BY <2>7 DEF new
<1> QED
  BY <1>3, <1>4

States == [heap : Heaps, current : Handles]

\* What has climbed is a state of the climb.
LEMMA ClimbedIs ==
  ASSUME NEW st, NEW k, NEW target, NEW W, Climbed(st, k, target, W)
  PROVE  st \in States
BY DEF Climbed, Climbing, Tree, States

\* Once the climb is done all sizes are right.
LEMMA ClimbEnds ==
  ASSUME NEW st, NEW target, NEW W, target = Null \/ W = {},
         Climbed(st, Cardinality(SplayValues), target, W)
  PROVE  \E w : Tree(st.heap, w) /\ Sized(st.heap, w, {})
<1> DEFINE N == Cardinality(SplayValues)
           m == st.heap
           h == st.current
<1>1. PICK u, V : /\ Climbing(st, target, u, V) /\ V \subseteq W
                  /\ m.parent[m.own[h]] = target \/ N < Cardinality(u[h])
  BY DEF Climbed
<1>2. Tree(m, u) /\ Sized(m, u, V) /\ Stale(m, u, h, V) /\ h \in Handles /\ m.own[h] # Nothing
  BY <1>1 DEF Climbing
<1> HIDE DEF m, h
<1>3. Cardinality(u[h]) \in Nat /\ Cardinality(u[h]) <= N /\ N \in Nat
  BY ONLY <1>2, BelowIsCounted
<1>4. m.parent[m.own[h]] = target
  BY <1>1, <1>3 DEF m, h
<1>5. CASE V = {}
  BY <1>2, <1>5 DEF m
<1>6. CASE target = Null
  <2>1. h = RootHandle
    BY <1>2, <1>4, <1>6, UpIs, HandlesDiffer
  <2>2. Tree(m, u) /\ m.own[RootHandle] # Nothing /\ Stale(m, u, RootHandle, V)
    BY <1>2, <2>1
  <2>3. \A k \in Handles : m.own[k] \notin V
    BY ONLY <2>2, StaleAtRoot
  <2>4. Sized(m, u, {})
    BY <1>2, <2>3 DEF Sized
  <2> QED  BY <1>2, <2>4 DEF m
<1> QED
  BY <1>1, <1>5, <1>6

\* A splay from a node above which alone sizes may be wrong leaves a sound tree.
LEMMA SplayIs ==
  ASSUME NEW m, NEW h, NEW target, NEW W, target = Null \/ W = {},
         NEW u, Climbing([heap |-> m, current |-> h], target, u, W)
  PROVE  \E w : Tree(splay(m, h, target), w) /\ Sized(splay(m, h, target), w, {})
<1> DEFINE N == Cardinality(SplayValues)
           V == States
           e == [heap |-> m, current |-> h]
           H(k) == {st \in V : Climbed(st, k, target, W)}
           Ends == [k \in 0..N |-> H(k)]
           round == [y \in (1..N) \X V |-> Climb(y[2], target)]
           t == CHOOSE f : SplayRounds(f, m, h, target)
<1>1. N \in Nat /\ Climbed(e, 0, target, W)
  <2>1. /\ Climbing(e, target, u, W) /\ Tree(m, u) /\ h \in Handles /\ m.own[h] # Nothing
        /\ e.heap = m /\ e.current = h
    BY DEF Climbing
  <2>2. /\ Cardinality(u[h]) \in Nat /\ N \in Nat /\ Cardinality(u[h]) # 0
    BY ONLY <2>1, BelowIsCounted
  <2> HIDE DEF e, N
  <2> QED  BY <2>1, <2>2 DEF Climbed
<1>2. Ends \in Maps(0..N, SUBSET V)
  <2> HIDE DEF V
  <2> QED  BY DEF Maps
<1>3. e \in Ends[0]
  <2>1. 0 \in 0..N
    BY <1>1
  <2>2. e \in V
    BY <1>1, ClimbedIs
  <2> HIDE DEF V, e
  <2> QED  BY <1>1, <2>1, <2>2
<1>4. ASSUME NEW k \in 1..N, NEW x \in H(k - 1) PROVE Climb(x, target) \in H(k)
  <2>1. Climbed(x, k - 1, target, W) /\ k - 1 \in Nat /\ (k - 1) + 1 = k
    BY <1>1
  <2>2. Climbed(Climb(x, target), (k - 1) + 1, target, W)
    BY ONLY <2>1, ClimbedGoesOn
  <2>3. Climbed(Climb(x, target), k, target, W)
    BY <2>1, <2>2
  <2>4. Climb(x, target) \in V
    BY <2>3, ClimbedIs
  <2> QED  BY <2>3, <2>4
<1>5. Leads(N, Ends, round)
  <2> SUFFICES ASSUME NEW k \in 1..N, NEW x \in Ends[k - 1] PROVE round[<<k, x>>] \in Ends[k]
    BY DEF Leads
  <2>1. Ends[k - 1] = H(k - 1) /\ Ends[k] = H(k)
    <3>1. k \in 0..N /\ k - 1 \in 0..N
      BY <1>1
    <3> HIDE DEF H, N
    <3> QED  BY <3>1
  <2>2. x \in V
    BY <2>1
  <2>3. round[<<k, x>>] = Climb(x, target)
    <3> HIDE DEF V, N
    <3> QED  BY <2>2
  <2> HIDE DEF H, Ends, round
  <2> QED  BY <1>4, <2>1, <2>3
<1>6. \E f : IsLoop(f, N, Ends, round, e)
  <2> HIDE DEF Ends, round, V, N, e
  <2> QED  BY ONLY <1>1, <1>2, <1>3, <1>5, LoopExists, SMTT(60)
<1>7. PICK f : /\ \A k \in 0..N : f[k] \in Ends[k]
               /\ f = [k \in 0..N |-> IF k = 0 THEN e ELSE round[<<k, f[k - 1]>>]]
  BY <1>6 DEF IsLoop
<1>8. SplayRounds(f, m, h, target)
  <2>1. ASSUME NEW k \in 0..N, k # 0 PROVE round[<<k, f[k - 1]>>] = Climb(f[k - 1], target)
    <3>1. k \in 1..N /\ k - 1 \in 0..N
      BY <1>1, <2>1
    <3> HIDE DEF V, N
    <3>2. f[k - 1] \in V
      BY <1>7, <3>1
    <3> QED  BY <3>1, <3>2
  <2>2. [k \in 0..N |-> IF k = 0 THEN e ELSE round[<<k, f[k - 1]>>]]
          = [k \in 0..N |-> IF k = 0 THEN e ELSE Climb(f[k - 1], target)]
    <3> HIDE DEF round, N, e
    <3> QED  BY <2>1
  <2>3. f = [k \in 0..N |-> IF k = 0 THEN e ELSE Climb(f[k - 1], target)]
    <3> HIDE DEF round, N, e
    <3> QED  BY <1>7, <2>2
  <2> QED  BY <2>3, Zenon DEF SplayRounds
<1>9. t = [k \in 0..N |-> IF k = 0 THEN e ELSE Climb(t[k - 1], target)]
  <2>1. SplayRounds(t, m, h, target)
    BY <1>8
  <2> HIDE DEF t
  <2> QED  BY <2>1, Zenon DEF SplayRounds
<1>10. splay(m, h, target) = t[N].heap
  BY Zenon DEF splay, SplayRounds
<1> HIDE DEF t
<1>11. \A k \in 0..N : t[k] = IF k = 0 THEN e ELSE Climb(t[k - 1], target)
  <2> HIDE DEF N, e
  <2> QED  BY <1>9, Zenon
<1>12. \A k \in 0..N : t[k] \in Ends[k]
  <2>1. t[0] \in Ends[0]
    <3>1. 0 \in 0..N
      BY <1>1
    <3> HIDE DEF Ends, N, e
    <3> QED  BY <1>3, <1>11, <3>1
  <2>2. Keeps(t, N, Ends)
    <3> SUFFICES ASSUME NEW k \in 1..N, t[k - 1] \in Ends[k - 1] PROVE t[k] \in Ends[k]
      BY DEF Keeps
    <3>1. k \in 0..N /\ k - 1 \in 0..N /\ k # 0
      BY <1>1
    <3> HIDE DEF N, e
    <3>2. t[k] = Climb(t[k - 1], target)
      BY <1>11, <3>1
    <3> HIDE DEF H
    <3>3. Ends[k - 1] = H(k - 1) /\ Ends[k] = H(k)
      BY <3>1
    <3> HIDE DEF Ends
    <3> QED  BY <1>4, <3>2, <3>3
  <2> HIDE DEF Ends, N
  <2> QED  BY <1>1, <2>1, <2>2, LoopKeeps
<1>13. Climbed(t[N], N, target, W)
  <2>1. N \in 0..N
    BY <1>1
  <2> HIDE DEF N
  <2> QED  BY <1>12, <2>1
<1>14. \E w : Tree(t[N].heap, w) /\ Sized(t[N].heap, w, {})
  BY <1>13, ClimbEnds
<1> HIDE DEF N
<1> QED
  BY <1>10, <1>14

-----------------------------------------------------------------------------
(* Splay trees: the descent                                                *)

Place(current, parent) == [current |-> current, parent |-> parent]

Positions == [current : Handles, parent : Handles \cup {Null}]

\* One step down from where v is not.
Below(st, m, v) ==
    LET n == m.own[st.current]
    IN  IF n \in {Nothing, v} THEN st
        ELSE [current |-> Child(n, IF n > v THEN "left" ELSE "right"), parent |-> st.current]

\* A descent for v came through the handles in P.
WayTo(P, st, m, u, v) ==
    /\ st \in Positions /\ P \in SUBSET Handles /\ st.current \notin P
    /\ RootHandle \in P \cup {st.current}
    /\ \A z \in P : /\ m.own[z] # Nothing /\ m.own[z] # v
                    /\ \A d \in Sides : Child(m.own[z], d) \in P \cup {st.current} <=> Before(d, v, m.own[z])
    /\ \A z \in P \cup {st.current} : z = RootHandle \/ \E y \in P, d \in Sides : z = Child(m.own[y], d)
    /\ st.current = RootHandle => st.parent = Null
    /\ st.current # RootHandle => /\ st.parent \in P
                                  /\ \E d \in Sides : st.current = Child(m.own[st.parent], d)
    /\ v \in u[RootHandle] => v \in u[st.current]

\* After k rounds no more than the others are below, or the descent is over.
Descended(st, k, m, u, v) ==
    /\ \E P : WayTo(P, st, m, u, v)
    /\ m.own[st.current] \in {Nothing, v} \/ Cardinality(u[st.current]) + k <= Cardinality(SplayValues)

\* The side on which a descent goes on.
LEMMA WayDown ==
  ASSUME NEW n \in SplayValues, NEW v \in SplayValues, n # v
  PROVE  \E d \in Sides : /\ d = IF n > v THEN "left" ELSE "right"
                          /\ \A s \in Sides : Before(s, v, n) <=> s = d
BY SplayAssumption DEF Sides, Before

\* One round of the search goes one level down.
LEMMA PathGoesOn ==
  ASSUME NEW m, NEW u, Tree(m, u), NEW v \in SplayValues, NEW st, NEW P, WayTo(P, st, m, u, v),
         NEW cur, cur = st.current, NEW n, n = m.own[cur], n # Nothing, n # v,
         NEW d \in Sides, \A s \in Sides : Before(s, v, n) <=> s = d
  PROVE  WayTo(P \cup {cur}, Place(Child(n, d), cur), m, u, v)
<1> DEFINE new == Place(Child(n, d), cur)
           c == Child(n, d)
           Q == P \cup {cur}
<1>1. cur \in Handles /\ P \in SUBSET Handles /\ cur \notin P /\ RootHandle \in Q
  BY DEF WayTo, Positions
<1>2. n \in SplayValues /\ c \in Handles /\ c # RootHandle
  <2>1. n \in SplayValues
    BY <1>1, TreeIs
  <2> QED  BY <2>1, HandlesDiffer
<1>3. \A y \in P : m.own[y] \in SplayValues /\ m.own[y] # n
  <2> SUFFICES ASSUME NEW y \in P PROVE m.own[y] \in SplayValues /\ m.own[y] # n
    OBVIOUS
  <2>1. y \in Handles /\ m.own[y] # Nothing /\ y # cur
    BY <1>1 DEF WayTo
  <2>2. m.own[y] \in SplayValues
    BY <2>1, TreeIs
  <2> QED  BY <1>1, <2>1, <2>2 DEF Tree, OwnedOnce
<1>4. \A s \in Sides : Child(n, s) \notin Q
  <2> SUFFICES ASSUME NEW s \in Sides, Child(n, s) \in Q PROVE FALSE
    OBVIOUS
  <2>1. Child(n, s) # RootHandle
    BY <1>2, HandlesDiffer
  <2>2. PICK y \in P, e \in Sides : Child(n, s) = Child(m.own[y], e)
    BY <1>1, <2>1 DEF WayTo
  <2>3. /\ m.own[y] \in SplayValues /\ m.own[y] # n /\ n \in SplayValues /\ s \in Sides /\ e \in Sides
        /\ Child(n, s) = Child(m.own[y], e)
    BY <1>2, <1>3, <2>2
  <2> QED  BY ONLY <2>3, HandlesDiffer
<1>5. \A y \in P, s \in Sides : Child(m.own[y], s) # c
  <2> SUFFICES ASSUME NEW y \in P, NEW s \in Sides PROVE Child(m.own[y], s) # c
    OBVIOUS
  <2>1. /\ m.own[y] \in SplayValues /\ m.own[y] # n /\ n \in SplayValues /\ s \in Sides /\ d \in Sides
    BY <1>2, <1>3
  <2> QED  BY ONLY <2>1, HandlesDiffer
<1>6. \A s \in Sides : Child(n, s) = c <=> s = d
  BY <1>2, HandlesDiffer
<1>7. new.current = c /\ new.parent = cur /\ new \in Positions
  BY <1>1, <1>2 DEF Place, Positions
<1> HIDE DEF new, c, Q
<1>8. \A z \in Q : /\ m.own[z] # Nothing /\ m.own[z] # v
                   /\ \A s \in Sides : Child(m.own[z], s) \in Q \cup {c} <=> Before(s, v, m.own[z])
  <2> SUFFICES ASSUME NEW z \in Q
               PROVE  /\ m.own[z] # Nothing /\ m.own[z] # v
                      /\ \A s \in Sides : Child(m.own[z], s) \in Q \cup {c} <=> Before(s, v, m.own[z])
    OBVIOUS
  <2>1. CASE z \in P
    <3>1. /\ m.own[z] # Nothing /\ m.own[z] # v
          /\ \A s \in Sides : Child(m.own[z], s) \in Q <=> Before(s, v, m.own[z])
      BY <2>1 DEF WayTo, Q
    <3> QED  BY <1>5, <2>1, <3>1
  <2>2. CASE z = cur
    BY <1>4, <1>6, <2>2
  <2> QED  BY <2>1, <2>2 DEF Q
<1>9. \A z \in Q \cup {c} : z = RootHandle \/ \E y \in Q, s \in Sides : z = Child(m.own[y], s)
  <2>1. \A z \in Q : z = RootHandle \/ \E y \in P, s \in Sides : z = Child(m.own[y], s)
    BY DEF WayTo, Q
  <2>2. cur \in Q /\ P \subseteq Q /\ c = Child(m.own[cur], d)
    BY DEF Q, c
  <2> QED  BY <2>1, <2>2
<1>10. v \in u[RootHandle] => v \in u[c]
  <2>1. SUFFICES ASSUME v \in u[cur] PROVE v \in u[c]
    BY DEF WayTo
  <2>2. sibling(d) \in Sides /\ sibling(d) # d
    BY SidesDiffer
  <2>3. /\ u[cur] = {n} \cup u[Child(n, d)] \cup u[Child(n, sibling(d))]
        /\ \A x \in u[Child(n, sibling(d))] : Before(sibling(d), x, n)
    <3>1. Parts(m, u, cur)
      BY <1>1 DEF Tree
    <3> QED  BY <2>2, <3>1, SidesDiffer DEF Parts
  <2> QED  BY <2>1, <2>2, <2>3 DEF c
<1>11. cur \in Q /\ c = Child(m.own[cur], d) /\ c \notin Q /\ Q \in SUBSET Handles
  BY <1>1, <1>4 DEF Q, c
<1>12. WayTo(Q, new, m, u, v)
  BY <1>1, <1>2, <1>7, <1>8, <1>9, <1>10, <1>11 DEF WayTo
<1> QED
  BY <1>12 DEF Q, new, c

\* One round of insert goes one level down, on the side the value belongs to.
LEMMA DescendedGoesOn ==
  ASSUME NEW m, NEW u, Tree(m, u), NEW v \in SplayValues, NEW k \in Nat,
         NEW st, Descended(st, k, m, u, v)
  PROVE  Descended(Below(st, m, v), k + 1, m, u, v)
<1> DEFINE cur == st.current
           n == m.own[cur]
<1>1. PICK P : WayTo(P, st, m, u, v)
  BY DEF Descended
<1>2. cur \in Handles
  BY <1>1 DEF WayTo, Positions
<1>3. CASE n \in {Nothing, v}
  <2>1. Below(st, m, v) = st
    BY <1>3 DEF Below
  <2> QED  BY <1>1, <1>3, <2>1 DEF Descended
<1>4. CASE n \notin {Nothing, v}
  <2>1. n \in SplayValues
    BY <1>2, <1>4, TreeIs
  <2>2. PICK d \in Sides : /\ d = IF n > v THEN "left" ELSE "right"
                           /\ \A s \in Sides : Before(s, v, n) <=> s = d
    BY <1>4, <2>1, WayDown
  <2>3. Below(st, m, v) = Place(Child(n, d), cur)
    BY <1>4, <2>2 DEF Below, Place
  <2> HIDE DEF n, cur
  <2>4. cur = st.current /\ n = m.own[cur] /\ n # Nothing /\ n # v
    BY <1>4 DEF n, cur
  <2>5. WayTo(P \cup {cur}, Place(Child(n, d), cur), m, u, v)
    BY ONLY <1>1, <2>2, <2>4, Tree(m, u), v \in SplayValues, PathGoesOn
  <2>6. Cardinality(u[cur]) + k <= Cardinality(SplayValues)
    BY <2>4 DEF Descended
  <2>7. Cardinality(u[cur]) \in Nat /\ Cardinality(SplayValues) \in Nat
    BY <1>2, BelowIsCounted
  <2>8. Child(n, d) \in Handles
    BY <2>1, HandlesDiffer
  <2>9. Cardinality(u[Child(n, d)]) \in Nat
    BY <2>8, BelowIsCounted
  <2>10. Cardinality(u[Child(n, d)]) < Cardinality(u[cur])
    BY <1>2, <2>4, MoreAbove
  <2>11. Place(Child(n, d), cur).current = Child(n, d)
    BY DEF Place
  <2> HIDE DEF Place
  <2>12. Cardinality(u[Child(n, d)]) + (k + 1) <= Cardinality(SplayValues)
    BY <2>6, <2>7, <2>9, <2>10
  <2> QED  BY <2>3, <2>5, <2>11, <2>12 DEF Descended
<1> QED
  BY <1>3, <1>4

Descents(f, m, v) ==
    f = [k \in 0..Cardinality(SplayValues) |->
           IF k = 0 THEN [current |-> RootHandle, parent |-> Null]
           ELSE LET st == f[k - 1]
                    n  == m.own[st.current]
                IN  IF n \in {Nothing, v} THEN st
                    ELSE [current |-> Child(n, IF n > v THEN "left" ELSE "right"),
                          parent |-> st.current]]

\* What has descended has a place.
LEMMA DescendedIs ==
  ASSUME NEW st, NEW k, NEW m, NEW u, NEW v, Descended(st, k, m, u, v)
  PROVE  st \in Positions
BY DEF Descended, WayTo

\* Insert starts at the root.
LEMMA DescentStarts ==
  ASSUME NEW m, NEW u, Tree(m, u), NEW v \in SplayValues
  PROVE  Descended(Place(RootHandle, Null), 0, m, u, v)
<1> DEFINE st == Place(RootHandle, Null)
<1>1. st.current = RootHandle /\ st.parent = Null /\ st \in Positions /\ RootHandle \in Handles
  BY HandlesDiffer DEF Place, Positions
<1> HIDE DEF st
<1>2. WayTo({}, st, m, u, v)
  BY <1>1 DEF WayTo
<1>3. Cardinality(u[RootHandle]) <= Cardinality(SplayValues) /\ Cardinality(u[RootHandle]) \in Nat
  BY <1>1, BelowIsCounted
<1>4. Cardinality(u[RootHandle]) + 0 <= Cardinality(SplayValues)
  BY <1>3
<1>5. Descended(st, 0, m, u, v)
  BY <1>1, <1>2, <1>4 DEF Descended
<1> QED
  BY <1>5 DEF st

\* A descent ends where v is, or where it is to be.
LEMMA DescentIs ==
  ASSUME NEW m, NEW u, Tree(m, u), NEW v \in SplayValues
  PROVE  /\ \E P : WayTo(P, DescendTo(m, v), m, u, v)
         /\ m.own[DescendTo(m, v).current] \in {Nothing, v}
<1> DEFINE N == Cardinality(SplayValues)
           V == Positions
           e == Place(RootHandle, Null)
           H(k) == {st \in V : Descended(st, k, m, u, v)}
           Ends == [k \in 0..N |-> H(k)]
           round == [y \in (1..N) \X V |-> Below(y[2], m, v)]
           t == CHOOSE f : Descents(f, m, v)
<1>1. N \in Nat /\ Descended(e, 0, m, u, v)
  <2>1. RootHandle \in Handles
    BY HandlesDiffer
  <2>2. N \in Nat
    BY <2>1, BelowIsCounted
  <2>3. Descended(e, 0, m, u, v)
    BY DescentStarts
  <2> QED  BY <2>2, <2>3
<1>2. Ends \in Maps(0..N, SUBSET V)
  <2> HIDE DEF V
  <2> QED  BY DEF Maps
<1>3. e \in Ends[0]
  <2>1. 0 \in 0..N
    BY <1>1
  <2>2. e \in V
    BY <1>1, DescendedIs
  <2> HIDE DEF V, e
  <2> QED  BY <1>1, <2>1, <2>2
<1>4. ASSUME NEW k \in 1..N, NEW x \in H(k - 1) PROVE Below(x, m, v) \in H(k)
  <2>1. Tree(m, u) /\ v \in SplayValues /\ Descended(x, k - 1, m, u, v) /\ k - 1 \in Nat /\ (k - 1) + 1 = k
    BY <1>1
  <2>2. Descended(Below(x, m, v), (k - 1) + 1, m, u, v)
    BY ONLY <2>1, DescendedGoesOn
  <2>3. Descended(Below(x, m, v), k, m, u, v)
    BY <2>1, <2>2
  <2>4. Below(x, m, v) \in V
    BY <2>3, DescendedIs
  <2> QED  BY <2>3, <2>4
<1>5. Leads(N, Ends, round)
  <2> SUFFICES ASSUME NEW k \in 1..N, NEW x \in Ends[k - 1] PROVE round[<<k, x>>] \in Ends[k]
    BY DEF Leads
  <2>1. Ends[k - 1] = H(k - 1) /\ Ends[k] = H(k)
    <3>1. k \in 0..N /\ k - 1 \in 0..N
      BY <1>1
    <3> HIDE DEF H, N
    <3> QED  BY <3>1
  <2>2. x \in V
    BY <2>1
  <2>3. round[<<k, x>>] = Below(x, m, v)
    <3> HIDE DEF V, N
    <3> QED  BY <2>2
  <2> HIDE DEF H, Ends, round
  <2> QED  BY <1>4, <2>1, <2>3
<1>6. \E f : IsLoop(f, N, Ends, round, e)
  <2> HIDE DEF Ends, round, V, N, e
  <2> QED  BY ONLY <1>1, <1>2, <1>3, <1>5, LoopExists, SMTT(60)
<1>7. PICK f : /\ \A k \in 0..N : f[k] \in Ends[k]
               /\ f = [k \in 0..N |-> IF k = 0 THEN e ELSE round[<<k, f[k - 1]>>]]
  BY <1>6 DEF IsLoop
<1>8. Descents(f, m, v)
  <2>1. ASSUME NEW k \in 0..N, k # 0 PROVE round[<<k, f[k - 1]>>] = Below(f[k - 1], m, v)
    <3>1. k \in 1..N /\ k - 1 \in 0..N
      BY <1>1, <2>1
    <3> HIDE DEF V, N
    <3>2. f[k - 1] \in V
      BY <1>7, <3>1
    <3> QED  BY <3>1, <3>2
  <2>2. [k \in 0..N |-> IF k = 0 THEN e ELSE round[<<k, f[k - 1]>>]]
          = [k \in 0..N |-> IF k = 0 THEN e ELSE Below(f[k - 1], m, v)]
    <3> HIDE DEF round, N, e
    <3> QED  BY <2>1
  <2>3. f = [k \in 0..N |-> IF k = 0 THEN e ELSE Below(f[k - 1], m, v)]
    <3> HIDE DEF round, N, e
    <3> QED  BY <1>7, <2>2
  <2> QED  BY <2>3, Zenon DEF Descents, Below, Place
<1>9. t = [k \in 0..N |-> IF k = 0 THEN e ELSE Below(t[k - 1], m, v)]
  <2>1. Descents(t, m, v)
    BY <1>8
  <2> HIDE DEF t
  <2> QED  BY <2>1, Zenon DEF Descents, Below, Place
<1>10. DescendTo(m, v) = t[N]
  BY Zenon DEF DescendTo, Descents
<1> HIDE DEF t
<1>11. \A k \in 0..N : t[k] = IF k = 0 THEN e ELSE Below(t[k - 1], m, v)
  <2> HIDE DEF N, e
  <2> QED  BY <1>9, Zenon
<1>12. \A k \in 0..N : t[k] \in Ends[k]
  <2>1. t[0] \in Ends[0]
    <3>1. 0 \in 0..N
      BY <1>1
    <3> HIDE DEF Ends, N, e
    <3> QED  BY <1>3, <1>11, <3>1
  <2>2. Keeps(t, N, Ends)
    <3> SUFFICES ASSUME NEW k \in 1..N, t[k - 1] \in Ends[k - 1] PROVE t[k] \in Ends[k]
      BY DEF Keeps
    <3>1. k \in 0..N /\ k - 1 \in 0..N /\ k # 0
      BY <1>1
    <3> HIDE DEF N, e
    <3>2. t[k] = Below(t[k - 1], m, v)
      BY <1>11, <3>1
    <3> HIDE DEF H
    <3>3. Ends[k - 1] = H(k - 1) /\ Ends[k] = H(k)
      BY <3>1
    <3> HIDE DEF Ends
    <3> QED  BY <1>4, <3>2, <3>3
  <2> HIDE DEF Ends, N
  <2> QED  BY <1>1, <2>1, <2>2, LoopKeeps
<1>13. Descended(t[N], N, m, u, v)
  <2>1. N \in 0..N
    BY <1>1
  <2> HIDE DEF N
  <2> QED  BY <1>12, <2>1
<1> HIDE DEF N
<1>14. m.own[t[N].current] \in {Nothing, v}
  <2>1. t[N].current \in Handles
    BY <1>13, DescendedIs DEF Positions
  <2>2. Cardinality(u[t[N].current]) \in Nat /\ (Cardinality(u[t[N].current]) = 0 <=> m.own[t[N].current] = Nothing)
    BY <2>1, BelowIsCounted
  <2>3. m.own[t[N].current] \in {Nothing, v} \/ Cardinality(u[t[N].current]) + N <= N
    BY <1>13 DEF Descended, N
  <2> QED  BY <1>1, <2>2, <2>3
<1> QED
  BY <1>10, <1>13, <1>14 DEF Descended

-----------------------------------------------------------------------------
(* Splay trees: a new node                                                 *)

\* The values below each handle once v is below those in Q.
Grown(u, Q, v) == [z \in Handles |-> IF z \in Q THEN u[z] \cup {v} ELSE u[z]]

HasAdded(r, m, st, v) ==
    /\ r \in Heaps
    /\ \A z \in Handles : r.own[z] = IF z = st.current THEN v ELSE m.own[z]
    /\ \A x \in SplayValues : /\ r.parent[x] = IF x = v THEN st.parent ELSE m.parent[x]
                              /\ r.size[x] = IF x = v THEN 1 ELSE m.size[x]

\* What a heap is with a new node at an empty handle.
LEMMA AddIs ==
  ASSUME NEW m \in Heaps, NEW st \in Positions, NEW v \in SplayValues
  PROVE  HasAdded([m EXCEPT !.own[st.current] = v, !.parent[v] = st.parent, !.size[v] = 1], m, st, v)
BY DEF HasAdded, Heaps, Positions, Nodes, Maps

\* Where the descent ended nothing is, and v is nowhere else.
Vacant(m, u, P, st, v) ==
    /\ Tree(m, u) /\ v \in SplayValues /\ WayTo(P, st, m, u, v) /\ m.own[st.current] = Nothing

\* Where the descent ended nothing is below, and v is nowhere.
LEMMA VacantIs ==
  ASSUME NEW m, NEW u, NEW P, NEW st, NEW v, Vacant(m, u, P, st, v)
  PROVE  /\ v \notin u[RootHandle] /\ v # Nothing
         /\ \A z \in Handles : m.own[z] # v
         /\ st.current \in Handles \ {CHandle, GCHandle} /\ st.current \notin P /\ u[st.current] = {}
         /\ \A s \in Sides : /\ Child(v, s) \in Handles /\ m.own[Child(v, s)] = Nothing
                             /\ u[Child(v, s)] = {} /\ Child(v, s) \notin P \cup {st.current}
<1>1. Tree(m, u) /\ v \in SplayValues /\ WayTo(P, st, m, u, v) /\ m.own[st.current] = Nothing
  BY DEF Vacant
<1>2. st.current \in Handles /\ P \in SUBSET Handles /\ st.current \notin P
  BY <1>1 DEF WayTo, Positions
<1>3. u[st.current] = {}
  BY <1>1, <1>2, TreeIs
<1>4. v \notin u[RootHandle]
  BY <1>1, <1>3 DEF WayTo
<1>5. \A z \in Handles : m.own[z] # v
  BY <1>1, <1>4, NothingIs DEF Tree, Rooted
<1>6. \A y \in P : m.own[y] \in SplayValues /\ m.own[y] # v
  BY <1>1, <1>2, TreeIs DEF WayTo
<1>7. st.current \notin {CHandle, GCHandle}
  <2>1. st.current = RootHandle \/ \E y \in P, d \in Sides : st.current = Child(m.own[y], d)
    BY <1>1 DEF WayTo
  <2> QED  BY <1>6, <2>1, HandlesDiffer
<1>8. ASSUME NEW s \in Sides
      PROVE  /\ Child(v, s) \in Handles /\ m.own[Child(v, s)] = Nothing
             /\ u[Child(v, s)] = {} /\ Child(v, s) \notin P \cup {st.current}
  <2>1. Child(v, s) \in Handles /\ Child(v, s) # RootHandle
    BY <1>1, HandlesDiffer
  <2>2. m.own[Child(v, s)] = Nothing
    BY <1>1, <1>4 DEF Tree, Rooted
  <2>3. u[Child(v, s)] = {}
    BY <1>1, <2>1, <2>2, TreeIs
  <2>4. ASSUME Child(v, s) \in P \cup {st.current}
        PROVE  FALSE
    <3>1. PICK y \in P, d \in Sides : Child(v, s) = Child(m.own[y], d)
      BY <1>1, <2>1, <2>4 DEF WayTo
    <3>2. /\ m.own[y] \in SplayValues /\ m.own[y] # v /\ v \in SplayValues /\ s \in Sides /\ d \in Sides
          /\ Child(v, s) = Child(m.own[y], d)
      BY <1>1, <1>6, <3>1
    <3> QED  BY ONLY <3>2, HandlesDiffer
  <2> QED  BY <2>1, <2>2, <2>3, <2>4
<1> QED
  BY <1>1, <1>2, <1>3, <1>4, <1>5, <1>7, <1>8, NothingIs

\* When what is below a handle has its parts.
LEMMA PartsAre ==
  ASSUME NEW r, NEW w, NEW h, NEW n, r.own[h] = n, n = Nothing => w[h] = {},
         n # Nothing => \A s \in Sides : w[h] = {n} \cup w[Child(n, s)] \cup w[Child(n, sibling(s))],
         n # Nothing => \A s \in Sides : \A x \in w[Child(n, s)] : Before(s, x, n)
  PROVE  Parts(r, w, h)
BY DEF Parts

\* What is below each handle is what is below its node's children, and the node.
LEMMA GrownParts ==
  ASSUME NEW m, NEW u, NEW P, NEW st, NEW v, Vacant(m, u, P, st, v),
         NEW r, HasAdded(r, m, st, v), NEW h \in Handles
  PROVE  Parts(r, Grown(u, P \cup {st.current}, v), h)
<1> DEFINE cur == st.current
           Q == P \cup {cur}
           w == Grown(u, Q, v)
           n == m.own[h]
<1> SUFFICES Parts(r, w, h)
  OBVIOUS
<1>1. Tree(m, u) /\ v \in SplayValues /\ WayTo(P, st, m, u, v) /\ m.own[cur] = Nothing
  BY DEF Vacant
<1>2. /\ v # Nothing /\ cur \in Handles /\ cur \notin P /\ P \in SUBSET Handles /\ u[cur] = {}
      /\ \A s \in Sides : Child(v, s) \in Handles /\ u[Child(v, s)] = {} /\ Child(v, s) \notin Q
  <2>1. P \in SUBSET Handles
    BY <1>1 DEF WayTo
  <2> QED  BY <2>1, VacantIs
<1>3. \A z \in Handles : w[z] = IF z \in Q THEN u[z] \cup {v} ELSE u[z]
  BY DEF Grown
<1>4. \A z \in Handles : r.own[z] = IF z = cur THEN v ELSE m.own[z]
  BY DEF HasAdded
<1> HIDE DEF cur, w
<1>5. \A s \in Sides : sibling(s) \in Sides /\ sibling(s) # s /\ sibling(sibling(s)) = s
  BY SidesDiffer
<1>6. CASE h = cur
  <2>1. \A s \in Sides : w[Child(v, s)] = {}
    BY <1>2, <1>3
  <2>2. w[h] = {v} /\ r.own[h] = v
    BY <1>2, <1>3, <1>4, <1>6
  <2>3. \A s \in Sides : w[h] = {v} \cup w[Child(v, s)] \cup w[Child(v, sibling(s))]
    BY <1>5, <2>1, <2>2
  <2>4. \A s \in Sides : \A x \in w[Child(v, s)] : Before(s, x, v)
    BY <2>1
  <2> QED  BY ONLY <1>2, <2>2, <2>3, <2>4, PartsAre
<1>7. CASE h # cur /\ n = Nothing
  <2>1. h \notin Q
    BY <1>1, <1>7 DEF WayTo
  <2>2. u[h] = {}
    BY <1>1, <1>7, TreeIs
  <2>3. w[h] = {} /\ r.own[h] = Nothing
    BY <1>3, <1>4, <1>7, <2>1, <2>2
  <2> QED  BY ONLY <2>3, PartsAre
<1>8. CASE h # cur /\ n # Nothing /\ h \in P
  <2>1. n # v /\ n \in SplayValues /\ \A s \in Sides : Child(n, s) \in Q <=> Before(s, v, n)
    BY <1>1, <1>8, TreeIs DEF WayTo, cur
  <2>2. \A s \in Sides : Child(n, s) \in Handles
    BY <2>1, HandlesDiffer
  <2>3. \A s \in Sides : /\ u[h] = {n} \cup u[Child(n, s)] \cup u[Child(n, sibling(s))]
                         /\ \A x \in u[Child(n, s)] : Before(s, x, n)
    BY <1>1, <1>8 DEF Tree, Parts
  <2>4. \A s \in Sides : \A x \in w[Child(n, s)] : Before(s, x, n)
    BY <1>3, <2>1, <2>2, <2>3
  <2>5. \A s \in Sides : Child(n, s) \in Q \/ Child(n, sibling(s)) \in Q
    <3>1. v \in Int /\ n \in Int /\ v # n
      BY <1>1, <2>1, NothingIs
    <3>2. \A s \in Sides : Before(s, v, n) \/ Before(sibling(s), v, n)
      <4> HIDE DEF n
      <4> QED  BY ONLY <3>1 DEF Before, Sides, sibling
    <3> QED  BY <1>5, <2>1, <3>2
  <2>6. ASSUME NEW s \in Sides
        PROVE  w[h] = {n} \cup w[Child(n, s)] \cup w[Child(n, sibling(s))]
    <3>1. Child(n, s) \in Handles /\ Child(n, sibling(s)) \in Handles /\ h \in Q
      BY <1>5, <1>8, <2>2
    <3>2. w[h] = u[h] \cup {v}
      BY <1>3, <3>1
    <3>3. /\ w[Child(n, s)] = IF Child(n, s) \in Q THEN u[Child(n, s)] \cup {v} ELSE u[Child(n, s)]
          /\ w[Child(n, sibling(s))] = IF Child(n, sibling(s)) \in Q THEN u[Child(n, sibling(s))] \cup {v}
                                       ELSE u[Child(n, sibling(s))]
      BY <1>3, <3>1
    <3>4. u[h] = {n} \cup u[Child(n, s)] \cup u[Child(n, sibling(s))]
      BY <2>3
    <3>5. Child(n, s) \in Q \/ Child(n, sibling(s)) \in Q
      BY <2>5
    <3> QED  BY ONLY <3>2, <3>3, <3>4, <3>5
  <2>7. r.own[h] = n
    BY <1>4, <1>8
  <2> HIDE DEF n
  <2> QED  BY ONLY <1>8, <2>4, <2>6, <2>7, PartsAre
<1>9. CASE h # cur /\ n # Nothing /\ h \notin P
  <2>1. n \in SplayValues
    BY <1>1, <1>9, TreeIs
  <2>2. ASSUME NEW s \in Sides PROVE Child(n, s) \notin Q /\ Child(n, s) \in Handles
    <3>1. Child(n, s) \in Handles /\ Child(n, s) # RootHandle
      BY <2>1, HandlesDiffer
    <3>2. ASSUME Child(n, s) \in Q PROVE FALSE
      <4>1. PICK y \in P, d \in Sides : Child(n, s) = Child(m.own[y], d)
        BY <1>1, <3>1, <3>2 DEF WayTo, cur
      <4>2. y \in Handles /\ m.own[y] # Nothing
        BY <1>1, <1>2 DEF WayTo
      <4>3. m.own[y] \in SplayValues
        BY <1>1, <4>2, TreeIs
      <4>4. /\ m.own[y] \in SplayValues /\ n \in SplayValues /\ s \in Sides /\ d \in Sides
            /\ Child(n, s) = Child(m.own[y], d)
        BY <2>1, <4>1, <4>3
      <4>5. m.own[y] = n
        BY ONLY <4>4, HandlesDiffer
      <4>6. y = h
        BY <1>1, <4>2, <4>5 DEF Tree, OwnedOnce
      <4> QED  BY <1>9, <4>6
    <3> QED  BY <3>1, <3>2
  <2>3. Parts(m, u, h)
    BY <1>1 DEF Tree
  <2>4. w[h] = u[h] /\ r.own[h] = n /\ \A s \in Sides : w[Child(n, s)] = u[Child(n, s)]
    <3>1. h \notin Q
      BY <1>9
    <3> HIDE DEF Q, n
    <3>2. r.own[h] = n
      BY <1>4, <1>9 DEF n
    <3> QED  BY <1>3, <2>2, <3>1, <3>2
  <2> HIDE DEF n
  <2>5. /\ \A s \in Sides : u[h] = {n} \cup u[Child(n, s)] \cup u[Child(n, sibling(s))]
        /\ \A s \in Sides : \A x \in u[Child(n, s)] : Before(s, x, n)
    BY <1>9, <2>3 DEF Parts, n
  <2>6. \A s \in Sides : w[h] = {n} \cup w[Child(n, s)] \cup w[Child(n, sibling(s))]
    BY ONLY <1>5, <2>4, <2>5
  <2>7. \A s \in Sides : \A x \in w[Child(n, s)] : Before(s, x, n)
    BY ONLY <2>4, <2>5
  <2> QED  BY ONLY <1>9, <2>4, <2>6, <2>7, PartsAre
<1> HIDE DEF n, Q
<1> QED
  BY <1>6, <1>7, <1>8, <1>9

\* The new node is in a search tree, below the handles on the way to it.
LEMMA GrownTree ==
  ASSUME NEW m, NEW u, NEW P, NEW st, NEW v, Vacant(m, u, P, st, v), NEW r, HasAdded(r, m, st, v)
  PROVE  Tree(r, Grown(u, P \cup {st.current}, v))
<1> DEFINE cur == st.current
           Q == P \cup {cur}
           w == Grown(u, Q, v)
<1> SUFFICES Tree(r, w)
  OBVIOUS
<1>1. Tree(m, u) /\ v \in SplayValues /\ WayTo(P, st, m, u, v) /\ m.own[cur] = Nothing /\ m \in Heaps
  BY DEF Vacant, Tree
<1>2. /\ v # Nothing /\ cur \in Handles \ {CHandle, GCHandle} /\ cur \notin P /\ P \in SUBSET Handles
      /\ v \notin u[RootHandle] /\ RootHandle \in Q /\ RootHandle \in Handles /\ Q \in SUBSET Handles
      /\ \A z \in Handles : m.own[z] # v
  <2>1. P \in SUBSET Handles /\ RootHandle \in Q
    BY <1>1 DEF WayTo
  <2>2. v # Nothing /\ cur \in Handles \ {CHandle, GCHandle} /\ cur \notin P /\ v \notin u[RootHandle]
        /\ \A z \in Handles : m.own[z] # v
    BY VacantIs
  <2> QED  BY <2>1, <2>2, HandlesDiffer
<1>3. \A s \in Sides : Child(v, s) \in Handles /\ m.own[Child(v, s)] = Nothing /\ Child(v, s) # cur
  BY VacantIs
<1>4. \A z \in Handles : w[z] = IF z \in Q THEN u[z] \cup {v} ELSE u[z]
  BY DEF Grown
<1>5. w \in Maps(Handles, SUBSET SplayValues)
  <2>1. \A z \in Handles : u[z] \subseteq SplayValues
    BY <1>1, TreeIs
  <2> QED  BY <1>1, <2>1 DEF Grown, Maps
<1>6. \A h \in Handles : Parts(r, w, h)
  BY GrownParts
<1> HIDE DEF cur, w, Q
<1>7. \A z \in Handles : r.own[z] = IF z = cur THEN v ELSE m.own[z]
  BY DEF HasAdded, cur
<1>8. \A x \in SplayValues : r.parent[x] = IF x = v THEN st.parent ELSE m.parent[x]
  BY DEF HasAdded
<1>9. OwnedOnce(r)
  BY <1>1, <1>2, <1>7 DEF OwnedOnce, Tree
<1>10. w[RootHandle] = u[RootHandle] \cup {v}
  BY <1>2, <1>4
<1>11. \A y \in P : y \in Handles /\ m.own[y] \in SplayValues
  <2> SUFFICES ASSUME NEW y \in P PROVE y \in Handles /\ m.own[y] \in SplayValues
    OBVIOUS
  <2>1. y \in Handles /\ m.own[y] # Nothing
    BY <1>1, <1>2 DEF WayTo
  <2> QED  BY <1>1, <2>1, TreeIs
<1>12. Rooted(r, w)
  <2>1. ASSUME NEW h \in Handles, r.own[h] # Nothing PROVE r.own[h] \in w[RootHandle]
    BY <1>1, <1>7, <1>10, <2>1 DEF Tree, Rooted
  <2>2. ASSUME NEW x \in w[RootHandle] PROVE \E h \in Handles : r.own[h] = x
    <3>1. CASE x = v
      BY <1>2, <1>7, <3>1
    <3>2. CASE x # v
      <4>1. PICK h \in Handles : m.own[h] = x
        BY <1>1, <1>10, <2>2, <3>2 DEF Tree, Rooted
      <4>2. x \in u[RootHandle] /\ x # Nothing
        <5>1. u[RootHandle] \subseteq SplayValues
          BY <1>1, <1>2, TreeIs
        <5> QED  BY <1>10, <2>2, <3>2, <5>1, NothingIs
      <4> QED  BY <1>1, <1>7, <4>1, <4>2
    <3> QED  BY <3>1, <3>2
  <2>3. ASSUME NEW x \in SplayValues, NEW s \in Sides, r.own[Child(x, s)] # Nothing
        PROVE  x \in w[RootHandle]
    <3>0. Child(x, s) \in Handles /\ Child(x, s) # RootHandle
      BY HandlesDiffer
    <3>1. CASE Child(x, s) = cur
      <4>1. PICK y \in P, d \in Sides : cur = Child(m.own[y], d)
        BY <1>1, <3>0, <3>1 DEF WayTo, cur
      <4>2. /\ m.own[y] \in SplayValues /\ y \in Handles /\ s \in Sides /\ d \in Sides
            /\ x \in SplayValues /\ Child(x, s) = Child(m.own[y], d)
        BY <1>11, <3>1, <4>1
      <4>3. x = m.own[y]
        BY ONLY <4>2, HandlesDiffer
      <4>4. m.own[y] \in u[RootHandle]
        BY <1>1, <4>2, NothingIs DEF Tree, Rooted
      <4> QED  BY <1>10, <4>3, <4>4
    <3>2. CASE Child(x, s) # cur
      <4>1. m.own[Child(x, s)] # Nothing
        BY <1>7, <2>3, <3>0, <3>2
      <4>2. x \in u[RootHandle]
        BY <1>1, <4>1 DEF Tree, Rooted
      <4> QED  BY <1>10, <4>2
    <3> QED  BY <3>1, <3>2
  <2> QED  BY <2>1, <2>2, <2>3 DEF Rooted
<1>13. PointsUp(r)
  <2>1. ASSUME r.own[RootHandle] # Nothing PROVE r.parent[r.own[RootHandle]] = Null
    <3>1. CASE cur = RootHandle
      BY <1>1, <1>2, <1>7, <1>8, <3>1 DEF WayTo, cur
    <3>2. CASE cur # RootHandle
      <4>1. r.own[RootHandle] = m.own[RootHandle] /\ m.own[RootHandle] # Nothing
        BY <1>2, <1>7, <2>1, <3>2
      <4>2. m.own[RootHandle] \in SplayValues /\ m.own[RootHandle] # v
        BY <1>1, <1>2, <4>1, TreeIs
      <4> QED  BY <1>1, <1>8, <4>1, <4>2 DEF Tree, PointsUp
    <3> QED  BY <3>1, <3>2
  <2>2. ASSUME NEW h \in Handles, NEW s \in Sides, r.own[h] # Nothing, r.own[Child(r.own[h], s)] # Nothing
        PROVE  r.parent[r.own[Child(r.own[h], s)]] = h
    <3>1. h # cur
      BY <1>3, <1>7, <2>2
    <3> DEFINE n == m.own[h]
               c == Child(n, s)
    <3>2. r.own[h] = n /\ n # Nothing /\ n \in SplayValues /\ c \in Handles /\ c # RootHandle
      <4>1. r.own[h] = n /\ n # Nothing
        BY <1>7, <2>2, <3>1
      <4>2. n \in SplayValues
        BY <1>1, <4>1, TreeIs
      <4> QED  BY <4>1, <4>2, HandlesDiffer
    <3> HIDE DEF c, n
    <3>3. CASE c = cur
      <4>1. st.parent \in P /\ \E d \in Sides : cur = Child(m.own[st.parent], d)
        BY <1>1, <3>2, <3>3 DEF WayTo, cur
      <4>2. PICK d \in Sides : cur = Child(m.own[st.parent], d)
        BY <4>1
      <4>3. /\ m.own[st.parent] \in SplayValues /\ st.parent \in Handles /\ s \in Sides /\ d \in Sides
            /\ n \in SplayValues /\ Child(n, s) = Child(m.own[st.parent], d)
        BY <1>11, <3>2, <3>3, <4>1, <4>2 DEF c
      <4>4. n = m.own[st.parent]
        BY ONLY <4>3, HandlesDiffer
      <4>5. st.parent = h
        BY <1>1, <3>2, <4>3, <4>4 DEF Tree, OwnedOnce, n
      <4>6. r.own[c] = v
        BY <1>2, <1>7, <3>3
      <4> QED  BY <1>1, <1>8, <3>2, <4>5, <4>6 DEF c
    <3>4. CASE c # cur
      <4>1. r.own[c] = m.own[c] /\ m.own[c] # Nothing
        BY <1>7, <2>2, <3>2, <3>4 DEF c
      <4>2. m.own[c] \in SplayValues /\ m.own[c] # v
        BY <1>1, <1>2, <3>2, <4>1, TreeIs
      <4>3. m.parent[m.own[c]] = h
        BY <1>1, <3>2, <4>1 DEF Tree, PointsUp, c, n
      <4> QED  BY <1>8, <3>2, <4>1, <4>2, <4>3 DEF c
    <3> QED  BY <3>3, <3>4
  <2> QED  BY <2>1, <2>2 DEF PointsUp
<1>14. r.own[CHandle] = Nothing /\ r.own[GCHandle] = Nothing /\ r \in Heaps
  <2>1. m.own[CHandle] = Nothing /\ m.own[GCHandle] = Nothing
    BY <1>1 DEF Tree
  <2> QED  BY <1>2, <1>7, <2>1, HandlesDiffer DEF HasAdded
<1> QED
  BY <1>5, <1>6, <1>9, <1>12, <1>13, <1>14 DEF Tree

\* Only the sizes of the nodes on the way to the new node are wrong.
LEMMA GrownClimbs ==
  ASSUME NEW m, NEW u, NEW P, NEW st, NEW v, Vacant(m, u, P, st, v), Sized(m, u, {}),
         NEW r, HasAdded(r, m, st, v)
  PROVE  \E w, W : Climbing([heap |-> r, current |-> st.current], Null, w, W)
<1> DEFINE cur == st.current
           Q == P \cup {cur}
           w == Grown(u, Q, v)
           W == {m.own[y] : y \in P}
<1>1. Tree(m, u) /\ v \in SplayValues /\ WayTo(P, st, m, u, v) /\ m.own[cur] = Nothing
  BY DEF Vacant
<1>2. /\ v # Nothing /\ cur \in Handles /\ cur \notin P /\ P \in SUBSET Handles /\ u[cur] = {}
      /\ v \notin u[RootHandle] /\ RootHandle \in Q /\ RootHandle \in Handles
      /\ \A z \in Handles : m.own[z] # v
  <2>1. P \in SUBSET Handles /\ RootHandle \in Q
    BY <1>1 DEF WayTo
  <2>2. v # Nothing /\ cur \in Handles \ {CHandle, GCHandle} /\ cur \notin P /\ v \notin u[RootHandle]
        /\ u[cur] = {} /\ \A z \in Handles : m.own[z] # v
    BY VacantIs
  <2> QED  BY <2>1, <2>2, HandlesDiffer
<1>3. \A z \in Handles : w[z] = IF z \in Q THEN u[z] \cup {v} ELSE u[z]
  BY DEF Grown
<1>4. Tree(r, w)
  BY GrownTree
<1>5. \A y \in P : m.own[y] # Nothing
  BY <1>1 DEF WayTo
<1> HIDE DEF cur, w
<1>6. \A z \in Handles : r.own[z] = IF z = cur THEN v ELSE m.own[z]
  BY DEF HasAdded, cur
<1>7. \A x \in SplayValues : r.size[x] = IF x = v THEN 1 ELSE m.size[x]
  BY DEF HasAdded
<1>8. Sized(r, w, W)
  <2>1. ASSUME NEW h \in Handles, r.own[h] # Nothing, r.own[h] \notin W
        PROVE  r.size[r.own[h]] = Cardinality(w[h])
    <3>1. CASE h = cur
      <4>1. w[h] = {v} /\ r.own[h] = v
        BY <1>2, <1>3, <1>6, <3>1
      <4>2. Cardinality({v}) = 1
        BY FS_Singleton
      <4> QED  BY <1>1, <1>7, <4>1, <4>2
    <3>2. CASE h # cur
      <4>1. r.own[h] = m.own[h] /\ h \notin P
        BY <1>6, <2>1, <3>2
      <4>2. w[h] = u[h]
        BY <1>3, <3>2, <4>1
      <4>3. m.own[h] \in SplayValues /\ m.own[h] # v
        BY <1>1, <1>2, <2>1, <4>1, TreeIs
      <4>4. m.size[m.own[h]] = Cardinality(u[h])
        BY <2>1, <4>1 DEF Sized
      <4> QED  BY <1>7, <4>1, <4>2, <4>3, <4>4
    <3> QED  BY <3>1, <3>2
  <2>2. ASSUME NEW x \in SplayValues, x \notin w[RootHandle] PROVE r.size[x] = 0
    <3>1. x # v /\ x \notin u[RootHandle]
      BY <1>2, <1>3, <2>2
    <3> QED  BY <1>7, <3>1 DEF Sized
  <2> HIDE DEF W
  <2> QED  BY <2>1, <2>2 DEF Sized
<1>9. Stale(r, w, cur, W)
  <2> SUFFICES ASSUME NEW k \in Handles, r.own[k] \in W
               PROVE  r.own[k] # Nothing /\ r.own[cur] \in w[k] /\ k # cur
    BY DEF Stale
  <2>1. PICK y \in P : r.own[k] = m.own[y]
    OBVIOUS
  <2>2. y \in Handles /\ m.own[y] # Nothing /\ m.own[y] # v
    BY <1>2, <1>5
  <2>3. k # cur /\ m.own[k] = m.own[y]
    BY <1>6, <2>1, <2>2
  <2>4. k = y
    BY <1>1, <2>2, <2>3 DEF Tree, OwnedOnce
  <2> QED  BY <1>2, <1>3, <1>6, <2>1, <2>2, <2>3, <2>4
<1> HIDE DEF W
<1>10. r.own[cur] # Nothing
  BY <1>2, <1>6
<1>11. Null # RootHandle
  BY HandlesDiffer
<1>12. Climbing([heap |-> r, current |-> cur], Null, w, W)
  BY <1>2, <1>4, <1>8, <1>9, <1>10, <1>11 DEF Climbing, Targets
<1> QED
  BY <1>12 DEF cur

-----------------------------------------------------------------------------
(* Splay trees: the nodes in order                                         *)

\* A list of the values in S, ascending.
ListsAll(s, S) ==
    /\ s \in Seq(SplayValues) /\ Len(s) = Cardinality(S)
    /\ \A i \in 1..Len(s) : s[i] \in S
    /\ \A x \in S : \E i \in 1..Len(s) : s[i] = x
    /\ \A i, j \in 1..Len(s) : i < j => s[i] < s[j]

Around(L, n, R) == L \o <<n>> \o R

\* The sequence of what is below a handle is that of its parts.
LEMMA AroundIs ==
  ASSUME NEW L \in Seq(SplayValues), NEW n \in SplayValues, NEW R \in Seq(SplayValues)
  PROVE  /\ Around(L, n, R) \in Seq(SplayValues) /\ Len(Around(L, n, R)) = Len(L) + 1 + Len(R)
         /\ \A i \in 1..Len(L) : Around(L, n, R)[i] = L[i]
         /\ Around(L, n, R)[Len(L) + 1] = n
         /\ \A i \in 1..Len(R) : Around(L, n, R)[Len(L) + 1 + i] = R[i]
<1>1. L \o <<n>> \in Seq(SplayValues) /\ Len(L \o <<n>>) = Len(L) + 1
  OBVIOUS
<1>2. \A i \in 1..Len(L) : (L \o <<n>>)[i] = L[i]
  OBVIOUS
<1>3. (L \o <<n>>)[Len(L) + 1] = n
  OBVIOUS
<1> DEFINE M == L \o <<n>>
<1> HIDE DEF M
<1>4. M \in Seq(SplayValues) /\ Len(M) = Len(L) + 1
  BY <1>1 DEF M
<1>5. M \o R \in Seq(SplayValues) /\ Len(M \o R) = Len(M) + Len(R)
  BY <1>4
<1>6. \A i \in 1..Len(M) : (M \o R)[i] = M[i]
  BY <1>4
<1>7. \A i \in 1..Len(R) : (M \o R)[Len(M) + i] = R[i]
  BY <1>4
<1>8. Around(L, n, R) = M \o R
  BY DEF Around, M
<1>9. Len(L) \in Nat /\ Len(R) \in Nat
  OBVIOUS
<1> QED
  BY <1>2, <1>3, <1>4, <1>5, <1>6, <1>7, <1>8, <1>9 DEF M

\* The listing of a tree is that of its parts, with the node between them.
LEMMA AroundLists ==
  ASSUME NEW A \in SUBSET SplayValues, NEW B \in SUBSET SplayValues, NEW n \in SplayValues,
         NEW S, S = {n} \cup A \cup B, Cardinality(S) = 1 + Cardinality(A) + Cardinality(B),
         \A x \in A : x < n, \A x \in B : n < x,
         NEW L, ListsAll(L, A), NEW R, ListsAll(R, B)
  PROVE  ListsAll(Around(L, n, R), S)
<1> DEFINE s == Around(L, n, R)
           l == Len(L)
           r == Len(R)
<1>1. /\ L \in Seq(SplayValues) /\ R \in Seq(SplayValues) /\ l \in Nat /\ r \in Nat
      /\ l = Cardinality(A) /\ r = Cardinality(B)
  BY DEF ListsAll
<1>2. /\ s \in Seq(SplayValues) /\ Len(s) = l + 1 + r
      /\ \A i \in 1..l : s[i] = L[i]
      /\ s[l + 1] = n
      /\ \A i \in 1..r : s[l + 1 + i] = R[i]
  BY <1>1, AroundIs
<1>3. /\ \A i \in 1..l : L[i] \in A
      /\ \A x \in A : \E i \in 1..l : L[i] = x
      /\ \A i, j \in 1..l : i < j => L[i] < L[j]
  BY DEF ListsAll
<1>4. /\ \A i \in 1..r : R[i] \in B
      /\ \A x \in B : \E i \in 1..r : R[i] = x
      /\ \A i, j \in 1..r : i < j => R[i] < R[j]
  BY DEF ListsAll
<1> HIDE DEF s, l, r
<1>5. \A i \in 1..(l + 1 + r) :
        \/ i \in 1..l /\ s[i] = L[i] /\ L[i] \in A
        \/ i = l + 1 /\ s[i] = n
        \/ i - l - 1 \in 1..r /\ s[i] = R[i - l - 1] /\ R[i - l - 1] \in B
  <2> SUFFICES ASSUME NEW i \in 1..(l + 1 + r), i \notin 1..l, i # l + 1
               PROVE  i - l - 1 \in 1..r /\ s[i] = R[i - l - 1] /\ R[i - l - 1] \in B
    BY <1>2, <1>3
  <2>1. i - l - 1 \in 1..r /\ l + 1 + (i - l - 1) = i
    BY <1>1
  <2> QED  BY <1>2, <1>4, <2>1
<1>6. A \subseteq Int /\ B \subseteq Int /\ n \in Int
  BY NothingIs
<1>7. \A i \in 1..(l + 1 + r) : s[i] \in S
  BY <1>5
<1>8. \A x \in S : \E i \in 1..(l + 1 + r) : s[i] = x
  <2> SUFFICES ASSUME NEW x \in S PROVE \E i \in 1..(l + 1 + r) : s[i] = x
    OBVIOUS
  <2>1. CASE x = n
    <3>1. l + 1 \in 1..(l + 1 + r)
      BY <1>1
    <3> QED  BY <1>2, <2>1, <3>1
  <2>2. CASE x \in A
    <3>1. PICK i \in 1..l : L[i] = x
      BY <1>3, <2>2
    <3>2. i \in 1..(l + 1 + r)
      BY <1>1
    <3> QED  BY <1>2, <3>1, <3>2
  <2>3. CASE x \in B
    <3>1. PICK i \in 1..r : R[i] = x
      BY <1>4, <2>3
    <3>2. l + 1 + i \in 1..(l + 1 + r)
      BY <1>1
    <3> QED  BY <1>2, <3>1, <3>2
  <2> QED  BY <2>1, <2>2, <2>3
<1>9. ASSUME NEW i \in 1..(l + 1 + r), NEW j \in 1..(l + 1 + r), i < j
      PROVE  s[i] < s[j]
  <2>1. \A x \in A, y \in B : x < n /\ n < y /\ x < y
    BY <1>6
  <2>2. CASE i \in 1..l /\ j \in 1..l
    BY <1>2, <1>3, <1>9, <2>2
  <2>3. CASE i \notin 1..l /\ j \in 1..l
    <3>1. i \in Int /\ 1 <= i /\ j \in Int /\ j <= l /\ i < j /\ l \in Int
      BY <1>1, <1>9, <2>3
    <3>2. i \in 1..l
      BY ONLY <3>1
    <3> QED  BY <2>3, <3>2
  <2>4. CASE i \in 1..l /\ j \notin 1..l
    <3>1. s[i] = L[i] /\ L[i] \in A
      BY <1>2, <1>3, <2>4
    <3>2. s[j] = n \/ (j - l - 1 \in 1..r /\ s[j] = R[j - l - 1] /\ R[j - l - 1] \in B)
      BY <1>5, <2>4
    <3> QED  BY <1>6, <2>1, <3>1, <3>2
  <2>5. CASE i = l + 1 /\ j \notin 1..l
    <3>1. j # l + 1
      BY <1>1, <1>9, <2>5
    <3> QED  BY <1>2, <1>5, <2>1, <2>5, <3>1
  <2>6. CASE i \notin 1..l /\ i # l + 1 /\ j \notin 1..l
    <3>1. j # l + 1
      BY <1>1, <1>9, <2>6
    <3>2. i - l - 1 \in 1..r /\ s[i] = R[i - l - 1]
      BY <1>5, <2>6
    <3>3. j - l - 1 \in 1..r /\ s[j] = R[j - l - 1]
      BY <1>5, <2>6, <3>1
    <3>4. i - l - 1 < j - l - 1
      BY <1>1, <1>9
    <3> QED  BY <1>4, <3>2, <3>3, <3>4
  <2> QED  BY <2>2, <2>3, <2>4, <2>5, <2>6
<1>10. Len(s) = Cardinality(S)
  BY <1>1, <1>2
<1>11. ListsAll(s, S)
  BY <1>2, <1>7, <1>8, <1>9, <1>10 DEF ListsAll
<1> QED
  BY <1>11 DEF s

-----------------------------------------------------------------------------
\* One level more of the lists of the nodes below each handle.
Longer(f, m) ==
    [h \in Handles |-> IF m.own[h] = Nothing THEN <<>>
                       ELSE Around(f[Child(m.own[h], "left")], m.own[h], f[Child(m.own[h], "right")])]

Lists == Maps(Handles, Seq(SplayValues))

\* The lists of what is below handles with no more than k values below are complete.
ListedTo(f, k, u) == f \in Lists /\ \A h \in Handles : Cardinality(u[h]) <= k => ListsAll(f[h], u[h])

\* The listing of nothing is empty.
LEMMA EmptyList ==
  ASSUME NEW m, NEW u, Tree(m, u), NEW h \in Handles, m.own[h] = Nothing
  PROVE  ListsAll(<<>>, u[h])
<1>1. u[h] = {}
  BY TreeIs
<1>2. Cardinality(u[h]) = 0
  BY BelowIsCounted
<1> QED
  BY <1>1, <1>2 DEF ListsAll

\* A listing starts with what has no level below it.
LEMMA ListsStart ==
  ASSUME NEW m, NEW u, Tree(m, u)
  PROVE  ListedTo([h \in Handles |-> <<>>], 0, u)
<1> DEFINE f == [h \in Handles |-> <<>>]
<1>1. f \in Lists
  BY DEF Lists, Maps
<1>2. ASSUME NEW h \in Handles, Cardinality(u[h]) <= 0 PROVE ListsAll(f[h], u[h])
  <2>1. Cardinality(u[h]) \in Nat /\ (Cardinality(u[h]) = 0 <=> m.own[h] = Nothing)
    BY BelowIsCounted
  <2>2. m.own[h] = Nothing
    BY <1>2, <2>1
  <2> QED  BY <2>2, EmptyList
<1> QED
  BY <1>1, <1>2 DEF ListedTo

\* A listing of one more level.
LEMMA ListsGrow ==
  ASSUME NEW m, NEW u, Tree(m, u), NEW k \in Nat, NEW f, ListedTo(f, k, u)
  PROVE  ListedTo(Longer(f, m), k + 1, u)
<1> DEFINE g == Longer(f, m)
<1>1. "left" \in Sides /\ "right" \in Sides /\ sibling("left") = "right"
  BY DEF Sides, sibling
<1>2. \A h \in Handles : f[h] \in Seq(SplayValues)
  BY DEF ListedTo, Lists, Maps
<1>3. ASSUME NEW h \in Handles, m.own[h] # Nothing
      PROVE  /\ m.own[h] \in SplayValues
             /\ Child(m.own[h], "left") \in Handles /\ Child(m.own[h], "right") \in Handles
  BY <1>1, <1>3, TreeIs
<1>4. \A h \in Handles : g[h] = IF m.own[h] = Nothing THEN <<>>
        ELSE Around(f[Child(m.own[h], "left")], m.own[h], f[Child(m.own[h], "right")])
  BY DEF Longer
<1>10. g = [h \in Handles |-> g[h]]
  BY DEF Longer
<1> HIDE DEF g
<1>5. g \in Lists
  <2>1. ASSUME NEW h \in Handles PROVE g[h] \in Seq(SplayValues)
    <3>1. CASE m.own[h] = Nothing
      <4>1. g[h] = <<>> /\ <<>> \in Seq(SplayValues)
        BY <1>4, <3>1
      <4> QED  BY <4>1
    <3>2. CASE m.own[h] # Nothing
      <4>1. f[Child(m.own[h], "left")] \in Seq(SplayValues) /\ f[Child(m.own[h], "right")] \in Seq(SplayValues)
        BY <1>2, <1>3, <3>2
      <4>2. g[h] = Around(f[Child(m.own[h], "left")], m.own[h], f[Child(m.own[h], "right")])
        BY <1>4, <3>2
      <4>3. m.own[h] \in SplayValues
        BY <1>3, <3>2
      <4>4. Around(f[Child(m.own[h], "left")], m.own[h], f[Child(m.own[h], "right")]) \in Seq(SplayValues)
        BY ONLY <4>1, <4>3, AroundIs
      <4> QED  BY <4>2, <4>4
    <3> QED  BY <3>1, <3>2
  <2> QED  BY <1>10, <2>1 DEF Lists, Maps
<1>6. ASSUME NEW h \in Handles, Cardinality(u[h]) <= k + 1 PROVE ListsAll(g[h], u[h])
  <2>1. CASE m.own[h] = Nothing
    BY <1>4, <2>1, EmptyList
  <2>2. CASE m.own[h] # Nothing
    <3> DEFINE n == m.own[h]
               A == u[Child(n, "left")]
               B == u[Child(n, "right")]
    <3>1. n \in SplayValues /\ Child(n, "left") \in Handles /\ Child(n, "right") \in Handles
      BY <1>3, <2>2
    <3>2. /\ Cardinality(A) \in Nat /\ Cardinality(B) \in Nat
          /\ Cardinality(u[h]) = 1 + Cardinality(A) + Cardinality(B)
      <4>1. LET L == u[Child(m.own[h], "left")]
                R == u[Child(m.own[h], sibling("left"))]
            IN  /\ Cardinality(L) \in Nat /\ Cardinality(R) \in Nat
                /\ Cardinality(u[h]) = 1 + Cardinality(L) + Cardinality(R)
        BY <1>1, <2>2, CountIs
      <4> QED  BY <1>1, <4>1
    <3>3. Cardinality(A) <= k /\ Cardinality(B) <= k
      BY <1>6, <3>2
    <3>4. ListsAll(f[Child(n, "left")], A) /\ ListsAll(f[Child(n, "right")], B)
      BY <3>1, <3>3 DEF ListedTo
    <3>5. A \in SUBSET SplayValues /\ B \in SUBSET SplayValues
      BY <3>1, TreeIs
    <3>6. /\ u[h] = {n} \cup A \cup B
          /\ \A x \in A : Before("left", x, n)
          /\ \A x \in B : Before("right", x, n)
      <4>1. Parts(m, u, h)
        BY DEF Tree
      <4>2. /\ \A s \in Sides : u[h] = {n} \cup u[Child(n, s)] \cup u[Child(n, sibling(s))]
            /\ \A s \in Sides : \A x \in u[Child(n, s)] : Before(s, x, n)
        BY <2>2, <4>1 DEF Parts
      <4>3. u[h] = {n} \cup u[Child(n, "left")] \cup u[Child(n, sibling("left"))]
        BY <1>1, <4>2
      <4> HIDE DEF n
      <4> QED  BY <1>1, <4>2, <4>3
    <3>7. (\A x \in A : x < n) /\ (\A x \in B : n < x)
      BY <3>6 DEF Before
    <3>8. g[h] = Around(f[Child(n, "left")], n, f[Child(n, "right")])
      BY <1>4, <2>2
    <3> HIDE DEF n, A, B
    <3>9. ListsAll(Around(f[Child(n, "left")], n, f[Child(n, "right")]), u[h])
      BY ONLY <3>1, <3>2, <3>4, <3>5, <3>6, <3>7, AroundLists
    <3> QED  BY <3>8, <3>9
  <2> QED  BY <2>1, <2>2
<1> QED
  BY <1>5, <1>6 DEF ListedTo, g

-----------------------------------------------------------------------------
ListRounds(list, m) ==
    list = [k \in 0..Cardinality(SplayValues) |->
              [h \in Handles |->
                 IF k = 0 \/ m.own[h] = Nothing THEN <<>>
                 ELSE list[k - 1][Child(m.own[h], "left")] \o <<m.own[h]>>
                      \o list[k - 1][Child(m.own[h], "right")]]]

\* One round of it.
ListRound(f, m, k) ==
    [h \in Handles |->
       IF k = 0 \/ m.own[h] = Nothing THEN <<>>
       ELSE f[k - 1][Child(m.own[h], "left")] \o <<m.own[h]>> \o f[k - 1][Child(m.own[h], "right")]]

\* What one round of a listing adds.
LEMMA ListRoundIs ==
  ASSUME NEW f, NEW m, NEW k
  PROVE  /\ k = 0 => ListRound(f, m, k) = [h \in Handles |-> <<>>]
         /\ k # 0 => ListRound(f, m, k) = Longer(f[k - 1], m)
BY DEF ListRound, Longer, Around

\* InOrder lists what is below each handle, ascending.
LEMMA InOrderIs ==
  ASSUME NEW m, NEW u, Tree(m, u), NEW z \in Handles
  PROVE  ListsAll(InOrder(m)[z], u[z])
<1> DEFINE N == Cardinality(SplayValues)
           V == Lists
           e == [h \in Handles |-> <<>>]
           H(k) == {x \in V : ListedTo(x, k, u)}
           Ends == [k \in 0..N |-> H(k)]
           round == [y \in (1..N) \X V |-> Longer(y[2], m)]
           t == CHOOSE f : ListRounds(f, m)
<1>1. N \in Nat /\ ListedTo(e, 0, u)
  <2>1. N \in Nat
    BY BelowIsCounted
  <2>2. ListedTo(e, 0, u)
    BY ListsStart
  <2> QED  BY <2>1, <2>2
<1>2. Ends \in Maps(0..N, SUBSET V)
  <2> HIDE DEF V
  <2> QED  BY DEF Maps
<1>3. e \in Ends[0]
  <2>1. 0 \in 0..N
    BY <1>1
  <2>2. e \in V
    BY <1>1 DEF ListedTo
  <2> HIDE DEF V, e
  <2> QED  BY <1>1, <2>1, <2>2
<1>4. ASSUME NEW k \in 1..N, NEW x \in H(k - 1) PROVE Longer(x, m) \in H(k)
  <2>1. Tree(m, u) /\ ListedTo(x, k - 1, u) /\ k - 1 \in Nat /\ (k - 1) + 1 = k
    BY <1>1
  <2>2. ListedTo(Longer(x, m), (k - 1) + 1, u)
    BY ONLY <2>1, ListsGrow
  <2>3. ListedTo(Longer(x, m), k, u)
    BY <2>1, <2>2
  <2>4. Longer(x, m) \in V
    BY <2>3 DEF ListedTo
  <2> QED  BY <2>3, <2>4
<1>5. Leads(N, Ends, round)
  <2> SUFFICES ASSUME NEW k \in 1..N, NEW x \in Ends[k - 1] PROVE round[<<k, x>>] \in Ends[k]
    BY DEF Leads
  <2>1. Ends[k - 1] = H(k - 1) /\ Ends[k] = H(k)
    <3>1. k \in 0..N /\ k - 1 \in 0..N
      BY <1>1
    <3> HIDE DEF H, N
    <3> QED  BY <3>1
  <2>2. x \in V
    BY <2>1
  <2>3. round[<<k, x>>] = Longer(x, m)
    <3> HIDE DEF V, N
    <3> QED  BY <2>2
  <2> HIDE DEF H, Ends, round
  <2> QED  BY <1>4, <2>1, <2>3
<1>6. \E f : IsLoop(f, N, Ends, round, e)
  <2> HIDE DEF Ends, round, V, N, e
  <2> QED  BY ONLY <1>1, <1>2, <1>3, <1>5, LoopExists, SMTT(60)
<1>7. PICK f : /\ \A k \in 0..N : f[k] \in Ends[k]
               /\ f = [k \in 0..N |-> IF k = 0 THEN e ELSE round[<<k, f[k - 1]>>]]
  BY <1>6 DEF IsLoop
<1>8. ListRounds(f, m)
  <2>1. ASSUME NEW k \in 0..N PROVE (IF k = 0 THEN e ELSE round[<<k, f[k - 1]>>]) = ListRound(f, m, k)
    <3>1. CASE k = 0
      <4>1. ListRound(f, m, k) = e
        BY ONLY <3>1, ListRoundIs
      <4> HIDE DEF e
      <4> QED  BY <3>1, <4>1
    <3>2. CASE k # 0
      <4>1. k \in 1..N /\ k - 1 \in 0..N
        BY <1>1, <3>2
      <4> HIDE DEF V, N
      <4>2. f[k - 1] \in V
        BY <1>7, <4>1
      <4>3. round[<<k, f[k - 1]>>] = Longer(f[k - 1], m)
        BY <4>1, <4>2
      <4>4. ListRound(f, m, k) = Longer(f[k - 1], m)
        BY ONLY <3>2, ListRoundIs
      <4> HIDE DEF round, e
      <4> QED  BY <3>2, <4>3, <4>4
    <3> QED  BY <3>1, <3>2
  <2>2. [k \in 0..N |-> IF k = 0 THEN e ELSE round[<<k, f[k - 1]>>]]
          = [k \in 0..N |-> ListRound(f, m, k)]
    <3> HIDE DEF round, N, e
    <3> QED  BY <2>1
  <2>3. f = [k \in 0..N |-> ListRound(f, m, k)]
    <3> HIDE DEF round, N, e
    <3> QED  BY <1>7, <2>2
  <2> QED  BY <2>3, Zenon DEF ListRounds, ListRound
<1>9. t = [k \in 0..N |-> ListRound(t, m, k)]
  <2>1. ListRounds(t, m)
    BY <1>8
  <2> HIDE DEF t
  <2> QED  BY <2>1, Zenon DEF ListRounds, ListRound
<1>10. InOrder(m) = t[N]
  BY Zenon DEF InOrder, ListRounds
<1> HIDE DEF t
<1>11. \A k \in 0..N : t[k] = ListRound(t, m, k)
  <2> HIDE DEF N, e
  <2> QED  BY <1>9, Zenon
<1>12. \A k \in 0..N : t[k] \in Ends[k]
  <2>1. t[0] \in Ends[0]
    <3>1. 0 \in 0..N
      BY <1>1
    <3>2. ListRound(t, m, 0) = e
      BY ONLY ListRoundIs
    <3> HIDE DEF Ends, N, e
    <3> QED  BY <1>3, <1>11, <3>1, <3>2
  <2>2. Keeps(t, N, Ends)
    <3> SUFFICES ASSUME NEW k \in 1..N, t[k - 1] \in Ends[k - 1] PROVE t[k] \in Ends[k]
      BY DEF Keeps
    <3>1. k \in 0..N /\ k - 1 \in 0..N /\ k # 0
      BY <1>1
    <3>2. ListRound(t, m, k) = Longer(t[k - 1], m)
      BY ONLY <3>1, ListRoundIs
    <3> HIDE DEF N, e
    <3>3. t[k] = Longer(t[k - 1], m)
      BY <1>11, <3>1, <3>2
    <3> HIDE DEF H
    <3>4. Ends[k - 1] = H(k - 1) /\ Ends[k] = H(k)
      BY <3>1
    <3> HIDE DEF Ends
    <3> QED  BY <1>4, <3>3, <3>4
  <2> HIDE DEF Ends, N
  <2> QED  BY <1>1, <2>1, <2>2, LoopKeeps
<1>13. ListedTo(t[N], N, u)
  <2>1. N \in 0..N
    BY <1>1
  <2> HIDE DEF N
  <2> QED  BY <1>12, <2>1
<1>14. Cardinality(u[z]) <= N
  BY BelowIsCounted
<1> HIDE DEF N
<1> QED
  BY <1>10, <1>13, <1>14 DEF ListedTo

-----------------------------------------------------------------------------
(* Splay trees: the theorem                                                *)

\* The heap is a search tree with the right sizes.
SoundTree(m) == \E u : Tree(m, u) /\ Sized(m, u, {})

\* An insert leaves a sound tree.
LEMMA InsertIs ==
  ASSUME NEW m, SoundTree(m), NEW v \in SplayValues
  PROVE  SoundTree(insert_value(m, v))
<1>1. PICK u : Tree(m, u) /\ Sized(m, u, {})
  BY DEF SoundTree
<1> DEFINE st == DescendTo(m, v)
           added == [m EXCEPT !.own[st.current] = v, !.parent[v] = st.parent, !.size[v] = 1]
<1>2. (\E P : WayTo(P, st, m, u, v)) /\ m.own[st.current] \in {Nothing, v}
  BY <1>1, DescentIs
<1>3. PICK P : WayTo(P, st, m, u, v)
  BY <1>2
<1>4. insert_value(m, v) = splay(IF m.own[st.current] = v THEN m ELSE added, st.current, Null)
  BY DEF insert_value
<1>5. m \in Heaps /\ st \in Positions /\ st.current \in Handles
  BY <1>1, <1>3 DEF Tree, WayTo, Positions
<1> HIDE DEF st, added
<1>6. \E w, W : Climbing([heap |-> (IF m.own[st.current] = v THEN m ELSE added), current |-> st.current], Null, w, W)
  <2>1. CASE m.own[st.current] = v
    <3>1. v # Nothing /\ Null # RootHandle
      BY NothingIs, HandlesDiffer
    <3>2. Stale(m, u, st.current, {})
      BY DEF Stale
    <3>3. Climbing([heap |-> m, current |-> st.current], Null, u, {})
      BY <1>1, <1>5, <2>1, <3>1, <3>2 DEF Climbing, Targets
    <3> QED  BY <2>1, <3>3
  <2>2. CASE m.own[st.current] # v
    <3>1. Vacant(m, u, P, st, v)
      BY <1>1, <1>2, <1>3, <2>2 DEF Vacant
    <3>2. HasAdded(added, m, st, v)
      BY <1>5, AddIs DEF added
    <3>3. Sized(m, u, {})
      BY <1>1
    <3>4. \E w, W : Climbing([heap |-> added, current |-> st.current], Null, w, W)
      BY ONLY <3>1, <3>2, <3>3, GrownClimbs
    <3> QED  BY <2>2, <3>4
  <2> QED  BY <2>1, <2>2
<1> DEFINE start == IF m.own[st.current] = v THEN m ELSE added
<1> HIDE DEF start
<1>7. \E w, W : Climbing([heap |-> start, current |-> st.current], Null, w, W)
  BY <1>6 DEF start
<1>8. PICK w, W : Climbing([heap |-> start, current |-> st.current], Null, w, W)
  BY <1>7
<1>9. \E q : Tree(splay(start, st.current, Null), q) /\ Sized(splay(start, st.current, Null), q, {})
  BY <1>8, SplayIs
<1> QED
  BY <1>4, <1>9 DEF SoundTree, start

\* A splay leaves a sound tree.
LEMMA SplayCallIs ==
  ASSUME NEW m, SoundTree(m), NEW n \in SplayValues, NEW target \in Targets,
         n \in {m.own[h] : h \in Handles} \ (IF target = RootHandle THEN {m.own[target]} ELSE {})
  PROVE  SoundTree(splay(m, HandleOf(m, n), target))
<1>1. PICK u : Tree(m, u) /\ Sized(m, u, {})
  BY DEF SoundTree
<1> DEFINE h == HandleOf(m, n)
<1>2. h \in Handles /\ m.own[h] = n
  BY DEF HandleOf
<1> HIDE DEF h
<1>3. m.own[h] # Nothing /\ (target = RootHandle => h # RootHandle)
  BY <1>2, NothingIs
<1>4. Stale(m, u, h, {})
  BY DEF Stale
<1>5. Climbing([heap |-> m, current |-> h], target, u, {})
  BY <1>1, <1>2, <1>3, <1>4 DEF Climbing
<1>6. \E q : Tree(splay(m, h, target), q) /\ Sized(splay(m, h, target), q, {})
  <2>1. target = Null \/ {} = {}
    OBVIOUS
  <2> QED  BY ONLY <1>5, <2>1, SplayIs
<1> QED
  BY <1>6 DEF SoundTree, h

\* The heap at the start is sound.
LEMMA EmptyHeapIs ==
  ASSUME SplayInit
  PROVE  SoundTree(heap)
<1> DEFINE u == [h \in Handles |-> {}]
<1>1. /\ heap \in Heaps
      /\ \A h \in Handles : heap.own[h] = Nothing
      /\ \A v \in SplayValues : heap.size[v] = 0
  BY DEF SplayInit, Heaps, Maps, Nodes
<1>2. u \in Maps(Handles, SUBSET SplayValues) /\ \A h \in Handles : u[h] = {}
  BY DEF Maps
<1> HIDE DEF u
<1>3. \A h \in Handles : Parts(heap, u, h)
  BY <1>1, <1>2 DEF Parts
<1>4. /\ OwnedOnce(heap) /\ heap.own[CHandle] = Nothing /\ heap.own[GCHandle] = Nothing
      /\ Rooted(heap, u) /\ PointsUp(heap)
  BY <1>1, <1>2, HandlesDiffer DEF OwnedOnce, Rooted, PointsUp
<1>5. Sized(heap, u, {})
  BY <1>1 DEF Sized
<1> QED
  BY <1>1, <1>2, <1>3, <1>4, <1>5 DEF Tree, SoundTree

\* A sound tree is consistent.
LEMMA SoundIsConsistent ==
  ASSUME SoundTree(heap)
  PROVE  SplayIsConsistent
<1>1. PICK u : Tree(heap, u) /\ Sized(heap, u, {})
  BY DEF SoundTree
<1>2. \A h \in Handles : ListsAll(InOrder(heap)[h], u[h])
  BY <1>1, InOrderIs
<1>3. ASSUME NEW h \in Handles, heap.own[h] # Nothing
      PROVE  LET n == heap.own[h]
             IN  /\ h \notin {CHandle, GCHandle}
                 /\ heap.parent[n] = IF h = RootHandle THEN Null ELSE HandleOf(heap, h[1])
                 /\ heap.size[n] = Len(InOrder(heap)[h])
  <2> DEFINE n == heap.own[h]
  <2>1. h \notin {CHandle, GCHandle}
    BY <1>1, <1>3 DEF Tree
  <2>2. heap.size[n] = Len(InOrder(heap)[h])
    BY <1>1, <1>2, <1>3 DEF Sized, ListsAll
  <2>3. CASE h = RootHandle
    <3>1. heap.parent[n] = Null
      BY <1>1, <1>3, <2>3 DEF Tree, PointsUp
    <3> QED  BY <2>1, <2>2, <2>3, <3>1
  <2>4. CASE h # RootHandle
    <3>1. PICK v \in SplayValues, s \in Sides : h = Child(v, s)
      BY <2>1, <2>4, HandlesDiffer
    <3>2. h[1] = v
      BY <3>1, HandlesDiffer
    <3>3. PICK k \in Handles : heap.own[k] = v
      BY <1>1, <1>3, <3>1 DEF Tree, Rooted
    <3>4. v # Nothing
      BY NothingIs
    <3>5. HandleOf(heap, v) \in Handles /\ heap.own[HandleOf(heap, v)] = v
      BY <3>3 DEF HandleOf
    <3>6. HandleOf(heap, v) = k
      BY <1>1, <3>3, <3>4, <3>5 DEF Tree, OwnedOnce
    <3>7. heap.parent[n] = k
      BY <1>1, <1>3, <3>1, <3>3, <3>4 DEF Tree, PointsUp
    <3> QED  BY <2>1, <2>2, <2>4, <3>2, <3>6, <3>7
  <2> QED  BY <2>3, <2>4
<1>4. LET s == InOrder(heap)[RootHandle]
      IN  /\ ToSet(s) = {n \in SplayValues : heap.size[n] > 0}
          /\ \A i, j \in DOMAIN s : i < j => s[i] < s[j]
  <2> DEFINE s == InOrder(heap)[RootHandle]
  <2>1. RootHandle \in Handles
    BY HandlesDiffer
  <2>2. ListsAll(s, u[RootHandle])
    BY <1>2, <2>1
  <2> HIDE DEF s
  <2>3. DOMAIN s = 1..Len(s) /\ \A i, j \in 1..Len(s) : i < j => s[i] < s[j]
    BY <2>2 DEF ListsAll
  <2>4. ToSet(s) = u[RootHandle]
    BY <2>2, <2>3 DEF ListsAll, ToSet
  <2>5. ASSUME NEW n \in SplayValues PROVE heap.size[n] > 0 <=> n \in u[RootHandle]
    <3>1. CASE n \notin u[RootHandle]
      BY <1>1, <3>1 DEF Sized
    <3>2. CASE n \in u[RootHandle]
      <4>1. PICK h \in Handles : heap.own[h] = n
        BY <1>1, <3>2 DEF Tree, Rooted
      <4>2. n # Nothing
        BY NothingIs
      <4>3. heap.size[n] = Cardinality(u[h])
        BY <1>1, <4>1, <4>2 DEF Sized
      <4>4. Cardinality(u[h]) \in Nat /\ (Cardinality(u[h]) = 0 <=> heap.own[h] = Nothing)
        BY <1>1, BelowIsCounted
      <4> QED  BY <3>2, <4>1, <4>2, <4>3, <4>4
    <3> QED  BY <3>1, <3>2
  <2>6. u[RootHandle] \subseteq SplayValues
    BY <1>1, <2>1, TreeIs
  <2> QED  BY <2>3, <2>4, <2>5, <2>6 DEF s
<1> QED
  BY <1>3, <1>4 DEF SplayIsConsistent

\* After any sequence of inserts and splays, of any integers, whichever node is
\* splayed to the root or below it: every parent pointer is the handle that owns
\* the parent (rotate_handle moves nodes between handles), the values are in
\* order and in the tree once, and each size is that of the node's subtree.
THEOREM SplayStaysConsistent == SplaySpec => []SplayIsConsistent
<1> DEFINE Inv == SoundTree(heap)
<1>1. SplayInit => Inv
  BY EmptyHeapIs
<1>2. Inv /\ [SplayNext]_heap => Inv'
  <2> SUFFICES ASSUME SoundTree(heap), [SplayNext]_heap PROVE SoundTree(heap')
    BY DEF SoundTree, Tree, Sized, Heaps, OwnedOnce, Parts, Rooted, PointsUp
  <2>1. CASE SplayNext
    <3>1. PICK v \in SplayValues : InsertValue(v) \/ \E target \in {Null, RootHandle} : Splay(v, target)
      BY <2>1 DEF SplayNext
    <3>2. CASE InsertValue(v)
      BY <3>2, InsertIs DEF InsertValue
    <3>3. CASE \E target \in {Null, RootHandle} : Splay(v, target)
      <4>1. PICK target \in Targets : Splay(v, target)
        BY <3>3 DEF Targets
      <4> QED  BY <4>1, SplayCallIs DEF Splay
    <3> QED  BY <3>1, <3>2, <3>3
  <2>2. CASE UNCHANGED heap
    BY <2>2
  <2> QED  BY <2>1, <2>2
<1>3. Inv => SplayIsConsistent
  BY SoundIsConsistent
<1> QED
  BY <1>1, <1>2, <1>3, PTL DEF SplaySpec
=============================================================================
