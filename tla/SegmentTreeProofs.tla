------------------------- MODULE SegmentTreeProofs -------------------------
(***************************************************************************)
(* Proofs about SegmentTree and those who use it: callers who give back    *)
(* first what they took last, and the allocator of small pointers, for     *)
(* trees of any size and requests of any length.                           *)
(***************************************************************************)
EXTENDS ChunkUsers, SmallPtrAllocator, RecursionTheorems, SequenceTheorems

-----------------------------------------------------------------------------
(* The shape of the tree                                                   *)

\* The node of level k over chunk x.
Above(x, k) == x \div Pow2[k]

LEMMA LengthIs ==
  /\ Levels \in Nat /\ LENGTH = Pow2[Levels] /\ LENGTH \in Nat
  /\ LeafCount \in Nat /\ LeafCount >= 1 /\ LeafCount <= LENGTH
<1>1. LeafCount \in Nat /\ LeafCount >= 1
  BY LeafCountAssumption
<1> DEFINE b == Log2(LeafCount)
<1>2. b \in Nat /\ Pow2[b] <= LeafCount /\ LeafCount < Pow2[b + 1]
  BY <1>1, Log2Is
<1>3. Levels = IF Pow2[b] = LeafCount THEN b ELSE b + 1
  BY DEF Levels
<1> HIDE DEF b
<1>4. Levels \in Nat /\ LeafCount <= Pow2[Levels]
  <2>1. CASE Pow2[b] = LeafCount
    BY <1>1, <1>2, <1>3, <2>1
  <2>2. CASE Pow2[b] # LeafCount
    <3>1. Levels = b + 1
      BY <1>3, <2>2
    <3>2. Pow2[b + 1] \in Nat
      BY <1>2, Pow2Is
    <3> QED  BY <1>1, <1>2, <3>1, <3>2
  <2> QED  BY <2>1, <2>2
<1>5. Pow2[Levels] \in Nat
  BY <1>4, Pow2Is
<1> QED
  BY <1>1, <1>4, <1>5 DEF LENGTH

LEMMA NodeIs ==
  /\ \A k, j : <<k, j>> \in Nodes <=> k \in 0..Levels /\ j \in Nat /\ j < Pow2[Levels - k]
  /\ \A n \in Nodes : n = <<n[1], n[2]>> /\ n[1] \in 0..Levels /\ n[2] \in Nat
<1>1. Levels \in Nat /\ LENGTH = Pow2[Levels]
  BY LengthIs
<1>2. ASSUME NEW k \in 0..Levels, NEW j \in Nat, j < Pow2[Levels - k]
      PROVE  j \in 0..(LENGTH - 1)
  <2>1. Levels - k \in Nat /\ Levels - k <= Levels
    BY <1>1
  <2>2. Pow2[Levels - k] <= Pow2[Levels]
    BY <1>1, <2>1, Pow2Grows
  <2>3. Pow2[Levels - k] \in Nat /\ Pow2[Levels] \in Nat
    BY <1>1, <2>1, Pow2Is
  <2> QED  BY <1>1, <1>2, <2>2, <2>3
<1>3. ASSUME NEW j \in 0..(LENGTH - 1) PROVE j \in Nat
  BY LengthIs
<1>4. \A k, j : <<k, j>> \in Nodes <=> k \in 0..Levels /\ j \in 0..(LENGTH - 1) /\ j < Pow2[Levels - k]
  BY DEF Nodes
<1>5. \A n \in Nodes : n = <<n[1], n[2]>> /\ n[1] \in 0..Levels /\ n[2] \in 0..(LENGTH - 1)
  BY DEF Nodes
<1> QED
  BY <1>2, <1>3, <1>4, <1>5

\* Children, parents and siblings of nodes are nodes.
LEMMA Family ==
  ASSUME NEW k \in Nat, NEW j \in Nat
  PROVE  /\ <<k + 1, j>> \in Nodes => <<k, 2 * j>> \in Nodes /\ <<k, 2 * j + 1>> \in Nodes
         /\ <<k, j>> \in Nodes /\ k < Levels => <<k + 1, j \div 2>> \in Nodes
<1>1. Levels \in Nat
  BY LengthIs
<1>2. k < Levels => /\ Levels - (k + 1) \in Nat /\ Levels - k = (Levels - (k + 1)) + 1
                    /\ k \in 0..Levels /\ k + 1 \in 0..Levels
  BY <1>1
<1>3. k < Levels => /\ Pow2[Levels - k] = 2 * Pow2[Levels - (k + 1)]
                    /\ Pow2[Levels - (k + 1)] \in Nat
  BY <1>2, Pow2Is
<1>4. ASSUME <<k + 1, j>> \in Nodes
      PROVE  <<k, 2 * j>> \in Nodes /\ <<k, 2 * j + 1>> \in Nodes
  <2>1. k + 1 \in 0..Levels /\ j < Pow2[Levels - (k + 1)]
    BY <1>4, NodeIs
  <2>2. k < Levels
    BY <1>1, <2>1
  <2> DEFINE p == Pow2[Levels - (k + 1)]
             q == Pow2[Levels - k]
  <2>3. p \in Nat /\ q = 2 * p /\ j < p
    BY <1>3, <2>1, <2>2
  <2> HIDE DEF p, q
  <2>4. 2 * j < q /\ 2 * j + 1 < q /\ 2 * j \in Nat /\ 2 * j + 1 \in Nat
    BY <2>3
  <2> QED  BY <1>2, <2>2, <2>4, NodeIs DEF q
<1>5. ASSUME <<k, j>> \in Nodes, k < Levels PROVE <<k + 1, j \div 2>> \in Nodes
  <2> DEFINE p == Pow2[Levels - (k + 1)]
             q == Pow2[Levels - k]
  <2>1. j < q
    BY <1>5, NodeIs
  <2>2. p \in Nat /\ q = 2 * p
    BY <1>3, <1>5
  <2> HIDE DEF p, q
  <2>3. j \div 2 \in Nat /\ j \div 2 < p
    BY <2>1, <2>2
  <2> QED  BY <1>2, <1>5, <2>3, NodeIs DEF p
<1> QED
  BY <1>4, <1>5

LEMMA AboveIs ==
  ASSUME NEW x \in Nat, NEW k \in Nat
  PROVE  /\ Above(x, k) \in Nat
         /\ Above(x, 0) = x
         /\ Above(x, k + 1) = Above(x, k) \div 2
         /\ Above(x, k) * Pow2[k] \in Nat
         /\ Above(x, k) * Pow2[k] <= x /\ x < Above(x, k) * Pow2[k] + Pow2[k]
         /\ \A j \in Nat : j * Pow2[k] <= x /\ x < j * Pow2[k] + Pow2[k] => Above(x, k) = j
<1> DEFINE p == Pow2[k]
<1>1. p \in Nat /\ p >= 1 /\ Pow2[k + 1] = 2 * p /\ Pow2[0] = 1
  BY Pow2Is
<1>2. Above(x, k) = x \div p /\ Above(x, k + 1) = x \div (2 * p) /\ Above(x, 0) = x \div 1
  BY <1>1 DEF Above
<1> HIDE DEF p
<1>3. (x \div p) \div 2 = x \div (2 * p) /\ x \div p \in Nat /\ x \div 1 = x
  BY <1>1, Halving
<1>4. x = p * (x \div p) + (x % p) /\ (x % p) \in 0..(p - 1)
  BY <1>1, Division
<1>5. /\ (x \div p) * p \in Nat /\ (x \div p) * p <= x /\ x < (x \div p) * p + p
  <2> DEFINE q == x \div p
             r == x % p
  <2>1. q \in Nat /\ x = p * q + r /\ r \in 0..(p - 1)
    BY <1>3, <1>4
  <2> HIDE DEF q, r
  <2>2. p * q = q * p /\ q * p \in Nat
    BY <1>1, <2>1
  <2>3. q * p <= x /\ x < q * p + p
    BY <1>1, <2>1, <2>2
  <2> QED  BY <2>2, <2>3 DEF q
<1>6. ASSUME NEW j \in Nat, j * p <= x, x < j * p + p PROVE x \div p = j
  <2>1. j * p = p * j /\ p * j \in Nat
    BY <1>1
  <2>2. x - p * j \in 0..(p - 1) /\ x = p * j + (x - p * j)
    BY <1>1, <1>6, <2>1
  <2> DEFINE r == x - p * j
  <2>3. r \in 0..(p - 1) /\ x = p * j + r
    BY <2>2
  <2> HIDE DEF r
  <2>4. (p * j + r) \div p = j
    BY ONLY <1>1, <1>6, <2>3, Quotient
  <2> QED  BY <2>3, <2>4
<1> QED
  BY <1>2, <1>3, <1>5, <1>6 DEF p

-----------------------------------------------------------------------------
(* The tree of which nothing is taken                                      *)

Values == [left : Nat, max : Nat]

Trees == Maps(Nodes, Values)

\* Node <<k, j>> is what its children make it.
Built(t, k, j) == t[<<k, j>>] = rebuild(k, t[<<k - 1, 2 * j>>], t[<<k - 1, 2 * j + 1>>])

\* The chunks that there are, and how many of them are under a node.
Total(c) == IF c THEN LeafCount ELSE LENGTH

Share(c, k, j) ==
    IF Total(c) <= j * Pow2[k] THEN 0
    ELSE IF j * Pow2[k] + Pow2[k] <= Total(c) THEN Pow2[k]
    ELSE Total(c) - j * Pow2[k]

FreshStep(f, c, n) ==
    IF n[1] = 0 THEN IF n[2] < LeafCount THEN Whole(0) ELSE IF c THEN NoneFree ELSE Whole(0)
    ELSE rebuild(n[1], f[<<n[1] - 1, 2 * n[2]>>], f[<<n[1] - 1, 2 * n[2] + 1>>])

LEMMA RebuildIs ==
  ASSUME NEW k \in Nat, NEW l \in Values, NEW r \in Values
  PROVE  rebuild(k, l, r) \in Values
<1>1. l.left \in Nat /\ l.max \in Nat /\ r.left \in Nat /\ r.max \in Nat
  BY DEF Values
<1>2. Larger(l.max, r.max) \in Nat /\ l.left + r.left \in Nat
  BY <1>1 DEF Larger
<1> QED
  BY <1>1, <1>2 DEF rebuild, Values

LEMMA MarksAre ==
  /\ NoneFree \in Values
  /\ \A k \in Nat : Whole(k) \in Values
<1>1. \A k \in Nat : Pow2[k] \in Nat
  BY Pow2Is
<1> QED
  BY <1>1 DEF NoneFree, Whole, Values

LEMMA LevelIsRank == [n \in Nodes |-> n[1]] \in Maps(Nodes, Nat)
<1>1. \A n \in Nodes : n[1] \in Nat
  BY NodeIs, LengthIs
<1> QED
  BY <1>1 DEF Maps

LEMMA FreshExists ==
  ASSUME NEW c \in BOOLEAN
  PROVE  /\ Fresh(c) = [n \in Nodes |-> FreshStep(Fresh(c), c, n)]
         /\ \A n \in Nodes : Fresh(c)[n] = FreshStep(Fresh(c), c, n)
<1> DEFINE D == [f \in Trees |-> [n \in Nodes |-> FreshStep(f, c, n)]]
           rank == [n \in Nodes |-> n[1]]
<1>1. ASSUME NEW n \in Nodes, n[1] # 0
      PROVE  /\ n[1] \in Nat
             /\ <<n[1] - 1, 2 * n[2]>> \in Nodes /\ <<n[1] - 1, 2 * n[2] + 1>> \in Nodes
             /\ rank[<<n[1] - 1, 2 * n[2]>>] < rank[n] /\ rank[<<n[1] - 1, 2 * n[2] + 1>>] < rank[n]
  <2>1. n = <<n[1], n[2]>> /\ n[1] \in 0..Levels /\ n[2] \in Nat /\ Levels \in Nat
    BY NodeIs, LengthIs
  <2>2. n[1] - 1 \in Nat /\ (n[1] - 1) + 1 = n[1]
    BY <1>1, <2>1
  <2>3. <<(n[1] - 1) + 1, n[2]>> \in Nodes
    BY <2>1, <2>2
  <2>4. <<n[1] - 1, 2 * n[2]>> \in Nodes /\ <<n[1] - 1, 2 * n[2] + 1>> \in Nodes
    BY ONLY <2>1, <2>2, <2>3, Family
  <2> QED  BY <2>1, <2>2, <2>4
<1>2. D \in Maps(Trees, Trees)
  <2>1. ASSUME NEW f \in Trees, NEW n \in Nodes PROVE FreshStep(f, c, n) \in Values
    <3>1. f \in [Nodes -> Values]
      BY DEF Trees, Maps
    <3>2. CASE n[1] = 0
      BY <3>2, MarksAre DEF FreshStep
    <3>3. CASE n[1] # 0
      <4>1. /\ f[<<n[1] - 1, 2 * n[2]>>] \in Values
            /\ f[<<n[1] - 1, 2 * n[2] + 1>>] \in Values
            /\ n[1] \in Nat
        BY <1>1, <3>1, <3>3
      <4>2. rebuild(n[1], f[<<n[1] - 1, 2 * n[2]>>], f[<<n[1] - 1, 2 * n[2] + 1>>]) \in Values
        BY ONLY <4>1, RebuildIs
      <4> QED  BY <3>3, <4>2 DEF FreshStep
    <3> QED  BY <3>2, <3>3
  <2>2. \A f \in Trees : [n \in Nodes |-> FreshStep(f, c, n)] \in [Nodes -> Values]
    BY <2>1
  <2>3. \A f \in Trees : [n \in Nodes |-> FreshStep(f, c, n)] \in Trees
    BY <2>2 DEF Trees, Maps
  <2>4. D \in [Trees -> Trees]
    BY <2>3
  <2> QED  BY <2>4 DEF Maps
<1>3. ASSUME NEW g \in Trees, NEW h \in Trees, NEW n \in Nodes,
             \A m \in Nodes : rank[m] < rank[n] => g[m] = h[m]
      PROVE  D[g][n] = D[h][n]
  <2>1. FreshStep(g, c, n) = FreshStep(h, c, n)
    <3>1. CASE n[1] = 0
      BY <3>1 DEF FreshStep
    <3>2. CASE n[1] # 0
      <4>1. /\ g[<<n[1] - 1, 2 * n[2]>>] = h[<<n[1] - 1, 2 * n[2]>>]
            /\ g[<<n[1] - 1, 2 * n[2] + 1>>] = h[<<n[1] - 1, 2 * n[2] + 1>>]
        <5> HIDE DEF rank
        <5> QED  BY <1>1, <1>3, <3>2
      <4> QED  BY <3>2, <4>1 DEF FreshStep
    <3> QED  BY <3>1, <3>2
  <2> QED  BY <2>1
<1>4. rank \in Maps(Nodes, Nat) /\ Trees # {}
  <2>1. [n \in Nodes |-> NoneFree] \in [Nodes -> Values]
    BY MarksAre
  <2> QED  BY <2>1, LevelIsRank DEF Trees, Maps
<1>5. \E f \in Trees : D[f] = f
  <2> HIDE DEF D, rank
  <2> QED  BY <1>2, <1>3, <1>4, RecursiveFunctionExists DEF Trees
<1>6. PICK f \in Trees : D[f] = f
  BY <1>5
<1>7. f = [n \in Nodes |-> FreshStep(f, c, n)]
  BY <1>6
<1>8. Fresh(c) = CHOOSE g : g = [n \in Nodes |-> FreshStep(g, c, n)]
  BY DEF Fresh, FreshStep
<1>9. Fresh(c) = [n \in Nodes |-> FreshStep(Fresh(c), c, n)]
  BY <1>7, <1>8
<1>10. \A n \in Nodes : Fresh(c)[n] = FreshStep(Fresh(c), c, n)
  BY <1>9, Zenon
<1> QED
  BY <1>9, <1>10

\* Each node knows exactly how many of the chunks under it there are, and they
\* are at its left end.
LEMMA FreshIs ==
  ASSUME NEW c \in BOOLEAN
  PROVE  /\ Fresh(c) \in Trees
         /\ \A k, j : <<k, j>> \in Nodes => /\ Share(c, k, j) \in Nat
                                            /\ Fresh(c)[<<k, j>>].left = Share(c, k, j)
                                            /\ Fresh(c)[<<k, j>>].max = Share(c, k, j)
         /\ \A k, j \in Nat : <<k + 1, j>> \in Nodes => Built(Fresh(c), k + 1, j)
<1> DEFINE f == Fresh(c)
           T == Total(c)
           Is(k, j) == f[<<k, j>>] = [left |-> Share(c, k, j), max |-> Share(c, k, j)]
           P == {k \in Nat : \A j : <<k, j>> \in Nodes => Is(k, j)}
<1>1. T \in Nat
  BY LengthIs DEF Total
<1>2. ASSUME NEW k \in Nat, NEW j \in Nat
      PROVE  Share(c, k, j) \in Nat /\ j * Pow2[k] \in Nat
  <2>1. Pow2[k] \in Nat
    BY Pow2Is
  <2>2. j * Pow2[k] \in Nat
    BY <2>1
  <2> QED  BY <1>1, <2>1, <2>2 DEF Share
<1>3. 0 \in P
  <2> SUFFICES ASSUME NEW j, <<0, j>> \in Nodes PROVE Is(0, j)
    OBVIOUS
  <2>1. j \in Nat /\ j < Pow2[Levels - 0]
    BY NodeIs
  <2>2. j < LENGTH /\ LENGTH \in Nat /\ LeafCount \in Nat
    BY <2>1, LengthIs
  <2>3. f[<<0, j>>] = IF j < LeafCount THEN Whole(0) ELSE IF c THEN NoneFree ELSE Whole(0)
    BY FreshExists DEF FreshStep
  <2>4. Pow2[0] = 1 /\ j * 1 = j
    BY <2>1, Pow2Is
  <2>5. Share(c, 0, j) = IF T <= j THEN 0 ELSE IF j + 1 <= T THEN 1 ELSE T - j
    BY <2>4 DEF Share
  <2>6. Share(c, 0, j) = IF j < T THEN 1 ELSE 0
    BY <1>1, <2>1, <2>5
  <2>7. Whole(0) = [left |-> 1, max |-> 1]
    BY <2>4 DEF Whole
  <2>8. CASE c
    BY <2>1, <2>2, <2>3, <2>6, <2>7, <2>8 DEF Total, NoneFree
  <2>9. CASE ~c
    BY <2>1, <2>2, <2>3, <2>6, <2>7, <2>9 DEF Total, NoneFree
  <2> QED  BY <2>8, <2>9
<1>4. ASSUME NEW k \in Nat, NEW j, <<k + 1, j>> \in Nodes
      PROVE  /\ f[<<k + 1, j>>] = rebuild(k + 1, f[<<k, 2 * j>>], f[<<k, 2 * j + 1>>])
             /\ j \in Nat /\ <<k, 2 * j>> \in Nodes /\ <<k, 2 * j + 1>> \in Nodes
  <2>1. j \in Nat
    BY <1>4, NodeIs
  <2>2. k + 1 # 0 /\ (k + 1) - 1 = k
    OBVIOUS
  <2>3. f[<<k + 1, j>>] = FreshStep(f, c, <<k + 1, j>>)
    BY <1>4, FreshExists
  <2>4. FreshStep(f, c, <<k + 1, j>>) = rebuild(k + 1, f[<<k, 2 * j>>], f[<<k, 2 * j + 1>>])
    BY <2>2 DEF FreshStep
  <2> QED  BY <1>4, <2>1, <2>3, <2>4, Family
<1>5. ASSUME NEW k \in P PROVE k + 1 \in P
  <2> SUFFICES ASSUME NEW j, <<k + 1, j>> \in Nodes PROVE Is(k + 1, j)
    OBVIOUS
  <2> DEFINE p == Pow2[k]
             b == j * (2 * p)
  <2>1. k \in Nat /\ j \in Nat
    BY <1>4
  <2>2. p \in Nat /\ p >= 1 /\ Pow2[k + 1] = 2 * p /\ (k + 1) - 1 = k
    BY <2>1, Pow2Is
  <2>3. b \in Nat /\ (2 * j) * p = b /\ (2 * j + 1) * p = b + p
    <3> HIDE DEF p
    <3>1. j * p \in Nat
      BY <2>1, <2>2
    <3>2. j * (2 * p) = 2 * (j * p) /\ (2 * j) * p = 2 * (j * p) /\ (2 * j + 1) * p = 2 * (j * p) + p
      BY <2>1, <2>2
    <3> QED  BY <2>2, <3>1, <3>2
  <2>4. Is(k, 2 * j) /\ Is(k, 2 * j + 1)
    BY <1>4
  <2>5. /\ Share(c, k, 2 * j) = IF T <= b THEN 0 ELSE IF b + p <= T THEN p ELSE T - b
        /\ Share(c, k, 2 * j + 1) = IF T <= b + p THEN 0 ELSE IF b + p + p <= T THEN p ELSE T - (b + p)
        /\ Share(c, k + 1, j) = IF T <= b THEN 0 ELSE IF b + 2 * p <= T THEN 2 * p ELSE T - b
    BY <2>2, <2>3 DEF Share
  <2> DEFINE l == Share(c, k, 2 * j)
             r == Share(c, k, 2 * j + 1)
             s == Share(c, k + 1, j)
  <2>6. f[<<k + 1, j>>] = rebuild(k + 1, [left |-> l, max |-> l], [left |-> r, max |-> r])
    BY <1>4, <2>4
  <2>7. rebuild(k + 1, [left |-> l, max |-> l], [left |-> r, max |-> r])
          = IF l = p THEN [left |-> l + r, max |-> l + r] ELSE [left |-> l, max |-> Larger(l, r)]
    BY <2>2 DEF rebuild
  <2>8. s \in Nat /\ (IF l = p THEN l + r = s ELSE l = s /\ Larger(l, r) = s)
    <3>1. /\ l = IF T <= b THEN 0 ELSE IF b + p <= T THEN p ELSE T - b
          /\ r = IF T <= b + p THEN 0 ELSE IF b + p + p <= T THEN p ELSE T - (b + p)
          /\ s = IF T <= b THEN 0 ELSE IF b + 2 * p <= T THEN 2 * p ELSE T - b
      BY <2>5
    <3> HIDE DEF l, r, s, T, b, p
    <3> QED  BY <1>1, <2>2, <2>3, <3>1 DEF Larger
  <2> HIDE DEF l, r
  <2> QED  BY <2>6, <2>7, <2>8
<1>6. \A k \in Nat : k \in P
  <2>1. P \in SUBSET Nat
    OBVIOUS
  <2> HIDE DEF P
  <2> QED  BY <1>3, <1>5, <2>1, SetInduction
<1>7. ASSUME NEW k, NEW j, <<k, j>> \in Nodes
      PROVE  Is(k, j) /\ Share(c, k, j) \in Nat
  <2>1. k \in Nat /\ j \in Nat
    BY <1>7, NodeIs, LengthIs
  <2> QED  BY <1>2, <1>6, <1>7, <2>1
<1>8. f \in Trees
  <2>1. \A n \in Nodes : f[n] \in Values
    <3> SUFFICES ASSUME NEW n \in Nodes PROVE f[n] \in Values
      OBVIOUS
    <3>1. n = <<n[1], n[2]>>
      BY NodeIs
    <3>2. Is(n[1], n[2]) /\ Share(c, n[1], n[2]) \in Nat
      BY <1>7, <3>1
    <3>3. f[n] = [left |-> Share(c, n[1], n[2]), max |-> Share(c, n[1], n[2])]
      BY <3>1, <3>2
    <3> HIDE DEF f
    <3> QED  BY <3>2, <3>3 DEF Values
  <2>2. f = [n \in Nodes |-> f[n]]
    <3>1. f = [n \in Nodes |-> FreshStep(f, c, n)]
      BY FreshExists
    <3> HIDE DEF f
    <3> QED  BY <3>1
  <2> HIDE DEF f
  <2> QED  BY <2>1, <2>2 DEF Trees, Maps
<1>9. ASSUME NEW k \in Nat, NEW j \in Nat, <<k + 1, j>> \in Nodes PROVE Built(f, k + 1, j)
  <2>1. (k + 1) - 1 = k
    OBVIOUS
  <2> QED  BY <1>4, <1>9, <2>1 DEF Built
<1>10. ASSUME NEW k, NEW j, <<k, j>> \in Nodes
       PROVE  /\ Share(c, k, j) \in Nat
              /\ f[<<k, j>>].left = Share(c, k, j)
              /\ f[<<k, j>>].max = Share(c, k, j)
  <2>1. f[<<k, j>>] = [left |-> Share(c, k, j), max |-> Share(c, k, j)] /\ Share(c, k, j) \in Nat
    BY <1>7, <1>10
  <2> HIDE DEF f
  <2> QED  BY <2>1
<1> QED
  <2> HIDE DEF f
  <2>1. /\ f \in Trees
        /\ \A k, j : <<k, j>> \in Nodes => /\ Share(c, k, j) \in Nat
                                           /\ f[<<k, j>>].left = Share(c, k, j)
                                           /\ f[<<k, j>>].max = Share(c, k, j)
        /\ \A k, j \in Nat : <<k + 1, j>> \in Nodes => Built(f, k + 1, j)
    BY <1>8, <1>9, <1>10
  <2> QED  BY <2>1 DEF f

-----------------------------------------------------------------------------
(* What modify_prefix does                                                 *)

LEMMA NodeFits ==
  /\ \A k, j : <<k, j>> \in Nodes =>
       /\ k \in Nat /\ j \in Nat
       /\ j * Pow2[k] \in Nat /\ Pow2[k] \in Nat /\ j * Pow2[k] + Pow2[k] <= LENGTH
  /\ \A x \in Nat, k \in 0..Levels : x < LENGTH => <<k, Above(x, k)>> \in Nodes
<1>1. Levels \in Nat /\ LENGTH = Pow2[Levels]
  BY LengthIs
<1>2. ASSUME NEW k \in 0..Levels
      PROVE  /\ k \in Nat /\ Levels - k \in Nat
             /\ Pow2[k] \in Nat /\ Pow2[k] >= 1 /\ Pow2[Levels - k] \in Nat
             /\ LENGTH = Pow2[k] * Pow2[Levels - k]
  <2>1. k \in Nat /\ k <= Levels /\ Levels - k \in Nat
    BY <1>1
  <2> QED  BY <1>1, <2>1, Pow2Divides, Pow2Is
<1>3. ASSUME NEW k, NEW j, <<k, j>> \in Nodes
      PROVE  /\ k \in Nat /\ j \in Nat
             /\ j * Pow2[k] \in Nat /\ Pow2[k] \in Nat /\ j * Pow2[k] + Pow2[k] <= LENGTH
  <2>1. k \in 0..Levels /\ j \in Nat /\ j < Pow2[Levels - k]
    BY <1>3, NodeIs
  <2> DEFINE p == Pow2[k]
             q == Pow2[Levels - k]
  <2>2. k \in Nat /\ p \in Nat /\ q \in Nat /\ LENGTH = p * q /\ j < q
    BY <1>2, <2>1
  <2> HIDE DEF p, q
  <2>3. q - (j + 1) \in Nat /\ (q - (j + 1)) * p \in Nat /\ j * p \in Nat
    <3>1. q - (j + 1) \in Nat
      BY <2>1, <2>2
    <3> QED  BY <2>1, <2>2, <3>1
  <2>4. p * q = (q - (j + 1)) * p + j * p + p
    BY <2>1, <2>2, <2>3
  <2>5. j * p + p <= LENGTH
    <3> DEFINE a == (q - (j + 1)) * p
               b == j * p
    <3>1. a \in Nat /\ b \in Nat /\ LENGTH = a + b + p
      BY <2>2, <2>3, <2>4
    <3> HIDE DEF a, b
    <3>2. b + p <= LENGTH
      BY <2>2, <3>1
    <3> QED  BY <3>2 DEF b
  <2> QED  BY <2>1, <2>2, <2>3, <2>5 DEF p
<1>4. ASSUME NEW x \in Nat, NEW k \in 0..Levels, x < LENGTH PROVE <<k, Above(x, k)>> \in Nodes
  <2> DEFINE p == Pow2[k]
             q == Pow2[Levels - k]
             a == Above(x, k)
  <2>1. k \in Nat /\ p \in Nat /\ p >= 1 /\ q \in Nat /\ LENGTH = p * q
    BY <1>2
  <2>2. a \in Nat /\ a * p \in Nat /\ a * p <= x
    BY <2>1, AboveIs
  <2> HIDE DEF p, q, a
  <2>3. a < q
    <3>1. SUFFICES ASSUME a >= q PROVE FALSE
      BY <2>1, <2>2
    <3>2. a - q \in Nat
      BY <2>1, <2>2, <3>1
    <3>3. (a - q) * p \in Nat
      BY <2>1, <3>2
    <3>4. a * p = (a - q) * p + p * q
      BY <2>1, <2>2, <3>2
    <3>5. p * q \in Nat
      BY <2>1
    <3> DEFINE d == (a - q) * p
               e == a * p
               g == p * q
    <3>6. d \in Nat /\ e = d + g /\ g \in Nat /\ e <= x /\ x < g
      BY <1>4, <2>1, <2>2, <3>3, <3>4, <3>5
    <3> HIDE DEF d, e, g
    <3> QED  BY <3>6
  <2> QED  BY <1>4, <2>2, <2>3, NodeIs DEF a, q
<1> QED
  BY <1>3, <1>4

\* The sibling, in the terms of the parent.
LEMMA Siblings ==
  ASSUME NEW j \in Nat
  PROVE  /\ j % 2 = 0 => 2 * (j \div 2) = j /\ 2 * (j \div 2) + 1 = j + 1
         /\ j % 2 # 0 => 2 * (j \div 2) = j - 1 /\ 2 * (j \div 2) + 1 = j /\ j - 1 \in Nat
                         /\ (j - 1) % 2 = 0 /\ (j - 1) \div 2 = j \div 2
         /\ (2 * j) \div 2 = j /\ (2 * j + 1) \div 2 = j
         /\ (2 * j) % 2 = 0 /\ (2 * j + 1) % 2 = 1
         /\ j \div 2 \in Nat
         /\ j = 2 * (j \div 2) \/ j = 2 * (j \div 2) + 1
OBVIOUS

RefreshStep(up, t, leaf, k) ==
    IF k = 0 THEN t[<<0, leaf>>]
    ELSE LET child   == leaf \div Pow2[k - 1]
             sibling == t[<<k - 1, IF child % 2 = 0 THEN child + 1 ELSE child - 1>>]
         IN  IF child % 2 = 0 THEN rebuild(k, up[k - 1], sibling)
                              ELSE rebuild(k, sibling, up[k - 1])

Refreshed(t, leaf) == CHOOSE up : up = [k \in 0..Levels |-> RefreshStep(up, t, leaf, k)]

LEMMA SiblingIsNode ==
  ASSUME NEW x \in Nat, x < LENGTH, NEW k \in Nat, k < Levels
  PROVE  /\ <<k, Above(x, k)>> \in Nodes
         /\ <<k, IF Above(x, k) % 2 = 0 THEN Above(x, k) + 1 ELSE Above(x, k) - 1>> \in Nodes
<1> DEFINE a == Above(x, k)
<1>1. k \in 0..Levels /\ k + 1 \in 0..Levels
  BY LengthIs
<1>2. <<k, a>> \in Nodes /\ <<k + 1, Above(x, k + 1)>> \in Nodes
  BY <1>1, NodeFits
<1>3. a \in Nat /\ Above(x, k + 1) = a \div 2
  BY AboveIs
<1> HIDE DEF a
<1>4. a \div 2 \in Nat
  BY <1>3, Siblings
<1>5. <<k, 2 * (a \div 2)>> \in Nodes /\ <<k, 2 * (a \div 2) + 1>> \in Nodes
  BY <1>2, <1>3, <1>4, Family
<1>6. <<k, IF a % 2 = 0 THEN a + 1 ELSE a - 1>> \in Nodes
  <2>1. CASE a % 2 = 0
    BY <1>3, <1>5, <2>1, Siblings
  <2>2. CASE a % 2 # 0
    BY <1>3, <1>5, <2>2, Siblings
  <2> QED  BY <2>1, <2>2
<1> QED
  BY <1>2, <1>6 DEF a

LEMMA RefreshedExists ==
  ASSUME NEW t \in Trees, NEW leaf \in Nat, leaf < LENGTH
  PROVE  \A k \in 0..Levels : /\ Refreshed(t, leaf)[k] = RefreshStep(Refreshed(t, leaf), t, leaf, k)
                              /\ Refreshed(t, leaf)[k] \in Values
<1> DEFINE S == 0..Levels
           Ups == Maps(S, Values)
           D == [f \in Ups |-> [k \in S |-> RefreshStep(f, t, leaf, k)]]
           rank == [k \in S |-> k]
           sib(k) == <<k - 1, IF Above(leaf, k - 1) % 2 = 0 THEN Above(leaf, k - 1) + 1
                                                            ELSE Above(leaf, k - 1) - 1>>
<1>1. ASSUME NEW k \in S, k # 0 PROVE k - 1 \in S /\ k \in Nat /\ k - 1 \in Nat /\ k - 1 < Levels /\ k - 1 < k
  BY <1>1, LengthIs
<1>2. \A n \in Nodes : t[n] \in Values
  BY DEF Trees, Maps
<1>3. ASSUME NEW k \in S, k # 0 PROVE t[sib(k)] \in Values
  <2>1. sib(k) \in Nodes
    BY <1>1, <1>3, SiblingIsNode
  <2> QED  BY <1>2, <2>1
<1>4. t[<<0, leaf>>] \in Values
  <2>1. 0 \in S
    BY LengthIs
  <2>2. <<0, leaf>> \in Nodes
    BY <2>1, NodeFits, AboveIs
  <2> QED  BY <1>2, <2>2
<1>5. \A f : \A k \in S : RefreshStep(f, t, leaf, k) =
        IF k = 0 THEN t[<<0, leaf>>]
        ELSE IF Above(leaf, k - 1) % 2 = 0 THEN rebuild(k, f[k - 1], t[sib(k)])
                                           ELSE rebuild(k, t[sib(k)], f[k - 1])
  BY DEF RefreshStep, Above
<1> HIDE DEF sib
<1>6. ASSUME NEW f, NEW k \in S, k # 0 => f[k - 1] \in Values
      PROVE  RefreshStep(f, t, leaf, k) \in Values
  <2>1. CASE k = 0
    BY <1>4, <1>5, <2>1
  <2>2. CASE k # 0
    <3>1. k \in Nat /\ f[k - 1] \in Values /\ t[sib(k)] \in Values
      BY <1>1, <1>3, <1>6, <2>2
    <3>2. rebuild(k, f[k - 1], t[sib(k)]) \in Values /\ rebuild(k, t[sib(k)], f[k - 1]) \in Values
      BY ONLY <3>1, RebuildIs
    <3> QED  BY <1>5, <2>2, <3>2
  <2> QED  BY <2>1, <2>2
<1>7. D \in Maps(Ups, Ups)
  <2>1. ASSUME NEW f \in Ups, NEW k \in S PROVE RefreshStep(f, t, leaf, k) \in Values
    <3>1. k # 0 => f[k - 1] \in Values
      BY <1>1 DEF Maps
    <3> QED  BY <1>6, <3>1
  <2>2. \A f \in Ups : [k \in S |-> RefreshStep(f, t, leaf, k)] \in [S -> Values]
    BY <2>1
  <2>3. \A f \in Ups : [k \in S |-> RefreshStep(f, t, leaf, k)] \in Ups
    BY <2>2 DEF Maps
  <2>4. D \in [Ups -> Ups]
    <3> HIDE DEF Ups
    <3> QED  BY <2>3
  <2> QED  BY <2>4 DEF Maps
<1>8. ASSUME NEW g \in Ups, NEW h \in Ups, NEW k \in S,
             \A m \in S : rank[m] < rank[k] => g[m] = h[m]
      PROVE  D[g][k] = D[h][k]
  <2>1. k # 0 => g[k - 1] = h[k - 1]
    BY <1>1, <1>8
  <2>2. RefreshStep(g, t, leaf, k) = RefreshStep(h, t, leaf, k)
    BY <1>5, <2>1
  <2> QED  BY <2>2
<1>9. rank \in Maps(S, Nat) /\ Ups # {}
  <2>1. [k \in S |-> NoneFree] \in [S -> Values]
    BY MarksAre
  <2>2. rank \in [S -> Nat]
    BY LengthIs
  <2> QED  BY <2>1, <2>2 DEF Maps
<1>10. \E f \in Ups : D[f] = f
  <2> HIDE DEF D, rank, S
  <2> QED  BY <1>7, <1>8, <1>9, RecursiveFunctionExists
<1>11. PICK f \in Ups : D[f] = f
  BY <1>10
<1>12. f = [k \in S |-> RefreshStep(f, t, leaf, k)]
  BY <1>11
<1> DEFINE up == Refreshed(t, leaf)
<1>13. up = [k \in S |-> RefreshStep(up, t, leaf, k)]
  BY <1>12 DEF Refreshed
<1> HIDE DEF up
<1>14. \A k \in S : up[k] = RefreshStep(up, t, leaf, k)
  BY <1>13, Zenon
<1> DEFINE P == {k \in Nat : k \in S => up[k] \in Values}
<1>15. P \in SUBSET Nat /\ 0 \in P
  <2>1. 0 \in S => up[0] = t[<<0, leaf>>]
    BY <1>5, <1>14
  <2> QED  BY <1>4, <2>1
<1>16. ASSUME NEW k \in P PROVE k + 1 \in P
  <2> SUFFICES ASSUME k + 1 \in S PROVE up[k + 1] \in Values
    OBVIOUS
  <2>1. k \in S /\ k + 1 # 0 /\ (k + 1) - 1 = k
    BY LengthIs
  <2>2. up[k + 1] = RefreshStep(up, t, leaf, k + 1)
    BY <1>14
  <2>3. up[(k + 1) - 1] \in Values
    BY <2>1
  <2> QED  BY <1>6, <2>2, <2>3
<1>17. \A k \in Nat : k \in P
  <2> HIDE DEF P
  <2> QED  BY <1>15, <1>16, SetInduction
<1>18. \A k \in S : up[k] \in Values
  BY <1>17, LengthIs
<1> QED
  BY <1>14, <1>18 DEF up

LEMMA RefreshIs ==
  ASSUME NEW t \in Trees, NEW leaf \in Nat, leaf < LENGTH
  PROVE  /\ refresh_upwards(t, leaf) \in Trees
         /\ \A k, j : <<k, j>> \in Nodes /\ Above(leaf, k) # j
              => refresh_upwards(t, leaf)[<<k, j>>] = t[<<k, j>>]
         /\ refresh_upwards(t, leaf)[<<0, leaf>>] = t[<<0, leaf>>]
         /\ \A k \in Nat : k < Levels => Built(refresh_upwards(t, leaf), k + 1, Above(leaf, k + 1))
<1> DEFINE R == refresh_upwards(t, leaf)
           up == Refreshed(t, leaf)
<1>1. R = [n \in Nodes |-> IF Above(leaf, n[1]) = n[2] THEN up[n[1]] ELSE t[n]]
  BY DEF refresh_upwards, Refreshed, RefreshStep, Above
<1>2. \A k \in 0..Levels : up[k] = RefreshStep(up, t, leaf, k) /\ up[k] \in Values
  BY RefreshedExists
<1> HIDE DEF R, up
<1>3. \A k, j : <<k, j>> \in Nodes => R[<<k, j>>] = IF Above(leaf, k) = j THEN up[k] ELSE t[<<k, j>>]
  BY <1>1
<1>4. R \in Trees
  <2>1. ASSUME NEW n \in Nodes
        PROVE  (IF Above(leaf, n[1]) = n[2] THEN up[n[1]] ELSE t[n]) \in Values
    <3>1. t[n] \in Values
      BY DEF Trees, Maps
    <3>2. up[n[1]] \in Values
      BY <1>2, NodeIs
    <3> QED  BY <3>1, <3>2
  <2> QED  BY <1>1, <2>1 DEF Trees, Maps
<1>5. \A k \in 0..Levels : <<k, Above(leaf, k)>> \in Nodes
  BY NodeFits
<1>6. R[<<0, leaf>>] = t[<<0, leaf>>]
  <2>1. 0 \in 0..Levels /\ Above(leaf, 0) = leaf
    BY LengthIs, AboveIs
  <2>2. R[<<0, leaf>>] = up[0]
    BY <1>3, <1>5, <2>1
  <2>3. up[0] = RefreshStep(up, t, leaf, 0)
    BY <1>2, <2>1
  <2> QED  BY <2>2, <2>3 DEF RefreshStep
<1>7. ASSUME NEW k \in Nat, k < Levels PROVE Built(R, k + 1, Above(leaf, k + 1))
  <2> DEFINE a == Above(leaf, k)
             b == Above(leaf, k + 1)
             s == IF a % 2 = 0 THEN a + 1 ELSE a - 1
  <2>1. k \in 0..Levels /\ k + 1 \in 0..Levels /\ (k + 1) - 1 = k /\ k + 1 # 0
    BY <1>7, LengthIs
  <2>2. a \in Nat /\ b = a \div 2
    BY AboveIs
  <2>3. <<k, a>> \in Nodes /\ <<k, s>> \in Nodes /\ <<k + 1, b>> \in Nodes
    BY <1>5, <1>7, <2>1, SiblingIsNode
  <2>4. up[k + 1] = IF a % 2 = 0 THEN rebuild(k + 1, up[k], t[<<k, s>>])
                                 ELSE rebuild(k + 1, t[<<k, s>>], up[k])
    <3>1. up[k + 1] = RefreshStep(up, t, leaf, k + 1)
      BY <1>2, <2>1
    <3> QED  BY <2>1, <3>1 DEF RefreshStep, Above
  <2>5. R[<<k, a>>] = up[k] /\ R[<<k + 1, b>>] = up[k + 1]
    BY <1>3, <2>3
  <2>6. s # a
    <3> HIDE DEF a
    <3> QED  BY <2>2
  <2>7. R[<<k, s>>] = t[<<k, s>>]
    <3> HIDE DEF s
    <3> QED  BY <1>3, <2>3, <2>6
  <2> HIDE DEF a, b
  <2>8. CASE a % 2 = 0
    <3>1. 2 * b = a /\ 2 * b + 1 = s
      BY <2>2, <2>8, Siblings
    <3> HIDE DEF s
    <3>2. R[<<k + 1, b>>] = rebuild(k + 1, R[<<k, 2 * b>>], R[<<k, 2 * b + 1>>])
      BY <2>4, <2>5, <2>7, <2>8, <3>1
    <3> QED  BY <2>1, <3>2 DEF Built, b
  <2>9. CASE a % 2 # 0
    <3>1. 2 * b = s /\ 2 * b + 1 = a
      BY <2>2, <2>9, Siblings
    <3> HIDE DEF s
    <3>2. R[<<k + 1, b>>] = rebuild(k + 1, R[<<k, 2 * b>>], R[<<k, 2 * b + 1>>])
      BY <2>4, <2>5, <2>7, <2>9, <3>1
    <3> QED  BY <2>1, <3>2 DEF Built, b
  <2> QED  BY <2>8, <2>9
<1>8. \A k, j : <<k, j>> \in Nodes /\ Above(leaf, k) # j => R[<<k, j>>] = t[<<k, j>>]
  BY <1>3
<1> QED
  BY <1>4, <1>6, <1>7, <1>8 DEF R

\* The left children that the descent passes by.
Passed(k, i, len, m, j) == m < k /\ j % 2 = 0 /\ Above(LeafAfter(k, i, len), m) = j + 1

LEMMA LeafIs ==
  ASSUME NEW k, NEW i, <<k, i>> \in Nodes, NEW len \in Nat
  PROVE  /\ LeafAfter(k, i, len) \in Nat
         /\ LeafAfter(k, i, len) < LENGTH
         /\ Above(LeafAfter(k, i, len), k) = i
<1> DEFINE p == Pow2[k]
           b == i * p
           leaf == LeafAfter(k, i, len)
<1>1. /\ k \in Nat /\ i \in Nat /\ p \in Nat /\ b \in Nat /\ b + p <= LENGTH /\ LENGTH \in Nat
  BY NodeFits, LengthIs
<1>2. p >= 1
  BY <1>1, Pow2Is
<1>3. leaf = b + (IF len < p THEN len ELSE p - 1)
  BY DEF LeafAfter
<1> HIDE DEF p, leaf
<1>4. leaf \in Nat /\ leaf < LENGTH /\ b <= leaf /\ leaf < b + p
  <2> HIDE DEF b
  <2> QED  BY <1>1, <1>2, <1>3
<1>5. Above(leaf, k) = i
  BY <1>1, <1>4, AboveIs DEF p
<1> QED
  BY <1>4, <1>5 DEF leaf

LEMMA ModifyIs ==
  ASSUME NEW t \in Trees, NEW k, NEW i, <<k, i>> \in Nodes, NEW len \in Nat, NEW free \in BOOLEAN
  PROVE  /\ modify_prefix(t, k, i, len, free) \in Trees
         /\ \A m, j : <<m, j>> \in Nodes /\ Above(LeafAfter(k, i, len), m) # j
              => modify_prefix(t, k, i, len, free)[<<m, j>>]
                   = IF Passed(k, i, len, m, j) THEN modify_single(m, free) ELSE t[<<m, j>>]
         /\ modify_prefix(t, k, i, len, free)[<<0, LeafAfter(k, i, len)>>]
              = IF len >= Pow2[k] THEN modify_single(0, free) ELSE t[<<0, LeafAfter(k, i, len)>>]
         /\ \A m \in Nat : m < Levels
              => Built(modify_prefix(t, k, i, len, free), m + 1, Above(LeafAfter(k, i, len), m + 1))
<1> DEFINE leaf == LeafAfter(k, i, len)
           Marked(n) == \/ n[1] < k /\ n[2] % 2 = 0 /\ leaf \div Pow2[n[1]] = n[2] + 1
                        \/ n = <<0, leaf>> /\ len >= Pow2[k]
           u == [n \in Nodes |-> IF Marked(n) THEN modify_single(n[1], free) ELSE t[n]]
           M == modify_prefix(t, k, i, len, free)
<1>1. M = refresh_upwards(u, leaf)
  BY DEF modify_prefix
<1>2. leaf \in Nat /\ leaf < LENGTH /\ k \in Nat
  BY LeafIs, NodeFits
<1>3. u \in Trees
  <2>1. ASSUME NEW n \in Nodes PROVE (IF Marked(n) THEN modify_single(n[1], free) ELSE t[n]) \in Values
    <3>1. n[1] \in Nat
      BY NodeIs, LengthIs
    <3>2. modify_single(n[1], free) \in Values
      BY <3>1, MarksAre DEF modify_single
    <3>3. t[n] \in Values
      BY DEF Trees, Maps
    <3> HIDE DEF Marked
    <3> QED  BY <3>2, <3>3
  <2>2. u \in [Nodes -> Values]
    <3> HIDE DEF Marked
    <3> QED  BY <2>1
  <2> QED  BY <2>2 DEF Trees, Maps
<1>4. \A m, j : <<m, j>> \in Nodes /\ Above(leaf, m) # j
        => u[<<m, j>>] = IF Passed(k, i, len, m, j) THEN modify_single(m, free) ELSE t[<<m, j>>]
  <2> SUFFICES ASSUME NEW m, NEW j, <<m, j>> \in Nodes, Above(leaf, m) # j
               PROVE  Marked(<<m, j>>) <=> Passed(k, i, len, m, j)
    OBVIOUS
  <2>1. Above(leaf, 0) = leaf
    BY <1>2, AboveIs
  <2>2. <<m, j>> # <<0, leaf>>
    <3> HIDE DEF leaf
    <3> QED  BY <2>1
  <2>3. Marked(<<m, j>>) <=> m < k /\ j % 2 = 0 /\ leaf \div Pow2[m] = j + 1
    BY <2>2
  <2> QED  BY <2>3 DEF Passed, Above
<1>5. u[<<0, leaf>>] = IF len >= Pow2[k] THEN modify_single(0, free) ELSE t[<<0, leaf>>]
  <2>1. <<0, leaf>> \in Nodes
    <3>1. Above(leaf, 0) = leaf /\ 0 \in 0..Levels
      BY <1>2, AboveIs, LengthIs
    <3> QED  BY <1>2, <3>1, NodeFits
  <2>2. ~(leaf \div Pow2[0] = leaf + 1)
    <3>1. leaf \div Pow2[0] = leaf
      BY <1>2, AboveIs DEF Above
    <3> HIDE DEF leaf
    <3> QED  BY <1>2, <3>1
  <2>3. Marked(<<0, leaf>>) <=> len >= Pow2[k]
    BY <2>2
  <2>4. u[<<0, leaf>>] = IF Marked(<<0, leaf>>) THEN modify_single(0, free) ELSE t[<<0, leaf>>]
    BY <2>1
  <2> HIDE DEF Marked, leaf, u
  <2> QED  BY <2>3, <2>4
<1> HIDE DEF M, u
<1>6. /\ M \in Trees
      /\ \A m, j : <<m, j>> \in Nodes /\ Above(leaf, m) # j => M[<<m, j>>] = u[<<m, j>>]
      /\ M[<<0, leaf>>] = u[<<0, leaf>>]
      /\ \A m \in Nat : m < Levels => Built(M, m + 1, Above(leaf, m + 1))
  <2> HIDE DEF leaf
  <2> QED  BY <1>1, <1>2, <1>3, RefreshIs
<1>7. \A m, j : <<m, j>> \in Nodes /\ Above(leaf, m) # j
        => M[<<m, j>>] = IF Passed(k, i, len, m, j) THEN modify_single(m, free) ELSE t[<<m, j>>]
  <2> HIDE DEF leaf
  <2> QED  BY <1>4, <1>6
<1>8. M[<<0, leaf>>] = IF len >= Pow2[k] THEN modify_single(0, free) ELSE t[<<0, leaf>>]
  BY <1>5, <1>6
<1> QED
  BY <1>6, <1>7, <1>8 DEF M

-----------------------------------------------------------------------------
(* A tree from which runs were only taken                                  *)

\* An inner node is marked, or is what its children make it.
WellFormed(t) ==
    /\ t \in Trees
    /\ \A j : <<0, j>> \in Nodes => t[<<0, j>>].left = t[<<0, j>>].max
    /\ \A n \in Nodes : t[n].left <= t[n].max
    /\ \A k, j \in Nat : <<k + 1, j>> \in Nodes => t[<<k + 1, j>>] = NoneFree \/ Built(t, k + 1, j)

\* Below a node with free chunks at its left end nothing was ever taken.
Clean(c, t, C) ==
    /\ C \subseteq Nodes
    /\ \A k, j \in Nat : <<k + 1, j>> \in C => <<k, 2 * j>> \in C /\ <<k, 2 * j + 1>> \in C
    /\ \A n \in C : t[n] = Fresh(c)[n]
    /\ \A n \in Nodes : t[n].left > 0 => n \in C

Sound(c, t) == WellFormed(t) /\ \E C \in SUBSET Nodes : Clean(c, t, C)

LEMMA FreshIsSound ==
  ASSUME NEW c \in BOOLEAN
  PROVE  Sound(c, Fresh(c))
<1> DEFINE f == Fresh(c)
<1>1. /\ f \in Trees
      /\ \A k, j : <<k, j>> \in Nodes => /\ Share(c, k, j) \in Nat
                                         /\ f[<<k, j>>].left = Share(c, k, j)
                                         /\ f[<<k, j>>].max = Share(c, k, j)
      /\ \A k, j \in Nat : <<k + 1, j>> \in Nodes => Built(f, k + 1, j)
  BY FreshIs
<1> HIDE DEF f
<1>2. ASSUME NEW n \in Nodes PROVE f[n].left <= f[n].max
  <2>1. n = <<n[1], n[2]>>
    BY NodeIs
  <2>2. Share(c, n[1], n[2]) \in Nat /\ f[n].left = Share(c, n[1], n[2]) /\ f[n].max = Share(c, n[1], n[2])
    BY <1>1, <2>1
  <2> QED  BY <2>2
<1>3. WellFormed(f)
  BY <1>1, <1>2 DEF WellFormed
<1>4. Clean(c, f, Nodes)
  BY Family DEF Clean, f
<1> QED
  BY <1>3, <1>4 DEF Sound, f

-----------------------------------------------------------------------------
(* Where take goes                                                         *)

PathStep(at, t, len, k) ==
    IF k = Levels THEN 0
    ELSE 2 * at[k + 1] + (IF t[<<k, 2 * at[k + 1]>>].max < len THEN 1 ELSE 0)

LEMMA TakePathIs ==
  ASSUME NEW t \in Trees, NEW len \in Nat
  PROVE  /\ \A k \in 0..Levels : <<k, TakePath(t, len)[k]>> \in Nodes
         /\ TakePath(t, len)[Levels] = 0
         /\ \A k \in 0..Levels : k < Levels =>
              /\ TakePath(t, len)[k] = PathStep(TakePath(t, len), t, len, k)
              /\ TakePath(t, len)[k] \div 2 = TakePath(t, len)[k + 1]
<1> DEFINE S == 0..Levels
           Ats == Maps(S, Nat)
           D == [f \in Ats |-> [k \in S |-> PathStep(f, t, len, k)]]
           rank == [k \in S |-> Levels - k]
<1>1. Levels \in Nat
  BY LengthIs
<1>2. ASSUME NEW k \in S, k # Levels PROVE k + 1 \in S /\ rank[k + 1] < rank[k] /\ k \in Nat
  BY <1>1, <1>2
<1>3. D \in Maps(Ats, Ats)
  <2>1. ASSUME NEW f \in Ats, NEW k \in S PROVE PathStep(f, t, len, k) \in Nat
    <3>1. CASE k = Levels
      BY <3>1 DEF PathStep
    <3>2. CASE k # Levels
      <4>1. f[k + 1] \in Nat
        BY <1>2, <3>2 DEF Maps
      <4> QED  BY <3>2, <4>1 DEF PathStep
    <3> QED  BY <3>1, <3>2
  <2>2. \A f \in Ats : [k \in S |-> PathStep(f, t, len, k)] \in [S -> Nat]
    BY <2>1
  <2>3. \A f \in Ats : [k \in S |-> PathStep(f, t, len, k)] \in Ats
    BY <2>2 DEF Maps
  <2>4. D \in [Ats -> Ats]
    <3> HIDE DEF Ats
    <3> QED  BY <2>3
  <2> QED  BY <2>4 DEF Maps
<1>4. ASSUME NEW g \in Ats, NEW h \in Ats, NEW k \in S,
             \A m \in S : rank[m] < rank[k] => g[m] = h[m]
      PROVE  D[g][k] = D[h][k]
  <2>1. k # Levels => g[k + 1] = h[k + 1]
    <3> HIDE DEF rank
    <3> QED  BY <1>2, <1>4
  <2>2. PathStep(g, t, len, k) = PathStep(h, t, len, k)
    BY <2>1 DEF PathStep
  <2> QED  BY <2>2
<1>5. rank \in Maps(S, Nat) /\ Ats # {}
  <2>1. [k \in S |-> 0] \in [S -> Nat]
    OBVIOUS
  <2>2. rank \in [S -> Nat]
    BY <1>1
  <2> QED  BY <2>1, <2>2 DEF Maps
<1>6. \E f \in Ats : D[f] = f
  <2> HIDE DEF D, rank, S
  <2> QED  BY <1>3, <1>4, <1>5, RecursiveFunctionExists
<1>7. PICK f \in Ats : D[f] = f
  BY <1>6
<1>8. f = [k \in S |-> PathStep(f, t, len, k)]
  BY <1>7
<1> DEFINE at == TakePath(t, len)
<1>9. at = CHOOSE g : g = [k \in S |-> PathStep(g, t, len, k)]
  BY DEF TakePath, PathStep
<1> HIDE DEF at
<1>10. at = [k \in S |-> PathStep(at, t, len, k)]
  BY <1>8, <1>9
<1>11. \A k \in S : at[k] = PathStep(at, t, len, k)
  BY <1>10, Zenon
<1>12. at[Levels] = 0
  <2>1. Levels \in S
    BY <1>1
  <2> QED  BY <1>11, <2>1 DEF PathStep
<1> DEFINE P == {d \in Nat : d <= Levels => <<Levels - d, at[Levels - d]>> \in Nodes}
<1>13. P \in SUBSET Nat /\ 0 \in P
  <2>1. 0 < Pow2[Levels - Levels] /\ Levels - 0 = Levels
    BY <1>1, Pow2Is
  <2>2. <<Levels, 0>> \in Nodes
    BY <1>1, <2>1, NodeIs
  <2> QED  BY <1>12, <2>1, <2>2
<1>14. ASSUME NEW k \in S, k # Levels, <<k + 1, at[k + 1]>> \in Nodes
       PROVE  /\ <<k, at[k]>> \in Nodes
              /\ at[k] \div 2 = at[k + 1]
  <2>1. at[k + 1] \in Nat /\ k \in Nat
    BY <1>2, <1>14, NodeIs
  <2>2. at[k] = 2 * at[k + 1] \/ at[k] = 2 * at[k + 1] + 1
    <3>1. at[k] = 2 * at[k + 1] + (IF t[<<k, 2 * at[k + 1]>>].max < len THEN 1 ELSE 0)
      BY <1>11, <1>14 DEF PathStep
    <3>2. 2 * at[k + 1] + 0 = 2 * at[k + 1]
      BY <2>1
    <3> QED  BY <3>1, <3>2
  <2> QED  BY <1>14, <2>1, <2>2, Family, Siblings
<1>15. ASSUME NEW d \in P PROVE d + 1 \in P
  <2> SUFFICES ASSUME d + 1 <= Levels PROVE <<Levels - (d + 1), at[Levels - (d + 1)]>> \in Nodes
    OBVIOUS
  <2> DEFINE k == Levels - (d + 1)
  <2>1. k \in S /\ k # Levels /\ k + 1 = Levels - d /\ d <= Levels
    BY <1>1
  <2> HIDE DEF k
  <2>2. <<k + 1, at[k + 1]>> \in Nodes
    BY <2>1
  <2>3. <<k, at[k]>> \in Nodes
    BY <1>14, <2>1, <2>2
  <2> QED  BY <2>3 DEF k
<1>16. \A d \in Nat : d \in P
  <2> HIDE DEF P
  <2> QED  BY <1>13, <1>15, SetInduction
<1>17. \A k \in S : <<k, at[k]>> \in Nodes
  <2> SUFFICES ASSUME NEW k \in S PROVE <<k, at[k]>> \in Nodes
    OBVIOUS
  <2>1. Levels - k \in Nat /\ Levels - k <= Levels /\ Levels - (Levels - k) = k
    BY <1>1
  <2>2. Levels - k \in P
    BY <1>16, <2>1
  <2> QED  BY <2>1, <2>2
<1>18. \A k \in S : k < Levels => at[k] = PathStep(at, t, len, k) /\ at[k] \div 2 = at[k + 1]
  <2> SUFFICES ASSUME NEW k \in S, k < Levels PROVE at[k] \div 2 = at[k + 1]
    BY <1>11
  <2>1. k # Levels /\ k + 1 \in S
    BY <1>1
  <2>2. <<k + 1, at[k + 1]>> \in Nodes
    BY <1>17, <2>1
  <2> QED  BY <1>14, <2>1, <2>2
<1> QED
  BY <1>12, <1>17, <1>18 DEF at

\* A node with free chunks at its left end is as in a fresh tree.
LEMMA FreeNodeIs ==
  ASSUME NEW c \in BOOLEAN, NEW t, Sound(c, t), NEW k, NEW j, <<k, j>> \in Nodes, t[<<k, j>>].left > 0
  PROVE  /\ t[<<k, j>>].left = Share(c, k, j) /\ t[<<k, j>>].max = Share(c, k, j)
         /\ Share(c, k, j) \in Nat
<1>1. PICK C \in SUBSET Nodes : Clean(c, t, C)
  BY DEF Sound
<1>2. t[<<k, j>>] = Fresh(c)[<<k, j>>]
  BY <1>1 DEF Clean
<1> QED
  BY <1>2, FreshIs

LEMMA DescentIs ==
  ASSUME NEW c \in BOOLEAN, NEW t, Sound(c, t), NEW len \in Nat, len >= 1, Fits(t, len)
  PROVE  /\ TakeLevel(t, len) \in 0..Levels
         /\ <<TakeLevel(t, len), TakePath(t, len)[TakeLevel(t, len)]>> \in Nodes
         /\ t[<<TakeLevel(t, len), TakePath(t, len)[TakeLevel(t, len)]>>].left >= len
         /\ \A x \in Nat : Above(x, TakeLevel(t, len)) = TakePath(t, len)[TakeLevel(t, len)] =>
              \A m \in 0..Levels : m > TakeLevel(t, len) =>
                t[<<m, Above(x, m)>>].left = 0 /\ t[<<m, Above(x, m)>>].max >= len
<1> DEFINE at == TakePath(t, len)
           node(m) == t[<<m, at[m]>>]
           Short(m) == \A i \in 0..Levels : i >= m => node(i).left < len
           ok == {m \in 0..Levels : node(m).left >= len}
<1>1. t \in Trees /\ Levels \in Nat
  BY LengthIs DEF Sound, WellFormed
<1>2. /\ \A m \in 0..Levels : <<m, at[m]>> \in Nodes
      /\ at[Levels] = 0
      /\ \A m \in 0..Levels : m < Levels =>
           at[m] = PathStep(at, t, len, m) /\ at[m] \div 2 = at[m + 1]
  BY <1>1, TakePathIs
<1> HIDE DEF at
<1>3. \A n \in Nodes : t[n] \in Values /\ t[n].left \in Nat /\ t[n].max \in Nat
  BY <1>1 DEF Trees, Maps, Values
<1>4. \A m \in 0..Levels : node(m).left \in Nat /\ node(m).max \in Nat
  BY <1>2, <1>3
<1> DEFINE P == {d \in Nat : d <= Levels /\ Short(Levels - d) => node(Levels - d).max >= len}
<1>5. P \in SUBSET Nat /\ 0 \in P
  <2>1. Levels - 0 = Levels
    BY <1>1
  <2> QED  BY <1>2, <2>1 DEF Fits
<1>6. ASSUME NEW m \in 0..Levels, m < Levels, Short(m), node(m + 1).max >= len
      PROVE  node(m).max >= len
  <2> DEFINE a == at[m + 1]
             l == t[<<m, 2 * a>>]
             r == t[<<m, 2 * a + 1>>]
  <2>1. m \in Nat /\ m + 1 \in 0..Levels /\ (m + 1) - 1 = m /\ a \in Nat /\ <<m + 1, a>> \in Nodes
    BY <1>1, <1>2, <1>6, NodeIs
  <2>2. <<m, 2 * a>> \in Nodes /\ <<m, 2 * a + 1>> \in Nodes
    <3> HIDE DEF a
    <3> QED  BY <2>1, Family
  <2>3. t[<<m + 1, a>>] # NoneFree
    BY <1>6 DEF NoneFree
  <2>4. Built(t, m + 1, a)
    <3> HIDE DEF a
    <3> QED  BY <2>1, <2>3 DEF Sound, WellFormed
  <2>5. node(m + 1) = rebuild(m + 1, l, r)
    BY <2>1, <2>4 DEF Built
  <2>6. at[m] = 2 * a + (IF l.max < len THEN 1 ELSE 0)
    BY <1>2, <1>6 DEF PathStep
  <2>7. l.left \in Nat /\ l.max \in Nat /\ r.left \in Nat /\ r.max \in Nat
    BY <1>3, <2>2
  <2>8. node(m + 1).left < len
    BY <1>6, <2>1
  <2>9. CASE l.left = Pow2[m]
    <3>1. node(m + 1) = [left |-> l.left + r.left, max |-> l.left + r.left]
      BY <2>1, <2>5, <2>9 DEF rebuild
    <3>2. node(m + 1).left = node(m + 1).max
      <4> HIDE DEF node, l, r
      <4> QED  BY <3>1
    <3>3. node(m + 1).max \in Nat /\ node(m + 1).left \in Nat
      BY <1>4, <2>1
    <3> HIDE DEF node
    <3> QED  BY <1>6, <2>8, <3>2, <3>3
  <2>10. CASE l.left # Pow2[m]
    <3>1. node(m + 1) = [left |-> l.left, max |-> Larger(l.max, r.max)]
      BY <2>1, <2>5, <2>10 DEF rebuild
    <3>2. node(m + 1).max = Larger(l.max, r.max)
      <4> HIDE DEF node, l, r
      <4> QED  BY <3>1
    <3>3. Larger(l.max, r.max) >= len
      BY <1>6, <3>2
    <3>4. CASE l.max < len
      <4>1. at[m] = 2 * a + 1
        BY <2>6, <3>4
      <4>2. node(m) = r
        BY <4>1
      <4>3. r.max >= len
        <5> HIDE DEF l, r
        <5> QED  BY <2>7, <3>3, <3>4 DEF Larger
      <4> QED  BY <4>2, <4>3
    <3>5. CASE ~(l.max < len)
      <4>1. at[m] = 2 * a
        BY <2>1, <2>6, <3>5
      <4>2. node(m) = l
        BY <4>1
      <4>3. l.max >= len
        <5> HIDE DEF l, r
        <5> QED  BY <2>7, <3>5
      <4> QED  BY <4>2, <4>3
    <3> QED  BY <3>4, <3>5
  <2> QED  BY <2>9, <2>10
<1>7. ASSUME NEW d \in P PROVE d + 1 \in P
  <2> SUFFICES ASSUME d + 1 <= Levels, Short(Levels - (d + 1))
               PROVE  node(Levels - (d + 1)).max >= len
    OBVIOUS
  <2> DEFINE m == Levels - (d + 1)
  <2>1. m \in 0..Levels /\ m < Levels /\ m + 1 = Levels - d /\ d <= Levels /\ Short(m)
    BY <1>1
  <2> HIDE DEF m
  <2>2. Short(m + 1)
    BY <2>1
  <2>3. node(m + 1).max >= len
    <3> HIDE DEF Short, node
    <3> QED  BY <2>1, <2>2
  <2>4. node(m).max >= len
    <3> HIDE DEF Short, node
    <3> QED  BY <1>6, <2>1, <2>3
  <2> QED  BY <2>4 DEF m
<1>8. \A d \in Nat : d \in P
  <2> HIDE DEF P
  <2> QED  BY <1>5, <1>7, SetInduction
<1>9. \A m \in 0..Levels : Short(m) => node(m).max >= len
  <2> SUFFICES ASSUME NEW m \in 0..Levels, Short(m) PROVE node(m).max >= len
    OBVIOUS
  <2>1. Levels - m \in Nat /\ Levels - m <= Levels /\ Levels - (Levels - m) = m
    BY <1>1
  <2>2. Levels - m \in P
    BY <1>8, <2>1
  <2> HIDE DEF Short, node
  <2> QED  BY <2>1, <2>2
<1>10. ok # {}
  <2>1. SUFFICES ASSUME \A m \in 0..Levels : node(m).left < len PROVE FALSE
    <3>1. \A m \in 0..Levels : ~(node(m).left >= len) => node(m).left < len
      BY <1>4
    <3> HIDE DEF node
    <3> QED  BY <2>1, <3>1
  <2>2. 0 \in 0..Levels /\ Short(0)
    BY <1>1, <2>1
  <2>3. node(0).max >= len /\ node(0).left < len
    <3> HIDE DEF Short, node
    <3> QED  BY <1>9, <2>1, <2>2
  <2>4. node(0).left = node(0).max
    BY <1>2, <2>2 DEF Sound, WellFormed
  <2>5. node(0).left \in Nat
    BY <1>4, <2>2
  <2> HIDE DEF node
  <2> QED  BY <2>3, <2>4, <2>5
<1> DEFINE k == TakeLevel(t, len)
<1>11. k \in ok /\ \A i \in ok : i <= k
  <2>1. \E b \in ok : \A i \in ok : i <= b
    <3>1. ok \in SUBSET (0..Levels)
      OBVIOUS
    <3> HIDE DEF ok
    <3> QED  BY <1>1, <1>10, <3>1, LargestExists
  <2>2. k = CHOOSE b \in ok : \A i \in ok : i <= b
    BY DEF TakeLevel, at
  <2> HIDE DEF ok, k
  <2> QED  BY <2>1, <2>2
<1> HIDE DEF k
<1>12. k \in 0..Levels /\ node(k).left >= len
  BY <1>11
<1>13. ASSUME NEW m \in 0..Levels, m > k PROVE node(m).left = 0 /\ node(m).max >= len
  <2>1. \A i \in 0..Levels : i >= m => node(i).left < len
    <3> SUFFICES ASSUME NEW i \in 0..Levels, i >= m PROVE node(i).left < len
      OBVIOUS
    <3>1. i \notin ok
      BY <1>11, <1>12, <1>13
    <3>2. ~(node(i).left >= len) /\ node(i).left \in Nat
      BY <1>4, <3>1
    <3> HIDE DEF node
    <3> QED  BY <3>2
  <2>2. node(m).max >= len /\ node(m).left < len
    <3>1. Short(m) /\ m >= m
      BY <2>1
    <3> HIDE DEF node, Short
    <3> QED  BY <1>9, <2>1, <3>1
  <2>3. <<m, at[m]>> \in Nodes
    BY <1>2
  <2>4. node(m).left > 0 => node(m).left = node(m).max
    BY <2>3, FreeNodeIs
  <2>5. node(m).left \in Nat /\ node(m).max \in Nat
    BY <1>4
  <2> HIDE DEF node
  <2> QED  BY <2>2, <2>4, <2>5
<1>14. ASSUME NEW x \in Nat, Above(x, k) = at[k] PROVE \A m \in 0..Levels : m >= k => Above(x, m) = at[m]
  <2> DEFINE Q == {d \in Nat : k + d <= Levels => Above(x, k + d) = at[k + d]}
  <2>1. Q \in SUBSET Nat /\ 0 \in Q
    BY <1>12, <1>14
  <2>2. ASSUME NEW d \in Q PROVE d + 1 \in Q
    <3> SUFFICES ASSUME k + (d + 1) <= Levels PROVE Above(x, k + (d + 1)) = at[k + (d + 1)]
      OBVIOUS
    <3> DEFINE m == k + d
    <3>1. m \in 0..Levels /\ m < Levels /\ m \in Nat /\ k + (d + 1) = m + 1
      BY <1>1, <1>12
    <3>2. Above(x, m) = at[m]
      BY <3>1
    <3> HIDE DEF m
    <3>3. at[m] \div 2 = at[m + 1]
      BY <1>2, <3>1
    <3>4. Above(x, m + 1) = Above(x, m) \div 2
      BY <3>1, AboveIs
    <3> QED  BY <3>1, <3>2, <3>3, <3>4
  <2>3. \A d \in Nat : d \in Q
    <3> HIDE DEF Q
    <3> QED  BY <2>1, <2>2, SetInduction
  <2> SUFFICES ASSUME NEW m \in 0..Levels, m >= k PROVE Above(x, m) = at[m]
    OBVIOUS
  <2>4. m - k \in Nat /\ k + (m - k) = m
    BY <1>1, <1>12
  <2>5. m - k \in Q
    BY <2>3, <2>4
  <2> QED  BY <1>1, <2>4, <2>5
<1>15. ASSUME NEW x \in Nat, Above(x, k) = at[k], NEW m \in 0..Levels, m > k
       PROVE  t[<<m, Above(x, m)>>].left = 0 /\ t[<<m, Above(x, m)>>].max >= len
  <2>1. Above(x, m) = at[m]
    BY <1>12, <1>14, <1>15
  <2> QED  BY <1>13, <1>15, <2>1
<1> QED
  BY <1>2, <1>12, <1>15 DEF at, k

-----------------------------------------------------------------------------
(* What take leaves                                                        *)

\* Node <<k, i>> is where the descent for a run of len stops.
Takes(c, t, len, k, i) ==
    /\ Sound(c, t)
    /\ len \in Nat /\ len >= 1
    /\ <<k, i>> \in Nodes
    /\ t[<<k, i>>].left >= len
    /\ \A x \in Nat : Above(x, k) = i =>
         \A m \in 0..Levels : m > k => t[<<m, Above(x, m)>>].left = 0 /\ t[<<m, Above(x, m)>>].max >= len

\* A node whose subtree the call leaves as it was although the leaf is in it.
Kept(k, i, len, m) ==
    /\ m < k /\ len < Pow2[k]
    /\ LeafAfter(k, i, len) = Above(LeafAfter(k, i, len), m) * Pow2[m]

\* The nodes over a chunk, below one that is clean, are clean.
LEMMA PathIsClean ==
  ASSUME NEW c, NEW t, NEW C, Clean(c, t, C), NEW k \in Nat, NEW x \in Nat, <<k, Above(x, k)>> \in C
  PROVE  \A m \in 0..k : <<m, Above(x, m)>> \in C
<1> DEFINE P == {d \in Nat : d <= k => <<k - d, Above(x, k - d)>> \in C}
<1>1. P \in SUBSET Nat /\ 0 \in P
  <2>1. k - 0 = k
    OBVIOUS
  <2> QED  BY <2>1
<1>2. ASSUME NEW d \in P PROVE d + 1 \in P
  <2> SUFFICES ASSUME d + 1 <= k PROVE <<k - (d + 1), Above(x, k - (d + 1))>> \in C
    OBVIOUS
  <2> DEFINE m == k - (d + 1)
  <2>1. m \in Nat /\ m + 1 = k - d /\ d <= k
    OBVIOUS
  <2> HIDE DEF m
  <2>2. <<m + 1, Above(x, m + 1)>> \in C
    BY <2>1
  <2>3. Above(x, m + 1) = Above(x, m) \div 2 /\ Above(x, m) \in Nat /\ Above(x, m + 1) \in Nat
    <3>1. m + 1 \in Nat
      BY <2>1
    <3> QED  BY <2>1, <3>1, AboveIs
  <2>4. <<m, 2 * Above(x, m + 1)>> \in C /\ <<m, 2 * Above(x, m + 1) + 1>> \in C
    BY <2>1, <2>2, <2>3 DEF Clean
  <2>5. Above(x, m) = 2 * Above(x, m + 1) \/ Above(x, m) = 2 * Above(x, m + 1) + 1
    BY <2>3, Siblings
  <2>6. <<m, Above(x, m)>> \in C
    BY <2>4, <2>5
  <2> QED  BY <2>6 DEF m
<1>3. \A d \in Nat : d \in P
  <2> HIDE DEF P
  <2> QED  BY <1>1, <1>2, SetInduction
<1>4. ASSUME NEW m \in 0..k PROVE <<m, Above(x, m)>> \in C
  <2>1. k - m \in Nat /\ k - m <= k /\ k - (k - m) = m
    OBVIOUS
  <2>2. k - m \in P
    BY <1>3, <2>1
  <2> QED  BY <2>1, <2>2
<1> QED
  BY <1>4

\* What both kinds of children make of a node.
LEMMA RebuiltIs ==
  ASSUME NEW k \in Nat, NEW l \in Values, NEW r \in Values
  PROVE  /\ l.left = 0 => rebuild(k + 1, l, r).left = 0
         /\ rebuild(k + 1, l, r).left = 0 => l.left = 0
         /\ l.left <= l.max /\ r.left <= r.max
              => rebuild(k + 1, l, r).left <= rebuild(k + 1, l, r).max
         /\ rebuild(k + 1, l, r).max = 0 => l.max = 0 /\ r.max = 0
         /\ l.left <= l.max /\ l.max = 0 /\ r.max = 0 => rebuild(k + 1, l, r).max = 0
         /\ rebuild(k + 1, l, r).left \in Nat /\ rebuild(k + 1, l, r).max \in Nat
<1>1. l.left \in Nat /\ l.max \in Nat /\ r.left \in Nat /\ r.max \in Nat
  BY DEF Values
<1>2. Pow2[k] \in Nat /\ Pow2[k] >= 1 /\ (k + 1) - 1 = k
  BY Pow2Is
<1>3. CASE l.left = Pow2[k]
  <2>1. rebuild(k + 1, l, r).left = l.left + r.left /\ rebuild(k + 1, l, r).max = l.left + r.left
    BY <1>2, <1>3 DEF rebuild
  <2> QED  BY <1>1, <1>2, <1>3, <2>1
<1>4. CASE l.left # Pow2[k]
  <2>1. rebuild(k + 1, l, r).left = l.left /\ rebuild(k + 1, l, r).max = Larger(l.max, r.max)
    BY <1>2, <1>4 DEF rebuild
  <2>2. Larger(l.max, r.max) \in Nat /\ Larger(l.max, r.max) >= l.max /\ Larger(l.max, r.max) >= r.max
        /\ (Larger(l.max, r.max) = l.max \/ Larger(l.max, r.max) = r.max)
    BY <1>1 DEF Larger
  <2> QED  BY <1>1, <1>2, <2>1, <2>2
<1> QED
  BY <1>3, <1>4

\* What lies at and above the leaf, and where the run is.
LEMMA TakeFacts ==
  ASSUME NEW c \in BOOLEAN, NEW t, NEW len, NEW k, NEW i, Takes(c, t, len, k, i)
  PROVE  /\ t \in Trees /\ k \in Nat /\ k <= Levels /\ i \in Nat /\ i * Pow2[k] \in Nat
         /\ len <= Pow2[k] /\ i * Pow2[k] + len <= Total(c)
         /\ LeafAfter(k, i, len) \in Nat /\ LeafAfter(k, i, len) < LENGTH
         /\ Above(LeafAfter(k, i, len), k) = i
         /\ k > 0 => LeafAfter(k, i, len) > i * Pow2[k]
<1>1. t \in Trees /\ len \in Nat /\ len >= 1 /\ <<k, i>> \in Nodes /\ Sound(c, t)
  BY DEF Takes, Sound, WellFormed
<1>2. k \in Nat /\ i \in Nat /\ k <= Levels /\ i * Pow2[k] \in Nat /\ Pow2[k] \in Nat
  BY <1>1, NodeFits, NodeIs, LengthIs
<1>3. t[<<k, i>>].left >= len /\ t[<<k, i>>].left \in Nat
  <2>1. t[<<k, i>>] \in Values
    BY <1>1 DEF Trees, Maps
  <2> QED  BY <2>1 DEF Takes, Values
<1>4. Share(c, k, i) >= len
  <2>1. t[<<k, i>>].left > 0
    BY <1>1, <1>3
  <2>2. t[<<k, i>>].left = Share(c, k, i)
    BY <1>1, <2>1, FreeNodeIs
  <2> QED  BY <1>3, <2>2
<1>5. len <= Pow2[k] /\ i * Pow2[k] + len <= Total(c)
  <2> DEFINE b == i * Pow2[k]
             p == Pow2[k]
             T == Total(c)
  <2>1. Share(c, k, i) = IF T <= b THEN 0 ELSE IF b + p <= T THEN p ELSE T - b
    BY DEF Share
  <2>2. T \in Nat
    BY LengthIs DEF Total
  <2>3. b \in Nat /\ p \in Nat
    BY <1>2
  <2> HIDE DEF b, p, T
  <2>4. len <= p /\ b + len <= T
    BY <1>1, <1>4, <2>1, <2>2, <2>3
  <2> QED  BY <2>4 DEF b, p, T
<1>6. /\ LeafAfter(k, i, len) \in Nat
      /\ LeafAfter(k, i, len) < LENGTH
      /\ Above(LeafAfter(k, i, len), k) = i
  BY <1>1, LeafIs
<1>7. k > 0 => LeafAfter(k, i, len) > i * Pow2[k]
  <2> SUFFICES ASSUME k > 0 PROVE LeafAfter(k, i, len) > i * Pow2[k]
    OBVIOUS
  <2> DEFINE b == i * Pow2[k]
             p == Pow2[k]
  <2>1. p > 1
    BY <1>2, Pow2Grows
  <2>2. LeafAfter(k, i, len) = b + (IF len < p THEN len ELSE p - 1)
    BY DEF LeafAfter
  <2>3. b \in Nat /\ p \in Nat
    BY <1>2
  <2> HIDE DEF b, p
  <2>4. LeafAfter(k, i, len) > b
    BY <1>1, <2>1, <2>2, <2>3
  <2> QED  BY <2>4 DEF b
<1> QED
  BY <1>1, <1>2, <1>5, <1>6, <1>7

\* A kept node begins at the leaf, as does its left child, also kept.
LEMMA KeptIs ==
  ASSUME NEW k \in Nat, NEW i, NEW len, LeafAfter(k, i, len) \in Nat, NEW m \in Nat
  PROVE  /\ Kept(k, i, len, m + 1) =>
              /\ Kept(k, i, len, m)
              /\ Above(LeafAfter(k, i, len), m) = 2 * Above(LeafAfter(k, i, len), m + 1)
         /\ Kept(k, i, len, m) /\ Above(LeafAfter(k, i, len), m) % 2 = 0 =>
              LeafAfter(k, i, len) = Above(LeafAfter(k, i, len), m + 1) * Pow2[m + 1]
<1> DEFINE x == LeafAfter(k, i, len)
           a == Above(x, m)
           b == Above(x, m + 1)
           p == Pow2[m]
<1>1. p \in Nat /\ p >= 1 /\ Pow2[m + 1] = 2 * p /\ m + 1 \in Nat
  BY Pow2Is
<1>2. x \in Nat
  OBVIOUS
<1> HIDE DEF x
<1>3. a \in Nat /\ b \in Nat /\ b = a \div 2 /\ \A j \in Nat : j * p <= x /\ x < j * p + p => a = j
  BY <1>1, <1>2, AboveIs
<1>4. b * (2 * p) = (2 * b) * p /\ (2 * b) * p \in Nat
  <2> HIDE DEF p, b
  <2> QED  BY <1>1, <1>3, Products
<1>5. ASSUME Kept(k, i, len, m + 1) PROVE Kept(k, i, len, m) /\ a = 2 * b
  <2>1. m + 1 < k /\ len < Pow2[k] /\ x = b * (2 * p)
    BY <1>1, <1>5 DEF Kept, x
  <2> HIDE DEF a, b, p
  <2>2. x = (2 * b) * p
    BY <1>4, <2>1
  <2>3. (2 * b) * p <= x /\ x < (2 * b) * p + p /\ 2 * b \in Nat
    <3> DEFINE y == (2 * b) * p
    <3>1. y \in Nat /\ x = y
      BY <1>4, <2>2
    <3> HIDE DEF y
    <3>2. y <= x /\ x < y + p
      BY <1>1, <3>1
    <3> QED  BY <1>3, <3>2 DEF y
  <2>4. a = 2 * b
    BY <1>3, <2>3
  <2>5. m < k /\ x = a * p
    BY <2>1, <2>2, <2>4
  <2> QED  BY <2>1, <2>4, <2>5 DEF Kept, x, a, p
<1>6. ASSUME Kept(k, i, len, m), a % 2 = 0 PROVE x = b * Pow2[m + 1]
  <2>1. x = a * p
    BY <1>6 DEF Kept, x
  <2> HIDE DEF a, b, p
  <2>2. a = 2 * b
    BY <1>3, <1>6, Siblings
  <2> QED  BY <1>1, <1>4, <2>1, <2>2
<1> QED
  BY <1>5, <1>6 DEF x

\* Over the leaf nodes are kept, or have no free chunk at their left end.
LEMMA PathAfterTake ==
  ASSUME NEW c \in BOOLEAN, NEW t, NEW len, NEW k, NEW i, Takes(c, t, len, k, i),
         NEW C \in SUBSET Nodes, Clean(c, t, C)
  PROVE  \A m \in Nat : m <= Levels =>
           IF Kept(k, i, len, m)
           THEN modify_prefix(t, k, i, len, FALSE)[<<m, Above(LeafAfter(k, i, len), m)>>]
                  = t[<<m, Above(LeafAfter(k, i, len), m)>>]
           ELSE modify_prefix(t, k, i, len, FALSE)[<<m, Above(LeafAfter(k, i, len), m)>>].left = 0
<1> DEFINE x == LeafAfter(k, i, len)
           u == modify_prefix(t, k, i, len, FALSE)
           As(m) == IF Kept(k, i, len, m) THEN u[<<m, Above(x, m)>>] = t[<<m, Above(x, m)>>]
                                          ELSE u[<<m, Above(x, m)>>].left = 0
           P == {m \in Nat : m <= Levels => As(m)}
<1>1. /\ t \in Trees /\ k \in Nat /\ k <= Levels /\ i \in Nat /\ Levels \in Nat
      /\ x \in Nat /\ x < LENGTH /\ Above(x, k) = i /\ (k > 0 => x > i * Pow2[k])
      /\ i * Pow2[k] \in Nat
  BY TakeFacts, LengthIs
<1>2. len \in Nat /\ len >= 1 /\ <<k, i>> \in Nodes /\ WellFormed(t)
  BY DEF Takes, Sound
<1>3. /\ u \in Trees
      /\ \A m, j : <<m, j>> \in Nodes /\ Above(x, m) # j
           => u[<<m, j>>] = IF Passed(k, i, len, m, j) THEN modify_single(m, FALSE) ELSE t[<<m, j>>]
      /\ u[<<0, x>>] = IF len >= Pow2[k] THEN modify_single(0, FALSE) ELSE t[<<0, x>>]
      /\ \A m \in Nat : m < Levels => Built(u, m + 1, Above(x, m + 1))
  BY <1>1, <1>2, ModifyIs
<1> HIDE DEF u
<1>4. \A m : modify_single(m, FALSE) = NoneFree
  BY DEF modify_single
<1>5. 0 \in P
  <2>1. Above(x, 0) = x
    BY <1>1, AboveIs
  <2>2. CASE len >= Pow2[k]
    <3>1. u[<<0, x>>].left = 0
      <4>1. u[<<0, x>>] = modify_single(0, FALSE)
        BY <1>3, <2>2
      <4>2. u[<<0, x>>] = NoneFree
        BY <1>4, <4>1
      <4> QED  BY <4>2 DEF NoneFree
    <3>2. ~Kept(k, i, len, 0)
      <4>1. ~(len < Pow2[k])
        BY <1>1, <1>2, <2>2, Pow2Is
      <4> QED  BY <4>1 DEF Kept
    <3> HIDE DEF x
    <3> QED  BY <2>1, <3>1, <3>2
  <2>3. CASE ~(len >= Pow2[k])
    <3>1. len < Pow2[k] /\ Pow2[0] = 1
      BY <1>1, <1>2, <2>3, Pow2Is
    <3>2. k # 0
      BY <1>2, <3>1
    <3>3. Kept(k, i, len, 0)
      <4>1. x = Above(x, 0) * Pow2[0]
        <5> HIDE DEF x
        <5> QED  BY <1>1, <2>1, <3>1
      <4> QED  BY <1>1, <3>1, <3>2, <4>1 DEF Kept
    <3>4. u[<<0, x>>] = t[<<0, x>>]
      BY <1>3, <2>3
    <3> HIDE DEF x
    <3> QED  BY <2>1, <3>3, <3>4
  <2> QED  BY <2>2, <2>3
<1>6. ASSUME NEW m \in P PROVE m + 1 \in P
  <2> SUFFICES ASSUME m + 1 <= Levels PROVE As(m + 1)
    OBVIOUS
  <2> DEFINE a == Above(x, m)
             b == Above(x, m + 1)
  <2>1. m \in Nat /\ m < Levels /\ m + 1 \in 0..Levels /\ m \in 0..Levels /\ m + 1 \in Nat
    BY <1>1
  <2>2. As(m)
    BY <2>1
  <2>3. a \in Nat /\ b = a \div 2 /\ b \in Nat
    BY <1>1, <2>1, AboveIs
  <2>4. <<m, a>> \in Nodes /\ <<m + 1, b>> \in Nodes
    BY <1>1, <2>1, NodeFits
  <2>5. <<m, 2 * b>> \in Nodes /\ <<m, 2 * b + 1>> \in Nodes
    <3> HIDE DEF a, b
    <3> QED  BY <2>1, <2>3, <2>4, Family
  <2>6. u[<<m, 2 * b>>] \in Values /\ u[<<m, 2 * b + 1>>] \in Values
        /\ t[<<m, 2 * b>>] \in Values /\ t[<<m, 2 * b + 1>>] \in Values
    <3> HIDE DEF b
    <3> QED  BY <1>1, <1>3, <2>5 DEF Trees, Maps
  <2>7. u[<<m + 1, b>>] = rebuild(m + 1, u[<<m, 2 * b>>], u[<<m, 2 * b + 1>>])
    <3>1. Built(u, m + 1, b) /\ (m + 1) - 1 = m
      BY <1>3, <2>1
    <3> QED  BY <3>1 DEF Built
  <2>8. u[<<m, 2 * b>>].left = 0 => u[<<m + 1, b>>].left = 0
    <3> HIDE DEF b
    <3> QED  BY <2>1, <2>6, <2>7, RebuiltIs
  <2>9. /\ Kept(k, i, len, m + 1) => Kept(k, i, len, m) /\ a = 2 * b
        /\ Kept(k, i, len, m) /\ a % 2 = 0 => x = b * Pow2[m + 1]
    BY <1>1, <2>1, KeptIs
  <2>10. CASE a % 2 # 0
    <3>1. 2 * b = a - 1 /\ (2 * b) % 2 = 0 /\ a = 2 * b + 1 /\ 2 * b # a
      <4> HIDE DEF a, b
      <4> QED  BY <2>3, <2>10, Siblings
    <3>2. ~Kept(k, i, len, m + 1)
      BY <2>9, <3>1
    <3>3. u[<<m, 2 * b>>].left = 0
      <4>1. CASE m < k
        <5>1. Passed(k, i, len, m, 2 * b)
          BY <3>1, <4>1 DEF Passed
        <5>2. u[<<m, 2 * b>>] = NoneFree
          BY <1>3, <1>4, <2>5, <3>1, <5>1
        <5> QED  BY <5>2 DEF NoneFree
      <4>2. CASE ~(m < k)
        <5>1. ~Passed(k, i, len, m, 2 * b)
          BY <4>2 DEF Passed
        <5>2. u[<<m, 2 * b>>] = t[<<m, 2 * b>>]
          BY <1>3, <2>5, <3>1, <5>1
        <5>3. m + 1 > k
          BY <1>1, <2>1, <4>2
        <5>4. t[<<m + 1, b>>].left = 0 /\ t[<<m + 1, b>>].max >= len
          BY <1>1, <2>1, <5>3 DEF Takes
        <5>5. t[<<m + 1, b>>] # NoneFree
          BY <1>2, <5>4 DEF NoneFree
        <5>6. Built(t, m + 1, b) /\ (m + 1) - 1 = m
          <6> HIDE DEF b
          <6> QED  BY <1>2, <2>1, <2>3, <2>4, <5>5 DEF WellFormed
        <5>7. t[<<m + 1, b>>] = rebuild(m + 1, t[<<m, 2 * b>>], t[<<m, 2 * b + 1>>])
          BY <5>6 DEF Built
        <5>8. t[<<m, 2 * b>>].left = 0
          <6> HIDE DEF b
          <6> QED  BY <2>1, <2>6, <5>4, <5>7, RebuiltIs
        <5> QED  BY <5>2, <5>8
      <4> QED  BY <4>1, <4>2
    <3> QED  BY <2>8, <3>2, <3>3
  <2>11. CASE a % 2 = 0
    <3>1. 2 * b = a /\ 2 * b + 1 # a /\ (2 * b + 1) % 2 = 1
      <4> HIDE DEF a, b
      <4> QED  BY <2>3, <2>11, Siblings
    <3>2. CASE ~Kept(k, i, len, m)
      <4>1. u[<<m, a>>].left = 0
        BY <2>2, <3>2
      <4> QED  BY <2>8, <2>9, <3>1, <3>2, <4>1
    <3>3. CASE Kept(k, i, len, m)
      <4>1. m < k /\ len < Pow2[k]
        BY <3>3 DEF Kept
      <4>2. u[<<m, a>>] = t[<<m, a>>]
        BY <2>2, <3>3
      <4>3. m + 1 # k
        <5> SUFFICES ASSUME m + 1 = k PROVE FALSE
          OBVIOUS
        <5>1. b = i /\ x = i * Pow2[k]
          BY <1>1, <2>9, <2>11, <3>3
        <5> DEFINE y == i * Pow2[k]
        <5>2. x = y /\ x > y /\ y \in Nat
          BY <1>1, <4>1, <5>1
        <5> HIDE DEF x, y
        <5> QED  BY <5>2
      <4>4. Kept(k, i, len, m + 1)
        <5>1. m + 1 < k
          BY <1>1, <2>1, <4>1, <4>3
        <5> QED  BY <2>9, <2>11, <3>3, <4>1, <5>1 DEF Kept
      <4>5. u[<<m, 2 * b + 1>>] = t[<<m, 2 * b + 1>>]
        <5>1. ~Passed(k, i, len, m, 2 * b + 1)
          <6> HIDE DEF b
          <6> QED  BY <3>1 DEF Passed
        <5> QED  BY <1>3, <2>5, <3>1, <5>1
      <4>6. <<m + 1, b>> \in C
        <5>1. <<k, i>> \in C
          <6>1. t[<<k, i>>].left > 0
            <7>1. t[<<k, i>>] \in Values /\ t[<<k, i>>].left >= len
              BY <1>1, <1>2 DEF Takes, Trees, Maps
            <7> QED  BY <1>2, <7>1 DEF Values
          <6> QED  BY <1>2, <6>1 DEF Clean
        <5>2. m + 1 \in 0..k
          BY <1>1, <2>1, <4>1
        <5> HIDE DEF x
        <5> QED  BY <1>1, <5>1, <5>2, PathIsClean
      <4>7. t[<<m + 1, b>>] = rebuild(m + 1, t[<<m, 2 * b>>], t[<<m, 2 * b + 1>>])
        <5>1. <<m, 2 * b>> \in C /\ <<m, 2 * b + 1>> \in C
          <6> HIDE DEF b
          <6> QED  BY <2>1, <2>3, <4>6 DEF Clean
        <5>2. /\ t[<<m + 1, b>>] = Fresh(c)[<<m + 1, b>>]
              /\ t[<<m, 2 * b>>] = Fresh(c)[<<m, 2 * b>>]
              /\ t[<<m, 2 * b + 1>>] = Fresh(c)[<<m, 2 * b + 1>>]
          <6> HIDE DEF b
          <6> QED  BY <4>6, <5>1 DEF Clean
        <5>3. Built(Fresh(c), m + 1, b) /\ (m + 1) - 1 = m
          <6> HIDE DEF b
          <6> QED  BY <2>1, <2>3, <2>4, FreshIs
        <5> QED  BY <5>2, <5>3 DEF Built
      <4>8. u[<<m + 1, b>>] = t[<<m + 1, b>>]
        BY <2>7, <3>1, <4>2, <4>5, <4>7
      <4> QED  BY <4>4, <4>8
    <3> QED  BY <3>2, <3>3
  <2> QED  BY <2>10, <2>11
<1>7. \A m \in Nat : m \in P
  <2>1. P \in SUBSET Nat
    OBVIOUS
  <2> HIDE DEF P
  <2> QED  BY <1>5, <1>6, <2>1, SetInduction
<1> QED
  BY <1>7 DEF u

\* A node that is off the path and not passed by has its children left alone.
LEMMA ChildrenOffPath ==
  ASSUME NEW k \in Nat, NEW i, NEW len, LeafAfter(k, i, len) \in Nat, NEW m \in Nat, NEW j \in Nat,
         Above(LeafAfter(k, i, len), m + 1) # j
  PROVE  /\ Above(LeafAfter(k, i, len), m) # 2 * j /\ ~Passed(k, i, len, m, 2 * j)
         /\ Above(LeafAfter(k, i, len), m) # 2 * j + 1 /\ ~Passed(k, i, len, m, 2 * j + 1)
<1> DEFINE a == Above(LeafAfter(k, i, len), m)
           b == Above(LeafAfter(k, i, len), m + 1)
<1>1. a \in Nat /\ b = a \div 2
  BY AboveIs
<1>2. Passed(k, i, len, m, 2 * j) => a = 2 * j + 1
  BY DEF Passed
<1>3. Passed(k, i, len, m, 2 * j + 1) => (2 * j + 1) % 2 = 0
  BY DEF Passed
<1>4. b # j
  OBVIOUS
<1> HIDE DEF a, b
<1>5. a # 2 * j /\ a # 2 * j + 1
  BY <1>1, <1>4, Siblings
<1>6. (2 * j + 1) % 2 # 0
  OBVIOUS
<1> QED
  BY <1>2, <1>3, <1>5, <1>6 DEF a

LEMMA SoundAfterTake ==
  ASSUME NEW c \in BOOLEAN, NEW t, NEW len, NEW k, NEW i, Takes(c, t, len, k, i)
  PROVE  Sound(c, modify_prefix(t, k, i, len, FALSE))
<1> DEFINE x == LeafAfter(k, i, len)
           u == modify_prefix(t, k, i, len, FALSE)
<1>1. /\ t \in Trees /\ k \in Nat /\ k <= Levels /\ Levels \in Nat
      /\ x \in Nat /\ x < LENGTH
  BY TakeFacts, LengthIs
<1>2. len \in Nat /\ len >= 1 /\ <<k, i>> \in Nodes /\ WellFormed(t) /\ Sound(c, t)
  BY DEF Takes, Sound
<1>3. /\ u \in Trees
      /\ \A m, j : <<m, j>> \in Nodes /\ Above(x, m) # j
           => u[<<m, j>>] = IF Passed(k, i, len, m, j) THEN modify_single(m, FALSE) ELSE t[<<m, j>>]
      /\ u[<<0, x>>] = IF len >= Pow2[k] THEN modify_single(0, FALSE) ELSE t[<<0, x>>]
      /\ \A m \in Nat : m < Levels => Built(u, m + 1, Above(x, m + 1))
  BY <1>1, <1>2, ModifyIs
<1>4. PICK C \in SUBSET Nodes : Clean(c, t, C)
  BY <1>2 DEF Sound
<1>5. \A m \in Nat : m <= Levels =>
        IF Kept(k, i, len, m) THEN u[<<m, Above(x, m)>>] = t[<<m, Above(x, m)>>]
                              ELSE u[<<m, Above(x, m)>>].left = 0
  BY <1>4, PathAfterTake
<1>6. \A m \in Nat : /\ Kept(k, i, len, m + 1) => Kept(k, i, len, m) /\ Above(x, m) = 2 * Above(x, m + 1)
  BY <1>1, KeptIs
<1>7. \A m, j \in Nat : Above(x, m + 1) # j =>
        /\ Above(x, m) # 2 * j /\ ~Passed(k, i, len, m, 2 * j)
        /\ Above(x, m) # 2 * j + 1 /\ ~Passed(k, i, len, m, 2 * j + 1)
  BY <1>1, ChildrenOffPath
<1>8. \A m \in Nat : Above(x, m) \in Nat /\ (m <= Levels => <<m, Above(x, m)>> \in Nodes)
  <2> SUFFICES ASSUME NEW m \in Nat PROVE Above(x, m) \in Nat /\ (m <= Levels => <<m, Above(x, m)>> \in Nodes)
    OBVIOUS
  <2>1. m <= Levels => m \in 0..Levels
    BY <1>1
  <2> QED  BY <1>1, <2>1, AboveIs, NodeFits
<1>9. Above(x, 0) = x
  BY <1>1, AboveIs
<1>10. \A m : modify_single(m, FALSE) = NoneFree
  BY DEF modify_single
<1> HIDE DEF u, x
<1>11. \A m, j : <<m, j>> \in Nodes => m \in Nat /\ j \in Nat /\ m <= Levels
  BY NodeIs, LengthIs
<1>12. /\ \A n \in Nodes : t[n] \in Values /\ u[n] \in Values
  BY <1>1, <1>3 DEF Trees, Maps
<1>13. \A m, j : <<m, j>> \in Nodes =>
         \/ Above(x, m) = j
         \/ Above(x, m) # j /\ u[<<m, j>>] = NoneFree /\ Passed(k, i, len, m, j)
         \/ Above(x, m) # j /\ u[<<m, j>>] = t[<<m, j>>] /\ ~Passed(k, i, len, m, j)
  BY <1>3, <1>10
<1>14. ASSUME NEW m \in Nat, NEW j \in Nat, <<m + 1, j>> \in Nodes
       PROVE  <<m, 2 * j>> \in Nodes /\ <<m, 2 * j + 1>> \in Nodes /\ m < Levels /\ (m + 1) - 1 = m
  <2>1. m < Levels
    BY <1>1, <1>11, <1>14
  <2>2. <<m, 2 * j>> \in Nodes /\ <<m, 2 * j + 1>> \in Nodes
    BY <1>14, Family
  <2> QED  BY <2>1, <2>2
<1>15. ASSUME NEW j, <<0, j>> \in Nodes PROVE u[<<0, j>>].left = u[<<0, j>>].max
  <2>1. t[<<0, j>>].left = t[<<0, j>>].max
    BY <1>2, <1>15 DEF WellFormed
  <2>2. u[<<0, j>>] = NoneFree \/ u[<<0, j>>] = t[<<0, j>>]
    BY <1>3, <1>9, <1>10, <1>13, <1>15
  <2> QED  BY <2>1, <2>2 DEF NoneFree
<1>16. ASSUME NEW m \in Nat, NEW j \in Nat, <<m + 1, j>> \in Nodes
       PROVE  u[<<m + 1, j>>] = NoneFree \/ Built(u, m + 1, j)
  <2>1. CASE Above(x, m + 1) = j
    BY <1>3, <1>14, <1>16, <2>1
  <2>2. CASE Above(x, m + 1) # j /\ u[<<m + 1, j>>] = t[<<m + 1, j>>]
    <3>1. t[<<m + 1, j>>] = NoneFree \/ Built(t, m + 1, j)
      BY <1>2, <1>16 DEF WellFormed
    <3>2. u[<<m, 2 * j>>] = t[<<m, 2 * j>>] /\ u[<<m, 2 * j + 1>>] = t[<<m, 2 * j + 1>>]
      BY <1>7, <1>13, <1>14, <1>16, <2>2
    <3> QED  BY <1>14, <1>16, <2>2, <3>1, <3>2 DEF Built
  <2> QED  BY <1>13, <1>16, <2>1, <2>2
<1>17. \A m \in Nat : m <= Levels => u[<<m, Above(x, m)>>].left <= u[<<m, Above(x, m)>>].max
  <2> DEFINE P == {m \in Nat : m <= Levels => u[<<m, Above(x, m)>>].left <= u[<<m, Above(x, m)>>].max}
  <2>1. P \in SUBSET Nat /\ 0 \in P
    <3>1. <<0, Above(x, 0)>> \in Nodes
      BY <1>1, <1>8
    <3>2. u[<<0, Above(x, 0)>>].left = u[<<0, Above(x, 0)>>].max
      BY <1>15, <3>1
    <3>3. u[<<0, Above(x, 0)>>].left \in Nat
      BY <1>12, <3>1 DEF Values
    <3> QED  BY <3>2, <3>3
  <2>2. ASSUME NEW m \in P PROVE m + 1 \in P
    <3> SUFFICES ASSUME m + 1 <= Levels
                 PROVE  u[<<m + 1, Above(x, m + 1)>>].left <= u[<<m + 1, Above(x, m + 1)>>].max
      OBVIOUS
    <3> DEFINE a == Above(x, m)
               b == Above(x, m + 1)
    <3>1. m \in Nat /\ m <= Levels /\ m + 1 \in Nat /\ b \in Nat /\ a \in Nat /\ <<m + 1, b>> \in Nodes
      BY <1>1, <1>8
    <3>2. b = a \div 2
      BY <1>1, <3>1, AboveIs
    <3>3. u[<<m, a>>].left <= u[<<m, a>>].max
      BY <3>1
    <3> HIDE DEF a, b
    <3>4. <<m, 2 * b>> \in Nodes /\ <<m, 2 * b + 1>> \in Nodes /\ m < Levels /\ (m + 1) - 1 = m
      BY <1>14, <3>1
    <3>5. u[<<m + 1, b>>] = rebuild(m + 1, u[<<m, 2 * b>>], u[<<m, 2 * b + 1>>])
      BY <1>3, <3>1, <3>4 DEF Built, b
    <3>6. ASSUME NEW j \in Nat, <<m, j>> \in Nodes PROVE u[<<m, j>>].left <= u[<<m, j>>].max
      <4>1. CASE Above(x, m) = j
        BY <3>3, <4>1 DEF a
      <4>2. CASE u[<<m, j>>] = NoneFree
        BY <4>2 DEF NoneFree
      <4>3. CASE u[<<m, j>>] = t[<<m, j>>]
        BY <1>2, <3>6, <4>3 DEF WellFormed
      <4> QED  BY <1>13, <3>6, <4>1, <4>2, <4>3
    <3>7. 2 * b \in Nat /\ 2 * b + 1 \in Nat
      BY <3>1
    <3>8. /\ u[<<m, 2 * b>>].left <= u[<<m, 2 * b>>].max
          /\ u[<<m, 2 * b + 1>>].left <= u[<<m, 2 * b + 1>>].max
      BY <3>4, <3>6, <3>7
    <3>9. u[<<m, 2 * b>>] \in Values /\ u[<<m, 2 * b + 1>>] \in Values
      BY <1>12, <3>4
    <3>10. u[<<m + 1, b>>].left <= u[<<m + 1, b>>].max
      BY <3>1, <3>5, <3>8, <3>9, RebuiltIs
    <3> QED  BY <3>10 DEF b
  <2>3. \A m \in Nat : m \in P
    <3> HIDE DEF P
    <3> QED  BY <2>1, <2>2, SetInduction
  <2> QED  BY <2>3
<1>18. ASSUME NEW n \in Nodes PROVE u[n].left <= u[n].max
  <2> DEFINE m == n[1]
             j == n[2]
  <2>1. n = <<m, j>> /\ m \in Nat /\ m <= Levels /\ <<m, j>> \in Nodes
    BY <1>11, NodeIs
  <2> HIDE DEF m, j
  <2>2. CASE Above(x, m) = j
    BY <1>17, <2>1, <2>2
  <2>3. CASE u[<<m, j>>] = NoneFree
    BY <2>1, <2>3 DEF NoneFree
  <2>4. CASE u[<<m, j>>] = t[<<m, j>>]
    BY <1>2, <2>1, <2>4 DEF WellFormed
  <2> QED  BY <1>13, <2>1, <2>2, <2>3, <2>4
<1>19. WellFormed(u)
  BY <1>3, <1>15, <1>16, <1>18 DEF WellFormed
<1> DEFINE Left(n) == IF Above(x, n[1]) = n[2] THEN Kept(k, i, len, n[1])
                                               ELSE ~Passed(k, i, len, n[1], n[2])
           E == {n \in C : Left(n)}
<1>20. \A m, j : Left(<<m, j>>) <=> IF Above(x, m) = j THEN Kept(k, i, len, m)
                                                       ELSE ~Passed(k, i, len, m, j)
  OBVIOUS
<1> HIDE DEF Left
<1>21. ASSUME NEW m \in Nat, NEW j \in Nat, <<m + 1, j>> \in E
       PROVE  <<m, 2 * j>> \in E /\ <<m, 2 * j + 1>> \in E
  <2>1. <<m, 2 * j>> \in C /\ <<m, 2 * j + 1>> \in C
    BY <1>4, <1>21 DEF Clean
  <2>2. Left(<<m + 1, j>>)
    BY <1>21
  <2>3. CASE Above(x, m + 1) = j
    <3>1. Kept(k, i, len, m + 1)
      BY <1>20, <2>2, <2>3
    <3>2. Kept(k, i, len, m) /\ Above(x, m) = 2 * j
      BY <1>6, <2>3, <3>1
    <3>3. 2 * j # 2 * j + 1 /\ (2 * j + 1) % 2 # 0
      OBVIOUS
    <3>4. ~Passed(k, i, len, m, 2 * j + 1)
      BY <3>3 DEF Passed
    <3> QED  BY <1>20, <2>1, <3>2, <3>3, <3>4
  <2>4. CASE Above(x, m + 1) # j
    BY <1>7, <1>20, <2>1, <2>4
  <2> QED  BY <2>3, <2>4
<1>22. ASSUME NEW n \in E PROVE u[n] = Fresh(c)[n]
  <2> DEFINE m == n[1]
             j == n[2]
  <2>1. n \in C /\ n \in Nodes /\ Left(n) /\ t[n] = Fresh(c)[n]
    BY <1>4 DEF Clean
  <2>2. n = <<m, j>> /\ m \in Nat /\ m <= Levels
    BY <1>11, <2>1, NodeIs
  <2> HIDE DEF m, j
  <2>3. CASE Above(x, m) = j
    <3>1. Kept(k, i, len, m)
      BY <1>20, <2>1, <2>2, <2>3
    <3> QED  BY <1>5, <2>1, <2>2, <2>3, <3>1
  <2>4. CASE Above(x, m) # j
    <3>1. ~Passed(k, i, len, m, j)
      BY <1>20, <2>1, <2>2, <2>4
    <3> QED  BY <1>13, <2>1, <2>2, <2>4, <3>1
  <2> QED  BY <2>3, <2>4
<1>23. ASSUME NEW n \in Nodes, u[n].left > 0 PROVE n \in E
  <2> DEFINE m == n[1]
             j == n[2]
  <2>1. n = <<m, j>> /\ m \in Nat /\ m <= Levels
    BY <1>11, NodeIs
  <2> HIDE DEF m, j
  <2>2. u[n] = t[n] /\ Left(n)
    <3>1. CASE Above(x, m) = j
      <4>1. Kept(k, i, len, m)
        <5>1. SUFFICES ASSUME ~Kept(k, i, len, m) PROVE FALSE
          OBVIOUS
        <5>2. u[n].left = 0
          BY <1>5, <2>1, <3>1, <5>1
        <5> QED  BY <1>23, <5>2
      <4> QED  BY <1>5, <1>20, <2>1, <3>1, <4>1
    <3>2. CASE Above(x, m) # j
      <4>1. u[n] # NoneFree
        BY <1>23 DEF NoneFree
      <4> QED  BY <1>13, <1>20, <2>1, <3>2, <4>1
    <3> QED  BY <3>1, <3>2
  <2>3. t[n].left > 0
    BY <1>23, <2>2
  <2>4. n \in C
    BY <1>4, <2>3 DEF Clean
  <2> QED  BY <2>2, <2>4
<1>24. E \in SUBSET Nodes
  OBVIOUS
<1>25. Clean(c, u, E)
  <2> HIDE DEF E
  <2> QED  BY <1>21, <1>22, <1>23, <1>24 DEF Clean
<1> QED
  <2> HIDE DEF E
  <2> QED  BY <1>19, <1>24, <1>25 DEF Sound, u

-----------------------------------------------------------------------------
(* Free chunks                                                             *)

\* No node over the chunk says that nothing is free.
FreeChunks(t) == {x \in Nat : x < LENGTH /\ \A m \in 0..Levels : t[<<m, Above(x, m)>>].max > 0}

\* The nodes over a chunk of the run, up to the node it begins with, are clean
\* and count the chunk.
LEMMA RunIsFree ==
  ASSUME NEW c \in BOOLEAN, NEW t, NEW len, NEW k, NEW i, Takes(c, t, len, k, i),
         NEW y \in Nat, i * Pow2[k] <= y, y < i * Pow2[k] + len
  PROVE  y \in FreeChunks(t) /\ Above(y, k) = i
<1>1. /\ t \in Trees /\ k \in Nat /\ k <= Levels /\ i \in Nat /\ Levels \in Nat /\ Sound(c, t)
      /\ i * Pow2[k] \in Nat /\ len <= Pow2[k] /\ i * Pow2[k] + len <= Total(c)
  BY TakeFacts, LengthIs DEF Takes
<1>2. len \in Nat /\ len >= 1 /\ <<k, i>> \in Nodes /\ t[<<k, i>>].left >= len
  BY DEF Takes
<1>3. Total(c) \in Nat /\ Total(c) <= LENGTH /\ LENGTH \in Nat /\ Pow2[k] \in Nat
  BY <1>1, LengthIs, Pow2Is DEF Total
<1>4. y < Total(c) /\ y < i * Pow2[k] + Pow2[k] /\ y < LENGTH
  <2> DEFINE b == i * Pow2[k]
  <2>1. b \in Nat /\ b + len <= Total(c) /\ y < b + len
    BY <1>1
  <2> HIDE DEF b
  <2>2. y < Total(c) /\ y < b + Pow2[k] /\ y < LENGTH
    BY <1>1, <1>2, <1>3, <2>1
  <2> QED  BY <2>2 DEF b
<1>5. Above(y, k) = i
  BY <1>1, <1>4, AboveIs
<1>6. PICK C \in SUBSET Nodes : Clean(c, t, C)
  BY <1>1 DEF Sound
<1>7. <<k, i>> \in C
  <2>1. t[<<k, i>>].left \in Nat
    BY <1>1, <1>2 DEF Trees, Maps, Values
  <2>2. t[<<k, i>>].left > 0
    BY <1>2, <2>1
  <2> QED  BY <1>2, <1>6, <2>2 DEF Clean
<1>8. ASSUME NEW m \in 0..Levels PROVE t[<<m, Above(y, m)>>].max > 0
  <2>1. CASE m > k
    <3>1. t[<<m, Above(y, m)>>].max >= len
      BY <1>5, <1>8, <2>1 DEF Takes
    <3>2. <<m, Above(y, m)>> \in Nodes
      BY <1>4, NodeFits
    <3>3. t[<<m, Above(y, m)>>].max \in Nat
      BY <1>1, <3>2 DEF Trees, Maps, Values
    <3> QED  BY <1>2, <3>1, <3>3
  <2>2. CASE ~(m > k)
    <3> DEFINE a == Above(y, m)
               p == Pow2[m]
               s == Share(c, m, a)
    <3>1. m \in 0..k /\ m \in Nat
      BY <1>1, <2>2
    <3>2. <<m, a>> \in C
      BY <1>1, <1>5, <1>6, <1>7, <3>1, PathIsClean
    <3>3. a \in Nat /\ a * p \in Nat /\ a * p <= y /\ p \in Nat /\ p >= 1
      BY <3>1, AboveIs, Pow2Is
    <3>4. t[<<m, a>>].max = s /\ s \in Nat
      <4>1. t[<<m, a>>] = Fresh(c)[<<m, a>>] /\ <<m, a>> \in Nodes
        <5> HIDE DEF a
        <5> QED  BY <1>6, <3>2 DEF Clean
      <4> HIDE DEF a
      <4> QED  BY <4>1, FreshIs
    <3>5. s = IF Total(c) <= a * p THEN 0 ELSE IF a * p + p <= Total(c) THEN p ELSE Total(c) - a * p
      BY DEF Share
    <3> DEFINE b == a * p
    <3>6. s = IF Total(c) <= b THEN 0 ELSE IF b + p <= Total(c) THEN p ELSE Total(c) - b
      BY <3>5
    <3>7. b \in Nat /\ b <= y
      BY <3>3
    <3> HIDE DEF a, b, p, s
    <3>8. s > 0
      BY <1>3, <1>4, <3>3, <3>6, <3>7
    <3> QED  BY <3>4, <3>8 DEF a
  <2> QED  BY <2>1, <2>2
<1> QED
  BY <1>4, <1>5, <1>8 DEF FreeChunks

LEMMA RunIsTaken ==
  ASSUME NEW c \in BOOLEAN, NEW t, NEW len, NEW k, NEW i, Takes(c, t, len, k, i),
         NEW y \in Nat, i * Pow2[k] <= y, y < i * Pow2[k] + len
  PROVE  y \notin FreeChunks(modify_prefix(t, k, i, len, FALSE))
<1> DEFINE x == LeafAfter(k, i, len)
           u == modify_prefix(t, k, i, len, FALSE)
           P == {m \in Nat : m <= k => \/ Above(y, m) < Above(x, m)
                                       \/ \E l \in 0..(m - 1) : Passed(k, i, len, l, Above(y, l))}
<1>1. /\ t \in Trees /\ k \in Nat /\ k <= Levels /\ i \in Nat /\ Levels \in Nat
      /\ x \in Nat /\ x < LENGTH /\ Above(x, k) = i /\ i * Pow2[k] \in Nat /\ len <= Pow2[k]
  BY TakeFacts, LengthIs
<1>2. len \in Nat /\ len >= 1 /\ <<k, i>> \in Nodes
  BY DEF Takes
<1>3. /\ u \in Trees
      /\ \A m, j : <<m, j>> \in Nodes /\ Above(x, m) # j
           => u[<<m, j>>] = IF Passed(k, i, len, m, j) THEN modify_single(m, FALSE) ELSE t[<<m, j>>]
      /\ u[<<0, x>>] = IF len >= Pow2[k] THEN modify_single(0, FALSE) ELSE t[<<0, x>>]
      /\ \A m \in Nat : m < Levels => Built(u, m + 1, Above(x, m + 1))
  BY <1>1, <1>2, ModifyIs
<1>4. Above(y, k) = i
  BY RunIsFree
<1>5. \A m : modify_single(m, FALSE).max = 0
  BY DEF modify_single, NoneFree
<1>6. y < LENGTH /\ \A m \in 0..Levels : <<m, Above(y, m)>> \in Nodes
  <2>1. y \in FreeChunks(t)
    BY RunIsFree
  <2>2. y < LENGTH
    BY <2>1 DEF FreeChunks
  <2> QED  BY <2>2, NodeFits
<1>7. y < x \/ (y = x /\ len >= Pow2[k])
  <2> DEFINE b == i * Pow2[k]
             p == Pow2[k]
  <2>1. x = b + (IF len < p THEN len ELSE p - 1)
    BY DEF LeafAfter
  <2>2. b \in Nat /\ p \in Nat /\ len <= p /\ y < b + len /\ y \in Nat
    BY <1>1, Pow2Is
  <2> HIDE DEF b, p, x
  <2>3. y < x \/ (y = x /\ len >= p)
    BY <1>2, <2>1, <2>2
  <2> QED  BY <2>3 DEF p
<1> HIDE DEF x, u
<1>8. CASE y = x /\ len >= Pow2[k]
  <2>1. u[<<0, x>>].max = 0
    BY <1>3, <1>5, <1>8
  <2>2. Above(y, 0) = x /\ 0 \in 0..Levels
    BY <1>1, <1>8, AboveIs
  <2>3. y \in FreeChunks(u) => u[<<0, Above(y, 0)>>].max > 0
    BY <2>2 DEF FreeChunks
  <2>4. y \notin FreeChunks(u)
    BY <2>1, <2>2, <2>3
  <2> QED  BY <2>4 DEF u
<1>9. CASE y < x
  <2>1. P \in SUBSET Nat /\ 0 \in P
    <3>1. Above(y, 0) = y /\ Above(x, 0) = x
      BY <1>1, AboveIs
    <3> QED  BY <1>9, <3>1
  <2>2. ASSUME NEW m \in P PROVE m + 1 \in P
    <3> SUFFICES ASSUME m + 1 <= k
                 PROVE  \/ Above(y, m + 1) < Above(x, m + 1)
                        \/ \E l \in 0..((m + 1) - 1) : Passed(k, i, len, l, Above(y, l))
      BY DEF P
    <3>1. m \in Nat /\ m <= k /\ m < k /\ (m + 1) - 1 = m
      BY <1>1
    <3>2. CASE \E l \in 0..(m - 1) : Passed(k, i, len, l, Above(y, l))
      <4>1. \A l \in 0..(m - 1) : l \in 0..m
        BY <3>1
      <4> QED  BY <3>1, <3>2, <4>1
    <3>3. CASE Above(y, m) < Above(x, m)
      <4> DEFINE a == Above(y, m)
                 b == Above(x, m)
                 a1 == Above(y, m + 1)
                 b1 == Above(x, m + 1)
      <4>1. a \in Nat /\ b \in Nat /\ a1 = a \div 2 /\ b1 = b \div 2 /\ a < b
        BY <1>1, <3>1, <3>3, AboveIs
      <4>2. CASE a1 < b1
        BY <4>2
      <4>3. CASE ~(a1 < b1)
        <5>1. a % 2 = 0 /\ b = a + 1
          <6> HIDE DEF a, b, a1, b1
          <6>1. a = 2 * (a \div 2) \/ a = 2 * (a \div 2) + 1
            BY <4>1, Siblings
          <6>2. b = 2 * (b \div 2) \/ b = 2 * (b \div 2) + 1
            BY <4>1, Siblings
          <6>3. a \div 2 \in Nat /\ b \div 2 \in Nat
            BY <4>1
          <6> QED  BY <4>1, <4>3, <6>1, <6>2, <6>3
        <5>2. Passed(k, i, len, m, a)
          BY <3>1, <5>1 DEF Passed, x
        <5>3. m \in 0..m
          BY <3>1
        <5> QED  BY <3>1, <5>2, <5>3
      <4> QED  BY <4>2, <4>3
    <3> QED  BY <3>1, <3>2, <3>3 DEF P
  <2>3. \A m \in Nat : m \in P
    <3> HIDE DEF P
    <3> QED  BY <2>1, <2>2, SetInduction
  <2>4. \E l \in 0..(k - 1) : Passed(k, i, len, l, Above(y, l))
    <3>1. ~(Above(y, k) < Above(x, k))
      BY <1>1, <1>4
    <3>2. k \in P /\ k <= k
      BY <1>1, <2>3
    <3> QED  BY <3>1, <3>2
  <2>5. PICK l \in 0..(k - 1) : Passed(k, i, len, l, Above(y, l))
    BY <2>4
  <2>6. l \in 0..Levels /\ Above(x, l) # Above(y, l)
    <3>1. Above(x, l) = Above(y, l) + 1 /\ Above(y, l) \in Nat
      BY <1>1, <2>5, AboveIs DEF Passed, x
    <3> QED  BY <1>1, <3>1
  <2>7. u[<<l, Above(y, l)>>].max = 0
    BY <1>3, <1>5, <1>6, <2>5, <2>6
  <2>8. y \in FreeChunks(u) => u[<<l, Above(y, l)>>].max > 0
    BY <2>6 DEF FreeChunks
  <2>9. y \notin FreeChunks(u)
    BY <2>7, <2>8
  <2> QED  BY <2>9 DEF u
<1> QED
  BY <1>7, <1>8, <1>9

\* A take frees nothing.
LEMMA FreeShrinks ==
  ASSUME NEW c \in BOOLEAN, NEW t, NEW len, NEW k, NEW i, Takes(c, t, len, k, i)
  PROVE  FreeChunks(modify_prefix(t, k, i, len, FALSE)) \subseteq FreeChunks(t)
<1> DEFINE x == LeafAfter(k, i, len)
           u == modify_prefix(t, k, i, len, FALSE)
           None(m) == t[<<m, Above(x, m)>>].max = 0 => u[<<m, Above(x, m)>>].max = 0
           P == {m \in Nat : m <= k => None(m)}
<1>1. /\ t \in Trees /\ k \in Nat /\ k <= Levels /\ i \in Nat /\ Levels \in Nat
      /\ x \in Nat /\ x < LENGTH /\ Above(x, k) = i
  BY TakeFacts, LengthIs
<1>2. len \in Nat /\ len >= 1 /\ <<k, i>> \in Nodes /\ WellFormed(t) /\ Sound(c, t)
  BY DEF Takes, Sound
<1>3. /\ u \in Trees
      /\ \A m, j : <<m, j>> \in Nodes /\ Above(x, m) # j
           => u[<<m, j>>] = IF Passed(k, i, len, m, j) THEN modify_single(m, FALSE) ELSE t[<<m, j>>]
      /\ u[<<0, x>>] = IF len >= Pow2[k] THEN modify_single(0, FALSE) ELSE t[<<0, x>>]
      /\ \A m \in Nat : m < Levels => Built(u, m + 1, Above(x, m + 1))
  BY <1>1, <1>2, ModifyIs
<1>4. \A m : modify_single(m, FALSE) = NoneFree
  BY DEF modify_single
<1>5. WellFormed(u)
  BY SoundAfterTake DEF Sound
<1> HIDE DEF x, u
<1>6. \A n \in Nodes : t[n] \in Values /\ u[n] \in Values /\ u[n].left <= u[n].max
  BY <1>1, <1>3, <1>5 DEF WellFormed, Trees, Maps
<1>7. ASSUME NEW m, NEW j, <<m, j>> \in Nodes, Above(x, m) # j, t[<<m, j>>].max = 0
      PROVE  u[<<m, j>>].max = 0
  <2>1. u[<<m, j>>] = NoneFree \/ u[<<m, j>>] = t[<<m, j>>]
    BY <1>3, <1>4, <1>7
  <2> QED  BY <1>7, <2>1 DEF NoneFree
<1>8. PICK C \in SUBSET Nodes : Clean(c, t, C)
  BY <1>2 DEF Sound
<1>9. <<k, i>> \in C
  <2>1. t[<<k, i>>].left \in Nat /\ t[<<k, i>>].left >= len
    BY <1>2, <1>6 DEF Values, Takes
  <2>2. t[<<k, i>>].left > 0
    BY <1>2, <2>1
  <2> QED  BY <1>2, <1>8, <2>2 DEF Clean
<1>10. \A m \in 0..k : <<m, Above(x, m)>> \in C
  BY <1>1, <1>8, <1>9, PathIsClean
<1>11. P \in SUBSET Nat /\ 0 \in P
  <2>1. Above(x, 0) = x
    BY <1>1, AboveIs
  <2>2. None(0)
    <3>1. u[<<0, x>>] = NoneFree \/ u[<<0, x>>] = t[<<0, x>>]
      BY <1>3, <1>4
    <3> QED  BY <2>1, <3>1 DEF NoneFree
  <2> QED  BY <2>2
<1>12. ASSUME NEW m \in P PROVE m + 1 \in P
  <2> SUFFICES ASSUME m + 1 <= k, t[<<m + 1, Above(x, m + 1)>>].max = 0
               PROVE  u[<<m + 1, Above(x, m + 1)>>].max = 0
    OBVIOUS
  <2> DEFINE b == Above(x, m + 1)
  <2>1. m \in Nat /\ m < Levels /\ m + 1 \in 0..k /\ m \in 0..k /\ m <= k /\ m + 1 \in Nat /\ (m + 1) - 1 = m
    BY <1>1
  <2>2. b \in Nat /\ b = Above(x, m) \div 2
    BY <1>1, <2>1, AboveIs
  <2>3. <<m + 1, b>> \in C
    BY <1>10, <2>1
  <2>4. None(m)
    BY <2>1
  <2>5. Built(u, m + 1, b)
    BY <1>3, <2>1
  <2>6. t[<<m + 1, b>>].max = 0
    OBVIOUS
  <2> HIDE DEF b
  <2>7. <<m, 2 * b>> \in C /\ <<m, 2 * b + 1>> \in C
    BY <1>8, <2>1, <2>2, <2>3 DEF Clean
  <2>8. /\ t[<<m + 1, b>>] = Fresh(c)[<<m + 1, b>>]
        /\ t[<<m, 2 * b>>] = Fresh(c)[<<m, 2 * b>>]
        /\ t[<<m, 2 * b + 1>>] = Fresh(c)[<<m, 2 * b + 1>>]
    BY <1>8, <2>3, <2>7 DEF Clean
  <2>9. Built(Fresh(c), m + 1, b)
    BY <2>1, <2>2, <2>3, FreshIs
  <2>10. t[<<m + 1, b>>] = rebuild(m + 1, t[<<m, 2 * b>>], t[<<m, 2 * b + 1>>])
    BY <2>1, <2>8, <2>9 DEF Built
  <2>11. t[<<m, 2 * b>>].max = 0 /\ t[<<m, 2 * b + 1>>].max = 0
    BY <1>6, <2>1, <2>6, <2>7, <2>10, RebuiltIs
  <2>12. u[<<m, 2 * b>>].max = 0 /\ u[<<m, 2 * b + 1>>].max = 0
    BY <1>7, <2>4, <2>7, <2>11
  <2>13. u[<<m + 1, b>>] = rebuild(m + 1, u[<<m, 2 * b>>], u[<<m, 2 * b + 1>>])
    BY <2>1, <2>5 DEF Built
  <2>14. u[<<m + 1, b>>].max = 0
    BY <1>6, <2>1, <2>7, <2>12, <2>13, RebuiltIs
  <2> QED  BY <2>14 DEF b
<1>13. \A m \in Nat : m \in P
  <2> HIDE DEF P
  <2> QED  BY <1>11, <1>12, SetInduction
<1>14. ASSUME NEW y \in FreeChunks(u), NEW m \in 0..Levels PROVE t[<<m, Above(y, m)>>].max > 0
  <2>1. y \in Nat /\ y < LENGTH /\ u[<<m, Above(y, m)>>].max > 0
    BY DEF FreeChunks
  <2>2. <<m, Above(y, m)>> \in Nodes
    BY <2>1, NodeFits
  <2>3. t[<<m, Above(y, m)>>].max \in Nat
    BY <1>6, <2>2 DEF Values
  <2>4. t[<<m, Above(y, m)>>].max # 0
    <3>1. CASE Above(x, m) # Above(y, m)
      BY <1>7, <2>1, <2>2, <3>1
    <3>2. CASE Above(x, m) = Above(y, m) /\ m <= k
      <4>1. None(m)
        BY <1>1, <1>13, <3>2
      <4> QED  BY <2>1, <3>2, <4>1
    <3>3. CASE Above(x, m) = Above(y, m) /\ m > k
      <4>1. t[<<m, Above(x, m)>>].max >= len
        BY <1>1, <3>3 DEF Takes
      <4> QED  BY <1>2, <2>3, <3>3, <4>1
    <3> QED  BY <1>1, <3>1, <3>2, <3>3
  <2> QED  BY <2>3, <2>4
<1> QED
  BY <1>14 DEF FreeChunks, u

-----------------------------------------------------------------------------
(* Give undoes the last take                                               *)

\* If all that modify_prefix marks as free is whole in t, and all else but the
\* nodes it rebuilds is as in t, the result is t.
LEMMA MarksRestore ==
  ASSUME NEW t \in Trees, NEW w \in Trees, NEW k, NEW i, <<k, i>> \in Nodes, NEW len \in Nat,
         \A m, j : <<m, j>> \in Nodes /\ Above(LeafAfter(k, i, len), m) # j =>
           IF Passed(k, i, len, m, j) THEN t[<<m, j>>] = Whole(m) ELSE w[<<m, j>>] = t[<<m, j>>],
         IF len >= Pow2[k] THEN t[<<0, LeafAfter(k, i, len)>>] = Whole(0)
                           ELSE w[<<0, LeafAfter(k, i, len)>>] = t[<<0, LeafAfter(k, i, len)>>],
         \A m \in Nat : m < Levels => Built(t, m + 1, Above(LeafAfter(k, i, len), m + 1))
  PROVE  modify_prefix(w, k, i, len, TRUE) = t
<1> DEFINE x == LeafAfter(k, i, len)
           v == modify_prefix(w, k, i, len, TRUE)
           P == {m \in Nat : m <= Levels => v[<<m, Above(x, m)>>] = t[<<m, Above(x, m)>>]}
<1>1. x \in Nat /\ x < LENGTH /\ Levels \in Nat
  BY LeafIs, LengthIs
<1>2. /\ v \in Trees
      /\ \A m, j : <<m, j>> \in Nodes /\ Above(x, m) # j
           => v[<<m, j>>] = IF Passed(k, i, len, m, j) THEN modify_single(m, TRUE) ELSE w[<<m, j>>]
      /\ v[<<0, x>>] = IF len >= Pow2[k] THEN modify_single(0, TRUE) ELSE w[<<0, x>>]
      /\ \A m \in Nat : m < Levels => Built(v, m + 1, Above(x, m + 1))
  BY ModifyIs
<1>3. \A m : modify_single(m, TRUE) = Whole(m)
  BY DEF modify_single
<1>4. v[<<0, x>>] = t[<<0, x>>]
  BY <1>2, <1>3
<1>5. \A m, j : <<m, j>> \in Nodes /\ Above(x, m) # j => v[<<m, j>>] = t[<<m, j>>]
  BY <1>2, <1>3
<1>6. \A m \in Nat : m < Levels => Built(t, m + 1, Above(x, m + 1))
  OBVIOUS
<1> HIDE DEF x, v
<1>7. P \in SUBSET Nat /\ 0 \in P
  <2>1. Above(x, 0) = x
    BY <1>1, AboveIs
  <2> QED  BY <1>4, <2>1
<1>8. ASSUME NEW m \in P PROVE m + 1 \in P
  <2> SUFFICES ASSUME m + 1 <= Levels
               PROVE  v[<<m + 1, Above(x, m + 1)>>] = t[<<m + 1, Above(x, m + 1)>>]
    OBVIOUS
  <2> DEFINE b == Above(x, m + 1)
  <2>1. m \in Nat /\ m < Levels /\ m <= Levels /\ m + 1 \in Nat /\ m + 1 \in 0..Levels /\ (m + 1) - 1 = m
    BY <1>1
  <2>2. b \in Nat /\ <<m + 1, b>> \in Nodes
    BY <1>1, <2>1, AboveIs, NodeFits
  <2>3. v[<<m, Above(x, m)>>] = t[<<m, Above(x, m)>>]
    BY <2>1
  <2>4. Built(v, m + 1, b) /\ Built(t, m + 1, b)
    BY <1>2, <1>6, <2>1
  <2> HIDE DEF b
  <2>5. <<m, 2 * b>> \in Nodes /\ <<m, 2 * b + 1>> \in Nodes
    BY <2>1, <2>2, Family
  <2>6. v[<<m, 2 * b>>] = t[<<m, 2 * b>>] /\ v[<<m, 2 * b + 1>>] = t[<<m, 2 * b + 1>>]
    BY <1>5, <2>3, <2>5
  <2>7. v[<<m + 1, b>>] = t[<<m + 1, b>>]
    BY <2>1, <2>4, <2>6 DEF Built
  <2> QED  BY <2>7 DEF b
<1>9. \A m \in Nat : m \in P
  <2> HIDE DEF P
  <2> QED  BY <1>7, <1>8, SetInduction
<1>10. ASSUME NEW n \in Nodes PROVE v[n] = t[n]
  <2> DEFINE m == n[1]
             j == n[2]
  <2>1. n = <<m, j>> /\ m \in Nat /\ m <= Levels
    BY <1>1, NodeIs
  <2> HIDE DEF m, j
  <2>2. CASE Above(x, m) = j
    <3>1. m \in P
      BY <1>9, <2>1
    <3> QED  BY <2>1, <2>2, <3>1
  <2>3. CASE Above(x, m) # j
    BY <1>5, <2>1, <2>3
  <2> QED  BY <2>2, <2>3
<1>11. v \in [Nodes -> Values] /\ t \in [Nodes -> Values]
  BY <1>2 DEF Trees, Maps
<1>12. v = [n \in Nodes |-> v[n]] /\ t = [n \in Nodes |-> t[n]]
  BY <1>11
<1>13. v = t
  BY <1>10, <1>12
<1> QED
  BY <1>13 DEF v

\* Node <<h, g>> begins where <<k, i>> does.
SameBegin(h, g, k, i) == g * Pow2[h] = i * Pow2[k]

\* w is t but for what a give of len chunks under <<h, g>> marks or rebuilds.
AsBefore(t, w, h, g, len) ==
    /\ \A m, j : <<m, j>> \in Nodes /\ Above(LeafAfter(h, g, len), m) # j /\ ~Passed(h, g, len, m, j)
                  => w[<<m, j>>] = t[<<m, j>>]
    /\ len < Pow2[h] => w[<<0, LeafAfter(h, g, len)>>] = t[<<0, LeafAfter(h, g, len)>>]

Regive(w, h, g, len) == modify_prefix(w, h, g, len, TRUE)

\* Marking the run again from any node that begins where it does restores t.
LEMMA GiveRestores ==
  ASSUME NEW c \in BOOLEAN, NEW t, NEW len, NEW k, NEW i, Takes(c, t, len, k, i),
         NEW h \in Nat, h <= k, NEW g \in Nat, SameBegin(h, g, k, i),
         NEW w \in Trees,
         AsBefore(t, w, h, g, len)
  PROVE  Regive(w, h, g, len) = t
<1> DEFINE x == LeafAfter(h, g, len)
           p == Pow2[h]
           b == g * p
           T == Total(c)
<1>1. /\ t \in Trees /\ k \in Nat /\ k <= Levels /\ i \in Nat /\ Levels \in Nat /\ Sound(c, t)
      /\ b \in Nat /\ b = i * Pow2[k] /\ len <= Pow2[k] /\ b + len <= T
  BY TakeFacts, LengthIs DEF Takes, SameBegin
<1>2. len \in Nat /\ len >= 1 /\ <<k, i>> \in Nodes /\ t[<<k, i>>].left >= len /\ WellFormed(t)
  BY DEF Takes, Sound
<1>3. h \in Nat /\ h \in 0..Levels /\ p \in Nat /\ p >= 1 /\ p <= Pow2[k] /\ Pow2[k] \in Nat
  BY <1>1, Pow2Is, Pow2Grows
<1>4. T \in Nat /\ T <= LENGTH /\ LENGTH \in Nat
  BY LengthIs DEF Total
<1>5. b < LENGTH
  <2> HIDE DEF b, T
  <2> QED  BY <1>1, <1>2, <1>4
<1>6. Above(b, h) = g
  <2>1. g * p <= b /\ b < g * p + p
    <3>1. g * p = b
      OBVIOUS
    <3> HIDE DEF b, p
    <3> QED  BY <1>1, <1>3, <3>1
  <2> HIDE DEF b
  <2> QED  BY <1>1, <1>3, <2>1, AboveIs
<1>7. <<h, g>> \in Nodes
  <2> HIDE DEF b
  <2> QED  BY <1>1, <1>3, <1>5, <1>6, NodeFits
<1>8. x \in Nat /\ x < LENGTH /\ Above(x, h) = g
  BY <1>2, <1>7, LeafIs
<1>9. x = b + (IF len < p THEN len ELSE p - 1)
  BY DEF LeafAfter
<1> HIDE DEF x
<1>10. b <= x /\ x <= T /\ (len >= p => x < T) /\ x < b + Pow2[k]
  <2> HIDE DEF b, p, T
  <2> QED  BY <1>1, <1>2, <1>3, <1>4, <1>9
<1>11. Above(x, k) = i
  <2>1. i * Pow2[k] <= x /\ x < i * Pow2[k] + Pow2[k]
    BY <1>1, <1>10
  <2> QED  BY <1>1, <1>8, <2>1, AboveIs
<1>12. PICK C \in SUBSET Nodes : Clean(c, t, C)
  BY <1>1 DEF Sound
<1>13. <<k, i>> \in C
  <2>1. t[<<k, i>>].left \in Nat
    BY <1>1, <1>2 DEF Trees, Maps, Values
  <2>2. t[<<k, i>>].left > 0
    BY <1>2, <2>1
  <2> QED  BY <1>2, <1>12, <2>2 DEF Clean
<1>14. \A m \in 0..k : <<m, Above(x, m)>> \in C
  BY <1>1, <1>8, <1>11, <1>12, <1>13, PathIsClean
<1>15. ASSUME NEW m, NEW j, <<m, j>> \in C, j * Pow2[m] + Pow2[m] <= T PROVE t[<<m, j>>] = Whole(m)
  <2>1. t[<<m, j>>] = Fresh(c)[<<m, j>>] /\ <<m, j>> \in Nodes
    BY <1>12, <1>15 DEF Clean
  <2> DEFINE q == Pow2[m]
             d == j * q
  <2>2. d \in Nat /\ q \in Nat /\ q >= 1 /\ d + q <= T
    BY <1>15, <2>1, NodeFits, Pow2Is
  <2>3. Share(c, m, j) = IF T <= d THEN 0 ELSE IF d + q <= T THEN q ELSE T - d
    BY DEF Share
  <2>4. Share(c, m, j) = q
    <3> HIDE DEF d, q, T
    <3> QED  BY <1>4, <2>2, <2>3
  <2>5. Fresh(c) \in Trees /\ Fresh(c)[<<m, j>>].left = q /\ Fresh(c)[<<m, j>>].max = q
    BY <2>1, <2>4, FreshIs
  <2>6. Fresh(c)[<<m, j>>] \in Values
    BY <2>1, <2>5 DEF Trees, Maps
  <2> QED  BY <2>1, <2>5, <2>6 DEF Values, Whole
<1>16. ASSUME NEW m, NEW j, <<m, j>> \in Nodes, Passed(h, g, len, m, j) PROVE t[<<m, j>>] = Whole(m)
  <2>1. m < h /\ j % 2 = 0 /\ Above(x, m) = j + 1 /\ m \in Nat /\ j \in Nat
    BY <1>16, NodeFits DEF Passed, x
  <2>2. m + 1 \in 0..k /\ m + 1 \in Nat
    BY <1>1, <2>1
  <2>3. Above(x, m + 1) = j \div 2 /\ 2 * (j \div 2) = j /\ j \div 2 \in Nat
    <3>1. Above(x, m + 1) = (j + 1) \div 2
      BY <1>8, <2>1, AboveIs
    <3>2. j = 2 * (j \div 2) /\ j \div 2 \in Nat
      BY <2>1, Siblings
    <3>3. (2 * (j \div 2) + 1) \div 2 = j \div 2
      BY <3>2, Siblings
    <3> QED  BY <3>1, <3>2, <3>3
  <2>4. <<m + 1, j \div 2>> \in C
    BY <1>14, <2>2, <2>3
  <2>5. <<m, 2 * (j \div 2)>> \in C
    BY <1>12, <2>1, <2>3, <2>4 DEF Clean
  <2>6. <<m, j>> \in C
    BY <2>3, <2>5
  <2>7. j * Pow2[m] + Pow2[m] <= T
    <3> DEFINE q == Pow2[m]
    <3>1. Above(x, m) * q <= x /\ q \in Nat
      BY <1>8, <2>1, AboveIs, Pow2Is
    <3>2. (j + 1) * q <= x
      BY <2>1, <3>1
    <3> HIDE DEF q
    <3>3. j * q + q = (j + 1) * q /\ (j + 1) * q \in Nat
      BY <2>1, <3>1
    <3> DEFINE y == (j + 1) * q
    <3>4. y <= x /\ y \in Nat
      BY <3>2, <3>3
    <3> HIDE DEF y, T
    <3>5. y <= T
      BY <1>4, <1>8, <1>10, <3>4
    <3> QED  BY <3>3, <3>5 DEF y, q
  <2> QED  BY <1>15, <2>6, <2>7
<1>17. len >= p => t[<<0, x>>] = Whole(0)
  <2> SUFFICES ASSUME len >= p PROVE t[<<0, x>>] = Whole(0)
    OBVIOUS
  <2>1. Above(x, 0) = x /\ 0 \in 0..k /\ Pow2[0] = 1
    BY <1>1, <1>8, AboveIs, Pow2Is
  <2>2. <<0, x>> \in C
    BY <1>14, <2>1
  <2>3. x * Pow2[0] + Pow2[0] <= T
    <3> HIDE DEF T, p
    <3> QED  BY <1>4, <1>8, <1>10, <2>1
  <2> QED  BY <1>15, <2>2, <2>3
<1>18. ASSUME NEW m \in Nat, m < Levels PROVE Built(t, m + 1, Above(x, m + 1))
  <2>1. m + 1 \in 0..Levels /\ m + 1 \in Nat /\ (m + 1) - 1 = m
    BY <1>1, <1>18
  <2>2. <<m + 1, Above(x, m + 1)>> \in Nodes /\ Above(x, m + 1) \in Nat
    BY <1>8, <2>1, AboveIs, NodeFits
  <2>3. CASE m + 1 > k
    <3>1. t[<<m + 1, Above(x, m + 1)>>].max >= len
      BY <1>8, <1>11, <2>1, <2>3 DEF Takes
    <3>2. t[<<m + 1, Above(x, m + 1)>>] # NoneFree
      BY <1>2, <3>1 DEF NoneFree
    <3> QED  BY <1>2, <2>1, <2>2, <3>2 DEF WellFormed
  <2>4. CASE ~(m + 1 > k)
    <3> DEFINE a == Above(x, m + 1)
    <3>1. <<m + 1, a>> \in C /\ <<m + 1, a>> \in Nodes /\ a \in Nat
      BY <1>1, <1>14, <2>1, <2>2, <2>4
    <3> HIDE DEF a
    <3>2. <<m, 2 * a>> \in C /\ <<m, 2 * a + 1>> \in C
      BY <1>12, <1>18, <3>1 DEF Clean
    <3>3. /\ t[<<m + 1, a>>] = Fresh(c)[<<m + 1, a>>]
          /\ t[<<m, 2 * a>>] = Fresh(c)[<<m, 2 * a>>]
          /\ t[<<m, 2 * a + 1>>] = Fresh(c)[<<m, 2 * a + 1>>]
      BY <1>12, <3>1, <3>2 DEF Clean
    <3>4. Built(Fresh(c), m + 1, a)
      BY <1>18, <3>1, FreshIs
    <3>5. Built(t, m + 1, a)
      BY <2>1, <3>3, <3>4 DEF Built
    <3> QED  BY <3>5 DEF a
  <2> QED  BY <2>3, <2>4
<1>19. \A m, j : <<m, j>> \in Nodes /\ Above(x, m) # j =>
         IF Passed(h, g, len, m, j) THEN t[<<m, j>>] = Whole(m) ELSE w[<<m, j>>] = t[<<m, j>>]
  BY <1>16 DEF x, AsBefore
<1>20. IF len >= p THEN t[<<0, x>>] = Whole(0) ELSE w[<<0, x>>] = t[<<0, x>>]
  BY <1>2, <1>3, <1>17 DEF x, AsBefore
<1>21. modify_prefix(w, h, g, len, TRUE) = t
  BY <1>1, <1>2, <1>7, <1>18, <1>19, <1>20, MarksRestore DEF x, p
<1> QED
  BY <1>7, <1>21 DEF Regive

\* Where node <<m, _>> over the first chunk of the run stands to the run.
BeginsRun(k, i, m) ==
    /\ (i * Pow2[k]) % Pow2[m] = 0 <=> m <= k
    /\ m <= k => ((i * Pow2[k]) \div Pow2[m]) * Pow2[m] = i * Pow2[k]
    /\ (i * Pow2[k]) \div Pow2[m] \in Nat
    /\ <<m, (i * Pow2[k]) \div Pow2[m]>> \in Nodes

\* The nodes that begin with the run are those up to the one it was taken from:
\* the parent of that one would have had the run at its left end too.
LEMMA LevelsOfRun ==
  ASSUME NEW c \in BOOLEAN, NEW t, NEW len, NEW k, NEW i, Takes(c, t, len, k, i), NEW m \in 0..Levels
  PROVE  BeginsRun(k, i, m)
<1> DEFINE b == i * Pow2[k]
           p == Pow2[m]
<1>1. /\ t \in Trees /\ k \in Nat /\ k <= Levels /\ i \in Nat /\ Levels \in Nat /\ b \in Nat
      /\ b + len <= Total(c)
  BY TakeFacts, LengthIs
<1>2. len \in Nat /\ len >= 1 /\ <<k, i>> \in Nodes /\ t[<<k, i>>].left >= len /\ WellFormed(t)
  BY DEF Takes, Sound
<1>3. m \in Nat /\ p \in Nat /\ p >= 1 /\ Pow2[k] \in Nat /\ Pow2[k] >= 1
  BY <1>1, Pow2Is
<1>4. b < LENGTH
  <2>1. Total(c) \in Nat /\ Total(c) <= LENGTH /\ LENGTH \in Nat
    BY LengthIs DEF Total
  <2> HIDE DEF b
  <2> QED  BY <1>1, <1>2, <2>1
<1>5. b \div p \in Nat /\ <<m, b \div p>> \in Nodes
  <2>1. Above(b, m) \in Nat /\ <<m, Above(b, m)>> \in Nodes
    <3> HIDE DEF b
    <3> QED  BY <1>1, <1>3, <1>4, AboveIs, NodeFits
  <2> QED  BY <2>1 DEF Above
<1>6. ASSUME m <= k PROVE b % p = 0 /\ (b \div p) * p = b
  <2> DEFINE q == Pow2[k - m]
             s == Pow2[k]
  <2>1. q \in Nat /\ s = p * q
    BY <1>1, <1>3, <1>6, Pow2Divides
  <2>2. b = i * s
    OBVIOUS
  <2> HIDE DEF q, p, s, b
  <2>3. i * q \in Nat /\ b = p * (i * q) + 0 /\ 0 \in 0..(p - 1)
    <3>1. i * q \in Nat /\ i * (p * q) = p * (i * q)
      BY <1>1, <1>3, <2>1
    <3>2. p * (i * q) \in Nat
      BY <1>3, <3>1
    <3> QED  BY <1>3, <2>1, <2>2, <3>1, <3>2
  <2> DEFINE d == i * q
  <2>4. d \in Nat /\ b = p * d + 0 /\ 0 \in 0..(p - 1)
    BY <2>3
  <2> HIDE DEF d
  <2>5. (p * d + 0) \div p = d /\ (p * d + 0) % p = 0
    BY ONLY <1>3, <2>4, Quotient
  <2>6. b \div p = d /\ b % p = 0
    BY <2>4, <2>5
  <2>7. d * p = p * d /\ p * d \in Nat
    BY <1>3, <2>4
  <2> QED  BY <2>4, <2>6, <2>7
<1>7. ASSUME m > k, b % p = 0 PROVE FALSE
  <2> DEFINE q == Pow2[m - (k + 1)]
             s == Pow2[k]
             e == b \div p
             a == i \div 2
  <2>1. k + 1 \in Nat /\ k + 1 <= m /\ k < Levels /\ k + 1 \in 0..Levels
    BY <1>1, <1>7
  <2>2. q \in Nat /\ p = Pow2[k + 1] * q /\ Pow2[k + 1] = 2 * s
    BY <1>1, <1>3, <2>1, Pow2Divides, Pow2Is
  <2>3. b = p * e + (b % p) /\ e \in Nat
    <3> HIDE DEF b, p
    <3> QED  BY <1>1, <1>3, Division
  <2>4. i % 2 = 0
    <3>1. i * s = ((2 * s) * q) * e
      <4>1. p = (2 * s) * q
        BY <2>2
      <4>2. p * e \in Nat
        BY <1>3, <2>3
      <4>3. b = p * e
        <5> HIDE DEF b, p, e
        <5> QED  BY <1>1, <1>7, <2>3, <4>2
      <4> HIDE DEF p, e, q, s
      <4> QED  BY <4>1, <4>3 DEF s
    <3>2. s \in Nat /\ s >= 1
      BY <1>3
    <3> HIDE DEF s, q, e
    <3>3. ((2 * s) * q) * e = (2 * (q * e)) * s /\ q * e \in Nat
      BY <2>2, <2>3, <3>2
    <3> DEFINE z == q * e
    <3>4. z \in Nat /\ i * s = (2 * z) * s
      BY <3>1, <3>3
    <3> HIDE DEF z
    <3>5. i = 2 * z
      <4>1. CASE i > 2 * z
        <5>1. i - 2 * z \in Nat /\ i - 2 * z >= 1
          BY <1>1, <3>4, <4>1
        <5>2. (i - 2 * z) * s = i * s - (2 * z) * s
          BY <1>1, <3>2, <3>4
        <5>3. (i - 2 * z) * s >= 1
          BY <3>2, <5>1
        <5>4. i * s \in Nat
          BY <1>1, <3>2
        <5> QED  BY <3>4, <5>2, <5>3, <5>4
      <4>2. CASE i < 2 * z
        <5>1. 2 * z - i \in Nat /\ 2 * z - i >= 1
          BY <1>1, <3>4, <4>2
        <5>2. (2 * z - i) * s = (2 * z) * s - i * s
          BY <1>1, <3>2, <3>4
        <5>3. (2 * z - i) * s >= 1
          BY <3>2, <5>1
        <5>4. i * s \in Nat
          BY <1>1, <3>2
        <5> QED  BY <3>4, <5>2, <5>3, <5>4
      <4> QED  BY <1>1, <3>4, <4>1, <4>2
    <3>6. (2 * z) % 2 = 0
      BY <3>4, Siblings
    <3> QED  BY <3>5, <3>6
  <2>5. a \in Nat /\ 2 * a = i
    <3>1. a \in Nat /\ i = 2 * a
      BY <1>1, <2>4, Siblings
    <3> QED  BY <3>1
  <2>6. Above(b, k) = i /\ Above(b, k + 1) = a
    <3>1. b < b + Pow2[k] /\ b <= b
      <4> HIDE DEF b
      <4> QED  BY <1>1, <1>3
    <3>2. Above(b, k) = i
      <4> DEFINE y == i * Pow2[k]
      <4>1. y <= b /\ b < y + Pow2[k]
        BY <3>1
      <4> HIDE DEF b
      <4> QED  BY <1>1, <4>1, AboveIs
    <3> HIDE DEF b
    <3> QED  BY <1>1, <3>2, AboveIs
  <2>7. t[<<k + 1, a>>].left = 0 /\ t[<<k + 1, a>>].max >= len
    <3>1. k + 1 > k
      BY <1>1
    <3> HIDE DEF b, a
    <3> QED  BY <1>1, <2>1, <2>6, <3>1 DEF Takes
  <2> HIDE DEF a
  <2>8. <<k + 1, a>> \in Nodes
    <3> HIDE DEF b
    <3> QED  BY <1>1, <1>4, <2>1, <2>6, NodeFits
  <2>9. t[<<k + 1, a>>] # NoneFree
    BY <1>2, <2>7 DEF NoneFree
  <2>10. Built(t, k + 1, a) /\ (k + 1) - 1 = k
    BY <1>1, <1>2, <2>5, <2>8, <2>9 DEF WellFormed
  <2>11. <<k, 2 * a>> \in Nodes /\ <<k, 2 * a + 1>> \in Nodes
    BY <1>1, <2>5, <2>8, Family
  <2>12. t[<<k, 2 * a>>] \in Values /\ t[<<k, 2 * a + 1>>] \in Values
    BY <1>1, <2>11 DEF Trees, Maps
  <2>13. t[<<k + 1, a>>] = rebuild(k + 1, t[<<k, 2 * a>>], t[<<k, 2 * a + 1>>])
    BY <2>10 DEF Built
  <2>14. t[<<k, 2 * a>>].left = 0
    BY <1>1, <2>7, <2>12, <2>13, RebuiltIs
  <2>15. t[<<k, i>>].left = 0
    BY <2>5, <2>14
  <2> QED  BY <1>2, <2>15
<1> QED
  <2>1. m > k \/ m <= k
    BY <1>1, <1>3
  <2>2. b % p = 0 => ~(m > k)
    BY <1>7
  <2>3. BeginsRun(k, i, m) <=> /\ b % p = 0 <=> m <= k
                               /\ m <= k => (b \div p) * p = b
                               /\ b \div p \in Nat
                               /\ <<m, b \div p>> \in Nodes
    BY DEF BeginsRun
  <2> HIDE DEF b, p
  <2> QED  BY <1>1, <1>3, <1>5, <1>6, <2>1, <2>2, <2>3

LEMMA RegiveIsUndo ==
  ASSUME NEW c \in BOOLEAN, NEW t, NEW len, NEW k, NEW i, Takes(c, t, len, k, i)
  PROVE  Regive(modify_prefix(t, k, i, len, FALSE), k, i, len) = t
<1> DEFINE x == LeafAfter(k, i, len)
           u == modify_prefix(t, k, i, len, FALSE)
<1>1. /\ t \in Trees /\ k \in Nat /\ k <= Levels /\ i \in Nat /\ Levels \in Nat
  BY TakeFacts, LengthIs
<1>2. len \in Nat /\ <<k, i>> \in Nodes
  BY DEF Takes
<1>3. /\ u \in Trees
      /\ \A m, j : <<m, j>> \in Nodes /\ Above(x, m) # j
           => u[<<m, j>>] = IF Passed(k, i, len, m, j) THEN modify_single(m, FALSE) ELSE t[<<m, j>>]
      /\ u[<<0, x>>] = IF len >= Pow2[k] THEN modify_single(0, FALSE) ELSE t[<<0, x>>]
      /\ \A m \in Nat : m < Levels => Built(u, m + 1, Above(x, m + 1))
  BY <1>1, <1>2, ModifyIs
<1>4. len < Pow2[k] => u[<<0, x>>] = t[<<0, x>>]
  <2>1. Pow2[k] \in Nat
    BY <1>1, Pow2Is
  <2>2. len < Pow2[k] => ~(len >= Pow2[k])
    BY <1>2, <2>1
  <2> QED  BY <1>3, <2>2
<1>5. \A m, j : <<m, j>> \in Nodes /\ Above(x, m) # j /\ ~Passed(k, i, len, m, j)
                  => u[<<m, j>>] = t[<<m, j>>]
  BY <1>3
<1>6. u \in Trees
  BY <1>3
<1>7. AsBefore(t, u, k, i, len)
  <2> HIDE DEF u
  <2> QED  BY <1>4, <1>5 DEF AsBefore
<1>8. SameBegin(k, i, k, i)
  BY DEF SameBegin
<1>9. i \in Nat
  BY <1>1
<1> HIDE DEF u
<1>10. k <= k /\ k \in Nat
  BY <1>1
<1>11. Regive(u, k, i, len) = t
  BY <1>6, <1>7, <1>8, <1>9, <1>10, GiveRestores
<1> QED
  BY <1>11 DEF u

LEMMA GiveIsUndo ==
  ASSUME NEW c \in BOOLEAN, NEW t, NEW len, NEW k, NEW i, Takes(c, t, len, k, i)
  PROVE  give(modify_prefix(t, k, i, len, FALSE), len, i * Pow2[k]) = t
<1> DEFINE u == modify_prefix(t, k, i, len, FALSE)
           b == i * Pow2[k]
           ok == {m \in 0..Levels : b % Pow2[m] = 0}
           top == CHOOSE m \in ok : \A l \in ok : l <= m
<1>1. t \in Trees /\ k \in Nat /\ k <= Levels /\ i \in Nat /\ Levels \in Nat /\ b \in Nat
  BY TakeFacts, LengthIs
<1>2. len \in Nat /\ <<k, i>> \in Nodes
  BY DEF Takes
<1>3. \A m \in 0..Levels : m \in ok <=> m <= k
  <2>1. ASSUME NEW m \in 0..Levels PROVE b % Pow2[m] = 0 <=> m <= k
    <3>1. BeginsRun(k, i, m)
      BY LevelsOfRun
    <3> QED  BY <3>1 DEF BeginsRun
  <2> HIDE DEF b
  <2> QED  BY <2>1
<1>4. k \in ok /\ \A l \in ok : l <= k
  <2>1. k \in 0..Levels /\ k <= k
    BY <1>1
  <2>2. ok \subseteq 0..Levels
    OBVIOUS
  <2> HIDE DEF ok
  <2> QED  BY <1>3, <2>1, <2>2
<1>5. top = k
  <2>1. top \in ok /\ \A l \in ok : l <= top
    <3> HIDE DEF ok
    <3> QED  BY <1>4
  <2>2. ok \subseteq 0..Levels
    OBVIOUS
  <2> HIDE DEF ok, top
  <2>3. top \in Nat /\ top <= k /\ k <= top
    BY <1>1, <1>4, <2>1, <2>2
  <2> QED  BY <1>1, <2>3
<1>6. b \div Pow2[k] = i
  <2>1. Above(b, k) = i
    <3> DEFINE y == i * Pow2[k]
    <3>1. y <= b /\ b < y + Pow2[k]
      <4>1. y = b
        OBVIOUS
      <4>2. Pow2[k] \in Nat /\ Pow2[k] >= 1
        BY <1>1, Pow2Is
      <4> HIDE DEF b, y
      <4> QED  BY <1>1, <4>1, <4>2
    <3> HIDE DEF b
    <3> QED  BY <1>1, <3>1, AboveIs
  <2> QED  BY <2>1 DEF Above
<1>7. give(u, len, b) = modify_prefix(u, top, b \div Pow2[top], len, TRUE)
  BY DEF give
<1>8. give(u, len, b) = modify_prefix(u, k, i, len, TRUE)
  <2> HIDE DEF top, u, b
  <2> QED  BY <1>5, <1>6, <1>7
<1>9. modify_prefix(u, k, i, len, TRUE) = t
  <2>1. Regive(u, k, i, len) = t
    BY RegiveIsUndo
  <2> QED  BY <2>1 DEF Regive
<1> QED
  BY <1>8, <1>9

GiveStep(d, u, len, b, m) ==
    IF m = Levels + 1 THEN u
    ELSE IF b % Pow2[m] = 0 THEN Regive(d[m + 1], m, b \div Pow2[m], len)
    ELSE d[m + 1]

\* The largest node that begins with the run restores t, the smaller ones leave
\* it as it is.
LEMMA GiveImplIsUndo ==
  ASSUME NEW c \in BOOLEAN, NEW t, NEW len, NEW k, NEW i, Takes(c, t, len, k, i)
  PROVE  give_impl(modify_prefix(t, k, i, len, FALSE), len, i * Pow2[k]) = t
<1> DEFINE u == modify_prefix(t, k, i, len, FALSE)
           b == i * Pow2[k]
           S == 0..(Levels + 1)
           D == [m \in S |-> IF m > k THEN u ELSE t]
           down == CHOOSE d : d = [m \in S |-> GiveStep(d, u, len, b, m)]
<1>1. t \in Trees /\ k \in Nat /\ k <= Levels /\ i \in Nat /\ Levels \in Nat /\ b \in Nat
  BY TakeFacts, LengthIs
<1>2. give_impl(u, len, b) = down[0]
  BY DEF give_impl, GiveStep, Regive
<1>3. ASSUME NEW m \in 0..Levels
      PROVE  /\ b % Pow2[m] = 0 <=> m <= k
             /\ m <= k => SameBegin(m, b \div Pow2[m], k, i)
             /\ b \div Pow2[m] \in Nat
  <2>1. BeginsRun(k, i, m)
    BY LevelsOfRun
  <2> QED  BY <2>1 DEF BeginsRun, SameBegin
<1>4. b \div Pow2[k] = i
  <2>1. Above(b, k) = i
    <3> DEFINE y == i * Pow2[k]
    <3>1. y <= b /\ b < y + Pow2[k]
      <4>1. y = b
        OBVIOUS
      <4>2. Pow2[k] \in Nat /\ Pow2[k] >= 1
        BY <1>1, Pow2Is
      <4> HIDE DEF b, y
      <4> QED  BY <1>1, <4>1, <4>2
    <3> HIDE DEF b
    <3> QED  BY <1>1, <3>1, AboveIs
  <2> QED  BY <2>1 DEF Above
<1>5. Regive(u, k, i, len) = t
  BY RegiveIsUndo
<1> HIDE DEF u, b
<1>6. ASSUME NEW m \in 0..Levels, m <= k PROVE Regive(t, m, b \div Pow2[m], len) = t
  <2>1. m \in Nat /\ b \div Pow2[m] \in Nat /\ SameBegin(m, b \div Pow2[m], k, i)
    BY <1>3, <1>6
  <2> DEFINE g == b \div Pow2[m]
  <2>2. g \in Nat /\ SameBegin(m, g, k, i)
    BY <2>1
  <2> HIDE DEF g
  <2>3. AsBefore(t, t, m, g, len)
    BY DEF AsBefore
  <2>4. Regive(t, m, g, len) = t
    BY <1>1, <1>6, <2>1, <2>2, <2>3, GiveRestores
  <2> QED  BY <2>4 DEF g
<1>7. \A m \in S : D[m] = GiveStep(D, u, len, b, m)
  <2> SUFFICES ASSUME NEW m \in S PROVE D[m] = GiveStep(D, u, len, b, m)
    OBVIOUS
  <2>1. CASE m = Levels + 1
    <3>1. m > k
      BY <1>1, <2>1
    <3> QED  BY <2>1, <3>1 DEF GiveStep
  <2>2. CASE m # Levels + 1
    <3>1. m \in 0..Levels /\ m + 1 \in S /\ m \in Nat
      BY <1>1, <2>2
    <3>2. D[m] = (IF m > k THEN u ELSE t) /\ D[m + 1] = (IF m + 1 > k THEN u ELSE t)
      BY <3>1
    <3>3. GiveStep(D, u, len, b, m) = IF b % Pow2[m] = 0 THEN Regive(D[m + 1], m, b \div Pow2[m], len)
                                      ELSE D[m + 1]
      BY <2>2 DEF GiveStep
    <3> HIDE DEF D
    <3>4. b % Pow2[m] = 0 <=> m <= k
      BY <1>3, <3>1
    <3>5. CASE m > k
      <4>1. ~(m <= k) /\ m + 1 > k
        BY <1>1, <3>1, <3>5
      <4> QED  BY <3>2, <3>3, <3>4, <3>5, <4>1
    <3>6. CASE m = k
      <4>1. ~(m > k) /\ m <= k /\ m + 1 > k
        BY <1>1, <3>1, <3>6
      <4>2. Regive(D[m + 1], m, b \div Pow2[m], len) = t
        BY <1>4, <1>5, <3>2, <3>6, <4>1
      <4> QED  BY <3>2, <3>3, <3>4, <4>1, <4>2
    <3>7. CASE m < k
      <4>1. ~(m > k) /\ m <= k /\ ~(m + 1 > k)
        BY <1>1, <3>1, <3>7
      <4>2. Regive(D[m + 1], m, b \div Pow2[m], len) = t
        BY <1>6, <3>1, <3>2, <4>1
      <4> QED  BY <3>2, <3>3, <3>4, <4>1, <4>2
    <3> QED  BY <1>1, <3>1, <3>5, <3>6, <3>7
  <2> QED  BY <2>1, <2>2
<1>8. \A m \in S : down[m] = GiveStep(down, u, len, b, m)
  <2>1. D = [m \in S |-> GiveStep(D, u, len, b, m)]
    <3>1. D = [m \in S |-> D[m]]
      OBVIOUS
    <3> HIDE DEF D
    <3> QED  BY <1>7, <3>1
  <2>2. down = [m \in S |-> GiveStep(down, u, len, b, m)]
    <3> HIDE DEF D, S
    <3> QED  BY <2>1
  <2> HIDE DEF down, S
  <2> QED  BY <2>2
<1> HIDE DEF D, down
<1> DEFINE P == {d \in Nat : d <= Levels + 1 => down[(Levels + 1) - d] = D[(Levels + 1) - d]}
<1>9. P \in SUBSET Nat
  OBVIOUS
<1>10. 0 \in P
  <2>1. Levels + 1 \in S /\ (Levels + 1) - 0 = Levels + 1
    BY <1>1
  <2>2. down[Levels + 1] = u /\ D[Levels + 1] = u
    BY <1>7, <1>8, <2>1 DEF GiveStep
  <2> QED  BY <2>1, <2>2
<1>11. ASSUME NEW d \in P PROVE d + 1 \in P
  <2> SUFFICES ASSUME d + 1 <= Levels + 1
               PROVE  down[(Levels + 1) - (d + 1)] = D[(Levels + 1) - (d + 1)]
    OBVIOUS
  <2> DEFINE m == (Levels + 1) - (d + 1)
  <2>1. m \in S /\ m # Levels + 1 /\ m + 1 = (Levels + 1) - d /\ d <= Levels + 1
    BY <1>1
  <2>2. down[m + 1] = D[m + 1]
    BY <2>1
  <2> HIDE DEF m
  <2>3. GiveStep(down, u, len, b, m) = GiveStep(D, u, len, b, m)
    BY <2>2 DEF GiveStep
  <2>4. down[m] = D[m]
    BY <1>7, <1>8, <2>1, <2>3
  <2> QED  BY <2>4 DEF m
<1>12. P = Nat
  <2> HIDE DEF P
  <2> QED  BY <1>9, <1>10, <1>11, SetInduction
<1>13. down[0] = D[0]
  <2>1. Levels + 1 \in P /\ (Levels + 1) - (Levels + 1) = 0 /\ Levels + 1 <= Levels + 1
    <3> HIDE DEF P
    <3> QED  BY <1>1, <1>12
  <2> QED  BY <2>1
<1>14. D[0] = t
  BY <1>1 DEF D
<1> QED
  BY <1>2, <1>13, <1>14 DEF u, b

Marked(t, k, i, len) == modify_prefix(t, k, i, len, FALSE)

\* What the descent of a call that fits comes to.
LEMMA TakeIs ==
  ASSUME NEW c \in BOOLEAN, NEW t, Sound(c, t), NEW len \in Nat, len >= 1, Fits(t, len)
  PROVE  \E k, i : /\ Takes(c, t, len, k, i)
                   /\ AfterTake(t, len) = Marked(t, k, i, len)
                   /\ TakeAt(t, len) = i * Pow2[k]
<1> DEFINE k == TakeLevel(t, len)
           i == TakePath(t, len)[k]
<1>1. /\ <<k, i>> \in Nodes
      /\ t[<<k, i>>].left >= len
      /\ \A x \in Nat : Above(x, k) = i =>
           \A m \in 0..Levels : m > k => t[<<m, Above(x, m)>>].left = 0 /\ t[<<m, Above(x, m)>>].max >= len
  BY DescentIs
<1>2. AfterTake(t, len) = Marked(t, k, i, len) /\ TakeAt(t, len) = i * Pow2[k]
  BY DEF AfterTake, Marked, TakeAt
<1> HIDE DEF k, i
<1>3. Takes(c, t, len, k, i)
  BY <1>1 DEF Takes
<1> QED
  BY <1>2, <1>3

\* A call that fits: it hands out chunks that were free, frees none, and to give
\* them back next leaves no trace of either.
THEOREM TakeIsExact ==
  ASSUME NEW c \in BOOLEAN, NEW t, Sound(c, t), NEW len \in Nat, len >= 1, Fits(t, len)
  PROVE  /\ Sound(c, AfterTake(t, len))
         /\ TakeAt(t, len) \in Nat /\ TakeAt(t, len) + len <= Total(c)
         /\ FreeChunks(AfterTake(t, len)) \subseteq FreeChunks(t)
         /\ \A y \in Nat : TakeAt(t, len) <= y /\ y < TakeAt(t, len) + len
              => y \in FreeChunks(t) /\ y \notin FreeChunks(AfterTake(t, len))
         /\ AfterGive(c, AfterTake(t, len), len, TakeAt(t, len)) = t
<1>1. PICK k, i : /\ Takes(c, t, len, k, i)
                  /\ AfterTake(t, len) = Marked(t, k, i, len)
                  /\ TakeAt(t, len) = i * Pow2[k]
  BY TakeIs
<1> DEFINE u == AfterTake(t, len)
           b == TakeAt(t, len)
<1>2. Takes(c, t, len, k, i)
  BY <1>1
<1>3. u = Marked(t, k, i, len) /\ b = i * Pow2[k]
  BY <1>1
<1>4. Sound(c, u)
  BY <1>2, <1>3, SoundAfterTake DEF Marked
<1>5. b \in Nat /\ b + len <= Total(c)
  BY <1>2, <1>3, TakeFacts
<1>6. FreeChunks(u) \subseteq FreeChunks(t)
  BY <1>2, <1>3, FreeShrinks DEF Marked
<1>7. ASSUME NEW y \in Nat, b <= y, y < b + len
      PROVE  y \in FreeChunks(t) /\ y \notin FreeChunks(u)
  <2>1. i * Pow2[k] <= y /\ y < i * Pow2[k] + len
    BY <1>3, <1>7
  <2>2. y \in FreeChunks(t)
    BY <1>2, <2>1, RunIsFree
  <2>3. y \notin FreeChunks(Marked(t, k, i, len))
    BY <1>2, <2>1, RunIsTaken DEF Marked
  <2> QED  BY <1>3, <2>2, <2>3
<1>8. AfterGive(c, u, len, b) = t
  <2>1. give_impl(modify_prefix(t, k, i, len, FALSE), len, i * Pow2[k]) = t
    BY <1>2, GiveImplIsUndo
  <2>2. give(modify_prefix(t, k, i, len, FALSE), len, i * Pow2[k]) = t
    BY <1>2, GiveIsUndo
  <2>3. modify_prefix(t, k, i, len, FALSE) = u /\ i * Pow2[k] = b
    BY <1>3 DEF Marked
  <2> HIDE DEF u, b
  <2>4. give_impl(u, len, b) = t /\ give(u, len, b) = t
    BY <2>1, <2>2, <2>3
  <2> QED  BY <2>4 DEF AfterGive, u, b
<1> QED
  BY <1>4, <1>5, <1>6, <1>7, <1>8

-----------------------------------------------------------------------------
(* Callers that give first what they took last                             *)

\* h are the trees there were when each of the live runs was taken.
History(h, c, l, t) ==
    /\ h[0] = Fresh(c) /\ h[Len(l)] = t
    /\ \A j \in Nat : j <= Len(l) => Sound(c, h[j])
    /\ \A j \in Nat : j < Len(l) =>
         /\ Fits(h[j], l[j + 1][2])
         /\ l[j + 1][1] = TakeAt(h[j], l[j + 1][2])
         /\ h[j + 1] = AfterTake(h[j], l[j + 1][2])

Runs == Nat \X Sizes

Chronicle(c, l, t) == l \in Seq(Runs) /\ \E h : History(h, c, l, t)

\* The callers' state is what a history of takes that are not given back makes.
UsersInv ==
    /\ compact \in BOOLEAN
    /\ StackUse => Chronicle(compact, live, tree)

LEMMA SizeIs == ASSUME NEW len \in Sizes PROVE len \in Nat /\ len >= 1
BY UsersAssumption

LEMMA TakeKeepsChronicle ==
  ASSUME NEW c \in BOOLEAN, NEW l, NEW t, Chronicle(c, l, t), NEW len \in Sizes, Fits(t, len)
  PROVE  Chronicle(c, Append(l, <<TakeAt(t, len), len>>), AfterTake(t, len))
<1>1. l \in Seq(Runs)
  BY DEF Chronicle
<1>2. PICK h : History(h, c, l, t)
  BY DEF Chronicle
<1> DEFINE n == Len(l)
           u == AfterTake(t, len)
           b == TakeAt(t, len)
           m == Append(l, <<b, len>>)
           g == [j \in Nat |-> IF j <= n THEN h[j] ELSE u]
<1>3. n \in Nat /\ len \in Nat /\ len >= 1
  BY <1>1, SizeIs, LenProperties
<1>4. Sound(c, t)
  BY <1>2, <1>3 DEF History
<1>5. Sound(c, u) /\ b \in Nat
  BY <1>3, <1>4, TakeIsExact
<1> HIDE DEF b, u
<1>6. /\ m \in Seq(Runs) /\ Len(m) = n + 1
      /\ \A j \in 1..(n + 1) : m[j] = IF j <= n THEN l[j] ELSE <<b, len>>
  <2>1. <<b, len>> \in Runs
    BY <1>5 DEF Runs
  <2>2. m \in Seq(Runs) /\ Len(m) = n + 1
    BY <1>1, <2>1
  <2>3. \A j \in 1..(n + 1) : m[j] = IF j <= n THEN l[j] ELSE <<b, len>>
    BY <1>1, <2>1
  <2> QED  BY <2>2, <2>3
<1> HIDE DEF m
<1>7. g[0] = Fresh(c) /\ g[n + 1] = u
  <2>1. 0 <= n /\ n + 1 \in Nat /\ ~(n + 1 <= n)
    BY <1>3
  <2> QED  BY <1>2, <2>1 DEF History
<1>8. ASSUME NEW j \in Nat, j <= n + 1 PROVE Sound(c, g[j])
  <2>1. CASE j <= n
    BY <1>2, <2>1 DEF History
  <2>2. CASE ~(j <= n)
    BY <1>5, <2>2
  <2> QED  BY <2>1, <2>2
<1>9. ASSUME NEW j \in Nat, j < n + 1
      PROVE  /\ Fits(g[j], m[j + 1][2])
             /\ m[j + 1][1] = TakeAt(g[j], m[j + 1][2])
             /\ g[j + 1] = AfterTake(g[j], m[j + 1][2])
  <2>1. j + 1 \in 1..(n + 1) /\ j <= n /\ j + 1 \in Nat
    BY <1>3, <1>9
  <2>2. g[j] = h[j]
    BY <2>1
  <2>3. CASE j < n
    <3>1. j + 1 <= n
      BY <1>3, <2>3
    <3>2. m[j + 1] = l[j + 1] /\ g[j + 1] = h[j + 1]
      BY <1>6, <2>1, <3>1
    <3>3. /\ Fits(h[j], l[j + 1][2])
          /\ l[j + 1][1] = TakeAt(h[j], l[j + 1][2])
          /\ h[j + 1] = AfterTake(h[j], l[j + 1][2])
      BY <1>2, <2>3 DEF History
    <3> HIDE DEF g
    <3> QED  BY <2>2, <3>2, <3>3
  <2>4. CASE j = n
    <3>1. ~(j + 1 <= n)
      BY <1>3, <2>4
    <3>2. m[j + 1] = <<b, len>> /\ g[j + 1] = u
      BY <1>6, <2>1, <3>1
    <3>3. h[n] = t
      BY <1>2 DEF History
    <3>4. g[j] = t /\ m[j + 1][1] = b /\ m[j + 1][2] = len
      BY <2>2, <2>4, <3>2, <3>3
    <3> HIDE DEF g
    <3> QED  BY <3>2, <3>4 DEF b, u
  <2> QED  BY <1>3, <2>1, <2>3, <2>4
<1>10. History(g, c, m, u)
  <2> HIDE DEF g
  <2> QED  BY <1>6, <1>7, <1>8, <1>9 DEF History
<1>11. Chronicle(c, m, u)
  BY <1>6, <1>10 DEF Chronicle
<1> QED
  BY <1>11 DEF m, u, b

\* RemoveAt of the last element.
LEMMA WithoutLast ==
  ASSUME NEW S, NEW l \in Seq(S), Len(l) >= 1
  PROVE  /\ RemoveAt(l, Len(l)) \in Seq(S)
         /\ Len(RemoveAt(l, Len(l))) = Len(l) - 1
         /\ \A j \in 1..(Len(l) - 1) : RemoveAt(l, Len(l))[j] = l[j]
<1> DEFINE n == Len(l)
           a == SubSeq(l, 1, n - 1)
           e == SubSeq(l, n + 1, n)
<1>1. n \in Nat /\ n >= 1 /\ n - 1 \in Nat
  BY LenProperties
<1>2. \A j \in 1..n : l[j] \in S
  BY ElementOfSeq
<1>3. /\ a \in Seq(S) /\ Len(a) = n - 1
      /\ \A j \in 1..(n - 1) : a[j] = l[j]
  <2> DEFINE p == n - 1
             d == SubSeq(l, 1, p)
  <2>1. 1 \in Int /\ p \in Int /\ p >= 0 /\ \A j \in 1..p : l[j] \in S
    BY <1>1, <1>2
  <2>2. a = d
    OBVIOUS
  <2> HIDE DEF p, a, n
  <2>3. /\ d \in Seq(S) /\ Len(d) = IF 1 <= p THEN (p - 1) + 1 ELSE 0
        /\ \A j \in 1..((p - 1) + 1) : d[j] = l[(1 + j) - 1]
    BY <2>1, SubSeqProperties
  <2>4. Len(d) = p /\ \A j \in 1..p : d[j] = l[j]
    <3> HIDE DEF d
    <3> QED  BY <2>1, <2>3
  <2> QED  BY <2>2, <2>3, <2>4 DEF p
<1>4. e = <<>>
  <2>1. n < n + 1 /\ n + 1 \in Int /\ n \in Int
    BY <1>1
  <2> HIDE DEF n
  <2> QED  BY <2>1, SubSeqEmpty
<1>5. RemoveAt(l, n) = a \o e
  BY DEF RemoveAt
<1>6. a \o <<>> = a
  BY <1>3, ConcatEmptySeq
<1> QED
  BY <1>3, <1>4, <1>5, <1>6

LEMMA GiveKeepsChronicle ==
  ASSUME NEW c \in BOOLEAN, NEW l, NEW t, Chronicle(c, l, t), Len(l) >= 1
  PROVE  Chronicle(c, RemoveAt(l, Len(l)), AfterGive(c, t, l[Len(l)][2], l[Len(l)][1]))
<1>1. l \in Seq(Runs)
  BY DEF Chronicle
<1>2. PICK h : History(h, c, l, t)
  BY DEF Chronicle
<1> DEFINE n == Len(l) - 1
           m == RemoveAt(l, Len(l))
           b == l[n + 1][1]
           len == l[n + 1][2]
<1>3. n \in Nat /\ Len(l) = n + 1 /\ n <= Len(l) /\ n < Len(l) /\ n + 1 \in 1..Len(l)
  BY <1>1, LenProperties
<1>4. m \in Seq(Runs) /\ Len(m) = n /\ \A j \in 1..n : m[j] = l[j]
  BY <1>1, WithoutLast
<1>5. len \in Nat /\ len >= 1
  <2>1. l[n + 1] \in Runs
    BY <1>1, <1>3, ElementOfSeq
  <2>2. len \in Sizes
    BY <2>1 DEF Runs
  <2> HIDE DEF len
  <2> QED  BY <2>2, SizeIs
<1>6. /\ Sound(c, h[n]) /\ Fits(h[n], len) /\ b = TakeAt(h[n], len) /\ h[n + 1] = AfterTake(h[n], len)
      /\ h[n + 1] = t
  BY <1>2, <1>3 DEF History
<1> HIDE DEF n, m, b, len
<1>7. AfterGive(c, t, len, b) = h[n]
  BY <1>5, <1>6, TakeIsExact
<1>8. History(h, c, m, h[n])
  <2>1. \A j \in Nat : j <= n => Sound(c, h[j])
    BY <1>2, <1>3 DEF History
  <2>2. ASSUME NEW j \in Nat, j < n
        PROVE  /\ Fits(h[j], m[j + 1][2])
               /\ m[j + 1][1] = TakeAt(h[j], m[j + 1][2])
               /\ h[j + 1] = AfterTake(h[j], m[j + 1][2])
    <3>1. j < Len(l) /\ j + 1 \in 1..n
      BY <1>3, <2>2
    <3>2. m[j + 1] = l[j + 1]
      BY <1>4, <3>1
    <3> QED  BY <1>2, <3>1, <3>2 DEF History
  <2>3. h[0] = Fresh(c)
    BY <1>2 DEF History
  <2> QED  BY <1>4, <2>1, <2>2, <2>3 DEF History
<1>9. Chronicle(c, m, h[n])
  BY <1>4, <1>8 DEF Chronicle
<1>10. Chronicle(c, m, AfterGive(c, t, len, b))
  BY <1>7, <1>9
<1> QED
  BY <1>3, <1>10 DEF m, b, len

LEMMA FreeShrinksOnward ==
  ASSUME NEW c \in BOOLEAN, NEW l \in Seq(Runs), NEW t, NEW h, History(h, c, l, t), NEW i \in Nat
  PROVE  \A d \in Nat : i + d <= Len(l) => FreeChunks(h[i + d]) \subseteq FreeChunks(h[i])
<1> DEFINE P == {d \in Nat : i + d <= Len(l) => FreeChunks(h[i + d]) \subseteq FreeChunks(h[i])}
<1>1. P \in SUBSET Nat /\ 0 \in P
  <2>1. i + 0 = i
    OBVIOUS
  <2> QED  BY <2>1
<1>2. Len(l) \in Nat
  BY LenProperties
<1>3. ASSUME NEW d \in P PROVE d + 1 \in P
  <2> SUFFICES ASSUME i + (d + 1) <= Len(l)
               PROVE  FreeChunks(h[i + (d + 1)]) \subseteq FreeChunks(h[i])
    OBVIOUS
  <2> DEFINE j == i + d
             len == l[j + 1][2]
  <2>1. j \in Nat /\ j < Len(l) /\ j <= Len(l) /\ j + 1 = i + (d + 1) /\ j + 1 \in 1..Len(l)
    BY <1>2
  <2>2. FreeChunks(h[j]) \subseteq FreeChunks(h[i])
    BY <2>1
  <2> HIDE DEF j
  <2>3. Sound(c, h[j]) /\ Fits(h[j], len) /\ h[j + 1] = AfterTake(h[j], len)
    BY <2>1 DEF History
  <2>4. len \in Nat /\ len >= 1
    <3>1. l[j + 1] \in Runs
      BY <2>1, ElementOfSeq
    <3>2. len \in Sizes
      BY <3>1 DEF Runs
    <3> HIDE DEF len
    <3> QED  BY <3>2, SizeIs
  <2> HIDE DEF len
  <2>5. FreeChunks(AfterTake(h[j], len)) \subseteq FreeChunks(h[j])
    BY <2>3, <2>4, TakeIsExact
  <2>6. FreeChunks(h[j + 1]) \subseteq FreeChunks(h[i])
    BY <2>2, <2>3, <2>5
  <2> QED  BY <2>1, <2>6
<1>4. \A d \in Nat : d \in P
  <2> HIDE DEF P
  <2> QED  BY <1>1, <1>3, SetInduction
<1> QED
  BY <1>4

\* Runs that no chunk is in both of are apart.
LEMMA ApartIs ==
  ASSUME NEW a \in Nat, NEW m \in Nat, m >= 1, NEW b \in Nat, NEW n \in Nat, n >= 1,
         \A y \in Nat : ~(a <= y /\ y < a + m /\ b <= y /\ y < b + n)
  PROVE  a + m <= b \/ b + n <= a
<1>1. SUFFICES ASSUME a + m > b, b + n > a PROVE FALSE
  OBVIOUS
<1>2. CASE a <= b
  <2>1. b < b + n /\ b <= b /\ b < a + m
    BY <1>1
  <2> QED  BY <1>2, <2>1
<1>3. CASE b <= a
  <2>1. a < a + m /\ a <= a /\ a < b + n
    BY <1>1
  <2> QED  BY <1>3, <2>1
<1> QED
  BY <1>2, <1>3

\* A run that was taken is free in none of the later trees, the later ones are.
LEMMA LaterIsApart ==
  ASSUME NEW c \in BOOLEAN, NEW l \in Seq(Runs), NEW t, NEW h, History(h, c, l, t),
         NEW i \in 1..Len(l), NEW j \in 1..Len(l), i < j
  PROVE  Disjoint(l[i], l[j]) /\ Disjoint(l[j], l[i])
<1> DEFINE p == i - 1
           q == j - 1
           a == l[i][1]
           m == l[i][2]
           b == l[j][1]
           n == l[j][2]
<1>1. /\ Len(l) \in Nat
      /\ p \in Nat /\ p < Len(l) /\ p <= Len(l) /\ p + 1 = i
      /\ q \in Nat /\ q < Len(l) /\ q <= Len(l) /\ q + 1 = j
      /\ i \in Nat /\ q - i \in Nat /\ i + (q - i) = q
  BY LenProperties
<1>2. m \in Nat /\ m >= 1 /\ n \in Nat /\ n >= 1
  <2>1. l[i] \in Runs /\ l[j] \in Runs
    BY ElementOfSeq
  <2>2. m \in Sizes /\ n \in Sizes
    BY <2>1 DEF Runs
  <2> HIDE DEF m, n
  <2> QED  BY <2>2, SizeIs
<1> HIDE DEF p, q
<1>3. /\ Sound(c, h[p]) /\ Fits(h[p], m) /\ a = TakeAt(h[p], m) /\ h[i] = AfterTake(h[p], m)
      /\ Sound(c, h[q]) /\ Fits(h[q], n) /\ b = TakeAt(h[q], n)
  <2>1. /\ Fits(h[p], l[p + 1][2])
        /\ l[p + 1][1] = TakeAt(h[p], l[p + 1][2])
        /\ h[p + 1] = AfterTake(h[p], l[p + 1][2])
    BY <1>1 DEF History
  <2>2. /\ Fits(h[q], l[q + 1][2])
        /\ l[q + 1][1] = TakeAt(h[q], l[q + 1][2])
    BY <1>1 DEF History
  <2>3. Sound(c, h[p]) /\ Sound(c, h[q])
    BY <1>1 DEF History
  <2> QED  BY <1>1, <2>1, <2>2, <2>3
<1>4. FreeChunks(h[q]) \subseteq FreeChunks(h[i])
  <2> DEFINE d == q - i
  <2>1. d \in Nat /\ i + d = q
    BY <1>1
  <2> HIDE DEF d
  <2> QED  BY <1>1, <2>1, FreeShrinksOnward
<1> HIDE DEF a, b, m, n
<1>5. /\ a \in Nat
      /\ \A y \in Nat : a <= y /\ y < a + m => y \notin FreeChunks(h[i])
  BY <1>2, <1>3, TakeIsExact
<1>6. /\ b \in Nat
      /\ \A y \in Nat : b <= y /\ y < b + n => y \in FreeChunks(h[q])
  BY <1>2, <1>3, TakeIsExact
<1>7. \A y \in Nat : ~(a <= y /\ y < a + m /\ b <= y /\ y < b + n)
  BY <1>4, <1>5, <1>6
<1>8. a + m <= b \/ b + n <= a
  BY <1>2, <1>5, <1>6, <1>7, ApartIs
<1> QED
  BY <1>8 DEF Disjoint, a, b, m, n

LEMMA FreshFits ==
  ASSUME NEW c \in BOOLEAN
  PROVE  Fresh(c)[<<Levels, 0>>].max = Total(c)
<1>1. /\ Levels \in Nat /\ LENGTH = Pow2[Levels] /\ LENGTH \in Nat
      /\ LeafCount \in Nat /\ LeafCount >= 1 /\ LeafCount <= LENGTH
  BY LengthIs
<1>2. <<Levels, 0>> \in Nodes
  <2>1. 0 < LENGTH /\ Levels \in 0..Levels /\ 0 \in Nat
    BY <1>1
  <2>2. Above(0, Levels) = 0
    <3>1. 0 * Pow2[Levels] <= 0 /\ 0 < 0 * Pow2[Levels] + Pow2[Levels]
      BY <1>1
    <3> QED  BY <1>1, <2>1, <3>1, AboveIs
  <2> QED  BY <2>1, <2>2, NodeFits
<1>3. Fresh(c)[<<Levels, 0>>].max = Share(c, Levels, 0)
  BY <1>2, FreshIs
<1>4. Share(c, Levels, 0) = IF Total(c) <= 0 THEN 0 ELSE IF LENGTH <= Total(c) THEN LENGTH ELSE Total(c)
  <2>1. 0 * LENGTH = 0 /\ 0 + LENGTH = LENGTH
    BY <1>1
  <2>2. Total(c) - 0 = Total(c)
    BY <1>1 DEF Total
  <2> QED  BY <1>1, <2>1, <2>2 DEF Share
<1>5. Total(c) \in Nat /\ Total(c) >= 1 /\ Total(c) <= LENGTH
  BY <1>1 DEF Total
<1> QED
  BY <1>1, <1>3, <1>4, <1>5

LEMMA UsersInvImplies == UsersInv => StackUseIsExact
<1> SUFFICES ASSUME UsersInv, StackUse PROVE StackUseIsExact
  BY DEF StackUseIsExact
<1>1. compact \in BOOLEAN /\ live \in Seq(Runs) /\ \E h : History(h, compact, live, tree)
  BY DEF UsersInv, Chronicle
<1>2. PICK h : History(h, compact, live, tree)
  BY <1>1
<1>3. Len(live) \in Nat
  BY <1>1, LenProperties
<1>4. LiveAreDisjoint
  <2>1. ASSUME NEW i \in 1..Len(live), NEW j \in 1..Len(live), i # j
        PROVE  Disjoint(live[i], live[j])
    <3>1. CASE i < j
      BY <1>1, <1>2, <3>1, LaterIsApart
    <3>2. CASE j < i
      BY <1>1, <1>2, <3>2, LaterIsApart
    <3> QED  BY <1>3, <2>1, <3>1, <3>2
  <2> QED  BY <2>1 DEF LiveAreDisjoint
<1>5. ASSUME compact, NEW i \in 1..Len(live) PROVE live[i][1] + live[i][2] <= LeafCount
  <2> DEFINE p == i - 1
             len == live[i][2]
  <2>1. p \in Nat /\ p < Len(live) /\ p <= Len(live) /\ p + 1 = i
    BY <1>3
  <2>2. len \in Nat /\ len >= 1
    <3>1. live[i] \in Runs
      BY <1>1, ElementOfSeq
    <3>2. len \in Sizes
      BY <3>1 DEF Runs
    <3> HIDE DEF len
    <3> QED  BY <3>2, SizeIs
  <2> HIDE DEF p
  <2>3. Sound(compact, h[p]) /\ Fits(h[p], len) /\ live[i][1] = TakeAt(h[p], len)
    <3>1. Fits(h[p], live[p + 1][2]) /\ live[p + 1][1] = TakeAt(h[p], live[p + 1][2])
      BY <1>2, <2>1 DEF History
    <3>2. Sound(compact, h[p])
      BY <1>2, <2>1 DEF History
    <3> QED  BY <2>1, <3>1, <3>2
  <2> HIDE DEF len
  <2>4. TakeAt(h[p], len) + len <= Total(compact)
    BY <1>1, <2>2, <2>3, TakeIsExact
  <2>5. Total(compact) = LeafCount
    BY <1>5 DEF Total
  <2>6. live[i][1] + len <= LeafCount
    BY <2>3, <2>4, <2>5
  <2> QED  BY <2>6 DEF len
<1>6. live = <<>> => tree[<<Levels, 0>>].max = IF compact THEN LeafCount ELSE LENGTH
  <2> SUFFICES ASSUME live = <<>> PROVE tree[<<Levels, 0>>].max = Total(compact)
    BY DEF Total
  <2>1. Len(live) = 0
    OBVIOUS
  <2>2. tree = Fresh(compact)
    BY <1>2, <2>1 DEF History
  <2> QED  BY <1>1, <2>2, FreshFits
<1> QED
  BY <1>4, <1>5, <1>6 DEF StackUseIsExact

LEMMA UsersInitInv == UsersInit => UsersInv
<1> SUFFICES ASSUME UsersInit PROVE UsersInv
  OBVIOUS
<1>1. compact \in BOOLEAN /\ tree = Fresh(compact) /\ live = <<>>
  BY DEF UsersInit
<1> DEFINE h == [j \in Nat |-> Fresh(compact)]
<1>2. Len(live) = 0 /\ live \in Seq(Runs)
  BY <1>1
<1>3. Sound(compact, Fresh(compact))
  BY <1>1, FreshIsSound
<1>4. h[0] = Fresh(compact) /\ \A j \in Nat : h[j] = Fresh(compact)
  OBVIOUS
<1> HIDE DEF h
<1>5. \A j \in Nat : ~(j < 0)
  OBVIOUS
<1>6. History(h, compact, live, tree)
  BY <1>1, <1>2, <1>3, <1>4, <1>5 DEF History
<1> QED
  BY <1>1, <1>2, <1>6 DEF UsersInv, Chronicle

LEMMA UsersNextInv == UsersInv /\ [UsersNext]_userVars => UsersInv'
<1> SUFFICES ASSUME UsersInv, [UsersNext]_userVars PROVE UsersInv'
  OBVIOUS
<1>1. compact \in BOOLEAN /\ (StackUse => Chronicle(compact, live, tree))
  BY DEF UsersInv
<1>2. ASSUME NEW len \in Sizes, Take(len) PROVE UsersInv'
  <2>1. /\ Fits(tree, len) /\ compact' = compact
        /\ tree' = AfterTake(tree, len)
        /\ live' = Append(live, <<TakeAt(tree, len), len>>)
    BY <1>2 DEF Take
  <2>2. StackUse => Chronicle(compact, Append(live, <<TakeAt(tree, len), len>>), AfterTake(tree, len))
    BY <1>1, <2>1, TakeKeepsChronicle
  <2>3. StackUse => Chronicle(compact', live', tree')
    BY <2>1, <2>2
  <2> QED  BY <1>1, <2>1, <2>3 DEF UsersInv
<1>3. ASSUME NEW i \in 1..Len(live), Give(i) PROVE UsersInv'
  <2>1. /\ compact' = compact
        /\ tree' = AfterGive(compact, tree, live[i][2], live[i][1])
        /\ live' = RemoveAt(live, i)
        /\ StackUse => i = Len(live)
    BY <1>3 DEF Give
  <2>2. ASSUME StackUse PROVE Chronicle(compact', live', tree')
    <3>1. live \in Seq(Runs) /\ i = Len(live)
      BY <1>1, <2>1, <2>2 DEF Chronicle
    <3>2. Len(live) >= 1
      BY <3>1, LenProperties
    <3>3. Chronicle(compact, RemoveAt(live, Len(live)),
                    AfterGive(compact, tree, live[Len(live)][2], live[Len(live)][1]))
      BY <1>1, <2>2, <3>2, GiveKeepsChronicle
    <3> QED  BY <2>1, <3>1, <3>3
  <2> QED  BY <1>1, <2>1, <2>2 DEF UsersInv
<1>4. ASSUME UNCHANGED userVars PROVE UsersInv'
  <2>1. compact' = compact /\ live' = live /\ tree' = tree
    BY <1>4 DEF userVars
  <2>2. StackUse => Chronicle(compact', live', tree')
    BY <1>1, <2>1
  <2> QED  BY <1>1, <2>1, <2>2 DEF UsersInv
<1> QED
  BY <1>2, <1>3, <1>4 DEF UsersNext

\* As long as what was taken last is given first, live runs of a segment tree
\* are disjoint and lie within the chunks, and all are free again at the end.
THEOREM StackUseIsAlwaysExact == UsersSpec => []StackUseIsExact
<1>1. UsersInv => StackUseIsExact
  BY UsersInvImplies
<1>2. UsersInit => UsersInv
  BY UsersInitInv
<1>3. UsersInv /\ [UsersNext]_userVars => UsersInv'
  BY UsersNextInv
<1> QED
  BY <1>1, <1>2, <1>3, PTL DEF UsersSpec

-----------------------------------------------------------------------------
(* The allocator of small pointers: its arithmetic                         *)

LEMMA Sizing ==
  /\ ChunkSize \in Nat /\ ChunkSize >= 1 /\ StealCoef \in Nat /\ StealCoef >= 1
  /\ FreeListLimit \in Nat /\ MetadataSize \in Nat /\ MetadataSize >= 1
  /\ LeafCount \in Nat /\ LeafCount * ChunkSize \in Nat /\ MetadataSize < LeafCount * ChunkSize
  /\ \A n \in Requests : n \in Nat /\ n >= 1
<1>1. /\ ChunkSize \in Nat /\ ChunkSize >= 1 /\ StealCoef \in Nat /\ StealCoef >= 1
      /\ FreeListLimit \in Nat /\ MetadataSize \in Nat /\ MetadataSize >= 1
      /\ \A n \in Requests : n \in Nat /\ n >= 1
  BY AllocatorAssumption
<1>2. LeafCount \in Nat /\ MetadataSize < LeafCount * ChunkSize
  BY AllocatorAssumption, LengthIs
<1>3. LeafCount * ChunkSize \in Nat
  BY <1>1, <1>2
<1> QED
  BY <1>1, <1>2, <1>3

LEMMA Scaled ==
  ASSUME NEW a \in Nat, NEW b \in Nat, NEW s \in Nat
  PROVE  /\ a * s \in Nat /\ b * s \in Nat
         /\ a <= b => a * s <= b * s
         /\ (a + 1) * s = a * s + s
         /\ (a + b) * s = a * s + b * s
<1>1. a * s \in Nat /\ b * s \in Nat /\ (a + b) * s = a * s + b * s /\ (a + 1) * s = a * s + s
  OBVIOUS
<1>2. ASSUME a <= b PROVE a * s <= b * s
  <2>1. PICK d \in Nat : b = a + d
    <3>1. b - a \in Nat /\ b = a + (b - a)
      BY <1>2
    <3> QED  BY <3>1
  <2>2. (a + d) * s = a * s + d * s /\ d * s \in Nat
    OBVIOUS
  <2> DEFINE x == a * s
             y == d * s
  <2>3. x \in Nat /\ y \in Nat /\ b * s = x + y
    BY <1>1, <2>1, <2>2
  <2> HIDE DEF x, y
  <2>4. x <= b * s
    BY <2>3
  <2> QED  BY <2>4 DEF x
<1> QED
  BY <1>1, <1>2

LEMMA ChunkCountIs ==
  ASSUME NEW n \in Nat, n >= 1
  PROVE  /\ chunk_count(n) \in Nat /\ chunk_count(n) >= 1
         /\ chunk_count(n) * ChunkSize \in Nat /\ n <= chunk_count(n) * ChunkSize
         /\ n < LeafCount * ChunkSize => chunk_count(n) <= LeafCount
<1> DEFINE s == ChunkSize
           w == (n + s) - 1
           q == w \div s
           r == w % s
<1>1. s \in Nat /\ s >= 1 /\ LeafCount \in Nat
  BY Sizing
<1>2. w \in Nat /\ chunk_count(n) = q
  BY <1>1 DEF chunk_count
<1>3. w = s * q + r /\ q \in Nat /\ r \in 0..(s - 1)
  <2> HIDE DEF s, w
  <2> QED  BY <1>1, <1>2, Division
<1>4. s * q = q * s /\ q * s \in Nat
  <2> HIDE DEF s, q
  <2> QED  BY <1>1, <1>3
<1>5. n <= q * s
  <2> DEFINE y == q * s
  <2>1. y \in Nat /\ (n + s) - 1 = y + r
    BY <1>2, <1>3, <1>4
  <2> HIDE DEF s, y, q, r
  <2>2. n <= y
    BY <1>1, <1>3, <2>1
  <2> QED  BY <2>2 DEF y
<1>6. q >= 1
  <2>1. CASE q = 0
    <3>1. q * s = 0
      <4> HIDE DEF q, s
      <4> QED  BY <1>1, <2>1
    <3> HIDE DEF q, s
    <3> QED  BY <1>5, <3>1
  <2>2. CASE q # 0
    <3> HIDE DEF q
    <3> QED  BY <1>3, <2>2
  <2> QED  BY <2>1, <2>2
<1>7. ASSUME n < LeafCount * s PROVE q <= LeafCount
  <2> DEFINE z == LeafCount * s
             y == q * s
  <2>1. SUFFICES ASSUME q > LeafCount PROVE FALSE
    <3> HIDE DEF q
    <3> QED  BY <1>1, <1>3
  <2>2. LeafCount + 1 <= q
    <3> HIDE DEF q
    <3> QED  BY <1>1, <1>3, <2>1
  <2>3. (LeafCount + 1) * s <= q * s /\ (LeafCount + 1) * s = LeafCount * s + s /\ LeafCount * s \in Nat
    <3>1. LeafCount + 1 \in Nat
      BY <1>1
    <3> HIDE DEF q, s
    <3> QED  BY <1>1, <1>3, <2>2, <3>1, Scaled
  <2>4. z + s <= y /\ z \in Nat /\ y \in Nat /\ n < z /\ (n + s) - 1 = y + r
    BY <1>2, <1>3, <1>4, <1>7, <2>3
  <2> HIDE DEF z, y, s, q, r
  <2> QED  BY <1>1, <1>3, <2>4
<1> QED
  BY <1>2, <1>3, <1>4, <1>5, <1>6, <1>7

LEMMA AlignIs ==
  ASSUME NEW n \in Nat, n >= 1
  PROVE  align32(n) \in Nat /\ align32(n) >= n /\ align32(n) >= 1
BY DEF align32

LEMMA SmallSizeIs ==
  /\ \A n \in SmallSizes : n \in Nat /\ n >= 1 /\ n <= FreeListLimit
  /\ \A size \in Requests : align32(size) <= FreeListLimit => align32(size) \in SmallSizes
<1>1. \A size \in Requests : align32(size) \in Nat /\ align32(size) >= 1
  BY Sizing, AlignIs
<1>2. FreeListLimit \in Nat
  BY Sizing
<1>3. ASSUME NEW size \in Requests, align32(size) <= FreeListLimit PROVE align32(size) \in SmallSizes
  <2> DEFINE n == align32(size)
  <2>1. n \in Nat /\ n >= 1 /\ n <= FreeListLimit
    BY <1>1, <1>3
  <2>2. n \in {align32(m) : m \in Requests}
    OBVIOUS
  <2> HIDE DEF n
  <2>3. n \in 1..FreeListLimit
    BY <1>2, <2>1
  <2>4. n \in SmallSizes
    BY <2>2, <2>3 DEF SmallSizes
  <2> QED  BY <2>4 DEF n
<1>4. ASSUME NEW n \in SmallSizes PROVE n \in Nat /\ n >= 1 /\ n <= FreeListLimit
  <2>1. n \in 1..FreeListLimit
    BY DEF SmallSizes
  <2> QED  BY <1>2, <2>1
<1> QED
  BY <1>3, <1>4

LEMMA DisjointIs ==
  ASSUME NEW a, NEW b
  PROVE  Disjoint(a, b) <=> Disjoint(b, a)
BY DEF Disjoint

-----------------------------------------------------------------------------
(* Nothing is shared                                                       *)

\* What a block takes of the memory, and what an entry of a free list does.
Room(b) == <<b[1], align32(b[2])>>

Ents(fl) == {e \in SmallSizes \X Nat : e[2] \in 1..Len(fl[e[1]])}

FreeOf(fl, e) == <<fl[e[1]][e[2]], e[1]>>

Chunk(y) == <<y * ChunkSize, ChunkSize>>

\* Runs of bytes that lie behind the tree, in the storage, and in no free chunk.
Spans == Nat \X (Nat \ {0})

Placed(ch, r) ==
    /\ MetadataSize <= r[1] /\ r[1] + r[2] <= LeafCount * ChunkSize
    /\ \A y \in FreeChunks(ch) : Disjoint(r, Chunk(y))

\* The bytes of a grant that fits are behind the tree and in the storage, and in
\* no chunk that was taken before or is free afterwards.
LEMMA GrantIs ==
  ASSUME NEW ch, Sound(TRUE, ch), \A y \in FreeChunks(ch) : MetadataSize <= y * ChunkSize,
         NEW n \in Nat, n >= 1, Fits(ch, chunk_count(n)),
         NEW o \in Nat, NEW s \in Nat, s >= 1,
         TakeAt(ch, chunk_count(n)) * ChunkSize <= o, o + s <= TakeAt(ch, chunk_count(n)) * ChunkSize + n
  PROVE  /\ Placed(AfterTake(ch, chunk_count(n)), <<o, s>>)
         /\ \A r \in Spans : Placed(ch, r) => Disjoint(<<o, s>>, r)
<1> DEFINE c == ChunkSize
           k == chunk_count(n)
           a == TakeAt(ch, k)
           u == AfterTake(ch, k)
<1>1. /\ c \in Nat /\ c >= 1 /\ LeafCount \in Nat /\ k \in Nat /\ k >= 1
      /\ k * c \in Nat /\ n <= k * c
  BY Sizing, ChunkCountIs
<1>2. /\ a \in Nat /\ a + k <= LeafCount
      /\ FreeChunks(u) \subseteq FreeChunks(ch)
      /\ \A y \in Nat : a <= y /\ y < a + k => y \in FreeChunks(ch) /\ y \notin FreeChunks(u)
  <2>1. k \in Nat /\ k >= 1 /\ Fits(ch, k) /\ TRUE \in BOOLEAN
    BY <1>1
  <2> HIDE DEF k
  <2> QED  BY <2>1, TakeIsExact DEF Total
<1>3. FreeChunks(ch) \subseteq Nat
  BY DEF FreeChunks
<1>4. a * c <= o /\ o + s <= a * c + n
  OBVIOUS
<1> HIDE DEF c, k, a, u
<1>5. /\ a * c \in Nat /\ (a + k) * c = a * c + k * c /\ (a + k) * c \in Nat
      /\ (a + k) * c <= LeafCount * c /\ LeafCount * c \in Nat
  <2> DEFINE d == a + k
  <2>1. d \in Nat /\ d <= LeafCount
    BY <1>1, <1>2
  <2>2. a * c \in Nat /\ d * c = a * c + k * c
    BY <1>1, <1>2, Scaled
  <2> HIDE DEF d
  <2>3. d * c \in Nat /\ LeafCount * c \in Nat /\ d * c <= LeafCount * c
    BY <1>1, <2>1, Scaled
  <2> QED  BY <2>2, <2>3 DEF d
<1>6. MetadataSize <= o /\ o + s <= LeafCount * ChunkSize
  <2>1. a <= a /\ a < a + k
    BY <1>1, <1>2
  <2>2. a \in FreeChunks(ch)
    BY <1>2, <2>1
  <2>3. MetadataSize <= a * c
    BY <2>2 DEF c
  <2> DEFINE x == a * c
             z == LeafCount * c
             w == k * c
  <2>4. /\ x \in Nat /\ z \in Nat /\ w \in Nat /\ n <= w /\ x + w <= z
        /\ MetadataSize <= x /\ x <= o /\ o + s <= x + n /\ MetadataSize \in Nat
    BY <1>1, <1>4, <1>5, <2>3, Sizing
  <2> HIDE DEF x, z, w
  <2>5. MetadataSize <= o /\ o + s <= z
    BY <2>4
  <2> QED  BY <2>5 DEF z, c
<1>7. ASSUME NEW y \in FreeChunks(u) PROVE Disjoint(<<o, s>>, Chunk(y))
  <2>1. y \in Nat /\ (y < a \/ y >= a + k)
    BY <1>1, <1>2, <1>3, <1>7
  <2> DEFINE x == a * c
             e == (a + k) * c
             v == y * c
             w == k * c
  <2>2. v \in Nat /\ (y < a => v + c <= x) /\ (y >= a + k => e <= v)
    <3>1. y * c \in Nat /\ (y + 1) * c = y * c + c
      BY <1>1, <1>2, <2>1, Scaled
    <3>2. y < a => (y + 1) * c <= a * c
      <4>1. y + 1 \in Nat /\ (y < a => y + 1 <= a)
        BY <1>2, <2>1
      <4> QED  BY <1>1, <1>2, <4>1, Scaled
    <3>3. y >= a + k => (a + k) * c <= y * c
      <4>1. a + k \in Nat /\ (y >= a + k => a + k <= y)
        BY <1>1, <1>2, <2>1
      <4> QED  BY <1>1, <2>1, <4>1, Scaled
    <3> QED  BY <3>1, <3>2, <3>3
  <2>3. x \in Nat /\ e = x + w /\ w \in Nat /\ n <= w /\ x <= o /\ o + s <= x + n
    BY <1>1, <1>4, <1>5
  <2> HIDE DEF x, e, v, w
  <2>4. o + s <= v \/ v + c <= o
    BY <1>1, <2>1, <2>2, <2>3
  <2> QED  BY <2>4 DEF Disjoint, Chunk, v, c
<1>8. ASSUME NEW r \in Spans, Placed(ch, r) PROVE Disjoint(<<o, s>>, r)
  <2> DEFINE p == r[1]
             q == r[2]
  <2>1. p \in Nat /\ q \in Nat /\ q >= 1
    BY DEF Spans
  <2>2. \A y \in FreeChunks(ch) : p + q <= y * c \/ y * c + c <= p
    BY <1>8 DEF Placed, Disjoint, Chunk, c
  <2> HIDE DEF p, q
  <2>3. ASSUME NEW x \in Nat, o <= x, x < o + s, p <= x, x < p + q PROVE FALSE
    <3> DEFINE y == x \div c
               v == y * c
    <3>1. y \in Nat /\ v \in Nat /\ v <= x /\ x < v + c
      <4> DEFINE m == x % c
      <4>1. x = c * y + m /\ m \in 0..(c - 1) /\ y \in Nat
        BY <1>1, Division
      <4> HIDE DEF y, m
      <4>2. c * y = y * c /\ y * c \in Nat
        BY <1>1, <4>1
      <4> HIDE DEF v
      <4>3. v \in Nat /\ x = v + m
        BY <4>1, <4>2 DEF v
      <4> QED  BY <1>1, <4>1, <4>3
    <3>2. a <= y
      <4>1. SUFFICES ASSUME y < a PROVE FALSE
        <5> HIDE DEF y
        <5> QED  BY <1>2, <3>1
      <4>2. y + 1 \in Nat /\ y + 1 <= a
        <5> HIDE DEF y
        <5> QED  BY <1>2, <3>1, <4>1
      <4>3. (y + 1) * c <= a * c /\ (y + 1) * c = y * c + c
        <5> HIDE DEF y
        <5> QED  BY <1>1, <1>2, <3>1, <4>2, Scaled
      <4> DEFINE z == a * c
      <4>4. v + c <= z /\ z <= o /\ z \in Nat
        BY <1>4, <1>5, <4>3
      <4> HIDE DEF v, y, z
      <4> QED  BY <1>1, <2>3, <3>1, <4>4
    <3>3. y < a + k
      <4>1. SUFFICES ASSUME y >= a + k PROVE FALSE
        <5> HIDE DEF y
        <5> QED  BY <1>1, <1>2, <3>1
      <4>2. (a + k) * c <= y * c
        <5>1. a + k \in Nat /\ a + k <= y
          <6> HIDE DEF y
          <6> QED  BY <1>1, <1>2, <3>1, <4>1
        <5> HIDE DEF y
        <5> QED  BY <1>1, <3>1, <5>1, Scaled
      <4> DEFINE z == a * c
                 w == k * c
      <4>3. z + w <= v /\ o + s <= z + n /\ n <= w /\ z \in Nat /\ w \in Nat
        BY <1>1, <1>4, <1>5, <4>2
      <4> HIDE DEF v, y, z, w
      <4> QED  BY <2>3, <3>1, <4>3
    <3>4. y \in FreeChunks(ch)
      <4> HIDE DEF y, v
      <4> QED  BY <1>2, <3>1, <3>2, <3>3
    <3>5. p + q <= v \/ v + c <= p
      BY <2>2, <3>4
    <3> HIDE DEF v, y
    <3> QED  BY <1>1, <2>1, <2>3, <3>1, <3>5
  <2>4. \A x \in Nat : ~(o <= x /\ x < o + s /\ p <= x /\ x < p + q)
    BY <2>3
  <2>5. o + s <= p \/ p + q <= o
    BY <2>1, <2>4, ApartIs
  <2> QED  BY <2>5 DEF Disjoint, p, q
<1>9. Placed(u, <<o, s>>)
  BY <1>6, <1>7 DEF Placed
<1> QED
  BY <1>8, <1>9 DEF u, k

\* The tree is sound, and none of its own chunks is free.
Reserved(ch) ==
    /\ Sound(TRUE, ch)
    /\ \A y \in FreeChunks(ch) : MetadataSize <= y * ChunkSize

LEMMA GrantKeepsReserved ==
  ASSUME NEW ch, Reserved(ch), NEW k \in Nat, k >= 1, Fits(ch, k)
  PROVE  /\ Reserved(AfterTake(ch, k)) /\ TakeAt(ch, k) \in Nat
         /\ \A r : Placed(ch, r) => Placed(AfterTake(ch, k), r)
<1>1. /\ Sound(TRUE, AfterTake(ch, k)) /\ FreeChunks(AfterTake(ch, k)) \subseteq FreeChunks(ch)
      /\ TakeAt(ch, k) \in Nat
  <2>1. Sound(TRUE, ch) /\ TRUE \in BOOLEAN
    BY DEF Reserved
  <2> QED  BY <2>1, TakeIsExact
<1> QED
  BY <1>1 DEF Reserved, Placed

\* Blocks, entries of the free lists and free chunks are all apart.
NothingShared(ch, fl, bl) ==
    /\ Reserved(ch)
    /\ fl \in [SmallSizes -> Seq(Nat)]
    /\ bl \subseteq Nat \X Requests
    /\ \A a, b \in bl : a # b => Disjoint(Room(a), Room(b))
    /\ \A d, e \in Ents(fl) : d # e => Disjoint(FreeOf(fl, d), FreeOf(fl, e))
    /\ \A a \in bl, e \in Ents(fl) : Disjoint(Room(a), FreeOf(fl, e))
    /\ \A a \in bl : Placed(ch, Room(a))
    /\ \A e \in Ents(fl) : Placed(ch, FreeOf(fl, e))

LEMMA SpansAre ==
  ASSUME NEW fl \in [SmallSizes -> Seq(Nat)]
  PROVE  /\ \A b \in Nat \X Requests : Room(b) \in Spans
         /\ \A e \in Ents(fl) : FreeOf(fl, e) \in Spans
<1>1. ASSUME NEW b \in Nat \X Requests PROVE Room(b) \in Spans
  <2>1. b[1] \in Nat /\ b[2] \in Requests
    OBVIOUS
  <2>2. align32(b[2]) \in Nat /\ align32(b[2]) >= 1
    BY <2>1, Sizing, AlignIs
  <2> QED  BY <2>1, <2>2 DEF Room, Spans
<1>2. ASSUME NEW e \in Ents(fl) PROVE FreeOf(fl, e) \in Spans
  <2>1. e[1] \in SmallSizes /\ e[2] \in 1..Len(fl[e[1]])
    BY DEF Ents
  <2>2. e[1] \in Nat /\ e[1] >= 1
    BY <2>1, SmallSizeIs
  <2>3. fl[e[1]] \in Seq(Nat)
    BY <2>1
  <2>4. fl[e[1]][e[2]] \in Nat
    BY <2>1, <2>3, ElementOfSeq
  <2> QED  BY <2>2, <2>4 DEF FreeOf, Spans
<1> QED
  BY <1>1, <1>2

LEMMA EntIs ==
  ASSUME NEW fl, NEW n \in SmallSizes, NEW i \in Nat, i \in 1..Len(fl[n])
  PROVE  <<n, i>> \in Ents(fl) /\ FreeOf(fl, <<n, i>>) = <<fl[n][i], n>>
BY DEF Ents, FreeOf

\* A block too large for the lists comes from the tree.
LEMMA LargeGrant ==
  ASSUME NEW ch, NEW fl, NEW bl, NothingShared(ch, fl, bl), NEW size \in Requests,
         Fits(ch, chunk_count(align32(size)))
  PROVE  /\ NothingShared(AfterTake(ch, chunk_count(align32(size))), fl,
           bl \cup {<<TakeAt(ch, chunk_count(align32(size))) * ChunkSize, size>>})
         /\ <<TakeAt(ch, chunk_count(align32(size))) * ChunkSize, size>> \notin bl
<1> DEFINE n == align32(size)
           k == chunk_count(n)
           u == AfterTake(ch, k)
           o == TakeAt(ch, k) * ChunkSize
           new == <<o, size>>
<1>1. n \in Nat /\ n >= 1
  BY Sizing, AlignIs
<1>2. k \in Nat /\ k >= 1
  BY <1>1, ChunkCountIs
<1>3. Reserved(ch) /\ fl \in [SmallSizes -> Seq(Nat)] /\ bl \subseteq Nat \X Requests
  BY DEF NothingShared
<1>4. Fits(ch, k)
  OBVIOUS
<1>5. Reserved(u) /\ TakeAt(ch, k) \in Nat /\ \A r : Placed(ch, r) => Placed(u, r)
  <2> HIDE DEF k
  <2> QED  BY <1>2, <1>3, <1>4, GrantKeepsReserved
<1>6. o \in Nat
  BY <1>5, Sizing
<1>7. Placed(u, <<o, n>>) /\ \A r \in Spans : Placed(ch, r) => Disjoint(<<o, n>>, r)
  <2>1. TakeAt(ch, k) * ChunkSize <= o /\ o + n <= TakeAt(ch, k) * ChunkSize + n
    <3>1. TakeAt(ch, k) * ChunkSize = o
      OBVIOUS
    <3> HIDE DEF o
    <3> QED  BY <1>1, <1>6, <3>1
  <2>2. Sound(TRUE, ch) /\ \A y \in FreeChunks(ch) : MetadataSize <= y * ChunkSize
    BY <1>3 DEF Reserved
  <2> HIDE DEF o, n
  <2> QED  BY <1>1, <1>4, <1>6, <2>1, <2>2, GrantIs DEF k
<1>8. Room(new) = <<o, n>> /\ new \in Nat \X Requests
  BY <1>6 DEF Room
<1> HIDE DEF n, k, u, o, new
<1>9. \A b \in bl : Disjoint(Room(new), Room(b)) /\ Disjoint(Room(b), Room(new))
  <2> SUFFICES ASSUME NEW b \in bl PROVE Disjoint(Room(new), Room(b)) /\ Disjoint(Room(b), Room(new))
    OBVIOUS
  <2>1. Room(b) \in Spans
    BY <1>3, SpansAre
  <2>2. Placed(ch, Room(b))
    BY DEF NothingShared
  <2>3. Disjoint(Room(new), Room(b))
    BY <1>7, <1>8, <2>1, <2>2
  <2> QED  BY <2>3, DisjointIs
<1>10. \A e \in Ents(fl) : Disjoint(Room(new), FreeOf(fl, e))
  <2> SUFFICES ASSUME NEW e \in Ents(fl) PROVE Disjoint(Room(new), FreeOf(fl, e))
    OBVIOUS
  <2>1. FreeOf(fl, e) \in Spans
    BY <1>3, SpansAre
  <2>2. Placed(ch, FreeOf(fl, e))
    BY DEF NothingShared
  <2> QED  BY <1>7, <1>8, <2>1, <2>2
<1> DEFINE bm == bl \cup {new}
<1>11. bm \subseteq Nat \X Requests
  BY <1>3, <1>8
<1>12. \A a, b \in bm : a # b => Disjoint(Room(a), Room(b))
  <2> SUFFICES ASSUME NEW a \in bm, NEW b \in bm, a # b PROVE Disjoint(Room(a), Room(b))
    OBVIOUS
  <2>1. CASE a \in bl /\ b \in bl
    BY <2>1 DEF NothingShared
  <2>2. CASE a = new /\ b \in bl
    BY <1>9, <2>2
  <2>3. CASE a \in bl /\ b = new
    BY <1>9, <2>3
  <2> QED  BY <2>1, <2>2, <2>3
<1>13. \A a \in bm, e \in Ents(fl) : Disjoint(Room(a), FreeOf(fl, e))
  <2> SUFFICES ASSUME NEW a \in bm, NEW e \in Ents(fl) PROVE Disjoint(Room(a), FreeOf(fl, e))
    OBVIOUS
  <2>1. CASE a \in bl
    BY <2>1 DEF NothingShared
  <2>2. CASE a = new
    BY <1>10, <2>2
  <2> QED  BY <2>1, <2>2
<1>14. \A a \in bm : Placed(u, Room(a))
  <2> SUFFICES ASSUME NEW a \in bm PROVE Placed(u, Room(a))
    OBVIOUS
  <2>1. CASE a \in bl
    <3>1. Placed(ch, Room(a))
      BY <2>1 DEF NothingShared
    <3> QED  BY <1>5, <3>1
  <2>2. CASE a = new
    BY <1>7, <1>8, <2>2
  <2> QED  BY <2>1, <2>2
<1>15. \A e \in Ents(fl) : Placed(u, FreeOf(fl, e))
  <2> SUFFICES ASSUME NEW e \in Ents(fl) PROVE Placed(u, FreeOf(fl, e))
    OBVIOUS
  <2>1. Placed(ch, FreeOf(fl, e))
    BY DEF NothingShared
  <2> QED  BY <1>5, <2>1
<1>16. \A d, e \in Ents(fl) : d # e => Disjoint(FreeOf(fl, d), FreeOf(fl, e))
  BY DEF NothingShared
<1>17. NothingShared(u, fl, bm)
  <2> HIDE DEF bm
  <2> QED  BY <1>3, <1>5, <1>11, <1>12, <1>13, <1>14, <1>15, <1>16 DEF NothingShared
<1>18. new \notin bl
  <2>1. ~Disjoint(Room(new), Room(new))
    BY <1>1, <1>6, <1>8 DEF Disjoint
  <2> QED  BY <1>9, <2>1
<1> QED
  BY <1>17, <1>18 DEF u, k, n, o, new

\* A small block is the head of its list.
LEMMA SmallGrant ==
  ASSUME NEW ch, NEW fl, NEW bl, NothingShared(ch, fl, bl), NEW size \in Requests,
         align32(size) \in SmallSizes, fl[align32(size)] # <<>>
  PROVE  /\ NothingShared(ch, [fl EXCEPT ![align32(size)] = Tail(fl[align32(size)])],
           bl \cup {<<Head(fl[align32(size)]), size>>})
         /\ <<Head(fl[align32(size)]), size>> \notin bl
<1> DEFINE n == align32(size)
           fm == [fl EXCEPT ![n] = Tail(fl[n])]
           new == <<Head(fl[n]), size>>
           bm == bl \cup {new}
           head == <<n, 1>>
           was(e) == IF e[1] = n THEN <<n, e[2] + 1>> ELSE e
<1>1. Reserved(ch) /\ fl \in [SmallSizes -> Seq(Nat)] /\ bl \subseteq Nat \X Requests
  BY DEF NothingShared
<1>2. n \in SmallSizes /\ n \in Nat /\ fl[n] \in Seq(Nat) /\ fl[n] # <<>>
  BY <1>1, SmallSizeIs
<1> HIDE DEF n
<1>3. /\ Len(fl[n]) \in Nat /\ Len(fl[n]) >= 1
      /\ Head(fl[n]) \in Nat /\ Head(fl[n]) = fl[n][1]
      /\ Tail(fl[n]) \in Seq(Nat) /\ Len(Tail(fl[n])) = Len(fl[n]) - 1
      /\ \A i \in 1..(Len(fl[n]) - 1) : Tail(fl[n])[i] = fl[n][i + 1]
  <2>1. Head(fl[n]) = fl[n][1]
    BY <1>2
  <2>2. Len(fl[n]) \in Nat /\ Len(fl[n]) >= 1
    BY <1>2, EmptySeq
  <2> QED  BY <1>2, <2>1, <2>2, HeadTailProperties
<1>4. /\ fm \in [SmallSizes -> Seq(Nat)] /\ fm[n] = Tail(fl[n])
      /\ \A m \in SmallSizes : m # n => fm[m] = fl[m]
  BY <1>1, <1>2, <1>3
<1>5. head \in Ents(fl) /\ FreeOf(fl, head) = <<Head(fl[n]), n>>
  <2>1. 1 \in 1..Len(fl[n]) /\ 1 \in Nat
    BY <1>3
  <2> QED  BY <1>2, <1>3, <2>1, EntIs
<1>6. Room(new) = FreeOf(fl, head) /\ new \in Nat \X Requests
  BY <1>3, <1>5 DEF Room, n
<1> HIDE DEF fm, new
<1>7. ASSUME NEW e \in Ents(fm)
      PROVE  /\ was(e) \in Ents(fl) /\ was(e) # head /\ FreeOf(fm, e) = FreeOf(fl, was(e))
             /\ e = <<e[1], e[2]>> /\ e[2] \in Nat
  <2>1. e = <<e[1], e[2]>> /\ e[1] \in SmallSizes /\ e[2] \in Nat /\ e[2] \in 1..Len(fm[e[1]])
    BY DEF Ents
  <2>2. CASE e[1] = n
    <3> DEFINE i == e[2]
    <3>1. i \in Nat /\ i \in 1..(Len(fl[n]) - 1) /\ i + 1 \in Nat /\ i + 1 \in 1..Len(fl[n]) /\ i + 1 # 1
      <4> DEFINE k == Len(fl[n])
      <4>1. Len(fm[e[1]]) = k - 1 /\ k \in Nat
        BY <1>3, <1>4, <2>2
      <4>2. i \in Nat /\ i \in 1..(k - 1)
        BY <2>1, <4>1
      <4> HIDE DEF i, k
      <4>3. i \in Nat /\ i \in 1..(k - 1) /\ i + 1 \in Nat /\ i + 1 \in 1..k /\ i + 1 # 1
        BY <4>1, <4>2
      <4> QED  BY <4>3 DEF k
    <3>2. was(e) = <<n, i + 1>>
      BY <2>2
    <3>3. FreeOf(fm, e) = <<Tail(fl[n])[i], n>>
      BY <1>4, <2>2 DEF FreeOf
    <3> HIDE DEF i, was
    <3>4. <<n, i + 1>> \in Ents(fl) /\ FreeOf(fl, <<n, i + 1>>) = <<fl[n][i + 1], n>>
      BY <1>2, <3>1, EntIs
    <3>5. was(e) # head
      BY <3>1, <3>2
    <3> QED  BY <1>3, <2>1, <3>1, <3>2, <3>3, <3>4, <3>5
  <2>3. CASE e[1] # n
    <3>1. was(e) = e /\ fm[e[1]] = fl[e[1]]
      BY <1>4, <2>1, <2>3
    <3>2. e \in Ents(fl)
      BY <2>1, <3>1 DEF Ents
    <3>3. FreeOf(fm, e) = FreeOf(fl, e)
      BY <3>1 DEF FreeOf
    <3>4. e # head
      BY <2>3
    <3> HIDE DEF was, head
    <3> QED  BY <2>1, <3>1, <3>2, <3>3, <3>4
  <2> QED  BY <2>2, <2>3
<1>8. ASSUME NEW d \in Ents(fm), NEW e \in Ents(fm), d # e PROVE was(d) # was(e)
  <2>1. d = <<d[1], d[2]>> /\ e = <<e[1], e[2]>> /\ d[2] \in Nat /\ e[2] \in Nat
    BY <1>7
  <2>2. d[1] # e[1] \/ d[2] # e[2]
    BY <1>8, <2>1
  <2>3. CASE d[1] = n /\ e[1] = n
    <3>1. d[2] # e[2] /\ d[2] + 1 # e[2] + 1
      BY <2>1, <2>2, <2>3
    <3>2. was(d) = <<n, d[2] + 1>> /\ was(e) = <<n, e[2] + 1>>
      BY <2>3
    <3> HIDE DEF was
    <3> QED  BY <3>1, <3>2
  <2>4. CASE d[1] = n /\ e[1] # n
    <3>1. was(d)[1] = n /\ was(e)[1] = e[1]
      BY <2>4
    <3> HIDE DEF was
    <3> QED  BY <2>4, <3>1
  <2>5. CASE d[1] # n /\ e[1] = n
    <3>1. was(d)[1] = d[1] /\ was(e)[1] = n
      BY <2>5
    <3> HIDE DEF was
    <3> QED  BY <2>5, <3>1
  <2>6. CASE d[1] # n /\ e[1] # n
    <3>1. was(d) = d /\ was(e) = e
      BY <2>6
    <3> HIDE DEF was
    <3> QED  BY <1>8, <3>1
  <2> QED  BY <2>3, <2>4, <2>5, <2>6
<1> HIDE DEF was, head
<1>9. bm \subseteq Nat \X Requests
  BY <1>1, <1>6
<1>10. \A b \in bl : Disjoint(Room(new), Room(b)) /\ Disjoint(Room(b), Room(new))
  <2> SUFFICES ASSUME NEW b \in bl PROVE Disjoint(Room(new), Room(b)) /\ Disjoint(Room(b), Room(new))
    OBVIOUS
  <2>1. Disjoint(Room(b), FreeOf(fl, head))
    BY <1>5 DEF NothingShared
  <2>2. Disjoint(Room(b), Room(new))
    BY <1>6, <2>1
  <2> QED  BY <2>2, DisjointIs
<1>11. \A a, b \in bm : a # b => Disjoint(Room(a), Room(b))
  <2> SUFFICES ASSUME NEW a \in bm, NEW b \in bm, a # b PROVE Disjoint(Room(a), Room(b))
    OBVIOUS
  <2>1. CASE a \in bl /\ b \in bl
    BY <2>1 DEF NothingShared
  <2>2. CASE a = new /\ b \in bl
    BY <1>10, <2>2
  <2>3. CASE a \in bl /\ b = new
    BY <1>10, <2>3
  <2> QED  BY <2>1, <2>2, <2>3
<1>12. \A d, e \in Ents(fm) : d # e => Disjoint(FreeOf(fm, d), FreeOf(fm, e))
  <2> SUFFICES ASSUME NEW d \in Ents(fm), NEW e \in Ents(fm), d # e
               PROVE  Disjoint(FreeOf(fm, d), FreeOf(fm, e))
    OBVIOUS
  <2>1. Disjoint(FreeOf(fl, was(d)), FreeOf(fl, was(e)))
    BY <1>7, <1>8 DEF NothingShared
  <2> QED  BY <1>7, <2>1
<1>13. \A a \in bm, e \in Ents(fm) : Disjoint(Room(a), FreeOf(fm, e))
  <2> SUFFICES ASSUME NEW a \in bm, NEW e \in Ents(fm) PROVE Disjoint(Room(a), FreeOf(fm, e))
    OBVIOUS
  <2>1. was(e) \in Ents(fl) /\ was(e) # head /\ FreeOf(fm, e) = FreeOf(fl, was(e))
    BY <1>7
  <2>2. CASE a \in bl
    <3>1. Disjoint(Room(a), FreeOf(fl, was(e)))
      BY <2>1, <2>2 DEF NothingShared
    <3> QED  BY <2>1, <3>1
  <2>3. CASE a = new
    <3>1. Disjoint(FreeOf(fl, head), FreeOf(fl, was(e)))
      BY <1>5, <2>1 DEF NothingShared
    <3> QED  BY <1>6, <2>1, <2>3, <3>1
  <2> QED  BY <2>2, <2>3
<1>14. \A a \in bm : Placed(ch, Room(a))
  <2> SUFFICES ASSUME NEW a \in bm PROVE Placed(ch, Room(a))
    OBVIOUS
  <2>1. CASE a \in bl
    BY <2>1 DEF NothingShared
  <2>2. CASE a = new
    <3>1. Placed(ch, FreeOf(fl, head))
      BY <1>5 DEF NothingShared
    <3> QED  BY <1>6, <2>2, <3>1
  <2> QED  BY <2>1, <2>2
<1>15. \A e \in Ents(fm) : Placed(ch, FreeOf(fm, e))
  <2> SUFFICES ASSUME NEW e \in Ents(fm) PROVE Placed(ch, FreeOf(fm, e))
    OBVIOUS
  <2>1. Placed(ch, FreeOf(fl, was(e)))
    BY <1>7 DEF NothingShared
  <2> QED  BY <1>7, <2>1
<1>16. NothingShared(ch, fm, bm)
  <2> HIDE DEF bm
  <2> QED  BY <1>1, <1>4, <1>9, <1>11, <1>12, <1>13, <1>14, <1>15 DEF NothingShared
<1>17. new \notin bl
  <2>1. FreeOf(fl, head) \in Spans
    BY <1>1, <1>5, SpansAre
  <2>2. ~Disjoint(Room(new), Room(new))
    BY <1>6, <2>1 DEF Disjoint, Spans
  <2> QED  BY <1>10, <2>2
<1> QED
  BY <1>16, <1>17 DEF fm, n, new

\* A small block that comes back is the head of its list.
LEMMA SmallGive ==
  ASSUME NEW ch, NEW fl, NEW bl, NothingShared(ch, fl, bl), NEW b \in bl, align32(b[2]) \in SmallSizes
  PROVE  NothingShared(ch, [fl EXCEPT ![align32(b[2])] = <<b[1]>> \o fl[align32(b[2])]], bl \ {b})
<1> DEFINE n == align32(b[2])
           list == <<b[1]>> \o fl[n]
           fm == [fl EXCEPT ![n] = list]
           bm == bl \ {b}
           head == <<n, 1>>
           was(e) == IF e[1] = n THEN <<n, e[2] - 1>> ELSE e
<1>1. Reserved(ch) /\ fl \in [SmallSizes -> Seq(Nat)] /\ bl \subseteq Nat \X Requests
  BY DEF NothingShared
<1>2. Room(b) = <<b[1], n>> /\ b[1] \in Nat
  BY <1>1 DEF Room
<1>3. n \in SmallSizes /\ n \in Nat /\ fl[n] \in Seq(Nat)
  BY <1>1, SmallSizeIs
<1> HIDE DEF n
<1>4. /\ Len(fl[n]) \in Nat
      /\ list \in Seq(Nat) /\ Len(list) = Len(fl[n]) + 1 /\ list[1] = b[1]
      /\ \A i \in 1..Len(fl[n]) : list[i + 1] = fl[n][i]
  <2> DEFINE s == <<b[1]>>
             q == fl[n]
             k == Len(q)
  <2>1. s \in Seq(Nat) /\ Len(s) = 1 /\ s[1] = b[1]
    BY <1>2
  <2>2. q \in Seq(Nat) /\ k \in Nat
    BY <1>3, LenProperties
  <2>3. list = s \o q
    OBVIOUS
  <2> HIDE DEF s, q, list
  <2>4. /\ list \in Seq(Nat) /\ Len(list) = 1 + Len(q)
        /\ \A i \in 1..(1 + Len(q)) : list[i] = IF i <= 1 THEN s[i] ELSE q[i - 1]
    <3>1. /\ s \o q \in Seq(Nat) /\ Len(s \o q) = Len(s) + Len(q)
          /\ \A i \in 1..(Len(s) + Len(q)) : (s \o q)[i] = IF i <= Len(s) THEN s[i] ELSE q[i - Len(s)]
      BY <2>1, <2>2, ConcatProperties
    <3>2. Len(s) = 1
      BY <2>1
    <3> QED  BY <2>3, <3>1, <3>2, Zenon
  <2>5. list[1] = b[1]
    BY <2>1, <2>2, <2>4
  <2>6. ASSUME NEW i \in 1..k PROVE list[i + 1] = q[i]
    <3>1. i + 1 \in 1..(1 + k) /\ ~(i + 1 <= 1) /\ (i + 1) - 1 = i
      BY <2>2
    <3> QED  BY <2>4, <3>1
  <2>7. Len(list) = k + 1
    BY <2>2, <2>4
  <2> QED  BY <2>2, <2>4, <2>5, <2>6, <2>7 DEF q
<1> HIDE DEF list
<1>5. /\ fm \in [SmallSizes -> Seq(Nat)] /\ fm[n] = list
      /\ \A m \in SmallSizes : m # n => fm[m] = fl[m]
  BY <1>1, <1>3, <1>4
<1>6. FreeOf(fm, head) = Room(b)
  BY <1>2, <1>4, <1>5 DEF FreeOf
<1> HIDE DEF fm
<1>7. ASSUME NEW e \in Ents(fm), e # head
      PROVE  /\ was(e) \in Ents(fl) /\ FreeOf(fm, e) = FreeOf(fl, was(e))
             /\ e = <<e[1], e[2]>> /\ e[2] \in Nat
  <2>1. e = <<e[1], e[2]>> /\ e[1] \in SmallSizes /\ e[2] \in Nat /\ e[2] \in 1..Len(fm[e[1]])
    BY DEF Ents
  <2>2. CASE e[1] = n
    <3> DEFINE i == e[2] - 1
    <3>1. i \in Nat /\ i \in 1..Len(fl[n]) /\ e[2] = i + 1
      <4> DEFINE k == Len(fl[n])
      <4>1. Len(fm[e[1]]) = k + 1 /\ k \in Nat
        BY <1>4, <1>5, <2>2
      <4>2. e[2] # 1
        BY <1>7, <2>1, <2>2
      <4>3. e[2] \in Nat /\ e[2] \in 1..(k + 1)
        BY <2>1, <4>1
      <4> HIDE DEF k
      <4>4. i \in Nat /\ i \in 1..k /\ e[2] = i + 1
        BY <4>1, <4>2, <4>3
      <4> QED  BY <4>4 DEF k
    <3>2. was(e) = <<n, i>>
      BY <2>2
    <3> HIDE DEF i, was
    <3>3. FreeOf(fm, e) = <<list[i + 1], n>>
      BY <1>5, <2>2, <3>1 DEF FreeOf
    <3>4. <<n, i>> \in Ents(fl) /\ FreeOf(fl, <<n, i>>) = <<fl[n][i], n>>
      BY <1>3, <3>1, EntIs
    <3> QED  BY <1>4, <2>1, <3>1, <3>2, <3>3, <3>4
  <2>3. CASE e[1] # n
    <3>1. was(e) = e /\ fm[e[1]] = fl[e[1]]
      BY <1>5, <2>1, <2>3
    <3>2. e \in Ents(fl)
      BY <2>1, <3>1 DEF Ents
    <3>3. FreeOf(fm, e) = FreeOf(fl, e)
      BY <3>1 DEF FreeOf
    <3> HIDE DEF was, head
    <3> QED  BY <2>1, <3>1, <3>2, <3>3
  <2> QED  BY <2>2, <2>3
<1>8. ASSUME NEW d \in Ents(fm), NEW e \in Ents(fm), d # e, d # head, e # head PROVE was(d) # was(e)
  <2>1. d = <<d[1], d[2]>> /\ e = <<e[1], e[2]>> /\ d[2] \in Nat /\ e[2] \in Nat
    BY <1>7, <1>8
  <2>2. d[1] # e[1] \/ d[2] # e[2]
    BY <1>8, <2>1
  <2>3. CASE d[1] = n /\ e[1] = n
    <3>1. d[2] # e[2] /\ d[2] - 1 # e[2] - 1
      BY <2>1, <2>2, <2>3
    <3>2. was(d) = <<n, d[2] - 1>> /\ was(e) = <<n, e[2] - 1>>
      BY <2>3
    <3> HIDE DEF was
    <3> QED  BY <3>1, <3>2
  <2>4. CASE d[1] = n /\ e[1] # n
    <3>1. was(d)[1] = n /\ was(e)[1] = e[1]
      BY <2>4
    <3> HIDE DEF was
    <3> QED  BY <2>4, <3>1
  <2>5. CASE d[1] # n /\ e[1] = n
    <3>1. was(d)[1] = d[1] /\ was(e)[1] = n
      BY <2>5
    <3> HIDE DEF was
    <3> QED  BY <2>5, <3>1
  <2>6. CASE d[1] # n /\ e[1] # n
    <3>1. was(d) = d /\ was(e) = e
      BY <2>6
    <3> HIDE DEF was
    <3> QED  BY <1>8, <3>1
  <2> QED  BY <2>3, <2>4, <2>5, <2>6
<1> HIDE DEF was, head
<1>9. ASSUME NEW e \in Ents(fm), e # head PROVE Disjoint(Room(b), FreeOf(fm, e))
  <2>1. Disjoint(Room(b), FreeOf(fl, was(e)))
    BY <1>7, <1>9 DEF NothingShared
  <2> QED  BY <1>7, <1>9, <2>1
<1>10. \A d, e \in Ents(fm) : d # e => Disjoint(FreeOf(fm, d), FreeOf(fm, e))
  <2> SUFFICES ASSUME NEW d \in Ents(fm), NEW e \in Ents(fm), d # e
               PROVE  Disjoint(FreeOf(fm, d), FreeOf(fm, e))
    OBVIOUS
  <2>1. CASE d # head /\ e # head
    <3>1. Disjoint(FreeOf(fl, was(d)), FreeOf(fl, was(e)))
      BY <1>7, <1>8, <2>1 DEF NothingShared
    <3> QED  BY <1>7, <2>1, <3>1
  <2>2. CASE d = head
    BY <1>6, <1>9, <2>2
  <2>3. CASE e = head
    <3>1. Disjoint(FreeOf(fm, e), FreeOf(fm, d))
      BY <1>6, <1>9, <2>3
    <3> QED  BY <3>1, DisjointIs
  <2> QED  BY <2>1, <2>2, <2>3
<1>11. \A a \in bm, e \in Ents(fm) : Disjoint(Room(a), FreeOf(fm, e))
  <2> SUFFICES ASSUME NEW a \in bm, NEW e \in Ents(fm) PROVE Disjoint(Room(a), FreeOf(fm, e))
    OBVIOUS
  <2>1. CASE e = head
    <3>1. Disjoint(Room(a), Room(b))
      BY DEF NothingShared
    <3> QED  BY <1>6, <2>1, <3>1
  <2>2. CASE e # head
    <3>1. Disjoint(Room(a), FreeOf(fl, was(e)))
      BY <1>7, <2>2 DEF NothingShared
    <3> QED  BY <1>7, <2>2, <3>1
  <2> QED  BY <2>1, <2>2
<1>12. \A e \in Ents(fm) : Placed(ch, FreeOf(fm, e))
  <2> SUFFICES ASSUME NEW e \in Ents(fm) PROVE Placed(ch, FreeOf(fm, e))
    OBVIOUS
  <2>1. CASE e = head
    <3>1. Placed(ch, Room(b))
      BY DEF NothingShared
    <3> QED  BY <1>6, <2>1, <3>1
  <2>2. CASE e # head
    <3>1. Placed(ch, FreeOf(fl, was(e)))
      BY <1>7, <2>2 DEF NothingShared
    <3> QED  BY <1>7, <2>2, <3>1
  <2> QED  BY <2>1, <2>2
<1>13. /\ bm \subseteq Nat \X Requests
       /\ \A a, d \in bm : a # d => Disjoint(Room(a), Room(d))
       /\ \A a \in bm : Placed(ch, Room(a))
  BY DEF NothingShared
<1>14. NothingShared(ch, fm, bm)
  <2> HIDE DEF bm
  <2> QED  BY <1>1, <1>5, <1>10, <1>11, <1>12, <1>13 DEF NothingShared
<1> QED
  BY <1>14 DEF fm, list, n

LEMMA PiecesAre ==
  ASSUME NEW n \in Nat, n >= 1, NEW o \in Nat
  PROVE  /\ Pieces(n, o) \in Seq(Nat) /\ Len(Pieces(n, o)) = StealCoef /\ Pieces(n, o) # <<>>
         /\ n * StealCoef \in Nat /\ n * StealCoef >= 1
         /\ \A i \in 1..StealCoef : o <= Pieces(n, o)[i] /\ Pieces(n, o)[i] + n <= o + n * StealCoef
         /\ \A i, j \in 1..StealCoef : i < j => Pieces(n, o)[j] + n <= Pieces(n, o)[i]
<1> DEFINE c == StealCoef
           p == Pieces(n, o)
<1>1. c \in Nat /\ c >= 1
  BY Sizing
<1>2. \A i \in 1..c : p[i] = o + n * (c - i)
  BY DEF Pieces
<1>3. \A i \in 1..c : c - i \in Nat /\ n * (c - i) \in Nat
  <2> SUFFICES ASSUME NEW i \in 1..c PROVE c - i \in Nat /\ n * (c - i) \in Nat
    OBVIOUS
  <2> HIDE DEF c
  <2>1. c - i \in Nat
    BY <1>1
  <2> DEFINE d == c - i
  <2>2. d \in Nat
    BY <2>1
  <2> HIDE DEF d
  <2>3. n * d \in Nat
    BY <2>2
  <2> QED  BY <2>1, <2>3 DEF d
<1>4. p \in Seq(Nat) /\ Len(p) = c
  <2>1. p = [i \in 1..c |-> o + n * (c - i)]
    BY DEF Pieces
  <2>2. \A i \in 1..c : o + n * (c - i) \in Nat
    BY <1>3
  <2>3. p \in [1..c -> Nat]
    BY <2>1, <2>2
  <2> HIDE DEF p, c
  <2>4. p \in Seq(Nat)
    BY <1>1, <2>3, SeqDef
  <2>5. DOMAIN p = 1..c
    BY <2>3
  <2>6. Len(p) = c
    BY <1>1, <2>4, <2>5, LenProperties
  <2> QED  BY <2>4, <2>6
<1>5. p # <<>>
  <2> HIDE DEF p, c
  <2>1. Len(p) # 0
    BY <1>1, <1>4
  <2> QED  BY <2>1
<1> HIDE DEF p, c
<1>6. ASSUME NEW i \in 0..c, NEW j \in 1..c, i < j PROVE n * (c - j) + n <= n * (c - i)
  <2> DEFINE d == (c - j) + 1
             e == c - i
             f == c - j
  <2>1. d \in Nat /\ e \in Nat /\ f \in Nat /\ d <= e /\ d = f + 1
    BY <1>1, <1>6
  <2> HIDE DEF d, e, f
  <2>2. d * n <= e * n /\ (f + 1) * n = f * n + n
    BY <2>1, Scaled
  <2>3. d * n = n * d /\ e * n = n * e /\ f * n = n * f
    BY <2>1
  <2>4. n * f + n <= n * e
    BY <2>1, <2>2, <2>3
  <2> QED  BY <2>4 DEF e, f
<1>7. n * c \in Nat /\ n * c >= 1
  <2>1. n * c \in Nat /\ n <= n * c
    <3>1. 1 * n <= c * n /\ c * n \in Nat
      BY <1>1, Scaled
    <3>2. c * n = n * c /\ 1 * n = n
      BY <1>1
    <3> QED  BY <3>1, <3>2
  <2> DEFINE x == n * c
  <2>2. x \in Nat /\ n <= x
    BY <2>1
  <2> HIDE DEF x
  <2>3. x >= 1
    BY <2>2
  <2> QED  BY <2>1, <2>3 DEF x
<1>8. ASSUME NEW i \in 1..c PROVE o <= p[i] /\ p[i] + n <= o + n * c
  <2> DEFINE x == n * (c - i)
             y == n * c
  <2>1. x \in Nat /\ p[i] = o + x
    BY <1>2, <1>3
  <2>2. x + n <= y /\ y \in Nat
    <3>1. 0 \in 0..c /\ 0 < i /\ c - 0 = c
      BY <1>1
    <3>2. n * (c - i) + n <= n * (c - 0)
      BY <1>6, <3>1
    <3> QED  BY <1>7, <3>1, <3>2
  <2> HIDE DEF x, y
  <2>3. o <= p[i] /\ p[i] + n <= o + y
    BY <2>1, <2>2
  <2> QED  BY <2>3 DEF y
<1>9. ASSUME NEW i \in 1..c, NEW j \in 1..c, i < j PROVE p[j] + n <= p[i]
  <2> DEFINE x == n * (c - i)
             y == n * (c - j)
  <2>1. x \in Nat /\ y \in Nat /\ p[i] = o + x /\ p[j] = o + y
    BY <1>2, <1>3
  <2>2. y + n <= x
    <3>1. i \in 0..c
      BY <1>1
    <3> QED  BY <1>6, <1>9, <3>1
  <2> HIDE DEF x, y
  <2> QED  BY <2>1, <2>2
<1> QED
  BY <1>4, <1>5, <1>7, <1>8, <1>9 DEF p, c

\* A run of chunks is cut into entries of an empty list.
LEMMA Refill ==
  ASSUME NEW ch, NEW fl, NEW bl, NothingShared(ch, fl, bl), NEW n \in SmallSizes, fl[n] = <<>>,
         Fits(ch, chunk_count(n * StealCoef))
  PROVE  /\ NothingShared(AfterTake(ch, chunk_count(n * StealCoef)),
              [fl EXCEPT ![n] = Pieces(n, TakeAt(ch, chunk_count(n * StealCoef)) * ChunkSize)], bl)
         /\ Pieces(n, TakeAt(ch, chunk_count(n * StealCoef)) * ChunkSize) # <<>>
<1> DEFINE bytes == n * StealCoef
           k == chunk_count(bytes)
           u == AfterTake(ch, k)
           o == TakeAt(ch, k) * ChunkSize
           p == Pieces(n, o)
           fm == [fl EXCEPT ![n] = p]
<1>1. n \in Nat /\ n >= 1
  BY SmallSizeIs
<1>2. bytes \in Nat /\ bytes >= 1
  <2>1. 0 \in Nat
    OBVIOUS
  <2> QED  BY <1>1, <2>1, PiecesAre
<1>3. k \in Nat /\ k >= 1 /\ Fits(ch, k)
  <2>1. Fits(ch, k)
    OBVIOUS
  <2> HIDE DEF bytes
  <2> QED  BY <1>2, <2>1, ChunkCountIs
<1>4. Reserved(ch) /\ fl \in [SmallSizes -> Seq(Nat)] /\ bl \subseteq Nat \X Requests
  BY DEF NothingShared
<1>5. Reserved(u) /\ TakeAt(ch, k) \in Nat /\ \A r : Placed(ch, r) => Placed(u, r)
  <2> HIDE DEF k
  <2> QED  BY <1>3, <1>4, GrantKeepsReserved
<1>6. o \in Nat
  BY <1>5, Sizing
<1> HIDE DEF bytes, o
<1>7. /\ p \in Seq(Nat) /\ Len(p) = StealCoef /\ p # <<>>
      /\ \A i \in 1..StealCoef : o <= p[i] /\ p[i] + n <= o + bytes
      /\ \A i, j \in 1..StealCoef : i < j => p[j] + n <= p[i]
  BY <1>1, <1>6, PiecesAre DEF bytes
<1> HIDE DEF p
<1>8. ASSUME NEW i \in 1..StealCoef
      PROVE  Placed(u, <<p[i], n>>) /\ \A r \in Spans : Placed(ch, r) => Disjoint(<<p[i], n>>, r)
  <2>1. Sound(TRUE, ch) /\ \A y \in FreeChunks(ch) : MetadataSize <= y * ChunkSize
    BY <1>4 DEF Reserved
  <2> DEFINE q == p[i]
  <2>2. q \in Nat /\ o <= q /\ q + n <= o + bytes
    BY <1>7, ElementOfSeq
  <2>3. TakeAt(ch, chunk_count(bytes)) * ChunkSize <= q /\ q + n <= TakeAt(ch, chunk_count(bytes)) * ChunkSize + bytes
    BY <2>2 DEF o
  <2> HIDE DEF q
  <2>4. Placed(u, <<q, n>>) /\ \A r \in Spans : Placed(ch, r) => Disjoint(<<q, n>>, r)
    BY <1>1, <1>2, <1>3, <2>1, <2>2, <2>3, GrantIs
  <2> QED  BY <2>4 DEF q
<1> HIDE DEF k, u
<1>9. /\ fm \in [SmallSizes -> Seq(Nat)] /\ fm[n] = p
      /\ \A m \in SmallSizes : m # n => fm[m] = fl[m]
  BY <1>4, <1>7
<1> HIDE DEF fm
<1>10. ASSUME NEW e \in Ents(fm)
       PROVE  \/ /\ e[1] = n /\ e[2] \in 1..StealCoef /\ FreeOf(fm, e) = <<p[e[2]], n>>
                 /\ e = <<n, e[2]>>
              \/ e \in Ents(fl) /\ FreeOf(fm, e) = FreeOf(fl, e)
  <2>1. e = <<e[1], e[2]>> /\ e[1] \in SmallSizes /\ e[2] \in Nat /\ e[2] \in 1..Len(fm[e[1]])
    BY DEF Ents
  <2>2. CASE e[1] = n
    <3>1. Len(fm[e[1]]) = StealCoef /\ fm[e[1]] = p
      BY <1>7, <1>9, <2>2
    <3>2. e[2] \in 1..StealCoef
      BY <2>1, <3>1
    <3>3. FreeOf(fm, e) = <<p[e[2]], n>>
      BY <2>2, <3>1 DEF FreeOf
    <3> QED  BY <2>1, <2>2, <3>2, <3>3
  <2>3. CASE e[1] # n
    <3>1. fm[e[1]] = fl[e[1]]
      BY <1>9, <2>1, <2>3
    <3>2. e \in Ents(fl)
      BY <2>1, <3>1 DEF Ents
    <3>3. FreeOf(fm, e) = FreeOf(fl, e)
      BY <3>1 DEF FreeOf
    <3> QED  BY <3>2, <3>3
  <2> QED  BY <2>2, <2>3
<1> DEFINE New(e) == /\ e[1] = n /\ e[2] \in 1..StealCoef /\ FreeOf(fm, e) = <<p[e[2]], n>>
                     /\ e = <<n, e[2]>>
<1>11. ASSUME NEW e \in Ents(fm), New(e)
       PROVE  /\ Placed(u, FreeOf(fm, e))
              /\ \A r \in Spans : Placed(ch, r) => Disjoint(FreeOf(fm, e), r)
  BY <1>8, <1>11
<1>12. ASSUME NEW d \in Ents(fm), NEW e \in Ents(fm), New(d), New(e), d # e
       PROVE  Disjoint(FreeOf(fm, d), FreeOf(fm, e))
  <2> DEFINE i == d[2]
             j == e[2]
  <2>1. /\ i \in 1..StealCoef /\ j \in 1..StealCoef /\ i # j
        /\ FreeOf(fm, d) = <<p[i], n>> /\ FreeOf(fm, e) = <<p[j], n>>
    BY <1>12
  <2> HIDE DEF i, j
  <2>2. i < j \/ j < i
    BY <2>1, Sizing
  <2>3. p[j] + n <= p[i] \/ p[i] + n <= p[j]
    BY <1>7, <2>1, <2>2
  <2> QED  BY <2>1, <2>3 DEF Disjoint
<1>13. \A e \in Ents(fm) : New(e) \/ (e \in Ents(fl) /\ FreeOf(fm, e) = FreeOf(fl, e))
  BY <1>10
<1> HIDE DEF New
<1>14. \A e \in Ents(fl) : FreeOf(fl, e) \in Spans /\ Placed(ch, FreeOf(fl, e))
  BY <1>4, SpansAre DEF NothingShared
<1>15. \A a \in bl : Room(a) \in Spans /\ Placed(ch, Room(a))
  BY <1>4, SpansAre DEF NothingShared
<1>16. \A d, e \in Ents(fm) : d # e => Disjoint(FreeOf(fm, d), FreeOf(fm, e))
  <2> SUFFICES ASSUME NEW d \in Ents(fm), NEW e \in Ents(fm), d # e
               PROVE  Disjoint(FreeOf(fm, d), FreeOf(fm, e))
    OBVIOUS
  <2>1. CASE New(d) /\ New(e)
    BY <1>12, <2>1
  <2>2. CASE New(d) /\ ~New(e)
    <3>1. Disjoint(FreeOf(fm, d), FreeOf(fl, e)) /\ FreeOf(fm, e) = FreeOf(fl, e)
      BY <1>11, <1>13, <1>14, <2>2
    <3> QED  BY <3>1
  <2>3. CASE ~New(d) /\ New(e)
    <3>1. Disjoint(FreeOf(fm, e), FreeOf(fl, d)) /\ FreeOf(fm, d) = FreeOf(fl, d)
      BY <1>11, <1>13, <1>14, <2>3
    <3> QED  BY <3>1, DisjointIs
  <2>4. CASE ~New(d) /\ ~New(e)
    <3>1. Disjoint(FreeOf(fl, d), FreeOf(fl, e)) /\ FreeOf(fm, d) = FreeOf(fl, d)
          /\ FreeOf(fm, e) = FreeOf(fl, e)
      BY <1>13, <2>4 DEF NothingShared
    <3> QED  BY <3>1
  <2> QED  BY <2>1, <2>2, <2>3, <2>4
<1>17. \A a \in bl, e \in Ents(fm) : Disjoint(Room(a), FreeOf(fm, e))
  <2> SUFFICES ASSUME NEW a \in bl, NEW e \in Ents(fm) PROVE Disjoint(Room(a), FreeOf(fm, e))
    OBVIOUS
  <2>1. CASE New(e)
    <3>1. Disjoint(FreeOf(fm, e), Room(a))
      BY <1>11, <1>15, <2>1
    <3> QED  BY <3>1, DisjointIs
  <2>2. CASE ~New(e)
    <3>1. Disjoint(Room(a), FreeOf(fl, e)) /\ FreeOf(fm, e) = FreeOf(fl, e)
      BY <1>13, <2>2 DEF NothingShared
    <3> QED  BY <3>1
  <2> QED  BY <2>1, <2>2
<1>18. \A e \in Ents(fm) : Placed(u, FreeOf(fm, e))
  <2> SUFFICES ASSUME NEW e \in Ents(fm) PROVE Placed(u, FreeOf(fm, e))
    OBVIOUS
  <2>1. CASE New(e)
    BY <1>11, <2>1
  <2>2. CASE ~New(e)
    <3>1. Placed(ch, FreeOf(fl, e)) /\ FreeOf(fm, e) = FreeOf(fl, e)
      BY <1>13, <1>14, <2>2
    <3> QED  BY <1>5, <3>1
  <2> QED  BY <2>1, <2>2
<1>19. \A a \in bl : Placed(u, Room(a))
  BY <1>5, <1>15
<1>20. \A a, b \in bl : a # b => Disjoint(Room(a), Room(b))
  BY DEF NothingShared
<1>21. NothingShared(u, fm, bl)
  BY <1>4, <1>5, <1>9, <1>16, <1>17, <1>18, <1>19, <1>20 DEF NothingShared
<1>22. u = AfterTake(ch, chunk_count(n * StealCoef)) /\ fm = [fl EXCEPT ![n] = p]
       /\ p = Pieces(n, TakeAt(ch, chunk_count(n * StealCoef)) * ChunkSize)
  BY DEF u, fm, p, o, k, bytes
<1> QED
  BY <1>7, <1>21, <1>22

\* The first run is handed out from the first chunk: the tree lies in it.
LEMMA FirstTakeIs ==
  ASSUME NEW c \in BOOLEAN, NEW len \in Nat, len >= 1, len <= Total(c)
  PROVE  Fits(Fresh(c), len) /\ TakeAt(Fresh(c), len) = 0
<1> DEFINE t == Fresh(c)
<1>1. Levels \in Nat /\ LENGTH = Pow2[Levels] /\ LENGTH \in Nat
  BY LengthIs
<1>2. Total(c) \in Nat
  BY LengthIs DEF Total
<1>3. t[<<Levels, 0>>].max = Total(c)
  BY FreshFits
<1>4. Fits(t, len)
  BY <1>2, <1>3 DEF Fits
<1>5. Sound(c, t)
  BY FreshIsSound
<1>6. PICK k, i : Takes(c, t, len, k, i) /\ TakeAt(t, len) = i * Pow2[k]
  <2>1. \E k, i : /\ Takes(c, t, len, k, i)
                  /\ AfterTake(t, len) = Marked(t, k, i, len)
                  /\ TakeAt(t, len) = i * Pow2[k]
    <3> HIDE DEF t
    <3> QED  BY <1>4, <1>5, TakeIs
  <2> QED  BY <2>1
<1> DEFINE x == LeafAfter(k, i, len)
<1>7. x \in Nat /\ x < LENGTH /\ Above(x, k) = i /\ k \in Nat /\ k <= Levels /\ <<k, i>> \in Nodes
  <2>1. Takes(c, t, len, k, i)
    BY <1>6
  <2> HIDE DEF t
  <2>2. x \in Nat /\ x < LENGTH /\ Above(x, k) = i /\ k \in Nat /\ k <= Levels
    BY <2>1, TakeFacts
  <2> QED  BY <2>1, <2>2 DEF Takes
<1> HIDE DEF x
<1>8. Levels - Levels = 0 /\ Pow2[0] = 1 /\ Levels \in 0..Levels
  BY <1>1, Pow2Is
<1>9. Above(x, Levels) = 0 /\ <<Levels, 0>> \in Nodes
  <2>1. <<Levels, Above(x, Levels)>> \in Nodes
    BY <1>7, <1>8, NodeFits
  <2>2. Above(x, Levels) \in Nat /\ Above(x, Levels) < Pow2[Levels - Levels]
    BY <2>1, NodeIs
  <2>3. Above(x, Levels) = 0
    BY <1>8, <2>2
  <2> QED  BY <2>1, <2>3
<1>10. t[<<Levels, 0>>].left = Total(c)
  BY <1>3, <1>9, FreshIs
<1>11. k = Levels
  <2>1. SUFFICES ASSUME Levels > k PROVE FALSE
    BY <1>1, <1>7
  <2>2. t[<<Levels, Above(x, Levels)>>].left = 0
    <3>1. Takes(c, t, len, k, i)
      BY <1>6
    <3> HIDE DEF t
    <3> QED  BY <1>7, <1>8, <2>1, <3>1 DEF Takes
  <2>3. Total(c) = 0
    BY <1>9, <1>10, <2>2
  <2> QED  BY <1>2, <2>3
<1>12. i = 0
  <2>1. i \in Nat /\ i < Pow2[Levels - k]
    BY <1>7, NodeIs
  <2>2. Pow2[Levels - k] = 1
    BY <1>8, <1>11
  <2> QED  BY <2>1, <2>2
<1>13. TakeAt(t, len) = 0
  <2>1. 0 * Pow2[k] = 0
    <3>1. Pow2[k] \in Nat
      BY <1>7, Pow2Is
    <3> QED  BY <3>1
  <2>2. TakeAt(t, len) = i * Pow2[k]
    BY <1>6
  <2> HIDE DEF t
  <2> QED  BY <1>12, <2>1, <2>2
<1> QED
  BY <1>4, <1>13

LEMMA InitiallyReserved == Reserved(initialize_segment_tree)
<1> DEFINE k == chunk_count(MetadataSize)
           t == Fresh(TRUE)
           u == AfterTake(t, k)
<1>1. k \in Nat /\ k >= 1 /\ k * ChunkSize \in Nat /\ MetadataSize <= k * ChunkSize /\ k <= LeafCount
  BY Sizing, ChunkCountIs
<1> HIDE DEF k
<1>2. Fits(t, k) /\ TakeAt(t, k) = 0 /\ Sound(TRUE, t)
  <2>1. k <= Total(TRUE) /\ TRUE \in BOOLEAN
    BY <1>1 DEF Total
  <2> QED  BY <1>1, <2>1, FirstTakeIs, FreshIsSound
<1> HIDE DEF t
<1>3. /\ Sound(TRUE, u)
      /\ \A y \in Nat : TakeAt(t, k) <= y /\ y < TakeAt(t, k) + k => y \notin FreeChunks(u)
  <2>1. TRUE \in BOOLEAN
    OBVIOUS
  <2> QED  BY <1>1, <1>2, <2>1, TakeIsExact
<1>4. FreeChunks(u) \subseteq Nat
  BY DEF FreeChunks
<1> HIDE DEF u
<1>5. ASSUME NEW y \in FreeChunks(u) PROVE MetadataSize <= y * ChunkSize
  <2>1. y \in Nat /\ ~(0 <= y /\ y < 0 + k)
    BY <1>2, <1>3, <1>4, <1>5
  <2>2. k <= y
    BY <1>1, <2>1
  <2>3. k * ChunkSize <= y * ChunkSize /\ y * ChunkSize \in Nat
    BY <1>1, <2>1, <2>2, Sizing, Scaled
  <2> DEFINE a == k * ChunkSize
             b == y * ChunkSize
  <2>4. a \in Nat /\ b \in Nat /\ a <= b /\ MetadataSize <= a /\ MetadataSize \in Nat
    BY <1>1, <2>3, Sizing
  <2> HIDE DEF a, b
  <2>5. MetadataSize <= b
    BY <2>4
  <2> QED  BY <2>5 DEF b
<1>6. Reserved(u)
  BY <1>3, <1>5 DEF Reserved
<1> QED
  BY <1>6 DEF u, t, k, initialize_segment_tree

\* Until a large block is deallocated, nothing is shared.
AllocatorInv ==
    /\ largeFreed \in BOOLEAN
    /\ ~largeFreed => ~grantedTwice /\ NothingShared(chunks, freeLists, blocks)

LEMMA AllocatorInitInv == AllocatorInit => AllocatorInv
<1> SUFFICES ASSUME AllocatorInit PROVE AllocatorInv
  OBVIOUS
<1>1. chunks = initialize_segment_tree /\ blocks = {} /\ ~largeFreed /\ largeFreed \in BOOLEAN
      /\ grantedTwice = FALSE
      /\ freeLists = [n \in SmallSizes |-> <<>>]
  BY DEF AllocatorInit
<1>2. freeLists \in [SmallSizes -> Seq(Nat)] /\ \A n \in SmallSizes : freeLists[n] = <<>>
  BY <1>1
<1>3. ASSUME NEW e \in Ents(freeLists) PROVE FALSE
  <2>1. e[1] \in SmallSizes /\ e[2] \in 1..Len(freeLists[e[1]])
    BY DEF Ents
  <2>2. Len(freeLists[e[1]]) = 0
    BY <1>2, <2>1
  <2> QED  BY <2>1, <2>2
<1>4. Reserved(chunks)
  BY <1>1, InitiallyReserved
<1>5. NothingShared(chunks, freeLists, blocks)
  BY <1>1, <1>2, <1>3, <1>4 DEF NothingShared
<1> QED
  BY <1>1, <1>5 DEF AllocatorInv

LEMMA AllocateInv ==
  ASSUME AllocatorInv, ~largeFreed, NEW size \in Requests, allocate_bytes(size)
  PROVE  AllocatorInv'
<1> DEFINE n == align32(size)
<1>1. largeFreed \in BOOLEAN /\ ~grantedTwice /\ NothingShared(chunks, freeLists, blocks)
  BY DEF AllocatorInv
<1>2. largeFreed' = largeFreed
  BY DEF allocate_bytes
<1>3. n \in Nat /\ FreeListLimit \in Nat
  BY Sizing, AlignIs
<1>4. CASE n <= FreeListLimit
  <2>1. free_list_allocate(n, size)
    BY <1>4 DEF allocate_bytes
  <2>2. n \in SmallSizes
    BY <1>4, SmallSizeIs
  <2>3. freeLists \in [SmallSizes -> Seq(Nat)]
    BY <1>1 DEF NothingShared
  <2>4. CASE freeLists[n] = <<>>
    <3> DEFINE k == chunk_count(n * StealCoef)
               u == AfterTake(chunks, k)
               p == Pieces(n, TakeAt(chunks, k) * ChunkSize)
               fm == [freeLists EXCEPT ![n] = p]
    <3>1. /\ Fits(chunks, k) /\ chunks' = u
          /\ freeLists' = [freeLists EXCEPT ![n] = Tail(p)]
          /\ blocks' = blocks \cup {<<Head(p), size>>}
          /\ grantedTwice' = (grantedTwice \/ <<Head(p), size>> \in blocks)
      BY <2>1, <2>4 DEF free_list_allocate, Grant
    <3>2. NothingShared(u, fm, blocks) /\ p # <<>>
      <4> HIDE DEF n
      <4> QED  BY <1>1, <2>2, <2>4, <3>1, Refill
    <3> HIDE DEF p, u
    <3>3. fm[n] = p /\ [fm EXCEPT ![n] = Tail(p)] = [freeLists EXCEPT ![n] = Tail(p)]
      <4> HIDE DEF n
      <4> QED  BY <2>2, <2>3
    <3> HIDE DEF fm
    <3>4. /\ NothingShared(u, [fm EXCEPT ![n] = Tail(fm[n])], blocks \cup {<<Head(fm[n]), size>>})
          /\ <<Head(fm[n]), size>> \notin blocks
      <4>1. fm[n] # <<>>
        BY <3>2, <3>3
      <4> QED  BY <2>2, <3>2, <4>1, SmallGrant
    <3>5. NothingShared(chunks', freeLists', blocks') /\ ~grantedTwice'
      BY <1>1, <3>1, <3>3, <3>4
    <3> QED  BY <1>1, <1>2, <3>5 DEF AllocatorInv
  <2>5. CASE freeLists[n] # <<>>
    <3>1. /\ chunks' = chunks
          /\ freeLists' = [freeLists EXCEPT ![n] = Tail(freeLists[n])]
          /\ blocks' = blocks \cup {<<Head(freeLists[n]), size>>}
          /\ grantedTwice' = (grantedTwice \/ <<Head(freeLists[n]), size>> \in blocks)
      BY <2>1, <2>5 DEF free_list_allocate, Grant
    <3>2. /\ NothingShared(chunks, [freeLists EXCEPT ![n] = Tail(freeLists[n])],
                           blocks \cup {<<Head(freeLists[n]), size>>})
          /\ <<Head(freeLists[n]), size>> \notin blocks
      BY <1>1, <2>2, <2>5, SmallGrant
    <3>3. NothingShared(chunks', freeLists', blocks') /\ ~grantedTwice'
      BY <1>1, <3>1, <3>2
    <3> QED  BY <1>1, <1>2, <3>3 DEF AllocatorInv
  <2> QED  BY <2>4, <2>5
<1>5. CASE ~(n <= FreeListLimit)
  <2>1. segment_tree_allocate(n, size)
    BY <1>5 DEF allocate_bytes
  <2>2. /\ Fits(chunks, chunk_count(n))
        /\ chunks' = AfterTake(chunks, chunk_count(n))
        /\ blocks' = blocks \cup {<<TakeAt(chunks, chunk_count(n)) * ChunkSize, size>>}
        /\ freeLists' = freeLists
        /\ grantedTwice' = (\/ grantedTwice
                            \/ <<TakeAt(chunks, chunk_count(n)) * ChunkSize, size>> \in blocks)
    BY <2>1 DEF segment_tree_allocate, Grant
  <2>3. /\ NothingShared(AfterTake(chunks, chunk_count(n)), freeLists,
             blocks \cup {<<TakeAt(chunks, chunk_count(n)) * ChunkSize, size>>})
        /\ <<TakeAt(chunks, chunk_count(n)) * ChunkSize, size>> \notin blocks
    BY <1>1, <2>2, LargeGrant
  <2>4. NothingShared(chunks', freeLists', blocks') /\ ~grantedTwice'
    BY <1>1, <2>2, <2>3
  <2> QED  BY <1>1, <1>2, <2>4 DEF AllocatorInv
<1> QED
  BY <1>4, <1>5

LEMMA DeallocateInv ==
  ASSUME AllocatorInv, ~largeFreed, NEW b \in blocks, deallocate_bytes(b)
  PROVE  AllocatorInv'
<1> DEFINE n == align32(b[2])
<1>1. largeFreed \in BOOLEAN /\ ~grantedTwice /\ NothingShared(chunks, freeLists, blocks)
  BY DEF AllocatorInv
<1>2. b[2] \in Requests
  BY <1>1 DEF NothingShared
<1>3. blocks' = blocks \ {b} /\ grantedTwice' = grantedTwice
  BY DEF deallocate_bytes
<1>4. CASE n <= FreeListLimit
  <2>1. free_list_deallocate(b)
    BY <1>4 DEF deallocate_bytes
  <2>2. /\ freeLists' = [freeLists EXCEPT ![n] = <<b[1]>> \o freeLists[n]]
        /\ chunks' = chunks /\ largeFreed' = largeFreed
    BY <2>1 DEF free_list_deallocate
  <2>3. n \in SmallSizes
    BY <1>2, <1>4, SmallSizeIs
  <2>4. NothingShared(chunks, [freeLists EXCEPT ![n] = <<b[1]>> \o freeLists[n]], blocks \ {b})
    BY <1>1, <2>3, SmallGive
  <2>5. NothingShared(chunks', freeLists', blocks')
    BY <1>3, <2>2, <2>4
  <2> QED  BY <1>1, <1>3, <2>2, <2>5 DEF AllocatorInv
<1>5. CASE ~(n <= FreeListLimit)
  <2>1. segment_tree_deallocate(b)
    BY <1>5 DEF deallocate_bytes
  <2>2. largeFreed' = TRUE
    BY <2>1 DEF segment_tree_deallocate
  <2> QED  BY <2>2 DEF AllocatorInv
<1> QED
  BY <1>4, <1>5

LEMMA AllocatorNextInv == AllocatorInv /\ [AllocatorNext]_allocatorVars => AllocatorInv'
<1> SUFFICES ASSUME AllocatorInv, [AllocatorNext]_allocatorVars PROVE AllocatorInv'
  OBVIOUS
<1>1. ASSUME ~largeFreed, NEW size \in Requests, allocate_bytes(size) PROVE AllocatorInv'
  BY <1>1, AllocateInv
<1>2. ASSUME ~largeFreed, NEW b \in blocks, deallocate_bytes(b) PROVE AllocatorInv'
  BY <1>2, DeallocateInv
<1>3. CASE UNCHANGED allocatorVars
  <2>1. /\ chunks' = chunks /\ freeLists' = freeLists /\ blocks' = blocks
        /\ grantedTwice' = grantedTwice /\ largeFreed' = largeFreed
    BY <1>3 DEF allocatorVars
  <2>2. NothingShared(chunks, freeLists, blocks) <=> NothingShared(chunks', freeLists', blocks')
    BY <2>1
  <2> QED  BY <2>1, <2>2 DEF AllocatorInv
<1> QED
  BY <1>1, <1>2, <1>3 DEF AllocatorNext

LEMMA AllocatorInvImplies == AllocatorInv => MemoryIsNotShared
<1> SUFFICES ASSUME AllocatorInv, ~largeFreed PROVE MemoryIsNotShared
  BY DEF MemoryIsNotShared
<1>1. ~grantedTwice /\ NothingShared(chunks, freeLists, blocks)
  BY DEF AllocatorInv
<1>2. freeLists \in [SmallSizes -> Seq(Nat)] /\ blocks \subseteq Nat \X Requests
  BY <1>1 DEF NothingShared
<1>3. ASSUME NEW a \in blocks
      PROVE  /\ a[1] \in Nat /\ a[2] \in Nat /\ align32(a[2]) \in Nat /\ a[2] <= align32(a[2])
             /\ Room(a)[1] = a[1] /\ Room(a)[2] = align32(a[2])
             /\ MetadataSize <= a[1] /\ a[1] + align32(a[2]) <= LeafCount * ChunkSize
  <2>1. a[1] \in Nat /\ a[2] \in Requests
    BY <1>2
  <2>2. a[2] \in Nat /\ align32(a[2]) \in Nat /\ a[2] <= align32(a[2])
    BY <2>1, Sizing, AlignIs
  <2>3. Room(a)[1] = a[1] /\ Room(a)[2] = align32(a[2])
    BY DEF Room
  <2>4. Placed(chunks, Room(a))
    BY <1>1 DEF NothingShared
  <2> QED  BY <2>1, <2>2, <2>3, <2>4 DEF Placed
<1>4. ASSUME NEW e \in Entries
      PROVE  /\ e \in Ents(freeLists) /\ Free(e) = FreeOf(freeLists, e)
             /\ Free(e)[1] \in Nat /\ Free(e)[2] \in Nat
             /\ MetadataSize <= Free(e)[1] /\ Free(e)[1] + Free(e)[2] <= LeafCount * ChunkSize
  <2>1. PICK n \in SmallSizes : \E i \in DOMAIN freeLists[n] : e = <<n, i>>
    BY DEF Entries
  <2>2. PICK i \in DOMAIN freeLists[n] : e = <<n, i>>
    BY <2>1
  <2>3. freeLists[n] \in Seq(Nat)
    BY <1>2
  <2>4. DOMAIN freeLists[n] = 1..Len(freeLists[n]) /\ Len(freeLists[n]) \in Nat
    BY <2>3, LenProperties
  <2>5. i \in Nat /\ i \in 1..Len(freeLists[n])
    BY <2>4
  <2>6. e \in Ents(freeLists)
    BY <2>2, <2>5, EntIs
  <2>7. Free(e) = FreeOf(freeLists, e)
    BY DEF Free, FreeOf
  <2>8. FreeOf(freeLists, e) \in Spans
    BY <1>2, <2>6, SpansAre
  <2>9. Placed(chunks, FreeOf(freeLists, e))
    BY <1>1, <2>6 DEF NothingShared
  <2> QED  BY <2>6, <2>7, <2>8, <2>9 DEF Spans, Placed
<1>5. ASSUME NEW a \in blocks, NEW b \in blocks, a # b PROVE Disjoint(a, b)
  <2>1. Disjoint(Room(a), Room(b))
    BY <1>1, <1>5 DEF NothingShared
  <2>2. a[1] + align32(a[2]) <= b[1] \/ b[1] + align32(b[2]) <= a[1]
    BY <1>3, <2>1 DEF Disjoint
  <2>3. a[1] + a[2] <= b[1] \/ b[1] + b[2] <= a[1]
    BY <1>3, <2>2
  <2> QED  BY <2>3 DEF Disjoint
<1>6. ASSUME NEW d \in Entries, NEW e \in Entries, d # e PROVE Disjoint(Free(d), Free(e))
  <2>1. Disjoint(FreeOf(freeLists, d), FreeOf(freeLists, e))
    BY <1>1, <1>4, <1>6 DEF NothingShared
  <2> QED  BY <1>4, <2>1
<1>7. ASSUME NEW a \in blocks, NEW e \in Entries PROVE Disjoint(a, Free(e))
  <2>1. Disjoint(Room(a), FreeOf(freeLists, e)) /\ Free(e) = FreeOf(freeLists, e)
    BY <1>1, <1>4 DEF NothingShared
  <2>2. a[1] + align32(a[2]) <= Free(e)[1] \/ Free(e)[1] + Free(e)[2] <= a[1]
    BY <1>3, <2>1 DEF Disjoint
  <2>3. a[1] + a[2] <= Free(e)[1] \/ Free(e)[1] + Free(e)[2] <= a[1]
    BY <1>3, <1>4, <2>2
  <2> QED  BY <2>3 DEF Disjoint
<1>8. ASSUME NEW a \in blocks PROVE MetadataSize <= a[1] /\ a[1] + a[2] <= LeafCount * ChunkSize
  <2> DEFINE z == LeafCount * ChunkSize
  <2>1. a[1] + align32(a[2]) <= z /\ z \in Nat /\ MetadataSize <= a[1]
    BY <1>3, Sizing
  <2> HIDE DEF z
  <2>2. a[1] + a[2] <= z
    BY <1>3, <2>1
  <2> QED  BY <2>1, <2>2 DEF z
<1>9. \A a \in blocks \cup {Free(e) : e \in Entries} :
        MetadataSize <= a[1] /\ a[1] + a[2] <= LeafCount * ChunkSize
  <2> SUFFICES ASSUME NEW a \in blocks \cup {Free(e) : e \in Entries}
               PROVE  MetadataSize <= a[1] /\ a[1] + a[2] <= LeafCount * ChunkSize
    OBVIOUS
  <2>1. CASE a \in blocks
    BY <1>8, <2>1
  <2>2. CASE a \in {Free(e) : e \in Entries}
    BY <1>4, <2>2
  <2> QED  BY <2>1, <2>2
<1> QED
  BY <1>1, <1>5, <1>6, <1>7, <1>9 DEF MemoryIsNotShared

\* Until a large block is deallocated, no block that a caller holds is handed out
\* again, and no byte of the allocator of small pointers belongs to two of the
\* blocks, the free lists and the tree.
THEOREM MemoryIsNeverShared == AllocatorSpec => []MemoryIsNotShared
<1>1. AllocatorInv => MemoryIsNotShared
  BY AllocatorInvImplies
<1>2. AllocatorInit => AllocatorInv
  BY AllocatorInitInv
<1>3. AllocatorInv /\ [AllocatorNext]_allocatorVars => AllocatorInv'
  BY AllocatorNextInv
<1> QED
  BY <1>1, <1>2, <1>3, PTL DEF AllocatorSpec
=============================================================================
