---------------------------- MODULE SegmentTree ----------------------------
(***************************************************************************)
(* The segment trees of src/ivl/alloc/ that hand out runs of chunks: node  *)
(* <<k, j>> stands for the chunks from j * Pow2[k] to the begin of node    *)
(* <<k, j + 1>>, and knows how many of them are free at its left end, and  *)
(* the longest free run it knows of.  SegmentTree (an array) and           *)
(* SegmentTree2 (packed bits) are one algorithm with two differences: the  *)
(* latter is called compact.  The bit packing of Packed::load and store is *)
(* left out.                                                               *)
(***************************************************************************)
EXTENDS Integers, Sequences, PowersOfTwo

CONSTANT LeafCount  \* chunks to hand out

ASSUME LeafCountAssumption == LeafCount \in Nat \ {0}

\* std::bit_ceil
Levels == IF Pow2[Log2(LeafCount)] = LeafCount THEN Log2(LeafCount) ELSE Log2(LeafCount) + 1

LENGTH == Pow2[Levels]

Nodes == {n \in (0..Levels) \X (0..(LENGTH - 1)) : n[2] < Pow2[Levels - n[1]]}

Whole(k) == [left |-> Pow2[k], max |-> Pow2[k]]

NoneFree == [left |-> 0, max |-> 0]

modify_single(k, free) == IF free THEN Whole(k) ELSE NoneFree

Larger(a, b) == IF a >= b THEN a ELSE b

rebuild(k, l, r) ==
    IF l.left = Pow2[k - 1]
    THEN [left |-> l.left + r.left, max |-> l.left + r.left]
    ELSE [left |-> l.left, max |-> Larger(l.max, r.max)]

\* The nodes above the leaf are rebuilt from their children, bottom up.
refresh_upwards(t, leaf) ==
    LET up[k \in 0..Levels] ==
          IF k = 0 THEN t[<<0, leaf>>]
          ELSE LET child   == leaf \div Pow2[k - 1]
                   sibling == t[<<k - 1, IF child % 2 = 0 THEN child + 1 ELSE child - 1>>]
               IN  IF child % 2 = 0 THEN rebuild(k, up[k - 1], sibling)
                                    ELSE rebuild(k, sibling, up[k - 1])
    IN  [n \in Nodes |-> IF leaf \div Pow2[n[1]] = n[2] THEN up[n[1]] ELSE t[n]]

\* Where the descent of modify_prefix ends: the leaf after the first len chunks
\* under <<k, i>>, or the last one when there is none.
LeafAfter(k, i, len) == i * Pow2[k] + (IF len < Pow2[k] THEN len ELSE Pow2[k] - 1)

\* Faulty: the leaf where the descent ends is never marked.
modify_prefixShort(t, k, i, len, free) ==
    LET leaf == LeafAfter(k, i, len)
        Marked(n) == n[1] < k /\ n[2] % 2 = 0 /\ leaf \div Pow2[n[1]] = n[2] + 1
    IN  refresh_upwards([n \in Nodes |-> IF Marked(n) THEN modify_single(n[1], free) ELSE t[n]], leaf)

\* The descent marks the left children it passes by.  What lies below a marked
\* node keeps its old marks.
modify_prefix(t, k, i, len, free) ==
    LET leaf == LeafAfter(k, i, len)
        Marked(n) == \/ n[1] < k /\ n[2] % 2 = 0 /\ leaf \div Pow2[n[1]] = n[2] + 1
                     \/ n = <<0, leaf>> /\ len >= Pow2[k]
    IN  refresh_upwards([n \in Nodes |-> IF Marked(n) THEN modify_single(n[1], free) ELSE t[n]], leaf)

\* Chunks added to round up count as free in the array only.
Fresh(compact) ==
    LET padding == IF compact THEN NoneFree ELSE Whole(0)
        node[n \in Nodes] ==
          IF n[1] = 0 THEN IF n[2] < LeafCount THEN Whole(0) ELSE padding
          ELSE rebuild(n[1], node[<<n[1] - 1, 2 * n[2]>>], node[<<n[1] - 1, 2 * n[2] + 1>>])
    IN  node

\* The node at each level of the descent for a run of len.
TakePath(t, len) ==
    LET at[k \in 0..Levels] ==
          IF k = Levels THEN 0
          ELSE 2 * at[k + 1] + (IF t[<<k, 2 * at[k + 1]>>].max < len THEN 1 ELSE 0)
    IN  at

Fits(t, len) == t[<<Levels, 0>>].max >= len

\* The descent stops at the first node that begins with a run long enough.
TakeLevel(t, len) ==
    LET at == TakePath(t, len)
        ok == {k \in 0..Levels : t[<<k, at[k]>>].left >= len}
    IN  CHOOSE k \in ok : \A i \in ok : i <= k

TakeAt(t, len) == LET k == TakeLevel(t, len) IN TakePath(t, len)[k] * Pow2[k]

AfterTake(t, len) ==
    LET k == TakeLevel(t, len) IN modify_prefix(t, k, TakePath(t, len)[k], len, FALSE)

\* SegmentTree: the largest node that begins at loc.
give(t, len, loc) ==
    LET ok == {k \in 0..Levels : loc % Pow2[k] = 0}
        k  == CHOOSE k \in ok : \A i \in ok : i <= k
    IN  modify_prefix(t, k, loc \div Pow2[k], len, TRUE)

\* SegmentTree2: every node that begins at loc, the largest one first.
give_impl(t, len, loc) ==
    LET down[k \in 0..(Levels + 1)] ==
          IF k = Levels + 1 THEN t
          ELSE IF loc % Pow2[k] = 0 THEN modify_prefix(down[k + 1], k, loc \div Pow2[k], len, TRUE)
          ELSE down[k + 1]
    IN  down[0]

AfterGive(compact, t, len, loc) == IF compact THEN give_impl(t, len, loc) ELSE give(t, len, loc)

\* Two runs, <<location, length>>, of chunks or of bytes.
Disjoint(a, b) == a[1] + a[2] <= b[1] \/ b[1] + b[2] <= a[1]
=============================================================================
