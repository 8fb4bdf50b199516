----------------------------- MODULE Turnament -----------------------------
(***************************************************************************)
(* src/ivl/structs/turnament.hpp: a complete binary tree in an array, each *)
(* inner node the sum of its children, where find descends to the first or *)
(* the last leaf of a range that satisfies a predicate.  Find relies on a  *)
(* sum satisfying it exactly if one of its parts does: here the sum is the *)
(* maximum, and the predicates are "at least v".                           *)
(***************************************************************************)
EXTENDS Integers, FiniteSets, FiniteSetsExt, PowersOfTwo

CONSTANTS Leaves,  \* length of the range a tree is built from
          Values   \* of leaves; 0 is T{}

ASSUME TurnamentAssumption == Leaves \in Nat \ {0} /\ Values \subseteq Nat

VARIABLE data  \* [TreeNodes -> value], leaf i is data[i + length]; <<>> before

length == IF Pow2[Log2(Leaves)] = Leaves THEN Leaves ELSE Pow2[Log2(Leaves) + 1]

TreeNodes == 1..(2 * length - 1)

plus(a, b) == IF a >= b THEN a ELSE b

Construct(range) ==
    LET node[i \in TreeNodes] ==
          IF i < length THEN plus(node[2 * i], node[2 * i + 1])
          ELSE IF i - length < Leaves THEN range[i - length] ELSE 0
    IN  /\ data = <<>>
        /\ data' = node

\* From the leaf's parent to the root.
set(pos, value) ==
    LET leaf == pos + length
        path == {leaf \div Pow2[k] : k \in 0..Log2(leaf)}
        updated[i \in TreeNodes] ==
          IF i = leaf THEN value
          ELSE IF i \in path THEN plus(updated[2 * i], updated[2 * i + 1])
          ELSE data[i]
    IN  /\ data # <<>>
        /\ data' = updated

TrailingZeros(n) == CHOOSE k \in 0..n : n % Pow2[k] = 0 /\ n % Pow2[k + 1] # 0

\* Faulty: a range is taken for a node's though it is not aligned to it.
BlockUnaligned(from, size) == Log2(size)

\* The largest node that begins (ends) at from and lies in a range of that size.
Block(from, size) ==
    IF from = 0 \/ Log2(size) < TrailingZeros(from) THEN Log2(size) ELSE TrailingZeros(from)

None == -1

\* From a node to its first (last) leaf that satisfies the predicate.
Descend(side, v) ==
    LET leaf[i \in TreeNodes] ==
          IF i >= length THEN i - length
          ELSE LET near == 2 * i + (IF side = "Right" THEN 1 ELSE 0)
                   far  == 2 * i + (IF side = "Right" THEN 0 ELSE 1)
               IN  leaf[IF data[near] >= v THEN near ELSE far]
    IN  leaf

\* What is left of the range: its last (first) size leaves.
find(side, from, to, v) ==
    LET search[size \in 0..(to - from)] ==
          IF size = 0 THEN None
          ELSE LET lo == IF side = "Left" THEN to - size ELSE from
                   hi == lo + size
                   k  == Block(IF side = "Left" THEN lo ELSE hi, size)
                   i  == ((IF side = "Left" THEN lo ELSE hi - 1) + length) \div Pow2[k]
               IN  IF data[i] >= v THEN Descend(side, v)[i] ELSE search[size - Pow2[k]]
    IN  search[to - from]

TurnamentInit == data = <<>>

TurnamentNext ==
    \/ \E range \in [0..(Leaves - 1) -> Values] : Construct(range)
    \/ \E pos \in 0..(Leaves - 1), value \in Values : set(pos, value)

TurnamentSpec == TurnamentInit /\ [][TurnamentNext]_data

-----------------------------------------------------------------------------
\* Whatever was set, find gives the first (last) leaf of any range that has v
\* or more, and none when there is none.
FindIsExact == data # <<>> =>
    \A lo \in 0..Leaves : \A hi \in lo..Leaves : \A v \in Values :
        LET found == {i \in lo..(hi - 1) : data[i + length] >= v}
        IN  /\ find("Left", lo, hi, v) = IF found = {} THEN None ELSE Min(found)
            /\ find("Right", lo, hi, v) = IF found = {} THEN None ELSE Max(found)
=============================================================================
