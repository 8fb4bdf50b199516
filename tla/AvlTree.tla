------------------------------ MODULE AvlTree ------------------------------
(***************************************************************************)
(* src/ivl/avl_tree/default.hpp: a set kept as a balanced search tree.     *)
(* Ownership moves down and up the tree with each call; here a tree is a   *)
(* value and a call returns the new one.                                   *)
(***************************************************************************)
EXTENDS Integers, Sequences, SequencesExt

CONSTANT Elements  \* that callers insert and erase

ASSUME AvlAssumption == Elements \subseteq Int

VARIABLES root,     \* the tree
          contents  \* what std::set would hold

avlVars == <<root, contents>>

Empty == [depth |-> 0]

Leaf(v) == [value |-> v, depth |-> 1, left |-> Empty, right |-> Empty]

Higher(a, b) == IF a >= b THEN a ELSE b

update_depth(t) == [t EXCEPT !.depth = 1 + Higher(t.left.depth, t.right.depth)]

rotate(t, A, B) ==
    update_depth([t[A] EXCEPT ![B] = update_depth([t EXCEPT ![A] = t[A][B]])])

\* Every node to the given depth is balanced, and its own depth is right but for
\* the last ones.
check_invariant(tree, depth) ==
    LET level[k \in 0..depth] ==
          IF k = 0 THEN {tree} \ {Empty}
          ELSE (UNION {{t.left, t.right} : t \in level[k - 1]}) \ {Empty}
    IN  \A k \in 0..depth : \A t \in level[k] :
            /\ t.left.depth <= t.right.depth + 1 /\ t.right.depth <= t.left.depth + 1
            /\ k < depth => t.depth = 1 + Higher(t.left.depth, t.right.depth)

\* Faulty: never rotates the child first.
fix_invariantOnce(t) ==
    LET A == IF t.left.depth > t.right.depth THEN "left" ELSE "right"
        B == IF A = "left" THEN "right" ELSE "left"
    IN  IF check_invariant(t, 0) THEN t ELSE rotate(t, A, B)

\* A tree that fails the final assertion ends the program: nothing is left of it.
fix_invariant(t) ==
    LET A == IF t.left.depth > t.right.depth THEN "left" ELSE "right"
        B == IF A = "left" THEN "right" ELSE "left"
        inner == IF t[A][A].depth < t[A][B].depth THEN [t EXCEPT ![A] = rotate(t[A], B, A)] ELSE t
        fixed == rotate(inner, A, B)
    IN  IF check_invariant(t, 0) THEN t
        ELSE IF check_invariant(fixed, 2) THEN fixed ELSE Empty

SideOf(t, v) == IF t.value > v THEN "left" ELSE "right"

\* The trees of up to h levels, by which the calls below recur: a recorded depth
\* is never less than the number of levels.
Trees[h \in Nat] ==
    IF h = 0 THEN {Empty}
    ELSE LET lower == Trees[h - 1]
         IN  {Empty} \cup [value : Elements, depth : 1..h, left : lower, right : lower]

insert(tree, v) ==
    LET into[h \in Nat] == [t \in Trees[h] |->
          IF t = Empty THEN Leaf(v)
          ELSE IF t.value = v THEN t
          ELSE fix_invariant(update_depth([t EXCEPT ![SideOf(t, v)] = into[h - 1][@]]))]
    IN  into[tree.depth][tree]

\* <<the first value, the tree without it>>
steal_first[h \in Nat] == [t \in Trees[h] \ {Empty} |->
    IF t.left = Empty THEN <<t.value, t.right>>
    ELSE LET rest == steal_first[h - 1][t.left]
         IN  <<rest[1], fix_invariant(update_depth([t EXCEPT !.left = rest[2]]))>>]

erase(tree, v) ==
    LET from[h \in Nat] == [t \in Trees[h] |->
          IF t = Empty THEN Empty
          ELSE IF t.value # v
               THEN fix_invariant(update_depth([t EXCEPT ![SideOf(t, v)] = from[h - 1][@]]))
          ELSE IF t.left = Empty THEN t.right
          ELSE IF t.right = Empty THEN t.left
          ELSE LET rest == steal_first[h - 1][t.right]
               IN  fix_invariant(update_depth([t EXCEPT !.value = rest[1], !.right = rest[2]]))]
    IN  from[tree.depth][tree]

Insert(v) == root' = insert(root, v) /\ contents' = contents \cup {v}

Erase(v) == root' = erase(root, v) /\ contents' = contents \ {v}

AvlInit == root = Empty /\ contents = {}

AvlNext == \E v \in Elements : Insert(v) \/ Erase(v)

AvlSpec == AvlInit /\ [][AvlNext]_avlVars

-----------------------------------------------------------------------------
flatten(tree) ==
    LET values[h \in Nat] == [t \in Trees[h] |->
          IF t = Empty THEN <<>>
          ELSE values[h - 1][t.left] \o <<t.value>> \o values[h - 1][t.right]]
    IN  values[tree.depth][tree]

\* After any sequence of inserts and erases, each recorded depth is right, no
\* node is more than one deeper on one side, and the tree read from left to
\* right is what std::set would hold (src/ivl/avl_tree/test.cpp:43-45, which
\* tries random sequences); and no assertion ends the program.
AvlIsBalancedSet ==
    /\ check_invariant(root, root.depth)
    /\ LET s == flatten(root)
       IN  ToSet(s) = contents /\ \A i, j \in DOMAIN s : i < j => s[i] < s[j]
=============================================================================
