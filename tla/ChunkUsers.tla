---------------------------- MODULE ChunkUsers ----------------------------
(***************************************************************************)
(* Callers of a segment tree (SegmentTree): they take runs of chunks and   *)
(* give them back.                                                         *)
(***************************************************************************)
EXTENDS SegmentTree, SequencesExt

CONSTANTS Sizes,    \* what callers ask for
          StackUse  \* callers give first what they took last

ASSUME UsersAssumption == Sizes \subseteq Nat \ {0} /\ StackUse \in BOOLEAN

VARIABLES compact,  \* which tree it is
          tree,     \* [Nodes -> [left, max]]
          live      \* what was taken and not yet given: <<location, length>>, oldest first

userVars == <<compact, tree, live>>

Take(len) ==
    /\ Fits(tree, len)
    /\ tree' = AfterTake(tree, len)
    /\ live' = Append(live, <<TakeAt(tree, len), len>>)
    /\ UNCHANGED compact

Give(i) ==
    /\ StackUse => i = Len(live)
    /\ tree' = AfterGive(compact, tree, live[i][2], live[i][1])
    /\ live' = RemoveAt(live, i)
    /\ UNCHANGED compact

UsersInit ==
    /\ compact \in BOOLEAN
    /\ tree = Fresh(compact)
    /\ live = <<>>

UsersNext ==
    \/ \E len \in Sizes : Take(len)
    \/ \E i \in 1..Len(live) : Give(i)

UsersSpec == UsersInit /\ [][UsersNext]_userVars

-----------------------------------------------------------------------------
\* What has been taken and not given back is no one else's (the purpose stated
\* at src/ivl/alloc/segment_tree.hpp:9).  The code breaks it: a node marked by
\* one call keeps stale nodes below it, and a call that ends next to them
\* rebuilds it from those.
LiveAreDisjoint ==
    \A i, j \in 1..Len(live) : i # j => Disjoint(live[i], live[j])

\* As long as what was taken last is given first, live runs are disjoint and
\* lie within the chunks, and when all is given back they are one free run
\* again: the stale nodes below marked ones never matter.
StackUseIsExact == StackUse =>
    /\ LiveAreDisjoint
    /\ compact => \A i \in 1..Len(live) : live[i][1] + live[i][2] <= LeafCount
    /\ live = <<>> => tree[<<Levels, 0>>].max = IF compact THEN LeafCount ELSE LENGTH
=============================================================================
