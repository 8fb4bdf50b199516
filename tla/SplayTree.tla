----------------------------- MODULE SplayTree -----------------------------
(***************************************************************************)
(* src/ivl/structs/splay_tree.hpp.  A SplayTree is a handle that owns a    *)
(* node, and a node holds the handles of its children and a pointer to the *)
(* handle, not the node, that owns its parent: moving a node from handle   *)
(* to handle must repair the pointers of its children each time.  A node   *)
(* is named by its value; a handle is "root", a local of rotate, or        *)
(* <<node, side>>.  What a node's value aggregates is its subtree's size.  *)
(***************************************************************************)
EXTENDS Integers, Sequences, FiniteSets, SequencesExt

CONSTANT SplayValues  \* integers that callers insert; 0 names no node

ASSUME SplayAssumption == SplayValues \subseteq Int \ {0} /\ IsFiniteSet(SplayValues)

Nothing == 0

Sides == {"left", "right"}

Child(n, side) == <<n, side>>

RootHandle == <<Nothing, "root">>

CHandle == <<Nothing, "c">>

GCHandle == <<Nothing, "gc">>

Null == <<Nothing, "null">>

Handles == {Child(v, s) : v \in SplayValues, s \in Sides} \cup {RootHandle, CHandle, GCHandle}

VARIABLE heap  \* own: what each handle owns; parent: a handle or Null; size: per node

sibling(side) == IF side = "left" THEN "right" ELSE "left"

fixup(m, h) ==
    IF m.own[h] = Nothing THEN m
    ELSE LET moved == {m.own[Child(m.own[h], s)] : s \in Sides} \ {Nothing}
         IN  [m EXCEPT !.parent = [n \in SplayValues |-> IF n = m.own[h] THEN Null
                                                         ELSE IF n \in moved THEN h ELSE @[n]]]

\* to = std::move(from)
Moved(m, to, from) ==
    fixup([m EXCEPT !.own = [@ EXCEPT ![to] = m.own[from], ![from] = Nothing]], to)

SizeOf(m, h) == IF m.own[h] = Nothing THEN 0 ELSE m.size[m.own[h]]

refresh_state(m, h) ==
    LET n == m.own[h]
    IN  [m EXCEPT !.size[n] = 1 + SizeOf(m, Child(n, "left")) + SizeOf(m, Child(n, "right"))]

cut(m, h, side, to) == refresh_state(Moved(m, to, Child(m.own[h], side)), h)

\* Faulty: the node that takes a child keeps the aggregate it had without it.
linkStale(m, h, from, side) ==
    LET place == Child(m.own[h], side)
        moved == Moved(m, place, from)
        n     == moved.own[place]
    IN  IF n = Nothing THEN moved ELSE [moved EXCEPT !.parent[n] = h]

link(m, h, from, side) ==
    LET place == Child(m.own[h], side)
        moved == Moved(m, place, from)
        n     == moved.own[place]
    IN  refresh_state(IF n = Nothing THEN moved ELSE [moved EXCEPT !.parent[n] = h], h)

rotate_handle(m, h, side) ==
    LET p == m.parent[m.own[h]]
        a == cut(m, h, side, CHandle)
        b == cut(a, CHandle, sibling(side), GCHandle)
        d == Moved(link(link(b, h, GCHandle, side), CHandle, h, sibling(side)), h, CHandle)
    IN  [d EXCEPT !.parent[d.own[h]] = p]

\* Handles of children live in the node that owns them.
child_side(c) == c[2]

Climb(st, target) ==
    LET m      == st.heap
        parent == m.parent[m.own[st.current]]
        above  == m.parent[m.own[parent]]
        ps     == child_side(st.current)
        gps    == child_side(parent)
    IN  IF parent = target THEN st
        ELSE IF above = target THEN [heap |-> rotate_handle(m, parent, ps), current |-> parent]
        ELSE IF ps = gps
             THEN [heap |-> rotate_handle(rotate_handle(m, above, ps), above, ps), current |-> above]
        ELSE [heap |-> rotate_handle(rotate_handle(m, parent, ps), above, gps), current |-> above]

\* No more rounds than there are nodes.
splay(m, h, target) ==
    LET after[k \in 0..Cardinality(SplayValues)] ==
          IF k = 0 THEN [heap |-> m, current |-> h] ELSE Climb(after[k - 1], target)
    IN  after[Cardinality(SplayValues)].heap

\* The handle where a descent for v ends, and the one before it.
DescendTo(m, v) ==
    LET at[k \in 0..Cardinality(SplayValues)] ==
          IF k = 0 THEN [current |-> RootHandle, parent |-> Null]
          ELSE LET st == at[k - 1]
                   n  == m.own[st.current]
               IN  IF n \in {Nothing, v} THEN st
                   ELSE [current |-> Child(n, IF n > v THEN "left" ELSE "right"),
                         parent |-> st.current]
    IN  at[Cardinality(SplayValues)]

insert_value(m, v) ==
    LET place == DescendTo(m, v)
        added == [m EXCEPT !.own[place.current] = v, !.parent[v] = place.parent, !.size[v] = 1]
    IN  splay(IF m.own[place.current] = v THEN m ELSE added, place.current, Null)

HandleOf(m, n) == CHOOSE h \in Handles : m.own[h] = n

InsertValue(v) == heap' = insert_value(heap, v)

\* Below the root when target is the root's handle, to the root when it is null.
Splay(n, target) ==
    /\ n \in {heap.own[h] : h \in Handles} \ (IF target = RootHandle THEN {heap.own[target]} ELSE {})
    /\ heap' = splay(heap, HandleOf(heap, n), target)

SplayInit == heap = [own    |-> [h \in Handles |-> Nothing],
                     parent |-> [n \in SplayValues |-> Null],
                     size   |-> [n \in SplayValues |-> 0]]

SplayNext == \E v \in SplayValues :
    \/ InsertValue(v)
    \/ \E target \in {Null, RootHandle} : Splay(v, target)

SplaySpec == SplayInit /\ [][SplayNext]_heap

-----------------------------------------------------------------------------
\* The nodes below each handle, from left to right.
InOrder(m) ==
    LET list[k \in 0..Cardinality(SplayValues)] ==
          [h \in Handles |->
             IF k = 0 \/ m.own[h] = Nothing THEN <<>>
             ELSE list[k - 1][Child(m.own[h], "left")] \o <<m.own[h]>>
                  \o list[k - 1][Child(m.own[h], "right")]]
    IN  list[Cardinality(SplayValues)]

\* Between calls every node's parent pointer is the handle that owns its parent
\* (null at the root) although the nodes have moved through handles on the
\* stack; the tree holds each inserted value once, in order; nothing is left in
\* a local; and each aggregate is that of the node's present subtree.
SplayIsConsistent ==
    /\ \A h \in Handles : heap.own[h] # Nothing =>
         LET n == heap.own[h]
         IN  /\ h \notin {CHandle, GCHandle}
             /\ heap.parent[n] = IF h = RootHandle THEN Null ELSE HandleOf(heap, h[1])
             /\ heap.size[n] = Len(InOrder(heap)[h])
    /\ LET s == InOrder(heap)[RootHandle]
       IN  /\ ToSet(s) = {n \in SplayValues : heap.size[n] > 0}
           /\ \A i, j \in DOMAIN s : i < j => s[i] < s[j]
=============================================================================
