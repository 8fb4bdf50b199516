-------------------------- MODULE MonotonicUpdate --------------------------
(***************************************************************************)
(* src/ivl/algorithm/: monotonic_join sorts in place what two sorted runs  *)
(* leave (v2, which default.hpp calls, and v5), and                        *)
(* monotonic_vector_update merges a sorted vector of changes into another  *)
(* without a second vector: what stays is moved to the front, what is new  *)
(* is appended, and a join puts the two in order.  An element is           *)
(* <<key, value>>; positions count from 1.                                 *)
(***************************************************************************)
EXTENDS Integers, Sequences, FiniteSets, SequencesExt

CONSTANTS Keys,           \* the order is theirs
          VectorValues,   \* of the vector
          ChangeValues    \* of the updates, 0 included

ASSUME UpdateAssumption ==
    /\ Keys \subseteq Int /\ IsFiniteSet(Keys)
    /\ VectorValues \subseteq Int /\ ChangeValues \subseteq Int

VARIABLES vector,   \* the vector the caller keeps
          before,   \* what it was before the last update
          changes   \* what the last update merged into it

updateVars == <<vector, before, changes>>

Swapped(s, i, j) == [s EXCEPT ![i] = s[j], ![j] = s[i]]

\* Of the runs [a, b) and [b, c), the lesser head goes first: how many of the left
\* run are among the first i.
Taken(s, a, b, c) ==
    LET taken[i \in 0..(c - a)] ==
          IF i = 0 THEN 0
          ELSE LET already == taken[i - 1]
                   p == a + already
                   q == b + (i - 1) - already
               IN  IF p # b /\ (q = c \/ s[p][1] <= s[q][1]) THEN already + 1 ELSE already
    IN  taken

\* The positions of both runs in the order they are to have.
MergeOrder(s, a, b, c) ==
    LET taken == Taken(s, a, b, c)
    IN  [i \in 1..(c - a) |-> IF taken[i] # taken[i - 1] THEN a + taken[i - 1]
                              ELSE b + (i - 1) - taken[i - 1]]

\* Faulty: the positions already served stay in the permutation.
FollowAlive(st, i, dead) == [s |-> Swapped(st.s, i, st.perm[i]), perm |-> st.perm]

\* The elements of a cycle are swapped into place.  It has no more positions than
\* there are elements.
Follow(st, i, dead) ==
    LET at[k \in 0..Len(st.s)] ==
          IF k = 0 THEN [s |-> st.s, perm |-> st.perm, j |-> i]
          ELSE LET prior == at[k - 1]
                   next  == prior.perm[prior.j]
               IN  IF next = i THEN prior
                   ELSE [s |-> Swapped(prior.s, prior.j, next),
                         perm |-> [prior.perm EXCEPT ![prior.j] = dead], j |-> next]
        end == at[Len(st.s)]
    IN  [s |-> end.s, perm |-> end.perm]

\* Each cycle of the permutation is followed from its smallest position.
monotonic_join_v2(s, b) ==
    LET c    == Len(s) + 1
        dead == c
        after[i \in 0..Len(s)] ==
          IF i = 0 THEN [s |-> s, perm |-> MergeOrder(s, 1, b, c)]
          ELSE LET st == after[i - 1]
               IN  IF st.perm[i] <= i \/ st.perm[i] = dead THEN st ELSE Follow(st, i, dead)
    IN  IF b = 1 \/ b = c THEN s ELSE after[Len(s)].s

\* The runs [a, b) and [b, c) of s are sorted.
AreRuns(s, a, b, c) ==
    \A i, j \in a..(c - 1) : i <= j /\ (j < b \/ b <= i) => s[i][1] <= s[j][1]

\* What a join is called with.
Windows == {x \in [s : Seq(Int \X Int), a : Nat, b : Nat, c : Nat] :
    /\ 1 <= x.a /\ x.a <= x.b /\ x.b <= x.c /\ x.c <= Len(x.s) + 1
    /\ AreRuns(x.s, x.a, x.b, x.c)}

\* What is in its place already: up to the first that is greater than the head of the
\* right run, and from the last that is less than the end of the left one.
FirstGreater(s, a, b) == CHOOSE i \in a..(b - 1) :
    s[i][1] > s[b][1] /\ \A j \in a..(i - 1) : s[j][1] <= s[b][1]

EndOfLess(s, b, c) == CHOOSE i \in (b + 1)..c :
    s[i - 1][1] < s[b - 1][1] /\ \A j \in i..(c - 1) : s[j][1] >= s[b - 1][1]

Rotated(s, d, b, e) ==
    SubSeq(s, 1, d - 1) \o SubSeq(s, b, e - 1) \o SubSeq(s, d, b - 1) \o SubSeq(s, e, Len(s))

\* The half of both runs that comes first is rotated to the front, and each half
\* is two runs again.
monotonic_join_v5(s0, a0, b0, c0) ==
    LET join[x \in Windows] ==
          LET s == x.s
              b == x.b
              a == FirstGreater(s, x.a, b)
              c == EndOfLess(s, b, x.c)
              half == (c - a) \div 2
              d == a + Taken(s, a, b, c)[half]
              e == b + half - Taken(s, a, b, c)[half]
          IN  IF x.a = b \/ b = x.c \/ s[b - 1][1] <= s[b][1] THEN s
              ELSE join[[s |-> join[[s |-> Rotated(s, d, b, e), a |-> a, b |-> d, c |-> d + (e - b)]],
                         a |-> e - (b - d), b |-> e, c |-> c]]
    IN  join[[s |-> s0, a |-> a0, b |-> b0, c |-> c0]]

\* The hook of compare_test.cpp: values are added, and 0 is erased.  An optional
\* is a sequence of at most one element.
hook(l, r) ==
    LET key   == IF l = <<>> THEN r[1][1] ELSE l[1][1]
        value == (IF l = <<>> THEN 0 ELSE l[1][2]) + (IF r = <<>> THEN 0 ELSE r[1][2])
    IN  IF value = 0 THEN <<>> ELSE << <<key, value>> >>

\* Moves what the hook keeps of a[ap] to the last slot; r is the change, if any.
left(st, r) ==
    LET kept == hook(<<st.a[st.ap]>>, r)
    IN  IF kept = <<>> THEN [st EXCEPT !.ap = @ + 1]
        ELSE [st EXCEPT !.a[st.last_slot] = kept[1], !.last_slot = @ + 1, !.ap = @ + 1]

right(st, b) == [st EXCEPT !.a = @ \o hook(<<>>, <<b[st.bp]>>), !.bp = @ + 1]

\* While neither is at its end: no more rounds than elements.
Merge(a, b) ==
    LET after[k \in 0..(Len(a) + Len(b))] ==
          IF k = 0 THEN [a |-> a, ap |-> 1, bp |-> 1, last_slot |-> 1]
          ELSE LET st == after[k - 1]
                   x  == st.a[st.ap][1]
                   y  == b[st.bp][1]
               IN  IF st.ap = Len(a) + 1 \/ st.bp = Len(b) + 1 THEN st
                   ELSE IF x < y THEN left(st, <<>>)
                   ELSE IF x > y THEN right(st, b)
                   ELSE [left(st, <<b[st.bp]>>) EXCEPT !.bp = @ + 1]
    IN  after[Len(a) + Len(b)]

RestLeft(st, end) ==
    LET after[k \in 0..(end - st.ap)] == IF k = 0 THEN st ELSE left(after[k - 1], <<>>)
    IN  after[end - st.ap]

RestRight(st, b) ==
    LET end == Len(b) + 1
        after[k \in 0..(end - st.bp)] == IF k = 0 THEN st ELSE right(after[k - 1], b)
    IN  after[end - st.bp]

\* Faulty: what was appended is not moved down to the kept elements.
CompactNever(st) == st

\* The gap between what was kept and what was appended is closed.
Compact(st) ==
    [st EXCEPT !.a = SubSeq(@, 1, st.last_slot - 1) \o SubSeq(@, st.ap, Len(@))]

monotonic_vector_update(a, b) ==
    LET merged == RestLeft(Merge(a, b), Len(a) + 1)
        all    == RestRight(Compact(merged), b)
    IN  monotonic_join_v2(all.a, merged.last_slot)

Ascending(s) == \A i, j \in DOMAIN s : i < j => s[i][1] < s[j][1]

SortedVectors(values) == {s \in BoundedSeq(Keys \X values, Cardinality(Keys)) : Ascending(s)}

Update(b) ==
    /\ vector' = monotonic_vector_update(vector, b)
    /\ before' = vector
    /\ changes' = b

UpdateInit == vector = <<>> /\ before = <<>> /\ changes = <<>>

UpdateNext == \E b \in SortedVectors(ChangeValues) :
    /\ \A i \in DOMAIN monotonic_vector_update(vector, b) :
         monotonic_vector_update(vector, b)[i][2] \in VectorValues  \* bound
    /\ Update(b)

UpdateSpec == UpdateInit /\ [][UpdateNext]_updateVars

-----------------------------------------------------------------------------
ValueAt(s, k) ==
    IF \E i \in DOMAIN s : s[i][1] = k
    THEN LET i == CHOOSE i \in DOMAIN s : s[i][1] = k IN s[i][2]
    ELSE 0

\* After any sequence of updates the vector is the map it stands for: strictly
\* ascending keys, each with the sum of what was there and what was added, and
\* no zeros (src/ivl/algorithm/monotonic_vector_update/compare_test.cpp:21).
UpdateIsMapMerge ==
    /\ Ascending(vector)
    /\ \A i \in DOMAIN vector : vector[i][2] # 0
    /\ \A k \in Keys : ValueAt(vector, k) = ValueAt(before, k) + ValueAt(changes, k)

\* Both joins bring two sorted runs in order and agree with each other, also on
\* the order of elements with one key.
JoinsAgree ==
    LET runs == vector \o changes
        b    == Len(vector) + 1
        v2   == monotonic_join_v2(runs, b)
    IN  /\ v2 = [i \in DOMAIN runs |-> runs[MergeOrder(runs, 1, b, Len(runs) + 1)[i]]]
        /\ monotonic_join_v5(runs, 1, b, Len(runs) + 1) = v2
=============================================================================
