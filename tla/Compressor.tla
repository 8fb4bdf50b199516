----------------------------- MODULE Compressor -----------------------------
(***************************************************************************)
(* src/ivl/uftrace: two recorded traces of calls are parsed line by line   *)
(* (default.hpp), stored with each distinct subtree once (compress.hpp)    *)
(* and compared by their handles (diff.cpp).  A handle is a position in    *)
(* nodes, from 1; a name is a number, that of the root is 0.               *)
(***************************************************************************)
EXTENDS Integers, Sequences, SequencesExt

CONSTANTS Names,    \* of the functions traced
          MaxCalls  \* bound on the calls of one trace

VARIABLES step,     \* how far ivl_main is: an index of Steps
          trace,    \* the traces parsed, left and right
          path,     \* the stack of parse_replay_text: where the open calls are
          nodes,    \* of the compressor
          tree,     \* of the compressor: an AVL tree of handles
          roots,    \* the handles l and r of ivl_main
          boring,   \* names purged
          shown     \* what each diff printed: [side, handle]

compressorVars == <<step, trace, path, nodes, tree, roots, boring, shown>>

Avl == INSTANCE AvlTree WITH Elements <- {}, root <- tree, contents <- {}

Steps == <<"parse left", "parse right", "compress", "purge", "diff", "diff_r">>

At(s) == step \in DOMAIN Steps /\ Steps[step] = s

Call(name) == [name |-> name, calls |-> <<>>]

-----------------------------------------------------------------------------
\* The call at p with one more call in it.
RECURSIVE emplace_back(_, _, _)
emplace_back(t, p, name) ==
    IF p = <<>> THEN [t EXCEPT !.calls = Append(@, Call(name))]
    ELSE [t EXCEPT !.calls[Head(p)] = emplace_back(@, Tail(p), name)]

RECURSIVE NodeAt(_, _)
NodeAt(t, p) == IF p = <<>> THEN t ELSE NodeAt(t.calls[Head(p)], Tail(p))

RECURSIVE size(_)
size(t) == FoldLeft(LAMBDA acc, call : acc + size(call), 1, t.calls)

\* Lexicographic, as <=> of std::vector.
Before(s, t) == \E k \in DOMAIN t :
    /\ k <= Len(s) + 1 /\ SubSeq(s, 1, k - 1) = SubSeq(t, 1, k - 1)
    /\ k <= Len(s) => s[k] < t[k]

\* Faulty: of two lists of calls, the shorter one is less.
PrecedesByLength(a, b) ==
    a.name < b.name \/ (a.name = b.name /\ Len(a.calls) < Len(b.calls))

Precedes(a, b) ==
    a.name < b.name \/ (a.name = b.name /\ Before(a.calls, b.calls))

Towards(c, t, f) == IF Precedes(f, c.nodes[t.value]) THEN "left" ELSE "right"

\* The handle of f in the tree, 0 if there is none.
RECURSIVE Lookup(_, _, _)
Lookup(c, t, f) ==
    IF t = Avl!Empty THEN 0
    ELSE IF c.nodes[t.value] = f THEN t.value
    ELSE Lookup(c, t[Towards(c, t, f)], f)

RECURSIVE Attach(_, _, _)
Attach(c, t, f) ==
    IF t = Avl!Empty THEN Avl!Leaf(Len(c.nodes) + 1)
    ELSE Avl!fix_invariant(Avl!update_depth([t EXCEPT ![Towards(c, t, f)] = Attach(c, @, f)]))

\* A call of the compressor returns the compressor and a handle.
insert(c, f) ==
    IF Lookup(c, c.tree, f) # 0 THEN [c |-> c, handle |-> Lookup(c, c.tree, f)]
    ELSE [c |-> [nodes |-> Append(c.nodes, f), tree |-> Attach(c, c.tree, f)],
          handle |-> Len(c.nodes) + 1]

RECURSIVE compress(_, _)
compress(c, f) ==
    LET Push(acc, call) == LET r == compress(acc.c, call)
                           IN  [c |-> r.c, calls |-> Append(acc.calls, r.handle)]
        all == FoldLeft(Push, [c |-> c, calls |-> <<>>], f.calls)
    IN  insert(all.c, [name |-> f.name, calls |-> all.calls])

RECURSIVE decompress(_)
decompress(h) ==
    LET n == nodes[h]
    IN  [name |-> n.name, calls |-> [k \in DOMAIN n.calls |-> decompress(n.calls[k])]]

\* pred is the set of the handles it refuses: a node never changes.
RECURSIVE filter(_, _, _)
filter(c, h, refused) ==
    LET Push(acc, el) == LET r == filter(acc.c, el, refused)
                         IN  IF el \in refused THEN acc
                             ELSE [c |-> r.c, calls |-> Append(acc.calls, r.handle)]
        kept == FoldLeft(Push, [c |-> c, calls |-> <<>>], c.nodes[h].calls)
    IN  insert(kept.c, [name |-> c.nodes[h].name, calls |-> kept.calls])

RECURSIVE fill(_, _, _)
fill(c, h, out) ==
    IF h \in out THEN out
    ELSE FoldLeft(LAMBDA acc, el : fill(c, el, acc), out \cup {h}, c.nodes[h].calls)

-----------------------------------------------------------------------------
compressor == [nodes |-> nodes, tree |-> tree]

Becomes(c) == nodes' = c.nodes /\ tree' = c.tree

Parsing == At("parse left") \/ At("parse right")

\* A line that ends with " {".
Open(name) ==
    /\ Parsing /\ size(trace[step]) <= MaxCalls
    /\ trace' = [trace EXCEPT ![step] = emplace_back(@, path, name)]
    /\ path' = Append(path, Len(NodeAt(trace[step], path).calls) + 1)
    /\ UNCHANGED <<step, nodes, tree, roots, boring, shown>>

\* A line that ends with "*/".
Close ==
    /\ Parsing /\ path # <<>>
    /\ path' = Front(path)
    /\ UNCHANGED <<step, trace, nodes, tree, roots, boring, shown>>

EndOfText ==
    /\ Parsing /\ path = <<>>
    /\ step' = step + 1
    /\ UNCHANGED <<trace, path, nodes, tree, roots, boring, shown>>

Compress ==
    LET l == compress(compressor, trace[1])
        r == compress(l.c, trace[2])
    IN  /\ At("compress")
        /\ Becomes(r.c) /\ roots' = <<l.handle, r.handle>>
        /\ step' = step + 1
        /\ UNCHANGED <<trace, path, boring, shown>>

Purge(blacklist) ==
    LET refused == {i \in DOMAIN nodes : nodes[i].name \in blacklist}
        l == filter(compressor, roots[1], refused)
        r == filter(l.c, roots[2], refused)
    IN  /\ At("purge")
        /\ Becomes(r.c) /\ roots' = <<l.handle, r.handle>>
        /\ boring' = blacklist /\ step' = step + 1
        /\ UNCHANGED <<trace, path, shown>>

diff(l, r) == filter(compressor, roots[l], fill(compressor, roots[r], {}))

Diff(l, r) ==
    /\ At(IF l = 1 THEN "diff" ELSE "diff_r")
    /\ Becomes(diff(l, r).c)
    /\ shown' = Append(shown, [side |-> l, handle |-> diff(l, r).handle])
    /\ step' = step + 1
    /\ UNCHANGED <<trace, path, roots, boring>>

\* A flag of the last three steps that is not given.
NoFlag ==
    /\ At("purge") \/ At("diff") \/ At("diff_r")
    /\ step' = step + 1
    /\ UNCHANGED <<trace, path, nodes, tree, roots, boring, shown>>

Init ==
    /\ step = 1 /\ trace = <<Call(0), Call(0)>> /\ path = <<>>
    /\ nodes = <<>> /\ tree = Avl!Empty /\ roots = <<>>
    /\ boring = {} /\ shown = <<>>

Next ==
    \/ \E name \in Names : Open(name)
    \/ Close \/ EndOfText \/ Compress
    \/ \E blacklist \in SUBSET Names : Purge(blacklist)
    \/ Diff(1, 2) \/ Diff(2, 1) \/ NoFlag

Spec == Init /\ [][Next]_compressorVars

-----------------------------------------------------------------------------
RECURSIVE Subtrees(_)
Subtrees(t) == {t} \cup UNION {Subtrees(t.calls[k]) : k \in DOMAIN t.calls}

\* t without the calls, at any depth, that are in a set of calls or of names.
RECURSIVE Without(_, _, _)
Without(t, dropped, names) ==
    LET kept == SelectSeq(t.calls, LAMBDA call : call \notin dropped /\ call.name \notin names)
    IN  [t EXCEPT !.calls = [k \in DOMAIN kept |-> Without(kept[k], dropped, names)]]

Purged(side) == Without(trace[side], {}, boring)

\* The balanced tree finds every node where it is stored, so none is stored twice,
\* whatever the order in which traces and filtered copies came; a handle stands
\* for the trace it was made of; and a diff shows a call exactly if it, with all the calls below it, is
\* nowhere in the other trace and nothing around it is: handles tell apart what
\* text would (compress.hpp:26-57, diff.cpp:41-82).
DiffIsExact ==
    /\ Avl!check_invariant(tree, tree.depth)
    /\ \A i \in DOMAIN nodes : Lookup(compressor, tree, nodes[i]) = i
    /\ \A side \in DOMAIN roots : decompress(roots[side]) = Purged(side)
    /\ \A k \in DOMAIN shown :
         decompress(shown[k].handle) =
           Without(Purged(shown[k].side), Subtrees(Purged(3 - shown[k].side)), {})
=============================================================================
