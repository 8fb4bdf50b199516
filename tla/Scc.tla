-------------------------------- MODULE Scc --------------------------------
(***************************************************************************)
(* src/ivl/graphs/: a directed graph as lists of successors in the order   *)
(* the edges were added, and SCC, a one-pass search in the manner of       *)
(* Tarjan's that compares what a node reaches back to, earliest and        *)
(* latest, with the time in which the node itself was open.                *)
(***************************************************************************)
EXTENDS Integers, Sequences, SequencesExt

CONSTANTS NodeCount,  \* nodes are 0 .. NodeCount - 1
          MaxEdges    \* bound on the edges added

VARIABLES edges,     \* the graph: [node -> successors]
          partition  \* what the last SCC returned: [node -> index], or <<>>

sccVars == <<edges, partition>>

Node == 0..(NodeCount - 1)

Lesser(a, b) == IF a <= b THEN a ELSE b

Greater(a, b) == IF a >= b THEN a ELSE b

Engine == [state     |-> [n \in Node |-> [seen |-> 0, lo |-> 0, hi |-> 0, color |-> "not_visited"]],
           stack     |-> <<>>,
           partition |-> [n \in Node |-> 0],
           count     |-> 0,
           time      |-> 0]

\* Faulty: the popped nodes stay "on_stack".
FinishForgetful(e, node) ==
    LET first == CHOOSE i \in DOMAIN e.stack : e.stack[i] = node
    IN  [e EXCEPT !.stack = SubSeq(@, 1, first - 1),
                  !.count = @ + 1,
                  !.partition = [n \in Node |-> IF \E i \in first..Len(e.stack) : e.stack[i] = n
                                                THEN e.count ELSE @[n]]]

\* The stack from node on is one component.
Finish(e, node) ==
    LET first == CHOOSE i \in DOMAIN e.stack : e.stack[i] = node
        Popped(n) == \E i \in first..Len(e.stack) : e.stack[i] = n
    IN  [e EXCEPT !.stack = SubSeq(@, 1, first - 1),
                  !.count = @ + 1,
                  !.partition = [n \in Node |-> IF Popped(n) THEN e.count ELSE @[n]],
                  !.state = [n \in Node |-> IF Popped(n) THEN [@[n] EXCEPT !.color = "finished"]
                                                         ELSE @[n]]]

\* A node just visited falls through to the case of one on the stack, also when
\* its component has been finished meanwhile.
RECURSIVE process(_, _, _)
process(G, e, node) ==
    LET opened == [e EXCEPT !.state[node] = [seen |-> e.time, lo |-> e.time, hi |-> e.time,
                                             color |-> "on_stack"],
                            !.time = @ + 1,
                            !.stack = Append(@, node)]
        Visit(f, next) ==
            LET g == IF f.state[next].color = "not_visited" THEN process(G, f, next) ELSE f
            IN  IF f.state[next].color = "finished" THEN f
                ELSE [g EXCEPT !.state[node].lo = Lesser(@, g.state[next].lo),
                               !.state[node].hi = Greater(@, g.state[next].hi)]
        done == FoldLeft(Visit, opened, G[node])
    IN  IF done.state[node].seen <= done.state[node].lo /\ done.time - 1 >= done.state[node].hi
        THEN Finish(done, node)
        ELSE done

SCC(G) ==
    LET Start(e, node) == IF e.state[node].color = "not_visited" THEN process(G, e, node) ELSE e
    IN  FoldLeft(Start, Engine, [i \in 1..NodeCount |-> i - 1]).partition

add_edge(a, b) ==
    /\ FoldLeft(LAMBDA n, outs : n + Len(outs), 0, [i \in 1..NodeCount |-> edges[i - 1]]) < MaxEdges
    /\ edges' = [edges EXCEPT ![a] = Append(@, b)]
    /\ partition' = <<>>

Compute ==
    /\ partition' = SCC(edges)
    /\ UNCHANGED edges

Init ==
    /\ edges = [n \in Node |-> <<>>]
    /\ partition = <<>>

Next ==
    \/ \E a, b \in Node : b \notin ToSet(edges[a]) /\ add_edge(a, b)
    \/ Compute

Spec == Init /\ [][Next]_sccVars

-----------------------------------------------------------------------------
\* Nodes reached from n by at most k edges.
Within(n) ==
    LET reach[k \in 0..NodeCount] ==
          IF k = 0 THEN {n} ELSE reach[k - 1] \cup UNION {ToSet(edges[m]) : m \in reach[k - 1]}
    IN  reach[NodeCount]

\* Two nodes get one index exactly when each reaches the other, whatever the
\* order in which the edges were added (src/ivl/graphs/scc.hpp:18 and the
\* assertion of test_scc.cpp:41, which tries random graphs).
ComponentsAreExact == partition # <<>> =>
    \A a, b \in Node :
        (partition[a] = partition[b]) <=> (a \in Within(b) /\ b \in Within(a))
=============================================================================
