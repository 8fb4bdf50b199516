--------------------------- MODULE MCComponents ---------------------------
(***************************************************************************)
(* The components that work for one caller at a time, and the programs     *)
(* that contend for the root cgroup, in one run of TLC.  They share no     *)
(* state: a behaviour steps the one it began with, and the state space is  *)
(* the union of theirs.                                                    *)
(***************************************************************************)
EXTENDS RootSlice, BumpUp, ExceptionStack, PollPushPop, LogicalParser, Turnament,
        ChunkUsers, SmallPtrAllocator, AvlTree, SplayTree, MonotonicUpdate

CONSTANTS p1, p2, p3, p4, e1, e2, e3

UpTo9 == 1..9

UpTo6 == 1..6

UpTo3 == 1..3

SmallChanges == -1..1

SmallValues == -1..2

ByteAndWord == {[sizeof |-> 3, alignof |-> 1], [sizeof |-> 8, alignof |-> 8]}

VARIABLES running,                               \* "none", or the component that steps
          edges, partition,                      \* Scc
          step, trace, openCalls, calls, callTree, handles, boring, shown  \* Compressor

Graph == INSTANCE Scc WITH NodeCount <- 4, MaxEdges <- 4

Uftrace == INSTANCE Compressor WITH
    Names <- {1, 2}, MaxCalls <- 3, path <- openCalls,
    nodes <- calls, tree <- callTree, roots <- handles

Only(name) ==
    /\ running \in {"none", name}
    /\ running' = name
    /\ name # "slice" => UNCHANGED vars
    /\ name # "chunks" => UNCHANGED userVars
    /\ name # "small" => UNCHANGED allocatorVars
    /\ name # "bump" => UNCHANGED bumpVars
    /\ name # "avl" => UNCHANGED avlVars
    /\ name # "splay" => UNCHANGED heap
    /\ name # "tournament" => UNCHANGED data
    /\ name # "graph" => UNCHANGED <<edges, partition>>
    /\ name # "walk" => UNCHANGED walkVars
    /\ name # "vector" => UNCHANGED updateVars
    /\ name # "exceptions" => UNCHANGED exceptionVars
    /\ name # "makefile" => UNCHANGED parserVars
    /\ name # "uftrace" => UNCHANGED
         <<step, trace, openCalls, calls, callTree, handles, boring, shown>>

MCInit ==
    /\ running = "none"
    /\ Init /\ UsersInit /\ AllocatorInit /\ BumpInit
    /\ AvlInit /\ SplayInit /\ TurnamentInit /\ Graph!Init
    /\ WalkInit /\ UpdateInit /\ ExceptionInit /\ ParserInit
    /\ Uftrace!Init

MCNext ==
    \/ Only("slice") /\ Next
    \/ Only("chunks") /\ UsersNext
    \/ Only("small") /\ AllocatorNext
    \/ Only("bump") /\ BumpNext
    \/ Only("avl") /\ AvlNext
    \/ Only("splay") /\ SplayNext
    \/ Only("tournament") /\ TurnamentNext
    \/ Only("graph") /\ Graph!Next
    \/ Only("walk") /\ WalkNext
    \/ Only("vector") /\ UpdateNext
    \/ Only("exceptions") /\ ExceptionNext
    \/ Only("makefile") /\ ParserNext
    \/ Only("uftrace") /\ Uftrace!Next

-----------------------------------------------------------------------------
\* scc.hpp: the partition is that of mutual reachability.
ComponentsAreExact == running = "graph" => Graph!ComponentsAreExact

\* uftrace: a handle stands for its subtree, and a diff shows what is missing.
DiffIsExact == running = "uftrace" => Uftrace!DiffIsExact
=============================================================================
