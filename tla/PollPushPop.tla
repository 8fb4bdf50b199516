---------------------------- MODULE PollPushPop ----------------------------
(***************************************************************************)
(* src/ivl/pollpushpop/default.hpp: iterate walks all sequences of indices *)
(* that several rules admit.  It keeps no call stack: two labels, a stack  *)
(* of the indices left at each depth, and rules that are told of each step *)
(* forward (push) and back (pop).  The walk here is over bounded, the      *)
(* TotalLimit, one CountLimit and the SymmetryReducer together.  A mask is *)
(* the set of its bits.                                                    *)
(***************************************************************************)
EXTENDS Integers, Sequences, FiniteSets, SequencesExt

CONSTANTS Bound,         \* of bounded: indices are 0 .. Bound - 1
          Totals,        \* limits a caller gives the TotalLimit
          LimitedIndex,  \* index of the CountLimit
          Limits         \* limits a caller gives it

ASSUME WalkAssumption ==
    Bound \in Nat /\ LimitedIndex \in Nat /\ Totals \subseteq Nat /\ Limits \subseteq Nat

VARIABLES label,   \* "idle", or the label iterate goes to next
          call,    \* the caller's limits: [total, limit]
          rules,   \* [total: left of the TotalLimit, limit: of the CountLimit, counts]
          stack,   \* masks of the depths before the present one
          top,     \* mask of the present depth
          path,    \* indices pushed and not popped
          visited  \* paths pushed by this call, in order

walkVars == <<label, call, rules, stack, top, path, visited>>

Index == 0..(Bound - 1)

\* The conjunction of what the rules poll.
poll(r) ==
    {i \in Index : /\ r.total > 0
                   /\ i = LimitedIndex => r.limit > 0
                   /\ i <= Len(r.counts)}

pushed(r, i) ==
    [total  |-> r.total - 1,
     limit  |-> IF i = LimitedIndex THEN r.limit - 1 ELSE r.limit,
     counts |-> IF i = Len(r.counts) THEN Append(r.counts, 1)
                ELSE [r.counts EXCEPT ![i + 1] = @ + 1]]

\* Faulty: an index that occurs no more stays among the counts.
poppedKeeping(r, i) ==
    [total  |-> r.total + 1,
     limit  |-> IF i = LimitedIndex THEN r.limit + 1 ELSE r.limit,
     counts |-> [r.counts EXCEPT ![i + 1] = @ - 1]]

popped(r, i) ==
    LET counts == [r.counts EXCEPT ![i + 1] = @ - 1]
    IN  [total  |-> r.total + 1,
         limit  |-> IF i = LimitedIndex THEN r.limit + 1 ELSE r.limit,
         counts |-> IF Last(counts) = 0 THEN Front(counts) ELSE counts]

countr_zero(mask) == CHOOSE i \in mask : \A j \in mask : i <= j

iterate(total, limit) ==
    LET fresh == [total |-> total, limit |-> limit, counts |-> <<>>]
    IN  /\ label = "idle"
        /\ call' = [total |-> total, limit |-> limit]
        /\ rules' = fresh
        /\ top' = poll(fresh)
        /\ label' = IF poll(fresh) = {} THEN "idle" ELSE "push"
        /\ stack' = <<>>
        /\ path' = <<>>
        /\ visited' = <<>>

push_section ==
    LET i    == countr_zero(top)
        next == poll(pushed(rules, i))
    IN  /\ label = "push"
        /\ rules' = pushed(rules, i)
        /\ path' = Append(path, i)
        /\ visited' = Append(visited, Append(path, i))
        /\ IF next = {} THEN label' = "pop" /\ UNCHANGED <<stack, top>>
                        ELSE label' = "push" /\ stack' = Append(stack, top) /\ top' = next
        /\ UNCHANGED call

pop_section ==
    LET i    == countr_zero(top)
        left == top \ {i}
    IN  /\ label = "pop"
        /\ rules' = popped(rules, i)
        /\ path' = Front(path)
        /\ IF left # {} THEN label' = "push" /\ top' = left /\ UNCHANGED stack
           ELSE IF stack = <<>> THEN label' = "idle" /\ top' = {} /\ UNCHANGED stack
           ELSE label' = "pop" /\ top' = Last(stack) /\ stack' = Front(stack)
        /\ UNCHANGED <<call, visited>>

WalkInit ==
    /\ label = "idle"
    /\ call = [total |-> 0, limit |-> 0]
    /\ rules = [total |-> 0, limit |-> 0, counts |-> <<>>]
    /\ stack = <<>> /\ top = {} /\ path = <<>> /\ visited = <<>>

WalkNext ==
    \/ \E total \in Totals, limit \in Limits : iterate(total, limit)
    \/ push_section
    \/ pop_section

WalkSpec == WalkInit /\ [][WalkNext]_walkVars

-----------------------------------------------------------------------------
Occurrences(s, i) == Cardinality({k \in DOMAIN s : s[k] = i})

\* What the rules admit, said without them: no index before all smaller ones.
Admitted ==
    UNION {{s \in [1..n -> Index] :
              /\ Occurrences(s, LimitedIndex) <= call.limit
              /\ \A k \in 1..n : s[k] <= Cardinality({s[j] : j \in 1..(k - 1)})}
           : n \in 1..call.total}

\* A call visits every admitted sequence once and no other, and returns with
\* the rules as they were given: each push has been undone, by the rules' own
\* bookkeeping, in the right order.
WalkIsExact == label = "idle" =>
    /\ ToSet(visited) = Admitted
    /\ Len(visited) = Cardinality(Admitted)
    /\ rules = [total |-> call.total, limit |-> call.limit, counts |-> <<>>]
=============================================================================
