------------------------------- MODULE BumpUp -------------------------------
(***************************************************************************)
(* src/ivl/bump-up-down/bump_up.hpp: a buffer hands out memory from its low *)
(* end; deallocate does nothing, and reset takes everything back.          *)
(***************************************************************************)
EXTENDS Integers

CONSTANTS Memory,  \* address of the buffer, aligned to alignof(max_align_t)
          Size,    \* of the buffer
          Types,   \* [sizeof, alignof] of the types allocators are made for
          Counts   \* lengths of the arrays they are asked for

\* What C++ says of a buffer and of types: sizes and alignments are positive.
ASSUME BufferAssumption ==
    /\ Memory \in Nat /\ Size \in Nat
    /\ Types \subseteq [sizeof : Nat \ {0}, alignof : Nat \ {0}]
    /\ Counts \subseteq Nat

VARIABLES low,    \* BumpUpAllocRange::low; high never moves
          bumped  \* handed out since the last reset: [begin, end, n, align]

bumpVars == <<low, bumped>>

high == Memory + Size

\* Faulty: rounds down.
AlignedDown(address, align) == (address \div align) * align

\* Smallest multiple of align that is not below address.
Aligned(address, align) == ((address - 1) \div align) * align + align

\* bad_alloc, when the guard is false, changes nothing.
allocate(t, n) ==
    LET begin == Aligned(low, t.alignof)
        end   == begin + t.sizeof * n
    IN  /\ begin + t.sizeof <= high
        /\ low' = end
        /\ bumped' = bumped \cup {[begin |-> begin, end |-> end, n |-> n, align |-> t.alignof]}

reset ==
    /\ low' = Memory
    /\ bumped' = {}

BumpInit == low = Memory /\ bumped = {}

BumpNext ==
    \/ \E t \in Types, n \in Counts : allocate(t, n)
    \/ reset

BumpSpec == BumpInit /\ [][BumpNext]_bumpVars

-----------------------------------------------------------------------------
\* Blocks are aligned for their type and no two share a byte.  The capacity
\* check counts one element whatever n is, so an array may end outside of the
\* buffer; then it has two elements or more, its first lies inside, and it is
\* the last block until the next reset.
BlocksAreApart ==
    /\ \A b \in bumped : b.begin % b.align = 0 /\ Memory <= b.begin
    /\ \A b, c \in bumped : b = c \/ b.end <= c.begin \/ c.end <= b.begin
    /\ \A b \in bumped : b.end > high => /\ b.n > 1 /\ b.begin < high
                                         /\ \A c \in bumped : c.begin <= b.begin
=============================================================================
