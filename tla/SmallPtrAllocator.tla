------------------------- MODULE SmallPtrAllocator -------------------------
(***************************************************************************)
(* src/ivl/alloc/small_ptr_allocator.hpp: one static storage, its first    *)
(* chunks taken by the segment tree itself, large blocks from the tree,    *)
(* small ones from a free list per size that is refilled from the tree.    *)
(* Offsets and sizes are in bytes.  The links of the free lists live in    *)
(* the free blocks; the lists are kept apart from the memory here, which   *)
(* is exact as long as no live block overlaps a free one.                  *)
(***************************************************************************)
EXTENDS Integers, Sequences, FiniteSets, SegmentTree

CONSTANTS ChunkSize,        \* segment_tree_chunk_size; LeafCount chunks are the storage
          MetadataSize,     \* sizeof(segment_tree_type)
          FreeListLimit,    \* free_list_limit
          StealCoef,        \* free_list_steal_coef
          Requests,         \* positive sizes that callers ask for
          MaxBlocks         \* bound on the blocks held at a time

\* The static_assert of line 160, for a storage of whole chunks.
ASSUME AllocatorAssumption ==
    /\ ChunkSize \in Nat \ {0} /\ StealCoef \in Nat \ {0} /\ FreeListLimit \in Nat
    /\ MetadataSize \in Nat \ {0} /\ MetadataSize < LeafCount * ChunkSize
    /\ Requests \subseteq Nat \ {0}
    /\ MaxBlocks \in Nat

VARIABLES chunks,       \* the segment tree
          freeLists,    \* [aligned size -> offsets, the head first]
          blocks,       \* blocks that callers hold: <<offset, requested size>>
          grantedTwice, \* a block was handed out again to callers that hold it
          largeFreed    \* a block larger than FreeListLimit has been deallocated

allocatorVars == <<chunks, freeLists, blocks, grantedTwice, largeFreed>>

chunk_count(n) == (n + ChunkSize - 1) \div ChunkSize

align32(n) == ((n + 3) \div 4) * 4

\* Faulty: forgets to take the chunks of the tree itself.
initialize_segment_treeEmpty == Fresh(TRUE)

initialize_segment_tree == AfterTake(Fresh(TRUE), chunk_count(MetadataSize))

\* A stolen block is cut from its low end; each piece is pushed on the list.
Pieces(n, offset) == [i \in 1..StealCoef |-> offset + n * (StealCoef - i)]

\* Every size that is not positive would find offset 0, where the tree lives.
SmallSizes == {align32(n) : n \in Requests} \cap 1..FreeListLimit

Grant(block) ==
    /\ blocks' = blocks \cup {block}
    /\ grantedTwice' = (grantedTwice \/ block \in blocks)

free_list_allocate(n, size) ==
    LET refill == freeLists[n] = <<>>
        bytes  == n * StealCoef
        list   == IF refill THEN Pieces(n, TakeAt(chunks, chunk_count(bytes)) * ChunkSize)
                            ELSE freeLists[n]
    IN  /\ refill => Fits(chunks, chunk_count(bytes))  \* else bad_alloc
        /\ chunks' = IF refill THEN AfterTake(chunks, chunk_count(bytes)) ELSE chunks
        /\ freeLists' = [freeLists EXCEPT ![n] = Tail(list)]
        /\ Grant(<<Head(list), size>>)

segment_tree_allocate(n, size) ==
    /\ Fits(chunks, chunk_count(n))  \* else bad_alloc
    /\ chunks' = AfterTake(chunks, chunk_count(n))
    /\ Grant(<<TakeAt(chunks, chunk_count(n)) * ChunkSize, size>>)
    /\ UNCHANGED freeLists

allocate_bytes(size) ==
    /\ Cardinality(blocks) < MaxBlocks
    /\ IF align32(size) <= FreeListLimit THEN free_list_allocate(align32(size), size)
                                         ELSE segment_tree_allocate(align32(size), size)
    /\ UNCHANGED largeFreed

free_list_deallocate(b) ==
    /\ freeLists' = [freeLists EXCEPT ![align32(b[2])] = <<b[1]>> \o @]
    /\ UNCHANGED <<chunks, largeFreed>>

\* give(x, chunk_count(n)): the place is passed as the length and the length as
\* the place, so that another range is freed than was taken.
segment_tree_deallocate(b) ==
    /\ chunks' = AfterGive(TRUE, chunks, b[1] \div ChunkSize, chunk_count(align32(b[2])))
    /\ largeFreed' = TRUE
    /\ UNCHANGED freeLists

deallocate_bytes(b) ==
    /\ blocks' = blocks \ {b} /\ UNCHANGED grantedTwice
    /\ IF align32(b[2]) <= FreeListLimit THEN free_list_deallocate(b) ELSE segment_tree_deallocate(b)

AllocatorInit ==
    /\ chunks = initialize_segment_tree
    /\ freeLists = [n \in SmallSizes |-> <<>>]
    /\ blocks = {} /\ grantedTwice = FALSE
    /\ largeFreed = FALSE

\* What follows a shared range is undefined, and not modelled.
AllocatorNext ==
    /\ ~largeFreed
    /\ \/ \E size \in Requests : allocate_bytes(size)
       \/ \E b \in blocks : deallocate_bytes(b)

AllocatorSpec == AllocatorInit /\ [][AllocatorNext]_allocatorVars

-----------------------------------------------------------------------------
\* What is on the free lists: entry i of list n is a block of n bytes.
Entries == UNION {{<<n, i>> : i \in DOMAIN freeLists[n]} : n \in SmallSizes}

Free(e) == <<freeLists[e[1]][e[2]], e[1]>>

\* Until a large block is deallocated (which frees a wrong range), no block is
\* handed out while a caller holds it, and no byte belongs to two of the blocks, the free lists and the tree: also not when
\* lists are refilled while the tree is nearly full, and blocks come back in any
\* order; no free block is on two lists or twice on one; and all lie within the
\* storage.
MemoryIsNotShared == ~largeFreed =>
    /\ ~grantedTwice
    /\ \A a, b \in blocks : a # b => Disjoint(a, b)
    /\ \A d, e \in Entries : d # e => Disjoint(Free(d), Free(e))
    /\ \A a \in blocks, e \in Entries : Disjoint(a, Free(e))
    /\ \A a \in blocks \cup {Free(e) : e \in Entries} :
         MetadataSize <= a[1] /\ a[1] + a[2] <= LeafCount * ChunkSize
=============================================================================
