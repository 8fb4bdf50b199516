--------------------------- MODULE MCTaskExecutor ---------------------------
(* TaskExecutor on small instances.                                        *)
EXTENDS TaskExecutor, TLC

CONSTANTS t1, t2, t3, n1, n2, n3

Symmetry == Permutations(Task \ Tiny) \cup Permutations(Name)
=============================================================================
