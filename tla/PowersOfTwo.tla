---------------------------- MODULE PowersOfTwo ----------------------------
(***************************************************************************)
(* Powers of two as the data structures over complete binary trees use     *)
(* them: sizes of nodes (1 << level) and lengths rounded up.  A recursive  *)
(* function, so that proofs can use its equations.                         *)
(***************************************************************************)
EXTENDS Integers

Pow2[k \in Nat] == IF k = 0 THEN 1 ELSE 2 * Pow2[k - 1]

\* std::bit_width, less one.
Log2(n) == CHOOSE k \in 0..n : Pow2[k] <= n /\ n < Pow2[k + 1]
=============================================================================
