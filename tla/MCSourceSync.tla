---------------------------- MODULE MCSourceSync ----------------------------
(* SourceSync with two files.                                              *)
EXTENDS SourceSync, TLC

CONSTANTS f1, f2

Symmetry == Permutations(File)
=============================================================================
