----------------------------- MODULE MCCopyMulty ---------------------------
(* Small instances of CopyMulty for TLC. *)
EXTENDS CopyMulty, TLC

\* Copy goroutines run the same code, connections are compared for equality.
Symmetry == Permutations(Source) \cup Permutations(Id)
=============================================================================
