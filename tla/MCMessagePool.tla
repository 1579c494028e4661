--------------------------- MODULE MCMessagePool ---------------------------
(* Small instances of MessagePool for TLC. *)
EXTENDS MessagePool, TLC

\* Addresses are compared for equality only.
Symmetry == Permutations(Addr)
=============================================================================
