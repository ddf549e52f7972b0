--------------------------- MODULE MCSessionFile ---------------------------
(* Small instances of SessionFile for TLC. *)
EXTENDS SessionFile, TLC

Symmetry == Permutations(Procs)
=============================================================================
