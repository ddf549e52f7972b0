---------------------------- MODULE MCTaskStore ----------------------------
(* Small instances of TaskStore for TLC. *)
EXTENDS TaskStore, TLC

Symmetry == Permutations(Tasks) \union Permutations(Threads)
=============================================================================
