-------------------------- MODULE MCTaskHierarchy --------------------------
(* Small instances of TaskHierarchy for TLC. *)
EXTENDS TaskHierarchy, TLC

Symmetry == Permutations(Tasks) \union Permutations(Linkers)
=============================================================================
