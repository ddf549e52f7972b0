-------------------------- MODULE MCTaskController --------------------------
(* Small instances of TaskController for TLC. *)
EXTENDS TaskController, TLC

Symmetry == Permutations(Tasks) \union Permutations(Sessions)
            \union Permutations(Runners)
=============================================================================
