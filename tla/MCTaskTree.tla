------------------------------ MODULE MCTaskTree ------------------------------
(* Instances of TaskTree for TLC. *)
EXTENDS TaskTree, TLC

Symmetry == Permutations(Names) \cup Permutations(Procs)
=============================================================================
