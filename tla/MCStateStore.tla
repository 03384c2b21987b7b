---------------------------- MODULE MCStateStore ----------------------------
(* Small instances of StateStore for TLC. *)
EXTENDS StateStore, TLC

ValueSymmetry  == Permutations(Procs) \cup Permutations(Values)
=============================================================================
