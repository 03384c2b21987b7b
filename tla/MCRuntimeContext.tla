--------------------------- MODULE MCRuntimeContext ---------------------------
(* Small instances of RuntimeContext for TLC. *)
EXTENDS RuntimeContext, TLC

CONSTANT t

Implement(owns) == [type |-> "cowork-implement", task |-> t, owns |-> owns]

\* A directory, and a file in it.
Nested == {Implement({<<"lib">>}), Implement({<<"lib", "a">>})}

Symmetric == Permutations(Contexts) \cup Permutations(Keys) \cup Permutations(Procs)
=============================================================================
