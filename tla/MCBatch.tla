------------------------------- MODULE MCBatch -------------------------------
(* Small instances of Batch for TLC. *)
EXTENDS Batch, TLC

CONSTANTS p, x, y

\* A task without children, which is its own leaf.
Single == [root |-> x, order |-> <<x>>, parent |-> [t \in Tasks |-> NoTask]]

\* A parent with two children.
Family == [root |-> p, order |-> <<x, y, p>>,
           parent |-> [t \in Tasks |-> IF t = p THEN NoTask ELSE p]]

Both       == {Single, Family}
FamilyOnly == {Family}
=============================================================================
