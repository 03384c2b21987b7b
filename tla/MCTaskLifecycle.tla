---------------------------- MODULE MCTaskLifecycle ----------------------------
(* Small instances of TaskLifecycle for TLC. *)
EXTENDS TaskLifecycle

CONSTANTS p1, p2, k1, k2, text

\* "g" is committed and may become "f", which is not there yet, or is staged.
Clean  == [f \in Files |-> IF f = "g" THEN text ELSE Absent]
Staged == [f \in Files |-> text]

Clones == {[head |-> Clean, index |-> tree, work |-> tree] : tree \in {Clean, Staged}}

Moved == {<<"g", "f">>}

\* One process with a session, one without an identity but for a label.
OneSession == [p \in Procs |-> IF p = p1 THEN k1 ELSE NoKey]

Labelled == [p \in Procs |-> IF p = p1 THEN {} ELSE {k2}]

\* No record for the acceptance row but one of no kind.
Noise == {{[ac |-> "AC-001", kind |-> "hunch"]}}

GoodPlan ==
    [written |-> TRUE, shaped |-> TRUE, checked |-> TRUE, goal |-> <<"goal">>,
     rows |-> <<[id |-> "AC-001", text |-> <<"row">>]>>, filled |-> TRUE, tasks |-> {TaskFields}]

Plans == {GoodPlan}

\* Anchors that hold: one that agrees with the plan, one that does not.
Anchor(row) ==
    [Scaffold(GoodPlan) EXCEPT !.checked = TRUE,
                               !.rows = <<[id |-> "AC-001", text |-> <<row>>, checked |-> TRUE]>>]

Anchors == {Anchor("row"), Anchor("other")}

\* An index that a placeholder mends, and one it does not.
Entry(type, path, where) == [type |-> type, path |-> path, where |-> where, target |-> "missing"]

Indexes == {{Entry("file", "notes.md", "task"), Entry("planned-file", "f", "repository")},
            {Entry("file", "gone.py", "repository"), Broken}}

\* A task created before its plan is written.
Beginning ==
    [plan |-> "none", type |-> "none",
     docs |-> [plans |-> [f \in PlanFiles |-> NoDocument], anchor |-> Scaffold(NoDocument),
               indexed |-> FALSE, entries |-> {}]]

Beginnings == {Beginning}

=============================================================================
