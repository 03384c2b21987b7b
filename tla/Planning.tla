-------------------------------- MODULE Planning --------------------------------
(***************************************************************************)
(* The planning documents of a task and what is asked of them: the plan    *)
(* (plan_schema.py, plan_binding.py, plan_readiness.py, plan_scaffold.py), *)
(* decision-anchor.md (decision_anchor_schema.py, task_gate_profiles.py),  *)
(* implement.jsonl (task_context.py, context_jsonl.py, context_paths.py)   *)
(* and evidence.jsonl (ac_evidence.py).  Pure operators.                   *)
(*                                                                         *)
(* A document is what the checks read out of it; a digest is the document  *)
(* itself.  A text is a sequence of words, Blank an angle-bracket          *)
(* placeholder among them.  docs holds what is on disk:                    *)
(*   plans     the plan files                                              *)
(*   anchor    decision-anchor.md                                          *)
(*   indexed   whether implement.jsonl has anything in it                  *)
(*   entries   its entries (check.jsonl and debug.jsonl are as generated)  *)
(***************************************************************************)
EXTENDS Naturals, Sequences, SequencesExt

Blank == "<...>"

\* A document that is missing or empty.
NoDocument == [written |-> FALSE]

\* _has_concrete_text
Concrete(text) == \E i \in DOMAIN text : text[i] # Blank

-----------------------------------------------------------------------------
(* The plan: its title, headings and task prefixes are those of the        *)
(* language (shaped), its spec check has a result (checked), its goal and  *)
(* acceptance rows, whether its other sections hold more than the          *)
(* template, and the fields filled in of each of its tasks.                *)

TinyTaskFields == {"boundaries", "command", "completion"}
TaskFields     == TinyTaskFields \cup {"brief"}

\* The template with a title, as `plan new` writes it.
Skeleton ==
    [written |-> TRUE, shaped |-> TRUE, checked |-> FALSE, goal |-> <<Blank>>,
     rows |-> <<[id |-> "AC-001", text |-> <<Blank>>]>>, filled |-> FALSE, tasks |-> {{}}]

\* plan_template_blockers
PlanShaped(plan) == plan.shaped /\ plan.checked

\* _plan_content_blockers
PlanSays(plan) ==
    /\ Concrete(plan.goal)
    /\ plan.rows # <<>> /\ \A i \in DOMAIN plan.rows : Concrete(plan.rows[i].text)

\* _plan_structure_blockers, _task_block_blockers
PlanFilled(plan, light) ==
    /\ plan.filled /\ plan.tasks # {}
    /\ \A fields \in plan.tasks : (IF light THEN TinyTaskFields ELSE TaskFields) \subseteq fields

-----------------------------------------------------------------------------
(* The anchor: the sections it has, whether the verification section of    *)
(* the language has a spec check with a result, its goal, its acceptance   *)
(* rows, and whether other list items are among them (strayed).            *)

RequiredSections == {"goal", "acceptance"}

\* _decision_anchor_section_blockers, _anchor_blockers
AnchorSectioned(anchor) == RequiredSections \subseteq anchor.sections

\* acceptance_row_blockers
AnchorRowed(anchor) ==
    /\ anchor.rows # <<>> /\ ~anchor.strayed
    /\ \A i, j \in DOMAIN anchor.rows : anchor.rows[i].id = anchor.rows[j].id => i = j

\* _anchor_spec_check_blockers of both modules
AnchorChecked(anchor) == anchor.checked

\* _acceptance_sync_blockers
RowsAgree(plan, anchor) ==
    /\ Len(plan.rows) = Len(anchor.rows)
    /\ \A i \in DOMAIN plan.rows : /\ plan.rows[i].id = anchor.rows[i].id
                                   /\ plan.rows[i].text = anchor.rows[i].text

\* _goal_sync_blockers: the anchor may stop before the plan does.
GoalsAgree(plan, anchor) == anchor.goal # <<>> /\ IsPrefix(anchor.goal, plan.goal)

\* _generate_anchor
Scaffold(plan) ==
    [written |-> TRUE, sections |-> RequiredSections, checked |-> FALSE, strayed |-> FALSE,
     goal |-> IF plan.written /\ plan.goal # <<>> THEN plan.goal ELSE <<Blank>>,
     rows |-> IF plan.written /\ plan.rows # <<>>
              THEN [i \in DOMAIN plan.rows |-> [id |-> plan.rows[i].id, text |-> plan.rows[i].text,
                                                checked |-> FALSE]]
              ELSE <<>>]

\* parse_decision_anchor: what a review is a judgment about.
Decision(anchor) ==
    IF anchor.written
    THEN [goal |-> anchor.goal, rows |-> [i \in DOMAIN anchor.rows |-> anchor.rows[i].text]]
    ELSE [goal |-> <<>>, rows |-> <<>>]

-----------------------------------------------------------------------------
(* implement.jsonl: of an entry its type and path, where the path leads    *)
(* ("task", "repository", "skill", "outside") and what is there ("file",   *)
(* "directory", "missing").                                                *)

EntryTypes == {"file", "directory", "planned-file", "deleted-file"}

Entries(paths) ==
    [type : EntryTypes \cup {"broken"}, path : paths,
     where : {"task", "repository", "skill", "outside"}, target : {"file", "directory", "missing"}]

\* A line that does not parse is as good as an entry of no type:
\* read_context_jsonl_entries.
Broken == [type |-> "broken", path |-> "line", where |-> "repository", target |-> "missing"]

\* What everyone has to read, implement_spec_entries.
SpecEntries ==
    {[type |-> "file", path |-> "AGENTS.md", where |-> "repository", target |-> "file"],
     [type |-> "file", path |-> "SKILL.md", where |-> "skill", target |-> "missing"]}

\* normalize_context_path
Canonical(e) == e.type \in EntryTypes /\ e.where # "outside"

\* _validate_context_entry_target
OnTarget(e) ==
    IF e.type \in {"planned-file", "deleted-file"} THEN e.target # "directory"
    ELSE e.target = e.type

\* validate_context_entry
EntryHeld(e) == Canonical(e) /\ (e.where = "skill" \/ OnTarget(e))

\* validation_issue_summaries
IndexHeld(docs) == \A e \in docs.entries : EntryHeld(e)

\* ensure_task_artifact_placeholders.  (The path of a directory ends in a
\* slash, which it refuses.)
Placeheld(e) ==
    IF e.type \notin {"planned-file", "directory"} /\ e.where = "task" /\ e.target = "missing"
    THEN [e EXCEPT !.target = "file"] ELSE e

WithPlaceholders(docs) == [docs EXCEPT !.entries = {Placeheld(e) : e \in @}]

\* _load_allowed_context_files, normalize_context_file_scope_entry: "Directory
\* entries are valid context, but they do not authorize arbitrary changed files".
Scope(docs) == {e.path : e \in {x \in docs.entries : x.type # "directory"}}

\* The text of the file.
Index(docs) == {<<e.type, e.path>> : e \in docs.entries}

-----------------------------------------------------------------------------
(* The acceptance rows of the anchor against the records of evidence.jsonl. *)

\* load_acceptance_criteria
Criteria(docs) == IF docs.anchor.written THEN ToSet(docs.anchor.rows) ELSE {}

\* read_evidence, _valid_record: noise is skipped.
ValidRecords(evidence) == {r \in evidence : r.kind \in {"test", "command", "manual"}}

Unchecked(docs) == {c.id : c \in {x \in Criteria(docs) : ~x.checked}}

\* evidence_coverage, of the rows that are checked.
Unproven(docs, evidence) ==
    {c.id : c \in Criteria(docs)} \ ({r.ac : r \in ValidRecords(evidence)} \cup Unchecked(docs))

-----------------------------------------------------------------------------
(* What a plan has to be to be reviewed, and a task to be started.  task   *)
(* has the plan file that is bound, its dev type and the snapshot that     *)
(* finalize left.                                                          *)

\* plan_file_blockers
PlanBound(docs, task) == task.plan \in DOMAIN docs.plans /\ docs.plans[task.plan].written

\* _plan_path
Plan(docs, task) == docs.plans[task.plan]

\* dev_type_blocker
TypeDeclared(task, light) == light \/ task.type # "none"

\* _anchor_artifact_blockers
ArtifactsReady(docs, task, light) ==
    LET plan == Plan(docs, task)
        anchor == docs.anchor
    IN /\ anchor.written
       /\ AnchorSectioned(anchor) /\ AnchorChecked(anchor) /\ AnchorRowed(anchor)
       /\ RowsAgree(plan, anchor) /\ GoalsAgree(plan, anchor)
       /\ docs.indexed
       /\ TypeDeclared(task, light)

\* plan_readiness_blockers
PlanReady(docs, task, light) ==
    /\ task.status = "planning"
    /\ PlanBound(docs, task)
    /\ LET plan == Plan(docs, task)
       IN PlanShaped(plan) /\ PlanSays(plan) /\ PlanFilled(plan, light)
    /\ ArtifactsReady(docs, task, light)

\* The digests of a snapshot, PlanReadinessService.finalize.
Digests(docs, task) ==
    [written |-> TRUE, plan |-> Plan(docs, task), anchor |-> docs.anchor, type |-> task.type]

MutantSnapshotHeld(docs, task) ==
    /\ task.approved.written
    /\ task.plan \in DOMAIN docs.plans
    /\ task.approved.plan = Plan(docs, task)
    /\ task.approved.type = task.type

\* plan_ready_snapshot_blockers, for a task that has to have a snapshot.
SnapshotHeld(docs, task) ==
    /\ task.approved.written
    /\ task.plan \in DOMAIN docs.plans
    /\ task.approved.plan = Plan(docs, task) /\ task.approved.anchor = docs.anchor
    /\ task.approved.type = task.type

\* TaskContextService.start_blockers
StartReady(docs, task, strict, light) ==
    LET anchor == docs.anchor
    IN /\ anchor.written /\ AnchorSectioned(anchor)
       /\ strict => AnchorRowed(anchor)
       /\ strict /\ ~light => AnchorChecked(anchor)
       /\ docs.indexed
       /\ ~light => PlanBound(docs, task)
       /\ strict /\ ~light => PlanShaped(Plan(docs, task)) /\ SnapshotHeld(docs, task)
       /\ strict => TypeDeclared(task, light)

=============================================================================
