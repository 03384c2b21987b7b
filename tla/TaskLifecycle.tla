----------------------------- MODULE TaskLifecycle -----------------------------
(***************************************************************************)
(* services/task_lifecycle.py with its gates (lifecycle_checks.py,         *)
(* lifecycle_policy.py, review_receipt.py, git_snapshot.py) and the        *)
(* commands of `task next --run` and `plan` in front of it, for one task.  *)
(* What is asked of its planning documents is in Planning.                 *)
(*                                                                         *)
(* A command routes on the status it finds, loads the task, passes its     *)
(* gates, and commits in a unit of work that wants the task as it was      *)
(* loaded.  Meanwhile other commands run, the working tree is edited and   *)
(* committed, history is rewritten, and a checker reports.  A gate reads   *)
(* its facts in one step.  A unit of work is atomic, or fails.  The plan   *)
(* commands save without one: what they loaded may be old.                 *)
(***************************************************************************)
EXTENDS Naturals, Sequences, FiniteSets, SequencesExt, WorkflowRoute, Planning

CONSTANTS
    Procs,        \* processes that run commands
    Planners,     \* those that run plan commands
    Keys,         \* executor identities: context keys and --executor labels
    Labels,       \* of each process: the --executor labels it is given
    NoKey,        \* no identity
    Intents,      \* intents the commands are given
    Ambient,      \* of each process: the identity its environment resolves to
    Shared,       \* identities that are only a process label
    Files,        \* files of the repository, none of which git ignores
    Texts,        \* what a file may contain
    Absent,       \* no file
    Checkouts,    \* what the task may begin on: [head, index, work]
    Renames,      \* pairs of files: if the first one goes and the second one comes,
                  \*   git takes it for the same file under a new name
    Protected,    \* workflow and spec files
    Ledgers,      \* what evidence.jsonl may come to: sets of [ac, kind]
    Profiles,     \* gate profiles of the task: "strict", "light", "legacy"
    PlanFiles,    \* paths below .cowork-flow/plans
    DevTypes,     \* dev types
    PlanDrafts,   \* plans an author writes
    AnchorDrafts, \* anchors an author writes
    IndexDrafts,  \* entries of an implement.jsonl an author writes
    Created,      \* what a creation leaves: [docs, plan, type]
    MaxMoves,     \* bound: edits, commits and other changes of the world after the start
    MaxReceipts   \* bound: review receipts

ASSUME KeyAssumption ==
    /\ Planners \subseteq Procs
    /\ NoKey \notin Keys /\ Shared \subseteq Keys
    /\ Ambient \in [Procs -> Keys \cup {NoKey}] /\ Labels \in [Procs -> SUBSET Keys]

ASSUME IntentAssumption == Intents \subseteq UserIntents

ASSUME FileAssumption == Protected \subseteq Files

\* The tree of a commit, the index and the working tree.
FileTrees == [Files -> Texts \cup {Absent}]

\* A new file has been one old file at most.
ASSUME TreeAssumption ==
    /\ Absent \notin Texts
    /\ Checkouts \subseteq [head : FileTrees, index : FileTrees, work : FileTrees]
    /\ Renames \subseteq Files \X Files
    /\ \A r, s \in Renames : r[2] = s[2] => r = s

ASSUME BoundAssumption == MaxMoves \in Nat /\ MaxReceipts \in Nat

ASSUME ProfileAssumption == Profiles \subseteq {"strict", "light", "legacy"}

\* What may be on disk.
PlanTexts == PlanDrafts \cup {NoDocument, Skeleton}

AnchorTexts == AnchorDrafts \cup {NoDocument} \cup {Scaffold(plan) : plan \in PlanTexts}

Paths == Files \cup {e.path : e \in SpecEntries \cup UNION IndexDrafts}

Documents ==
    [plans : [PlanFiles -> PlanTexts], anchor : AnchorTexts, indexed : BOOLEAN,
     entries : SUBSET Entries(Paths)]

ASSUME DocumentAssumption ==
    /\ "none" \notin PlanFiles \cup DevTypes
    /\ \A entries \in IndexDrafts : entries \subseteq Entries(Paths)
    /\ Created \subseteq [docs : Documents, plan : PlanFiles \cup {"none"},
                         type : DevTypes \cup {"none"}]

VARIABLES
    profile,    \* what the task was created as
    task,       \* task.json
    session,    \* of each key: what its session file says
    breadcrumb, \* state-snapshot.json: the status it shows
    docs,       \* the planning documents, see Planning
    settled,    \* the dependencies of the task are completed
    history,    \* the commits: the tree of each
    lost,       \* commits a rewrite of history has orphaned
    index,      \* the tree that is staged
    work,       \* the working tree
    evidence,   \* evidence.jsonl
    receipts,   \* review.jsonl
    checker,    \* the runtime context of the checker: [status, bound], and the
                \*   fingerprint it has noted to report on
    moves,      \* changes of the world so far, after the start
    call        \* of each process: the command it is in

world == <<profile, settled, history, lost, index, work, evidence, receipts, checker, moves>>
vars  == <<task, session, breadcrumb, docs, world, call>>

Idle == [phase |-> "idle"]

-----------------------------------------------------------------------------
(* What git says.                                                          *)

\* current_head
HEAD == Len(history)

Differing(a, b) == {f \in Files : a[f] # b[f]}

\* Of a file that goes under a new name between two trees, `git diff` and
\* `git status` name the old path not at all, or before an arrow that
\* _parse_status_line cuts off.
RenamedAway(a, b) ==
    {r[1] : r \in {s \in Renames : /\ a[s[1]] # Absent /\ b[s[1]] = Absent
                                   /\ a[s[2]] = Absent /\ b[s[2]] # Absent}}

Reported(a, b) == Differing(a, b) \ RenamedAway(a, b)

\* collect_changed_files: what is staged and what is not.
Dirty == Reported(history[HEAD], index) \cup Differing(index, work)

\* collect_changed_paths_since: without a baseline, or when the diff fails,
\* only the working tree.
Degraded(base) == base = 0 \/ base \in lost

MutantChanged(base) == Dirty

Changed(base) ==
    Dirty \cup (IF Degraded(base) THEN {} ELSE Reported(history[base], history[HEAD]))

-----------------------------------------------------------------------------
(* The gates of review and completion.                                     *)

\* compute_change_fingerprint: the content of what has changed, and of
\* everything else a review is a judgment about.
Fingerprint ==
    <<[f \in Changed(task.base) |-> work[f]], Index(docs),
      [anchor |-> Decision(docs.anchor),
       plan |-> IF task.plan = "none" THEN NoDocument ELSE Plan(docs, task),
       type |-> task.type]>>

\* resolve_gate_profile, is_light_task
Strict == profile # "legacy"
Light  == profile = "light"

\* is_main_session: a session file that is not there counts as one.
MainSession(p) == Ambient[p] # NoKey /\ session[Ambient[p]] # "subagent"

\* _protected_workflow_file_issues, under resolve_execution_policy
SpecFilesHeld(p) == ~MainSession(p) => Changed(task.base) \cap Protected = {}

\* _allowed_file_scope_issues; a bad entry or an empty scope is an issue.
ScopeHeld ==
    /\ \A e \in docs.entries : Canonical(e)
    /\ Scope(docs) # {} /\ Changed(task.base) \subseteq Scope(docs)

\* _review_completion_issues
ReviewGate(p) ==
    /\ ~(Degraded(task.base) /\ task.base # 0)        \* GIT-SNAPSHOT-DEGRADED
    /\ SpecFilesHeld(p)
    /\ ScopeHeld

\* receipt_binding_issue: the context it names is there and was bound.
Backed(r) == r.by = "checker" /\ checker.status # "none" /\ checker.bound

MutantReceiptGate ==
    Strict /\ ~Light =>
        \E r \in ToSet(receipts) : r.result = "pass" /\ Backed(r)

\* _review_receipt_completion_issues: the latest receipt decides.
ReceiptGate ==
    Strict /\ ~Light =>
        /\ receipts # <<>>
        /\ Last(receipts).result = "pass"
        /\ Last(receipts).print = Fingerprint
        /\ Backed(Last(receipts))

\* _ac_evidence_completion_facts
EvidenceGate(allow) ==
    IF Criteria(docs) = {} THEN ~Strict
    ELSE Light \/ (Unchecked(docs) = {} /\ (Unproven(docs, evidence) = {} \/ allow))

\* The exemption that is recorded with the completion.
Exemption(allow) ==
    allow /\ Criteria(docs) # {} /\ ~Light /\ Unproven(docs, evidence) # {}

-----------------------------------------------------------------------------
(* Commands.                                                               *)

\* is_delegated_session
Delegated(p) == Ambient[p] # NoKey /\ session[Ambient[p]] = "subagent"

\* _resolve_executor: the label, or else the environment's identity.
Identity(p, label) == IF label # NoKey THEN label ELSE Ambient[p]

Calm == UNCHANGED <<task, session, breadcrumb, docs, world>>

\* start_blockers, task_readiness_blockers (none is shipped) and
\* dependency_blockers
Ready == StartReady(docs, task, Strict, Light) /\ settled

\* _next_payload_for_run: the blockers of a planning task.
Blockers == IF task.status = "planning" /\ ~Ready THEN {"readiness"} ELSE {}

Context(p) == IF Delegated(p) THEN "delegated" ELSE "main"

\* cmd_next, _validated_next_action: the action the route lets a process run.
Routed(p, intent, id) ==
    /\ call[p] = Idle /\ ~Delegated(p)
    /\ Route(task.status, intent, Context(p), Blockers, TRUE) = [id |-> id, runnable |-> TRUE]

\* What is loaded goes with the command: it must still be there at the end.
Load(p, phase, id, label) ==
    call' = [call EXCEPT ![p] = [phase |-> phase, id |-> id, label |-> label, snap |-> task,
                                     fresh |-> TRUE]]

\* A start.  Its --executor label and whether it has --takeover are looked at
\* when it loads the task.
EnterStart(p, intent) ==
    /\ Routed(p, intent, "start_task")
    /\ call' = [call EXCEPT ![p] = [phase |-> "routed"]] /\ Calm

\* _apply_takeover_on_idempotent
TakesOver(who, takeover) == takeover /\ task.owner \notin {NoKey, who} /\ who # NoKey

\* A start that finds the task started does not write, but to take it over:
\* _early_idempotent_result, before any guard.
LoadStarted(p, label, takeover) ==
    LET who == Identity(p, label)
    IN /\ call[p].phase = "routed" /\ task.status = "in_progress"
       /\ IF TakesOver(who, takeover)
          THEN Load(p, "seize", "start_task", label)
          ELSE call' = [call EXCEPT ![p] = Idle]
       /\ Calm

\* _validate_context_entry_target looks for a file of the repository where it is.
Found(written) ==
    LET There(e) ==
            IF e.where = "repository" /\ e.path \in Files
            THEN [e EXCEPT !.target = IF work[e.path] = Absent THEN "missing" ELSE "file"]
            ELSE e
    IN [written EXCEPT !.entries = {There(e) : e \in @}]

\* start_readiness_failure: once the documents are there, an entry that does
\* not hold has the placeholders written, whether or not that helps.
Repaired ==
    IF StartReady(docs, task, Strict, Light) /\ ~IndexHeld(Found(docs))
    THEN WithPlaceholders(docs) ELSE docs

\* _run_preflight and _validate_transition, once the index is repaired
Startable(repaired) ==
    Ready /\ IndexHeld(Found(repaired)) /\ TransitionAllowed(task.status, "in_progress")

\* _check_executor
MayOwn(who, takeover) == task.owner \in {NoKey, who} \/ takeover

\* _prepare_transition, _mutation_guard
LoadStart(p, label, takeover) ==
    LET who == Identity(p, label)
    IN /\ call[p].phase = "routed" /\ task.status # "in_progress"
       /\ docs' = Repaired
       /\ IF /\ Startable(docs') /\ ~Delegated(p) /\ MayOwn(who, takeover)
             /\ who # NoKey                            \* LIFECYCLE-CONTEXT-001
          THEN Load(p, "commit", "start_task", label)
          ELSE call' = [call EXCEPT ![p] = Idle]
       /\ UNCHANGED <<task, session, breadcrumb, world>>

\* The task is as it was loaded when a review or a completion commits, so the
\* load and the gates are one step: execute with its _run_stage_checks.
CheckReview(p, intent) ==
    /\ Routed(p, intent, "request_review") /\ TransitionAllowed(task.status, "review")
    /\ ReviewGate(p)
    /\ Load(p, "commit", "request_review", NoKey) /\ Calm

CheckComplete(p, intent, allow) ==
    /\ Routed(p, intent, "complete_task") /\ TransitionAllowed(task.status, "completed")
    /\ ReviewGate(p) /\ ReceiptGate /\ EvidenceGate(allow)
    /\ call' = [call EXCEPT ![p] =
           [phase |-> "commit", id |-> "complete_task", snap |-> task,
            exempt |-> Exemption(allow), fresh |-> TRUE]]
    /\ Calm

\* _persisted_task_data: the baseline is recorded once.
Persisted(p) ==
    LET c == call[p]
    IN CASE c.id = "start_task" ->
              [c.snap EXCEPT !.status = "in_progress", !.owner = Identity(p, c.label),
                             !.base = IF @ = 0 THEN HEAD ELSE @]
         [] c.id = "request_review" -> [c.snap EXCEPT !.status = "review"]
         [] c.id = "complete_task"  -> [c.snap EXCEPT !.status = "completed", !.exempt = @ \/ c.exempt]

\* _build_session_state: a start with an explicit executor has no session.
Opened(p) ==
    LET c == call[p]
    IN IF c.id = "start_task" /\ c.label = NoKey THEN [session EXCEPT ![Ambient[p]] = "main"]
       ELSE session

\* _commit_transition: the task must be what was loaded.
Commit(p) ==
    LET c == call[p]
    IN /\ c.phase = "commit" /\ task = c.snap
       /\ task' = Persisted(p)
       /\ breadcrumb' = task'.status
       /\ session' = Opened(p)
       /\ call' = [call EXCEPT ![p] = Idle]
       /\ UNCHANGED <<docs, world>>

\* _takeover_snapshot and _write_takeover of a start
Seize(p) ==
    /\ call[p].phase = "seize" /\ task = call[p].snap
    /\ task' = [task EXCEPT !.owner = Identity(p, call[p].label)]
    /\ call' = [call EXCEPT ![p] = Idle]
    /\ UNCHANGED <<session, breadcrumb, docs, world>>

\* _adopt_gate: an active task of somebody else, and an identity of one's own.
MayAdopt(p, label) ==
    LET who == Identity(p, label)
    IN /\ ~Delegated(p) /\ task.status \in {"in_progress", "review"}
       /\ task.owner # NoKey /\ who \notin {NoKey, task.owner}
       /\ label = NoKey => Ambient[p] \notin Shared

\* _run_adopt_action
EnterAdopt(p, label) ==
    /\ call[p] = Idle /\ MayAdopt(p, label)
    /\ Load(p, "adopt", "adopt", label) /\ Calm

MutantAdopt(p) ==
    /\ call[p].phase = "adopt"
    /\ task' = [call[p].snap EXCEPT !.owner = Identity(p, call[p].label),
                                    !.previous = call[p].snap.owner, !.base = HEAD]
    /\ call' = [call EXCEPT ![p] = [phase |-> "bind"]]
    /\ UNCHANGED <<session, breadcrumb, docs, world>>

\* adopt: the review window starts again at HEAD.  There is a session to bind
\* only for an identity of the environment.
Adopt(p) ==
    /\ call[p].phase = "adopt" /\ task = call[p].snap
    /\ task' = [task EXCEPT !.owner = Identity(p, call[p].label),
                            !.previous = task.owner, !.base = HEAD]
    /\ call' = [call EXCEPT ![p] = IF Ambient[p] = NoKey THEN Idle ELSE [phase |-> "bind"]]
    /\ UNCHANGED <<session, breadcrumb, docs, world>>

\* cmd_adopt: set_active_task, after the task is written.
BindAdopter(p) ==
    /\ call[p].phase = "bind"
    /\ session' = [session EXCEPT ![Ambient[p]] = "main"]
    /\ call' = [call EXCEPT ![p] = Idle]
    /\ UNCHANGED <<task, breadcrumb, docs, world>>

\* LIFECYCLE-UOW-001: the task has changed, or the unit of work fails.
CommitFails(p) ==
    /\ call[p].phase \in {"commit", "seize", "adopt"}
    /\ call' = [call EXCEPT ![p] = Idle] /\ Calm

-----------------------------------------------------------------------------
(* The plan commands.  They load the task, and later save what they change *)
(* of it into the task there is then, with all of meta as they had it      *)
(* (TaskRepository.save: "Merge").                                         *)

\* meta is replaced as a whole.
WithMeta(meta) ==
    [task EXCEPT !.base = meta.base, !.previous = meta.previous, !.exempt = meta.exempt,
                 !.plan = meta.plan, !.approved = meta.approved]

Planned == task.status # "planning"

\* _run_plan_bind_action behind _validated_next_action: a plan file, a dev
\* type or both for a task that has planning to do, whoever asks.
EnterPlan(p, intent) ==
    /\ call[p] = Idle
    /\ Route(task.status, intent, Context(p), Blockers, TRUE).id = "edit_planning_artifacts"
    /\ call' = [call EXCEPT ![p] = [phase |-> "plan"]] /\ Calm

\* bind_task_plan: bind_plan_file, and the load of the task.
LoadBind(p, file) ==
    /\ call[p].phase = "plan" /\ docs.plans[file].written
    /\ call' = [call EXCEPT ![p] = [phase |-> "loaded", file |-> file, snap |-> task]]
    /\ Calm

\* bind_task_plan: the save.  If there is a dev type too, it is next.
SaveBind(p, typed) ==
    LET c == call[p]
    IN /\ c.phase = "loaded"
       /\ task' = WithMeta([c.snap EXCEPT !.plan = c.file])
       /\ call' = [call EXCEPT ![p] = IF typed /\ ~Planned THEN [phase |-> "typed"] ELSE Idle]
       /\ UNCHANGED <<session, breadcrumb, docs, world>>

\* set_task_dev_type: the save.  "Only a planning task is writable", but the
\* status is read before.  One that is refused when its turn comes is as one
\* whose save fails.
SaveType(p, type) ==
    /\ call[p].phase \in {"plan", "typed"}
    /\ task' = [task EXCEPT !.type = type]
    /\ call' = [call EXCEPT ![p] = Idle]
    /\ UNCHANGED <<session, breadcrumb, docs, world>>

\* PlanReadinessService.finalize: the load and the checks.
CheckPlan(p) ==
    /\ call[p] = Idle /\ PlanReady(docs, task, Light)
    /\ call' = [call EXCEPT ![p] = [phase |-> "ready", snap |-> task,
                                     seen |-> Digests(docs, task)]]
    /\ Calm

\* finalize: the digests and the save.  checked tells, for the properties,
\* whether the digests are of what was checked.
Approve(p) ==
    LET c == call[p]
        digests == Digests(docs, c.snap)
    IN /\ c.phase = "ready"
       /\ task' = WithMeta([c.snap EXCEPT !.approved =
                               [written |-> TRUE, plan |-> digests.plan,
                                anchor |-> digests.anchor, type |-> digests.type,
                                checked |-> digests = c.seen]])
       /\ call' = [call EXCEPT ![p] = Idle]
       /\ UNCHANGED <<session, breadcrumb, docs, world>>

\* No plan file at that path, TASK-CREATE-DEVTYPE-002, TASK-SAVE-001, -002
SaveFails(p) ==
    /\ call[p].phase \in {"plan", "loaded", "typed", "ready"}
    /\ call' = [call EXCEPT ![p] = Idle] /\ Calm

PlanCommand(p) ==
    \/ \E intent \in Intents : EnterPlan(p, intent)
    \/ \E file \in PlanFiles : LoadBind(p, file)
    \/ \E typed \in BOOLEAN : SaveBind(p, typed)
    \/ \E type \in DevTypes : SaveType(p, type)
    \/ CheckPlan(p) \/ Approve(p) \/ SaveFails(p)

-----------------------------------------------------------------------------

Command(p) ==
    \/ \E intent \in Intents :
           \/ EnterStart(p, intent) \/ CheckReview(p, intent)
           \/ \E allow \in BOOLEAN : CheckComplete(p, intent, allow)
    \/ \E label \in Labels[p] \cup {NoKey} :
           \/ \E takeover \in BOOLEAN : LoadStarted(p, label, takeover) \/ LoadStart(p, label, takeover)
           \/ EnterAdopt(p, label)
    \/ Commit(p) \/ Seize(p) \/ Adopt(p) \/ BindAdopter(p) \/ CommitFails(p)

-----------------------------------------------------------------------------
(* The world.  What a command has checked is no longer fresh.  Before the  *)
(* start the documents are written; after it, and while it is at work, the *)
(* tree is edited too, and checked while it is in review; the evidence is  *)
(* an input.                                                               *)

Stale(c) == IF c.phase = "commit" THEN [c EXCEPT !.fresh = FALSE] ELSE c

Stir == call' = [p \in Procs |-> Stale(call[p])] /\ UNCHANGED <<profile, task, breadcrumb>>

Starting == Planned \/ \E p \in Procs : call[p].phase = "commit"

Move == Starting /\ moves < MaxMoves /\ moves' = moves + 1

Draft == ~Starting /\ moves' = moves

Reviewing == task.status = "review"

Rest(kept) == UNCHANGED kept /\ Stir

Write(written) ==
    /\ Draft \/ Move
    /\ docs' = written /\ docs' # docs
    /\ Rest(<<session, settled, history, lost, index, work, evidence, receipts, checker>>)

\* The plan is written, or by `plan new`: an existing one only with --force.
WritePlan(f, plan) == Write([docs EXCEPT !.plans[f] = plan])

NewPlan(f, force) ==
    /\ force \/ ~docs.plans[f].written
    /\ WritePlan(f, Skeleton)

WriteAnchor(anchor) == Write([docs EXCEPT !.anchor = anchor])

\* Before the start implement.jsonl is written by hand,
WriteIndex(entries) ==
    ~Planned /\ Write([docs EXCEPT !.indexed = TRUE, !.entries = entries])

\* or by TaskContextService.initialize, unless it is there.
InitContext ==
    LET entries == IF docs.indexed THEN docs.entries ELSE SpecEntries
    IN Write(WithPlaceholders([docs EXCEPT !.indexed = TRUE, !.entries = entries]))

\* TaskContextService.add: an entry for a file that has none, and for which
\* there is no domain guide to append; one that is not there yet is planned.
\* Before the start WriteIndex does as much.
AddContext(f) ==
    /\ Planned /\ f \notin {e.path : e \in docs.entries}
    /\ Write([docs EXCEPT !.indexed = TRUE,
                 !.entries = @ \cup {[type |-> IF work[f] = Absent THEN "planned-file" ELSE "file",
                                      path |-> f, where |-> "repository", target |-> "file"]}])

\* The tasks this one depends on are completed.
Settle ==
    /\ ~settled /\ settled' = TRUE
    /\ Rest(<<session, docs, history, lost, index, work, evidence, receipts, checker, moves>>)

\* A file is written or removed, and with `git add` or `git rm` staged so.
Edit(f, text, staged) ==
    /\ Move
    /\ work' = [work EXCEPT ![f] = text]
    /\ index' = IF staged THEN [index EXCEPT ![f] = text] ELSE index
    /\ <<work', index'>> # <<work, index>>
    /\ Rest(<<session, docs, settled, history, lost, evidence, receipts, checker>>)

\* `git mv`
Rename(old, new) ==
    LET Under(tree) == [tree EXCEPT ![old] = Absent, ![new] = tree[old]]
    IN /\ Move
       /\ Absent \notin {work[old], index[old]} /\ work[new] = Absent
       /\ work' = Under(work) /\ index' = Under(index)
       /\ Rest(<<session, docs, settled, history, lost, evidence, receipts, checker>>)

\* `git commit`, of what is staged.
CommitTree ==
    /\ Move /\ index # history[HEAD] /\ history' = Append(history, index)
    /\ Rest(<<session, docs, settled, lost, index, work, evidence, receipts, checker>>)

\* A rebase: the commit of the baseline is no longer there.  No other commit
\* that is gone makes a difference, so this needs no bound of its own.
Orphan ==
    /\ task.base \in 1..(HEAD - 1) \ lost /\ lost' = lost \cup {task.base}
    /\ Rest(<<session, docs, settled, history, index, work, evidence, receipts, checker, moves>>)

\* subagent init, bind and close, as RuntimeContext has them.
Check(status, bound, noted) ==
    /\ checker' = [status |-> status, bound |-> bound, noted |-> noted]
    /\ Rest(<<session, docs, settled, history, lost, index, work, evidence, receipts, moves>>)

Dispatch ==
    /\ Reviewing /\ checker.status = "none" /\ Check("pending", checker.bound, checker.noted)

BindChecker ==
    /\ Reviewing /\ checker.status = "pending" /\ Check("bound", TRUE, checker.noted)

CloseChecker ==
    /\ Reviewing /\ checker.status \in {"pending", "bound"}
    /\ Check("closed", checker.bound, checker.noted)

\* The checker asks for the fingerprint of what it looks at.
Note ==
    /\ Reviewing /\ checker.status = "bound"
    /\ Check("bound", checker.bound, [print |-> Fingerprint, of |-> work, base |-> task.base])

Append_(r) ==
    /\ Reviewing /\ Len(receipts) < MaxReceipts /\ receipts' = Append(receipts, r)
    /\ Rest(<<session, docs, settled, history, lost, index, work, evidence, checker, moves>>)

\* submit_review_receipt: from the checker while it is bound, and with the
\* fingerprint it names.
Submit(result) ==
    /\ checker.status = "bound" /\ "print" \in DOMAIN checker.noted
    /\ LET note == checker.noted
       IN Append_([result |-> result, by |-> "checker", print |-> note.print, of |-> note.of,
                   base |-> note.base])

\* receipt_binding_issue: "a plain file anyone with file access can append to".
HandWrite ==
    Append_([result |-> "pass", by |-> "nobody", print |-> Fingerprint, of |-> work, base |-> task.base])

\* A hook binds a subagent to the session of a key; its close deletes it.
Delegate(k) ==
    /\ Move /\ k \in {Ambient[p] : p \in Procs}
    /\ session' = [session EXCEPT ![k] = IF @ = "subagent" THEN "none" ELSE "subagent"]
    /\ Rest(<<docs, settled, history, lost, index, work, evidence, receipts, checker>>)

Author ==
    \/ \E f \in PlanFiles : \/ \E plan \in PlanDrafts : WritePlan(f, plan)
                           \/ \E force \in BOOLEAN : NewPlan(f, force)
    \/ \E anchor \in AnchorDrafts : WriteAnchor(anchor)
    \/ \E entries \in IndexDrafts : WriteIndex(entries)
    \/ InitContext \/ \E f \in Files : AddContext(f)

World ==
    \/ Author \/ Settle
    \/ \E f \in Files, text \in Texts \cup {Absent}, staged \in BOOLEAN : Edit(f, text, staged)
    \/ \E r \in Renames : Rename(r[1], r[2])
    \/ CommitTree \/ Orphan
    \/ Dispatch \/ BindChecker \/ CloseChecker \/ Note
    \/ \E result \in {"pass", "fail"} : Submit(result)
    \/ HandWrite
    \/ \E k \in Keys : Delegate(k)

Init ==
    /\ profile \in Profiles
    /\ \E created \in Created :
           /\ docs = created.docs
           /\ task = [status |-> "planning", owner |-> NoKey, type |-> created.type, base |-> 0,
                      previous |-> NoKey, exempt |-> FALSE, plan |-> created.plan,
                      approved |-> NoDocument]
    /\ session = [k \in Keys |-> "none"]
    /\ breadcrumb = "none" /\ settled \in BOOLEAN
    /\ \E c \in Checkouts : history = <<c.head>> /\ index = c.index /\ work = c.work
    /\ lost = {}
    /\ evidence \in Ledgers
    /\ receipts = <<>>
    /\ checker = [status |-> "none", bound |-> FALSE, noted |-> <<>>]
    /\ moves = 0
    /\ call = [p \in Procs |-> Idle]

Next == (\E p \in Procs : Command(p)) \/ (\E p \in Planners : PlanCommand(p)) \/ World

Spec == Init /\ [][Next]_vars

-----------------------------------------------------------------------------
(* Properties.                                                             *)

\* The types of the task, of the files around it and of the commands.
TypeOK ==
    /\ task.status \in {"planning", "in_progress", "review", "completed"}
    /\ {task.owner, task.previous} \subseteq Keys \cup {NoKey}
    /\ task.base \in 0..HEAD /\ task.exempt \in BOOLEAN
    /\ task.plan \in PlanFiles \cup {"none"} /\ task.type \in DevTypes \cup {"none"}
    /\ task.status = "planning" => task.base = 0
    /\ session \in [Keys -> {"none", "main", "subagent"}]
    /\ work \in FileTrees /\ index \in FileTrees /\ lost \subseteq 1..HEAD
    /\ docs \in Documents
    /\ Len(receipts) \in 0..MaxReceipts /\ moves \in 0..MaxMoves
    /\ \A p \in Procs : call[p].phase \in
           {"idle", "routed", "commit", "seize", "adopt", "bind",
            "plan", "loaded", "typed", "ready"}

Order == [planning |-> 0, in_progress |-> 1, review |-> 2, completed |-> 3]

\* A task goes through its statuses one by one and never back, whatever
\* starts, takeovers, adoptions and reviews overlap (task_state.py: "Create a
\* follow-up task instead of reopening checked work"), and the breadcrumb the
\* hooks show goes with it.
StatusAdvances ==
    [][/\ Order[task'.status] - Order[task.status] \in {0, 1}
       /\ breadcrumb' \in {"none", task'.status}]_vars

\* A plan command that saves what it loaded before the baseline was what it is.
Reverts(p) ==
    /\ call[p].phase \in {"loaded", "ready"} /\ call[p].snap.base # task.base
    /\ task' = WithMeta([call[p].snap EXCEPT !.plan = task'.plan, !.approved = task'.approved])

\* A task changes hands only by a takeover or an adoption that has seen its
\* owner: an adoption names the very executor it takes the task from, and
\* nothing else moves the baseline of a review once it is recorded, but for a
\* plan command that was begun before and saves the meta of then
\* (_persisted_task_data: "An existing baseline is never overwritten").
HandoverIsRecorded ==
    [][/\ task.owner # NoKey /\ task'.owner # task.owner =>
             \E p \in Procs : /\ call[p].phase \in {"seize", "adopt"}
                              /\ call[p].snap.owner = task.owner
                              /\ task'.status = task.status
       /\ task.base # 0 /\ task'.base # task.base =>
             \/ task'.owner # task.owner /\ task'.previous = task.owner
             \/ \E p \in Procs : Reverts(p)]_vars

\* What the command that commits has checked is still so.
Freshly(id) ==
    \E p \in Procs : /\ call[p].phase = "commit" /\ call'[p] = Idle
                     /\ call[p].id = id /\ call[p].fresh

Enters(s) == task.status # s /\ task'.status = s

\* A strict task is started on a plan and an anchor that say the same: its
\* start asks for no more than that they are those finalize saw, so that the
\* goals and the acceptance rows agree and every task of the plan is filled
\* in, whatever plan commands and authors did in between, unless an author
\* wrote while finalize was at work (plan.py: "Start will reject any later
\* edit to either file").
StartedAsApproved ==
    [][Enters("in_progress") /\ Freshly("start_task") /\ profile = "strict" =>
          LET plan == docs.plans[task.plan]
          IN task.approved.checked =>
                /\ RowsAgree(plan, docs.anchor) /\ GoalsAgree(plan, docs.anchor)
                /\ PlanSays(plan) /\ PlanFilled(plan, FALSE)]_vars

\* No file gets through a review or a completion unlisted, committed or not:
\* what differs from the baseline is in the scope, unless it was changed after
\* the command had checked, or is gone, and git takes it for a listed file
\* that has come (git_snapshot.py has it that "A commit made mid-task cannot
\* hide changed files from review", which of the old path of a renamed file is
\* not so).  Where the baseline is reverted away, it is HEAD that counts.
NothingUnlisted ==
    [][(Enters("review") /\ Freshly("request_review"))
         \/ (Enters("completed") /\ Freshly("complete_task"))
       => LET baseline == history[IF task.base = 0 THEN HEAD ELSE task.base]
              Renamed(f) ==
                  /\ work[f] = Absent
                  /\ \E new \in Scope(docs) : /\ <<f, new>> \in Renames
                                              /\ Absent \in {baseline[new], history[HEAD][new]}
          IN \A f \in Differing(baseline, work) : f \in Scope(docs) \/ Renamed(f)]_vars

\* A strict task is completed on a review of what is there: the receipt that
\* decides passed, and every file is as the reviewer had it, unless the task
\* was adopted in between or its baseline reverted away, and a checker was
\* bound once (lifecycle_checks.py, _review_receipt_completion_issues).  The
\* exception is a file that has come or gone since, as it was in the baseline
\* the one time and for git a listed file the other.
CompletedAsReviewed ==
    [][Enters("completed") /\ profile = "strict" /\ Freshly("complete_task") =>
          LET r == Last(receipts)
              Renamed(f) ==
                  /\ {r.of[f], work[f]} = {Absent, history[task.base][f]}
                  /\ \E new \in Scope(docs) : <<f, new>> \in Renames
          IN /\ receipts # <<>> /\ r.result = "pass" /\ checker.bound
             /\ task.base # 0 /\ r.base = task.base =>
                    \A f \in Differing(r.of, work) : Renamed(f)]_vars

=============================================================================
