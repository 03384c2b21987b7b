-------------------------------- MODULE Batch --------------------------------
(***************************************************************************)
(* skills/batch-execution/scripts: batch_execution.py, its state machine   *)
(* and its verification of results.  A batch walks the leaf tasks of a     *)
(* task tree through nine steps each.  Every command (start, resume,       *)
(* record-result) loads the checkpoint, works on a copy, saves it, and     *)
(* publishes the next action; the host carries the action out, writes a    *)
(* result, and reports it.                                                 *)
(*                                                                         *)
(* The world the verification looks at is part of the state: the status of *)
(* the tasks, which ones are archived, runtime contexts, and commits.  It  *)
(* is changed by the host and its workers as SKILL.md tells them to, and   *)
(* archiving takes a task out of its parent's children (task_archive.py).  *)
(* Nobody else changes the tree.  Retry counts and task_phases, which no   *)
(* code reads back, are left out.                                          *)
(***************************************************************************)
EXTENDS Naturals, Sequences, FiniteSets

CONSTANTS
    Tasks,       \* the tasks
    NoTask,      \* no task
    Trees,       \* the task trees to start from: [root, order, parent],
                 \*   order being the tasks with each one after its children
    Callers,     \* processes that run batch commands
    MaxWrong,    \* bound: results that report a failure or something untrue
    MaxCrashes   \* bound: commands that are killed

ASSUME TaskAssumption == NoTask \notin Tasks

ASSUME TreeAssumption ==
    \A t \in Trees : /\ t.root \in Tasks /\ t.order \in Seq(Tasks)
                     /\ \A m, n \in DOMAIN t.order : t.order[m] = t.order[n] => m = n
                     /\ t.parent \in [Tasks -> Tasks \cup {NoTask}]

ASSUME BoundAssumption == MaxWrong \in Nat /\ MaxCrashes \in Nat

\* BATCH_STEPS.
Steps == <<"start_task", "init_implement_context", "await_implement_result",
           "review_task", "init_check_context", "await_check_result",
           "complete_task", "archive_task", "commit_task">>

StepNames == {Steps[k] : k \in DOMAIN Steps}

Init_(step)  == step \in {"init_implement_context", "init_check_context"}
Await_(step) == step \in {"await_implement_result", "await_check_result"}

Roles == {"implement", "check"}

\* The host keys that can be named with a runtime context: the one its worker
\* binds it with (bound_context_key), and any other.  Keys are only compared
\* with those of the same context.
Keys == {"own", "other"}

\* RUNTIME_ROLES.
RoleOf(step) ==
    IF step \in {"init_implement_context", "await_implement_result"}
    THEN "implement" ELSE "check"

\* LIFECYCLE_STATUSES, but for archive_task, which has a check of its own.
LifecycleStatus ==
    [start_task |-> "in_progress", review_task |-> "review", complete_task |-> "completed"]

VARIABLES
    tree,      \* the task tree the batch is run on
    cp,        \* the checkpoint document: its revision and the batch state
    pc,        \* of each caller: what it does next
    mem,       \* its copy of the batch state
    then,      \* what follows the save it makes
    seen,      \* the revision it has loaded to save upon
    reports,   \* the results the host has written
    status,    \* the world: status of each task,
    gone,      \* tasks in the archive,
    ctxs,      \* runtime contexts
    bound,     \* those a worker has bound
    closed,    \* those that are closed
    commits,   \* commits of the repository, and the tasks they are for
    wrong, crashes

world   == <<status, gone, ctxs, bound, closed, commits>>
callers == <<pc, mem, then, seen>>
vars    == <<tree, cp, callers, reports, world, wrong, crashes>>

NoAction == [seq |-> 0, task |-> NoTask, step |-> "none", ctx |-> 0]

NoRuntime == [id |-> 0, key |-> "own"]

NoState ==
    [phase |-> "none", ordered |-> {}, seq |-> 0, current |-> NoTask,
     action |-> NoAction, completed |-> {}, done |-> [t \in Tasks |-> {}],
     ctx |-> [t \in Tasks |-> [r \in Roles |-> NoRuntime]], results |-> {}]

Id(a) == <<a.seq, a.task, a.step>>

-----------------------------------------------------------------------------
(* The graph check.  A list of tasks in the order of the tree is the set of *)
(* their positions in it.                                                   *)

\* _plan: the leaves of what archiving has left of the tree.  A root that is
\* archived leaves none.
Leaves(archived) ==
    LET Leaf(t) == /\ t \notin archived
                   /\ \A c \in Tasks : tree.parent[c] = t => c \in archived
    IN IF tree.root \in archived THEN {} ELSE {n \in DOMAIN tree.order : Leaf(tree.order[n])}

InTree == {tree.order[k] : k \in DOMAIN tree.order}

SameDigest == gone \cap InTree = {}

\* _remaining_ordered_tasks_after_archives.
Remaining(st) ==
    LET candidates ==
            st.completed
            \cup {t \in Tasks : "archive_task" \in st.done[t]}
            \cup {t \in {st.action.task} : st.action.step \in {"archive_task", "commit_task"}}
            \cup {t \in {st.current} : st.phase = "paused"}
    IN {n \in st.ordered : tree.order[n] \notin candidates \cap gone}

\* _assert_graph_unchanged.
GraphUnchanged(st) == SameDigest \/ Leaves(gone) = Remaining(st)

-----------------------------------------------------------------------------
(* batch_state_machine.py.                                                 *)

Undone(st, t) == {k \in DOMAIN Steps : Steps[k] \notin st.done[t]}

\* Tasks with a step to go.
Open(st) == {n \in st.ordered : /\ tree.order[n] \notin st.completed
                                /\ Undone(st, tree.order[n]) # {}}

First(S) == CHOOSE n \in S : \A m \in S : n <= m

\* build_action.
Publish(st, t, step) ==
    [st EXCEPT !.seq = @ + 1,
               !.action = [seq |-> st.seq + 1, task |-> t, step |-> step,
                           ctx |-> IF Await_(step) THEN st.ctx[t][RoleOf(step)].id ELSE 0],
               !.phase = "awaiting_host", !.current = t]

\* advance_state: whether it changes the state, and to what.
Advances(st) == st.phase \notin {"completed", "paused"} /\ st.action = NoAction

Advance(st) ==
    LET finished == {tree.order[n] : n \in {m \in st.ordered : \A k \in Open(st) : m < k}}
        up == [st EXCEPT !.completed = @ \cup finished]
    IN IF Open(st) = {}
       THEN [up EXCEPT !.phase = "completed", !.current = NoTask]
       ELSE LET t == tree.order[First(Open(st))]
            IN Publish(up, t, Steps[First(Undone(st, t))])

\* The runtime context and the host key that a result names.
Runtime(r) == [id |-> r.named, key |-> r.key]

MutantSucceed(st, r) ==             \* the steps before this one are not loaded
    LET a == st.action IN
    [st EXCEPT !.results = @ \cup {r}, !.done[a.task] = {a.step},
               !.ctx[a.task][RoleOf(a.step)] = IF Init_(a.step) THEN Runtime(r) ELSE @,
               !.action = NoAction, !.phase = "running"]

\* mark_step_completed and the rest of a success in record_result; an init_
\* action also records the context its result names.
Succeed(st, r) ==
    LET a == st.action IN
    [st EXCEPT !.results = @ \cup {r}, !.done[a.task] = @ \cup {a.step},
               !.ctx[a.task][RoleOf(a.step)] = IF Init_(a.step) THEN Runtime(r) ELSE @,
               !.action = NoAction, !.phase = "running"]

\* pause_state.
Pause(st, r) ==
    [st EXCEPT !.results = @ \cup {r}, !.phase = "paused",
               !.current = st.action.task, !.action = NoAction]

-----------------------------------------------------------------------------
(* batch_verification.py.                                                  *)

IsFor(k, a) == [id |-> k, task |-> a.task, role |-> RoleOf(a.step)] \in ctxs

\* Until the worker has bound, any key is taken.
InitVerified(a, r) ==
    /\ IsFor(r.named, a) /\ r.named \notin closed
    /\ r.named \in bound => r.key = "own"

MutantAwaitVerified(st, r) ==       \* a closed context is not accepted
    LET a == st.action IN
    /\ IsFor(r.named, a) /\ r.named \in bound \ closed
    /\ r.named = a.ctx /\ Runtime(r) = st.ctx[a.task][RoleOf(a.step)] /\ r.key = "own"

AwaitVerified(st, r) ==
    LET a == st.action IN
    /\ IsFor(r.named, a) /\ r.named \in bound \cup closed
    /\ r.named = a.ctx /\ Runtime(r) = st.ctx[a.task][RoleOf(a.step)] /\ r.key = "own"

MutantArchiveVerified(a) == status[a.task] = "completed"   \* wherever it is

ArchiveVerified(a) == a.task \in gone /\ status[a.task] = "completed"

StatusVerified(a) == a.task \notin gone /\ status[a.task] = LifecycleStatus[a.step]

\* Any commit will do.
CommitVerified(r) == r.named \in {k.id : k \in commits}

\* verify_success, for a result of the pending action of st.
Verified(st, r) ==
    LET a == st.action IN
    \/ Init_(a.step) /\ InitVerified(a, r)
    \/ Await_(a.step) /\ AwaitVerified(st, r)
    \/ a.step \in DOMAIN LifecycleStatus /\ StatusVerified(a)
    \/ a.step = "archive_task" /\ ArchiveVerified(a)
    \/ a.step = "commit_task" /\ CommitVerified(r)

-----------------------------------------------------------------------------
Init ==
    /\ tree \in Trees
    /\ cp = [rev |-> 0, st |-> NoState]
    /\ pc = [c \in Callers |-> "idle"] /\ mem = [c \in Callers |-> NoState]
    /\ then = [c \in Callers |-> "return"] /\ seen = [c \in Callers |-> 0]
    /\ reports = {}
    /\ status = [t \in Tasks |-> "planning"]
    /\ gone = {} /\ ctxs = {} /\ bound = {} /\ closed = {}
    /\ commits = {[id |-> 0, task |-> NoTask]}
    /\ wrong = 0 /\ crashes = 0

(* Commands.  A command that is refused, and one that finds nothing to do,  *)
(* changes nothing.                                                         *)

\* c is to save st, and then to do what `next` says.
ToSave(c, st, next) ==
    /\ pc' = [pc EXCEPT ![c] = "save"]
    /\ mem' = [mem EXCEPT ![c] = st]
    /\ then' = [then EXCEPT ![c] = next]
    /\ UNCHANGED <<tree, cp, seen, reports>>

Finish(c) ==
    /\ pc' = [pc EXCEPT ![c] = "idle"]
    /\ mem' = [mem EXCEPT ![c] = NoState]
    /\ then' = [then EXCEPT ![c] = "return"]
    /\ seen' = [seen EXCEPT ![c] = 0]
    /\ UNCHANGED <<tree, reports>>

Start(c) ==
    /\ pc[c] = "idle"
    /\ SameDigest
    /\ IF cp.rev = 0
       THEN ToSave(c, [NoState EXCEPT !.phase = "ready", !.ordered = Leaves({})], "advance")
       ELSE Advances(cp.st) /\ ToSave(c, Advance(cp.st), "return")
    /\ UNCHANGED <<world, wrong, crashes>>

Resume(c) ==
    /\ pc[c] = "idle" /\ cp.rev > 0
    /\ GraphUnchanged(cp.st)
    /\ IF cp.st.phase = "paused"
       THEN ToSave(c, [cp.st EXCEPT !.phase = "running"], "advance")
       ELSE Advances(cp.st) /\ ToSave(c, Advance(cp.st), "return")
    /\ UNCHANGED <<world, wrong, crashes>>

\* A context is closed before the checkpoint is saved.
RecordResult(c, r) ==
    LET st == cp.st IN
    /\ pc[c] = "idle" /\ cp.rev > 0
    /\ GraphUnchanged(st)
    /\ r.id \notin {q.id : q \in st.results}
    /\ st.action # NoAction /\ r.id = Id(st.action)
    /\ IF r.outcome = "success" /\ Verified(st, r)
       THEN /\ ToSave(c, Succeed(st, r), "advance")
            /\ closed' = IF Await_(st.action.step) THEN closed \cup {r.named} ELSE closed
       ELSE ToSave(c, Pause(st, r), "return") /\ UNCHANGED closed
    /\ UNCHANGED <<status, gone, ctxs, bound, commits, wrong, crashes>>

\* _save loads the revision it is then going to expect.
SaveLoad(c) ==
    /\ pc[c] = "save"
    /\ pc' = [pc EXCEPT ![c] = "saving"]
    /\ seen' = [seen EXCEPT ![c] = cp.rev]
    /\ UNCHANGED <<tree, cp, mem, then, reports, world, wrong, crashes>>

\* The state goes to the file, or another caller has saved since: the same
\* state, or another one, which ends the command with an error.
Save(c) ==
    /\ pc[c] = "saving"
    /\ cp' = IF cp.rev = seen[c] THEN [rev |-> cp.rev + 1, st |-> mem[c]] ELSE cp
    /\ IF cp'.st = mem[c] /\ cp'.rev = seen[c] + 1 /\ then[c] = "advance" /\ Advances(mem[c])
       THEN /\ pc' = [pc EXCEPT ![c] = "save"]
            /\ mem' = [mem EXCEPT ![c] = Advance(mem[c])]
            /\ then' = [then EXCEPT ![c] = "return"]
            /\ UNCHANGED <<tree, seen, reports>>
       ELSE Finish(c)
    /\ UNCHANGED <<world, wrong, crashes>>

Crash(c) ==
    /\ pc[c] # "idle"
    /\ crashes < MaxCrashes
    /\ crashes' = crashes + 1
    /\ Finish(c)
    /\ UNCHANGED <<cp, world, wrong>>

-----------------------------------------------------------------------------
(* The host, for the action that is pending.                                *)

Perform ==
    LET a == cp.st.action
        t == a.task
    IN /\ t # NoTask
       /\ \/ /\ \/ a.step = "start_task" /\ status[t] = "planning"
                \/ a.step = "review_task" /\ status[t] = "in_progress"
                \/ a.step = "complete_task" /\ status[t] = "review"
             /\ status' = [status EXCEPT ![t] = LifecycleStatus[a.step]]
             /\ UNCHANGED <<gone, ctxs, commits>>
          \/ /\ Init_(a.step) /\ \A k \in ctxs : k.id # a.seq
             /\ ctxs' = ctxs \cup {[id |-> a.seq, task |-> t, role |-> RoleOf(a.step)]}
             /\ UNCHANGED <<status, gone, commits>>
          \/ /\ a.step = "archive_task" /\ status[t] = "completed" /\ t \notin gone
             /\ gone' = gone \cup {t}
             /\ UNCHANGED <<status, ctxs, commits>>
          \/ /\ a.step = "commit_task" /\ \A k \in commits : k.task # t
             /\ commits' = commits \cup {[id |-> a.seq, task |-> t]}
             /\ UNCHANGED <<status, gone, ctxs>>
       /\ UNCHANGED <<tree, cp, callers, reports, bound, closed, wrong, crashes>>

\* The worker of a context begins.
Bind(k) ==
    /\ k \in ctxs /\ k.id \notin bound \cup closed
    /\ bound' = bound \cup {k.id}
    /\ UNCHANGED <<tree, cp, callers, reports, status, gone, ctxs, closed, commits,
                   wrong, crashes>>

\* A result names a context or a commit, or neither (0, which as a commit is
\* one that was there before the batch).
Result(outcome, k, key) ==
    [id |-> Id(cp.st.action), outcome |-> outcome, named |-> k, key |-> key]

\* The success of an action that has been carried out.  That a commit is the
\* task's own is up to the host: git only says that it is a commit; and so is
\* that the key of a context is the one its worker is going to bind it with.
Honest(r) ==
    LET a == cp.st.action IN
    /\ a # NoAction /\ r.outcome = "success" /\ Verified(cp.st, r)
    /\ a.step = "commit_task" => [id |-> r.named, task |-> a.task] \in commits
    /\ r.key = "own"

Report(r) ==
    /\ cp.st.action # NoAction
    /\ r \notin reports
    /\ IF Honest(r) THEN UNCHANGED wrong ELSE wrong < MaxWrong /\ wrong' = wrong + 1
    /\ reports' = reports \cup {r}
    /\ UNCHANGED <<tree, cp, callers, world, crashes>>

\* What a result may name.
Named ==
    LET step == cp.st.action.step IN
    {0} \cup IF step = "commit_task" THEN {k.id : k \in commits} \cup {cp.st.seq}
             ELSE {k.id : k \in {j \in ctxs : Init_(step) \/ Await_(step)}}

-----------------------------------------------------------------------------
Command(c) ==
    \/ Start(c) \/ Resume(c) \/ SaveLoad(c) \/ Save(c)
    \/ \E r \in reports : RecordResult(c, r)

\* And the keys: only the success of such a step is looked at for one.
NamedKeys(outcome) ==
    LET step == cp.st.action.step
    IN IF outcome = "success" /\ (Init_(step) \/ Await_(step)) THEN Keys ELSE {"own"}

ReportAny ==
    \E outcome \in {"success", "failure"} : \E k \in Named, key \in NamedKeys(outcome) :
        Report(Result(outcome, k, key))

Next ==
    \/ \E c \in Callers : Command(c) \/ Crash(c)
    \/ Perform \/ ReportAny \/ \E k \in ctxs : Bind(k)

Spec == Init /\ [][Next]_vars

\* Commands that have begun go on, the host does the pending action, its
\* workers bind, it reports what is true, and it records, starts and resumes
\* until the batch is completed.
FairSpec ==
    /\ Spec
    /\ WF_vars(Perform) /\ WF_vars(\E k \in ctxs : Bind(k))
    /\ WF_vars(\E k \in Named : /\ Honest(Result("success", k, "own"))
                                /\ Report(Result("success", k, "own")))
    /\ \A c \in Callers :
        /\ WF_vars(SaveLoad(c) \/ Save(c))
        /\ SF_vars(Start(c)) /\ SF_vars(Resume(c))
        /\ SF_vars(\E r \in reports : Honest(r) /\ RecordResult(c, r))

-----------------------------------------------------------------------------
(* Properties.                                                              *)

Actions == [seq : Nat, task : Tasks \cup {NoTask}, step : StepNames \cup {"none"}, ctx : Nat]

Results == [id : Nat \X Tasks \X StepNames, outcome : {"success", "failure"}, named : Nat,
            key : Keys]

Runtimes == [id : Nat, key : Keys]

States ==
    [phase : {"none", "ready", "running", "awaiting_host", "paused", "completed"},
     ordered : SUBSET DOMAIN tree.order, seq : Nat, current : Tasks \cup {NoTask},
     action : Actions, completed : SUBSET Tasks, done : [Tasks -> SUBSET StepNames],
     ctx : [Tasks -> [Roles -> Runtimes]], results : SUBSET Results]

StateOK(st) ==
    /\ st \in States
    /\ st.action # NoAction => st.phase = "awaiting_host" /\ st.action.task = st.current
    /\ st.phase = "awaiting_host" => st.action.step \in StepNames /\ st.current \in Tasks

TypeOK ==
    /\ tree \in Trees
    /\ cp.rev \in Nat /\ StateOK(cp.st)
    /\ pc \in [Callers -> {"idle", "save", "saving"}]
    /\ mem \in [Callers -> States] /\ \A c \in Callers : StateOK(mem[c])
    /\ then \in [Callers -> {"advance", "return"}] /\ seen \in [Callers -> Nat]
    /\ reports \subseteq Results
    /\ status \in [Tasks -> {"planning", "in_progress", "review", "completed"}]
    /\ gone \subseteq Tasks
    /\ commits \subseteq [id : Nat, task : Tasks \cup {NoTask}]
    /\ ctxs \subseteq [id : Nat, task : Tasks, role : Roles]
    /\ bound \subseteq Nat /\ closed \subseteq Nat
    /\ wrong \in 0..MaxWrong /\ crashes \in 0..MaxCrashes

\* What a state says is done is done in the world, and a task it calls
\* completed has gone through every step: the machine trusts facts, not the
\* host's word (but for commits, see Honest).
Real(st) ==
    \A t \in Tasks :
        /\ "start_task" \in st.done[t] => status[t] # "planning"
        /\ "review_task" \in st.done[t] => status[t] \in {"review", "completed"}
        /\ "complete_task" \in st.done[t] => status[t] = "completed"
        /\ "archive_task" \in st.done[t] => t \in gone
        /\ \A step \in st.done[t] :
              Await_(step) => \E k \in ctxs : /\ k.task = t /\ k.role = RoleOf(step)
                                              /\ k.id \in closed
        /\ t \in st.completed => st.done[t] = StepNames

CompletedIsReal == Real(cp.st)

\* A step is done when its action was pending, one at a time, and is never to
\* be done again: whatever is killed, repeated or late.
DoneOnce ==
    [][LET a == cp.st.action IN
       \A t \in Tasks :
           cp'.st.done[t] # cp.st.done[t] =>
               /\ t = a.task
               /\ cp'.st.done[t] = cp.st.done[t] \cup {a.step}]_vars

\* _assert_graph_unchanged refuses resume and record-result.
Refused == cp.rev > 0 /\ ~GraphUnchanged(cp.st)

\* verify_runtime_initialized has recorded another key than the worker's,
\* which verify_runtime_completed is going to hold against every result.
Misnamed == \E t \in Tasks, r \in Roles : cp.st.ctx[t][r].key = "other"

\* Every batch gets to its end, whatever fails on the way.  The exceptions are
\* batches that are refused for good, which takes a root with children (see
\* ArchiveTolerated), or a command killed between the two saves of resume; and
\* those of a host that, before the worker had bound, named another key than
\* the worker then bound the context with.
EventuallyCompleted ==
    \/ <>(cp.st.phase = "completed")
    \/ <>[](Refused /\ (crashes > 0 \/ InTree # {tree.root}))
    \/ <>[](Misnamed /\ wrong > 0)

\* While the archiving or the commit of a task is pending, that the task has
\* been moved to the archive is no change of the graph.
ArchiveTolerated ==
    cp.st.action.step \in {"archive_task", "commit_task"} => GraphUnchanged(cp.st)
=============================================================================
