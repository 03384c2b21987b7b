# cowork-flow in TLA+

Models of the parts of cowork-flow in which order, failure and concurrency
decide whether the state on disk is right, the TLC runs that check them, and
proofs, for every value of the constants, of what matters most in eight of
them. Paths below are relative to the root of the repository; `scripts/` stands
for `template/.cowork-flow/scripts/`.

## The system

cowork-flow keeps the state of tasks, sessions and agents as JSON files below
`.cowork-flow/` of a project. Short-lived Python processes, one per command,
hook or MCP request, work on these files: nothing is shared but the file
system, several processes run at once (one per agent host), and each may be
killed at any time. A Node program, `cwf`, installs and upgrades the scripts
in a project (`init`, `sync`, `dev refresh`) and the plugins of the agent hosts
on a machine (`host add`, `host remove`, `host inspect`).

| Component | State | Operations | What is hard, and what makes it right |
| --- | --- | --- | --- |
| State store, `scripts/infra/storage/state_store.py` | one JSON document per file with `_state.revision` and `operation_id`; a `.lock` file next to it | `load`, `replace`, `delete`, `remove_stale_lock` | callers of several processes, kills under the lock, failing file system calls. A call is atomic, a stale revision is refused, a repeated call is answered again, locks go away |
| Unit of work, `scripts/infra/storage/unit_of_work.py`, `operation_log.py` | one record per operation below `.runtime/operations/` | `replace`, `delete`, `commit`, `recover_all`; log `create`, `save`, `pending` | several documents, one store call each; any process recovers any operation. All participants or none; nobody else's write is undone; every operation is decided |
| Asset transaction, `src/lib/plan-applier.js`, `asset-plan.js`, `copy-template.js` | the target tree; `.<target>.cowork-flow-txn-*` with `transaction.json`, `staging/`, `backup/` | plan, recover, stage, commit, roll back | kills and errors between file moves, the user's own edits. All of a plan or nothing, no file lost, `.version` last |
| Project assets, `src/lib/copy-template.js`, `host-assets.js`, `src/commands/init.js`, `sync.js`, `source-refresh.js` | the packaged files in a project, `.version`, `.developer`, `config.yaml` | init, sync, dev refresh with `--force`, hosts and language | plans made of files the user edits before they are applied. The user's text stays, a sync reaches the release |
| Sessions, `scripts/runtime/session_state.py` | one document per host session | claim, clear, list | single writes next to units of work on the same files |
| Runtime contexts, `scripts/services/workflow_runtime.py`, `adapters/cli/subagent.py` | one document per subagent, bound to a session | initialise, bind, update, evidence, close | checks over many contexts before a commit on one; whole documents written from an earlier read. Claims do not overlap, bindings and evidence stay |
| Task tree, archive and creation, `scripts/services/task_tree.py`, `task_archive.py`, `task_creation.py`, `task_repository.py` | `task.json` and the directory of each task, active or archived | link, unlink, create, edit, archive, roll back | a relation kept in two files each, a move without a unit of work, restores of whole documents. The two ends agree, no cycle, one home, no edit lost |
| Planning documents, `scripts/services/plan_readiness.py`, `plan_schema.py`, `plan_binding.py`, `task_context.py`, `decision_anchor_schema.py` | the plan, `decision-anchor.md`, `implement.jsonl`; in `task.json` the binding, the dev type and the approved snapshot | plan new, bind, type, finalize; context init and add | authors rewrite the documents between the checks and the digests, and saves write back old metadata. What is started is what was checked |
| Task lifecycle, `scripts/services/task_lifecycle.py`, `lifecycle_checks.py`, `lifecycle_policy.py`, `review_receipt.py` | `task.json`, sessions, receipts, the git history | start, adopt, take over, submit a receipt, review, complete | gates checked on facts that change before the commit. Statuses advance, a hand-over names its predecessor, what is completed was reviewed |
| Workflow kernel, `scripts/kernel/`, `task_routing.py` | none | tables from status and intent to actions | pure |
| Batch execution, `template/skills/batch-execution/scripts/` | one checkpoint document per batch | start, resume, record result | results that come twice, late or for another step. What is recorded is real and done once, a batch ends |
| Party mode, `template/skills/party-mode/scripts/` | a board, the agents, the actions and the report, one file each, under a file lock | init, post, respond, advance, finalize, record result | late and reordered results, commands stopped between two files. A convergence has voices, the report is of the board, a discussion ends |
| Host plugins, `src/commands/install-*-plugin.js`, `src/lib/payload-install.js` | a payload directory below the host's home and entries in files the host shares with others | add, remove, inspect | no lock and no rollback. A success has delivered, what is not ours stays, a remove leaves nothing |
| Fact views, manifest, doctor, adapters | read-only or single writes | parsers, views, rendering | text processing; not modelled |

Every service that changes several documents first calls
`UnitOfWork.recover_all`, then stages and commits a unit of its own; a unit
makes every change, and every change of its log, by calls of the state store.
The asset transaction shares nothing with the other two: it replaces the
scripts and templates, never the runtime state; the host plugins live outside
of the project.

## Modules

| Module | Models | Extends or instantiates |
| --- | --- | --- |
| `CasDocument` | a document and the pure meaning of a store call on it | |
| `CasRegister` | the abstract promise of the state store: calls take effect at once | `CasDocument` |
| `StateStore` | the lock file protocol and the stale lock cleanup | `CasDocument`; `Register == INSTANCE CasRegister` |
| `OperationPromise` | the abstract promise of a unit of work | |
| `UnitOfWork` | staging, commit, rollback and recovery of several units, beside single writers | `Store == INSTANCE CasDocument`; `Promise == INSTANCE OperationPromise` |
| `AssetTransaction` | planning, transaction, rollback and recovery of init and sync | |
| `Batch` | the batch state machine, its checkpoint, its graph check and its verification of results | |
| `RuntimeContext` | contexts, session files and the commands on both | |
| `WorkflowRoute` | the tables of the kernel, as operators | |
| `Planning` | the planning documents, and what finalize and the start gate ask of them, as operators | |
| `TaskLifecycle` | the plan and lifecycle commands of one task, their gates, and the world the gates look at | `WorkflowRoute`, `Planning` |
| `TaskTree` | the task directories, their relations, creation and archive | |
| `PartyMode` | a discussion, its files and its host | |
| `ProjectAssets` | what init, sync and refresh plan for each class of files | |
| `HostPlugin` | the plugin commands of five hosts | |
| `MC...` | symmetry sets and instances for TLC | the module of that name |
| `StateStore_proofs`, `UnitOfWork_proofs`, `AssetTransaction_proofs`, `Batch_proofs`, `RuntimeContext_proofs`, `TaskLifecycle_proofs`, `TaskTree_proofs`, `PartyMode_proofs` | theorems about the module of that name, see [Proofs](#proofs); those about `ProjectAssets` and `HostPlugin` are in the second and third part of `AssetTransaction_proofs` | that module, `TLAPS` and the library's lemmas |

The modules are layers. `StateStore` shows that a call of the store is atomic,
and from there `UnitOfWork`, `RuntimeContext` and `TaskTree` take a store call
as one step. `UnitOfWork` shows what a unit promises where units and
recoveries come one after another; `RuntimeContext` and `TaskLifecycle` take a
unit for one step that may fail, while `TaskTree` keeps its two writes and the
recovery by anybody apart, since its hazards lie there. `AssetTransaction`
shows that a plan is applied as a whole; `ProjectAssets` takes that for granted
and looks at the plans.

A definition named `Mutant...` stands before a definition of the model and is
that definition with a mistake one could make in the code. Nothing uses it; it
documents which mistake the properties catch.

### StateStore

One action per step of a call that another process can see: `Begin`,
`Acquire` (`open("x")`) or `Timeout`, `WritePayload` or `PayloadFault`,
`LoadLocked`, then `Reply`, `Write` or `SaveFault`, and `Release`. `Load` reads
without the lock. A caller whose process is killed is `Crash`; a restart is a
new caller. `Age` lets the payload of a lock pass the threshold. The cleanup
of `remove_stale_lock` is four steps, `RmRead`, `RmJudge`, `RmReread` and
`RmUnlink`, because the code reads the file, asks for the owner, reads again
and unlinks by path. `IoFaults` names the file system calls that may fail.
Process ids are not reused, and clocks do not go backwards.

`ImplementsRegister` states that all this implements `CasRegister`: the
refinement maps a call to a single step at its `Write`, `Reply` or refusal.
So `UnitOfWork` may take a store call as one step, and does.

### UnitOfWork

Each operation is made by the worker of its number. A worker runs `recover_all`
(`Recover`, `Scan` of one log file at a time, `Take`), then stages (`Stage`,
one load each), creates the record (`Create`) and applies it: `SaveLoad` and
`Save` are the two store calls of `OperationLog.save`, `Apply` and
`ApplyRefused` the mutation and its error, `UndoLook` and `Undo` the load and
the compensation of a rollback, `Finish` and `UndoFinish` the two outcomes.
`Crash` kills a worker between two store calls, `CrashInSave`, `CrashInApply`
and `CrashInUndo` inside one, before or after its write, with the lock file
left in `stuck` until `ClearLock`. Operations in `Direct` are single writes
without a record: session claims and `TaskRepository.save`. `effects` is a
history variable: which participants of an operation are done and not undone.
The variable `setting`, chosen once from `Settings`, says whether units and
recoveries come one after another (`serial`), which single writers take part
and how many kills and timeouts there are.

`KeepsPromise` states that this implements `OperationPromise` in the serial
settings; in the others the mapped state does not move.

### AssetTransaction

`Plan` reads the target and fixes an action for every path; `RecoverLook`
starts the recovery of what is left over; `Open`, `Stage`, `Staged`,
`StartCommit`, `Backup`, `Move` and `Commit` are the steps of
`applyAssetPlan`, with a `Write` of the metadata after each of them where the
code has one; `Undo` and `Undone` are the rollback, shared by the error path
(`Fail`) and by the recovery; `Purge` removes the transaction directory entry
by entry. `Fault` lets any call raise, `Crash` kills the run, and both may cut
a write of `transaction.json` short. `Edit` is the user writing a file. The
variable `setting`, chosen once from `Settings`, says what the target is at
first, which commands run, and in which stages how many faults, kills and edits
happen, so that one run holds several experiments and a property says under
which of them it is stated.
`origin` and `goal` are history variables: the target before the transaction
and what it was to become; `moved` is where it has put a new file, and
`outdated` whether a plan was applied to another target than it was made for.

### Batch

`cp` is the checkpoint: `st` with `phase`, `ordered`, the pending `action`, the
steps `done` of each task, its contexts and the `results` recorded. `Start`,
`Resume` and `RecordResult` are the commands up to their first save, a
refused command being no step; `SaveLoad` and `Save` are the two store calls
of `_save`, and a command that publishes the next action makes them twice.
`Succeed`, `Pause`, `Advance` and `Publish` are `batch_state_machine.py`;
`Verified` and its parts are `batch_verification.py`; `Leaves`, `Remaining`
and `GraphUnchanged` are the graph check. `Perform`, `Bind` and `Report` are
the host and its workers, who follow SKILL.md: they start, review, complete,
archive and commit tasks, and write results, up to `MaxWrong` of which report
a failure, something that was not done, somebody else's commit, or another host
key than the one the worker of a runtime context binds it with. A result of an
init or an await names a context and a key; the verification of an init
compares the key with the context only if the worker has bound it, records both
(`st.ctx`), and an await has to name what was recorded and what is bound. Keys
are only compared with those of the same context, so two are enough: the
worker's (`own`) and any other. Runtime contexts and task status are the facts
the verification reads, not the documents that hold them. `inspect` changes
nothing and is left out.

### RuntimeContext

`ctx` is a context file, `session` the session file of a host key, `logical` the
files of subagents without a host session. `initialize`, `bind` and `close` are
two or three steps each (`InitLoad`, `InitExamine`, `InitCommit`; `BeginBind`,
`BindCommit`; `BeginClose`, `CloseCommit`), because they read, decide and then
commit a unit that is guarded by what is there when it is staged. `Update` and
`Evidence` name the revision they read: one step. `HookBind`, `ClaimMain`,
`ClearActive` and `ClearTask` are what hooks and lifecycle commands do to the
same session files; `UnitFails` is a unit that could not be committed.

### TaskLifecycle, Planning and WorkflowRoute

`task` is `task.json`; `history`, `index` and `work` are the commits, what is
staged and the working tree; `docs` holds the plan files, the anchor and the entries of
`implement.jsonl`, each reduced to what a check reads out of it: the rows, the
goals, whether a field is filled. A lifecycle command routes on the status it
finds (`Route`), loads, passes its gates and commits what it loaded (`Commit`,
`Seize`, `Adopt`) under the revision it loaded. In between `Edit` (with or without
`git add`), `Rename` (`git mv`), `CommitTree`, `Orphan` (a rebase), a bound checker (`Dispatch`, `BindChecker`, `CloseChecker`)
and `Submit` or `HandWrite` of receipts go on. A gate reads all its facts in one
step; `call.fresh` records whether the world has moved since. What git reports
(`Reported`) is every file that differs but for the old path of a rename it
detects (`RenamedAway`): `git diff --name-only` does not name that path, and of
`git status` the parser keeps what follows the arrow. Which pairs of files git
takes for a rename if one goes and the other comes is the constant `Renames`.

The plan commands have two or three steps: `LoadBind` and `SaveBind`, `CheckPlan`
and `Approve` (finalize), `SaveType`. They save through `TaskRepository.save`,
which loads the revision it expects at that moment, so that nothing refuses what
they loaded before: `WithMeta` writes all of an old `meta` into the new task.
Authors write the documents at any time (`WritePlan`, `NewPlan`, `WriteAnchor`,
`WriteIndex`, `InitContext`, `AddContext`), between the checks and the digests
of finalize too; `approved.checked` is a history variable that tells whether the
digests are of what was checked. `PlanReady` is what finalize asks, `StartReady` what
the start asks, which is less: it relies on the snapshot.

### TaskTree

A directory of a task is absent, an empty or partial directory, or full. Each
read of a `task.json` is a step (`LoadParent`, `LoadChild`, each `Walk` of the
cycle check, `ArchiveLoad`, `ReadRelative`), each guarded write another. `First`
and `Second` are the writes of a link's unit, `Undone` its rollback, `Advance`
a `recover_all` by whoever comes. `Copy`, `Compare`, `Remove`, `Mark`, `Relate`
and `Files` are the steps of an archive; `Restore`, `Back` and `Rewrite` those
of its rollback. A `recover_all` lists the pending records once (`List`, into
`queue`) and goes through that list; a record that becomes pending later is not
its business. A new command is a new process, which nobody's list names.

History variables say who is excused. `torn`: the tasks of an archive or creation
that was killed, of a command that could not be undone, and of a unit whose
rollback found something newer (`Overtaken`). `blurred`: the tasks an archive or
creation shared with another command; a killed link `Holds` its two tasks
until its unit is recovered, by whoever comes. `stale`: what an archive of a task
so excused had in hand (`Spread`). `raced`: two links were under way at once, or an
archive that `crossed` a link fell back. `Clear` tasks are neither torn nor
blurred, `Sound` ones nor stale; only `LinksAgree`, which is about two tasks at a
time, needs the second.

### PartyMode

Every command holds the state lock while it loads `board`, `status`, `actions`
and `report` and fixes the `writes` it makes; `Write` makes one of them and
`Stop` drops the rest. `due` holds the actions the host has been given and not
answered; `RecordResult` may answer them out of order. `late`, `alone` and
`hushed` are history variables for the causes `Concludes` and
`ConvergedHasVoices` name.

### ProjectAssets

A file is the release its packaged text is from, one word of it that some code
reads, and whether it holds text of the user's; one asset stands for each class
of paths `host-assets.json` tells apart. `BeginInit`, `BeginSync` and
`BeginRefresh` build the plan, `ApplyPlan` and `Refused` are its two outcomes; `Put`,
`EditFile`, `SetLanguage`, `DropBlock`, `Delete` and `SelfUpdate` happen whenever
they like. `chosen` is a history variable: the hosts the user has asked for or
marked by a file of their own.

### HostPlugin

A command is the list of the steps it will take as it finds the files when it
starts (`AddSteps`, `RemoveSteps`), and each step an action that goes on or
stops. `Interrupted` stops it anywhere, in the middle of a copy or a removal
too. A payload is known by how much of it is there (`part`) and by the release
its manifest names. `OtherRegisters`, `Garbled`, `TurnedOff`, `UserAgent` and
`ForeignDirectory` are other plugins and the user at the same files.

## Runs

All runs take `CHECK_DEADLOCK FALSE`: calls, operations and faults are
bounded, and the system may stop when all are made.

| Run | Properties | Question |
| --- | --- | --- |
| `store_register` | `TypeOK`, `MutualExclusion`, `LoadedIsCurrent`, `ImplementsRegister` | replaces and deletes, with and without a revision, a cleanup, every fault, kills anywhere: does the lock exclude, is a call atomic? |
| `store_live` | `NoOrphanLock`, `NoLostUpdate`, `EveryCallReturns`, `StaleLockCleared` | nothing is deleted: does a revision protect what its caller read, do calls return, are locks given up and those of the dead cleared? |
| `uow_commit` | `RolledBackIsClean`, `NoNewerOverwritten`, `EveryOperationDecided`, `KeepsPromise` | a unit among single writers and recoveries, with kills: is a newer write kept and every recorded operation decided, and, one process at a time, is a unit all or nothing? |
| `asset_commit` | `AllOrNothing`, `VersionTells`, `RollbackKeepsUserFiles`, `EventuallyAllNew` | errors and kills while a transaction is opened, staged, committed or its metadata written; a user who writes files while a sync is interrupted and repeated |
| `batch_live` | `CompletedIsReal`, `DoneOnce`, `EventuallyCompleted` | results that are wrong, untrue, late or repeated, commands killed between their steps: is what is recorded true and done once, and does the batch come to its end? |
| `runtime_claims` | `OverlapHasACause`, `KeyStable`, `EvidenceKept` | two contexts, two processes, and lifecycle commands on the same sessions: how can claims overlap, a binding change, evidence go? |
| `lifecycle_gates` | `StartedAsApproved`, `HandoverIsRecorded`, `NothingUnlisted`, `CompletedAsReviewed` | plan commands, two executors, authors and a working tree that moves: what have a started and a completed task been through? |
| `tree_links` | `LinksAgree`, `CycleHasACause`, `OneHome`, `EditKept` | two commands at once on three tasks, a kill and a failure: what is left of the relation and of the edits? |
| `party_discussion` | `ConvergedHasVoices`, `ReportIsFaithful`, `Concludes` | late, failed and reordered results, commands stopped between two files: is the end of a discussion what it says, and does it come? |
| `project_sync` | `OwnTextKept`, `SyncReaches`, `HostsHaveACause`, `FailureHasACause` | three commands with every flag, edits and an update of the package in between: what is kept, what is reached, and when is a command rolled back? |
| `host_plugins` | `AddDelivers`, `ForeignKept`, `RemoveLeavesNothing` | adds and removes that stop anywhere, beside other plugins and the user: is a success one? |
| `batch_last_archive` | `ArchiveTolerated`, violated | the last child is archived, its parent counts as a leaf, and the batch is refused for good, against `tests/test_batch_recovery.py:446` |

## What the passing runs leave out

Where the code does not keep a property, the run leaves the case out or the
property names it. Each can be seen by changing the constant or dropping the
disjunct.

Store and units:

- two cleanups at once (`Removers`): the second unlinks by path the lock a live
  process has created meanwhile (`state_store.py:262`), and `MutualExclusion`
  fails;
- `NoLostUpdate` with deletes (`Kinds`): a document deleted and created again
  has the revision the caller expects;
- the outcome of a unit when a recovery runs beside its live owner: `recover_all`
  works through records it has read before and may turn a commit that was
  reported into a conflict, so that `KeepsPromise` is stated for serial settings;
- a kill inside a store call after the write (`lockDeaths` in a serial setting):
  the recovery meets the lock, records `rolled_back`, and the write stays;
- a lock timeout together with a kill (`timeouts`): a rollback
  (`unit_of_work.py:240`) leaves its participants recorded as applied until the
  conflict is saved; killed in between, a recovery commits without them.

Assets:

- an interruption inside a rollback, or of the removal of a committed
  transaction's directory: `rollbackTransaction` (`plan-applier.js:140`)
  repeated removes a file it has restored;
- a first init into a directory that was not there: its rollback removes the whole
  directory (`plan-applier.js:148`), with what the user wrote there meanwhile;
- a plan applied to a target it was not made for (`outdated`): `init.js:413` and
  `plan-applier.js:318` plan before they recover, so the second command after a
  kill leaves out what the recovery takes back, and `.version` is new over it;
- a sync without `.version` plans to update it and is always rolled back
  (`copy-template.js:555`, `plan-applier.js:81`), only an init restores it;
  a `.developer` without `name=` makes an init plan to create it and fail;
- `sync --force` writes managed files whole; a managed block is written with the
  user's text as it was when the plan was made (`copy-template.js:269`); a
  retired Skill edited after planning is deleted.

Batch: two commands at once (`Callers`): `_save` loads the revision it then
expects, so the second save takes back what the first recorded (`DoneOnce`);
SKILL.md has one host, which runs one command at a time. A batch whose graph
check refuses it: one with a parent, as above, and one whose `resume` is killed
between its two saves after the task has been archived. A host that names
another key than the worker's before the worker has bound: the init is accepted
(`batch_verification.py:220-233`), and every await after that is refused, since it
cannot agree both with the key that was recorded (260) and with the one that is
bound (280), so that the batch stays in front of that await (`Misnamed`; without
that disjunct `EventuallyCompleted` fails within seconds).

Contexts: two inits at once, and an update or a bind that opens a closed
context again, make claims overlap; a bind or close that read the context
before somebody else wrote it takes away a binding or evidence.

Lifecycle: facts that change between the gates and the commit (`fresh`); a
document an author rewrites between the checks and the digests of `finalize`
(`approved.checked`; `plan_readiness.py:110`); a bind or a finalize that has
loaded the task before a start or an adoption and saves after it: it takes back
the baseline and the record of the hand-over (`Reverts`;
`plan_readiness.py:119`, `plan_binding.py:138`), after which a review looks at
the working tree only, which is what `NothingUnlisted` says of that case; an
adoption sets a new baseline, so what its predecessor committed is no longer in
the review, and a receipt of the predecessor may still decide. And the old path
of a rename, which `git_snapshot.py:74-81` and 121-122 do not report: an
unlisted file that was moved to a listed path with `git mv` gets through the
review and the completion (the docstring at 65-66 has it that "A commit made mid-task
cannot hide changed files from review"), and a file whose removal is staged after
the review beside a reviewed new file git takes for its new name, or that comes
back from such a rename, leaves the fingerprint as it was. `NothingUnlisted` and
`CompletedAsReviewed` name both (`Renamed`); without it each fails within seconds.

Tree: the cycle check runs before `recover_all` (`task_tree.py:197`), so beside a
killed link that is recovered later a cycle can close; two links at once can do
the same, and an archive that falls back while a link is under way. An archive
puts back whole documents, and so takes away what was written to them at the
same time (`blurred`), and what it writes to its relatives fits the task as it was
read: while `a` is archived, an unlink of `b` from it and a link of `b` under `c`
may both come before the archive reads `b`, which then loses its parent though
`c` lists it (`stale`; `task_archive.py:215`). The rollback of a link leaves a
participant alone that somebody has edited since, and with it one end of the
relation (`torn`; `unit_of_work.py:292`). Two archives at once can destroy a task; an interrupted copy leaves
a partial directory which every retry refuses; the lock of a late write leaves
an empty directory that hides the archived task. So does the recovery of a
killed link whose task was archived first: `archive` runs no `recover_all`, and
the one a later link runs locks the participants where they were. These tasks
are the `blurred` ones.

Party: closing results that come late make agents of the next round "closed";
when no agent is active a round advances, and at the end "converges", without a
response; one agent left cannot respond to itself; init over a discussion
starts it anew.

Host plugins: `zcode` and `qoder` take the directory of the release for a
complete payload (`install-zcode-plugin.js:313`, `install-qoder-plugin.js:383`),
and `claude-code` one whose manifest names it, so that after an add that was
stopped a plain add says "already installed" over half a copy, and only
`--force` repairs it; for Qoder the registry may even name the older release
still. Qoder's two records are written from what was read before the payload
was copied: entries made meanwhile are lost. zcode replaces a list of
marketplaces it cannot read, and its remove then leaves our entry there. An entry of
ours in zcode's older marketplace is taken away by an add
(`install-zcode-plugin.js:135`) but by no remove: `uninstall` (191-231) does not look
into that file, though the comment above it (185-187) has it that it "removes
cowork-flow's entry from each". `RemoveLeavesNothing` names the case: what a remove
leaves there it has found there.

### Bounds

- Store: two callers with two calls each, with one in the fair run, and a
  cleanup: a lost update needs two callers, and a replay a second call. That
  exclusion does not depend on their number is proved. Two values tell a replay
  from a conflict.
- Units: one unit of two documents, one or two single writers and a recovery:
  enough for a conflict at the first or the second participant, for a writer
  between any two store calls, and for a third party after a recovery. One kill
  and one kill inside a call in the concurrent setting, two kills in the serial
  one (of the owner, then of the recovery).
- Assets: three assets, one of them new in this release, one obsolete file and
  `.version`: every action (create, update, delete, keep) occurs, before and
  after another one. Two kills and two faults: of a run and of the run that
  recovers.
- Batch: a task on its own and two tasks under a parent, so that steps, tasks
  and archives follow each other and a root both is and is not a leaf. One wrong
  result (of any kind, a wrong key among them) and two kills, at any of the steps
  and commands.
- Contexts: two contexts, one path inside the other's, two keys and two
  processes: every clash is between two contexts and two commands. Three
  revisions and two evidence entries let one be written under another's read.
- Lifecycle: two executors, one with a session and one with a label who is also
  the planner; a protected file that an author may list and one that is not, one
  of which git may take for the new name of the other; two contents. A task begins
  with the other file alone, or with both staged, so that one move of the world after
  the start (a rebase that loses the baseline is not counted) makes a rename, takes
  one back, changes a reviewed file or commits; two receipts, of which the last one
  decides. Before the start files move as they like. A plan that
  holds or is a skeleton, two anchors of which one disagrees with it, an index a
  placeholder mends and one it does not: each check of finalize and of the
  start can pass and fail, and documents that agree can be made to disagree.
  One record of evidence, which proves nothing, so that the exemption is used.
  After the start the index grows by `AddContext` only. The run has a strict
  task; light and legacy ones are covered by the proofs.
- Tree: three tasks, since a cycle that no link checks on its own needs two
  links, and a chain of two; two commands, one kill, one failure. That is not
  enough to see every case: a cycle by an archive that falls back needs five tasks,
  and the two cases of `LinksAgree` above three commands. They turned up as steps
  that could not be proved and were then confirmed on larger instances;
  `TaskTree_proofs` covers all sizes.
- Party: two agents and two rounds with one response each: both outcomes of a
  round, and an agent that misses it. One failure, one stop, one list of lag.
- Projects: one asset for each class of the policy, two hosts, two releases;
  three commands, so that one prepares, one is disturbed and one repairs. The
  theorems cover every other choice.
- Plugins: two releases, four commands of which two stop, three acts of others:
  an add, an update, an add that stops, and the one that meets its leftovers.
- `MaxCalls`, `MaxCrashes`, `MaxWrong`, `MaxRevision`, `MaxEvidence`, `MaxMain`,
  `MaxMoves`, `MaxReceipts`, `MaxCommands`, `MaxHostCommands`, `MaxDeps`,
  `MaxFaults`, `MaxEdits`, `MaxPuts`, `MaxLag`, `MaxInits`, `MaxFailures`, `MaxStops`, `MaxActs` and the numbers of a
  `setting` are guards of the actions they count and of nothing else.

### Fairness

`StateStore!FairSpec`: every caller goes on, because its process does; a lock
wait has a deadline, so `Timeout` is fair; locks age, and the cleanup is run
again (the doctor's hint tells the user to). `UnitOfWork!FairSpec`: commits
and recoveries that have started go on, stale locks are cleared, and recovery
is run again, which every service call does. `AssetTransaction!FairSpec`: a
command goes on, and somebody repeats it. `Batch!FairSpec`: a command goes on
(weak fairness); the host performs the pending action, its workers bind, it
reports what it did, and it records, starts and resumes as SKILL.md's host
action loop and recovery section have it (strong fairness, since the commands
of others disable these for a while). `PartyMode!FairSpec`: agents
post and respond, the moderator advances, the host takes its actions and a
command goes on to its next write. Kills, faults, timeouts and edits
are never fair; their bounds make them stop.

## Proofs

Eight modules have a module of proofs, and `ProjectAssets` a part of one.
Everything there is proved for all values of the constants: any number of processes, documents, files, agents or tasks,
any plan and any bound. Each starts with a type invariant, which is inductive only
together with what the module calls `Typed` (or `Inv`): what each process holds
in its hands at each step. The theorems below state the properties of the runs
word for word. A hypothesis is named in the theorem and listed here with the
reason for it; the others are the assumptions of the modules on their own
constants (sentinels are no values, bounds are naturals, a plan names at least
one document, the paths of a template are distinct), which TLC evaluates.

**StateStore_proofs**
- `Exclusion`, `Currency`: `MutualExclusion` and `LoadedIsCurrent`. Neither is
  inductive. The invariant is `IInv`: `HolderOwnsLock` (whoever is between
  `Acquire` and `Release` owns the very lock file that is there) and
  `CleanupTargetsDead` (a cleanup that has judged a lock remembers that of a dead
  process, and what it is about to unlink is that lock). The second conjunct
  fails with two cleanups, hence the hypothesis `OneRemover`.
- `LosesNoUpdate`: `NoLostUpdate`, if documents are only replaced, by
  `RevisionsIdentify`: a snapshot with the document's revision is the document.
- `NoLockIsOrphaned`: `NoOrphanLock` with any number of cleanups, if `unlink`
  does not fail (`"unlink" \notin IoFaults`): a lock that cannot be unlinked stays.
- `Refinement`: `ImplementsRegister` under `OneRemover`; each action maps to a
  step of `CasRegister` or to a stutter.

**UnitOfWork_proofs**
- `NothingNewerIsLost`: `NoNewerOverwritten` in every setting, with any number of
  recoveries, single writers and kills, if documents are only replaced
  (`OnlyReplaced`). The invariant is `Versions`: what a record, on disk or in
  the memory of a process, says of a participant is true of a version that was
  there, and of the present one if the revisions agree. Deleting a document
  lets its revisions start again, so the hypothesis is needed, not convenient.
- `RolledBackIsTrue`: `RolledBackIsClean`, under `OnlyReplaced` and `SerialIsCalm`
  (no kill inside a store call and no lock timeout in the serial settings, which
  are the only ones the property speaks of: the two ways listed above in which a
  write stays behind a record that says it was rolled back). The invariant is
  `Tidy`: a document that bears an operation's mark holds what it wrote; one
  unit or recovery is under way; the log of a pending operation covers, with
  the next participant, every document it has left; what a recovery has queued
  is what the log says; a log is there only once its owner has made it. It needs
  `Versions` to know that an undo undoes what it means to.
- `UnitsKeepTheirPromise`: the refinement `KeepsPromise` under the same hypotheses;
  each step maps to a step of `OperationPromise` or to a stutter. What makes
  `Commit` safe is `Accounts`: a participant recorded as applied is done, or else
  the operation is `Beaten`. For a rollback that was cut short has undone
  participants its record still lists, and the next recovery goes on from there; but
  the participant that was refused has a newer version, is the next one again,
  and is refused again, so that such a record is never committed.

**AssetTransaction_proofs**
- `AllIsDoneOrNothing`: `AllOrNothing`, if no rollback and no removal of the
  directory is interrupted (`RollbacksRun`; a repeated rollback removes what it
  has restored, see above). `Core` relates the target, the backups, the staged
  files and the metadata at every step of the run: what is above the cursor is
  done or undone, what is below is as it was (`Advancing`, `RollsBack`), and
  `transaction.json` as it stands, torn or a step behind, is enough to roll back
  (`Recoverable`).
- `VersionIsTrue`: `VersionTells`, under `RollbacksRun` and `StartsVersioned`: a target
  without `.version` has nothing of a release. Somebody's own file at the path
  of an asset is kept by an init, which then does name the release. `VersionInv` says
  that a plan that writes `.version` is `Complete`, and no other makes a
  backup of it; with `Core`, the target has all of the plan when `.version` moves,
  and no rollback brings back a `.version` of this release.
- `UserFilesAreKept`: `RollbackKeepsUserFiles`, for any number of edits, errors and
  kills, if the target directory was there before (`StartsSettled`; the rollback
  of a first init removes the directory it has made, see above). It does not need
  `Core`, which is about targets left alone. `UserInv` says that where a rollback
  finds no backup and yet removes, the transaction has put a file (`Accounted`):
  by the run's memory and by its record on disk, which is at most one move
  behind (`Behind`), once everything is staged.

- `SyncsReach`, `HostsAreExplained`, `OwnTextIsKept`, `FailuresAreExplained`: the
  four properties of `ProjectAssets` (its names differ from those of
  `AssetTransaction`, so that one module can extend both), for any template,
  hosts, releases and projects to start from, any number of commands, edits and
  updates. What they need of `host-assets.json` is `PolicyAssumption`: the classes of
  paths are disjoint, a file that marks a host belongs to that host alone, and every
  file of the template is protected, managed or one that a sync updates. All of it
  is true of the file as it is. For each kind of asset and command
  a lemma (`InitActIs` to `RefreshActIs`) says that the planned action is `Fine`:
  it fits the file it was planned for (`Timely`), takes the user's text only for a
  reason (`Careful`), and marks no host but one in use (`Sensible`); one of a sync
  also leaves what `SyncReaches` asks for (`Reached`). The invariant is
  `ProjectInv`: the plan of a running command was made of a project that differs
  from the present one only in what has been edited since. That one sync is
  enough needs more: what is `Reached` for the hosts and the language
  that were found is `Reached` for those of the outcome, since a sync marks no
  new host and leaves the language as it was read.

- `AddsDeliver`, `ForeignIsKept`, `RemovesLeaveNothing`: the three properties of
  `HostPlugin` (whose names, too, differ from those of the other two), for any
  subset of the five hosts, any number of releases, commands, kills, errors and
  acts of others; `HostAssumption` says no more. The properties say what a command has
  done when it ends; `PluginInv` (`PluginHolds`) says it of every step before. What a
  command has yet to do is always the end of one of eleven scripts (`Follows`), so
  that the number of steps left (`StepsLeft`) says where it is, and each host has its
  own account of what the steps behind it have left: the payload is complete before
  an entry points to it, a place is written only behind its guard. An add that
  reuses a copy does not look into it, so that more is needed about the time
  between commands: an edition is complete, or a command has stopped at its
  release (`Editions`, `ClaudeWhole`), and Qoder's registry names the present
  release if its edition is there (`QoderRecorded`). What others change while the
  command runs is in `meanwhile`, and each account allows for it.
  Entries of others: a command has read all that were not added meanwhile
  (`PluginTyped`), which is why Qoder's write of what it read loses no others. That a
  remove leaves in zcode's older marketplace only what it found there, and
  nothing on another host, is a step property and an invariant of their own
  (`LegacyInStep`, `LegacyHolds`).

**Batch_proofs**
- `RecordsAreReal`: `CompletedIsReal` for any tree of tasks and any number of
  commands at once. The invariant is `AllReal`: the checkpoint and also every
  state a command is about to save is true of the world, which needs that facts of
  the world a result was verified against never go away.
- `StepsDoneOnce`: `DoneOnce` with one command at a time (`OneCaller`, SKILL.md's
  rule; with two it is false). `Following` says that a command's state is the
  checkpoint's with at most the pending step added.

**RuntimeContext_proofs**
- `KeysAreStable`, `EvidenceIsKept`, `OverlapsAreExplained`: `KeyStable`,
  `EvidenceKept` and `OverlapHasACause` without a hypothesis; the properties
  themselves name the stale writes. `Memory` says what a process that has read a
  context still knows: nothing newer than the file, the file itself if the
  revisions agree, and no clash with the contexts it has examined and which have
  not moved.

**TaskLifecycle_proofs**
- `StatusesAdvance` and `HandoversRecorded`, by `CommandInv`: what a process has
  loaded fits the command it runs, and a task that is being planned has no owner
  and no baseline, nor has what a plan command has loaded of it. Without the
  second half a stale save could give a task a baseline before its start.
  `StatusAdvances` is checked in no run: it is proved.
- `StartsAreApproved`: `StartedAsApproved`, by `ApprovalInv`: an approval whose
  digests are of what was checked is of a plan and an anchor that agree, and so
  are the approvals plan commands have in their hands, and what a finalize between
  its two steps has seen. That is enough because the start compares digests, and
  a stale save brings back an older approval, never one that was not made.
- `ReviewsAreComplete` and `CompletionsAreReviewed`, by `GateInv`: what a gate has
  seen is still so while the call is `fresh`, and a receipt whose baseline is
  not lost shows the files as they were when the checker noted them. What git
  does not report is a theory of its own: a file it leaves out is gone and its new
  name is among those it reports (`NewNameReported`), hence listed once the gate has
  passed; a file that is not in the changes is as it was in the baseline, or gone
  under such a name (`Unchanged`), so that two trees with one fingerprint differ in
  such files only. Both
  hold for any `Renames` that give a new path one old one (`TreeAssumption`), as git
  does.

**TaskTree_proofs**, without a hypothesis, for any tasks, forests and
commands at once
- `TypeCorrect`, by `Shape`: `TypeOK`, what a command has in its hands at each
  step (`Fits`), and that `blurred` has every task shared at this moment.
- `OneHomeHolds`: `OneHome`, by `HomeInv`. For a task that nobody excuses, an
  archive or a creation is the only one that moves it: `Placed` says where its two
  directories are at each step of the move, `Housed` that both are there only in the
  middle of one, and `Own` that a task somebody else has loaded or staged is
  there. `OneHome` alone is not inductive: it says nothing while a command runs,
  and the removal at the end of a copy is safe only because the
  copy was compared and nobody else writes. The lemmas `Writes` (a step writes only
  tasks it has in hand or recovers), `Kinds` (a task goes only by the removal of
  its own archive) and `ClearBefore` (a task excused once stays so) leave one
  case per action.
- `EditKeptHolds`: `EditKept`, by `EditInv`: both places carry the acknowledged
  edits (`Noted`), and whatever a command has loaded or staged is `Older` than what
  is there (`Recalls`), so that a write whose revision matches has the note
  of the last edit, and a rollback that does not match leaves it alone. A unit that
  has written its first participant knows that one by its revision (`UnitKept`).
  An archive writes by no revision, and needs what it has seen to be the
  last edit outright: which holds as long as it shares the task with nobody.

- `CyclesHaveACause`: `CycleHasACause`, by `CycleInv`. A cycle is a path of any
  length, so the proof speaks of sets instead: a `Trap` is a set of tasks each of
  which has a parent in the set, and `CyclesAreTraps` shows that a cycle's tasks
  form one. `Up` counts as a parent also the one that an archive has taken away and would
  put back. `NoTrap` is not inductive on its own: a link may add an edge because what
  its check has been at is `Closed` (parents of visited tasks are visited, or next), and a
  trap with the new edge would be one without it, or reach the child the check
  did not meet. Other commands keep `Closed` as long as no two links are
  under way; `Held` says that what an archive puts back is what was there. `Told`
  ties both to `raced` and `crossed`.
- `LinksAlwaysAgree`: `LinksAgree`, by `LinkInv`, which says for every two tasks at
  every moment that one lists the other just when that one names it (`Paired`), unless a
  unit is between its writes (`Open`) or one of the two is on its way
  to the archive (`Gone`). For the second write to close the gap, `Joins` says what the
  first one left, and `Ahead` that no other command can write the same participant
  by a revision that matches; for an archive to close it, `Read` says that
  what it has read of a relative fits what it has read of its task (where `Sound`
  is needed: `Bound`). `Meant` keeps the check that the child has no other
  parent (`Apart`), and `Above` what the cycle check saw, that the parent-to-be is
  no child of the child-to-be: what has changed since has changed its revision.

**PartyMode_proofs**
- `ConvergenceHasVoices` and `ReportsAreFaithful`. `Inv` extends both to the files
  a command has still to write: the board comes before its report, so between
  the two writes the report on its way is that of the board already there.

`TypeOK` is the type invariant of each module that has one; only the run of the
store spends a property on it, for the others it is proved and evaluated while
developing.

Only model-checked:
- liveness (`EveryCallReturns`, `StaleLockCleared`, `EveryOperationDecided`,
  `EventuallyAllNew`, `EventuallyCompleted`, `Concludes`) and `ENABLED`, which are
  out of the prover's reach.

## Not modelled

- Contents of documents beyond what the properties tell apart, JSON and its
  errors, temporary file names, permissions, hashes of staged files.
- The comparison of request fingerprints in `commit`: operation ids end in a
  new uuid, so no worker finds a record of its own.
- Two installers at once: `recoverAssetTransactions` would roll back a live
  transaction; the code has no guard and makes no promise.
- Two plugin commands at once, `--dry-run`, several editions of Qoder, the
  opencode plugin and the managed blocks of the kimi and dsh hooks.
- In `ProjectAssets`: file modes, listings, the nesting of deletions; in
  `PartyMode`: the monitor, which reads without the lock and changes nothing,
  the prompts and the audit log, results that repeat one that was recorded, and the
  `agent_status` a result may carry (`party_mode_v2.py:1293-1308`), which make an agent
  inactive or active again at another time than `RecordResult` does: an advance that
  counts on fewer agents for it is what `alone` records; in `ProjectAssets`: the
  prefixes a refresh of the source checkout protects besides the two files
  (`copy-template.js:165-168`), so that it overwrites more than the code does; in `TaskLifecycle`: the degraded modes without
  git, tiny legacy tasks, the guides `context add` appends for a domain, and the
  check and debug indexes, which stay as they are generated, files added with
  `git add -N`, and copies, which git detects only when asked to; in `Planning`: how a
  text is parsed, since a document is what the checks find in it; in
  `TaskTree`: context files and plan snapshots, but not the failure to write them.
- How a host identity is resolved from the environment.
- Fact views; command line and MCP
  adapters; manifest and configuration readers; doctor and review scripts. They
  parse, validate or render, and keep no state between two calls.
- Power loss: a file system call that returned is on disk.

## Plan

Done: all modules above; every safety and action property of the passing runs is
proved. Next: two plugin commands at once, and the managed blocks of the kimi and
dsh hooks.
