--------------------------- MODULE AssetTransaction ---------------------------
(***************************************************************************)
(* src/lib/plan-applier.js with the planning of src/lib/copy-template.js:  *)
(* cwf init and cwf sync plan an action for every asset of the template,   *)
(* then apply the plan in a transaction directory next to the target:      *)
(* recover what an earlier run left there, stage the new files, move each  *)
(* old file to a backup and its new file into place, .version last.  On    *)
(* an error the run rolls back itself, after a kill the next run does.     *)
(*                                                                         *)
(* One run at a time: a run leaves at most one transaction directory,      *)
(* because it creates its own only after all others are gone.  A file      *)
(* system call is one step, except that a write may be cut short and the   *)
(* removal of a directory removes one entry after the other.  The target   *)
(* and its .cowork-flow directory are one directory here, and the metadata *)
(* fields no code reads back (staged, backedUp, rollback) are left out.    *)
(***************************************************************************)
EXTENDS Naturals, Sequences

CONSTANTS
    Assets,      \* the template's files, but for .version, in path order
    Obsolete,    \* files of older releases that a sync deletes, in path order
    Version,     \* .cowork-flow/.version
    Protected,   \* assets a sync does not touch once they exist
    Bystanders,  \* other files in the target directory
    Settings     \* the targets, commands and bounds of a behaviour: see Setting

\* createAssetPlan sorts the actions by path, .version after all others.
MutantOrder == <<Version>> \o Assets \o Obsolete

Order == Append(Assets \o Obsolete, Version)

Paths == {Order[k] : k \in DOMAIN Order}

Files == Paths \cup Bystanders

\* Contents of a file: what this release ships, what an older one did, or the
\* user's own.
Contents == {"none", "new", "old", "user"}

ASSUME PathAssumption ==
    /\ \A s \in {Assets, Obsolete} : s \in Seq({s[k] : k \in DOMAIN s})
    /\ \A j, k \in DOMAIN Order : Order[j] = Order[k] => j = k
    /\ Bystanders \cap Paths = {}

\* A target to start from, the commands run, what may be interrupted (see
\* Interruptible), and bounds: file system calls that raise, runs that are
\* killed, and files the user writes.
Setting == [start : [dir : BOOLEAN, files : [Files -> Contents]],
            kinds : SUBSET {"init", "sync"},
            interrupts : SUBSET {"open", "stage", "commit", "write", "rollback-start",
                                 "rollback", "purge"},
            faults : Nat, crashes : Nat, edits : Nat]

ASSUME SettingAssumption ==
    \A s \in Settings :
        /\ s \in Setting
        /\ ~s.start.dir => \A f \in Files : s.start.files[f] = "none"

VARIABLES
    setting,    \* the member of Settings it runs under
    dir,        \* the target directory exists
    target,     \* its files
    there,      \* a transaction directory exists
    meta,       \* its transaction.json
    staged,     \* its staging and
    backup,     \* its backup tree
    pc,         \* what the running command does next
    plan,       \* the plan it has built
    mem,        \* its copy of the metadata
    cursor,     \* the action it stages, commits or rolls back
    after,      \* what follows the metadata write it is about to make
    touched,    \* the rollback has changed the target
    own,        \* the transaction it works on is its own
    origin,     \* history: the target when the last transaction was opened,
    goal,       \* what it was to make of it,
    moved,      \* where it has put a new file,
    outdated,   \* and whether any plan so far was not made for its target
    faults, crashes, edits

disk    == <<dir, target, there, meta, staged, backup>>
memory  == <<pc, plan, mem, cursor, after, touched, own>>
history == <<origin, goal, moved, outdated>>
bounds  == <<setting, faults, crashes, edits>>
vars    == <<disk, memory, history, bounds>>

NoFiles == [p \in Paths |-> "none"]

Metadata == [status : {"staging", "staged", "committing", "rolling-back",
                       "rollback-failed", "committed"},
             dirExisted : BOOLEAN,
             action : [Paths -> {"create", "update", "delete", "keep"}],
             committed : SUBSET Paths]

\* transaction.json when it is not there or not readable.
Unreadable(status) == [status |-> status, dirExisted |-> TRUE,
                       action |-> [p \in Paths |-> "keep"], committed |-> {}]

NoMetadata == Unreadable("missing")

Init ==
    /\ setting \in Settings
    /\ dir = setting.start.dir /\ target = setting.start.files
    /\ there = FALSE /\ meta = NoMetadata /\ staged = NoFiles /\ backup = NoFiles
    /\ pc = "idle" /\ plan = NoMetadata.action /\ mem = NoMetadata /\ cursor = 1
    /\ after = "idle" /\ touched = FALSE /\ own = FALSE
    /\ origin = target /\ goal = target /\ moved = {} /\ outdated = FALSE
    /\ faults = 0 /\ crashes = 0 /\ edits = 0

Goto(where) == pc' = where

-----------------------------------------------------------------------------
(* Planning: buildInitPlan (without --force) and buildSyncPlan.  Actions    *)
(* skip and protected, and a path with no action, are "keep".               *)

InitAction(p) ==
    IF target[p] = "none" /\ p \notin {Obsolete[k] : k \in DOMAIN Obsolete}
    THEN "create" ELSE "keep"

SyncAction(p) ==
    CASE p = Version -> IF target[p] = "new" THEN "keep" ELSE "update"
      [] p \in {Obsolete[k] : k \in DOMAIN Obsolete} ->
           IF target[p] = "none" THEN "keep" ELSE "delete"
      [] OTHER ->
           IF target[p] = "none" THEN "create"
           ELSE IF target[p] = "new" \/ p \in Protected THEN "keep" ELSE "update"

NewPlan(kind) == [p \in Paths |-> IF kind = "init" THEN InitAction(p) ELSE SyncAction(p)]

Plan(kind) ==
    /\ pc = "idle"
    /\ kind = "sync" => dir
    /\ plan' = NewPlan(kind)
    /\ Goto("recover")
    /\ UNCHANGED <<disk, mem, cursor, after, touched, own, history, bounds>>

-----------------------------------------------------------------------------
(* applyAssetPlan: recover, open a transaction, stage, commit.              *)

MutantRecoverLook ==          \* only committed transactions are cleared away
    /\ pc = "recover"
    /\ there
    /\ mem' = meta /\ own' = FALSE
    /\ Goto(IF meta.status = "committed" THEN "purge" ELSE "idle")
    /\ UNCHANGED <<disk, plan, cursor, touched, after, history, bounds>>

\* recoverAssetTransactions: unreadable metadata stops the run.
RecoverLook ==
    /\ pc = "recover"
    /\ there
    /\ IF meta.status \in {"missing", "torn"}
       THEN Goto("idle") /\ UNCHANGED <<mem, cursor, touched, own>>
       ELSE /\ mem' = meta /\ own' = FALSE
            /\ cursor' = Len(Order) /\ touched' = FALSE
            /\ Goto(IF meta.status = "committed" THEN "purge" ELSE "undo")
    /\ UNCHANGED <<disk, plan, after, history, bounds>>

\* The metadata of a transaction is written with the status it is to have, then
\* the run goes on at `then`.
Save(then) == after' = then /\ Goto("save")

Open ==
    /\ pc = "recover"
    /\ ~there
    /\ there' = TRUE /\ meta' = NoMetadata /\ staged' = NoFiles /\ backup' = NoFiles
    /\ mem' = [status |-> "staging", dirExisted |-> dir, action |-> plan, committed |-> {}]
    /\ own' = TRUE /\ cursor' = 1
    /\ Save("stage")
    /\ origin' = target /\ moved' = {}
    /\ outdated' = (outdated \/ \A kind \in setting.kinds : plan # NewPlan(kind))
    /\ goal' = [f \in Files |->
                  IF f \in Paths /\ plan[f] \in {"create", "update"} THEN "new"
                  ELSE IF f \in Paths /\ plan[f] = "delete" THEN "none" ELSE target[f]]
    /\ UNCHANGED <<dir, target, plan, touched, bounds>>

\* writeMetadata.
Write ==
    /\ pc = "save"
    /\ meta' = mem
    /\ Goto(after)
    /\ UNCHANGED <<dir, target, there, staged, backup, plan, mem, cursor, after,
                   touched, own, history, bounds>>

Stage ==
    /\ pc = "stage"
    /\ cursor <= Len(Order)
    /\ staged' = IF mem.action[Order[cursor]] \in {"create", "update"}
                 THEN [staged EXCEPT ![Order[cursor]] = "new"] ELSE staged
    /\ cursor' = cursor + 1
    /\ UNCHANGED <<dir, target, there, meta, backup, pc, plan, mem, after,
                   touched, own, history, bounds>>

\* Two writes follow, with the statuses "staged" and "committing".
Staged ==
    /\ pc = "stage"
    /\ cursor > Len(Order)
    /\ cursor' = 1
    /\ mem' = [mem EXCEPT !.status = "staged"]
    /\ Save("staged")
    /\ UNCHANGED <<disk, plan, touched, own, history, bounds>>

StartCommit ==
    /\ pc = "staged"
    /\ mem' = [mem EXCEPT !.status = "committing"]
    /\ Save("commit")
    /\ UNCHANGED <<disk, plan, cursor, touched, own, history, bounds>>

\* validateTargetState.
TargetAsPlanned(p) ==
    /\ mem.action[p] = "create" => target[p] = "none"
    /\ mem.action[p] \in {"update", "delete"} => target[p] # "none"

Skip ==
    /\ pc = "commit" /\ cursor <= Len(Order)
    /\ mem.action[Order[cursor]] = "keep"
    /\ cursor' = cursor + 1
    /\ UNCHANGED <<disk, pc, plan, mem, after, touched, own, history, bounds>>

\* The old file, if there is one, is moved to the backup.
Backup ==
    LET p == Order[cursor] IN
    /\ pc = "commit" /\ cursor <= Len(Order)
    /\ mem.action[p] # "keep" /\ TargetAsPlanned(p)
    /\ IF target[p] = "none"
       THEN Goto("move") /\ UNCHANGED <<target, backup, after>>
       ELSE /\ backup' = [backup EXCEPT ![p] = target[p]]
            /\ target' = [target EXCEPT ![p] = "none"]
            /\ Save("move")
    /\ UNCHANGED <<dir, there, meta, staged, plan, mem, cursor, touched, own,
                   history, bounds>>

\* The staged file, unless the action is a delete, is moved to its place.
Move ==
    LET p == Order[cursor] IN
    /\ pc = "move"
    /\ IF mem.action[p] = "delete"
       THEN UNCHANGED <<dir, target, staged>>
       ELSE /\ target' = [target EXCEPT ![p] = staged[p]]
            /\ staged' = [staged EXCEPT ![p] = "none"]
            /\ dir' = TRUE
    /\ moved' = IF mem.action[p] = "delete" THEN moved ELSE moved \cup {p}
    /\ mem' = [mem EXCEPT !.committed = @ \cup {p}]
    /\ cursor' = cursor + 1
    /\ Save("commit")
    /\ UNCHANGED <<there, meta, backup, plan, touched, own, origin, goal,
                   outdated, bounds>>

Commit ==
    /\ pc = "commit" /\ cursor > Len(Order)
    /\ mem' = [mem EXCEPT !.status = "committed"]
    /\ Save("purge")
    /\ UNCHANGED <<disk, plan, cursor, touched, own, history, bounds>>

-----------------------------------------------------------------------------
(* rollbackTransaction and the removal of the transaction directory.        *)

\* Without a backup, a path is taken for one the transaction created when it is
\* recorded as committed, or when it was to be created and its staged file is
\* gone.
MutantRemoves(p) == p \in mem.committed \/ mem.action[p] = "create"

Removes(p) ==
    \/ p \in mem.committed
    \/ mem.action[p] = "create" /\ staged[p] = "none"

MutantUndo ==                 \* the backup is not moved back
    LET p == Order[cursor] IN
    /\ pc = "undo" /\ cursor >= 1
    /\ target' = IF backup[p] # "none" \/ Removes(p)
                 THEN [target EXCEPT ![p] = "none"] ELSE target
    /\ touched' = TRUE
    /\ cursor' = cursor - 1
    /\ UNCHANGED <<dir, there, meta, staged, backup, pc, plan, mem, after, own,
                   history, bounds>>

Undo ==
    LET p == Order[cursor] IN
    /\ pc = "undo" /\ cursor >= 1
    /\ IF backup[p] # "none"
       THEN /\ target' = [target EXCEPT ![p] = backup[p]]
            /\ backup' = [backup EXCEPT ![p] = "none"]
            /\ dir' = TRUE
            /\ touched' = TRUE
       ELSE /\ target' = IF Removes(p) THEN [target EXCEPT ![p] = "none"] ELSE target
            /\ touched' = (touched \/ (Removes(p) /\ target[p] # "none"))
            /\ UNCHANGED <<dir, backup>>
    /\ cursor' = cursor - 1
    /\ UNCHANGED <<there, meta, staged, pc, plan, mem, after, own, history, bounds>>

\* A target directory that did not exist before is removed with all it holds.
Undone ==
    /\ pc = "undo" /\ cursor = 0
    /\ IF ~mem.dirExisted /\ touched
       THEN dir' = FALSE /\ target' = [f \in Files |-> "none"]
       ELSE UNCHANGED <<dir, target>>
    /\ Goto("purge")
    /\ UNCHANGED <<there, meta, staged, backup, plan, mem, cursor, after, touched, own,
                   history, bounds>>

\* rm of the transaction directory, in whatever order its entries come.
Purge ==
    /\ pc = "purge"
    /\ \/ meta # NoMetadata /\ meta' = NoMetadata /\ UNCHANGED <<staged, backup>>
       \/ \E p \in Paths : /\ staged[p] # "none"
                           /\ staged' = [staged EXCEPT ![p] = "none"]
                           /\ UNCHANGED <<meta, backup>>
       \/ \E p \in Paths : /\ backup[p] # "none"
                           /\ backup' = [backup EXCEPT ![p] = "none"]
                           /\ UNCHANGED <<meta, staged>>
    /\ UNCHANGED <<dir, target, there, memory, history, bounds>>

Purged ==
    /\ pc = "purge"
    /\ meta = NoMetadata /\ staged = NoFiles /\ backup = NoFiles
    /\ there' = FALSE
    /\ Goto(IF own THEN "idle" ELSE "recover")
    /\ UNCHANGED <<dir, target, meta, staged, backup, plan, mem, cursor, after,
                   touched, own, history, bounds>>

-----------------------------------------------------------------------------
(* Errors, kills and the user.                                              *)

\* What the run is in the middle of.
Interruptible ==
    CASE pc = "idle" -> "nothing"
      [] pc \in {"purge", "stage"} -> pc
      [] pc = "undo" /\ cursor < Len(Order) -> "rollback"
      [] pc = "undo" /\ cursor = Len(Order) -> "rollback-start"
      [] pc = "save" /\ mem.status \in {"rolling-back", "rollback-failed"} ->
           "rollback-start"
      [] pc = "save" /\ mem.status = "staging" -> "open"
      [] OTHER -> "commit"

MayInterrupt == Interruptible \in setting.interrupts

\* An error in applyAssetPlan's own transaction starts the rollback, one in the
\* rollback is recorded as far as possible, and one in a recovery is thrown.
Fail ==
    \/ /\ ~own \/ pc = "recover" \/ mem.status = "rollback-failed"
       /\ Goto("idle") /\ UNCHANGED <<mem, cursor, after, touched>>
    \/ /\ own /\ pc # "recover" /\ mem.status = "rolling-back"
       /\ mem' = [mem EXCEPT !.status = "rollback-failed"]
       /\ Save("idle")
       /\ UNCHANGED <<cursor, touched>>
    \/ /\ own /\ pc # "recover" /\ mem.status \notin {"rolling-back", "rollback-failed"}
       /\ mem' = [mem EXCEPT !.status = "rolling-back"]
       /\ cursor' = Len(Order) /\ touched' = FALSE
       /\ Save("undo")

\* The target is not as planned.
Refuse ==
    /\ pc = "commit" /\ cursor <= Len(Order)
    /\ ~TargetAsPlanned(Order[cursor])
    /\ Fail
    /\ UNCHANGED <<disk, plan, own, history, bounds>>

\* A write that is cut short leaves metadata that is no JSON.
Torn ==
    \/ UNCHANGED meta
    \/ pc = "save" /\ "write" \in setting.interrupts /\ meta' = Unreadable("torn")

Fault ==
    /\ MayInterrupt
    /\ faults < setting.faults
    /\ faults' = faults + 1
    /\ Torn
    /\ Fail
    /\ UNCHANGED <<dir, target, there, staged, backup, plan, own, history, setting,
                   crashes, edits>>

Crash ==
    /\ MayInterrupt
    /\ crashes < setting.crashes
    /\ crashes' = crashes + 1
    /\ Torn
    /\ Goto("idle")
    /\ UNCHANGED <<dir, target, there, staged, backup, plan, mem, cursor, after, touched,
                   own, history, setting, faults, edits>>

\* The user, or another program, writes a file in the target.
Edit(f) ==
    /\ edits < setting.edits
    /\ edits' = edits + 1
    /\ target' = [target EXCEPT ![f] = "user"]
    /\ dir' = TRUE
    /\ UNCHANGED <<there, meta, staged, backup, memory, history, setting, faults, crashes>>

-----------------------------------------------------------------------------
Apply ==
    \/ RecoverLook \/ Open \/ Write \/ Stage \/ Staged \/ StartCommit
    \/ Skip \/ Backup \/ Move \/ Commit \/ Refuse
    \/ Undo \/ Undone \/ Purge \/ Purged

Run == (\E kind \in setting.kinds : Plan(kind)) \/ Apply

Next == Run \/ Fault \/ Crash \/ \E f \in Files : Edit(f)

Spec == Init /\ [][Next]_vars

\* A started command goes on, and somebody runs the command again.
FairSpec == Spec /\ WF_vars(Run)

-----------------------------------------------------------------------------
(* Properties.                                                              *)

TypeOK ==
    /\ dir \in BOOLEAN /\ there \in BOOLEAN /\ touched \in BOOLEAN /\ own \in BOOLEAN
    /\ outdated \in BOOLEAN
    /\ target \in [Files -> Contents]
    /\ meta \in Metadata \cup {NoMetadata, Unreadable("torn")}
    /\ mem \in Metadata \cup {NoMetadata}
    /\ staged \in [Paths -> {"none", "new"}] /\ backup \in [Paths -> Contents]
    /\ plan \in [Paths -> {"create", "update", "delete", "keep"}]
    /\ {pc, after} \subseteq {"idle", "recover", "save", "stage", "staged", "commit",
                              "move", "undo", "purge"}
    /\ cursor \in 0..Len(Order) + 1
    /\ pc = "move" => cursor \in DOMAIN Order
    /\ ~dir => \A f \in Files : target[f] = "none"
    /\ ~there => staged = NoFiles /\ backup = NoFiles
    /\ faults <= setting.faults /\ crashes <= setting.crashes /\ edits <= setting.edits

\* The code promises nothing for a plan that does not fit the target it is applied
\* to, and the recovery of a killed run can make it so: init and sync plan first.

\* When no transaction is left over, the last one has done all it was to do or
\* nothing, where the user leaves the target alone.
AllOrNothing == setting.edits = 0 /\ pc = "idle" /\ ~there /\ ~outdated => target \in {origin, goal}

AllNew ==
    \A p \in Paths :
        IF p \in {Obsolete[k] : k \in DOMAIN Obsolete} THEN target[p] = "none"
        ELSE target[p] = "new" \/ (p \in Protected /\ target[p] # "none")

NamesRelease == target[Version] = "new"

\* Where the user leaves the target alone, the version file is the last to change:
\* when it comes to name this release, every asset is of this release and nothing
\* obsolete is left.
VersionTells == [][setting.edits = 0 /\ ~NamesRelease /\ NamesRelease' /\ ~outdated => AllNew']_vars

\* A rollback of an interrupted commit removes no file that the user wrote, but
\* where the transaction has
\* put a file of its own or puts back the one that was there before.
RollbackKeepsUserFiles ==
    [][pc = "undo" /\ setting.interrupts = {"commit"} =>
         \A f \in Files : target[f] = "user" /\ target'[f] # "user" =>
                             f \in moved \/ (f \in Paths /\ backup[f] # "none")]_vars

\* Repeated syncs get every file to this release, whatever was interrupted.
EventuallyAllNew == setting.kinds = {"sync"} => <>[]AllNew
=============================================================================
