------------------------------- MODULE TaskTree -------------------------------
(***************************************************************************)
(* services/task_tree.py, task_archive.py, task_creation.py and            *)
(* task_repository.py: the directories of .cowork-flow/tasks and of its    *)
(* archive, the parent and children fields that relate them, and the       *)
(* commands that link, unlink, edit, create and archive tasks.             *)
(*                                                                         *)
(* A read of one task.json is a step, and so is a guarded write of one     *)
(* (StateStore implements CasRegister); what a command does between them   *)
(* is not.  A write takes the lock of its file first, and that makes the   *)
(* directory when it is not there.  link and unlink commit a unit of two   *)
(* writes, which whoever runs recover_all may finish (UnitOfWork).         *)
(*                                                                         *)
(* An archive's save of a relative (load, then replace) is one step.       *)
(* Context files, plan snapshots and sessions are left out, but a failure  *)
(* to write them is not.                                                   *)
(***************************************************************************)
EXTENDS Integers, FiniteSets

CONSTANTS
    Names,        \* task names
    None,         \* no name
    Procs,        \* concurrent commands
    Serial,       \* TRUE when commands come one after another
    MaxCommands,  \* bound: commands
    MaxDeps,      \* bound: dependencies of a created task
    MaxFaults,    \* bound: writes, copies and removals that fail
    MaxCrashes    \* bound: commands killed

ASSUME NamesAssumption == None \notin Names /\ Serial \in BOOLEAN

ASSUME BoundAssumption ==
    {MaxCommands, MaxDeps, MaxFaults, MaxCrashes} \subseteq Nat

VARIABLES
    active,    \* tasks/<name>
    stored,    \* tasks/archive/<month>/<name>
    pc,        \* where each command is
    cmd,       \* what it was asked to do
    seen,      \* the task.json it has loaded, by name
    walk,      \* the directory its cycle check has come to, and where it was
    todo,      \* the relatives an archive still has to read, write or restore
    queue,     \* whose operation records its recover_all has found pending
    unit,      \* the operation record of its link or unlink
    commands, faults, crashes,  \* spent bounds
    edits,     \* history: acknowledged edits of each task
    crossed,   \* history: archives that move their task while a link is between
               \* its check and its commit
    raced,     \* history: two links were there at once, or such an archive fell back
    blurred,   \* history: tasks of an archive or creation and another command
    stale,     \* history: what an archive of a blurred, torn or stale task had in hand
    torn       \* history: tasks of an archive or creation that was killed, of a
               \* command that could not be undone, and those created under the
               \* name of an archived one

tree == <<active, stored>>
memory == <<cmd, seen, walk, todo, queue>>
bounds == <<commands, faults, crashes>>
past == <<edits, crossed, raced, blurred, stale, torn>>
vars == <<tree, pc, memory, unit, bounds, past>>

-----------------------------------------------------------------------------
(* Directories.                                                            *)

Absent == [kind |-> "none"]
Husk   == [kind |-> "husk"]              \* a directory without a task.json
Full(doc) == [kind |-> "full", doc |-> doc]

\* _task_data
NewTask(deps) ==
    [rev |-> 1, status |-> "planning", parent |-> None, children |-> {},
     deps |-> deps, note |-> 0]

IsFull(d) == d.kind = "full"

RevOf(d) == IF IsFull(d) THEN d.doc.rev ELSE 0

\* StateStore._lock makes the directory of the file it locks.
Locked(d) == IF d = Absent THEN Husk ELSE d

MutantWritable(d, rev) == TRUE

Writable(d, rev) == RevOf(d) = rev

Written(d, doc) == Full([doc EXCEPT !.rev = RevOf(d) + 1])

\* find_task_dir, dependency_status: the active tree hides the archive.
Found(n) == IF active[n] # Absent THEN active[n] ELSE stored[n]

DependencyStatus(n) == IF IsFull(Found(n)) THEN Found(n).doc.status ELSE "none"

DependsOn(n) == IF IsFull(Found(n)) THEN Found(n).doc.deps ELSE {}

\* dependency_cycle_for_new
Leads(n, to) ==
    \E k \in 1..Cardinality(Names) : \E path \in [0..k -> Names] :
        /\ path[0] = n
        /\ path[k] = to
        /\ \A i \in 0..(k - 1) : path[i + 1] \in DependsOn(path[i])

-----------------------------------------------------------------------------
(* Commands.                                                               *)

Commands ==
    [kind : {"link", "unlink"}, task : Names, of : Names]
    \cup [kind : {"edit", "archive"}, task : Names]
    \cup [kind : {"create"}, task : Names, of : Names \cup {None},
          deps : {D \in SUBSET Names : Cardinality(D) <= MaxDeps}]

NoCommand == [kind |-> "none"]
NoUnit == [phase |-> "none"]

Running(p) == pc[p] \notin {"idle", "dead"}

\* What a command has in hand.
Hand(p) ==
    IF ~Running(p) THEN {}
    ELSE {cmd[p].task} \cup {n \in Names : seen[p][n] # Absent}
         \cup (IF cmd[p].kind \in {"link", "unlink", "create"} THEN {cmd[p].of} \ {None} ELSE {})

Goto(p, where) == pc' = [pc EXCEPT ![p] = where]

Saw(p, n) == seen' = [seen EXCEPT ![p][n] = active[n]]

\* The end of a command, whatever its answer.
Return(p) ==
    /\ Goto(p, "idle")
    /\ cmd'  = [cmd EXCEPT ![p] = NoCommand]
    /\ seen' = [seen EXCEPT ![p] = [n \in Names |-> Absent]]
    /\ walk' = [walk EXCEPT ![p] = [at |-> None, been |-> {}]]
    /\ todo' = [todo EXCEPT ![p] = {}]
    /\ queue' = [queue EXCEPT ![p] = {}]
    /\ unit' = [unit EXCEPT ![p] = NoUnit]

Fault == faults < MaxFaults /\ faults' = faults + 1

Well == UNCHANGED faults

\* A process is a new one: no list of pending records names it.
Start(p) ==
    /\ pc[p] = "idle"
    /\ commands < MaxCommands
    /\ \A q \in Procs : Running(q) => p \notin queue[q]
    /\ Serial => \A q \in Procs : ~Running(q)
    /\ \E c \in Commands :
        /\ cmd' = [cmd EXCEPT ![p] = c]
        /\ Goto(p, IF c.kind \in {"link", "unlink"} THEN "parent" ELSE c.kind)
    /\ commands' = commands + 1
    /\ UNCHANGED <<tree, seen, walk, todo, queue, unit, faults, crashes, edits, torn>>

-----------------------------------------------------------------------------
(* TaskTreeService.link and unlink.                                        *)

\* A creation that cannot link takes itself back.
Refuse(p) ==
    IF cmd[p].kind = "create"
    THEN Goto(p, "takeback") /\ UNCHANGED <<memory, unit>>
    ELSE Return(p)

Linked(p) ==
    IF cmd[p].kind = "create"
    THEN Goto(p, "anchor") /\ UNCHANGED <<memory, unit>>
    ELSE Return(p)

LoadParent(p) ==
    /\ pc[p] = "parent"
    /\ IF IsFull(active[cmd[p].of])
       THEN Saw(p, cmd[p].of) /\ Goto(p, "child") /\ UNCHANGED <<cmd, walk, todo, queue, unit>>
       ELSE Refuse(p)
    /\ UNCHANGED <<tree, bounds, edits, torn>>

LoadChild(p) ==
    /\ pc[p] = "child"
    /\ LET child == active[cmd[p].task]
           of == cmd[p].of
           listed == cmd[p].task \in seen[p][of].doc.children
           linking == cmd[p].kind # "unlink"
       IN  IF ~IsFull(child) \/ (linking /\ of = cmd[p].task)
              \/ child.doc.parent \notin {None, of}
           THEN Refuse(p)
           ELSE IF linking /\ child.doc.parent = of /\ listed THEN Linked(p)
           ELSE IF ~linking /\ child.doc.parent = None /\ ~listed THEN Return(p)
           ELSE /\ Saw(p, cmd[p].task)
                /\ walk' = [walk EXCEPT ![p].at = of]
                /\ Goto(p, IF linking THEN "walk" ELSE "list")
                /\ UNCHANGED <<cmd, todo, queue, unit>>
    /\ UNCHANGED <<tree, bounds, edits, torn>>

MutantWalk(p) ==                     \* looks at the parent only
    /\ pc[p] = "walk"
    /\ IF walk[p].at = cmd[p].task THEN Refuse(p)
       ELSE Goto(p, "list") /\ UNCHANGED <<memory, unit>>
    /\ UNCHANGED <<tree, bounds, edits, torn>>

\* _reject_cycle: one file a step.
Walk(p) ==
    /\ pc[p] = "walk"
    /\ LET at == walk[p].at
           above == IF IsFull(active[at]) THEN active[at].doc.parent ELSE None
       IN  IF at = cmd[p].task \/ at \in walk[p].been
           THEN Refuse(p)
           ELSE /\ walk' = [walk EXCEPT ![p] = [at |-> above, been |-> @.been \cup {at}]]
                /\ Goto(p, IF above = None THEN "list" ELSE "walk")
                /\ UNCHANGED <<cmd, seen, todo, queue, unit>>
    /\ UNCHANGED <<tree, bounds, edits, torn>>

\* The two documents a unit puts in place.
After(p) ==
    LET parent == seen[p][cmd[p].of].doc
        child == seen[p][cmd[p].task].doc
    IN  IF cmd[p].kind = "unlink"
        THEN <<[parent EXCEPT !.children = @ \ {cmd[p].task}],
               [child EXCEPT !.parent = None]>>
        ELSE <<[parent EXCEPT !.children = @ \cup {cmd[p].task}],
               [child EXCEPT !.parent = cmd[p].of]>>

Pending == {q \in Procs : unit[q].phase \in {"prepared", "half"}}

\* One write of the unit of q, by q or by a recovery; a refused one ends it.
First(q) ==
    LET u == unit[q] IN
    /\ IF Writable(active[u.of], u.before[1].rev)
       THEN /\ active' = [active EXCEPT ![u.of] = Written(@, u.after[1])]
            /\ unit' = [unit EXCEPT ![q].phase = "half"]
       ELSE /\ active' = [active EXCEPT ![u.of] = Locked(@)]
            /\ unit' = [unit EXCEPT ![q].phase = "conflicted"]
    /\ UNCHANGED torn

MutantUndone(u, d) == d

\* Something newer is over what the first write of the unit put there.
Overtaken(u) == RevOf(active[u.of]) # u.before[1].rev + 1

\* _rollback_applied: what the unit wrote, if nothing newer is there.
Undone(u, d) ==
    IF RevOf(d) = u.before[1].rev + 1 THEN Written(d, u.before[1]) ELSE d

Second(q) ==
    LET u == unit[q]
        locked == [active EXCEPT ![u.task] = Locked(@)]
    IN
    IF Writable(active[u.task], u.before[2].rev)
    THEN /\ active' = [active EXCEPT ![u.task] = Written(@, u.after[2])]
         /\ unit' = [unit EXCEPT ![q].phase = "committed"]
         /\ UNCHANGED torn
    ELSE /\ active' = [locked EXCEPT ![u.of] = Undone(u, @)]
         /\ unit' = [unit EXCEPT ![q].phase = "conflicted"]
         /\ torn' = IF Overtaken(u) THEN torn \cup {u.of, u.task} ELSE torn

Advance(q) ==
    IF unit[q].phase = "prepared" THEN First(q) ELSE Second(q)

\* recover_all lists the pending records once, then applies them.
List(p) ==
    /\ pc[p] = "list"
    /\ queue' = [queue EXCEPT ![p] = Pending]
    /\ Goto(p, "settle")
    /\ UNCHANGED <<tree, cmd, seen, walk, todo, unit, bounds, edits, torn>>

\* A unit that conflicts fails the command that recovers it; so may one that
\* was decided after it was listed.
Recover(p) ==
    /\ pc[p] = "settle"
    /\ \/ \E q \in queue[p] \cap Pending :
            Advance(q) /\ Goto(p, IF unit'[q].phase = "conflicted" THEN "refused" ELSE "settle")
       \/ queue[p] \ Pending # {} /\ Goto(p, "refused") /\ UNCHANGED <<active, unit, torn>>
    /\ UNCHANGED <<stored, memory, bounds, edits>>

\* The record of the operation; from here a recovery may take it over.
Prepare(p) ==
    /\ pc[p] = "settle"
    /\ queue[p] \cap Pending = {}
    /\ unit' = [unit EXCEPT ![p] =
            [phase |-> "prepared", task |-> cmd[p].task, of |-> cmd[p].of,
             before |-> <<seen[p][cmd[p].of].doc, seen[p][cmd[p].task].doc>>,
             after |-> After(p)]]
    /\ Goto(p, "commit")
    /\ UNCHANGED <<tree, memory, bounds, edits, torn>>

Commit(p) ==
    /\ pc[p] = "commit"
    /\ unit[p].phase \in {"prepared", "half"}
    /\ Advance(p)
    /\ UNCHANGED <<stored, pc, memory, bounds, edits>>

Committed(p) ==
    /\ \/ pc[p] = "commit" /\ unit[p].phase = "committed" /\ Linked(p)
       \/ pc[p] = "commit" /\ unit[p].phase = "conflicted" /\ Refuse(p)
       \/ pc[p] = "refused" /\ Refuse(p)
    /\ UNCHANGED <<tree, bounds, edits, torn>>

-----------------------------------------------------------------------------
(* TaskRepository.save, as task services call it.                          *)

EditLoad(p) ==
    /\ pc[p] = "edit"
    /\ IF IsFull(active[cmd[p].task])
       THEN Saw(p, cmd[p].task) /\ Goto(p, "save") /\ UNCHANGED <<cmd, walk, todo, queue, unit>>
       ELSE Return(p)
    /\ UNCHANGED <<tree, bounds, edits, torn>>

Save(p) ==
    /\ pc[p] = "save"
    /\ LET n == cmd[p].task
           doc == seen[p][n].doc
           kept == Writable(active[n], doc.rev)
       IN  /\ active' = [active EXCEPT ![n] =
                 IF kept THEN Written(@, [doc EXCEPT !.note = @ + 1]) ELSE Locked(@)]
           /\ edits' = [edits EXCEPT ![n] = IF kept THEN @ + 1 ELSE @]
    /\ Return(p)
    /\ UNCHANGED <<stored, bounds, torn>>

-----------------------------------------------------------------------------
(* TaskArchiveService.archive.                                             *)

Relatives(doc) == ({doc.parent} \ {None}) \cup doc.children

ArchiveLoad(p) ==
    /\ pc[p] = "archive"
    /\ LET d == active[cmd[p].task] IN
       IF IsFull(d) /\ d.doc.status = "completed"
       THEN /\ Saw(p, cmd[p].task)
            /\ todo' = [todo EXCEPT ![p] = Relatives(d.doc)]
            /\ Goto(p, "relatives")
            /\ UNCHANGED <<cmd, walk, queue, unit>>
       ELSE Return(p)
    /\ UNCHANGED <<tree, bounds, edits, torn>>

\* _relationship_updates: one relative a step; one that is gone is left out.
ReadRelative(p) ==
    /\ pc[p] = "relatives"
    /\ \/ \E r \in todo[p] :
            /\ IF IsFull(active[r]) THEN Saw(p, r) ELSE UNCHANGED seen
            /\ todo' = [todo EXCEPT ![p] = @ \ {r}]
            /\ UNCHANGED pc
       \/ todo[p] = {} /\ Goto(p, "copy") /\ UNCHANGED <<seen, todo>>
    /\ UNCHANGED <<tree, cmd, walk, queue, unit, bounds, edits, torn>>

Updates(p) == {r \in Names \ {cmd[p].task} : IsFull(seen[p][r])}

\* archive_directory_resumable: copy, compare, remove.
Copy(p) ==
    /\ pc[p] = "copy"
    /\ LET n == cmd[p].task IN
       \/ /\ active[n] # Absent
          /\ Well
          /\ stored' = [stored EXCEPT ![n] = IF @ = Absent THEN active[n] ELSE @]
          /\ Goto(p, "compare")
          /\ UNCHANGED <<memory, unit, torn>>
       \/ /\ active[n] # Absent /\ stored[n] = Absent
          /\ Fault
          /\ stored' = [stored EXCEPT ![n] = Husk]
          /\ torn' = torn \cup {n}
          /\ Return(p)
       \/ active[n] = Absent /\ Well /\ Return(p) /\ UNCHANGED <<stored, torn>>
    /\ UNCHANGED <<active, commands, crashes, edits>>

Compare(p) ==
    /\ pc[p] = "compare"
    /\ IF active[cmd[p].task] = stored[cmd[p].task]
       THEN Goto(p, "remove") /\ UNCHANGED <<memory, unit, torn>>
       ELSE Return(p) /\ torn' = torn \cup {cmd[p].task}
    /\ UNCHANGED <<tree, bounds, edits>>

MutantRemove(p) ==                   \* a removal that fails is ignored
    /\ pc[p] = "remove"
    /\ \/ Well /\ active' = [active EXCEPT ![cmd[p].task] = Absent]
       \/ Fault /\ active' = [active EXCEPT ![cmd[p].task] = Husk]
    /\ Goto(p, "mark")
    /\ UNCHANGED <<stored, memory, unit, commands, crashes, edits, torn>>

Remove(p) ==
    /\ pc[p] = "remove"
    /\ \/ /\ active[cmd[p].task] # Absent /\ Well
          /\ active' = [active EXCEPT ![cmd[p].task] = Absent]
          /\ Goto(p, "mark")
          /\ UNCHANGED <<memory, unit, torn>>
       \/ /\ IF active[cmd[p].task] = Absent THEN Well /\ UNCHANGED active
             ELSE Fault /\ active' = [active EXCEPT ![cmd[p].task] = Husk]
          /\ torn' = torn \cup {cmd[p].task}
          /\ Return(p)
    /\ UNCHANGED <<stored, commands, crashes, edits>>

Mark(p) ==
    /\ pc[p] = "mark"
    /\ todo' = [todo EXCEPT ![p] = Updates(p)]
    /\ LET n == cmd[p].task IN
       \/ /\ IsFull(stored[n]) /\ Well
          /\ stored' = [stored EXCEPT ![n] = Written(@, [@.doc EXCEPT !.status = "completed"])]
          /\ Goto(p, "relate")
       \/ /\ IF IsFull(stored[n]) THEN Fault ELSE Well
          /\ Goto(p, "restore")
          /\ UNCHANGED stored
    /\ UNCHANGED <<active, cmd, seen, walk, queue, unit, commands, crashes, edits, torn>>

\* What the archive of n writes into a relative: its parent gets the children
\* that were read before the move, its child loses whatever parent it has.
Parted(p, r, doc) ==
    IF seen[p][cmd[p].task].doc.parent = r
    THEN [doc EXCEPT !.children = seen[p][r].doc.children \ {cmd[p].task}]
    ELSE [doc EXCEPT !.parent = None]

\* _apply_relationship_updates
Relate(p) ==
    /\ pc[p] = "relate"
    /\ \/ \E r \in todo[p] :
            /\ Well
            /\ IsFull(active[r])
            /\ active' = [active EXCEPT ![r] = Written(@, Parted(p, r, @.doc))]
            /\ todo' = [todo EXCEPT ![p] = @ \ {r}]
            /\ UNCHANGED pc
       \/ /\ todo[p] # {}
          /\ IF \E r \in todo[p] : ~IsFull(active[r]) THEN Well ELSE Fault
          /\ todo' = [todo EXCEPT ![p] = Updates(p)]
          /\ Goto(p, "restore")
          /\ UNCHANGED active
       \/ todo[p] = {} /\ Well /\ Goto(p, "files") /\ UNCHANGED <<active, todo>>
    /\ UNCHANGED <<stored, cmd, seen, walk, queue, unit, commands, crashes, edits, torn>>

\* _normalize_context_paths, _snapshot_plan_file, the finalizer
Files(p) ==
    /\ pc[p] = "files"
    /\ \/ Well /\ Return(p)
       \/ /\ Fault
          /\ todo' = [todo EXCEPT ![p] = Updates(p)]
          /\ Goto(p, "restore")
          /\ UNCHANGED <<cmd, seen, walk, queue, unit>>
    /\ UNCHANGED <<tree, commands, crashes, edits, torn>>

\* _restore_relationships: the whole document, at whatever revision.
Restore(p) ==
    /\ pc[p] = "restore"
    /\ \/ \E r \in todo[p] :
            /\ todo' = [todo EXCEPT ![p] = @ \ {r}]
            /\ \/ Well /\ active' = [active EXCEPT ![r] = Written(@, seen[p][r].doc)]
                  /\ UNCHANGED torn
               \/ Fault /\ torn' = torn \cup Hand(p) /\ UNCHANGED active
            /\ UNCHANGED pc
       \/ todo[p] = {} /\ Goto(p, "back") /\ UNCHANGED <<active, todo, faults, torn>>
    /\ UNCHANGED <<stored, cmd, seen, walk, queue, unit, commands, crashes, edits>>

\* _restore_directory
Back(p) ==
    /\ pc[p] = "back"
    /\ Goto(p, "rewrite")
    /\ LET n == cmd[p].task IN
       \/ /\ active[n] = Absent /\ stored[n] # Absent /\ Well
          /\ active' = [active EXCEPT ![n] = stored[n]]
          /\ stored' = [stored EXCEPT ![n] = Absent]
          /\ UNCHANGED torn
       \/ /\ active[n] # Absent \/ stored[n] = Absent
          /\ Well
          /\ torn' = torn \cup Hand(p)
          /\ UNCHANGED tree
       \/ /\ active[n] = Absent /\ stored[n] # Absent /\ Fault
          /\ active' = [active EXCEPT ![n] = Husk]
          /\ torn' = torn \cup Hand(p)
          /\ UNCHANGED stored
    /\ UNCHANGED <<memory, unit, commands, crashes, edits>>

\* _restore_task_json, if the directory is back
Rewrite(p) ==
    /\ pc[p] = "rewrite"
    /\ LET n == cmd[p].task IN
       \/ /\ Well
          /\ active' = [active EXCEPT ![n] =
                IF @ = Absent THEN @ ELSE Written(@, seen[p][n].doc)]
          /\ UNCHANGED torn
       \/ Fault /\ torn' = torn \cup Hand(p) /\ UNCHANGED active
    /\ Return(p)
    /\ UNCHANGED <<stored, commands, crashes, edits>>

-----------------------------------------------------------------------------
(* TaskCreationService.create.                                             *)

\* The directory must not be there; dependencies must, and close no cycle.
CreateCheck(p) ==
    /\ pc[p] = "create"
    /\ LET n == cmd[p].task
           deps == cmd[p].deps
       IN  IF /\ active[n] = Absent
              /\ n \notin deps
              /\ \A d \in deps : Found(d) # Absent /\ ~Leads(d, n)
           THEN Goto(p, "mkdir") /\ UNCHANGED <<memory, unit>>
           ELSE Return(p)
    /\ UNCHANGED <<tree, bounds, edits, torn>>

Mkdir(p) ==
    /\ pc[p] = "mkdir"
    /\ active' = [active EXCEPT ![cmd[p].task] = Locked(@)]
    /\ Goto(p, "write")
    /\ UNCHANGED <<stored, memory, unit, bounds, edits, torn>>

\* _write_task_json expects no file; _link_parent skips a parent that is gone.
WriteTask(p) ==
    /\ pc[p] = "write"
    /\ LET n == cmd[p].task
           new == NewTask(cmd[p].deps)
       IN  \/ /\ Writable(active[n], 0) /\ Well
              /\ active' = [active EXCEPT ![n] = Full(new)]
              /\ seen' = [seen EXCEPT ![p][n] = Full(new)]
              /\ edits' = [edits EXCEPT ![n] = 0]
              /\ torn' = IF stored[n] # Absent THEN torn \cup {n} ELSE torn
              /\ Goto(p, IF cmd[p].of # None /\ IsFull(active[cmd[p].of])
                         THEN "parent" ELSE "anchor")
           \/ /\ IF Writable(active[n], 0) THEN Fault ELSE Well
              /\ active' = [active EXCEPT ![n] = Locked(@)]
              /\ Goto(p, "takeback")
              /\ UNCHANGED <<seen, edits, torn>>
    /\ UNCHANGED <<stored, cmd, walk, todo, queue, unit, commands, crashes>>

\* _generate_anchor
Anchor(p) ==
    /\ pc[p] = "anchor"
    /\ \/ Well /\ Return(p)
       \/ Fault /\ Goto(p, "takeback") /\ UNCHANGED <<memory, unit>>
    /\ UNCHANGED <<tree, commands, crashes, edits, torn>>

\* _remove_created_artifacts: the task.json if this call wrote one, and the
\* directory if that leaves it empty.
TakeBack(p) ==
    /\ pc[p] = "takeback"
    /\ LET n == cmd[p].task
           wrote == IsFull(seen[p][n])
       IN  /\ active' = [active EXCEPT ![n] = IF IsFull(@) /\ ~wrote THEN @ ELSE Absent]
           /\ torn' = torn \cup (IF wrote THEN Hand(p) ELSE {})
    /\ Return(p)
    /\ UNCHANGED <<stored, bounds, edits>>

-----------------------------------------------------------------------------
Crash(p) ==
    /\ Running(p)
    /\ crashes < MaxCrashes
    /\ crashes' = crashes + 1
    /\ Goto(p, "dead")
    /\ torn' = torn \cup (IF cmd[p].kind \in {"archive", "create"} THEN Hand(p) ELSE {})
    /\ UNCHANGED <<tree, memory, unit, commands, faults, edits>>

Link(p) == LoadParent(p) \/ LoadChild(p) \/ Walk(p) \/ List(p) \/ Recover(p) \/ Prepare(p)
           \/ Commit(p) \/ Committed(p)

Archive(p) == ArchiveLoad(p) \/ ReadRelative(p) \/ Copy(p) \/ Compare(p) \/ Remove(p)
              \/ Mark(p) \/ Relate(p) \/ Files(p) \/ Restore(p) \/ Back(p) \/ Rewrite(p)

Create(p) == CreateCheck(p) \/ Mkdir(p) \/ WriteTask(p) \/ Anchor(p) \/ TakeBack(p)

\* A killed link holds its two tasks until its unit is recovered.
Holds(p) == Hand(p) \cup (IF p \in Pending THEN {unit[p].task, unit[p].of} ELSE {})

\* Two commands at work on the same task, one an archive or a creation.
Blur ==
    {n \in Names : \E p, q \in Procs :
        p # q /\ n \in Hand(p) \cap Holds(q) /\ cmd[p].kind \in {"archive", "create"}}

\* What is in the hands of an archive whose task others may have written since
\* it was read: what it writes to the relatives need not fit any longer.
Spread ==
    {n \in Names : \E p \in Procs :
        /\ n \in Hand(p)' /\ cmd'[p].kind = "archive"
        /\ cmd'[p].task \in blurred' \cup torn' \cup stale}

\* From its check to its second write; a killed one, until it is recovered.
Linking(p) == pc[p] \in {"walk", "list", "settle", "commit"} \/ p \in Pending

Race == \E p, q \in Procs : p # q /\ Linking(p) /\ Linking(q)

\* Between the removal of its task and its end, and from its first failure on.
Away(p) == pc[p] \in {"mark", "relate", "files", "restore", "back", "rewrite"}

FallsBack(p) == pc[p] \in {"restore", "back", "rewrite"}

Cross == {p \in Procs : Away(p) /\ \E q \in Procs : Linking(q)}

Step(p) ==
    Start(p) \/ Link(p) \/ EditLoad(p) \/ Save(p) \/ Archive(p) \/ Create(p) \/ Crash(p)

Next ==
    /\ \E p \in Procs : Step(p)
    /\ blurred' = blurred \cup Blur'
    /\ stale' = stale \cup Spread
    /\ crossed' = {p \in Procs : Away(p)' /\ p \in crossed \cup Cross'}
    /\ raced' = (raced \/ Race' \/ \E p \in crossed' : FallsBack(p)')

\* No set of tasks has all its parents in it.
Forests ==
    {f \in [Names -> Names \cup {None}] :
        \A S \in (SUBSET Names) \ {{}} : \E n \in S : f[n] \notin S}

\* The tasks that are here, in a forest, some of them completed.
Planted(f, here, done) ==
    [n \in Names |->
        IF n \notin here THEN Absent
        ELSE Full([NewTask({}) EXCEPT
              !.status = IF n \in done THEN "completed" ELSE "planning",
              !.parent = f[n], !.children = {m \in Names : f[m] = n}])]

Init ==
    /\ \E f \in Forests, here, done \in SUBSET Names :
        /\ \A n \in Names \ here : f[n] = None /\ \A m \in Names : f[m] # n
        /\ done \subseteq here
        /\ active = Planted(f, here, done)
    /\ stored = [n \in Names |-> Absent]
    /\ pc = [p \in Procs |-> "idle"]
    /\ cmd = [p \in Procs |-> NoCommand]
    /\ seen = [p \in Procs |-> [n \in Names |-> Absent]]
    /\ walk = [p \in Procs |-> [at |-> None, been |-> {}]]
    /\ todo = [p \in Procs |-> {}]
    /\ queue = [p \in Procs |-> {}]
    /\ unit = [p \in Procs |-> NoUnit]
    /\ commands = 0 /\ faults = 0 /\ crashes = 0
    /\ edits = [n \in Names |-> 0]
    /\ crossed = {} /\ raced = FALSE /\ blurred = {} /\ stale = {} /\ torn = {}

Spec == Init /\ [][Next]_vars

-----------------------------------------------------------------------------
(* Properties.                                                             *)

Docs ==
    [rev : Nat, status : {"planning", "completed"}, parent : Names \cup {None},
     children : SUBSET Names, deps : SUBSET Names, note : Nat]

Dirs == {Absent, Husk} \cup [kind : {"full"}, doc : Docs]

Units ==
    {NoUnit} \cup
    [phase : {"prepared", "half", "conflicted", "committed"}, task : Names, of : Names,
     before : Docs \X Docs, after : Docs \X Docs]

LinkSteps == {"parent", "child", "walk", "list", "settle", "commit", "refused"}

ArchiveSteps ==
    {"archive", "relatives", "copy", "compare", "remove", "mark", "relate", "files",
     "restore", "back", "rewrite"}

CreateSteps == {"create", "mkdir", "write", "anchor", "takeback"}

Places == {"idle", "dead", "edit", "save"} \cup LinkSteps \cup ArchiveSteps \cup CreateSteps

\* Every task.json that is there, loaded, staged or put back is one of a task,
\* and every command is at a step of its own.
TypeOK ==
    /\ {active, stored} \subseteq [Names -> Dirs]
    /\ pc \in [Procs -> Places]
    /\ cmd \in [Procs -> Commands \cup {NoCommand}]
    /\ seen \in [Procs -> [Names -> Dirs]]
    /\ walk \in [Procs -> [at : Names \cup {None}, been : SUBSET Names]]
    /\ todo \in [Procs -> SUBSET Names]
    /\ queue \in [Procs -> SUBSET Procs]
    /\ unit \in [Procs -> Units]
    /\ {commands, faults, crashes} \subseteq Nat
    /\ edits \in [Names -> Nat]
    /\ crossed \subseteq Procs /\ raced \in BOOLEAN
    /\ blurred \subseteq Names /\ stale \subseteq Names /\ torn \subseteq Names

Quiet == (\A p \in Procs : ~Running(p)) /\ Pending = {}

Clear(n) == n \notin blurred \cup torn

Sound(n) == Clear(n) /\ n \notin stale

\* When nothing runs and no unit is pending, the two ends of a link agree, and
\* no task names one that is not there: whatever links, unlinks, edits,
\* failures and recoveries went before (two files are written for one link),
\* and after every archive that ended, with or without success.  Only tasks
\* of a command that was killed or could not be undone, or that shared a task
\* with an archive or a creation, and those an archive of a task so excused
\* had in hand, are excused.
LinksAgree ==
    Quiet => \A n \in Names : Sound(n) /\ IsFull(active[n]) =>
        /\ \A m \in active[n].doc.children :
              Sound(m) => IsFull(active[m]) /\ active[m].doc.parent = n
        /\ LET m == active[n].doc.parent IN
           m # None /\ Sound(m) => IsFull(active[m]) /\ n \in active[m].doc.children

Cyclic(tasks) ==
    \E k \in 1..Cardinality(tasks) : \E path \in [0..k -> tasks] :
        /\ path[k] = path[0]
        /\ \A i \in 0..(k - 1) :
             IsFull(active[path[i]]) /\ active[path[i]].doc.parent = path[i + 1]

\* The parents of a task lead to a root.  Cycle checks read one file after
\* the other, before recover_all, and only the two tasks of a link are guarded
\* by revisions: a cycle can come only of two links under way at the same
\* time, a killed one being under way until it is recovered, or of a link
\* under way while an archive of the task falls back.
CycleHasACause == raced \/ ~Cyclic({n \in Names : Clear(n)})

\* An archived task is found once, completed, and nothing of it is left in
\* the active tree to hide it from the tasks that depend on it; an active
\* task has left nothing in the archive.
OneHome ==
    Quiet => \A n \in Names : Clear(n) =>
        /\ active[n] = Absent \/ stored[n] = Absent
        /\ IsFull(stored[n]) => DependencyStatus(n) = "completed"

\* An edit that was acknowledged stays: no link, archive, failed archive or
\* recovery puts an older document over it, unless it ran on the task at the
\* same time as an archive.
EditKept ==
    \A n \in Names : Clear(n) /\ n \notin UNION {Hand(p) : p \in Procs} /\ IsFull(Found(n)) =>
        Found(n).doc.note = edits[n]
=============================================================================
