------------------------------ MODULE UnitOfWork ------------------------------
(***************************************************************************)
(* infra/storage/unit_of_work.py and operation_log.py: operations that     *)
(* replace or delete several state documents, each with a log record that  *)
(* lets any process finish it.                                             *)
(*                                                                         *)
(* An operation belongs to the process that makes it, the worker of the    *)
(* same number.  Like every service it first runs recover_all, then stages *)
(* its participants and commits.  Recoverers are processes that only run   *)
(* recover_all.  Direct writers are those that load one document and       *)
(* replace or delete it without a log and without recovering: claim and    *)
(* clear of a session, TaskRepository.save.                                *)
(*                                                                         *)
(* A store call on one document is one step (StateStore implements         *)
(* CasRegister), but what the code does between two store calls is not:    *)
(* load and replace of the log in OperationLog.save, load and replace of a *)
(* document in a rollback, and the read of the pending records and their   *)
(* use are separate steps.                                                 *)
(*                                                                         *)
(* Operation ids end in a uuid4, so no worker finds a record of its own    *)
(* operation: the comparison of request fingerprints in commit is left     *)
(* out.                                                                    *)
(***************************************************************************)
EXTENDS Integers, Sequences, FiniteSets, FiniteSetsExt

CONSTANTS
    N,            \* operations are 1..N; their log files sort in this order
    Plan,         \* of each operation: its sequence of [file, kind]
    Files,        \* the state documents
    Existing,     \* the documents that exist at first
    Direct,       \* the operations that are single writes without a record
    Recoverers,   \* processes that only run recover_all
    Settings      \* under which bounds a behaviour runs: see Setting

Ops == 1..N

Units == Ops \ Direct

Workers == Ops \cup Recoverers

ASSUME PlanAssumption ==
    /\ N \in Nat \ {0}
    /\ Plan \in [Ops -> Seq([file : Files, kind : {"replace", "delete"}])]
    /\ Existing \subseteq Files
    /\ \A o \in Ops : Len(Plan[o]) > 0
    /\ Direct \subseteq {o \in Ops : Len(Plan[o]) = 1}

ASSUME WorkerAssumption == Recoverers \cap Int = {}

\* Whether units and recoveries come one after another, the single writes that
\* are made, and bounds: processes killed, those of them killed inside a store
\* call, holding its lock, and calls that time out on a lock of a live process.
Setting == [serial : BOOLEAN, writers : SUBSET Direct,
            crashes : Nat, lockDeaths : Nat, timeouts : Nat]

ASSUME SettingAssumption == \A s \in Settings : s \in Setting

\* Operation ids as the documents carry them: of o, and of the rollback of o's
\* participant i.  An operation's payload is its number, 0 is the initial one.
OpId(o) == <<o, 0>>
RollbackId(o, i) == <<o, i>>
OpIds == (0..N) \X Nat
Payloads == 0..N

Store == INSTANCE CasDocument WITH
    Procs <- Workers, Ops <- OpIds, Values <- Payloads, NoOp <- <<>>,
    NoValue <- -1, AnyRevision <- -1, NoCall <- <<>>,
    Kinds <- {"replace", "delete"}, Blind <- FALSE

Missing == Store!Absent

Indices(o) == DOMAIN Plan[o]

VARIABLES
    setting,   \* the member of Settings it runs under
    file,      \* the documents
    log,       \* the log file of each operation: its revision and its record
    stuck,     \* documents and operations whose lock file a dead process left
    pc,        \* where each worker is
    work,      \* the operation it is applying
    rec,       \* its copy of the operation's record
    cursor,    \* the participant it stages or applies, the log file it scans
    seen,      \* the revision of the log or the document it loaded last
    todo,      \* participants its rollback has still to look at
    failed,    \* its rollback met an error
    queue,     \* records its recover_all has read and not applied yet
    effects,   \* history: participants of each operation done and not undone
    crashes, lockDeaths, timeouts \* how often each happened

storeVars  == <<file, log, stuck>>
memoryVars == <<work, rec, cursor, seen, todo, failed, queue>>
faultVars  == <<crashes, lockDeaths, timeouts>>
vars == <<setting, storeVars, pc, memoryVars, effects, faultVars>>

-----------------------------------------------------------------------------
(* Records.                                                                *)

NoError == <<0, "none">>

\* _record: the participants as staged.
NewRecord(o) ==
    [phase |-> "prepared", applied |-> {}, error |-> NoError,
     rolledBack |-> "unset",
     parts |-> [i \in Indices(o) |-> [expected |-> 0, before |-> -1, existed |-> FALSE]]]

NoRecord == [phase |-> "none", applied |-> {}, error |-> NoError,
             rolledBack |-> "unset", parts |-> <<>>]

FinalPhases == {"committed", "conflicted"}

Final(r) == r.phase \in FinalPhases

MutantPendingConflicts(r) == r.phase \notin {"none", "committed"}

MutantPendingApplying(r) == r.phase = "applying"

\* What recover_all picks up; "none" stands for a log file that is not there.
Pending(r) == r.phase # "none" /\ ~Final(r)

\* The store call that carries out participant i of o.
MutationCall(o, r, i) ==
    [kind |-> Plan[o][i].kind, op |-> OpId(o), data |-> o,
     expected |-> r.parts[i].expected]

\* Whatever is there is taken for what o left.
MutantOursAnyWriter(o, r, i, d) ==
    IF Plan[o][i].kind = "replace" THEN d.exists ELSE r.parts[i].existed /\ ~d.exists

\* Whether a rollback of o finds participant i as o left it.
OursToUndo(o, r, i, d) ==
    IF Plan[o][i].kind = "replace"
    THEN d.exists /\ d.op = OpId(o) /\ d.data = o
    ELSE r.parts[i].existed /\ ~d.exists

\* The store call that undoes it, given the document d the rollback loaded.
UndoCall(o, r, i, rev) ==
    [kind |-> IF r.parts[i].existed THEN "replace" ELSE "delete",
     op |-> RollbackId(o, i), data |-> r.parts[i].before, expected |-> rev]

Init ==
    /\ setting \in Settings
    /\ file = [f \in Files |->
                 IF f \in Existing
                 THEN [exists |-> TRUE, rev |-> 1, op |-> OpId(0), data |-> 0]
                 ELSE Missing]
    /\ log = [o \in Ops |-> [rev |-> 0, record |-> NoRecord]]
    /\ stuck = {}
    /\ pc = [w \in Workers |-> IF w \in Ops THEN "new" ELSE "idle"]
    /\ work = [w \in Workers |-> IF w \in Ops THEN w ELSE 0]
    /\ rec = [w \in Workers |-> NoRecord]
    /\ cursor = [w \in Workers |-> 1]
    /\ seen = [w \in Workers |-> 0]
    /\ todo = [w \in Workers |-> {}]
    /\ failed = [w \in Workers |-> FALSE]
    /\ queue = [w \in Workers |-> <<>>]
    /\ effects = [o \in Ops |-> {}]
    /\ crashes = 0 /\ lockDeaths = 0 /\ timeouts = 0

-----------------------------------------------------------------------------
(* Store calls and control.                                                *)

Resting == {"new", "idle", "done", "raised", "dead"}

\* In a serial setting, no unit and no recovery starts while another one is running;
\* single writes are made at any time.
MayStart(w) == setting.serial => \A v \in Workers \ (Direct \cup {w}) : pc[v] \in Resting

Goto(w, where) == pc' = [pc EXCEPT ![w] = where]

\* w waits for the lock of x, a document or a log, until the timeout: the lock
\* file of a dead process does not go away by itself, that of a live one may
\* be held too long.
LockTimeout(x) ==
    \/ /\ x \in stuck
       /\ UNCHANGED faultVars
    \/ /\ x \notin stuck
       /\ timeouts < setting.timeouts
       /\ timeouts' = timeouts + 1
       /\ UNCHANGED <<crashes, lockDeaths>>

DoCall(f, c) ==
    file' = IF Store!Changes(file[f], c)
            THEN [file EXCEPT ![f] = Store!CallEffect(file[f], c)]
            ELSE file

Succeeds(f, c) == Store!CallAnswer(file[f], c) \in {"ok", "false"}

WriteLog(o, r) == log' = [log EXCEPT ![o] = [rev |-> @.rev + 1, record |-> r]]

Forget(w) ==
    /\ rec' = [rec EXCEPT ![w] = NoRecord]
    /\ cursor' = [cursor EXCEPT ![w] = 1]
    /\ seen' = [seen EXCEPT ![w] = 0]
    /\ todo' = [todo EXCEPT ![w] = {}]
    /\ failed' = [failed EXCEPT ![w] = FALSE]
    /\ queue' = [queue EXCEPT ![w] = <<>>]
    /\ UNCHANGED work

\* An error leaves commit or recover_all: the rest of the queue is dropped.
Raise(w) == Goto(w, IF w \in Ops THEN "raised" ELSE "idle") /\ Forget(w)

-----------------------------------------------------------------------------
(* Staging and commit.                                                     *)

\* replace or delete of the unit: loads one more participant.
Stage(o) ==
    LET f == Plan[o][cursor[o]].file
        part == [expected |-> file[f].rev, before |-> file[f].data,
                 existed |-> file[f].exists]
    IN /\ pc[o] = "staging"
       /\ rec' = [rec EXCEPT ![o].parts[cursor[o]] = part]
       /\ cursor' = [cursor EXCEPT ![o] = @ + 1]
       /\ Goto(o, IF cursor[o] = Len(Plan[o])
                  THEN IF o \in Direct THEN "direct" ELSE "create"
                  ELSE "staging")
       /\ UNCHANGED <<storeVars, work, seen, todo, failed, queue, effects, faultVars>>

StartDirect(o) ==
    /\ pc[o] = "new" /\ o \in setting.writers
    /\ rec' = [rec EXCEPT ![o] = NewRecord(o)]
    /\ Goto(o, "staging")
    /\ UNCHANGED <<storeVars, work, cursor, seen, todo, failed, queue, effects, faultVars>>

WriteDirect(o) ==
    LET f == Plan[o][1].file IN
    /\ pc[o] = "direct"
    /\ f \notin stuck
    /\ DoCall(f, MutationCall(o, rec[o], 1))
    /\ Goto(o, "done") /\ Forget(o)
    /\ UNCHANGED <<log, stuck, effects, faultVars>>

DirectTimeout(o) ==
    /\ pc[o] = "direct"
    /\ LockTimeout(Plan[o][1].file)
    /\ Raise(o)
    /\ UNCHANGED <<storeVars, effects>>

Create(o) ==
    /\ pc[o] = "create"
    /\ WriteLog(o, rec[o])
    /\ rec' = [rec EXCEPT ![o].phase = "applying"]
    /\ Goto(o, "save")
    /\ UNCHANGED <<file, stuck, work, cursor, seen, todo, failed, queue, effects, faultVars>>

-----------------------------------------------------------------------------
(* OperationLog.save, with which every phase change ends.                  *)

SaveLoad(w) ==
    /\ pc[w] = "save"
    /\ seen' = [seen EXCEPT ![w] = log[work[w]].rev]
    /\ Goto(w, "saving")
    /\ UNCHANGED <<storeVars, work, rec, cursor, todo, failed, queue, effects, faultVars>>

\* The id of this save is <op>:log:<revision>, so that a save of the same
\* record by another worker in between is a replay.
SaveOutcome(w) ==
    LET here == log[work[w]]
    IN IF here.rev = seen[w] THEN "write"
       ELSE IF here.rev = seen[w] + 1 /\ here.record = rec[w] THEN "replay"
       ELSE "error"

\* What _apply does next depends on the phase it saved.
AfterSave(w) ==
    \/ rec[w].phase = "applying" /\ Goto(w, "apply") /\ UNCHANGED memoryVars
    \/ rec[w].phase = "conflicted" /\ Raise(w)
    \/ rec[w].phase = "committed" /\ IF w = work[w]
                                    THEN Goto(w, "done") /\ Forget(w)
                                    ELSE Goto(w, "next") /\ UNCHANGED memoryVars

Save(w) ==
    /\ pc[w] = "saving"
    /\ work[w] \notin stuck
    /\ \/ SaveOutcome(w) = "write" /\ WriteLog(work[w], rec[w]) /\ AfterSave(w)
       \/ SaveOutcome(w) = "replay" /\ AfterSave(w) /\ UNCHANGED log
       \/ SaveOutcome(w) = "error" /\ Raise(w) /\ UNCHANGED log
    /\ UNCHANGED <<file, stuck, effects, faultVars>>

\* A StateStoreError of the log is not handled by _apply.
SaveTimeout(w) ==
    /\ pc[w] = "saving"
    /\ LockTimeout(work[w])
    /\ Raise(w)
    /\ UNCHANGED <<storeVars, effects>>

-----------------------------------------------------------------------------
(* _apply and _rollback_applied.                                           *)

Remaining(w) == Indices(work[w]) \ rec[w].applied

Doc(w, i) == Plan[work[w]][i].file

NextMutation(w) == Min(Remaining(w))

\* The call of w's next mutation, and what it leaves behind.
MutationOf(w) == MutationCall(work[w], rec[w], NextMutation(w))

Mutate(w) ==
    LET f == Doc(w, NextMutation(w))
    IN /\ DoCall(f, MutationOf(w))
       /\ effects' = IF Store!CallAnswer(file[f], MutationOf(w)) \in {"ok", "false"}
                     THEN [effects EXCEPT ![work[w]] = @ \cup {NextMutation(w)}]
                     ELSE effects

Apply(w) ==
    /\ pc[w] = "apply"
    /\ Remaining(w) # {}
    /\ Doc(w, NextMutation(w)) \notin stuck
    /\ Succeeds(Doc(w, NextMutation(w)), MutationOf(w))
    /\ Mutate(w)
    /\ rec' = [rec EXCEPT ![w].applied = @ \cup {NextMutation(w)}]
    /\ Goto(w, "save")
    /\ UNCHANGED <<log, stuck, work, cursor, seen, todo, failed, queue, faultVars>>

\* The rollback is forgotten.
MutantBeginUndoNothing(w, code) ==
    /\ rec' = [rec EXCEPT ![w].error = <<NextMutation(w), code>>]
    /\ todo' = [todo EXCEPT ![w] = {}]
    /\ failed' = [failed EXCEPT ![w] = FALSE]
    /\ Goto(w, "undo")
    /\ UNCHANGED <<storeVars, work, cursor, seen, queue, effects>>

\* The mutation raises: the participants recorded as applied are to be undone.
BeginUndo(w, code) ==
    /\ rec' = [rec EXCEPT ![w].error = <<NextMutation(w), code>>]
    /\ todo' = [todo EXCEPT ![w] = rec[w].applied]
    /\ failed' = [failed EXCEPT ![w] = FALSE]
    /\ Goto(w, "undo")
    /\ UNCHANGED <<storeVars, work, cursor, seen, queue, effects>>

ApplyRefused(w) ==
    /\ pc[w] = "apply"
    /\ Remaining(w) # {}
    /\ LET f == Doc(w, NextMutation(w)) IN
       \/ /\ f \notin stuck /\ ~Succeeds(f, MutationOf(w))
          /\ BeginUndo(w, Store!CallAnswer(file[f], MutationOf(w)))
          /\ UNCHANGED faultVars
       \/ LockTimeout(f) /\ BeginUndo(w, "STATE-LOCK-001")

Finish(w) ==
    /\ pc[w] = "apply"
    /\ Remaining(w) = {}
    /\ rec' = [rec EXCEPT ![w].phase = "committed", ![w].error = NoError]
    /\ Goto(w, "save")
    /\ UNCHANGED <<storeVars, work, cursor, seen, todo, failed, queue, effects, faultVars>>

\* Participants are undone in descending order, each one only if the document
\* is as this operation left it.
UndoLook(w) ==
    LET i == Max(todo[w])
        d == file[Doc(w, i)]
    IN /\ pc[w] = "undo"
       /\ todo[w] # {}
       /\ IF OursToUndo(work[w], rec[w], i, d)
          THEN /\ seen' = [seen EXCEPT ![w] = d.rev]
               /\ Goto(w, "undoing")
               /\ UNCHANGED todo
          ELSE /\ todo' = [todo EXCEPT ![w] = @ \ {i}]
               /\ UNCHANGED <<pc, seen>>
       /\ UNCHANGED <<storeVars, work, rec, cursor, failed, queue, effects, faultVars>>

UndoOf(w) == UndoCall(work[w], rec[w], Max(todo[w]), seen[w])

Compensate(w) ==
    /\ DoCall(Doc(w, Max(todo[w])), UndoOf(w))
    /\ effects' = IF Store!Changes(file[Doc(w, Max(todo[w]))], UndoOf(w))
                  THEN [effects EXCEPT ![work[w]] = @ \ {Max(todo[w])}]
                  ELSE effects

Undone(w, ok) ==
    /\ todo' = [todo EXCEPT ![w] = @ \ {Max(@)}]
    /\ failed' = [failed EXCEPT ![w] = @ \/ ~ok]
    /\ Goto(w, "undo")
    /\ UNCHANGED <<log, stuck, work, rec, cursor, seen, queue>>

Undo(w) ==
    /\ pc[w] = "undoing"
    /\ Doc(w, Max(todo[w])) \notin stuck
    /\ Compensate(w)
    /\ Undone(w, Succeeds(Doc(w, Max(todo[w])), UndoOf(w)))
    /\ UNCHANGED faultVars

UndoTimeout(w) ==
    /\ pc[w] = "undoing"
    /\ LockTimeout(Doc(w, Max(todo[w])))
    /\ Undone(w, FALSE)
    /\ UNCHANGED <<file, effects>>

UndoFinish(w) ==
    /\ pc[w] = "undo"
    /\ todo[w] = {}
    /\ rec' = [rec EXCEPT ![w].phase = "conflicted",
                          ![w].rolledBack = IF failed[w] THEN "no" ELSE "yes"]
    /\ Goto(w, "save")
    /\ UNCHANGED <<storeVars, work, cursor, seen, todo, failed, queue, effects, faultVars>>

-----------------------------------------------------------------------------
(* recover_all.                                                            *)

Recover(w) ==
    /\ pc[w] \in {"idle", "new"} /\ w \notin Direct
    /\ MayStart(w)
    /\ Goto(w, "scan")
    /\ cursor' = [cursor EXCEPT ![w] = 1]
    /\ UNCHANGED <<storeVars, work, rec, seen, todo, failed, queue, effects, faultVars>>

\* pending: reads one log file after the other, before any is applied.
Scan(w) ==
    LET o == cursor[w] IN
    /\ pc[w] = "scan"
    /\ queue' = IF Pending(log[o].record)
                THEN [queue EXCEPT ![w] = Append(@, [op |-> o, record |-> log[o].record])]
                ELSE queue
    /\ IF o = N THEN Goto(w, "next") ELSE UNCHANGED pc
    /\ cursor' = [cursor EXCEPT ![w] = IF o = N THEN 1 ELSE o + 1]
    /\ UNCHANGED <<storeVars, work, rec, seen, todo, failed, effects, faultVars>>

Take(w) ==
    /\ pc[w] = "next"
    /\ queue[w] # <<>>
    /\ work' = [work EXCEPT ![w] = Head(queue[w]).op]
    /\ rec' = [rec EXCEPT ![w] = [Head(queue[w]).record EXCEPT !.phase = "applying"]]
    /\ queue' = [queue EXCEPT ![w] = Tail(@)]
    /\ Goto(w, "save")
    /\ UNCHANGED <<storeVars, cursor, seen, todo, failed, effects, faultVars>>

\* A service goes on to stage its own operation.
Recovered(w) ==
    /\ pc[w] = "next"
    /\ queue[w] = <<>>
    /\ IF w \in Ops
       THEN /\ Goto(w, "staging")
            /\ work' = [work EXCEPT ![w] = w]
            /\ rec' = [rec EXCEPT ![w] = NewRecord(w)]
       ELSE /\ Goto(w, "idle")
            /\ rec' = [rec EXCEPT ![w] = NoRecord]
            /\ UNCHANGED work
    /\ cursor' = [cursor EXCEPT ![w] = 1]
    /\ seen' = [seen EXCEPT ![w] = 0]
    /\ UNCHANGED <<storeVars, todo, failed, queue, effects, faultVars>>

-----------------------------------------------------------------------------
(* The environment.                                                        *)

Die(w) ==
    /\ crashes < setting.crashes
    /\ crashes' = crashes + 1
    /\ Goto(w, IF w \in Ops THEN "dead" ELSE "idle")
    /\ Forget(w)
    /\ UNCHANGED <<setting, timeouts>>

\* w is killed between two store calls.  (Its memory is gone; a recoverer is
\* then the next process to run recover_all.)
Crash(w) ==
    /\ pc[w] \notin Resting
    /\ Die(w)
    /\ UNCHANGED <<storeVars, effects, lockDeaths>>

\* w is killed inside a store call on x, before or after the file was replaced:
\* the lock file of x stays.
DieHolding(w, x) ==
    /\ x \notin stuck
    /\ lockDeaths < setting.lockDeaths
    /\ lockDeaths' = lockDeaths + 1
    /\ stuck' = stuck \cup {x}
    /\ Die(w)

CrashInSave(w) ==
    /\ pc[w] \in {"create", "saving"}
    /\ DieHolding(w, work[w])
    /\ \/ UNCHANGED log
       \/ /\ pc[w] = "create" \/ SaveOutcome(w) = "write"
          /\ WriteLog(work[w], rec[w])
    /\ UNCHANGED <<file, effects>>

CrashInApply(w) ==
    /\ pc[w] = "apply"
    /\ Remaining(w) # {}
    /\ DieHolding(w, Doc(w, NextMutation(w)))
    /\ \/ UNCHANGED <<file, effects>>
       \/ /\ Succeeds(Doc(w, NextMutation(w)), MutationOf(w))
          /\ Mutate(w)
    /\ UNCHANGED log

CrashInUndo(w) ==
    /\ pc[w] = "undoing"
    /\ DieHolding(w, Doc(w, Max(todo[w])))
    /\ UNCHANGED <<file, effects>> \/ Compensate(w)
    /\ UNCHANGED log

\* remove_stale_lock.
ClearLock(x) ==
    /\ x \in stuck
    /\ stuck' = stuck \ {x}
    /\ UNCHANGED <<setting, file, log, pc, memoryVars, effects, faultVars>>

-----------------------------------------------------------------------------
Work(w) ==
    /\ \/ SaveLoad(w) \/ Save(w) \/ SaveTimeout(w)
       \/ Apply(w) \/ ApplyRefused(w) \/ Finish(w)
       \/ UndoLook(w) \/ Undo(w) \/ UndoTimeout(w) \/ UndoFinish(w)
    /\ UNCHANGED setting

RecoverStep(w) == (Recover(w) \/ Scan(w) \/ Take(w) \/ Recovered(w)) /\ UNCHANGED setting

CommitStep(o) ==
    /\ Stage(o) \/ Create(o) \/ StartDirect(o) \/ WriteDirect(o) \/ DirectTimeout(o)
    /\ UNCHANGED setting

Next ==
    \/ \E o \in Ops : CommitStep(o)
    \/ \E w \in Workers : RecoverStep(w) \/ Work(w) \/ Crash(w) \/ CrashInSave(w)
                         \/ CrashInApply(w) \/ CrashInUndo(w)
    \/ \E x \in Files \cup Ops : ClearLock(x)

Spec == Init /\ [][Next]_vars

\* Running processes go on, stale locks are cleared, and some process runs
\* recover_all again and again: every service does when it is called.
FairSpec ==
    /\ Spec
    /\ \A o \in Ops : WF_vars(CommitStep(o))
    /\ \A w \in Workers : WF_vars(Work(w)) /\ WF_vars(RecoverStep(w))
    /\ \A x \in Files \cup Ops : WF_vars(ClearLock(x))

-----------------------------------------------------------------------------
(* Properties.                                                             *)

Part == [expected : Nat, before : -1..N, existed : BOOLEAN]

Codes == {"none", "STATE-CONFLICT-001", "STATE-IDEMPOTENCY-001", "STATE-LOCK-001"}

RecordOf(o) ==
    [phase : {"prepared", "applying", "committed", "conflicted"},
     applied : SUBSET Indices(o),
     error : (Indices(o) \cup {0}) \X Codes,
     rolledBack : {"unset", "yes", "no"},
     parts : [Indices(o) -> Part]]

InApply == {"save", "saving", "apply", "undo", "undoing"}

TypeOK ==
    /\ file \in [Files -> Store!Doc]
    /\ \A o \in Ops : /\ log[o].rev \in Nat
                      /\ log[o].rev = 0 => log[o].record = NoRecord
                      /\ log[o].rev > 0 => log[o].record \in RecordOf(o)
    /\ stuck \subseteq Files \cup Ops
    /\ \A w \in Workers :
        /\ pc[w] \in Resting \cup InApply \cup {"scan", "next", "staging", "create", "direct"}
        /\ pc[w] \in InApply => work[w] \in Ops /\ rec[w] \in RecordOf(work[w])
        /\ pc[w] = "undoing" => todo[w] # {}
        /\ seen[w] \in Nat /\ failed[w] \in BOOLEAN /\ cursor[w] \in Nat
        /\ \A k \in DOMAIN queue[w] : queue[w][k].record \in RecordOf(queue[w][k].op)
    /\ \A o \in Ops : effects[o] \subseteq Indices(o)
    /\ crashes <= setting.crashes /\ lockDeaths <= setting.lockDeaths /\ timeouts <= setting.timeouts

Phase(o) == log[o].record.phase

\* Whether participant i of o is done and its document still as o left it.
InPlace(o, i) ==
    /\ i \in effects[o]
    /\ LET d == file[Plan[o][i].file] IN
       IF Plan[o][i].kind = "replace" THEN d.op = OpId(o)
       ELSE log[o].record.parts[i].existed /\ ~d.exists

\* When units and recoveries come one after another, the record of an operation
\* that says it was rolled back is right: no document is left in the state the
\* operation put it in.
RolledBackIsClean ==
    setting.serial => \A o \in Ops :
        Phase(o) = "conflicted" /\ log[o].record.rolledBack = "yes" =>
            \A i \in Indices(o) : ~InPlace(o, i)

\* No step of a commit, a rollback or a recovery replaces a document that
\* another operation wrote after it was staged.
NoNewerOverwritten ==
    [][\A w \in Workers :
         file' # file /\ pc'[w] # pc[w] =>
            IF pc[w] = "apply"
            THEN file[Doc(w, NextMutation(w))].data = rec[w].parts[NextMutation(w)].before
            ELSE pc[w] = "undoing" =>
                 file[Doc(w, Max(todo[w]))].op \in {OpId(work[w]), <<>>}]_vars

\* Every operation that has a record reaches a final phase, whatever process
\* was killed where.
EveryOperationDecided ==
    \A o \in Units : Phase(o) = "prepared" ~> Final(log[o].record)

\* What one operation promises in a serial setting: see OperationPromise.
Promise == INSTANCE OperationPromise WITH
    Parts <- [o \in Ops |-> Indices(o)],
    outcome <- [o \in Ops |-> IF ~setting.serial THEN "none"
                              ELSE IF Phase(o) \in {"prepared", "applying"} THEN "open"
                              ELSE Phase(o)],
    done <- [o \in Ops |-> IF setting.serial THEN effects[o] ELSE {}]

KeepsPromise == Promise!PromiseSpec
=============================================================================
