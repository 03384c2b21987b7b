---------------------------- MODULE RuntimeContext ----------------------------
(***************************************************************************)
(* services/workflow_runtime.py, the commands of adapters/cli/subagent.py  *)
(* and the session files of runtime/session_state.py.  A runtime context   *)
(* is the assignment of one subagent; a session file says what a host key  *)
(* stands for: the main session of a task or the subagent of a context.    *)
(*                                                                         *)
(* initialize, bind and close read, decide, and write in a unit of work    *)
(* that is told no revision: it guards what is there when it is staged, so *)
(* what is written from the first read on is overwritten.  update and      *)
(* evidence name the revision they loaded; a success says that nothing     *)
(* came between, and each is one step.  A unit of work is atomic here,     *)
(* which is what OperationPromise says of it; it may also fail.            *)
(***************************************************************************)
EXTENDS Naturals, FiniteSets, SequencesExt

CONSTANTS
    Contexts,     \* runtime context ids
    Keys,         \* host context keys
    Tasks,        \* tasks
    None,         \* no task, no key, no context
    Assignments,  \* what a dispatcher may ask for: [type, task, owns], owns
                  \*   being paths, and a path a sequence of names
    Procs,        \* processes that run subagent commands and hooks
    MaxRevision,  \* bound: writes of one context
    MaxEvidence,  \* bound: evidence entries
    MaxMain       \* bound: writes of session files by lifecycle commands

\* FIXED_AGENT_TYPES; the other dispatches are advisory, of type worker.
FixedTypes == {"cowork-research", "cowork-implement", "cowork-check"}

ASSUME NoneAssumption == None \notin Contexts \cup Keys \cup Tasks

ASSUME AssignmentAssumption ==
    \A a \in Assignments : a.type \in FixedTypes \cup {"worker"} /\ a.task \in Tasks \cup {None}

\* VALID_STATUSES; the four that nothing looks at are one.
Statuses == {"pending", "bound", "active", "closed"}

VARIABLES
    ctx,      \* the context files
    session,  \* the session files of the host keys
    logical,  \* contexts whose own session file, subagent_<id>.json, exists
    call,     \* of each process: the call it is in
    entries,  \* evidence entries handed out so far
    mains     \* writes of session files by lifecycle commands so far

vars == <<ctx, session, logical, call, entries, mains>>

Unasked == [type |-> "worker", task |-> None, owns |-> {}]

Absent == [status |-> "absent", asked |-> Unasked, key |-> None, evidence |-> {}, rev |-> 0]

\* _initial_context
Fresh(a, rev) ==
    [status |-> "pending", asked |-> a, key |-> None, evidence |-> {}, rev |-> rev]

NoSession == [scope |-> "none", rc |-> None, task |-> None]
Main(t)   == [scope |-> "main", rc |-> None, task |-> t]
Sub(c, t) == [scope |-> "subagent", rc |-> c, task |-> t]

Idle == [op |-> "idle"]

-----------------------------------------------------------------------------
(* Claims.                                                                 *)

Exists(c) == ctx[c].status # "absent"

MutantPathsOverlap(a, b) == a # <<>> /\ b # <<>> /\ IsPrefix(a, b)

\* slice_paths_overlap; the empty path overlaps nothing.
PathsOverlap(a, b) == a # <<>> /\ b # <<>> /\ (IsPrefix(a, b) \/ IsPrefix(b, a))

\* owned_paths_overlap
OwnedOverlap(A, B) == \E a \in A, b \in B : PathsOverlap(a, b)

\* slice_conflicts: the claims that take part in it.
Claims(a) == a.type = "cowork-implement" /\ a.owns # {} /\ a.task # None

Collide(a, b) ==
    Claims(a) /\ Claims(b) /\ a.task = b.task /\ OwnedOverlap(a.owns, b.owns)

Open(x) == x.status \notin {"absent", "closed"}

-----------------------------------------------------------------------------
(* subagent init.                                                          *)

Finish(p) == call' = [call EXCEPT ![p] = Idle]

Quiet == UNCHANGED <<ctx, session, logical, entries, mains>>

\* cmd_init: a fixed agent type needs a task directory.
MayDispatch(a) == a.type \in FixedTypes => a.task # None

\* _next_id takes an id that no file has.
BeginInit(p, c, a) ==
    /\ call[p] = Idle /\ MayDispatch(a)
    /\ ~Exists(c) /\ ctx[c].rev < MaxRevision
    /\ call' = [call EXCEPT ![p] = [op |-> "chosen", c |-> c, asked |-> a]]
    /\ Quiet

\* An init on its way through the directory: the files it has still to read,
\* and the revisions of those it has read.
Reading(op, c, a, unread, saw) ==
    [op |-> op, c |-> c, asked |-> a, unread |-> unread, saw |-> saw]

\* initialize: the context and its session file.  Two dispatches of the same
\* second and title have the same id; they are one if their data agree.
InitLoad(p) ==
    LET c == call[p].c
        a == call[p].asked
    IN /\ call[p].op = "chosen"
       /\ IF \/ Exists(c) /\ [ctx[c] EXCEPT !.rev = 0] # Fresh(a, 0)   \* RUNTIME-INIT-001
             \/ Exists(c) /\ c \in logical
          THEN Finish(p)
          ELSE call' = [call EXCEPT ![p] =
                   Reading(IF Claims(a) THEN "list" ELSE "init", c, a, {}, [o \in Contexts |-> 0])]
       /\ Quiet

\* iter_subagent_contexts: the names of the directory first, ...
InitList(p) ==
    /\ call[p].op = "list"
    /\ call' = [call EXCEPT ![p] =
           Reading("init", @.c, @.asked, {o \in Contexts : Exists(o)} \ {@.c}, @.saw)]
    /\ Quiet

\* ... then each file: SUBAGENT-SLICE-001 writes nothing.
InitExamine(p, o) ==
    /\ call[p].op = "init" /\ o \in call[p].unread
    /\ IF Open(ctx[o]) /\ Collide(call[p].asked, ctx[o].asked)
       THEN Finish(p)
       ELSE call' = [call EXCEPT ![p] =
                Reading("init", @.c, @.asked, @.unread \ {o}, [@.saw EXCEPT ![o] = ctx[o].rev])]
    /\ Quiet

InitCommit(p) ==
    LET c == call[p].c
    IN /\ call[p].op = "init" /\ call[p].unread = {}
       /\ ctx' = [ctx EXCEPT ![c] = Fresh(call[p].asked, @.rev + 1)]
       /\ logical' = logical \cup {c}
       /\ Finish(p)
       /\ UNCHANGED <<session, entries, mains>>

-----------------------------------------------------------------------------
(* subagent update and evidence: compare-and-swap writes.                  *)

\* update: any status, "closed" among them, whatever the status is.
Update(p, c, s) ==
    /\ call[p] = Idle /\ Exists(c) /\ ctx[c].rev < MaxRevision
    /\ ctx' = [ctx EXCEPT ![c].status = s, ![c].rev = @ + 1]
    /\ UNCHANGED <<session, logical, call, entries, mains>>

MutantEvidence(p, c) ==
    /\ call[p] = Idle /\ Exists(c) /\ ctx[c].rev < MaxRevision /\ entries < MaxEvidence
    /\ entries' = entries + 1
    /\ ctx' = [ctx EXCEPT ![c].evidence = {entries'}, ![c].rev = @ + 1]
    /\ UNCHANGED <<session, logical, call, mains>>

\* evidence: of a closed context too.
Evidence(p, c) ==
    /\ call[p] = Idle /\ Exists(c) /\ ctx[c].rev < MaxRevision /\ entries < MaxEvidence
    /\ entries' = entries + 1
    /\ ctx' = [ctx EXCEPT ![c].evidence = @ \cup {entries'}, ![c].rev = @ + 1]
    /\ UNCHANGED <<session, logical, call, mains>>

-----------------------------------------------------------------------------
(* subagent bind, and the hooks, which bind whenever they run.             *)

\* _bind_holds: the session file exists, whatever it says.
BindHolds(x, k) == x.key = k /\ x.status = "bound" /\ session[k] # NoSession

MutantBeginBind(p, c, k) ==
    /\ call[p] = Idle /\ Open(ctx[c]) /\ ctx[c].rev < MaxRevision
    /\ ~BindHolds(ctx[c], k)
    /\ call' = [call EXCEPT ![p] = [op |-> "bind", c |-> c, key |-> k, snap |-> ctx[c]]]
    /\ Quiet

\* bind, as far as the decision to write.
BeginBind(p, c, k) ==
    /\ call[p] = Idle /\ Open(ctx[c]) /\ ctx[c].rev < MaxRevision
    /\ ctx[c].key \in {None, k}                                     \* RUNTIME-BIND-001
    /\ ~BindHolds(ctx[c], k)
    /\ call' = [call EXCEPT ![p] = [op |-> "bind", c |-> c, key |-> k, snap |-> ctx[c]]]
    /\ Quiet

\* _resolve_runtime_context: a hook binds the context its prompt names, to the
\* key the prompt says or else to the key of the conversation itself.
HookBind(p, c, said, own) ==
    LET k == IF said # None THEN said ELSE own
    IN k # None /\ BeginBind(p, c, k)

\* The unit of work writes what was read, not what is there by then.
BindCommit(p) ==
    LET c == call[p].c
        s == call[p].snap
    IN /\ call[p].op = "bind"
       /\ session' = [session EXCEPT ![call[p].key] = Sub(c, s.asked.task)]
       /\ ctx' = [ctx EXCEPT ![c] = [s EXCEPT !.status = "bound", !.key = call[p].key,
                                              !.rev = ctx[c].rev + 1]]
       /\ Finish(p)
       /\ UNCHANGED <<logical, entries, mains>>

-----------------------------------------------------------------------------
(* subagent close.                                                         *)

\* close: a no-op when it is closed and its session files are gone.
BeginClose(p, c) ==
    /\ call[p] = Idle /\ Exists(c) /\ ctx[c].rev < MaxRevision
    /\ \/ ctx[c].status # "closed"
       \/ c \in logical
       \/ ctx[c].key # None /\ session[ctx[c].key] # NoSession
    /\ call' = [call EXCEPT ![p] = [op |-> "close", c |-> c, snap |-> ctx[c]]]
    /\ Quiet

CloseCommit(p) ==
    LET c == call[p].c
        s == call[p].snap
    IN /\ call[p].op = "close"
       /\ session' = [k \in Keys |-> IF k = s.key THEN NoSession ELSE session[k]]
       /\ logical' = logical \ {c}
       /\ ctx' = [ctx EXCEPT ![c] = [s EXCEPT !.status = "closed", !.rev = ctx[c].rev + 1]]
       /\ Finish(p)
       /\ UNCHANGED <<entries, mains>>

\* _commit: the unit of work is refused or rolled back.
UnitFails(p) ==
    /\ call[p].op \in {"bind", "close"} \/ (call[p].op = "init" /\ call[p].unread = {})
    /\ Finish(p) /\ Quiet

-----------------------------------------------------------------------------
(* Lifecycle commands on the session files: the last one to write stands.  *)

\* set_active_task, claim_active_task
ClaimMain(k, t) ==
    /\ mains < MaxMain /\ mains' = mains + 1
    /\ session' = [session EXCEPT ![k] = Main(t)]
    /\ UNCHANGED <<ctx, logical, call, entries>>

\* clear_active_task
ClearActive(k) ==
    /\ mains < MaxMain /\ mains' = mains + 1 /\ session[k] # NoSession
    /\ session' = [session EXCEPT ![k] = NoSession]
    /\ UNCHANGED <<ctx, logical, call, entries>>

\* clear_task_from_sessions
ClearTask(t) ==
    /\ mains < MaxMain /\ mains' = mains + 1
    /\ session' = [k \in Keys |-> IF session[k].task = t THEN NoSession ELSE session[k]]
    /\ logical' = {c \in logical : ctx[c].asked.task # t}
    /\ UNCHANGED <<ctx, call, entries>>

-----------------------------------------------------------------------------
Init ==
    /\ ctx = [c \in Contexts |-> Absent]
    /\ session = [k \in Keys |-> NoSession]
    /\ logical = {}
    /\ call = [p \in Procs |-> Idle]
    /\ entries = 0 /\ mains = 0

Command(p) ==
    \/ \E c \in Contexts :
           \/ \E a \in Assignments : BeginInit(p, c, a)
           \/ \E s \in Statuses : Update(p, c, s)
           \/ Evidence(p, c)
           \/ \E k \in Keys : BeginBind(p, c, k)
           \/ \E said, own \in Keys \cup {None} : HookBind(p, c, said, own)
           \/ BeginClose(p, c)
           \/ InitExamine(p, c)
    \/ InitLoad(p) \/ InitList(p) \/ InitCommit(p)
    \/ BindCommit(p) \/ CloseCommit(p) \/ UnitFails(p)

Lifecycle ==
    \/ \E k \in Keys : (\E t \in Tasks : ClaimMain(k, t)) \/ ClearActive(k)
    \/ \E t \in Tasks : ClearTask(t)

Next == (\E p \in Procs : Command(p)) \/ Lifecycle

Spec == Init /\ [][Next]_vars

-----------------------------------------------------------------------------
(* Properties.                                                             *)

ContextFile ==
    [status : Statuses \cup {"absent"}, asked : Assignments \cup {Unasked},
     key : Keys \cup {None}, evidence : SUBSET Nat, rev : Nat]

SessionFile ==
    [scope : {"none", "main", "subagent"}, rc : Contexts \cup {None}, task : Tasks \cup {None}]

Calls ==
    {Idle}
    \cup [op : {"chosen"}, c : Contexts, asked : Assignments]
    \cup [op : {"list", "init"}, c : Contexts, asked : Assignments,
          unread : SUBSET Contexts, saw : [Contexts -> Nat]]
    \cup [op : {"bind"}, c : Contexts, key : Keys, snap : ContextFile]
    \cup [op : {"close"}, c : Contexts, snap : ContextFile]

\* The types of the files and of the calls that are under way: only a context
\* that was never written is absent, the session file of a subagent names its
\* context, and no entry of evidence is made up.
TypeOK ==
    /\ ctx \in [Contexts -> ContextFile]
    /\ session \in [Keys -> SessionFile]
    /\ call \in [Procs -> Calls]
    /\ entries \in Nat /\ mains \in Nat
    /\ \A c \in Contexts :
           /\ ctx[c].evidence \subseteq 1..entries
           /\ ctx[c].rev = 0 <=> ctx[c] = Absent
           /\ ctx[c].status = "absent" => ctx[c].rev = 0
    /\ \A k \in Keys : session[k].scope = "subagent" <=> session[k].rc \in Contexts
    /\ logical \subseteq {c \in Contexts : Exists(c)}

Writes(p, c) == call[p] # Idle /\ call'[p] = Idle /\ call[p].c = c /\ ctx'[c] # ctx[c]

\* A bind or a close that read the context before somebody else wrote it.
WritesStale(p, c) ==
    Writes(p, c) /\ call[p].op \in {"bind", "close"} /\ call[p].snap.rev # ctx[c].rev

\* An init that read a context, or the directory, before somebody else wrote it.
InitsStale(p, c) ==
    /\ Writes(p, c) /\ call[p].op = "init"
    /\ \/ Exists(c)
       \/ \E o \in Contexts \ {c} : call[p].saw[o] # ctx[o].rev

\* Two open implement contexts of a task come to own overlapping paths only in
\* the ways the code leaves open: the init of one listed the others before the
\* other was there or was opened, a closed context was opened again by an
\* update, or by a bind that had read it open (slice_conflicts).
OverlapHasACause ==
    [][\A a, b \in Contexts :
          LET Clash(x) == a # b /\ Open(x[a]) /\ Open(x[b]) /\ Collide(x[a].asked, x[b].asked)
          IN Clash(ctx') /\ ~Clash(ctx) =>
                \E p \in Procs, c \in {a, b} :
                   \/ InitsStale(p, c)
                   \/ WritesStale(p, c)
                   \/ ctx[c].status = "closed" /\ call[p] = Idle]_vars

\* A context that is bound to a host session stays bound to it: another key
\* takes it over only by a bind that read the context before it was bound, or
\* by an init that found the id free (RUNTIME-BIND-001).
KeyStable ==
    [][\A c \in Contexts :
          ctx[c].key # None /\ ctx'[c].key # ctx[c].key =>
             \E p \in Procs : WritesStale(p, c) \/ InitsStale(p, c)]_vars

\* An evidence entry that a subagent recorded stays recorded: it is lost only
\* under a bind, a close or an init that had read the context without it
\* (evidence: "CAS-protected").
EvidenceKept ==
    [][\A c \in Contexts :
          ~(ctx[c].evidence \subseteq ctx'[c].evidence) =>
             \E p \in Procs : WritesStale(p, c) \/ InitsStale(p, c)]_vars
=============================================================================
