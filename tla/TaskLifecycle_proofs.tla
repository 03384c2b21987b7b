-------------------------- MODULE TaskLifecycle_proofs --------------------------
(***************************************************************************)
(* What holds of a task for any number of processes, identities, files,    *)
(* moves of the world and receipts.                                        *)
(***************************************************************************)
EXTENDS TaskLifecycle, SequenceTheorems, TLAPS

Identities == Keys \cup {NoKey}

Statuses == {"planning", "in_progress", "review", "completed"}

Bindings == PlanFiles \cup {"none"}

Types == DevTypes \cup {"none"}

Digested == [written : {TRUE}, plan : PlanTexts, anchor : AnchorTexts, type : Types]

Approvals ==
    {NoDocument}
    \cup [written : {TRUE}, plan : PlanTexts, anchor : AnchorTexts, type : Types,
          checked : BOOLEAN]

TaskType == [status : Statuses, owner : Identities, type : Types, base : Nat,
             previous : Identities, exempt : BOOLEAN, plan : Bindings, approved : Approvals]

\* A call before it has loaded the task, and after.
LoadedCall ==
    [phase : {"commit"}, id : {"start_task", "request_review"}, label : Identities,
     snap : TaskType, fresh : BOOLEAN]
    \cup [phase : {"seize"}, id : {"start_task"}, label : Identities, snap : TaskType,
          fresh : BOOLEAN]
    \cup [phase : {"adopt"}, id : {"adopt"}, label : Identities, snap : TaskType,
          fresh : BOOLEAN]
    \cup [phase : {"commit"}, id : {"complete_task"}, snap : TaskType, exempt : BOOLEAN,
          fresh : BOOLEAN]

\* A plan command that has loaded the task.
PlanCall ==
    [phase : {"loaded"}, file : PlanFiles, snap : TaskType]
    \cup [phase : {"ready"}, snap : {t \in TaskType : t.plan \in PlanFiles}, seen : Digested]

CallType ==
    [phase : {"idle", "bind", "routed", "plan", "typed"}] \cup LoadedCall \cup PlanCall

Contents == UNION {[D -> Texts \cup {Absent}] : D \in SUBSET Files}

Prints ==
    Contents \X (SUBSET ((EntryTypes \cup {"broken"}) \X Paths))
    \X [anchor : {Decision(anchor) : anchor \in AnchorTexts}, plan : PlanTexts, type : Types]

Notes == [print : Prints, of : FileTrees, base : Nat]

Receipts == [result : {"pass", "fail"}, by : {"checker", "nobody"}, print : Prints,
             of : FileTrees, base : Nat]

WorldTyped ==
    /\ profile \in Profiles /\ settled \in BOOLEAN
    /\ session \in [Keys -> {"none", "main", "subagent"}]
    /\ history \in Seq(FileTrees) /\ history # <<>>
    /\ lost \subseteq 1..HEAD
    /\ index \in FileTrees /\ work \in FileTrees
    /\ checker \in [status : {"none", "pending", "bound", "closed"}, bound : BOOLEAN,
                    noted : Notes \cup {<<>>}]
    /\ receipts \in Seq(Receipts) /\ Len(receipts) <= MaxReceipts
    /\ moves \in 0..MaxMoves

CallsTyped ==
    /\ task \in TaskType /\ task.base <= HEAD /\ call \in [Procs -> CallType]
    /\ \A p \in Procs : call[p].phase \in {"loaded", "ready"} => call[p].snap.base <= HEAD

Typed == WorldTyped /\ docs \in Documents /\ CallsTyped

-----------------------------------------------------------------------------
(* The route.                                                              *)

\* A review is run from in_progress and a completion from review, whatever
\* the intent.
LEMMA RouteStatus ==
    ASSUME task.status \in Statuses, NEW p \in Procs, NEW intent \in Intents
    PROVE  /\ Routed(p, intent, "request_review") => task.status = "in_progress"
           /\ Routed(p, intent, "complete_task") => task.status = "review"
BY IntentAssumption
DEF Routed, Route, ActionId, IntentAction, StatusAction, Statuses, KnownStatuses, CheckStatuses,
    DoneStatuses, UserIntents, MutatingActions

-----------------------------------------------------------------------------
(* What calls are made of.                                                 *)

\* A task that is in planning has neither an owner nor a baseline.
Consistent(t) == t.status = "planning" => t.owner = NoKey /\ t.base = 0

\* What a command has loaded is a task, of the status its action starts from.
LoadedRight(p) ==
    LET c == call[p]
    IN /\ c.phase \in {"loaded", "ready"} /\ task.status = "planning" => c.snap.base = 0
       /\ c.phase \in {"commit", "seize", "adopt"} =>
          /\ Consistent(c.snap)
          /\ c.id = "start_task" /\ c.phase = "commit" =>
                c.snap.status = "planning" /\ Identity(p, c.label) # NoKey
          /\ c.id = "request_review" => c.snap.status = "in_progress"
          /\ c.id = "complete_task" => c.snap.status = "review"
          /\ c.phase = "seize" =>
                c.snap.status = "in_progress" /\ Identity(p, c.label) # NoKey
          /\ c.phase = "adopt" =>
                /\ c.snap.status \in {"in_progress", "review"}
                /\ Identity(p, c.label) \notin {NoKey, c.snap.owner}

CommandInv ==
    /\ Consistent(task) /\ breadcrumb \in {"none", task.status}
    /\ \A p \in Procs : LoadedRight(p)

\* What becomes of a call when the world moves.
LEMMA StaleCall ==
    ASSUME NEW c \in CallType
    PROVE  /\ Stale(c) \in CallType
           /\ Stale(c).phase = c.phase
           /\ c.phase # "commit" => Stale(c) = c
           /\ c.phase \in {"commit", "seize", "adopt"} =>
                 Stale(c).id = c.id /\ Stale(c).snap = c.snap
           /\ c.phase \in {"commit", "seize", "adopt"} /\ c.id # "complete_task" =>
                 Stale(c).label = c.label
           /\ c.phase = "commit" => ~Stale(c).fresh
<1>1. CASE c.phase = "commit" /\ c.id = "complete_task"
  BY <1>1 DEF CallType, LoadedCall, PlanCall, Stale
<1>2. CASE c.phase = "commit" /\ c.id # "complete_task"
  BY <1>2 DEF CallType, LoadedCall, PlanCall, Stale
<1>3. CASE c.phase # "commit"
  BY <1>3 DEF Stale
<1>4. QED
  BY <1>1, <1>2, <1>3

\* Who a command acts for.
LEMMA IdentityType ==
    ASSUME NEW p \in Procs, NEW label \in Identities
    PROVE  Identity(p, label) \in Identities
BY KeyAssumption DEF Identity, Identities

\* The task that a command commits.
LEMMA PersistedTask ==
    ASSUME NEW p \in Procs, call[p] \in LoadedCall, call[p].phase = "commit"
    PROVE  LET c == call[p] IN
           /\ c.id = "start_task" => Persisted(p) =
                 [c.snap EXCEPT !.status = "in_progress", !.owner = Identity(p, c.label),
                                !.base = IF @ = 0 THEN HEAD ELSE @]
           /\ c.id = "request_review" => Persisted(p) = [c.snap EXCEPT !.status = "review"]
           /\ c.id = "complete_task" =>
                 Persisted(p) = [c.snap EXCEPT !.status = "completed", !.exempt = @ \/ c.exempt]
           /\ c.id \in {"start_task", "request_review", "complete_task"}
<1> DEFINE c == call[p]
<1>1. c.id \in {"start_task", "request_review", "complete_task"}
  BY DEF LoadedCall
<1> HIDE DEF c
<1>2. QED
  BY <1>1 DEF Persisted, c

-----------------------------------------------------------------------------
(* Documents.                                                              *)

\* Placeholders put files where entries lead and change nothing else.
LEMMA PlaceholdersOnly ==
    ASSUME NEW d \in Documents
    PROVE  /\ WithPlaceholders(d) \in Documents
           /\ WithPlaceholders(d).plans = d.plans /\ WithPlaceholders(d).anchor = d.anchor
           /\ Scope(WithPlaceholders(d)) = Scope(d)
<1>1. ASSUME NEW e \in Entries(Paths)
      PROVE  Placeheld(e) \in Entries(Paths) /\ Placeheld(e).type = e.type /\ Placeheld(e).path = e.path
  BY DEF Placeheld, Entries
<1>2. WithPlaceholders(d) = [d EXCEPT !.entries = {Placeheld(e) : e \in d.entries}]
  BY DEF WithPlaceholders
<1>3. d.entries \subseteq Entries(Paths)
  BY DEF Documents
<1>4. WithPlaceholders(d) \in Documents
  BY <1>1, <1>2, <1>3 DEF Documents
<1>5. WithPlaceholders(d).plans = d.plans /\ WithPlaceholders(d).anchor = d.anchor
  BY <1>2 DEF Documents
<1>6. Scope(WithPlaceholders(d)) = Scope(d)
  <2>1. WithPlaceholders(d).entries = {Placeheld(e) : e \in d.entries}
    BY <1>2 DEF Documents
  <2>2. \A x : x \in Scope(WithPlaceholders(d)) <=> \E e \in d.entries : e.type # "directory" /\ x = e.path
    BY <1>1, <1>3, <2>1 DEF Scope
  <2>3. \A x : x \in Scope(d) <=> \E e \in d.entries : e.type # "directory" /\ x = e.path
    BY DEF Scope
  <2>4. QED
    BY <2>2, <2>3
<1>7. QED
  BY <1>4, <1>5, <1>6

\* What an author writes is a document.
LEMMA AuthorWrites ==
    ASSUME docs \in Documents, Author
    PROVE  \E d \in Documents : Write(d)
<1>1. ASSUME NEW f \in PlanFiles, NEW plan \in PlanTexts, WritePlan(f, plan)
      PROVE  \E d \in Documents : Write(d)
  <2>1. [docs EXCEPT !.plans[f] = plan] \in Documents
    BY DEF Documents
  <2>2. QED
    BY <1>1, <2>1 DEF WritePlan
<1>2. ASSUME NEW f \in PlanFiles, NEW force \in BOOLEAN, NewPlan(f, force)
      PROVE  \E d \in Documents : Write(d)
  BY <1>1, <1>2 DEF NewPlan, PlanTexts
<1>3. ASSUME NEW anchor \in AnchorDrafts, WriteAnchor(anchor)
      PROVE  \E d \in Documents : Write(d)
  <2>1. [docs EXCEPT !.anchor = anchor] \in Documents
    BY DEF Documents, AnchorTexts
  <2>2. QED
    BY <1>3, <2>1 DEF WriteAnchor
<1>4. ASSUME NEW entries \in SUBSET Entries(Paths)
      PROVE  [docs EXCEPT !.indexed = TRUE, !.entries = entries] \in Documents
  BY DEF Documents
<1>5. ASSUME NEW entries \in IndexDrafts, WriteIndex(entries)
      PROVE  \E d \in Documents : Write(d)
  BY <1>4, <1>5, DocumentAssumption DEF WriteIndex
<1>6. docs.entries \subseteq Entries(Paths)
  BY DEF Documents
<1>7. CASE InitContext
  <2>1. SpecEntries \subseteq Entries(Paths)
    <3>1. \A e \in SpecEntries : e.path \in Paths
      BY DEF Paths
    <3>2. QED
      BY <3>1 DEF SpecEntries, Entries, EntryTypes
  <2>2. PICK entries \in SUBSET Entries(Paths) :
            Write(WithPlaceholders([docs EXCEPT !.indexed = TRUE, !.entries = entries]))
    BY <1>6, <1>7, <2>1 DEF InitContext
  <2>3. QED
    BY <1>4, <2>2, PlaceholdersOnly
<1>8. ASSUME NEW f \in Files, AddContext(f)
      PROVE  \E d \in Documents : Write(d)
  <2> DEFINE e == [type |-> IF work[f] = Absent THEN "planned-file" ELSE "file", path |-> f,
                   where |-> "repository", target |-> "file"]
  <2>1. e \in Entries(Paths)
    BY DEF Entries, EntryTypes, Paths
  <2>2. docs.entries \cup {e} \in SUBSET Entries(Paths)
    BY <1>6, <2>1
  <2>3. Write([docs EXCEPT !.indexed = TRUE, !.entries = docs.entries \cup {e}])
    BY <1>8 DEF AddContext, Documents
  <2> HIDE DEF e
  <2>4. QED
    BY <1>4, <2>2, <2>3
<1>9. QED
  BY <1>1, <1>2, <1>3, <1>5, <1>7, <1>8 DEF Author, PlanTexts

-----------------------------------------------------------------------------
(* Types.                                                                  *)

LEMMA TypedInit == Init => Typed
<1> SUFFICES ASSUME Init PROVE Typed
  OBVIOUS
<1> USE DEF Init
<1>1. /\ work \in FileTrees /\ index \in FileTrees
      /\ history \in Seq(FileTrees) /\ Len(history) = 1
  BY TreeAssumption
<1>2. receipts \in Seq(Receipts) /\ Len(receipts) = 0
  OBVIOUS
<1>3. checker \in [status : {"none", "pending", "bound", "closed"}, bound : BOOLEAN,
                   noted : Notes \cup {<<>>}]
  OBVIOUS
<1>4. WorldTyped
  <2>1. session \in [Keys -> {"none", "main", "subagent"}] /\ settled \in BOOLEAN
    OBVIOUS
  <2>2. history # <<>> /\ lost \subseteq 1..HEAD
    BY <1>1
  <2>3. Len(receipts) <= MaxReceipts /\ moves \in 0..MaxMoves
    BY <1>2, BoundAssumption
  <2>4. profile \in Profiles
    OBVIOUS
  <2>5. QED
    BY <1>1, <1>2, <1>3, <2>1, <2>2, <2>3, <2>4 DEF WorldTyped
<1>5. docs \in Documents /\ CallsTyped
  <2>1. PICK created \in Created :
            /\ docs = created.docs
            /\ task = [status |-> "planning", owner |-> NoKey, type |-> created.type, base |-> 0,
                       previous |-> NoKey, exempt |-> FALSE, plan |-> created.plan,
                       approved |-> NoDocument]
    OBVIOUS
  <2>2. created \in [docs : Documents, plan : Bindings, type : Types]
    BY DocumentAssumption DEF Bindings, Types
  <2>3. created.docs \in Documents /\ created.plan \in Bindings /\ created.type \in Types
    BY <2>2
  <2>4. NoDocument \in Approvals
    BY DEF Approvals
  <2>5. task \in TaskType /\ task.base = 0
    BY <2>1, <2>3, <2>4 DEF TaskType, Statuses, Identities
  <2>6. call \in [Procs -> CallType] /\ \A p \in Procs : call[p].phase = "idle"
    BY DEF CallType, Idle
  <2>7. QED
    BY <1>1, <2>1, <2>3, <2>5, <2>6 DEF CallsTyped, HEAD
<1>6. QED
  BY <1>4, <1>5 DEF Typed

\* A fingerprint is one.
LEMMA FingerprintType ==
    ASSUME Typed
    PROVE  Fingerprint \in Prints
<1>1. Changed(task.base) \subseteq Files
  BY DEF Changed, Dirty, Reported, Differing
<1>2. [f \in Changed(task.base) |-> work[f]] \in [Changed(task.base) -> Texts \cup {Absent}]
  BY <1>1 DEF Typed, WorldTyped, FileTrees
<1>3. [f \in Changed(task.base) |-> work[f]] \in Contents
  BY <1>1, <1>2 DEF Contents
<1>4. Index(docs) \in SUBSET ((EntryTypes \cup {"broken"}) \X Paths)
  BY DEF Typed, Documents, Index, Entries
<1>5. task.plan \in Bindings /\ task.type \in Types
  BY DEF Typed, CallsTyped, TaskType
<1>6. Plan(docs, task) \in PlanTexts \/ task.plan = "none"
  BY <1>5 DEF Typed, Documents, Plan, Bindings
<1>7. docs.anchor \in AnchorTexts /\ NoDocument \in PlanTexts
  BY DEF Typed, Documents, PlanTexts
<1>8. QED
  BY <1>3, <1>4, <1>5, <1>6, <1>7 DEF Fingerprint, Prints

\* The world changes in a move: the calls go on, and history only grows.
LEMMA WorldStep ==
    ASSUME World
    PROVE  /\ call' = [p \in Procs |-> Stale(call[p])]
           /\ UNCHANGED <<profile, task, breadcrumb>>
           /\ history' \in {history, Append(history, index)} /\ lost \subseteq lost'
<1> USE DEF Rest, Stir
<1>1. CASE Author
  BY <1>1 DEF Author, WritePlan, NewPlan, WriteAnchor, WriteIndex, InitContext, AddContext, Write
<1>2. CASE ~Author
  BY <1>2 DEF World, Settle, Edit, Rename, CommitTree, Orphan, Dispatch, BindChecker, CloseChecker, Note,
              Check, Submit, HandWrite, Append_, Delegate
<1>3. QED
  BY <1>1, <1>2

LEMMA WorldTypes ==
    ASSUME Typed, World
    PROVE  Typed'
<1> USE DEF Typed, WorldTyped, Rest, Stir, HEAD
<1>1. /\ call' = [p \in Procs |-> Stale(call[p])]
      /\ UNCHANGED <<profile, task, breadcrumb>>
      /\ history' \in {history, Append(history, index)}
  BY WorldStep
<1>3. /\ history' \in Seq(FileTrees) /\ history' # <<>>
      /\ Len(history) \in Nat /\ Len(history') \in Nat /\ Len(history) <= Len(history')
  <2>1. Append(history, index) \in Seq(FileTrees) /\ Append(history, index) # <<>>
        /\ Len(Append(history, index)) = Len(history) + 1
    BY AppendProperties
  <2>2. Len(history) \in Nat
    BY LenProperties
  <2>3. CASE history' = history
    BY <2>2, <2>3
  <2>4. CASE history' = Append(history, index)
    BY <2>1, <2>2, <2>4
  <2>5. QED
    BY <1>1, <2>3, <2>4
<1>4. CallsTyped'
  <2>1. call' \in [Procs -> CallType]
    BY <1>1, StaleCall DEF CallsTyped
  <2>2. task' \in TaskType /\ task'.base <= HEAD'
    BY <1>1, <1>3 DEF CallsTyped, TaskType
  <2>3. ASSUME NEW p \in Procs, call'[p].phase \in {"loaded", "ready"}
        PROVE  call'[p].snap.base <= HEAD'
    <3>1. call'[p] = call[p]
      BY <1>1, <2>3, StaleCall DEF CallsTyped
    <3>2. call[p].snap \in TaskType
      BY <2>3, <3>1 DEF CallsTyped, CallType, LoadedCall, PlanCall
    <3>3. QED
      BY <1>3, <2>3, <3>1, <3>2 DEF CallsTyped, TaskType
  <2>4. QED
    BY <2>1, <2>2, <2>3 DEF CallsTyped
<1>5. WorldTyped' /\ docs' \in Documents
  <2>0. Move \/ moves' = moves => moves' \in 0..MaxMoves
    BY BoundAssumption DEF Move
  <2>1. CASE Author
    <3>1. PICK d \in Documents : Write(d)
      BY <2>1, AuthorWrites
    <3>2. QED
      BY <1>1, <2>0, <3>1 DEF Write, Draft
  <2>2. CASE \E f \in Files, text \in Texts \cup {Absent}, staged \in BOOLEAN : Edit(f, text, staged)
    <3>1. PICK f \in Files, text \in Texts \cup {Absent}, staged \in BOOLEAN : Edit(f, text, staged)
      BY <2>2
    <3>2. work' \in FileTrees /\ index' \in FileTrees
      BY <3>1 DEF Edit, FileTrees
    <3>3. QED
      BY <1>1, <2>0, <3>1, <3>2 DEF Edit
  <2>12. CASE \E r \in Renames : Rename(r[1], r[2])
    <3>1. PICK r \in Renames : Rename(r[1], r[2])
      BY <2>12
    <3>2. work' \in FileTrees /\ index' \in FileTrees
      BY <3>1, TreeAssumption DEF Rename, FileTrees
    <3>3. QED
      BY <1>1, <2>0, <3>1, <3>2 DEF Rename
  <2>3. CASE CommitTree
    <3>1. lost' \subseteq 1..Len(history')
      BY <1>3, <2>3 DEF CommitTree
    <3>2. QED
      BY <1>1, <1>3, <2>0, <2>3, <3>1 DEF CommitTree
  <2>4. CASE Orphan
    <3>1. task.base \in 1..Len(history)
      BY <2>4, <1>3 DEF Orphan
    <3>2. QED
      BY <1>1, <2>0, <2>4, <3>1 DEF Orphan
  <2>5. CASE Settle
    BY <1>1, <2>5 DEF Settle
  <2>6. CASE Dispatch \/ BindChecker \/ CloseChecker
    <3>1. PICK status \in {"pending", "bound", "closed"}, bound \in BOOLEAN :
              Check(status, bound, checker.noted)
      BY <2>6 DEF Dispatch, BindChecker, CloseChecker
    <3>2. QED
      BY <1>1, <2>0, <3>1 DEF Check
  <2>7. CASE Note
    <3>1. [print |-> Fingerprint, of |-> work, base |-> task.base] \in Notes
      BY FingerprintType DEF Notes, CallsTyped, TaskType
    <3>2. QED
      BY <2>7, <3>1, <1>1 DEF Note, Check
  <2>8. CASE \E result \in {"pass", "fail"} : Submit(result)
    <3>1. PICK result \in {"pass", "fail"} : Submit(result)
      BY <2>8
    <3>2. checker.noted \in Notes
      BY <3>1 DEF Submit
    <3>3. LET note == checker.noted
          IN [result |-> result, by |-> "checker", print |-> note.print, of |-> note.of,
              base |-> note.base] \in Receipts
      BY <3>2 DEF Notes, Receipts
    <3>4. QED
      BY <3>1, <3>3, <1>1, BoundAssumption DEF Submit, Append_
  <2>9. CASE HandWrite
    <3>1. [result |-> "pass", by |-> "nobody", print |-> Fingerprint, of |-> work,
           base |-> task.base] \in Receipts
      BY FingerprintType DEF Receipts, CallsTyped, TaskType
    <3>2. QED
      BY <2>9, <3>1, <1>1, BoundAssumption DEF HandWrite, Append_
  <2>10. CASE \E k \in Keys : Delegate(k)
    BY <2>10, <1>1, <2>0 DEF Delegate
  <2>11. QED
    BY <2>1, <2>2, <2>3, <2>4, <2>5, <2>6, <2>7, <2>8, <2>9, <2>10, <2>12 DEF World
<1>6. QED
  BY <1>4, <1>5

\* A command leaves the world alone, loads and commits a task, and puts
\* placeholders where it misses files.
LEMMA CommandTypes ==
    ASSUME Typed, NEW p \in Procs, Command(p)
    PROVE  Typed' /\ UNCHANGED world
<1> USE DEF Typed, Calm, world
<1>1. ASSUME UNCHANGED world, session' \in [Keys -> {"none", "main", "subagent"}] PROVE WorldTyped'
  BY <1>1 DEF WorldTyped, HEAD
<1>2. ASSUME UNCHANGED <<task, history>>, NEW c \in CallType, c.phase \notin {"loaded", "ready"},
             call' = [call EXCEPT ![p] = c]
      PROVE  CallsTyped'
  BY <1>2 DEF CallsTyped, HEAD
<1>3. /\ [phase |-> "bind"] \in CallType /\ Idle \in CallType
      /\ Idle.phase \notin {"loaded", "ready"}
  BY DEF CallType, Idle
<1>4. HEAD \in Nat
  BY LenProperties DEF HEAD, WorldTyped
<1>5. ASSUME NEW intent \in Intents, EnterStart(p, intent)
      PROVE  Typed' /\ UNCHANGED world
  <2>1. [phase |-> "routed"] \in CallType
    BY DEF CallType
  <2>2. QED
    BY <1>5, <1>1, <1>2, <2>1 DEF EnterStart, WorldTyped
<1>6. ASSUME NEW intent \in Intents, CheckReview(p, intent)
      PROVE  Typed' /\ UNCHANGED world
  <2>1. [phase |-> "commit", id |-> "request_review", label |-> NoKey, snap |-> task,
         fresh |-> TRUE] \in CallType
    BY DEF CallType, LoadedCall, CallsTyped, Identities
  <2>2. QED
    BY <1>6, <1>1, <1>2, <2>1 DEF CheckReview, Load, WorldTyped
<1>7. ASSUME NEW intent \in Intents, NEW allow \in BOOLEAN, CheckComplete(p, intent, allow)
      PROVE  Typed' /\ UNCHANGED world
  <2>1. Exemption(allow) \in BOOLEAN
    BY DEF Exemption
  <2>2. [phase |-> "commit", id |-> "complete_task", snap |-> task,
         exempt |-> Exemption(allow), fresh |-> TRUE] \in CallType
    BY <2>1 DEF CallType, LoadedCall, CallsTyped
  <2>3. QED
    BY <1>7, <1>1, <1>2, <2>2 DEF CheckComplete, WorldTyped
<1>8. ASSUME NEW label \in Identities, NEW takeover \in BOOLEAN,
             LoadStarted(p, label, takeover) \/ LoadStart(p, label, takeover)
      PROVE  Typed' /\ UNCHANGED world
  <2>1. ASSUME NEW phase \in {"seize", "commit"}
        PROVE  [phase |-> phase, id |-> "start_task", label |-> label, snap |-> task,
                fresh |-> TRUE] \in CallType
    BY DEF CallType, LoadedCall, CallsTyped
  <2>2. PICK c \in CallType : c.phase \notin {"loaded", "ready"} /\ call' = [call EXCEPT ![p] = c]
    BY <1>8, <1>3, <2>1 DEF LoadStarted, LoadStart, Load
  <2>3. UNCHANGED <<task, session, breadcrumb, world>> /\ docs' \in {docs, Repaired}
    BY <1>8 DEF LoadStarted, LoadStart
  <2>4. Repaired \in Documents
    BY PlaceholdersOnly DEF Repaired
  <2>5. QED
    BY <2>2, <2>3, <2>4, <1>1, <1>2 DEF WorldTyped
<1>9. ASSUME NEW label \in Identities, EnterAdopt(p, label)
      PROVE  Typed' /\ UNCHANGED world
  <2>1. [phase |-> "adopt", id |-> "adopt", label |-> label, snap |-> task,
         fresh |-> TRUE] \in CallType
    BY DEF CallType, LoadedCall, CallsTyped
  <2>2. QED
    BY <1>9, <1>1, <1>2, <2>1 DEF EnterAdopt, Load, WorldTyped
<1>10. CASE Commit(p)
  <2>1. call[p] \in LoadedCall /\ call[p].phase = "commit"
    BY <1>10 DEF Commit, CallsTyped, CallType, PlanCall
  <2>2. Persisted(p) \in TaskType /\ Persisted(p).base \in {call[p].snap.base, HEAD}
    <3>1. call[p].snap \in TaskType
      BY <2>1 DEF LoadedCall
    <3>2. CASE call[p].id = "start_task"
      <4>1. call[p].label \in Identities
        BY <3>2, <2>1 DEF LoadedCall
      <4>2. Identity(p, call[p].label) \in Identities
        BY <4>1, IdentityType
      <4>3. Persisted(p) =
                [call[p].snap EXCEPT !.status = "in_progress",
                                     !.owner = Identity(p, call[p].label),
                                     !.base = IF @ = 0 THEN HEAD ELSE @]
        BY <3>2, <2>1, PersistedTask
      <4>4. QED
        BY <3>1, <4>2, <4>3, <1>4 DEF TaskType, Statuses
    <3>3. CASE call[p].id = "request_review"
      BY <3>1, <3>3, <2>1, PersistedTask DEF TaskType, Statuses
    <3>4. CASE call[p].id = "complete_task"
      <4>1. call[p].exempt \in BOOLEAN
        BY <3>4, <2>1 DEF LoadedCall
      <4>2. Persisted(p) = [call[p].snap EXCEPT !.status = "completed",
                                                !.exempt = @ \/ call[p].exempt]
        BY <3>4, <2>1, PersistedTask
      <4>3. (call[p].snap.exempt \/ call[p].exempt) \in BOOLEAN
        BY <4>1, <3>1 DEF TaskType
      <4>4. QED
        BY <3>1, <4>2, <4>3 DEF TaskType, Statuses
    <3>5. QED
      BY <2>1, <3>2, <3>3, <3>4, PersistedTask
  <2>3. CallsTyped'
    BY <1>10, <1>3, <1>4, <2>2 DEF Commit, CallsTyped, HEAD
  <2>4. session' \in [Keys -> {"none", "main", "subagent"}]
    BY <1>10 DEF Commit, Opened, WorldTyped
  <2>5. QED
    BY <1>1, <1>10, <2>3, <2>4 DEF Commit
<1>11. CASE Seize(p) \/ Adopt(p)
  <2>1. call[p] \in LoadedCall /\ call[p].id # "complete_task"
    BY <1>11 DEF Seize, Adopt, CallsTyped, CallType, LoadedCall, PlanCall
  <2>2. Identity(p, call[p].label) \in Identities
    BY <2>1, IdentityType DEF LoadedCall
  <2>3. task' \in TaskType /\ task'.base \in {task.base, HEAD}
    BY <1>11, <1>4, <2>2 DEF Seize, Adopt, CallsTyped, TaskType
  <2>4. /\ call' \in [Procs -> CallType] /\ call'[p].phase \notin {"loaded", "ready"}
        /\ \A q \in Procs : q # p => call'[q] = call[q]
    BY <1>11, <1>3 DEF Seize, Adopt, CallsTyped
  <2>5. UNCHANGED <<session, docs, world>>
    BY <1>11 DEF Seize, Adopt
  <2>6. CallsTyped'
    BY <2>3, <2>4, <2>5, <1>4 DEF CallsTyped, HEAD
  <2>7. QED
    BY <1>1, <2>5, <2>6 DEF WorldTyped
<1>12. CASE BindAdopter(p)
  <2>1. session' \in [Keys -> {"none", "main", "subagent"}]
    BY <1>12 DEF BindAdopter, WorldTyped
  <2>2. QED
    BY <1>1, <1>2, <1>3, <1>12, <2>1 DEF BindAdopter
<1>13. CASE CommitFails(p)
  BY <1>1, <1>2, <1>3, <1>13 DEF CommitFails, WorldTyped
<1>14. Labels[p] \cup {NoKey} \subseteq Identities
  BY KeyAssumption DEF Identities
<1>15. QED
  BY <1>5, <1>6, <1>7, <1>8, <1>9, <1>10, <1>11, <1>12, <1>13, <1>14 DEF Command

\* The task that a plan command saves: another binding, type or approval, and
\* the rest of meta as it was loaded.
LEMMA SavedTask ==
    ASSUME Typed, NEW t \in TaskType
    PROVE  LET w == WithMeta(t) IN
           /\ w \in TaskType
           /\ w.status = task.status /\ w.owner = task.owner /\ w.type = task.type
           /\ w.base = t.base /\ w.plan = t.plan /\ w.approved = t.approved
BY DEF WithMeta, Typed, CallsTyped, TaskType

\* What a plan command does: it loads the task, or saves it, or gives up.
LEMMA PlanStep ==
    ASSUME Typed, NEW p \in Procs, PlanCommand(p)
    PROVE  /\ UNCHANGED <<session, breadcrumb, docs, world>>
           /\ \E c \in CallType :
                 /\ call' = [call EXCEPT ![p] = c]
                 /\ \/ c.phase \in {"idle", "plan", "typed"}
                    \/ c.phase \in {"loaded", "ready"} /\ c.snap = task /\ UNCHANGED task
           /\ \/ UNCHANGED task
              \/ \E type \in DevTypes : task' = [task EXCEPT !.type = type]
              \/ /\ call[p].phase = "loaded"
                 /\ \E file \in PlanFiles : task' = WithMeta([call[p].snap EXCEPT !.plan = file])
              \/ /\ call[p].phase = "ready"
                 /\ \E a \in Approvals : task' = WithMeta([call[p].snap EXCEPT !.approved = a])
<1> USE DEF Calm, world
<1>1. task \in TaskType /\ call[p] \in CallType
  BY DEF Typed, CallsTyped
<1>2. [phase |-> "plan"] \in CallType /\ [phase |-> "typed"] \in CallType /\ Idle \in CallType
      /\ Idle.phase = "idle"
  BY DEF CallType, Idle
<1>3. ASSUME NEW intent \in Intents, EnterPlan(p, intent)
      PROVE  UNCHANGED <<task, session, breadcrumb, docs, world>>
             /\ call' = [call EXCEPT ![p] = [phase |-> "plan"]]
  BY <1>3 DEF EnterPlan
<1>4. ASSUME NEW file \in PlanFiles, LoadBind(p, file)
      PROVE  UNCHANGED <<task, session, breadcrumb, docs, world>>
             /\ \E c \in CallType : call' = [call EXCEPT ![p] = c] /\ c.phase = "loaded" /\ c.snap = task
  <2>1. [phase |-> "loaded", file |-> file, snap |-> task] \in CallType
    BY <1>1 DEF CallType, PlanCall
  <2>2. QED
    BY <1>4, <2>1 DEF LoadBind
<1>5. ASSUME NEW typed \in BOOLEAN, SaveBind(p, typed)
      PROVE  /\ UNCHANGED <<session, breadcrumb, docs, world>>
             /\ call' = [call EXCEPT ![p] = [phase |-> "typed"]] \/ call' = [call EXCEPT ![p] = Idle]
             /\ call[p].phase = "loaded"
             /\ \E file \in PlanFiles : task' = WithMeta([call[p].snap EXCEPT !.plan = file])
  <2>1. call[p].file \in PlanFiles
    BY <1>1, <1>5 DEF SaveBind, CallType, LoadedCall, PlanCall
  <2>2. QED
    BY <1>5, <2>1 DEF SaveBind
<1>6. ASSUME NEW type \in DevTypes, SaveType(p, type)
      PROVE  /\ UNCHANGED <<session, breadcrumb, docs, world>>
             /\ call' = [call EXCEPT ![p] = Idle] /\ task' = [task EXCEPT !.type = type]
  BY <1>6 DEF SaveType
<1>7. CASE CheckPlan(p)
  <2>1. task.plan \in PlanFiles
    BY <1>7 DEF CheckPlan, PlanReady, PlanBound, Typed, Documents
  <2>2. Digests(docs, task) \in Digested
    BY <1>1, <2>1 DEF Digests, Digested, Plan, Typed, Documents, TaskType
  <2>3. [phase |-> "ready", snap |-> task, seen |-> Digests(docs, task)] \in CallType
    BY <1>1, <2>1, <2>2 DEF CallType, PlanCall
  <2>4. QED
    BY <1>7, <2>3 DEF CheckPlan
<1>8. CASE Approve(p)
  <2>1. call[p].snap \in TaskType /\ call[p].snap.plan \in PlanFiles
    BY <1>1, <1>8 DEF Approve, CallType, LoadedCall, PlanCall
  <2>2. Digests(docs, call[p].snap) \in Digested
    BY <2>1 DEF Digests, Digested, Plan, Typed, Documents, TaskType
  <2>3. PICK digests \in Digested, checked \in BOOLEAN :
            task' = WithMeta([call[p].snap EXCEPT !.approved =
                        [written |-> TRUE, plan |-> digests.plan,
                         anchor |-> digests.anchor, type |-> digests.type, checked |-> checked]])
    BY <1>8, <2>2 DEF Approve
  <2>4. [written |-> TRUE, plan |-> digests.plan, anchor |-> digests.anchor,
         type |-> digests.type, checked |-> checked] \in Approvals
    BY <2>3 DEF Digested, Approvals
  <2>5. QED
    BY <1>2, <1>8, <2>3, <2>4 DEF Approve
<1>9. CASE SaveFails(p)
  BY <1>2, <1>9 DEF SaveFails
<1>10. QED
  BY <1>2, <1>3, <1>4, <1>5, <1>6, <1>7, <1>8, <1>9 DEF PlanCommand

LEMMA PlanTypes ==
    ASSUME Typed, NEW p \in Procs, PlanCommand(p)
    PROVE  Typed'
<1>1. UNCHANGED <<session, docs, world>>
  BY PlanStep
<1>2. PICK c \in CallType : /\ call' = [call EXCEPT ![p] = c]
                            /\ \/ c.phase \in {"idle", "plan", "typed"}
                               \/ c.phase \in {"loaded", "ready"} /\ c.snap = task /\ UNCHANGED task
  BY PlanStep
<1>3. task \in TaskType /\ call[p] \in CallType
  BY DEF Typed, CallsTyped
<1>4. call[p].phase \in {"loaded", "ready"} => call[p].snap \in TaskType /\ call[p].snap.base <= HEAD
  BY <1>3 DEF CallType, LoadedCall, PlanCall, Typed, CallsTyped
<1>5. task' \in TaskType /\ task'.base <= HEAD
  <2>1. CASE UNCHANGED task
    BY <2>1 DEF Typed, CallsTyped
  <2>2. CASE \E type \in DevTypes : task' = [task EXCEPT !.type = type]
    BY <2>2, <1>3 DEF TaskType, Types, Typed, CallsTyped
  <2>3. CASE /\ call[p].phase = "loaded"
             /\ \E file \in PlanFiles : task' = WithMeta([call[p].snap EXCEPT !.plan = file])
    <3>1. PICK file \in PlanFiles : task' = WithMeta([call[p].snap EXCEPT !.plan = file])
      BY <2>3
    <3>2. [call[p].snap EXCEPT !.plan = file] \in TaskType
          /\ [call[p].snap EXCEPT !.plan = file].base = call[p].snap.base
      BY <1>4, <2>3 DEF TaskType, Bindings
    <3>3. QED
      BY <1>4, <2>3, <3>1, <3>2, SavedTask
  <2>4. CASE /\ call[p].phase = "ready"
             /\ \E a \in Approvals : task' = WithMeta([call[p].snap EXCEPT !.approved = a])
    <3>1. PICK a \in Approvals : task' = WithMeta([call[p].snap EXCEPT !.approved = a])
      BY <2>4
    <3>2. [call[p].snap EXCEPT !.approved = a] \in TaskType
          /\ [call[p].snap EXCEPT !.approved = a].base = call[p].snap.base
      BY <1>4, <2>4 DEF TaskType
    <3>3. QED
      BY <1>4, <2>4, <3>1, <3>2, SavedTask
  <2>5. QED
    BY <2>1, <2>2, <2>3, <2>4, PlanStep
<1>6. CallsTyped'
  BY <1>1, <1>2, <1>5 DEF Typed, CallsTyped, HEAD, world
<1>7. QED
  BY <1>1, <1>6 DEF Typed, WorldTyped, world, HEAD

LEMMA TypedHolds == Spec => []Typed
<1>1. Typed /\ [Next]_vars => Typed'
  <2> SUFFICES ASSUME Typed, [Next]_vars PROVE Typed'
    OBVIOUS
  <2>1. CASE UNCHANGED vars
    BY <2>1 DEF vars, world, Typed, WorldTyped, CallsTyped, HEAD
  <2>2. QED
    BY <2>1, CommandTypes, PlanTypes, WorldTypes, KeyAssumption DEF Next
<1>2. QED
  BY <1>1, TypedInit, PTL DEF Spec

-----------------------------------------------------------------------------
(* Commands.                                                               *)

LEMMA CommandInvInit == Init => CommandInv
BY DEF Init, CommandInv, Consistent, LoadedRight, Idle

\* A move of the world touches neither the task nor what is loaded.
LEMMA WorldKeepsCommands ==
    ASSUME Typed, CommandInv, World
    PROVE  CommandInv'
<1>1. UNCHANGED <<task, breadcrumb>>
  BY WorldStep
<1>2. ASSUME NEW p \in Procs PROVE LoadedRight(p)'
  <2>1. call[p] \in CallType /\ call'[p] = Stale(call[p]) /\ LoadedRight(p)
    BY WorldStep DEF Typed, CallsTyped, CommandInv
  <2> DEFINE c == call[p]
             d == call'[p]
  <2>2. c.phase \in {"commit", "seize", "adopt"} /\ c.id # "complete_task" => d.label = c.label
    BY <2>1, StaleCall
  <2>3. /\ d.phase = c.phase
        /\ c.phase # "commit" => d = c
        /\ c.phase \in {"commit", "seize", "adopt"} => d.id = c.id /\ d.snap = c.snap
    BY <2>1, StaleCall
  <2>4. c.phase \in {"commit", "seize", "adopt"} /\ c.id = "complete_task" => c.phase = "commit"
    BY <2>1 DEF CallType, LoadedCall, PlanCall
  <2> HIDE DEF c, d
  <2>5. CASE c.phase # "commit"
    <3>1. call'[p] = call[p]
      BY <2>3, <2>5 DEF c, d
    <3>2. QED
      BY <1>1, <2>1, <3>1 DEF LoadedRight, Identity
  <2>6. CASE c.phase = "commit"
    BY <1>1, <2>1, <2>2, <2>3, <2>4, <2>6 DEF LoadedRight, Identity, c, d
  <2>7. QED
    BY <2>5, <2>6
<1>3. QED
  BY <1>1, <1>2 DEF CommandInv

\* A command that starts, or goes on, has loaded a task of the right status.
LEMMA CommandKeepsCommands ==
    ASSUME Typed, CommandInv, NEW p \in Procs, Command(p)
    PROVE  CommandInv'
<1> USE DEF Typed, CommandInv, Calm
<1>1. task.status \in Statuses /\ task \in TaskType
  BY DEF CallsTyped, TaskType
<1>2. ASSUME NEW c, call' = [call EXCEPT ![p] = c], LoadedRight(p)', UNCHANGED <<task, breadcrumb>>
      PROVE  CommandInv'
  BY <1>2 DEF LoadedRight, Identity, CallsTyped
<1>3. ASSUME NEW intent \in Intents, EnterStart(p, intent)
      PROVE  CommandInv'
  BY <1>2, <1>3 DEF EnterStart, LoadedRight, CallsTyped
<1>4. ASSUME NEW intent \in Intents, CheckReview(p, intent)
      PROVE  CommandInv'
  <2>1. task.status = "in_progress"
    BY <1>1, <1>4, RouteStatus DEF CheckReview
  <2>2. QED
    BY <1>2, <1>4, <2>1 DEF CheckReview, Load, LoadedRight, CallsTyped
<1>5. ASSUME NEW intent \in Intents, NEW allow \in BOOLEAN, CheckComplete(p, intent, allow)
      PROVE  CommandInv'
  <2>1. task.status = "review"
    BY <1>1, <1>5, RouteStatus DEF CheckComplete
  <2>2. QED
    BY <1>2, <1>5, <2>1 DEF CheckComplete, LoadedRight, CallsTyped
<1>6. ASSUME NEW label, NEW takeover, LoadStarted(p, label, takeover)
      PROVE  CommandInv'
  BY <1>2, <1>6 DEF LoadStarted, TakesOver, Load, LoadedRight, Idle, CallsTyped
<1>7. ASSUME NEW label, NEW takeover, LoadStart(p, label, takeover)
      PROVE  CommandInv'
  <2>1. TransitionAllowed(task.status, "in_progress") /\ task.status # "in_progress" =>
            task.status = "planning"
    BY DEF TransitionAllowed, AllowedTransitions
  <2>2. QED
    BY <1>2, <1>7, <2>1 DEF LoadStart, Startable, MayOwn, Load, LoadedRight, Idle, CallsTyped
<1>8. ASSUME NEW label, EnterAdopt(p, label)
      PROVE  CommandInv'
  BY <1>2, <1>8 DEF EnterAdopt, MayAdopt, Load, LoadedRight, CallsTyped
<1>9. CASE BindAdopter(p) \/ CommitFails(p)
  BY <1>2, <1>9 DEF BindAdopter, CommitFails, LoadedRight, Idle, CallsTyped
<1>10. CASE Commit(p)
  <2>1. call[p] \in LoadedCall /\ call[p].phase = "commit" /\ LoadedRight(p)
    BY <1>10 DEF Commit, CallsTyped, CallType, PlanCall
  <2>2. HEAD # 0 /\ HEAD \in Nat
    BY LenProperties, EmptySeq DEF HEAD, WorldTyped
  <2>3. call[p].snap = task /\ task' = Persisted(p)
    BY <1>10 DEF Commit
  <2>4. task'.status # "planning"
    BY <1>1, <2>1, <2>3, PersistedTask DEF TaskType
  <2>5. \A q \in Procs : LoadedRight(q)'
    BY <1>10, <2>4 DEF Commit, LoadedRight, Idle, CallsTyped, Identity
  <2>6. Consistent(task')
    BY <2>4 DEF Consistent
  <2>7. QED
    BY <1>10, <2>5, <2>6 DEF Commit, Consistent
<1>11. CASE Seize(p) \/ Adopt(p)
  <2>1. task'.status = task.status
    BY <1>1, <1>11 DEF Seize, Adopt, TaskType
  <2>2. task.status # "planning"
    BY <1>11 DEF Seize, Adopt, LoadedRight
  <2>3. \A q \in Procs : LoadedRight(q)'
    BY <1>11, <2>1, <2>2 DEF Seize, Adopt, LoadedRight, Idle, CallsTyped, Identity
  <2>4. QED
    BY <1>11, <2>1, <2>2, <2>3 DEF Seize, Adopt, Consistent
<1>12. QED
  BY <1>3, <1>4, <1>5, <1>6, <1>7, <1>8, <1>9, <1>10, <1>11 DEF Command

\* A plan command keeps the status and the owner of the task, and the baseline
\* but for one that it had loaded before.
LEMMA PlanKeepsStatus ==
    ASSUME Typed, NEW p \in Procs, PlanCommand(p)
    PROVE  /\ task'.status = task.status /\ task'.owner = task.owner /\ UNCHANGED breadcrumb
           /\ task'.base # task.base => Reverts(p) /\ task'.base = call[p].snap.base
<1>1. task \in TaskType /\ call[p] \in CallType
  BY DEF Typed, CallsTyped
<1>2. call[p].phase \in {"loaded", "ready"} => call[p].snap \in TaskType
  BY <1>1 DEF CallType, LoadedCall, PlanCall
<1>3. CASE UNCHANGED task
  BY <1>3, PlanStep
<1>4. CASE \E type \in DevTypes : task' = [task EXCEPT !.type = type]
  BY <1>1, <1>4, PlanStep DEF TaskType
<1>5. ASSUME NEW s \in TaskType, call[p].phase \in {"loaded", "ready"}, s.base = call[p].snap.base,
             s.previous = call[p].snap.previous, s.exempt = call[p].snap.exempt,
             task' = WithMeta(s)
      PROVE  /\ task'.status = task.status /\ task'.owner = task.owner
             /\ task'.base # task.base => Reverts(p) /\ task'.base = call[p].snap.base
  <2>1. /\ task'.status = task.status /\ task'.owner = task.owner /\ task'.base = s.base
        /\ task'.plan = s.plan /\ task'.approved = s.approved
    BY <1>5, SavedTask
  <2> DEFINE t == [call[p].snap EXCEPT !.plan = task'.plan, !.approved = task'.approved]
  <2>2. /\ t.base = s.base /\ t.previous = s.previous /\ t.exempt = s.exempt
        /\ t.plan = s.plan /\ t.approved = s.approved
    BY <1>2, <1>5, <2>1 DEF TaskType
  <2> HIDE DEF t
  <2>3. WithMeta(t) = WithMeta(s)
    BY <2>2 DEF WithMeta
  <2>4. QED
    BY <1>5, <2>1, <2>3 DEF Reverts, t
<1>6. CASE /\ call[p].phase = "loaded"
           /\ \E file \in PlanFiles : task' = WithMeta([call[p].snap EXCEPT !.plan = file])
  <2>1. PICK file \in PlanFiles : task' = WithMeta([call[p].snap EXCEPT !.plan = file])
    BY <1>6
  <2> DEFINE s == [call[p].snap EXCEPT !.plan = file]
  <2>2. /\ s \in TaskType /\ s.base = call[p].snap.base
        /\ s.previous = call[p].snap.previous /\ s.exempt = call[p].snap.exempt
    BY <1>2, <1>6 DEF TaskType, Bindings
  <2>3. task' = WithMeta(s)
    BY <2>1
  <2> HIDE DEF s
  <2>4. QED
    BY <1>5, <1>6, <2>2, <2>3, PlanStep
<1>7. CASE /\ call[p].phase = "ready"
           /\ \E a \in Approvals : task' = WithMeta([call[p].snap EXCEPT !.approved = a])
  <2>1. PICK a \in Approvals : task' = WithMeta([call[p].snap EXCEPT !.approved = a])
    BY <1>7
  <2> DEFINE s == [call[p].snap EXCEPT !.approved = a]
  <2>2. /\ s \in TaskType /\ s.base = call[p].snap.base
        /\ s.previous = call[p].snap.previous /\ s.exempt = call[p].snap.exempt
    BY <1>2, <1>7 DEF TaskType
  <2>3. task' = WithMeta(s)
    BY <2>1
  <2> HIDE DEF s
  <2>4. QED
    BY <1>5, <1>7, <2>2, <2>3, PlanStep
<1>8. QED
  BY <1>3, <1>4, <1>6, <1>7, PlanStep

\* What a plan command has loaded is a task without a baseline as long as the
\* task is in planning.
LEMMA PlanKeepsCommands ==
    ASSUME Typed, CommandInv, NEW p \in Procs, PlanCommand(p)
    PROVE  CommandInv'
<1>1. UNCHANGED breadcrumb
  BY PlanStep
<1>2. PICK c \in CallType : /\ call' = [call EXCEPT ![p] = c]
                            /\ \/ c.phase \in {"idle", "plan", "typed"}
                               \/ c.phase \in {"loaded", "ready"} /\ c.snap = task /\ UNCHANGED task
  BY PlanStep
<1>3. task \in TaskType /\ call[p] \in CallType /\ LoadedRight(p) /\ Consistent(task)
  BY DEF Typed, CallsTyped, CommandInv
<1>5. task'.status = task.status /\ Consistent(task')
  BY <1>3, PlanKeepsStatus DEF LoadedRight, Consistent, Reverts
<1>6. \A q \in Procs : LoadedRight(q)'
  BY <1>2, <1>3, <1>5 DEF CommandInv, LoadedRight, Consistent, Identity, Typed, CallsTyped
<1>7. QED
  BY <1>1, <1>5, <1>6 DEF CommandInv, Consistent

LEMMA CommandInvHolds == Spec => [](Typed /\ CommandInv)
<1>1. Typed /\ CommandInv /\ [Next]_vars => CommandInv'
  <2> SUFFICES ASSUME Typed, CommandInv, [Next]_vars PROVE CommandInv'
    OBVIOUS
  <2>1. CASE UNCHANGED vars
    BY <2>1 DEF vars, CommandInv, Consistent, LoadedRight, Identity
  <2>2. QED
    BY <2>1, CommandKeepsCommands, PlanKeepsCommands, WorldKeepsCommands, KeyAssumption DEF Next
<1>2. QED
  BY <1>1, CommandInvInit, TypedHolds, PTL DEF Spec

\* Every variable keeps its type, and there is no baseline before the start.
THEOREM TypeCorrect == Spec => []TypeOK
<1>1. Typed /\ CommandInv => TypeOK
  <2> SUFFICES ASSUME Typed, CommandInv PROVE TypeOK
    OBVIOUS
  <2> USE DEF Typed, WorldTyped, CallsTyped
  <2>1. /\ task.status \in Statuses /\ {task.owner, task.previous} \subseteq Identities
        /\ task.base \in Nat /\ task.exempt \in BOOLEAN
        /\ task.plan \in Bindings /\ task.type \in Types
    BY DEF TaskType
  <2>2. HEAD \in Nat /\ Len(receipts) \in Nat
    BY LenProperties DEF HEAD
  <2>3. \A p \in Procs : call[p].phase \in {"idle", "routed", "commit", "seize", "adopt", "bind",
                                            "plan", "loaded", "typed", "ready"}
    BY DEF CallType, LoadedCall, PlanCall
  <2>4. task.base \in 0..HEAD /\ Len(receipts) \in 0..MaxReceipts
    BY <2>1, <2>2, BoundAssumption
  <2>5. task.status = "planning" => task.base = 0
    BY DEF CommandInv, Consistent
  <2>6. QED
    BY <2>1, <2>3, <2>4, <2>5 DEF TypeOK, Statuses, Identities, Bindings, Types
<1>2. QED
  BY <1>1, CommandInvHolds, PTL

\* What a step of the commands does to the task.
LEMMA TaskStep ==
    ASSUME Typed, CommandInv, NEW p \in Procs, Command(p)
    PROVE  \/ UNCHANGED <<task, breadcrumb>>
           \/ /\ Commit(p) /\ call[p] \in LoadedCall /\ LoadedRight(p)
              /\ task = call[p].snap /\ breadcrumb' = task'.status
              /\ task'.status = CASE call[p].id = "start_task"     -> "in_progress"
                                  [] call[p].id = "request_review" -> "review"
                                  [] call[p].id = "complete_task"  -> "completed"
              /\ call[p].id \in {"start_task", "request_review", "complete_task"}
              /\ call[p].id # "start_task" => task'.owner = task.owner /\ task'.base = task.base
           \/ /\ call[p].phase \in {"seize", "adopt"} /\ call[p].snap = task
              /\ task'.status = task.status /\ UNCHANGED breadcrumb
              /\ task'.base # task.base => task'.owner # task.owner /\ task'.previous = task.owner
<1> USE DEF Typed, CommandInv
<1>1. task \in TaskType
  BY DEF CallsTyped
<1>2. CASE Commit(p)
  <2>1. call[p] \in LoadedCall /\ call[p].phase = "commit" /\ LoadedRight(p)
    BY <1>2 DEF Commit, CallsTyped, CallType, PlanCall
  <2>2. task = call[p].snap /\ task' = Persisted(p) /\ breadcrumb' = task'.status
    BY <1>2 DEF Commit
  <2>3. CASE call[p].id = "start_task"
    <3>1. task'.status = "in_progress"
      BY <1>1, <2>1, <2>2, <2>3, PersistedTask DEF TaskType
    <3>2. QED
      BY <1>2, <2>1, <2>2, <2>3, <3>1, Zenon
  <2>4. CASE call[p].id = "request_review"
    <3>1. task'.status = "review" /\ task'.owner = task.owner /\ task'.base = task.base
      BY <1>1, <2>1, <2>2, <2>4, PersistedTask DEF TaskType
    <3>2. QED
      BY <1>2, <2>1, <2>2, <2>4, <3>1, Zenon
  <2>5. CASE call[p].id = "complete_task"
    <3>1. task'.status = "completed" /\ task'.owner = task.owner /\ task'.base = task.base
      BY <1>1, <2>1, <2>2, <2>5, PersistedTask DEF TaskType
    <3>2. QED
      BY <1>2, <2>1, <2>2, <2>5, <3>1, Zenon
  <2>6. QED
    BY <2>1, <2>3, <2>4, <2>5, PersistedTask
<1>3. CASE Seize(p)
  BY <1>1, <1>3 DEF Seize, TaskType
<1>4. CASE Adopt(p)
  <2>1. Identity(p, call[p].label) # task.owner
    BY <1>4 DEF Adopt, LoadedRight
  <2>2. QED
    BY <1>1, <1>4, <2>1 DEF Adopt, TaskType
<1>5. CASE ~(Commit(p) \/ Seize(p) \/ Adopt(p))
  BY <1>5 DEF Command, EnterStart, CheckReview, CheckComplete, LoadStarted, LoadStart, EnterAdopt,
              BindAdopter, CommitFails, Calm
<1>6. QED
  BY <1>2, <1>3, <1>4, <1>5

-----------------------------------------------------------------------------
(* What a step may never do.                                               *)

\* A task goes through its statuses one by one and never back, and the
\* breadcrumb goes with it, whatever commands overlap.
THEOREM StatusesAdvance == Spec => StatusAdvances
<1>1. Typed /\ CommandInv /\ [Next]_vars =>
          [/\ Order[task'.status] - Order[task.status] \in {0, 1}
           /\ breadcrumb' \in {"none", task'.status}]_vars
  <2> SUFFICES ASSUME Typed, CommandInv, Next
               PROVE  /\ Order[task'.status] - Order[task.status] \in {0, 1}
                      /\ breadcrumb' \in {"none", task'.status}
    OBVIOUS
  <2>1. task.status \in Statuses /\ breadcrumb \in {"none", task.status}
    BY DEF Typed, CallsTyped, CommandInv, TaskType
  <2>2. CASE UNCHANGED <<task, breadcrumb>>
    BY <2>1, <2>2 DEF Order, Statuses
  <2>3. ASSUME NEW p \in Procs, Command(p)
        PROVE  /\ Order[task'.status] - Order[task.status] \in {0, 1}
               /\ breadcrumb' \in {"none", task'.status}
    <3> DEFINE c == call[p]
    <3>1. CASE /\ c.phase = "commit" /\ LoadedRight(p) /\ task = c.snap
               /\ breadcrumb' = task'.status
               /\ c.id = "start_task" /\ task'.status = "in_progress"
      BY <3>1 DEF Order, LoadedRight
    <3>2. CASE /\ c.phase = "commit" /\ LoadedRight(p) /\ task = c.snap
               /\ breadcrumb' = task'.status
               /\ c.id = "request_review" /\ task'.status = "review"
      BY <3>2 DEF Order, LoadedRight
    <3>3. CASE /\ c.phase = "commit" /\ LoadedRight(p) /\ task = c.snap
               /\ breadcrumb' = task'.status
               /\ c.id = "complete_task" /\ task'.status = "completed"
      BY <3>3 DEF Order, LoadedRight
    <3>4. CASE task'.status = task.status /\ UNCHANGED breadcrumb
      BY <2>1, <3>4 DEF Order, Statuses
    <3>5. Commit(p) => c.phase = "commit"
      BY DEF Commit
    <3> HIDE DEF c
    <3>6. QED
      BY <2>2, <2>3, <3>1, <3>2, <3>3, <3>4, <3>5, TaskStep, Zenon DEF c
  <2>4. ASSUME NEW p \in Procs, PlanCommand(p)
        PROVE  task'.status = task.status /\ UNCHANGED breadcrumb
    BY <2>4, PlanKeepsStatus
  <2>5. QED
    BY <2>1, <2>2, <2>3, <2>4, WorldStep, KeyAssumption DEF Next, Order, Statuses
<1>2. QED
  BY <1>1, CommandInvHolds, PTL DEF Spec, StatusAdvances

\* A task changes hands only by a takeover or an adoption that has seen its
\* owner, and only an adoption, which names the one it takes the task from,
\* moves the baseline of its review, but for a plan command that saves the one
\* it had loaded.
THEOREM HandoversRecorded == Spec => HandoverIsRecorded
<1>1. Typed /\ CommandInv /\ [Next]_vars =>
        [/\ task.owner # NoKey /\ task'.owner # task.owner =>
              \E p \in Procs : /\ call[p].phase \in {"seize", "adopt"}
                               /\ call[p].snap.owner = task.owner
                               /\ task'.status = task.status
         /\ task.base # 0 /\ task'.base # task.base =>
              \/ task'.owner # task.owner /\ task'.previous = task.owner
              \/ \E p \in Procs : Reverts(p)]_vars
  <2> SUFFICES ASSUME Typed, CommandInv, Next
               PROVE  /\ task.owner # NoKey /\ task'.owner # task.owner =>
                            \E p \in Procs : /\ call[p].phase \in {"seize", "adopt"}
                                             /\ call[p].snap.owner = task.owner
                                             /\ task'.status = task.status
                      /\ task.base # 0 /\ task'.base # task.base =>
                            \/ task'.owner # task.owner /\ task'.previous = task.owner
                            \/ \E p \in Procs : Reverts(p)
    OBVIOUS
  <2>1. CASE UNCHANGED task
    BY <2>1
  <2>2. ASSUME NEW p \in Procs, Command(p)
        PROVE  \/ UNCHANGED task
               \/ task.owner = NoKey /\ task.base = 0
               \/ task'.owner = task.owner /\ task'.base = task.base
               \/ /\ call[p].phase \in {"seize", "adopt"} /\ call[p].snap = task
                  /\ task'.status = task.status
                  /\ task'.base # task.base => task'.owner # task.owner /\ task'.previous = task.owner
    <3>1. Commit(p) /\ call[p].id = "start_task" /\ LoadedRight(p) /\ task = call[p].snap =>
              task.owner = NoKey /\ task.base = 0
      BY DEF Commit, LoadedRight, Consistent
    <3>2. QED
      BY <2>2, <3>1, TaskStep
  <2>3. ASSUME NEW p \in Procs, PlanCommand(p)
        PROVE  task'.owner = task.owner /\ (task'.base # task.base => Reverts(p))
    BY <2>3, PlanKeepsStatus
  <2>4. QED
    BY <2>1, <2>2, <2>3, WorldStep, KeyAssumption DEF Next
<1>2. QED
  BY <1>1, CommandInvHolds, PTL DEF Spec, HandoverIsRecorded

-----------------------------------------------------------------------------
(* Gates.                                                                  *)

\* The content of the changes since a baseline.
ContentSince(base) == [f \in Changed(base) |-> work[f]]

\* What a command has checked holds until the world moves.
Gated(p) ==
    LET c == call[p]
    IN /\ c.phase = "commit" /\ c.id \in {"request_review", "complete_task"} /\ c.fresh =>
          /\ c.snap.base \notin lost /\ Changed(c.snap.base) \subseteq Scope(docs)
          /\ c.id = "complete_task" /\ profile = "strict" =>
                /\ receipts # <<>> /\ Last(receipts).result = "pass" /\ checker.bound
                /\ Last(receipts).print[1] = ContentSince(c.snap.base)
       /\ c.phase = "commit" /\ c.id = "start_task" /\ c.fresh /\ profile = "strict" =>
          SnapshotHeld(docs, c.snap)

\* A note tells the content of what it covers, and what it does not cover is
\* as in the commit of its baseline, unless that is lost, or has gone for a
\* new file that it covers.
Faithful(note, commits, gone) ==
    /\ note.base \in 0..Len(commits)
    /\ note.base \notin gone \cup {0} =>
          \A f \in Files : IF f \in DOMAIN note.print[1] THEN note.print[1][f] = note.of[f]
                           ELSE \/ note.of[f] = commits[note.base][f]
                \/ /\ note.of[f] = Absent
                   /\ \E new \in DOMAIN note.print[1] : <<f, new>> \in Renames

GateInv ==
    /\ \A p \in Procs : Gated(p)
    /\ checker.noted # <<>> => Faithful(checker.noted, history, lost)
    /\ \A i \in DOMAIN receipts : Faithful(receipts[i], history, lost)

\* Of a file that has gone under a new name, the new one is reported.
LEMMA NewNameReported ==
    ASSUME NEW a, NEW b, NEW f \in RenamedAway(a, b)
    PROVE  /\ b[f] = Absent
           /\ \E new \in Reported(a, b) : <<f, new>> \in Renames /\ a[new] = Absent
<1>1. PICK r \in Renames : /\ f = r[1] /\ b[r[1]] = Absent
                           /\ a[r[2]] = Absent /\ b[r[2]] # Absent
  BY DEF RenamedAway
<1>2. r[2] \in Files /\ r = <<f, r[2]>>
  BY <1>1, TreeAssumption
<1>3. r[2] \notin RenamedAway(a, b)
  BY <1>1 DEF RenamedAway
<1>4. r[2] \in Reported(a, b)
  BY <1>1, <1>2, <1>3 DEF Reported, Differing
<1>5. QED
  BY <1>1, <1>2, <1>4

\* What is not in the changes since a baseline is as it was there, and without
\* a baseline as in HEAD, or it has gone under a new name that is.
LEMMA Unchanged ==
    ASSUME Typed, NEW base \in 0..HEAD, base \notin lost, NEW f \in Files, f \notin Changed(base)
    PROVE  LET baseline == history[IF base = 0 THEN HEAD ELSE base]
           IN \/ work[f] = baseline[f]
              \/ /\ work[f] = Absent
                 /\ \E new \in Changed(base) : /\ <<f, new>> \in Renames
                                               /\ Absent \in {baseline[new], history[HEAD][new]}
<1> DEFINE head == history[HEAD]
<1>1. Dirty \subseteq Changed(base) /\ f \notin Dirty
  BY DEF Changed
<1>2. index[f] = work[f] /\ f \notin Reported(head, index)
  BY <1>1 DEF Dirty, Differing
<1>3. CASE f \in RenamedAway(head, index)
  <2>1. /\ index[f] = Absent
        /\ \E new \in Reported(head, index) : <<f, new>> \in Renames /\ head[new] = Absent
    BY <1>3, NewNameReported
  <2>2. QED
    BY <1>1, <1>2, <2>1 DEF Dirty
<1>4. CASE f \notin RenamedAway(head, index)
  <2>1. head[f] = work[f]
    BY <1>2, <1>4 DEF Reported, Differing
  <2>2. CASE base = 0
    BY <2>1, <2>2
  <2>3. CASE base # 0
    <3> DEFINE first == history[base]
    <3>1. Reported(first, head) \subseteq Changed(base) /\ f \notin Reported(first, head)
      BY <2>3 DEF Changed, Degraded
    <3>2. CASE f \in RenamedAway(first, head)
      <4> HIDE DEF first, head
      <4>1. /\ head[f] = Absent
            /\ \E new \in Reported(first, head) :
                  <<f, new>> \in Renames /\ first[new] = Absent
        BY <3>2, NewNameReported
      <4>2. QED
        BY <2>1, <2>3, <3>1, <4>1 DEF first, head
    <3>3. CASE f \notin RenamedAway(first, head)
      BY <2>1, <2>3, <3>1, <3>3 DEF Reported, Differing
    <3>4. QED
      BY <3>2, <3>3
  <2>4. QED
    BY <2>2, <2>3
<1>5. QED
  BY <1>3, <1>4

\* What a checker notes now is faithful.
LEMMA NoteNow ==
    ASSUME Typed, NEW note, note.print = Fingerprint, note.of = work, note.base = task.base
    PROVE  Faithful(note, history, lost)
<1>1. note.print[1] = [f \in Changed(task.base) |-> work[f]]
  BY DEF Fingerprint
<1>2. note.base \in 0..HEAD
  BY LenProperties DEF Typed, CallsTyped, WorldTyped, TaskType, HEAD
<1>3. QED
  BY <1>1, <1>2, Unchanged DEF Faithful, HEAD

\* History only grows, and what is lost stays lost.
LEMMA StaysFaithful ==
    ASSUME Typed, NEW note, Faithful(note, history, lost), lost \subseteq lost',
           history' \in {history, Append(history, index)}
    PROVE  Faithful(note, history', lost')
<1>1. /\ Len(history) \in Nat /\ Len(history) <= Len(history')
      /\ \A i \in 1..Len(history) : history'[i] = history[i]
  BY AppendProperties, LenProperties DEF Typed, WorldTyped
<1>2. note.base \in 0..Len(history') /\ (note.base # 0 => note.base \in 1..Len(history))
  BY <1>1, LenProperties, AppendProperties DEF Faithful, Typed, WorldTyped
<1>3. QED
  BY <1>1, <1>2 DEF Faithful

LEMMA GateInvInit == Init => GateInv
BY DEF Init, GateInv, Gated, Idle

LEMMA WorldKeepsGates ==
    ASSUME Typed, CommandInv, GateInv, World
    PROVE  GateInv'
<1> USE DEF GateInv
<1>1. ASSUME NEW p \in Procs PROVE Gated(p)'
  <2>1. call[p] \in CallType /\ call'[p] = Stale(call[p])
    BY WorldStep DEF Typed, CallsTyped
  <2>2. call'[p].phase = "commit" => ~call'[p].fresh
    BY <2>1, StaleCall
  <2>3. QED
    BY <2>2 DEF Gated
<1>2. history' \in {history, Append(history, index)} /\ lost \subseteq lost'
  BY WorldStep
<1>3. \A i \in DOMAIN receipts : Faithful(receipts[i], history', lost')
  BY <1>2, StaysFaithful
<1>4. checker.noted # <<>> => Faithful(checker.noted, history', lost')
  BY <1>2, StaysFaithful
<1>6. receipts \in Seq(Receipts)
  BY DEF Typed, WorldTyped
<1>7. ASSUME NEW r \in Receipts, receipts' = Append(receipts, r), Faithful(r, history', lost')
      PROVE  \A i \in DOMAIN receipts' : Faithful(receipts'[i], history', lost')
  <2>1. /\ DOMAIN receipts = 1..Len(receipts) /\ DOMAIN receipts' = 1..(Len(receipts) + 1)
        /\ Len(receipts) \in Nat
        /\ \A i \in 1..Len(receipts) : receipts'[i] = receipts[i]
        /\ receipts'[Len(receipts) + 1] = r
    BY <1>6, <1>7, AppendProperties, LenProperties
  <2>2. ASSUME NEW i \in DOMAIN receipts' PROVE Faithful(receipts'[i], history', lost')
    <3>1. CASE i \in 1..Len(receipts)
      BY <1>3, <2>1, <3>1
    <3>2. CASE i = Len(receipts) + 1
      BY <1>7, <2>1, <3>2
    <3>3. QED
      BY <2>1, <3>1, <3>2
  <2>3. QED
    BY <2>2
<1>8. checker \in [status : {"none", "pending", "bound", "closed"}, bound : BOOLEAN,
                   noted : Notes \cup {<<>>}]
  BY DEF Typed, WorldTyped
<1>9. CASE Note
  <2> DEFINE note == [print |-> Fingerprint, of |-> work, base |-> task.base]
  <2>1. Faithful(note, history, lost)
    BY NoteNow
  <2>2. Faithful(note, history', lost')
    BY <1>2, <2>1, StaysFaithful
  <2>3. checker'.noted = note /\ receipts' = receipts
    BY <1>8, <1>9 DEF Note, Check, Rest
  <2> HIDE DEF note
  <2>4. QED
    BY <1>1, <1>3, <2>2, <2>3
<1>10. ASSUME NEW result \in {"pass", "fail"}, Submit(result)
       PROVE  GateInv'
  <2> DEFINE note == checker.noted
             r == [result |-> result, by |-> "checker", print |-> note.print, of |-> note.of,
                   base |-> note.base]
  <2>1. note \in Notes /\ note # <<>>
    BY <1>8, <1>10 DEF Submit, Notes
  <2>2. r \in Receipts
    BY <2>1 DEF Notes, Receipts
  <2>3. Faithful(r, history, lost)
    BY <2>1 DEF Faithful
  <2>4. receipts' = Append(receipts, r) /\ checker' = checker
    BY <1>10 DEF Submit, Append_, Rest
  <2>5. Faithful(r, history', lost')
    BY <1>2, <2>3, StaysFaithful
  <2> HIDE DEF r
  <2>6. QED
    BY <1>1, <1>4, <1>7, <2>2, <2>4, <2>5
<1>11. CASE HandWrite
  <2> DEFINE r == [result |-> "pass", by |-> "nobody", print |-> Fingerprint, of |-> work,
                   base |-> task.base]
  <2>1. r \in Receipts
    BY FingerprintType DEF Receipts, Typed, CallsTyped, WorldTyped, TaskType
  <2>2. Faithful(r, history, lost)
    BY NoteNow
  <2>3. Faithful(r, history', lost')
    BY <1>2, <2>2, StaysFaithful
  <2>4. receipts' = Append(receipts, r) /\ checker' = checker
    BY <1>11 DEF HandWrite, Append_, Rest
  <2> HIDE DEF r
  <2>5. QED
    BY <1>1, <1>4, <1>7, <2>1, <2>3, <2>4
<1>12. CASE UNCHANGED receipts /\ checker'.noted = checker.noted
  BY <1>1, <1>3, <1>4, <1>12
<1>13. CASE Dispatch \/ BindChecker \/ CloseChecker
  <2>1. UNCHANGED receipts /\ checker'.noted = checker.noted
    BY <1>8, <1>13 DEF Dispatch, BindChecker, CloseChecker, Check, Rest
  <2>2. QED
    BY <1>12, <2>1
<1>14. CASE Author
  <2>1. PICK d \in Documents : Write(d)
    BY <1>14, AuthorWrites DEF Typed
  <2>2. QED
    BY <1>12, <2>1 DEF Write, Rest
<1>15. QED
  BY <1>9, <1>10, <1>11, <1>12, <1>13, <1>14
  DEF World, Settle, Edit, Rename, CommitTree, Orphan, Delegate, Rest

\* A command leaves the plans and the anchor alone, and the scope as it is.
LEMMA DocumentsKept ==
    ASSUME Typed, NEW p \in Procs, Command(p)
    PROVE  docs'.plans = docs.plans /\ docs'.anchor = docs.anchor /\ Scope(docs') = Scope(docs)
<1>1. docs' \in {docs, WithPlaceholders(docs)}
  BY DEF Command, EnterStart, CheckReview, CheckComplete, LoadStarted, LoadStart, Repaired,
         EnterAdopt, Commit, Seize, Adopt, BindAdopter, CommitFails, Calm
<1>2. QED
  BY <1>1, PlaceholdersOnly DEF Typed

\* What the gates have found stays so while one process takes a step that
\* leaves the world alone, if its own step is right.
LEMMA StepKeepsGates ==
    ASSUME Typed, GateInv, NEW p \in Procs, UNCHANGED world,
           docs'.plans = docs.plans, docs'.anchor = docs.anchor, Scope(docs') = Scope(docs),
           \A q \in Procs : q # p => call'[q] = call[q],
           Gated(p)'
    PROVE  GateInv'
<1> USE DEF GateInv, world
<1>1. ASSUME NEW base PROVE Changed(base)' = Changed(base) /\ ContentSince(base)' = ContentSince(base)
  BY DEF Changed, Dirty, Reported, Differing, RenamedAway, Degraded, HEAD, ContentSince
<1>2. ASSUME NEW t PROVE SnapshotHeld(docs', t) = SnapshotHeld(docs, t)
  BY DEF SnapshotHeld, Plan
<1>3. ASSUME NEW q \in Procs, q # p PROVE Gated(q)'
  <2>1. Gated(q) /\ call'[q] = call[q]
    BY <1>3
  <2>2. QED
    BY <1>1, <1>2, <2>1 DEF Gated
<1>4. (checker.noted # <<>> => Faithful(checker.noted, history, lost))'
  BY DEF Faithful
<1>5. (\A i \in DOMAIN receipts : Faithful(receipts[i], history, lost))'
  BY DEF Faithful
<1>6. QED
  BY <1>3, <1>4, <1>5

\* What a start, a review and a completion have checked.
LEMMA CommandKeepsGates ==
    ASSUME Typed, CommandInv, GateInv, NEW p \in Procs, Command(p)
    PROVE  GateInv'
<1> USE DEF GateInv
<1>1. UNCHANGED world
  BY CommandTypes
<1>2. \A q \in Procs : q # p => call'[q] = call[q]
  BY DEF Typed, CallsTyped, Command, EnterStart, CheckReview, CheckComplete, LoadStarted, LoadStart, EnterAdopt,
         Load, Commit, Seize, Adopt, BindAdopter, CommitFails
<1>3. call \in [Procs -> CallType] /\ task \in TaskType /\ 0 \notin lost /\ checker.bound \in BOOLEAN
  BY DEF Typed, CallsTyped, WorldTyped
<1>4. ReviewGate(p) => task.base \notin lost /\ Changed(task.base) \subseteq Scope(docs)
  BY <1>3 DEF ReviewGate, Degraded, ScopeHeld
<1>5. ASSUME NEW intent \in Intents, CheckReview(p, intent) PROVE Gated(p)'
  <2>1. /\ call'[p].id = "request_review" /\ call'[p].snap = task /\ UNCHANGED <<docs, world>>
        /\ task.base \notin lost /\ Changed(task.base) \subseteq Scope(docs)
    BY <1>1, <1>3, <1>4, <1>5 DEF CheckReview, Load, Calm
  <2>2. QED
    BY <2>1 DEF Gated, Changed, Dirty, Reported, Differing, RenamedAway, Degraded, HEAD, world
<1>6. ASSUME NEW intent \in Intents, NEW allow \in BOOLEAN, CheckComplete(p, intent, allow)
      PROVE  Gated(p)'
  <2>1. /\ call'[p].id = "complete_task" /\ call'[p].snap = task /\ UNCHANGED <<docs, world>>
        /\ task.base \notin lost /\ Changed(task.base) \subseteq Scope(docs)
    BY <1>1, <1>3, <1>4, <1>6 DEF CheckComplete, Calm
  <2>2. profile = "strict" =>
            /\ receipts # <<>> /\ Last(receipts).result = "pass" /\ checker.bound
            /\ Last(receipts).print[1] = ContentSince(task.base)
    BY <1>3, <1>6 DEF CheckComplete, ReceiptGate, Strict, Light, Backed, ContentSince, Fingerprint
  <2>3. QED
    BY <2>1, <2>2 DEF Gated, ContentSince, Changed, Dirty, Reported, Differing, RenamedAway, Degraded, HEAD, world
<1>7. ASSUME NEW label, NEW takeover, LoadStart(p, label, takeover) PROVE Gated(p)'
  <2>1. CASE call'[p] = Idle
    BY <2>1 DEF Gated, Idle
  <2>2. CASE call'[p] # Idle
    <3>1. /\ call'[p].id = "start_task" /\ call'[p].snap = task
          /\ StartReady(docs, task, Strict, Light)
      BY <1>3, <1>7, <2>2 DEF LoadStart, Startable, Load, Ready
    <3>2. profile = "strict" => SnapshotHeld(docs, task)
      BY <3>1 DEF StartReady, Strict, Light
    <3>3. profile' = profile /\ SnapshotHeld(docs', task) = SnapshotHeld(docs, task)
      BY <1>1, DocumentsKept DEF world, SnapshotHeld, Plan
    <3>4. QED
      BY <3>1, <3>2, <3>3 DEF Gated
  <2>3. QED
    BY <2>1, <2>2
<1>8. ASSUME ~ \E intent \in Intents : \/ CheckReview(p, intent)
                                       \/ \E allow \in BOOLEAN : CheckComplete(p, intent, allow),
             ~ \E label \in Labels[p] \cup {NoKey} : \E takeover \in BOOLEAN :
                   LoadStart(p, label, takeover)
      PROVE  Gated(p)'
  <2>1. call'[p].phase # "commit"
    BY <1>3, <1>8 DEF Command, EnterStart, LoadStarted, EnterAdopt, Load, Commit, Seize,
                      Adopt, BindAdopter, CommitFails, Idle
  <2>2. QED
    BY <2>1 DEF Gated
<1>9. Gated(p)'
  BY <1>5, <1>6, <1>7, <1>8
<1>10. QED
  BY <1>1, <1>2, <1>9, DocumentsKept, StepKeepsGates

LEMMA PlanKeepsGates ==
    ASSUME Typed, GateInv, NEW p \in Procs, PlanCommand(p)
    PROVE  GateInv'
<1>1. UNCHANGED <<docs, world>>
  BY PlanStep
<1>2. (\A q \in Procs : q # p => call'[q] = call[q]) /\ call'[p].phase # "commit"
  BY PlanStep DEF Typed, CallsTyped
<1>3. Gated(p)'
  BY <1>2 DEF Gated
<1>4. QED
  BY <1>1, <1>2, <1>3, StepKeepsGates

LEMMA GateInvHolds == Spec => [](Typed /\ CommandInv /\ GateInv)
<1>1. Typed /\ CommandInv /\ GateInv /\ [Next]_vars => GateInv'
  <2> SUFFICES ASSUME Typed, CommandInv, GateInv, [Next]_vars PROVE GateInv'
    OBVIOUS
  <2>1. CASE UNCHANGED vars
    BY <2>1 DEF vars, world, GateInv, Gated, Faithful, ContentSince, Changed, Dirty, Reported, Differing, RenamedAway, Degraded, HEAD
  <2>2. QED
    BY <2>1, CommandKeepsGates, PlanKeepsGates, WorldKeepsGates, KeyAssumption DEF Next
<1>2. QED
  BY <1>1, GateInvInit, CommandInvHolds, PTL DEF Spec

\* What enters a status while a command that has checked the task for that
\* commits, is what this command commits.
LEMMA EnteredFresh ==
    ASSUME Typed, CommandInv, Next, NEW s, NEW id,
           <<s, id>> \in {<<"in_progress", "start_task">>, <<"review", "request_review">>,
                          <<"completed", "complete_task">>},
           Enters(s), Freshly(id)
    PROVE  \E p \in Procs : /\ call[p].phase = "commit" /\ call[p].id = id /\ call[p].fresh
                            /\ call[p].snap = task
<1>1. PICK p \in Procs : /\ call[p].phase = "commit" /\ call'[p] = Idle
                         /\ call[p].id = id /\ call[p].fresh
  BY DEF Freshly
<1>2. PICK q \in Procs : Command(q)
  BY WorldStep, PlanKeepsStatus, KeyAssumption DEF Next, Enters
<1>3. Commit(q)
  BY <1>2, TaskStep DEF Enters
<1>4. q = p
  <2>1. q # p => call'[p] = call[p]
    BY <1>3 DEF Commit, Typed, CallsTyped
  <2>2. QED
    BY <1>1, <2>1 DEF Idle
<1>5. QED
  BY <1>1, <1>3, <1>4 DEF Commit

\* No file gets through a review or a completion unlisted, committed or not,
\* but for one that has gone and for git is a listed file now.
THEOREM ReviewsAreComplete == Spec => NothingUnlisted
<1> DEFINE Baseline == history[IF task.base = 0 THEN HEAD ELSE task.base]
           Renamed(f) ==
               /\ work[f] = Absent
               /\ \E new \in Scope(docs) : /\ <<f, new>> \in Renames
                                           /\ Absent \in {Baseline[new], history[HEAD][new]}
<1>1. Typed /\ CommandInv /\ GateInv /\ [Next]_vars =>
        [(Enters("review") /\ Freshly("request_review"))
           \/ (Enters("completed") /\ Freshly("complete_task"))
         => \A f \in Differing(Baseline, work) : f \in Scope(docs) \/ Renamed(f)]_vars
  <2> SUFFICES ASSUME Typed, CommandInv, GateInv, Next,
                      \/ Enters("review") /\ Freshly("request_review")
                      \/ Enters("completed") /\ Freshly("complete_task"),
                      NEW f \in Differing(Baseline, work), f \notin Scope(docs)
               PROVE  Renamed(f)
    OBVIOUS
  <2>1. PICK p \in Procs : /\ call[p].phase = "commit" /\ call[p].fresh /\ call[p].snap = task
                           /\ call[p].id \in {"request_review", "complete_task"}
    BY EnteredFresh
  <2>2. task.base \notin lost /\ Changed(task.base) \subseteq Scope(docs)
    BY <2>1 DEF GateInv, Gated
  <2>3. task.base \in 0..HEAD
    BY LenProperties DEF Typed, CallsTyped, TaskType, WorldTyped, HEAD
  <2>4. f \in Files /\ work[f] # Baseline[f] /\ f \notin Changed(task.base)
    BY <2>2 DEF Differing
  <2>5. QED
    BY <2>2, <2>3, <2>4, Unchanged
<1>2. QED
  BY <1>1, GateInvHolds, PTL DEF Spec, NothingUnlisted

\* A strict task is completed on a review of what is there, but for what git
\* has under another name.
THEOREM CompletionsAreReviewed == Spec => CompletedAsReviewed
<1> DEFINE r == Last(receipts)
           Renamed(f) ==
               /\ {r.of[f], work[f]} = {Absent, history[task.base][f]}
               /\ \E new \in Scope(docs) : <<f, new>> \in Renames
<1>1. Typed /\ CommandInv /\ GateInv /\ [Next]_vars =>
        [Enters("completed") /\ profile = "strict" /\ Freshly("complete_task") =>
              /\ receipts # <<>> /\ r.result = "pass" /\ checker.bound
              /\ task.base # 0 /\ r.base = task.base =>
                    \A f \in Differing(r.of, work) : Renamed(f)]_vars
  <2> SUFFICES ASSUME Typed, CommandInv, GateInv, Next,
                      Enters("completed"), profile = "strict", Freshly("complete_task")
               PROVE  /\ receipts # <<>> /\ r.result = "pass" /\ checker.bound
                      /\ task.base # 0 /\ r.base = task.base =>
                            \A f \in Differing(r.of, work) : Renamed(f)
    OBVIOUS
  <2>1. PICK p \in Procs : /\ call[p].phase = "commit" /\ call[p].fresh /\ call[p].snap = task
                           /\ call[p].id = "complete_task"
    BY EnteredFresh
  <2>2. /\ task.base \notin lost /\ Changed(task.base) \subseteq Scope(docs)
        /\ receipts # <<>> /\ r.result = "pass" /\ checker.bound
        /\ r.print[1] = ContentSince(task.base)
    BY <2>1 DEF GateInv, Gated
  <2>3. r \in Receipts /\ Faithful(r, history, lost)
    BY <2>2, LenProperties, EmptySeq, ElementOfSeq DEF GateInv, Typed, WorldTyped, Last
  <2>4. r.print[1] = [f \in Changed(task.base) |-> work[f]]
    BY <2>2 DEF ContentSince
  <2> HIDE DEF r
  <2>5. ASSUME task.base # 0, r.base = task.base, NEW f \in Differing(r.of, work)
        PROVE  Renamed(f)
    <3>1. f \in Files /\ r.of[f] # work[f]
      BY <2>5 DEF Differing
    <3>2. f \notin Changed(task.base)
      BY <2>2, <2>3, <2>4, <2>5, <3>1 DEF Faithful
    <3>3. \/ r.of[f] = history[task.base][f]
          \/ r.of[f] = Absent /\ \E new \in Changed(task.base) : <<f, new>> \in Renames
      BY <2>2, <2>3, <2>4, <2>5, <3>1, <3>2 DEF Faithful
    <3>4. task.base \in 0..HEAD
      BY LenProperties DEF Typed, CallsTyped, TaskType, WorldTyped, HEAD
    <3>5. \/ work[f] = history[task.base][f]
          \/ work[f] = Absent /\ \E new \in Changed(task.base) : <<f, new>> \in Renames
      BY <2>2, <2>5, <3>1, <3>2, <3>4, Unchanged
    <3>6. \E new \in Scope(docs) : <<f, new>> \in Renames
      BY <2>2, <3>1, <3>3, <3>5
    <3>7. {r.of[f], work[f]} = {Absent, history[task.base][f]}
      BY <3>1, <3>3, <3>5
    <3>8. QED
      BY <3>6, <3>7
  <2>6. QED
    BY <2>2, <2>5
<1>2. QED
  BY <1>1, GateInvHolds, PTL DEF Spec, CompletedAsReviewed

-----------------------------------------------------------------------------
(* Approvals.                                                              *)

\* What the start leaves to finalize.
Agreeing(plan, anchor) ==
    /\ RowsAgree(plan, anchor) /\ GoalsAgree(plan, anchor)
    /\ PlanSays(plan) /\ PlanFilled(plan, Light)

Approved(a) == a.written /\ a.checked => Agreeing(a.plan, a.anchor)

\* A task, and one that a plan command has loaded, is approved for what agrees,
\* and so is what finalize has seen.
ApprovalInv ==
    /\ Approved(task.approved)
    /\ \A p \in Procs : LET c == call[p] IN
          /\ c.phase \in {"loaded", "ready"} => Approved(c.snap.approved)
          /\ c.phase = "ready" => Agreeing(c.seen.plan, c.seen.anchor)

LEMMA ApprovalInvInit == Init => ApprovalInv
<1> SUFFICES ASSUME Init PROVE ApprovalInv
  OBVIOUS
<1>1. task.approved = NoDocument /\ \A p \in Procs : call[p].phase = "idle"
  BY DEF Init, Idle
<1>2. QED
  BY <1>1 DEF ApprovalInv, Approved, NoDocument

\* A command keeps the approval of the task.
LEMMA CommandKeepsApproval ==
    ASSUME Typed, NEW p \in Procs, Command(p)
    PROVE  task'.approved = task.approved
<1>1. task \in TaskType
  BY DEF Typed, CallsTyped
<1>2. CASE Commit(p)
  <2>1. call[p] \in LoadedCall /\ call[p].phase = "commit"
    BY <1>2 DEF Commit, Typed, CallsTyped, CallType, PlanCall
  <2>2. task = call[p].snap /\ task' = Persisted(p)
    BY <1>2 DEF Commit
  <2>3. QED
    BY <1>1, <2>1, <2>2, PersistedTask DEF TaskType
<1>3. CASE Seize(p) \/ Adopt(p)
  BY <1>1, <1>3 DEF Seize, Adopt, TaskType
<1>4. CASE ~(Commit(p) \/ Seize(p) \/ Adopt(p))
  BY <1>4 DEF Command, EnterStart, CheckReview, CheckComplete, LoadStarted, LoadStart, EnterAdopt,
              BindAdopter, CommitFails, Calm
<1>5. QED
  BY <1>2, <1>3, <1>4

LEMMA CommandKeepsApprovals ==
    ASSUME Typed, ApprovalInv, NEW p \in Procs, Command(p)
    PROVE  ApprovalInv'
<1>1. task'.approved = task.approved /\ UNCHANGED profile
  BY CommandKeepsApproval, CommandTypes DEF world
<1>2. \A q \in Procs : call'[q] = call[q] \/ call'[q].phase \notin {"loaded", "ready"}
  BY DEF Typed, CallsTyped, Command, EnterStart, CheckReview, CheckComplete, LoadStarted, LoadStart,
         EnterAdopt, Load, Commit, Seize, Adopt, BindAdopter, CommitFails, Idle
<1>3. QED
  BY <1>1, <1>2 DEF ApprovalInv, Approved, Agreeing, Light

\* Finalize saves an approval of what agrees; a binding saves the approval that
\* it had loaded.
LEMMA PlanKeepsApprovals ==
    ASSUME Typed, ApprovalInv, NEW p \in Procs, PlanCommand(p)
    PROVE  ApprovalInv'
<1> USE DEF Calm, world
<1>1. task \in TaskType /\ call[p] \in CallType /\ UNCHANGED profile
  BY PlanStep DEF Typed, CallsTyped
<1>2. call[p].phase \in {"loaded", "ready"} => call[p].snap \in TaskType
  BY <1>1 DEF CallType, LoadedCall, PlanCall
<1>3. ASSUME NEW a, task'.approved = a, Approved(a),
             NEW c, call' = [call EXCEPT ![p] = c],
             \/ c.phase \notin {"loaded", "ready"}
             \/ c.phase = "loaded" /\ c.snap = task
             \/ c.phase = "ready" /\ c.snap = task /\ Agreeing(c.seen.plan, c.seen.anchor)
      PROVE  ApprovalInv'
  BY <1>1, <1>3 DEF ApprovalInv, Approved, Agreeing, Light, Typed, CallsTyped
<1>4. Approved(task.approved) /\ (call[p].phase \in {"loaded", "ready"} => Approved(call[p].snap.approved))
  BY DEF ApprovalInv
<1>5. ASSUME NEW intent \in Intents, EnterPlan(p, intent) PROVE ApprovalInv'
  BY <1>3, <1>4, <1>5 DEF EnterPlan
<1>6. ASSUME NEW file \in PlanFiles, LoadBind(p, file) PROVE ApprovalInv'
  BY <1>3, <1>4, <1>6 DEF LoadBind
<1>7. ASSUME NEW typed \in BOOLEAN, SaveBind(p, typed) PROVE ApprovalInv'
  <2>1. call[p].phase = "loaded" /\ call[p].file \in PlanFiles
    BY <1>1, <1>7 DEF SaveBind, CallType, LoadedCall, PlanCall
  <2>2. /\ [call[p].snap EXCEPT !.plan = call[p].file] \in TaskType
        /\ [call[p].snap EXCEPT !.plan = call[p].file].approved = call[p].snap.approved
    BY <1>2, <2>1 DEF TaskType, Bindings
  <2>3. task'.approved = call[p].snap.approved
    BY <1>7, <2>2, SavedTask DEF SaveBind
  <2>4. PICK c \in {Idle, [phase |-> "typed"]} : call' = [call EXCEPT ![p] = c]
    BY <1>7 DEF SaveBind
  <2>5. QED
    BY <1>3, <1>4, <2>1, <2>3, <2>4 DEF Idle
<1>8. ASSUME NEW type \in DevTypes, SaveType(p, type) PROVE ApprovalInv'
  BY <1>1, <1>3, <1>4, <1>8 DEF SaveType, Idle, TaskType
<1>9. CASE CheckPlan(p)
  <2> DEFINE c == [phase |-> "ready", snap |-> task, seen |-> Digests(docs, task)]
  <2>1. Agreeing(c.seen.plan, c.seen.anchor)
    BY <1>9 DEF CheckPlan, PlanReady, ArtifactsReady, Agreeing, Digests
  <2>2. UNCHANGED task /\ call' = [call EXCEPT ![p] = c] /\ c.phase = "ready" /\ c.snap = task
    BY <1>9 DEF CheckPlan
  <2> HIDE DEF c
  <2>3. QED
    BY <1>3, <1>4, <2>1, <2>2
<1>10. CASE Approve(p)
  <2> DEFINE d == Digests(docs, call[p].snap)
             a == [written |-> TRUE, plan |-> d.plan, anchor |-> d.anchor, type |-> d.type,
                   checked |-> d = call[p].seen]
  <2>1. call[p].phase = "ready" /\ call[p].snap \in TaskType /\ call[p].snap.plan \in PlanFiles
    BY <1>1, <1>10 DEF Approve, CallType, LoadedCall, PlanCall
  <2>2. d \in Digested
    BY <2>1 DEF Digests, Digested, Plan, Typed, Documents, TaskType
  <2>3. a \in Approvals
    BY <2>2 DEF Digested, Approvals
  <2>4. /\ task' = WithMeta([call[p].snap EXCEPT !.approved = a])
        /\ call' = [call EXCEPT ![p] = Idle]
    BY <1>10 DEF Approve
  <2>5. Approved(a)
    BY <2>1 DEF ApprovalInv, Approved
  <2> HIDE DEF a
  <2>6. /\ [call[p].snap EXCEPT !.approved = a] \in TaskType
        /\ [call[p].snap EXCEPT !.approved = a].approved = a
    BY <2>1, <2>3 DEF TaskType
  <2>7. task'.approved = a
    BY <2>4, <2>6, SavedTask
  <2>8. QED
    BY <1>3, <2>4, <2>5, <2>7 DEF Idle
<1>11. CASE SaveFails(p)
  BY <1>3, <1>4, <1>11 DEF SaveFails, Idle
<1>12. QED
  BY <1>5, <1>6, <1>7, <1>8, <1>9, <1>10, <1>11 DEF PlanCommand

LEMMA WorldKeepsApprovals ==
    ASSUME Typed, ApprovalInv, World
    PROVE  ApprovalInv'
<1>1. UNCHANGED <<task, profile>>
  BY WorldStep
<1>2. \A q \in Procs : call'[q].phase = call[q].phase /\ (call[q].phase # "commit" => call'[q] = call[q])
  BY WorldStep, StaleCall DEF Typed, CallsTyped
<1>3. QED
  BY <1>1, <1>2 DEF ApprovalInv, Approved, Agreeing, Light

LEMMA ApprovalInvHolds == Spec => [](Typed /\ CommandInv /\ GateInv /\ ApprovalInv)
<1>1. Typed /\ CommandInv /\ GateInv /\ ApprovalInv /\ [Next]_vars => ApprovalInv'
  <2> SUFFICES ASSUME Typed, ApprovalInv, [Next]_vars PROVE ApprovalInv'
    OBVIOUS
  <2>1. CASE UNCHANGED vars
    BY <2>1 DEF vars, world, ApprovalInv, Approved, Agreeing, Light
  <2>2. QED
    BY <2>1, CommandKeepsApprovals, PlanKeepsApprovals, WorldKeepsApprovals, KeyAssumption DEF Next
<1>2. QED
  BY <1>1, ApprovalInvInit, GateInvHolds, PTL DEF Spec

\* A strict task is started on a plan and an anchor that agree.
THEOREM StartsAreApproved == Spec => StartedAsApproved
<1>1. Typed /\ CommandInv /\ GateInv /\ ApprovalInv /\ [Next]_vars =>
        [Enters("in_progress") /\ Freshly("start_task") /\ profile = "strict" =>
          LET plan == docs.plans[task.plan]
          IN task.approved.checked =>
                /\ RowsAgree(plan, docs.anchor) /\ GoalsAgree(plan, docs.anchor)
                /\ PlanSays(plan) /\ PlanFilled(plan, FALSE)]_vars
  <2> SUFFICES ASSUME Typed, CommandInv, GateInv, ApprovalInv, Next,
                      Enters("in_progress"), Freshly("start_task"), profile = "strict",
                      task.approved.checked
               PROVE  /\ RowsAgree(docs.plans[task.plan], docs.anchor)
                      /\ GoalsAgree(docs.plans[task.plan], docs.anchor)
                      /\ PlanSays(docs.plans[task.plan])
                      /\ PlanFilled(docs.plans[task.plan], FALSE)
    OBVIOUS
  <2>1. PICK p \in Procs : /\ call[p].phase = "commit" /\ call[p].fresh /\ call[p].snap = task
                           /\ call[p].id = "start_task"
    BY EnteredFresh
  <2>2. SnapshotHeld(docs, task)
    BY <2>1 DEF GateInv, Gated
  <2>3. Agreeing(task.approved.plan, task.approved.anchor) /\ ~Light
    BY <2>2 DEF ApprovalInv, Approved, SnapshotHeld, Light
  <2>4. task.approved.plan = docs.plans[task.plan] /\ task.approved.anchor = docs.anchor
    BY <2>2 DEF SnapshotHeld, Plan
  <2>5. Light = FALSE
    BY <2>3
  <2>6. QED
    BY <2>3, <2>4, <2>5 DEF Agreeing
<1>2. QED
  BY <1>1, ApprovalInvHolds, PTL DEF Spec, StartedAsApproved

=============================================================================
