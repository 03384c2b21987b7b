----------------------------- MODULE Batch_proofs -----------------------------
(***************************************************************************)
(* Proofs about Batch: its type invariant, that what a checkpoint says is  *)
(* done is done in the world, and that a step is done once.                *)
(***************************************************************************)
EXTENDS Batch, SequenceTheorems, WellFoundedInduction, TLAPS

-----------------------------------------------------------------------------
(* The steps and the operators on states.                                   *)

\* The names of the nine steps, and that each position holds one of them.
LEMMA StepFacts ==
    /\ DOMAIN Steps = 1..9
    /\ \A k \in DOMAIN Steps : Steps[k] \in StepNames
    /\ StepNames = {"start_task", "init_implement_context", "await_implement_result",
                    "review_task", "init_check_context", "await_check_result",
                    "complete_task", "archive_task", "commit_task"}
    /\ "none" \notin StepNames
<1>1. DOMAIN Steps = 1..9
  BY DEF Steps
<1>2. \A k \in DOMAIN Steps : Steps[k] \in StepNames
  BY DEF StepNames
<1>3. StepNames = {"start_task", "init_implement_context", "await_implement_result",
                   "review_task", "init_check_context", "await_check_result",
                   "complete_task", "archive_task", "commit_task"}
  <2>1. StepNames = {Steps[1], Steps[2], Steps[3], Steps[4], Steps[5], Steps[6],
                     Steps[7], Steps[8], Steps[9]}
    <3>1. 1..9 = {1, 2, 3, 4, 5, 6, 7, 8, 9}
      OBVIOUS
    <3>2. QED
      BY <1>1, <3>1 DEF StepNames
  <2>2. QED
    BY <2>1 DEF Steps
<1>4. "none" \notin StepNames
  BY <1>3
<1>5. QED
  BY <1>1, <1>2, <1>3, <1>4

\* Every step has a role, if only by default.
LEMMA RoleType == \A step : RoleOf(step) \in Roles
  BY DEF RoleOf, Roles

\* First picks the smallest member of a set of numbers.
LEMMA FirstType ==
    ASSUME NEW S \in SUBSET Nat, S # {}
    PROVE  First(S) \in S /\ \A m \in S : First(S) <= m
<1> DEFINE Less == {ss \in Nat \X Nat : ss[1] < ss[2]}
<1>1. IsWellFoundedOn(Less, Nat)
  BY NatLessThanWellFounded, Zenon DEF OpToRel
<1>2. PICK n \in S : \A m \in S : <<m, n>> \notin Less
  <2>1. S \subseteq Nat
    OBVIOUS
  <2>2. QED
    BY <1>1, <2>1, WFMin, Zenon
<1>3. ASSUME NEW m \in S PROVE n <= m
  <2>1. <<m, n>> \in Nat \X Nat /\ <<m, n>>[1] = m /\ <<m, n>>[2] = n
    OBVIOUS
  <2>2. ~ (m < n)
    BY <1>2, <2>1, Zenon
  <2>3. QED
    BY <2>2
<1>4. QED
  BY <1>3 DEF First

\* The leaves of a tree are positions of its order.
LEMMA LeavesType ==
    ASSUME NEW archived
    PROVE  Leaves(archived) \in SUBSET DOMAIN tree.order
  BY DEF Leaves

\* The positions of a tree hold tasks.
LEMMA OrderType ==
    ASSUME tree \in Trees
    PROVE  /\ tree.order \in Seq(Tasks)
           /\ DOMAIN tree.order \in SUBSET Nat
           /\ \A n \in DOMAIN tree.order : tree.order[n] \in Tasks
<1>1. tree.order \in Seq(Tasks)
  BY TreeAssumption
<1>2. DOMAIN tree.order = 1..Len(tree.order) /\ Len(tree.order) \in Nat
  BY <1>1, LenProperties
<1>3. QED
  BY <1>1, <1>2, ElementOfSeq

\* No batch is a state like any other.
LEMMA NoStateType == StateOK(NoState)
<1>1. "none" \notin StepNames
  BY StepFacts
<1>2. NoAction \in Actions
  BY DEF NoAction, Actions
<1>3. NoRuntime \in Runtimes
  BY DEF NoRuntime, Runtimes, Keys
<1>4. NoState \in States
  BY <1>2, <1>3 DEF NoState, States
<1>5. QED
  BY <1>4 DEF StateOK, NoState

\* What is known of the action that is pending: a task and a step.
LEMMA PendingType ==
    ASSUME NEW st, StateOK(st), st.action # NoAction
    PROVE  /\ st.phase = "awaiting_host"
           /\ st.action.task \in Tasks /\ st.action.step \in StepNames
           /\ st.action.task = st.current /\ st.action.seq \in Nat /\ st.action.ctx \in Nat
  BY DEF StateOK, States, Actions

\* A state that is not waiting for the host has no action pending.
LEMMA IdleType ==
    ASSUME NEW st, StateOK(st), st.phase # "awaiting_host"
    PROVE  st.action = NoAction
  BY DEF StateOK

\* The next action of a state is one for a task of the tree, and publishing it
\* makes a state that waits for the host.
LEMMA PublishType ==
    ASSUME NEW st, StateOK(st), NEW t \in Tasks, NEW step \in StepNames
    PROVE  /\ StateOK(Publish(st, t, step))
           /\ Publish(st, t, step).done = st.done
           /\ Publish(st, t, step).completed = st.completed
<1> DEFINE a == [seq |-> st.seq + 1, task |-> t, step |-> step,
                 ctx |-> IF Await_(step) THEN st.ctx[t][RoleOf(step)].id ELSE 0]
           next == st.seq + 1
<1>1. st \in States
  BY DEF StateOK
<1>2. st.ctx[t][RoleOf(step)].id \in Nat
  BY <1>1, RoleType DEF States, Runtimes
<1>3. a \in Actions /\ next \in Nat
  BY <1>1, <1>2 DEF States, Actions
<1>4. Publish(st, t, step) = [st EXCEPT !.seq = next, !.action = a,
                                        !.phase = "awaiting_host", !.current = t]
  BY DEF Publish
<1>5. a.task = t /\ a.step = step
  OBVIOUS
<1> HIDE DEF a, next
<1>6. Publish(st, t, step) \in States
  BY <1>1, <1>3, <1>4 DEF States
<1>7. /\ Publish(st, t, step).action = a /\ Publish(st, t, step).phase = "awaiting_host"
      /\ Publish(st, t, step).current = t
      /\ Publish(st, t, step).done = st.done
      /\ Publish(st, t, step).completed = st.completed
  BY <1>1, <1>4 DEF States
<1>8. QED
  BY <1>5, <1>6, <1>7 DEF StateOK

\* advance_state finishes the tasks that have gone through every step, and
\* publishes the first step to do or completes the batch.
LEMMA AdvanceType ==
    ASSUME tree \in Trees, NEW st, StateOK(st), Advances(st)
    PROVE  /\ StateOK(Advance(st))
           /\ Advance(st).done = st.done
           /\ \A t \in Advance(st).completed \ st.completed : st.done[t] = StepNames
<1> DEFINE finished == {tree.order[n] : n \in {m \in st.ordered : \A k \in Open(st) : m < k}}
           up == [st EXCEPT !.completed = @ \cup finished]
<1>1. st \in States /\ st.action = NoAction
  BY DEF StateOK, Advances
<1>2. st.ordered \in SUBSET DOMAIN tree.order
  BY <1>1 DEF States
<1>3. finished \in SUBSET Tasks
  BY <1>2, OrderType
<1>4. st.completed \in SUBSET Tasks /\ st.done \in [Tasks -> SUBSET StepNames]
  BY <1>1 DEF States
<1>5. \A t \in finished \ st.completed : st.done[t] = StepNames
  <2>1. SUFFICES ASSUME NEW m \in st.ordered, \A k \in Open(st) : m < k,
                        tree.order[m] \notin st.completed
                 PROVE  st.done[tree.order[m]] = StepNames
    OBVIOUS
  <2>2. m \in Nat /\ tree.order[m] \in Tasks
    BY <1>2, OrderType
  <2>3. m \notin Open(st)
    BY <2>1, <2>2
  <2>4. Undone(st, tree.order[m]) = {}
    BY <2>1, <2>3 DEF Open
  <2>5. \A k \in DOMAIN Steps : Steps[k] \in st.done[tree.order[m]]
    BY <2>4 DEF Undone
  <2>6. QED
    BY <1>4, <2>2, <2>5 DEF StepNames
<1>6. up \in States
  BY <1>1, <1>3, <1>4 DEF States
<1>7. /\ up.done = st.done /\ up.completed = st.completed \cup finished
      /\ up.action = st.action /\ up.phase = st.phase /\ up.current = st.current
  BY <1>1 DEF States
<1>8. StateOK(up)
  BY <1>6, <1>7 DEF StateOK
<1>9. CASE Open(st) = {}
  <2>1. Advance(st) = [up EXCEPT !.phase = "completed", !.current = NoTask]
    BY <1>9 DEF Advance
  <2> HIDE DEF up, finished
  <2>2. Advance(st) \in States
    BY <1>6, <2>1 DEF States
  <2>3. /\ Advance(st).done = up.done /\ Advance(st).completed = up.completed
        /\ Advance(st).action = up.action /\ Advance(st).phase = "completed"
    BY <1>6, <2>1 DEF States
  <2>4. QED
    BY <1>1, <1>5, <1>7, <2>2, <2>3 DEF StateOK
<1>10. CASE Open(st) # {}
  <2> DEFINE n == First(Open(st))
             t == tree.order[n]
             step == Steps[First(Undone(st, t))]
  <2>1. Open(st) \in SUBSET Nat
    BY <1>2, OrderType DEF Open
  <2>2. n \in Open(st)
    BY <1>10, <2>1, FirstType
  <2>3. t \in Tasks /\ Undone(st, t) # {}
    BY <1>2, <2>2, OrderType DEF Open
  <2>4. Undone(st, t) \in SUBSET Nat /\ Undone(st, t) \in SUBSET DOMAIN Steps
    BY StepFacts DEF Undone
  <2>5. step \in StepNames
    <3>1. First(Undone(st, t)) \in Undone(st, t)
      BY <2>3, <2>4, FirstType
    <3>2. QED
      BY <2>4, <3>1, StepFacts
  <2>6. Advance(st) = Publish(up, t, step)
    BY <1>10 DEF Advance
  <2> HIDE DEF up, finished, n, t, step
  <2>7. QED
    BY <1>5, <1>7, <1>8, <2>3, <2>5, <2>6, PublishType
<1>11. QED
  BY <1>9, <1>10

\* A success makes the pending step one of those that are done.
LEMMA SucceedType ==
    ASSUME NEW st, StateOK(st), st.action # NoAction, NEW r \in Results
    PROVE  /\ StateOK(Succeed(st, r))
           /\ Succeed(st, r).done = [st.done EXCEPT ![st.action.task] = @ \cup {st.action.step}]
           /\ Succeed(st, r).completed = st.completed
<1> DEFINE a == st.action
           value == IF Init_(a.step) THEN Runtime(r) ELSE st.ctx[a.task][RoleOf(a.step)]
<1>1. st \in States /\ a.task \in Tasks /\ a.step \in StepNames
  BY PendingType DEF StateOK
<1>2. RoleOf(a.step) \in Roles
  BY RoleType
<1>3. value \in Runtimes
  BY <1>1, <1>2 DEF States, Results, Runtimes, Runtime
<1>4. Succeed(st, r) =
        [st EXCEPT !.results = @ \cup {r}, !.done[a.task] = @ \cup {a.step},
                   !.ctx[a.task][RoleOf(a.step)] = value,
                   !.action = NoAction, !.phase = "running"]
  BY <1>1, <1>2 DEF Succeed, States
<1>5. NoAction \in Actions
  BY DEF NoAction, Actions
<1> HIDE DEF value
<1>7. Succeed(st, r) \in States
  <2>1. [st.done EXCEPT ![a.task] = @ \cup {a.step}] \in [Tasks -> SUBSET StepNames]
    BY <1>1 DEF States
  <2>2. [st.ctx EXCEPT ![a.task][RoleOf(a.step)] = value] \in [Tasks -> [Roles -> Runtimes]]
    BY <1>1, <1>2, <1>3 DEF States
  <2> DEFINE done == [st.done EXCEPT ![a.task] = @ \cup {a.step}]
             ctx == [st.ctx EXCEPT ![a.task][RoleOf(a.step)] = value]
             results == st.results \cup {r}
  <2>3. results \in SUBSET Results
    BY <1>1 DEF States
  <2>4. Succeed(st, r) = [st EXCEPT !.results = results, !.done = done, !.ctx = ctx,
                                    !.action = NoAction, !.phase = "running"]
    BY <1>1, <1>4 DEF States
  <2> HIDE DEF done, ctx, results
  <2>5. QED
    BY <1>1, <1>5, <2>1, <2>2, <2>3, <2>4 DEF States, done, ctx
<1>8. /\ Succeed(st, r).done = [st.done EXCEPT ![a.task] = @ \cup {a.step}]
      /\ Succeed(st, r).completed = st.completed
      /\ Succeed(st, r).action = NoAction /\ Succeed(st, r).phase = "running"
  BY <1>1, <1>4 DEF States
<1>9. QED
  BY <1>7, <1>8 DEF StateOK

\* A failure ends in a pause.
LEMMA PauseType ==
    ASSUME NEW st, StateOK(st), st.action # NoAction, NEW r \in Results
    PROVE  /\ StateOK(Pause(st, r))
           /\ Pause(st, r).done = st.done /\ Pause(st, r).completed = st.completed
<1>1. st \in States /\ st.action.task \in Tasks
  BY PendingType DEF StateOK
<1>2. NoAction \in Actions
  BY DEF NoAction, Actions
<1>3. Pause(st, r) \in States
  BY <1>1, <1>2 DEF Pause, States
<1>4. /\ Pause(st, r).done = st.done /\ Pause(st, r).completed = st.completed
      /\ Pause(st, r).action = NoAction /\ Pause(st, r).phase = "paused"
  BY <1>1 DEF Pause, States
<1>5. QED
  BY <1>3, <1>4 DEF StateOK

-----------------------------------------------------------------------------
(* The type invariant.                                                      *)

\* The types of the checkpoint and of the commands,
MachineOK ==
    /\ tree \in Trees
    /\ cp.rev \in Nat /\ StateOK(cp.st)
    /\ pc \in [Callers -> {"idle", "save", "saving"}]
    /\ mem \in [Callers -> States] /\ \A c \in Callers : StateOK(mem[c])
    /\ then \in [Callers -> {"advance", "return"}] /\ seen \in [Callers -> Nat]

\* those of what is in the world,
WorldOK ==
    /\ reports \subseteq Results
    /\ status \in [Tasks -> {"planning", "in_progress", "review", "completed"}]
    /\ gone \subseteq Tasks
    /\ commits \subseteq [id : Nat, task : Tasks \cup {NoTask}]
    /\ ctxs \subseteq [id : Nat, task : Tasks, role : Roles]
    /\ bound \subseteq Nat /\ closed \subseteq Nat
    /\ wrong \in 0..MaxWrong /\ crashes \in 0..MaxCrashes

\* and, with them, that no state is on record before the first save.
Typed ==
    /\ MachineOK /\ WorldOK
    /\ cp.rev = 0 => cp.st = NoState

\* The two halves are the type invariant.
LEMMA TypedParts == Typed => TypeOK
  BY DEF Typed, MachineOK, WorldOK, TypeOK

\* A state that is right for a tree is right for the same tree later.
LEMMA SameTree ==
    ASSUME tree \in Trees, tree' = tree, cp'.rev \in Nat, StateOK(cp'.st),
           pc' \in [Callers -> {"idle", "save", "saving"}],
           mem' \in [Callers -> States], \A c \in Callers : StateOK(mem'[c]),
           then' \in [Callers -> {"advance", "return"}], seen' \in [Callers -> Nat]
    PROVE  MachineOK'
<1>1. States' = States
  BY DEF States
<1>2. StateOK(cp.st)' /\ \A c \in Callers : StateOK(mem[c])'
  BY <1>1 DEF StateOK
<1>3. QED
  BY <1>1, <1>2 DEF MachineOK

\* A command that is to save a well formed state.
LEMMA ToSaveType ==
    ASSUME MachineOK, NEW c \in Callers, NEW st, StateOK(st),
           NEW next \in {"advance", "return"}, ToSave(c, st, next)
    PROVE  MachineOK'
<1>1. st \in States
  BY DEF StateOK
<1>2. /\ tree' = tree /\ cp' = cp
      /\ pc' \in [Callers -> {"idle", "save", "saving"}]
      /\ then' \in [Callers -> {"advance", "return"}] /\ seen' \in [Callers -> Nat]
  BY DEF MachineOK, ToSave
<1>3. mem' \in [Callers -> States]
  BY <1>1 DEF MachineOK, ToSave
<1>4. ASSUME NEW d \in Callers PROVE StateOK(mem'[d])
  <2>1. mem'[d] = IF d = c THEN st ELSE mem[d]
    BY DEF MachineOK, ToSave
  <2>2. QED
    BY <2>1 DEF MachineOK
<1>5. QED
  BY <1>2, <1>3, <1>4, SameTree DEF MachineOK

\* A command that ends leaves nothing of it.
LEMMA FinishType ==
    ASSUME MachineOK, NEW c \in Callers, Finish(c), cp'.rev \in Nat, StateOK(cp'.st)
    PROVE  MachineOK'
<1>1. NoState \in States /\ StateOK(NoState)
  BY NoStateType DEF StateOK
<1>2. /\ tree' = tree
      /\ pc' \in [Callers -> {"idle", "save", "saving"}]
      /\ then' \in [Callers -> {"advance", "return"}] /\ seen' \in [Callers -> Nat]
  BY DEF MachineOK, Finish
<1>3. mem' \in [Callers -> States]
  BY <1>1 DEF MachineOK, Finish
<1>4. ASSUME NEW d \in Callers PROVE StateOK(mem'[d])
  <2>1. mem'[d] = IF d = c THEN NoState ELSE mem[d]
    BY DEF MachineOK, Finish
  <2>2. QED
    BY <1>1, <2>1 DEF MachineOK
<1>5. QED
  BY <1>2, <1>3, <1>4, SameTree DEF MachineOK

\* What the host and its workers do leaves the commands alone.
LEMMA WorldStep ==
    ASSUME MachineOK, UNCHANGED <<tree, cp, callers>>
    PROVE  MachineOK'
  BY SameTree DEF MachineOK, callers

LEMMA TypedInit == Init => Typed
<1> SUFFICES ASSUME Init PROVE Typed
  OBVIOUS
<1>1. NoState \in States /\ StateOK(NoState)
  BY NoStateType DEF StateOK
<1>2. MachineOK
  BY <1>1 DEF Init, MachineOK
<1>3. WorldOK
  BY BoundAssumption DEF Init, WorldOK
<1>4. QED
  BY <1>2, <1>3 DEF Init, Typed

\* Start keeps the types.
LEMMA StartTyped ==
    ASSUME Typed, NEW c \in Callers, Start(c)
    PROVE  Typed'
<1>1. WorldOK'
  BY DEF Typed, WorldOK, Start, ToSave, world
<1>2. cp' = cp
  BY DEF Start, ToSave
<1>3. MachineOK'
  <2>1. CASE cp.rev = 0
    <3> DEFINE st == [NoState EXCEPT !.phase = "ready", !.ordered = Leaves({})]
    <3>1. NoState \in States /\ StateOK(NoState) /\ NoState.action = NoAction
      BY NoStateType DEF StateOK, NoState
    <3>2. st \in States
      BY <3>1, LeavesType DEF States
    <3>3. st.phase = "ready" /\ st.action = NoAction
      BY <3>1 DEF States
    <3>4. StateOK(st)
      BY <3>2, <3>3 DEF StateOK
    <3>5. ToSave(c, st, "advance")
      BY <2>1 DEF Start
    <3> HIDE DEF st
    <3>6. QED
      BY <3>4, <3>5, ToSaveType DEF Typed
  <2>2. CASE cp.rev # 0
    <3>1. Advances(cp.st) /\ ToSave(c, Advance(cp.st), "return")
      BY <2>2 DEF Start
    <3>2. StateOK(Advance(cp.st))
      BY <3>1, AdvanceType DEF Typed, MachineOK
    <3>3. QED
      BY <3>1, <3>2, ToSaveType DEF Typed
  <2>3. QED
    BY <2>1, <2>2
<1>4. QED
  BY <1>1, <1>2, <1>3 DEF Typed

\* A paused state that goes on.
LEMMA ContinueType ==
    ASSUME NEW st, StateOK(st), st.phase = "paused"
    PROVE  /\ StateOK([st EXCEPT !.phase = "running"])
           /\ [st EXCEPT !.phase = "running"].done = st.done
           /\ [st EXCEPT !.phase = "running"].completed = st.completed
<1>1. st \in States /\ st.action = NoAction
  BY IdleType DEF StateOK
<1>2. [st EXCEPT !.phase = "running"] \in States
  BY <1>1 DEF States
<1>3. /\ [st EXCEPT !.phase = "running"].action = NoAction
      /\ [st EXCEPT !.phase = "running"].phase = "running"
      /\ [st EXCEPT !.phase = "running"].done = st.done
      /\ [st EXCEPT !.phase = "running"].completed = st.completed
  BY <1>1 DEF States
<1>4. QED
  BY <1>2, <1>3 DEF StateOK

\* Resume keeps the types.
LEMMA ResumeTyped ==
    ASSUME Typed, NEW c \in Callers, Resume(c)
    PROVE  Typed'
<1>1. WorldOK'
  BY DEF Typed, WorldOK, Resume, ToSave, world
<1>2. cp' = cp
  BY DEF Resume, ToSave
<1>3. MachineOK'
  <2>1. CASE cp.st.phase = "paused"
    <3>1. ToSave(c, [cp.st EXCEPT !.phase = "running"], "advance")
      BY <2>1 DEF Resume
    <3>2. StateOK([cp.st EXCEPT !.phase = "running"])
      BY <2>1, ContinueType DEF Typed, MachineOK
    <3>3. QED
      BY <3>1, <3>2, ToSaveType DEF Typed
  <2>2. CASE cp.st.phase # "paused"
    <3>1. Advances(cp.st) /\ ToSave(c, Advance(cp.st), "return")
      BY <2>2 DEF Resume
    <3>2. StateOK(Advance(cp.st))
      BY <3>1, AdvanceType DEF Typed, MachineOK
    <3>3. QED
      BY <3>1, <3>2, ToSaveType DEF Typed
  <2>3. QED
    BY <2>1, <2>2
<1>4. QED
  BY <1>1, <1>2, <1>3 DEF Typed

\* Record-result keeps the types.
LEMMA RecordTyped ==
    ASSUME Typed, NEW c \in Callers, NEW r \in reports, RecordResult(c, r)
    PROVE  Typed'
<1>1. r \in Results /\ cp.st.action # NoAction /\ StateOK(cp.st)
  BY DEF Typed, MachineOK, WorldOK, RecordResult
<1>2. r.named \in Nat
  BY <1>1 DEF Results
<1>3. closed' = closed \/ closed' = closed \cup {r.named}
  BY DEF RecordResult
<1>4. reports' = reports /\ cp' = cp
  BY DEF RecordResult, ToSave
<1>5. UNCHANGED <<status, gone, ctxs, bound, commits, wrong, crashes>>
  BY DEF RecordResult
<1>6. WorldOK'
  BY <1>2, <1>3, <1>4, <1>5 DEF Typed, WorldOK
<1>7. MachineOK'
  <2>1. CASE r.outcome = "success" /\ Verified(cp.st, r)
    <3>1. ToSave(c, Succeed(cp.st, r), "advance")
      BY <2>1 DEF RecordResult
    <3>2. QED
      BY <1>1, <3>1, SucceedType, ToSaveType DEF Typed
  <2>2. CASE ~ (r.outcome = "success" /\ Verified(cp.st, r))
    <3>1. ToSave(c, Pause(cp.st, r), "return")
      BY <2>2 DEF RecordResult
    <3>2. QED
      BY <1>1, <3>1, PauseType, ToSaveType DEF Typed
  <2>3. QED
    BY <2>1, <2>2
<1>8. QED
  BY <1>4, <1>6, <1>7 DEF Typed

\* The two steps of a save keep the types.
LEMMA SaveTyped ==
    ASSUME Typed, NEW c \in Callers, SaveLoad(c) \/ Save(c)
    PROVE  Typed'
<1>1. WorldOK'
  BY DEF Typed, WorldOK, SaveLoad, Save, Finish, world
<1>2. CASE SaveLoad(c)
  <2>1. MachineOK'
    BY <1>2, SameTree DEF Typed, MachineOK, SaveLoad
  <2>2. QED
    BY <1>1, <1>2, <2>1 DEF Typed, SaveLoad
<1>3. CASE Save(c)
  <2>1. StateOK(mem[c])
    BY DEF Typed, MachineOK
  <2>2. cp' = IF cp.rev = seen[c] THEN [rev |-> cp.rev + 1, st |-> mem[c]] ELSE cp
    BY <1>3 DEF Save
  <2>3. cp'.rev \in Nat /\ StateOK(cp'.st)
    BY <2>1, <2>2 DEF Typed, MachineOK
  <2>4. cp'.rev = 0 => cp'.st = NoState
    BY <2>2 DEF Typed, MachineOK
  <2>5. MachineOK'
    <3>1. CASE Finish(c)
      BY <2>3, <3>1, FinishType DEF Typed
    <3>2. CASE ~ Finish(c)
      <4>1. /\ Advances(mem[c])
            /\ pc' = [pc EXCEPT ![c] = "save"]
            /\ mem' = [mem EXCEPT ![c] = Advance(mem[c])]
            /\ then' = [then EXCEPT ![c] = "return"]
            /\ UNCHANGED <<tree, seen, reports>>
        BY <1>3, <3>2 DEF Save
      <4>2. StateOK(Advance(mem[c])) /\ Advance(mem[c]) \in States
        BY <2>1, <4>1, AdvanceType DEF Typed, MachineOK, StateOK
      <4>3. mem' \in [Callers -> States]
        BY <4>1, <4>2 DEF Typed, MachineOK
      <4>4. ASSUME NEW d \in Callers PROVE StateOK(mem'[d])
        <5>1. mem'[d] = IF d = c THEN Advance(mem[c]) ELSE mem[d]
          BY <4>1 DEF Typed, MachineOK
        <5>2. QED
          BY <4>2, <5>1 DEF Typed, MachineOK
      <4>5. /\ pc' \in [Callers -> {"idle", "save", "saving"}]
            /\ then' \in [Callers -> {"advance", "return"}] /\ seen' \in [Callers -> Nat]
        BY <4>1 DEF Typed, MachineOK
      <4>6. QED
        BY <2>3, <4>1, <4>3, <4>4, <4>5, SameTree DEF Typed, MachineOK
    <3>3. QED
      BY <3>1, <3>2
  <2>6. QED
    BY <1>1, <2>4, <2>5 DEF Typed
<1>4. QED
  BY <1>2, <1>3

\* A killed command keeps the types.
LEMMA CrashTyped ==
    ASSUME Typed, NEW c \in Callers, Crash(c)
    PROVE  Typed'
<1>1. WorldOK'
  BY BoundAssumption DEF Typed, WorldOK, Crash, Finish, world
<1>2. MachineOK'
  BY FinishType DEF Typed, MachineOK, Crash
<1>3. QED
  BY <1>1, <1>2 DEF Typed, Crash

\* The host keeps the types.
LEMMA PerformTyped ==
    ASSUME Typed, Perform
    PROVE  Typed'
<1> DEFINE a == cp.st.action
           t == a.task
<1>1. UNCHANGED <<tree, cp, callers, reports, bound, closed, wrong, crashes>>
  BY DEF Perform
<1>2. MachineOK'
  BY <1>1, WorldStep DEF Typed
<1>3. a \in Actions /\ t # NoTask
  BY DEF Perform, Typed, MachineOK, StateOK, States
<1>4. t \in Tasks /\ a.seq \in Nat /\ RoleOf(a.step) \in Roles
  BY <1>3, RoleType DEF Actions
<1>5. \/ /\ status' = [status EXCEPT ![t] = LifecycleStatus[a.step]]
         /\ a.step \in {"start_task", "review_task", "complete_task"}
         /\ UNCHANGED <<gone, ctxs, commits>>
      \/ /\ ctxs' = ctxs \cup {[id |-> a.seq, task |-> t, role |-> RoleOf(a.step)]}
         /\ UNCHANGED <<status, gone, commits>>
      \/ gone' = gone \cup {t} /\ UNCHANGED <<status, ctxs, commits>>
      \/ /\ commits' = commits \cup {[id |-> a.seq, task |-> t]}
         /\ UNCHANGED <<status, gone, ctxs>>
  BY DEF Perform
<1>6. a.step \in {"start_task", "review_task", "complete_task"}
         => LifecycleStatus[a.step] \in {"planning", "in_progress", "review", "completed"}
  BY DEF LifecycleStatus
<1>7. WorldOK'
  BY <1>1, <1>4, <1>5, <1>6 DEF Typed, WorldOK
<1>8. QED
  BY <1>1, <1>2, <1>7 DEF Typed

\* A report keeps the types.
LEMMA ReportTyped ==
    ASSUME Typed, ReportAny
    PROVE  Typed'
<1>1. PICK outcome \in {"success", "failure"}, k \in Named, key \in Keys :
            Report(Result(outcome, k, key))
  BY DEF ReportAny, NamedKeys, Keys
<1> DEFINE r == Result(outcome, k, key)
           a == cp.st.action
<1>2. UNCHANGED <<tree, cp, callers, world, crashes>> /\ reports' = reports \cup {r}
  BY <1>1 DEF Report
<1>3. cp.st.action # NoAction
  BY <1>1 DEF Report
<1>4. a.task \in Tasks /\ a.step \in StepNames /\ a.seq \in Nat /\ cp.st.seq \in Nat
  BY <1>3, PendingType DEF Typed, MachineOK, StateOK, States
<1>5. k \in Nat
  <2>1. \A j \in commits : j.id \in Nat
    BY DEF Typed, WorldOK
  <2>2. \A j \in ctxs : j.id \in Nat
    BY DEF Typed, WorldOK
  <2>3. k = 0 \/ k = cp.st.seq \/ (\E j \in commits : k = j.id) \/ (\E j \in ctxs : k = j.id)
    BY DEF Named
  <2>4. QED
    BY <1>4, <2>1, <2>2, <2>3
<1>6. r \in Results
  BY <1>4, <1>5 DEF Result, Id, Results
<1>7. \/ wrong' = wrong
      \/ wrong < MaxWrong /\ wrong' = wrong + 1
  BY <1>1 DEF Report
<1> HIDE DEF r
<1>8. WorldOK'
  BY <1>2, <1>6, <1>7, BoundAssumption DEF Typed, WorldOK, world
<1>9. MachineOK'
  BY <1>2, WorldStep DEF Typed
<1>10. QED
  BY <1>2, <1>8, <1>9 DEF Typed

\* A worker that begins keeps the types.
LEMMA BindTyped ==
    ASSUME Typed, NEW k \in ctxs, Bind(k)
    PROVE  Typed'
<1>1. k.id \in Nat
  BY DEF Typed, WorldOK
<1>2. WorldOK'
  BY <1>1 DEF Bind, Typed, WorldOK
<1>3. MachineOK'
  BY WorldStep DEF Bind, Typed
<1>4. QED
  BY <1>2, <1>3 DEF Bind, Typed

\* Every step keeps the types.
LEMMA TypedStep == Typed /\ [Next]_vars => Typed'
<1> SUFFICES ASSUME Typed, [Next]_vars PROVE Typed'
  OBVIOUS
<1>1. ASSUME NEW c \in Callers, Command(c) \/ Crash(c) PROVE Typed'
  BY <1>1, StartTyped, ResumeTyped, RecordTyped, SaveTyped, CrashTyped DEF Command
<1>2. CASE Perform
  BY <1>2, PerformTyped
<1>3. CASE ReportAny
  BY <1>3, ReportTyped
<1>4. ASSUME NEW k \in ctxs, Bind(k) PROVE Typed'
  BY <1>4, BindTyped
<1>5. CASE UNCHANGED vars
  <2>1. MachineOK'
    BY <1>5, WorldStep DEF Typed, vars
  <2>2. WorldOK'
    BY <1>5 DEF vars, world, Typed, WorldOK
  <2>3. QED
    BY <1>5, <2>1, <2>2 DEF Typed, vars
<1>6. QED
  BY <1>1, <1>2, <1>3, <1>4, <1>5 DEF Next

LEMMA TypedHolds == Spec => []Typed
  BY TypedInit, TypedStep, PTL DEF Spec

\* The documents, the commands and the world of a batch are always well formed,
\* for any trees and any number of callers: a pending action belongs to a state
\* that waits for the host and to the task it is at.
THEOREM TypeCorrect == Spec => []TypeOK
  BY TypedHolds, TypedParts, PTL

-----------------------------------------------------------------------------
(* What is recorded is real.                                                *)

\* Real, of a world that is given.
RealIn(st, s, g, x, cl) ==
    \A t \in Tasks :
        /\ "start_task" \in st.done[t] => s[t] # "planning"
        /\ "review_task" \in st.done[t] => s[t] \in {"review", "completed"}
        /\ "complete_task" \in st.done[t] => s[t] = "completed"
        /\ "archive_task" \in st.done[t] => t \in g
        /\ \A step \in st.done[t] :
              Await_(step) => \E k \in x : /\ k.task = t /\ k.role = RoleOf(step)
                                           /\ k.id \in cl
        /\ t \in st.completed => st.done[t] = StepNames

LEMMA RealHere == \A st : Real(st) <=> RealIn(st, status, gone, ctxs, closed)
  BY DEF Real, RealIn

\* The world goes forward.
Grows(s, s2, g, g2, x, x2, cl, cl2) ==
    /\ \A t \in Tasks :
        /\ s[t] # "planning" => s2[t] # "planning"
        /\ s[t] \in {"review", "completed"} => s2[t] \in {"review", "completed"}
        /\ s[t] = "completed" => s2[t] = "completed"
    /\ g \subseteq g2 /\ x \subseteq x2 /\ cl \subseteq cl2

\* What is real stays real in a world that goes forward.
LEMMA StaysReal ==
    ASSUME NEW st, NEW s, NEW s2, NEW g, NEW g2, NEW x, NEW x2, NEW cl, NEW cl2,
           RealIn(st, s, g, x, cl), Grows(s, s2, g, g2, x, x2, cl, cl2)
    PROVE  RealIn(st, s2, g2, x2, cl2)
  BY DEF RealIn, Grows

\* It is a matter of the steps that are done and of the tasks that are completed.
LEMMA SameReal ==
    ASSUME NEW st, NEW up, up.done = st.done, up.completed = st.completed, Real(st)
    PROVE  Real(up)
  BY DEF Real

LEMMA NoStateReal == Real(NoState)
  BY DEF Real, NoState

\* Advancing completes only tasks that have gone through every step.
LEMMA AdvanceReal ==
    ASSUME tree \in Trees, NEW st, StateOK(st), Advances(st), Real(st)
    PROVE  Real(Advance(st))
  BY AdvanceType DEF Real

\* A success is recorded when the world shows it.
LEMMA SucceedReal ==
    ASSUME NEW st, StateOK(st), st.action # NoAction, NEW r \in Results, Verified(st, r),
           Real(st), NEW cl,
           cl = IF Await_(st.action.step) THEN closed \cup {r.named} ELSE closed
    PROVE  RealIn(Succeed(st, r), status, gone, ctxs, cl)
<1> DEFINE a == st.action
           up == Succeed(st, r)
<1>1. a.task \in Tasks /\ a.step \in StepNames
  BY PendingType
<1>2. up.done = [st.done EXCEPT ![a.task] = @ \cup {a.step}] /\ up.completed = st.completed
  BY SucceedType
<1>3. st.done \in [Tasks -> SUBSET StepNames]
  BY DEF StateOK, States
<1> HIDE DEF up
<1>4. SUFFICES ASSUME NEW t \in Tasks
               PROVE  /\ "start_task" \in up.done[t] => status[t] # "planning"
                      /\ "review_task" \in up.done[t] => status[t] \in {"review", "completed"}
                      /\ "complete_task" \in up.done[t] => status[t] = "completed"
                      /\ "archive_task" \in up.done[t] => t \in gone
                      /\ \A step \in up.done[t] :
                            Await_(step) => \E k \in ctxs : /\ k.task = t /\ k.role = RoleOf(step)
                                                            /\ k.id \in cl
                      /\ t \in up.completed => up.done[t] = StepNames
  BY DEF RealIn, up
<1>5. /\ "start_task" \in st.done[t] => status[t] # "planning"
      /\ "review_task" \in st.done[t] => status[t] \in {"review", "completed"}
      /\ "complete_task" \in st.done[t] => status[t] = "completed"
      /\ "archive_task" \in st.done[t] => t \in gone
      /\ \A step \in st.done[t] :
            Await_(step) => \E k \in ctxs : /\ k.task = t /\ k.role = RoleOf(step)
                                            /\ k.id \in closed
      /\ t \in st.completed => st.done[t] = StepNames
  BY DEF Real
<1>6. closed \subseteq cl
  OBVIOUS
<1>7. CASE t # a.task
  <2>1. up.done[t] = st.done[t]
    BY <1>2, <1>3, <1>7
  <2>2. QED
    BY <1>2, <1>5, <1>6, <2>1
<1>8. CASE t = a.task
  <2>1. up.done[t] = st.done[t] \cup {a.step}
    BY <1>2, <1>3, <1>8
  <2>2. /\ a.step = "start_task" => status[t] = "in_progress"
        /\ a.step = "review_task" => status[t] = "review"
        /\ a.step = "complete_task" => status[t] = "completed"
    BY <1>8 DEF Verified, StatusVerified, LifecycleStatus, Init_, Await_
  <2>3. a.step = "archive_task" => t \in gone
    BY <1>8 DEF Verified, ArchiveVerified, LifecycleStatus, Init_, Await_
  <2>4. ASSUME Await_(a.step)
        PROVE  \E k \in ctxs : k.task = t /\ k.role = RoleOf(a.step) /\ k.id \in cl
    <3>1. AwaitVerified(st, r)
      BY <2>4 DEF Verified, LifecycleStatus, Init_, Await_
    <3>2. [id |-> r.named, task |-> a.task, role |-> RoleOf(a.step)] \in ctxs
      BY <3>1 DEF AwaitVerified, IsFor
    <3>3. r.named \in cl
      BY <2>4
    <3>4. QED
      BY <1>8, <3>2, <3>3
  <2>5. t \in up.completed => up.done[t] = StepNames
    BY <1>1, <1>2, <1>5, <2>1
  <2>6. ASSUME NEW step \in up.done[t], Await_(step)
        PROVE  \E k \in ctxs : k.task = t /\ k.role = RoleOf(step) /\ k.id \in cl
    BY <1>5, <1>6, <2>1, <2>4, <2>6
  <2>7. QED
    BY <1>5, <2>1, <2>2, <2>3, <2>5, <2>6
<1>9. QED
  BY <1>7, <1>8

\* What the checkpoint says, and what every command at work is about to say.
AllReal == Real(cp.st) /\ \A c \in Callers : Real(mem[c])

\* A command that is to save a real state keeps everything real.
LEMMA ToSaveReal ==
    ASSUME Typed, AllReal, NEW c \in Callers, NEW st, NEW next, ToSave(c, st, next),
           RealIn(st, status', gone', ctxs', closed'),
           Grows(status, status', gone, gone', ctxs, ctxs', closed, closed')
    PROVE  AllReal'
<1>1. cp' = cp /\ mem' = [mem EXCEPT ![c] = st]
  BY DEF ToSave
<1>2. RealIn(cp.st, status', gone', ctxs', closed')
  BY RealHere, StaysReal DEF AllReal
<1>3. ASSUME NEW d \in Callers PROVE RealIn(mem'[d], status', gone', ctxs', closed')
  <2>1. mem'[d] = IF d = c THEN st ELSE mem[d]
    BY <1>1 DEF Typed, MachineOK
  <2>2. RealIn(mem[d], status', gone', ctxs', closed')
    BY RealHere, StaysReal DEF AllReal
  <2>3. QED
    BY <2>1, <2>2
<1>4. QED
  BY <1>1, <1>2, <1>3 DEF AllReal, Real, RealIn

\* A world that goes forward under commands that wait keeps everything real.
LEMMA WorldReal ==
    ASSUME Typed, AllReal, UNCHANGED <<cp, mem>>,
           Grows(status, status', gone, gone', ctxs, ctxs', closed, closed')
    PROVE  AllReal'
<1>1. RealIn(cp.st, status', gone', ctxs', closed')
  BY RealHere, StaysReal DEF AllReal
<1>2. ASSUME NEW d \in Callers PROVE RealIn(mem[d], status', gone', ctxs', closed')
  BY RealHere, StaysReal DEF AllReal
<1>3. QED
  BY <1>1, <1>2 DEF AllReal, Real, RealIn

\* A world that stands still goes forward.
LEMMA GrowsStill ==
    UNCHANGED <<status, gone, ctxs, closed>> =>
        Grows(status, status', gone, gone', ctxs, ctxs', closed, closed')
  BY DEF Grows

\* Starting and resuming record nothing.
LEMMA StartReal ==
    ASSUME Typed, AllReal, NEW c \in Callers, Start(c) \/ Resume(c)
    PROVE  AllReal'
<1>1. UNCHANGED <<status, gone, ctxs, closed>>
  BY DEF Start, Resume, world
<1>2. Grows(status, status', gone, gone', ctxs, ctxs', closed, closed')
  BY <1>1, GrowsStill
<1>3. SUFFICES \E st, next : ToSave(c, st, next) /\ Real(st)
  <2>1. \A st : Real(st) => RealIn(st, status', gone', ctxs', closed')
    BY <1>1, RealHere
  <2>2. QED
    BY <1>2, <2>1, ToSaveReal
<1>4. tree \in Trees /\ StateOK(cp.st) /\ Real(cp.st)
  BY DEF Typed, MachineOK, AllReal
<1>5. CASE ToSave(c, Advance(cp.st), "return") /\ Advances(cp.st)
  BY <1>4, <1>5, AdvanceReal
<1>6. CASE cp.st.phase = "paused" /\ ToSave(c, [cp.st EXCEPT !.phase = "running"], "advance")
  BY <1>4, <1>6, ContinueType, SameReal
<1>7. CASE ToSave(c, [NoState EXCEPT !.phase = "ready", !.ordered = Leaves({})], "advance")
  <2> DEFINE st == [NoState EXCEPT !.phase = "ready", !.ordered = Leaves({})]
  <2>1. st.done = NoState.done /\ st.completed = NoState.completed
    BY DEF NoState
  <2>2. Real(st)
    BY <2>1, NoStateReal, SameReal
  <2>3. QED
    BY <1>7, <2>2
<1>8. QED
  BY <1>5, <1>6, <1>7 DEF Start, Resume

\* Record-result records what it has verified.
LEMMA RecordReal ==
    ASSUME Typed, AllReal, NEW c \in Callers, NEW r \in reports, RecordResult(c, r)
    PROVE  AllReal'
<1> DEFINE st == cp.st
<1>1. r \in Results /\ st.action # NoAction /\ StateOK(st) /\ Real(st)
  BY DEF Typed, MachineOK, WorldOK, RecordResult, AllReal
<1>2. UNCHANGED <<status, gone, ctxs>>
  BY DEF RecordResult
<1>3. CASE r.outcome = "success" /\ Verified(st, r)
  <2>1. /\ ToSave(c, Succeed(st, r), "advance")
        /\ closed' = IF Await_(st.action.step) THEN closed \cup {r.named} ELSE closed
    BY <1>3 DEF RecordResult
  <2>2. RealIn(Succeed(st, r), status, gone, ctxs, closed')
    BY <1>1, <1>3, <2>1, SucceedReal
  <2>3. Grows(status, status', gone, gone', ctxs, ctxs', closed, closed')
    BY <1>2, <2>1 DEF Grows
  <2>4. QED
    BY <1>2, <2>1, <2>2, <2>3, ToSaveReal
<1>4. CASE ~ (r.outcome = "success" /\ Verified(st, r))
  <2>1. ToSave(c, Pause(st, r), "return") /\ closed' = closed
    BY <1>4 DEF RecordResult
  <2>2. Real(Pause(st, r))
    BY <1>1, PauseType, SameReal
  <2>3. RealIn(Pause(st, r), status', gone', ctxs', closed')
    BY <1>2, <2>1, <2>2, RealHere
  <2>4. QED
    BY <1>2, <2>1, <2>3, GrowsStill, ToSaveReal
<1>5. QED
  BY <1>3, <1>4

\* Saving writes what the command holds; ending it leaves nothing.
LEMMA SaveReal ==
    ASSUME Typed, AllReal, NEW c \in Callers, SaveLoad(c) \/ Save(c) \/ Crash(c)
    PROVE  AllReal'
<1>1. UNCHANGED <<status, gone, ctxs, closed>>
  BY DEF SaveLoad, Save, Crash, world
<1>2. \A st : Real(st) => RealIn(st, status', gone', ctxs', closed')
  BY <1>1, RealHere
<1>3. Real(mem[c]) /\ Real(cp.st) /\ Real(NoState) /\ StateOK(mem[c]) /\ tree \in Trees
  BY NoStateReal DEF AllReal, Typed, MachineOK
<1>4. Real(cp'.st)
  BY <1>3 DEF SaveLoad, Save, Crash
<1>5. ASSUME NEW d \in Callers PROVE Real(mem'[d])
  <2>1. CASE SaveLoad(c)
    BY <2>1 DEF SaveLoad, AllReal
  <2>2. CASE Finish(c)
    <3>1. mem'[d] = IF d = c THEN NoState ELSE mem[d]
      BY <2>2 DEF Finish, Typed, MachineOK
    <3>2. QED
      BY <1>3, <3>1 DEF AllReal
  <2>3. CASE Save(c) /\ ~ Finish(c)
    <3>1. Advances(mem[c]) /\ mem' = [mem EXCEPT ![c] = Advance(mem[c])]
      BY <2>3 DEF Save
    <3>2. mem'[d] = IF d = c THEN Advance(mem[c]) ELSE mem[d]
      BY <3>1 DEF Typed, MachineOK
    <3>3. QED
      BY <1>3, <3>1, <3>2, AdvanceReal DEF AllReal
  <2>4. QED
    BY <2>1, <2>2, <2>3 DEF Crash
<1>6. QED
  BY <1>2, <1>4, <1>5 DEF AllReal, Real, RealIn

\* The host only takes the world forward.
LEMMA PerformReal ==
    ASSUME Typed, AllReal, Perform
    PROVE  AllReal'
<1> DEFINE a == cp.st.action
           t == a.task
<1>1. UNCHANGED <<cp, mem, closed>>
  BY DEF Perform, callers
<1>2. status \in [Tasks -> {"planning", "in_progress", "review", "completed"}]
  BY DEF Typed, WorldOK
<1>3. CASE UNCHANGED status /\ gone \subseteq gone' /\ ctxs \subseteq ctxs'
  BY <1>1, <1>3, WorldReal DEF Grows
<1>4. CASE /\ \/ a.step = "start_task" /\ status[t] = "planning"
              \/ a.step = "review_task" /\ status[t] = "in_progress"
              \/ a.step = "complete_task" /\ status[t] = "review"
           /\ status' = [status EXCEPT ![t] = LifecycleStatus[a.step]]
           /\ UNCHANGED <<gone, ctxs, commits>>
  <2>1. Grows(status, status', gone, gone', ctxs, ctxs', closed, closed')
    BY <1>1, <1>2, <1>4 DEF Grows, LifecycleStatus
  <2>2. QED
    BY <1>1, <2>1, WorldReal
<1>5. QED
  BY <1>3, <1>4 DEF Perform

\* Every step keeps everything real.
LEMMA RealStep == Typed /\ AllReal /\ [Next]_vars => AllReal'
<1> SUFFICES ASSUME Typed, AllReal, [Next]_vars PROVE AllReal'
  OBVIOUS
<1>1. ASSUME NEW c \in Callers, Command(c) \/ Crash(c) PROVE AllReal'
  BY <1>1, StartReal, RecordReal, SaveReal DEF Command
<1>2. CASE Perform
  BY <1>2, PerformReal
<1>3. CASE ReportAny
  <2>1. UNCHANGED <<cp, mem, status, gone, ctxs, closed>>
    BY <1>3 DEF ReportAny, Report, world, callers
  <2>2. QED
    BY <2>1, GrowsStill, WorldReal
<1>4. ASSUME NEW k \in ctxs, Bind(k) PROVE AllReal'
  <2>1. UNCHANGED <<cp, mem, status, gone, ctxs, closed>>
    BY <1>4 DEF Bind, callers
  <2>2. QED
    BY <2>1, GrowsStill, WorldReal
<1>5. CASE UNCHANGED vars
  <2>1. UNCHANGED <<cp, mem, status, gone, ctxs, closed>>
    BY <1>5 DEF vars, world, callers
  <2>2. QED
    BY <2>1, GrowsStill, WorldReal
<1>6. QED
  BY <1>1, <1>2, <1>3, <1>4, <1>5 DEF Next

LEMMA AllRealHolds == Spec => []AllReal
<1>1. Init => AllReal
  BY NoStateReal DEF Init, AllReal
<1>2. QED
  BY <1>1, TypedHolds, RealStep, PTL DEF Spec

\* What a checkpoint says is done is done in the world, and a task it calls
\* completed went through every step, however many commands run at once, fail or
\* are killed, and whatever results the host makes up.
THEOREM RecordsAreReal == Spec => []CompletedIsReal
<1>1. AllReal => CompletedIsReal
  BY DEF AllReal, CompletedIsReal
<1>2. QED
  BY <1>1, AllRealHolds, PTL

-----------------------------------------------------------------------------
(* A step is done once.  This holds of a host that runs one command at a    *)
(* time, as SKILL.md has it work, for _save does not stop two of them.      *)

OneCaller == \A c, d \in Callers : c = d

\* up has no step done that st has not, but for the one that is pending in st.
Records(st, up) ==
    \A t \in Tasks :
        up.done[t] # st.done[t] => /\ t = st.action.task
                                  /\ up.done[t] = st.done[t] \cup {st.action.step}

\* The command at work holds the state of the checkpoint, moved on by a step at
\* most.
Following == \A c \in Callers : pc[c] # "idle" => Records(cp.st, mem[c])

\* It does when what it is to save records a step at most.
LEMMA ToSaveFollows ==
    ASSUME OneCaller, Typed, NEW c \in Callers, NEW st, NEW next, ToSave(c, st, next),
           Records(cp.st, st)
    PROVE  Following'
<1>1. cp' = cp /\ mem'[c] = st
  BY DEF ToSave, Typed, MachineOK
<1>2. Records(cp'.st, mem'[c])
  BY <1>1
<1>3. QED
  BY <1>2 DEF Following, Records, OneCaller

\* Starting, resuming and recording set out from the checkpoint.
LEMMA BeginFollows ==
    ASSUME OneCaller, Typed, NEW c \in Callers,
           \/ Start(c) \/ Resume(c)
           \/ \E r \in reports : RecordResult(c, r)
    PROVE  Following'
<1>1. tree \in Trees /\ StateOK(cp.st) /\ (cp.rev = 0 => cp.st = NoState)
  BY DEF Typed, MachineOK
<1>2. \A st : st.done = cp.st.done => Records(cp.st, st)
  BY DEF Records
<1>3. SUFFICES \E st, next : ToSave(c, st, next) /\ Records(cp.st, st)
  BY ToSaveFollows
<1>4. CASE Start(c) /\ cp.rev = 0
  <2> DEFINE st == [NoState EXCEPT !.phase = "ready", !.ordered = Leaves({})]
  <2>1. ToSave(c, st, "advance")
    BY <1>4 DEF Start
  <2>2. st.done = NoState.done
    BY DEF NoState
  <2>3. QED
    BY <1>1, <1>2, <1>4, <2>1, <2>2
<1>5. CASE ToSave(c, Advance(cp.st), "return") /\ Advances(cp.st)
  BY <1>1, <1>2, <1>5, AdvanceType
<1>6. CASE cp.st.phase = "paused" /\ ToSave(c, [cp.st EXCEPT !.phase = "running"], "advance")
  BY <1>1, <1>2, <1>6, ContinueType
<1>7. ASSUME NEW r \in reports, RecordResult(c, r)
      PROVE  \E st, next : ToSave(c, st, next) /\ Records(cp.st, st)
  <2>1. r \in Results /\ cp.st.action # NoAction
    BY <1>7 DEF RecordResult, Typed, WorldOK
  <2>2. cp.st.action.task \in Tasks /\ cp.st.done \in [Tasks -> SUBSET StepNames]
    BY <1>1, <2>1, PendingType DEF StateOK, States
  <2>3. Records(cp.st, Succeed(cp.st, r))
    <3> DEFINE up == Succeed(cp.st, r)
    <3>1. up.done = [cp.st.done EXCEPT ![cp.st.action.task] = @ \cup {cp.st.action.step}]
      BY <1>1, <2>1, SucceedType
    <3> HIDE DEF up
    <3>2. \A t \in Tasks : up.done[t] = IF t = cp.st.action.task
                                       THEN cp.st.done[t] \cup {cp.st.action.step}
                                       ELSE cp.st.done[t]
      BY <2>2, <3>1
    <3>3. Records(cp.st, up)
      BY <3>2 DEF Records
    <3>4. QED
      BY <3>3 DEF up
  <2>4. Records(cp.st, Pause(cp.st, r))
    BY <1>1, <1>2, <2>1, PauseType
  <2>5. \/ ToSave(c, Succeed(cp.st, r), "advance")
        \/ ToSave(c, Pause(cp.st, r), "return")
    BY <1>7 DEF RecordResult
  <2>6. QED
    BY <2>3, <2>4, <2>5
<1>8. QED
  BY <1>4, <1>5, <1>6, <1>7 DEF Start, Resume

\* A save writes what the command holds, and what it goes on with records
\* nothing more.
LEMMA SaveFollows ==
    ASSUME OneCaller, Typed, Following, NEW c \in Callers, SaveLoad(c) \/ Save(c) \/ Crash(c)
    PROVE  Following' /\ Records(cp.st, cp'.st)
<1>1. tree \in Trees /\ StateOK(mem[c])
  BY DEF Typed, MachineOK
<1>2. Records(cp.st, cp.st)
  BY DEF Records
<1>3. CASE SaveLoad(c)
  <2>1. pc[c] # "idle" /\ cp' = cp /\ mem' = mem
    BY <1>3 DEF SaveLoad
  <2>2. QED
    BY <1>2, <2>1 DEF Following, Records, OneCaller
<1>4. CASE Finish(c) /\ (cp' = cp \/ (cp'.st = mem[c] /\ pc[c] # "idle"))
  <2>1. pc'[c] = "idle"
    BY <1>4 DEF Finish, Typed, MachineOK
  <2>2. QED
    BY <1>2, <1>4, <2>1 DEF Following, OneCaller
<1>5. CASE Save(c) /\ ~ Finish(c)
  <2>1. /\ cp'.st = mem[c] /\ pc[c] = "saving" /\ Advances(mem[c])
        /\ mem' = [mem EXCEPT ![c] = Advance(mem[c])]
    BY <1>5 DEF Save
  <2>2. mem'[c].done = cp'.st.done
    BY <1>1, <2>1, AdvanceType DEF Typed, MachineOK
  <2>3. Following'
    BY <2>2 DEF Following, Records, OneCaller
  <2>4. QED
    BY <2>1, <2>3 DEF Following
<1>6. CASE Save(c) /\ Finish(c)
  <2>1. pc[c] # "idle" /\ (cp' = cp \/ cp'.st = mem[c])
    BY <1>6 DEF Save
  <2>2. QED
    BY <1>4, <1>6, <2>1
<1>7. CASE Crash(c)
  BY <1>4, <1>7 DEF Crash
<1>8. QED
  BY <1>3, <1>5, <1>6, <1>7

\* Every step keeps the command at work close to the checkpoint, and records no
\* step but the one that is pending.
LEMMA FollowingStep ==
    ASSUME OneCaller, Typed, Following, [Next]_vars
    PROVE  Following' /\ Records(cp.st, cp'.st)
<1>1. Records(cp.st, cp.st)
  BY DEF Records
<1>2. ASSUME NEW c \in Callers, Command(c) \/ Crash(c)
      PROVE  Following' /\ Records(cp.st, cp'.st)
  <2>1. CASE Start(c) \/ Resume(c) \/ \E r \in reports : RecordResult(c, r)
    <3>1. cp' = cp
      BY <2>1 DEF Start, Resume, RecordResult, ToSave
    <3>2. QED
      BY <1>1, <2>1, <3>1, BeginFollows
  <2>2. CASE SaveLoad(c) \/ Save(c) \/ Crash(c)
    BY <2>2, SaveFollows
  <2>3. QED
    BY <1>2, <2>1, <2>2 DEF Command
<1>3. CASE UNCHANGED <<cp, pc, mem>>
  BY <1>1, <1>3 DEF Following
<1>4. CASE Perform \/ ReportAny \/ (\E k \in ctxs : Bind(k)) \/ UNCHANGED vars
  <2>1. UNCHANGED <<cp, pc, mem>>
    BY <1>4 DEF Perform, ReportAny, Report, Bind, callers, vars
  <2>2. QED
    BY <1>3, <2>1
<1>5. QED
  BY <1>2, <1>4 DEF Next

\* With one command at a time, a step becomes done when its action was pending,
\* one step of one task with each save, and what was done stays done: no result
\* that comes late or twice and no killed command undoes or repeats one.
THEOREM StepsDoneOnce ==
    ASSUME OneCaller
    PROVE  Spec => DoneOnce
<1>1. Init => Following
  BY DEF Init, Following
<1>2. Typed /\ Following /\ [Next]_vars => Following'
  BY FollowingStep
<1>3. Typed /\ Following /\ [Next]_vars =>
        [LET a == cp.st.action IN
         \A t \in Tasks :
             cp'.st.done[t] # cp.st.done[t] =>
                 /\ t = a.task
                 /\ cp'.st.done[t] = cp.st.done[t] \cup {a.step}]_vars
  BY FollowingStep DEF Records
<1>4. QED
  BY <1>1, <1>2, <1>3, TypedHolds, PTL DEF Spec, DoneOnce
=============================================================================
