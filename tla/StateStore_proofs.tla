--------------------------- MODULE StateStore_proofs ---------------------------
(***************************************************************************)
(* What holds of the lock protocol for any number of callers, operation    *)
(* ids, values, calls and IO faults.                                       *)
(***************************************************************************)
EXTENDS StateStore, TLAPS

\* What a call leaves in the document is a document.
LEMMA EffectType ==
    ASSUME NEW d \in Doc, NEW c \in Call
    PROVE  CallEffect(d, c) \in Doc /\ CallAnswer(d, c) \in Answers
BY DEF CallEffect, CallAnswer, Replay, Stale, Doc, Call, Absent, Answers

\* Callers pass well-formed calls.
LEMMA CallsType ==
    ASSUME NEW d \in Doc
    PROVE  CallsFrom(d) \subseteq Call /\ Absent \in Doc
BY CallAssumption DEF CallsFrom, Call, Doc, Absent

\* Every variable keeps its type, and a call that is over has an answer.
THEOREM TypeCorrect == Spec => []TypeOK
<1>1. Init => TypeOK
  BY DEF Init, TypeOK, Doc, Absent
<1>2. TypeOK /\ [Next]_vars => TypeOK'
  <2> SUFFICES ASSUME TypeOK, [Next]_vars PROVE TypeOK'
    OBVIOUS
  <2> USE DEF TypeOK
  <2>1. ASSUME NEW p \in Procs, Load(p) PROVE TypeOK'
    BY <2>1 DEF Load, procVars, rmVars
  <2>2. ASSUME NEW p \in Procs, Begin(p) PROVE TypeOK'
    BY <2>2, CallsType DEF Begin, Goto, procVars, rmVars
  <2>3. ASSUME NEW p \in Procs, Acquire(p) PROVE TypeOK'
    BY <2>3 DEF Acquire, Goto, LockOf, Lock, rmVars
  <2>4. ASSUME NEW p \in Procs, Timeout(p) PROVE TypeOK'
    BY <2>4 DEF Timeout, Answer, Goto, Answers, rmVars
  <2>5. ASSUME NEW p \in Procs, WritePayload(p) PROVE TypeOK'
    BY <2>5 DEF WritePayload, Goto, LockOf, Lock, rmVars
  <2>6. ASSUME NEW p \in Procs, PayloadFault(p) PROVE TypeOK'
    BY <2>6 DEF PayloadFault, UnlinkLock, Answer, Goto, Answers, rmVars
  <2>7. ASSUME NEW p \in Procs, LoadLocked(p) PROVE TypeOK'
    BY <2>7 DEF LoadLocked, Goto, rmVars
  <2>8. ASSUME NEW p \in Procs, Reply(p) PROVE TypeOK'
    <3>1. CallAnswer(seen[p], call[p]) \in Answers
      BY <2>8, EffectType DEF Reply
    <3>2. "none" \notin Answers
      BY DEF Answers
    <3>3. QED
      BY <2>8, <3>1, <3>2 DEF Reply, Answer, Goto, rmVars
  <2>9. ASSUME NEW p \in Procs, Write(p) PROVE TypeOK'
    <3>1. CallEffect(seen[p], call[p]) \in Doc
      BY <2>9, EffectType DEF Write
    <3>2. QED
      BY <2>9, <3>1 DEF Write, Answer, Goto, Answers, rmVars
  <2>10. ASSUME NEW p \in Procs, SaveFault(p) PROVE TypeOK'
    BY <2>10 DEF SaveFault, Answer, Goto, Answers, rmVars
  <2>11. ASSUME NEW p \in Procs, Release(p) PROVE TypeOK'
    BY <2>11 DEF Release, UnlinkLock, Goto, rmVars
  <2>12. ASSUME NEW p \in Procs, Return(p) PROVE TypeOK'
    BY <2>12, CallsType DEF Return, Goto, rmVars
  <2>13. ASSUME NEW p \in Procs, Crash(p) PROVE TypeOK'
    BY <2>13, CallsType DEF Crash, Goto, rmVars
  <2>14. CASE Age
    BY <2>14 DEF Age, procVars, rmVars
  <2>15. ASSUME NEW r \in Removers, RmStep(r) PROVE TypeOK'
    BY <2>15 DEF RmStep, RmRead, RmJudge, RmReread, RmUnlink, RmGoto, procVars
  <2>16. CASE UNCHANGED vars
    BY <2>16 DEF vars, procVars, rmVars
  <2>17. QED
    BY <2>1, <2>2, <2>3, <2>4, <2>5, <2>6, <2>7, <2>8, <2>9, <2>10, <2>11,
       <2>12, <2>13, <2>14, <2>15, <2>16 DEF Next, Step
<1>3. QED
  BY <1>1, <1>2, PTL DEF Spec

\* The inductive invariant: with one cleanup at a time, a process inside the
\* lock created the lock file that is there, and the cleanup unlinks only a
\* file nobody else can remove.
LEMMA InvariantHolds ==
    ASSUME OneRemover
    PROVE  Spec => []IInv
<1> DEFINE Rest == HolderOwnsLock /\ CleanupTargetsDead /\ LoadedIsCurrent
<1>1. Init => Rest
  BY DEF Init, HolderOwnsLock, CleanupTargetsDead, LoadedIsCurrent, InSection
<1>2. TypeOK /\ TypeOK' /\ Rest /\ [Next]_vars => Rest'
  <2> SUFFICES ASSUME TypeOK, TypeOK', Rest, [Next]_vars PROVE Rest'
    OBVIOUS
  <2> USE DEF TypeOK, HolderOwnsLock, CleanupTargetsDead, LoadedIsCurrent,
              InSection, LockOf
  <2>1. ASSUME NEW p \in Procs, Load(p) PROVE Rest'
    BY <2>1 DEF Load, procVars, rmVars
  <2>2. ASSUME NEW p \in Procs, Begin(p) PROVE Rest'
    BY <2>2 DEF Begin, Goto, procVars, rmVars
  <2>3. ASSUME NEW p \in Procs, Acquire(p) PROVE Rest'
    \* No lock file: nobody is inside, and no cleanup has come to its unlink.
    <3>1. \A q \in Procs : ~InSection(q)
      <4>1. ASSUME NEW q \in Procs, InSection(q) PROVE FALSE
        <5>1. lock = LockOf(q, pc[q] # "opened")
          BY <4>1
        <5>2. lock \in Lock
          BY <5>1 DEF Lock
        <5>3. QED
          BY <2>3, <5>2, LockAssumption DEF Acquire
      <4>2. QED
        BY <4>1
    <3>2. \A r \in Removers : rmPc[r] # "unlink"
      BY <2>3, LockAssumption DEF Acquire
    <3>3. \A q \in Procs : q # p => pc'[q] = pc[q]
      BY <2>3 DEF Acquire, Goto
    <3>4. HolderOwnsLock'
      <4>1. pc'[p] = "opened" /\ made'[p] = made[p] /\ lock' = LockOf(p, FALSE)
        BY <2>3 DEF Acquire, Goto
      <4>2. QED
        BY <3>1, <3>3, <4>1
    <3>5. CleanupTargetsDead'
      BY <2>3, <3>2 DEF Acquire, Goto, Lock, rmVars
    <3>6. LoadedIsCurrent'
      BY <2>3 DEF Acquire, Goto
    <3>7. QED
      BY <3>4, <3>5, <3>6
  <2>4. ASSUME NEW p \in Procs, Timeout(p) PROVE Rest'
    BY <2>4 DEF Timeout, Answer, Goto, rmVars
  <2>5. ASSUME NEW p \in Procs, WritePayload(p) PROVE Rest'
    <3>1. lock = LockOf(p, FALSE)
      BY <2>5 DEF WritePayload
    <3>2. \A q \in Procs : InSection(q) => q = p
      BY <3>1
    <3>3. \A r \in Removers : rmPc[r] # "unlink"
      BY <2>5, <3>1 DEF WritePayload
    <3>4. HolderOwnsLock'
      BY <2>5, <3>1, <3>2 DEF WritePayload, Goto
    <3>5. CleanupTargetsDead'
      BY <2>5, <3>3 DEF WritePayload, Goto, Lock, rmVars
    <3>6. LoadedIsCurrent'
      BY <2>5 DEF WritePayload, Goto
    <3>7. QED
      BY <3>4, <3>5, <3>6
  <2>6. ASSUME NEW p \in Procs, PayloadFault(p) PROVE Rest'
    BY <2>6 DEF PayloadFault, UnlinkLock, Answer, Goto, Lock, rmVars
  <2>7. ASSUME NEW p \in Procs, LoadLocked(p) PROVE Rest'
    BY <2>7 DEF LoadLocked, Goto, rmVars
  <2>8. ASSUME NEW p \in Procs, Reply(p) PROVE Rest'
    BY <2>8 DEF Reply, Answer, Goto, rmVars
  <2>9. ASSUME NEW p \in Procs, Write(p) PROVE Rest'
    BY <2>9 DEF Write, Answer, Goto, Lock, rmVars
  <2>10. ASSUME NEW p \in Procs, SaveFault(p) PROVE Rest'
    BY <2>10 DEF SaveFault, Answer, Goto, rmVars
  <2>11. ASSUME NEW p \in Procs, Release(p) PROVE Rest'
    BY <2>11 DEF Release, UnlinkLock, Goto, Lock, rmVars
  <2>12. ASSUME NEW p \in Procs, Return(p) PROVE Rest'
    BY <2>12 DEF Return, Goto, rmVars
  <2>13. ASSUME NEW p \in Procs, Crash(p) PROVE Rest'
    BY <2>13 DEF Crash, Goto, rmVars
  <2>14. CASE Age
    BY <2>14 DEF Age, procVars, rmVars
  <2>15. ASSUME NEW r \in Removers, RmRead(r) PROVE Rest'
    BY <2>15 DEF RmRead, RmGoto, procVars
  <2>16. ASSUME NEW r \in Removers, RmJudge(r) PROVE Rest'
    BY <2>16 DEF RmJudge, RmGoto, Recoverable, procVars
  <2>17. ASSUME NEW r \in Removers, RmReread(r) PROVE Rest'
    BY <2>17 DEF RmReread, RmGoto, procVars
  <2>18. ASSUME NEW r \in Removers, RmUnlink(r) PROVE Rest'
    \* The file removed is that of a dead process, so nobody was inside.
    <3>1. \A p \in Procs : ~InSection(p)
      BY <2>18, LockAssumption DEF RmUnlink, Lock
    <3>2. \A s \in Removers : rmPc'[s] = "idle"
      BY <2>18 DEF RmUnlink, RmGoto, OneRemover
    <3>3. QED
      BY <2>18, <3>1, <3>2 DEF RmUnlink, RmGoto, procVars
  <2>19. CASE UNCHANGED vars
    BY <2>19 DEF vars, procVars, rmVars
  <2>20. QED
    BY <2>1, <2>2, <2>3, <2>4, <2>5, <2>6, <2>7, <2>8, <2>9, <2>10, <2>11,
       <2>12, <2>13, <2>14, <2>15, <2>16, <2>17, <2>18, <2>19
    DEF Next, Step, RmStep
<1>3. QED
  BY <1>1, <1>2, TypeCorrect, PTL DEF Spec, IInv

\* The lock file excludes: two running callers are never both inside it, for
\* any number of callers, crashes and faults, when cleanups do not overlap.
THEOREM Exclusion ==
    ASSUME OneRemover
    PROVE  Spec => []MutualExclusion
<1>1. IInv => MutualExclusion
  BY DEF IInv, MutualExclusion, HolderOwnsLock, LockOf
<1>2. QED
  BY <1>1, InvariantHolds, PTL

\* What a caller loaded under the lock is what its write replaces.
THEOREM Currency ==
    ASSUME OneRemover
    PROVE  Spec => []LoadedIsCurrent
BY InvariantHolds, PTL DEF IInv

\* A process that left the critical section took its lock file with it, on any
\* path through the error handlers, as long as files can be unlinked: whatever
\* lock file is there belongs to a running call or to a process that was killed.
THEOREM NoLockIsOrphaned ==
    ASSUME "unlink" \notin IoFaults
    PROVE  Spec => []NoOrphanLock
<1>1. Init => NoOrphanLock
  BY DEF Init, NoOrphanLock
<1>2. TypeOK /\ NoOrphanLock /\ [Next]_vars => NoOrphanLock'
  <2> SUFFICES ASSUME TypeOK, NoOrphanLock, [Next]_vars PROVE NoOrphanLock'
    OBVIOUS
  <2> USE DEF TypeOK, NoOrphanLock, InSection
  <2>1. ASSUME NEW p \in Procs, Load(p) \/ Begin(p) PROVE NoOrphanLock'
    BY <2>1 DEF Load, Begin, Goto, Lock
  <2>2. ASSUME NEW p \in Procs, Acquire(p) PROVE NoOrphanLock'
    BY <2>2 DEF Acquire, Goto, LockOf
  <2>3. ASSUME NEW p \in Procs, Timeout(p) \/ Return(p) PROVE NoOrphanLock'
    BY <2>3 DEF Timeout, Return, Answer, Goto, Lock
  <2>4. ASSUME NEW p \in Procs, WritePayload(p) PROVE NoOrphanLock'
    <3>1. CASE lock = LockOf(p, FALSE)
      BY <2>4, <3>1 DEF WritePayload, Goto, LockOf
    <3>2. CASE lock # LockOf(p, FALSE)
      BY <2>4, <3>2 DEF WritePayload, Goto, Lock
    <3>3. QED
      BY <3>1, <3>2
  <2>5. ASSUME NEW p \in Procs, PayloadFault(p) \/ Release(p) PROVE NoOrphanLock'
    BY <2>5 DEF PayloadFault, Release, UnlinkLock
  <2>6. ASSUME NEW p \in Procs, LoadLocked(p) \/ Reply(p) \/ Write(p) \/ SaveFault(p)
        PROVE  NoOrphanLock'
    BY <2>6 DEF LoadLocked, Reply, Write, SaveFault, Answer, Goto, Lock
  <2>7. ASSUME NEW p \in Procs, Crash(p) PROVE NoOrphanLock'
    BY <2>7 DEF Crash, Goto, Lock
  <2>8. CASE Age
    BY <2>8 DEF Age, procVars
  <2>9. ASSUME NEW r \in Removers, RmStep(r) PROVE NoOrphanLock'
    BY <2>9 DEF RmStep, RmRead, RmJudge, RmReread, RmUnlink, procVars
  <2>10. CASE UNCHANGED vars
    BY <2>10 DEF vars, procVars
  <2>11. QED
    BY <2>1, <2>2, <2>3, <2>4, <2>5, <2>6, <2>7, <2>8, <2>9, <2>10 DEF Next, Step
<1>3. QED
  BY <1>1, <1>2, TypeCorrect, PTL DEF Spec

\* Revisions identify the documents of one file when it is never deleted.
LEMMA RevisionsHold ==
    ASSUME OneRemover, ReplaceOnly
    PROVE  Spec => []RevisionsIdentify
<1>1. Init => RevisionsIdentify
  BY DEF Init, RevisionsIdentify, Absent
<1>2. IInv /\ IInv' /\ RevisionsIdentify /\ [Next]_vars => RevisionsIdentify'
  <2> SUFFICES ASSUME IInv, IInv', RevisionsIdentify, [Next]_vars
               PROVE  RevisionsIdentify'
    OBVIOUS
  <2> USE DEF IInv, TypeOK, RevisionsIdentify
  <2>1. ASSUME NEW p \in Procs, Load(p) PROVE RevisionsIdentify'
    BY <2>1 DEF Load, Doc
  <2>2. ASSUME NEW p \in Procs, Begin(p) PROVE RevisionsIdentify'
    <3>1. PICK c \in CallsFrom(snap[p]) : call' = [call EXCEPT ![p] = c]
      BY <2>2 DEF Begin
    <3>2. c.kind = "replace" /\ c.expected \in {snap[p].rev, AnyRevision}
      BY ReplaceOnly DEF CallsFrom, ReplaceOnly
    <3>3. QED
      BY <2>2, <3>1, <3>2 DEF Begin, Goto
  <2>3. ASSUME NEW p \in Procs, Write(p) PROVE RevisionsIdentify'
    <3>1. seen[p] = doc /\ call[p].kind = "replace"
      BY <2>3 DEF Write, LoadedIsCurrent
    <3>2. doc'.rev = doc.rev + 1
      BY <2>3, <3>1 DEF Write, CallEffect
    <3>3. \A q \in Procs : snap[q].rev \in Nat /\ doc.rev \in Nat
      BY DEF Doc
    <3>4. QED
      BY <2>3, <3>2, <3>3 DEF Write, Answer, Goto
  <2>4. ASSUME NEW p \in Procs, Crash(p) PROVE RevisionsIdentify'
    <3>1. Absent.rev = 0 /\ doc.rev \in Nat
      BY DEF Absent, Doc
    <3>2. QED
      BY <2>4, <3>1 DEF Crash, Goto
  <2>5. ASSUME NEW p \in Procs, Acquire(p) \/ Timeout(p) \/ WritePayload(p)
                                \/ PayloadFault(p) \/ LoadLocked(p)
        PROVE  RevisionsIdentify'
    BY <2>5 DEF Acquire, Timeout, WritePayload, PayloadFault, LoadLocked,
                Answer, Goto
  <2>6. ASSUME NEW p \in Procs, Reply(p) \/ SaveFault(p) \/ Release(p) \/ Return(p)
        PROVE  RevisionsIdentify'
    BY <2>6 DEF Reply, SaveFault, Release, Return, Answer, Goto
  <2>7. CASE Age
    BY <2>7 DEF Age, procVars
  <2>8. ASSUME NEW r \in Removers, RmStep(r) PROVE RevisionsIdentify'
    BY <2>8 DEF RmStep, RmRead, RmJudge, RmReread, RmUnlink, procVars
  <2>9. CASE UNCHANGED vars
    BY <2>9 DEF vars, procVars
  <2>10. QED
    BY <2>1, <2>2, <2>3, <2>4, <2>5, <2>6, <2>7, <2>8, <2>9 DEF Next, Step
<1>3. QED
  BY <1>1, <1>2, InvariantHolds, PTL DEF Spec

\* No update is lost: a write that named the revision its caller had loaded
\* replaces the very document that caller had loaded, if the file is never
\* deleted and cleanups do not overlap.
THEOREM LosesNoUpdate ==
    ASSUME OneRemover, ReplaceOnly
    PROVE  Spec => NoLostUpdate
<1> DEFINE A == \A p \in Procs :
                  doc' # doc /\ pc[p] = "loaded" /\ pc'[p] = "unlocking"
                  /\ call[p].expected # AnyRevision => snap[p] = doc
<1>1. IInv /\ RevisionsIdentify /\ [Next]_vars => A
  <2> SUFFICES ASSUME IInv, RevisionsIdentify, [Next]_vars, NEW p \in Procs,
                      doc' # doc, pc[p] = "loaded", pc'[p] = "unlocking",
                      call[p].expected # AnyRevision
               PROVE  snap[p] = doc
    OBVIOUS
  <2>1. PICK q \in Procs : Write(q)
    <3>1. \A q \in Procs : Load(q) \/ Begin(q) \/ Crash(q) => doc' = doc
      BY DEF Load, Begin, Crash
    <3>2. \A q \in Procs : Step(q) => Write(q) \/ doc' = doc
      BY DEF Step, Acquire, Timeout, WritePayload, PayloadFault, LoadLocked,
             Reply, SaveFault, Release, Return
    <3>3. \A r \in Removers : RmStep(r) => doc' = doc
      BY DEF RmStep, RmRead, RmJudge, RmReread, RmUnlink
    <3>4. Age \/ UNCHANGED vars => doc' = doc
      BY DEF Age, vars
    <3>5. QED
      BY <3>1, <3>2, <3>3, <3>4 DEF Next
  <2>2. q = p
    BY <2>1 DEF Write, Answer, Goto, IInv, TypeOK
  <2>3. seen[p] = doc /\ ~Stale(seen[p], call[p])
    <3>1. Changes(seen[p], call[p]) /\ call[p].kind = "replace"
      BY <2>1, <2>2 DEF Write, RevisionsIdentify
    <3>2. ~Stale(seen[p], call[p])
      BY <3>1 DEF Changes, CallAnswer
    <3>3. QED
      BY <3>2 DEF IInv, LoadedIsCurrent
  <2>4. QED
    BY <2>3 DEF Stale, RevisionsIdentify
<1>2. QED
  BY <1>1, InvariantHolds, RevisionsHold, PTL DEF Spec, NoLostUpdate
-----------------------------------------------------------------------------
(* The lock protocol implements CasRegister.                               *)

status == [p \in Procs |-> StatusOf(pc[p])]

\* A step of p that only moves its pc, and not its status, is a stutter.
LEMMA StatusSteps ==
    ASSUME TypeOK, NEW p \in Procs, NEW where, Goto(p, where)
    PROVE  status' = [status EXCEPT ![p] = StatusOf(where)]
BY DEF TypeOK, Goto, status

\* The register judges calls as the store does.
LEMMA SameSemantics ==
    /\ Register!Absent = Absent
    /\ \A s : Register!CallsFrom(s) = CallsFrom(s)
    /\ \A d, c : /\ Register!CallAnswer(d, c) = CallAnswer(d, c)
                 /\ Register!Changes(d, c) = Changes(d, c)
                 /\ Register!CallEffect(d, c) = CallEffect(d, c)
BY DEF Register!Absent, Absent, Register!CallsFrom, CallsFrom,
       Register!CallAnswer, CallAnswer, Register!Changes, Changes,
       Register!CallEffect, CallEffect, Register!Replay, Replay,
       Register!Stale, Stale

\* The transitions of the register, one per step of the protocol: a call takes
\* effect when the document is replaced, or when the loaded document decides
\* that it is not.
THEOREM Refinement ==
    ASSUME OneRemover
    PROVE  Spec => ImplementsRegister
<1>1. Init => Register!RegInit
  BY SameSemantics DEF Init, Register!RegInit, StatusOf
<1>2. IInv /\ [Next]_vars => [Register!RegNext]_(Register!regVars)
  <2> SUFFICES ASSUME IInv, [Next]_vars
               PROVE  Register!RegNext \/ UNCHANGED Register!regVars
    OBVIOUS
  <2> USE DEF IInv, Register!regVars, Register!RegNext
  <2>1. ASSUME NEW p \in Procs, Load(p) PROVE Register!Read(p)
    BY <2>1 DEF Load, Register!Read, StatusOf
  <2>2. ASSUME NEW p \in Procs, Begin(p) PROVE Register!Invoke(p)
    <3>1. status' = [status EXCEPT ![p] = "called"] /\ status[p] = "idle"
      BY <2>2, StatusSteps DEF Begin, StatusOf, status
    <3>2. QED
      BY <2>2, <3>1, SameSemantics DEF Begin, Register!Invoke, status
  <2>3. ASSUME NEW p \in Procs,
               Acquire(p) \/ WritePayload(p) \/ LoadLocked(p) \/ Release(p)
        PROVE  UNCHANGED Register!regVars
    <3>1. PICK where : /\ Goto(p, where)
                       /\ StatusOf(where) = StatusOf(pc[p])
      <4>1. CASE Acquire(p)
        BY <4>1 DEF Acquire, StatusOf
      <4>2. CASE WritePayload(p)
        BY <4>2 DEF WritePayload, StatusOf
      <4>3. CASE LoadLocked(p)
        BY <4>3 DEF LoadLocked, StatusOf
      <4>4. CASE Release(p)
        BY <4>4 DEF Release, StatusOf
      <4>5. QED
        BY <2>3, <4>1, <4>2, <4>3, <4>4
    <3>2. status' = [status EXCEPT ![p] = StatusOf(pc[p])]
      BY <3>1, StatusSteps
    <3>3. status' = status
      BY <3>2 DEF status
    <3>4. QED
      BY <2>3, <3>3 DEF Acquire, WritePayload, LoadLocked, Release, status
  <2>4. ASSUME NEW p \in Procs, Timeout(p) \/ PayloadFault(p) \/ SaveFault(p)
        PROVE  Register!Refuse(p)
    <3>1. status' = [status EXCEPT ![p] = "answered"] /\ status[p] = "called"
      BY <2>4, StatusSteps
      DEF Timeout, PayloadFault, SaveFault, Answer, StatusOf, status
    <3>2. QED
      BY <2>4, <3>1
      DEF Timeout, PayloadFault, SaveFault, Answer, Register!Refuse, status
  <2>5. ASSUME NEW p \in Procs, Reply(p) \/ Write(p) PROVE Register!Perform(p)
    <3>1. status' = [status EXCEPT ![p] = "answered"] /\ status[p] = "called"
      BY <2>5, StatusSteps DEF Reply, Write, Answer, StatusOf, status
    <3>2. seen[p] = doc
      BY <2>5 DEF Reply, Write, LoadedIsCurrent
    <3>3. CASE Reply(p)
      BY <3>1, <3>2, <3>3, SameSemantics DEF Reply, Answer, Register!Perform, status
    <3>4. CASE Write(p)
      <4>1. CallAnswer(doc, call[p]) = "ok"
        BY <3>2, <3>4 DEF Write, Changes
      <4>2. QED
        BY <3>1, <3>2, <3>4, <4>1, SameSemantics
          DEF Write, Answer, Register!Perform, status
    <3>5. QED
      BY <2>5, <3>3, <3>4
  <2>6. ASSUME NEW p \in Procs, Return(p) PROVE Register!Return(p)
    <3>1. status' = [status EXCEPT ![p] = "idle"] /\ status[p] = "answered"
      BY <2>6, StatusSteps DEF Return, StatusOf, status
    <3>2. QED
      BY <2>6, <3>1 DEF Return, Register!Return, Register!Forget, status
  <2>7. ASSUME NEW p \in Procs, Crash(p) PROVE Register!Stop(p)
    <3>1. status' = [status EXCEPT ![p] = "down"]
      BY <2>7, StatusSteps DEF Crash, StatusOf
    <3>2. status[p] \in {"called", "answered"}
      BY <2>7 DEF Crash, StatusOf, status, TypeOK
    <3>3. QED
      BY <2>7, <3>1, <3>2, SameSemantics
      DEF Crash, Register!Stop, Register!Forget, status
  <2>8. CASE Age
    BY <2>8 DEF Age, procVars
  <2>9. ASSUME NEW r \in Removers, RmStep(r) PROVE UNCHANGED Register!regVars
    BY <2>9 DEF RmStep, RmRead, RmJudge, RmReread, RmUnlink, procVars
  <2>10. CASE UNCHANGED vars
    BY <2>10 DEF vars, procVars
  <2>11. QED
    BY <2>1, <2>2, <2>3, <2>4, <2>5, <2>6, <2>7, <2>8, <2>9, <2>10
    DEF Next, Step
<1>3. QED
  BY <1>1, <1>2, InvariantHolds, PTL DEF Spec, ImplementsRegister, Register!RegSpec
=============================================================================
