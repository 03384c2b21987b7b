------------------------------ MODULE StateStore ------------------------------
(***************************************************************************)
(* infra/storage/state_store.py: replace, delete and load of one document  *)
(* by processes that exclude each other with a lock file next to it        *)
(* (<name>.lock, created with open("x")), and remove_stale_lock, the       *)
(* explicit cleanup of the lock file of a process that is gone.            *)
(*                                                                         *)
(* One action per file-system step, so that the steps of two processes     *)
(* interleave between them.  A load is one step: the document is only ever *)
(* put in place by os.replace.  A process that crashes stays down; its     *)
(* restart is another member of Procs (process ids are not reused).        *)
(***************************************************************************)
EXTENDS CasDocument

CONSTANTS
    Removers,   \* processes running remove_stale_lock
    NoLock,     \* no file at the lock path
    IoFaults,   \* the OSErrors that may happen, of {"open", "payload", "save", "unlink"}
    MaxCalls    \* bound: calls a process makes

ASSUME BoundAssumption == MaxCalls \in Nat

\* A lock file: the process that created it, in which of its calls (its inode
\* and, once the payload is written, its pid and createdAt), and whether the
\* payload is there.  Until then a reader finds an empty file.
Lock == [owner : Procs, call : Nat, ready : BOOLEAN]

ASSUME LockAssumption == NoLock \notin Lock

VARIABLES
    doc,      \* the state file
    lock,     \* the lock file
    aged,     \* the payloads whose createdAt is older than the threshold
    pc,       \* where each process is
    snap,     \* the last result of load of each process
    call,     \* the arguments of the call each process has made
    seen,     \* what _load_unlocked returned to it under the lock
    answer,   \* what the call returned or raised
    made,     \* how many calls each process has made
    rmPc,     \* where each remover is
    rmText    \* the lock file it read first

procVars == <<pc, snap, call, seen, answer, made>>
rmVars   == <<rmPc, rmText>>
vars     == <<doc, lock, aged, procVars, rmVars>>

Init ==
    /\ doc = Absent
    /\ lock = NoLock
    /\ aged = {}
    /\ pc = [p \in Procs |-> "idle"]
    /\ snap = [p \in Procs |-> Absent]
    /\ call = [p \in Procs |-> NoCall]
    /\ seen = [p \in Procs |-> Absent]
    /\ answer = [p \in Procs |-> "none"]
    /\ made = [p \in Procs |-> 0]
    /\ rmPc = [r \in Removers |-> "idle"]
    /\ rmText = [r \in Removers |-> NoLock]

-----------------------------------------------------------------------------
(* The callers.  A definition called Mutant... is the one after it with a  *)
(* mistake; nothing uses it, and the run of the property it is named for   *)
(* fails when it takes that definition's place.                            *)

\* The lock file p creates in its current call, before and after its payload.
LockOf(p, ready) == [owner |-> p, call |-> made[p], ready |-> ready]

Goto(p, where) == pc' = [pc EXCEPT ![p] = where]

\* p's call ends with a (it still has to give up the lock it holds, if any).
Answer(p, a, where) == Goto(p, where) /\ answer' = [answer EXCEPT ![p] = a]

\* unlink(missing_ok=True) of whatever is at the lock path; an OSError is
\* swallowed and leaves the file.
UnlinkLock ==
    \/ lock' = NoLock
    \/ "unlink" \in IoFaults /\ lock' = lock

Load(p) ==
    /\ pc[p] = "idle"
    /\ snap' = [snap EXCEPT ![p] = doc]
    /\ UNCHANGED <<doc, lock, aged, pc, call, seen, answer, made, rmVars>>

Begin(p) ==
    /\ pc[p] = "idle"
    /\ made[p] < MaxCalls
    /\ \E c \in CallsFrom(snap[p]) : call' = [call EXCEPT ![p] = c]
    /\ made' = [made EXCEPT ![p] = @ + 1]
    /\ Goto(p, "waiting")
    /\ UNCHANGED <<doc, lock, aged, snap, seen, answer, rmVars>>

MutantAcquireShared(p) ==      \* open("w"): takes over a file that is there
    /\ pc[p] = "waiting"
    /\ lock' = LockOf(p, FALSE)
    /\ Goto(p, "opened")
    /\ UNCHANGED <<doc, aged, snap, call, seen, answer, made, rmVars>>

\* open("x") succeeds.
Acquire(p) ==
    /\ pc[p] = "waiting"
    /\ lock = NoLock
    /\ lock' = LockOf(p, FALSE)
    /\ Goto(p, "opened")
    /\ UNCHANGED <<doc, aged, snap, call, seen, answer, made, rmVars>>

MutantTimeoutSilent(p) ==      \* returns without the lock instead of raising
    /\ pc[p] = "waiting"
    /\ lock # NoLock
    /\ Goto(p, "answered")
    /\ UNCHANGED <<doc, lock, aged, snap, call, seen, answer, made, rmVars>>

MutantTimeoutNever(p) == FALSE \* no deadline

\* open("x") fails once more and the deadline has passed, or it fails with
\* another OSError than FileExistsError.
Timeout(p) ==
    /\ pc[p] = "waiting"
    /\ lock # NoLock \/ "open" \in IoFaults
    /\ Answer(p, "STATE-LOCK-001", "answered")
    /\ UNCHANGED <<doc, lock, aged, snap, call, seen, made, rmVars>>

\* The payload goes to the file p opened, which is at the lock path unless a
\* remover has unlinked it.
WritePayload(p) ==
    /\ pc[p] = "opened"
    /\ lock' = IF lock = LockOf(p, FALSE) THEN LockOf(p, TRUE) ELSE lock
    /\ Goto(p, "locked")
    /\ UNCHANGED <<doc, aged, snap, call, seen, answer, made, rmVars>>

MutantPayloadFaultLeaks(p) ==  \* raises without removing the file
    /\ "payload" \in IoFaults
    /\ pc[p] = "opened"
    /\ Answer(p, "STATE-LOCK-001", "answered")
    /\ UNCHANGED <<doc, lock, aged, snap, call, seen, made, rmVars>>

PayloadFault(p) ==
    /\ "payload" \in IoFaults
    /\ pc[p] = "opened"
    /\ UnlinkLock
    /\ Answer(p, "STATE-LOCK-001", "answered")
    /\ UNCHANGED <<doc, aged, snap, call, seen, made, rmVars>>

LoadLocked(p) ==
    /\ pc[p] = "locked"
    /\ seen' = [seen EXCEPT ![p] = doc]
    /\ Goto(p, "loaded")
    /\ UNCHANGED <<doc, lock, aged, snap, call, answer, made, rmVars>>

\* The call is answered from what was loaded and changes nothing.
Reply(p) ==
    /\ pc[p] = "loaded"
    /\ ~Changes(seen[p], call[p])
    /\ Answer(p, CallAnswer(seen[p], call[p]), "unlocking")
    /\ UNCHANGED <<doc, lock, aged, snap, call, seen, made, rmVars>>

\* os.replace of the temporary file, or unlink of the document: the new
\* revision is computed from what was loaded, not from the file replaced.
Write(p) ==
    /\ pc[p] = "loaded"
    /\ Changes(seen[p], call[p])
    /\ call[p].kind = "delete" => doc.exists
    /\ doc' = CallEffect(seen[p], call[p])
    /\ Answer(p, "ok", "unlocking")
    /\ UNCHANGED <<lock, aged, snap, call, seen, made, rmVars>>

SaveFault(p) ==
    /\ pc[p] = "loaded"
    /\ Changes(seen[p], call[p])
    /\ "save" \in IoFaults \/ (call[p].kind = "delete" /\ ~doc.exists)
    /\ Answer(p, "STATE-SAVE-001", "unlocking")
    /\ UNCHANGED <<doc, lock, aged, snap, call, seen, made, rmVars>>

\* The finally of _lock: it does not look at whose lock file it unlinks.
Release(p) ==
    /\ pc[p] = "unlocking"
    /\ UnlinkLock
    /\ Goto(p, "answered")
    /\ UNCHANGED <<doc, aged, snap, call, seen, answer, made, rmVars>>

\* The locals of the call are gone once it has returned...
Return(p) ==
    /\ pc[p] = "answered"
    /\ Goto(p, "idle")
    /\ call' = [call EXCEPT ![p] = NoCall]
    /\ seen' = [seen EXCEPT ![p] = Absent]
    /\ answer' = [answer EXCEPT ![p] = "none"]
    /\ UNCHANGED <<doc, lock, aged, snap, made, rmVars>>

\* ... and all its memory when a process is killed, at any point of a call.
\* (Outside a call that is the same as making no further one.)
Crash(p) ==
    /\ pc[p] \notin {"idle", "crashed"}
    /\ Goto(p, "crashed")
    /\ snap' = [snap EXCEPT ![p] = Absent]
    /\ call' = [call EXCEPT ![p] = NoCall]
    /\ seen' = [seen EXCEPT ![p] = Absent]
    /\ answer' = [answer EXCEPT ![p] = "none"]
    /\ UNCHANGED <<doc, lock, aged, made, rmVars>>

-----------------------------------------------------------------------------
(* remove_stale_lock.                                                      *)

\* Time passes the stale threshold of the lock file that is there.
Age ==
    /\ lock # NoLock
    /\ lock.ready
    /\ lock \notin aged
    /\ aged' = aged \cup {lock}
    /\ UNCHANGED <<doc, lock, procVars, rmVars>>

MutantRecoverableByAge(t) == t.ready /\ t \in aged      \* no look at the pid

MutantRecoverableYoung(t) ==   \* the threshold compared the wrong way round
    t.ready /\ pc[t.owner] = "crashed" /\ t \notin aged

\* Status "recoverable": the text names a pid, that process is gone, and its
\* createdAt is old enough.  The text is t, read earlier; the pid is looked
\* up now.
Recoverable(t) == t.ready /\ pc[t.owner] = "crashed" /\ t \in aged

RmGoto(r, where, text) ==
    /\ rmPc' = [rmPc EXCEPT ![r] = where]
    /\ rmText' = [rmText EXCEPT ![r] = text]

RmRead(r) ==
    /\ rmPc[r] = "idle"
    /\ lock # NoLock
    /\ RmGoto(r, "judge", lock)
    /\ UNCHANGED <<doc, lock, aged, procVars>>

RmJudge(r) ==
    /\ rmPc[r] = "judge"
    /\ IF Recoverable(rmText[r])
       THEN RmGoto(r, "reread", rmText[r])
       ELSE RmGoto(r, "idle", NoLock)
    /\ UNCHANGED <<doc, lock, aged, procVars>>

RmReread(r) ==
    /\ rmPc[r] = "reread"
    /\ IF lock = rmText[r]
       THEN RmGoto(r, "unlink", rmText[r])
       ELSE RmGoto(r, "idle", NoLock)
    /\ UNCHANGED <<doc, lock, aged, procVars>>

\* Unlinks what is at the lock path by now.
RmUnlink(r) ==
    /\ rmPc[r] = "unlink"
    /\ lock' = NoLock
    /\ RmGoto(r, "idle", NoLock)
    /\ UNCHANGED <<doc, aged, procVars>>

-----------------------------------------------------------------------------
Step(p) ==
    \/ Acquire(p) \/ Timeout(p) \/ WritePayload(p) \/ PayloadFault(p)
    \/ LoadLocked(p) \/ Reply(p) \/ Write(p) \/ SaveFault(p)
    \/ Release(p) \/ Return(p)

RmStep(r) == RmRead(r) \/ RmJudge(r) \/ RmReread(r) \/ RmUnlink(r)

Next ==
    \/ \E p \in Procs : Load(p) \/ Begin(p) \/ Step(p) \/ Crash(p)
    \/ Age
    \/ \E r \in Removers : RmStep(r)

Spec == Init /\ [][Next]_vars

\* A process that is running goes on (the wait for the lock has a deadline),
\* time passes, and whoever runs the cleanup runs it again.
FairSpec ==
    /\ Spec
    /\ \A p \in Procs : WF_vars(Step(p))
    /\ WF_vars(Age)
    /\ \A r \in Removers : WF_vars(RmStep(r))

-----------------------------------------------------------------------------
(* Properties.                                                             *)

TypeOK ==
    /\ doc \in Doc
    /\ lock \in Lock \cup {NoLock}
    /\ aged \subseteq Lock
    /\ pc \in [Procs -> {"idle", "waiting", "opened", "locked", "loaded",
                         "unlocking", "answered", "crashed"}]
    /\ snap \in [Procs -> Doc]
    /\ call \in [Procs -> Call \cup {NoCall}]
    /\ \A p \in Procs : pc[p] \notin {"idle", "crashed"} => call[p] \in Call
    /\ seen \in [Procs -> Doc]
    /\ answer \in [Procs -> Answers \cup {"none"}]
    /\ \A p \in Procs : pc[p] \in {"unlocking", "answered"} => answer[p] # "none"
    /\ made \in [Procs -> Nat]
    /\ rmPc \in [Removers -> {"idle", "judge", "reread", "unlink"}]
    /\ rmText \in [Removers -> Lock \cup {NoLock}]
    /\ \A r \in Removers : rmPc[r] # "idle" => rmText[r] \in Lock

InSection(p) == pc[p] \in {"opened", "locked", "loaded", "unlocking"}

\* Two running processes are never both between creating the lock file and
\* removing it, whatever crashes, timeouts and stale lock cleanups happen in
\* between.
MutualExclusion ==
    \A p, q \in Procs : InSection(p) /\ InSection(q) => p = q

\* The document a process loaded under the lock is still the document when it
\* decides on it: nobody wrote between _load_unlocked and _atomic_write.
LoadedIsCurrent ==
    \A p \in Procs : pc[p] = "loaded" => seen[p] = doc

\* Why they hold: a process inside the lock created the lock file that is there
\* (strengthening of MutualExclusion)...
HolderOwnsLock ==
    \A p \in Procs : InSection(p) => lock = LockOf(p, pc[p] # "opened")

\* ... and a cleanup that has come to its unlink finds there the lock file it
\* judged, whose owner is gone and cannot remove it.
CleanupTargetsDead ==
    \A r \in Removers :
        /\ rmPc[r] \in {"reread", "unlink"} => pc[rmText[r].owner] = "crashed"
        /\ rmPc[r] = "unlink" => lock = rmText[r]

IInv == TypeOK /\ HolderOwnsLock /\ CleanupTargetsDead /\ LoadedIsCurrent

\* remove_stale_lock is not run twice at the same time.
OneRemover == \A r, s \in Removers : r = s

\* A running process that is not inside the lock has left no lock file behind,
\* on any path through the error handlers of _lock, replace and delete.
NoOrphanLock ==
    lock # NoLock => pc[lock.owner] = "crashed" \/ InSection(lock.owner)

\* A write or delete that gave the revision its caller had loaded takes the
\* place of exactly the document that caller had loaded: no write of another
\* process in between is lost.
NoLostUpdate ==
    [][\A p \in Procs :
         doc' # doc /\ pc[p] = "loaded" /\ pc'[p] = "unlocking"
         /\ call[p].expected # AnyRevision => snap[p] = doc]_vars

\* Why it holds when documents are only replaced: revisions grow, so a snapshot
\* with the revision of the document is the document (strengthening).
RevisionsIdentify ==
    /\ doc.rev = 0 => doc = Absent
    /\ \A p \in Procs :
        /\ snap[p].rev <= doc.rev
        /\ snap[p].rev = doc.rev => snap[p] = doc
        /\ pc[p] \notin {"idle", "crashed"} =>
               call[p].kind = "replace" /\ call[p].expected \in {snap[p].rev, AnyRevision}

ReplaceOnly == Kinds \subseteq {"replace"}

\* Every call is answered, also when the lock file of a dead process is never
\* cleaned up.
EveryCallReturns ==
    \A p \in Procs : pc[p] = "waiting" ~> pc[p] \in {"answered", "crashed"}

\* The lock file a process left when it was killed is removed in the end, once
\* its payload was written.
StaleLockCleared ==
    \A p \in Procs :
        (lock # NoLock /\ lock.ready /\ lock.owner = p /\ pc[p] = "crashed")
            ~> (lock = NoLock \/ lock.owner # p)

\* The lock protocol implements the atomic compare-and-swap document.
StatusOf(where) ==
    CASE where = "idle" -> "idle"
      [] where \in {"waiting", "opened", "locked", "loaded"} -> "called"
      [] where \in {"unlocking", "answered"} -> "answered"
      [] where = "crashed" -> "down"

Register == INSTANCE CasRegister WITH
    status <- [p \in Procs |-> StatusOf(pc[p])]

ImplementsRegister == Register!RegSpec
=============================================================================
