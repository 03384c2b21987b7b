----------------------------- MODULE CasRegister -----------------------------
(***************************************************************************)
(* What infra/storage/state_store.py promises its callers about one        *)
(* document: every replace and delete takes effect at a single instant     *)
(* between its call and its answer, is judged by the document of that      *)
(* instant, and changes nothing when it is refused or its caller dies      *)
(* first.  No lock file appears here: StateStore.tla implements this       *)
(* specification with one.                                                 *)
(***************************************************************************)
EXTENDS CasDocument

VARIABLES
    doc,      \* the document
    status,   \* of each caller: "idle", "called", "answered" or "down"
    snap,     \* the document each caller loaded last
    call,     \* the call each caller has made
    answer    \* the answer to that call

regVars == <<doc, status, snap, call, answer>>

RegInit ==
    /\ doc = Absent
    /\ status = [p \in Procs |-> "idle"]
    /\ snap = [p \in Procs |-> Absent]
    /\ call = [p \in Procs |-> NoCall]
    /\ answer = [p \in Procs |-> "none"]

Read(p) ==
    /\ status[p] = "idle"
    /\ snap' = [snap EXCEPT ![p] = doc]
    /\ UNCHANGED <<doc, status, call, answer>>

Invoke(p) ==
    /\ status[p] = "idle"
    /\ \E c \in CallsFrom(snap[p]) : call' = [call EXCEPT ![p] = c]
    /\ status' = [status EXCEPT ![p] = "called"]
    /\ UNCHANGED <<doc, snap, answer>>

\* The instant at which the call takes effect.
Perform(p) ==
    /\ status[p] = "called"
    /\ status' = [status EXCEPT ![p] = "answered"]
    /\ answer' = [answer EXCEPT ![p] = CallAnswer(doc, call[p])]
    /\ doc' = IF Changes(doc, call[p]) THEN CallEffect(doc, call[p]) ELSE doc
    /\ UNCHANGED <<snap, call>>

\* No lock within the timeout, or the file system refused the write.
Refuse(p) ==
    /\ status[p] = "called"
    /\ status' = [status EXCEPT ![p] = "answered"]
    /\ \E a \in {"STATE-LOCK-001", "STATE-SAVE-001"} :
           answer' = [answer EXCEPT ![p] = a]
    /\ UNCHANGED <<doc, snap, call>>

Forget(p) ==
    /\ call' = [call EXCEPT ![p] = NoCall]
    /\ answer' = [answer EXCEPT ![p] = "none"]

Return(p) ==
    /\ status[p] = "answered"
    /\ status' = [status EXCEPT ![p] = "idle"]
    /\ Forget(p)
    /\ UNCHANGED <<doc, snap>>

Stop(p) ==
    /\ status[p] \in {"called", "answered"}
    /\ status' = [status EXCEPT ![p] = "down"]
    /\ snap' = [snap EXCEPT ![p] = Absent]
    /\ Forget(p)
    /\ UNCHANGED doc

RegNext == \E p \in Procs :
    Read(p) \/ Invoke(p) \/ Perform(p) \/ Refuse(p) \/ Return(p) \/ Stop(p)

RegSpec == RegInit /\ [][RegNext]_regVars
=============================================================================
