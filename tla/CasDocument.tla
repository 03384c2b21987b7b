----------------------------- MODULE CasDocument -----------------------------
(***************************************************************************)
(* One JSON state document and the calls infra/storage/state_store.py      *)
(* makes on it: what StateStore.replace and StateStore.delete answer, and  *)
(* what they leave in the file, as a function of the document found.       *)
(***************************************************************************)
EXTENDS Naturals

CONSTANTS
    Procs,        \* callers: one process id each, a restart is a new caller
    Ops,          \* operation ids
    Values,       \* payloads of the document (the JSON without "_state")
    NoOp,         \* the operation id of a document that has none
    NoValue,      \* the payload of a missing document
    AnyRevision,  \* expected_revision=None
    NoCall,       \* a process that has made no call yet
    Kinds,        \* the calls made, a subset of {"replace", "delete"}
    Blind         \* TRUE when callers may also pass expected_revision=None

ASSUME SentinelAssumption ==
    NoOp \notin Ops /\ NoValue \notin Values /\ AnyRevision \notin Nat

ASSUME CallAssumption == Kinds \subseteq {"replace", "delete"} /\ Blind \in BOOLEAN

Doc == [exists : BOOLEAN, rev : Nat, op : Ops \cup {NoOp},
        data : Values \cup {NoValue}]

\* What _load_unlocked returns for a missing file.
Absent == [exists |-> FALSE, rev |-> 0, op |-> NoOp, data |-> NoValue]

Call == [kind : {"replace", "delete"}, op : Ops, data : Values,
         expected : Nat \cup {AnyRevision}]

\* The calls of a caller whose last snapshot is s.
CallsFrom(s) ==
    [kind : Kinds, op : Ops, data : Values,
     expected : {s.rev} \cup (IF Blind THEN {AnyRevision} ELSE {})]

Answers == {"ok", "false", "STATE-CONFLICT-001", "STATE-IDEMPOTENCY-001",
            "STATE-LOCK-001", "STATE-SAVE-001"}

\* The operation id is checked before the revision: a repeated replace is
\* answered from the document its first call left.
Replay(d, c) == c.kind = "replace" /\ d.op = c.op

MutantStaleNever(d, c) == FALSE     \* no revision check

Stale(d, c) == c.expected # AnyRevision /\ d.rev # c.expected

CallAnswer(d, c) ==
    IF Replay(d, c)
    THEN IF d.data = c.data THEN "ok" ELSE "STATE-IDEMPOTENCY-001"
    ELSE IF c.kind = "delete" /\ ~d.exists THEN "false"
    ELSE IF Stale(d, c) THEN "STATE-CONFLICT-001"
    ELSE "ok"

\* The call changes the document (a replay is answered "ok" and does not).
Changes(d, c) == CallAnswer(d, c) = "ok" /\ ~Replay(d, c)

CallEffect(d, c) ==
    IF c.kind = "delete"
    THEN Absent
    ELSE [exists |-> TRUE, rev |-> d.rev + 1, op |-> c.op, data |-> c.data]
=============================================================================
