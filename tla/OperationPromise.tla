-------------------------- MODULE OperationPromise --------------------------
(***************************************************************************)
(* What a Unit of Work operation promises, without stores, logs, processes *)
(* and crashes: once it is on record it carries out and undoes its         *)
(* participants until it is decided, it is only committed when every one   *)
(* is done, and nothing is done or undone after the decision.              *)
(***************************************************************************)
CONSTANTS
    Ops,      \* operations
    Parts     \* the participants of each

VARIABLES
    outcome,  \* of each operation: "none", "open", "committed" or "conflicted"
    done      \* its participants that are done and not undone

promiseVars == <<outcome, done>>

PromiseInit ==
    /\ outcome = [o \in Ops |-> "none"]
    /\ done = [o \in Ops |-> {}]

Decide(o, from, to) ==
    /\ outcome[o] = from
    /\ outcome' = [outcome EXCEPT ![o] = to]
    /\ UNCHANGED done

Open(o) == Decide(o, "none", "open")

Carry(o, i) ==
    /\ outcome[o] = "open"
    /\ done' = [done EXCEPT ![o] = @ \cup {i}]
    /\ UNCHANGED outcome

TakeBack(o, i) ==
    /\ outcome[o] = "open"
    /\ done' = [done EXCEPT ![o] = @ \ {i}]
    /\ UNCHANGED outcome

Commit(o) == done[o] = Parts[o] /\ Decide(o, "open", "committed")

Conflict(o) == Decide(o, "open", "conflicted")

PromiseNext == \E o \in Ops :
    \/ Open(o) \/ Commit(o) \/ Conflict(o)
    \/ \E i \in Parts[o] : Carry(o, i) \/ TakeBack(o, i)

PromiseSpec == PromiseInit /\ [][PromiseNext]_promiseVars
=============================================================================
