---------------------------- MODULE MCUnitOfWork ----------------------------
(* Small instances of UnitOfWork for TLC. *)
EXTENDS UnitOfWork, TLC

R(f) == [file |-> f, kind |-> "replace"]

CONSTANTS f1, f2

\* The shape of task_tree.link and WorkflowRuntime.bind, next to single writes
\* of each document.
LinkPlan == <<<<R(f1), R(f2)>>, <<R(f1)>>, <<R(f2)>>>>

\* One process at a time, two of them killed between store calls; or a recovery
\* and one write beside the unit, and a kill anywhere.
SerialOrNot ==
    {[serial |-> TRUE, writers |-> {2, 3}, crashes |-> 2, lockDeaths |-> 0, timeouts |-> 0],
     [serial |-> FALSE, writers |-> {3}, crashes |-> 1, lockDeaths |-> 1, timeouts |-> 0]}
=============================================================================
