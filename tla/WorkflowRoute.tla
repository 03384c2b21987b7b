----------------------------- MODULE WorkflowRoute -----------------------------
(***************************************************************************)
(* kernel/workflow_route.py, kernel/task_state.py and what                 *)
(* services/task_routing.py adds to them: which action a task of a status  *)
(* is given for an intent, and whether `task next --run` may run it.  Pure *)
(* operators; blockers are a set of reasons.                               *)
(***************************************************************************)
EXTENDS FiniteSets

CheckStatuses == {"review"}
DoneStatuses  == {"completed", "done"}

\* ALLOWED_TRANSITIONS
AllowedTransitions ==
    {<<"planning", "in_progress">>, <<"in_progress", "review">>, <<"review", "completed">>}

\* transition_blockers
TransitionAllowed(from, to) == from = to \/ <<from, to>> \in AllowedTransitions

UserIntents == {"question", "clarify", "plan", "implement", "archive", "review",
                "doubt_review", "debug", "discuss", "batch"}

\* INTENT_OPERATIONS
IntentOperations ==
    [question     |-> {"answer_questions"},
     clarify      |-> {"edit_planning_artifacts"},
     plan         |-> {"edit_planning_artifacts"},
     implement    |-> {"implement_change", "execute_delegated_work", "start_task"},
     archive      |-> {"archive_task"},
     review       |-> {"request_review", "complete_task"},
     doubt_review |-> {"doubt_review"},
     debug        |-> {"debug_failure"},
     discuss      |-> {"discuss_options"},
     batch        |-> {"batch_execute"}]

\* ACTION_TRANSITIONS: the actions that change state.
MutatingActions == {"batch_execute", "create_task", "start_task", "request_review",
                    "complete_task", "archive_task"}

Talk == {"answer_questions", "debug_failure", "discuss_options"}

KnownStatuses ==
    {"no_task", "planning", "in_progress", "delegated_subtask"} \cup CheckStatuses \cup DoneStatuses

MainOperations(status, blockers) ==
    Talk \cup {"doubt_review"} \cup
    CASE status = "no_task"           -> {"create_task", "edit_planning_artifacts"}
      [] status = "planning"          -> {"edit_planning_artifacts"} \cup
                                         (IF blockers = {} THEN {"start_task", "batch_execute"} ELSE {})
      [] status = "in_progress"       -> {"implement_change", "request_review", "batch_execute"}
      [] status \in CheckStatuses     -> {"complete_task"}
      [] status \in DoneStatuses      -> {"archive_task", "create_task"}
      [] status = "delegated_subtask" -> {"execute_delegated_work"}
      [] status \notin KnownStatuses  -> {"repair_workflow_state"}

Foreign(status, context) == context = "delegated" /\ status # "delegated_subtask"

AllowedOperations(status, context, blockers) ==
    IF Foreign(status, context) THEN Talk ELSE MainOperations(status, blockers)

\* _action_id: an intent that has an action of its own, or the status decides.
IntentAction ==
    [question |-> "answer_questions", debug |-> "debug_failure", discuss |-> "discuss_options",
     doubt_review |-> "doubt_review", batch |-> "batch_execute"]

StatusAction(status, intent, blockers) ==
    CASE status = "no_task"           -> "create_task"
      [] status = "planning"          -> IF blockers = {} THEN "start_task"
                                         ELSE "edit_planning_artifacts"
      [] status = "in_progress"       -> IF intent = "review" THEN "request_review"
                                         ELSE "implement_change"
      [] status \in CheckStatuses     -> "complete_task"
      [] status \in DoneStatuses      -> "archive_task"
      [] status = "delegated_subtask" -> "execute_delegated_work"
      [] status \notin KnownStatuses  -> "repair_workflow_state"

ActionId(status, intent, blockers) ==
    IF intent \in DOMAIN IntentAction THEN IntentAction[intent]
    ELSE StatusAction(status, intent, blockers)

\* _resolve_route: what is added to the blockers of the task.
RouteBlockers(status, intent, context, blockers) ==
    blockers
    \cup (IF Foreign(status, context) THEN {"delegated"} ELSE {})
    \cup (IF IntentOperations[intent] \cap AllowedOperations(status, context, blockers) = {}
          THEN {"intent"} ELSE {})

\* _action_contract of both modules; owned: the action has a skill that owns
\* it and agrees with the kernel on what it does.
Route(status, intent, context, blockers, owned) ==
    LET all == RouteBlockers(status, intent, context, blockers)
        id  == ActionId(status, intent, all)
        needs == id \notin {"answer_questions", "discuss_options"}
    IN [id |-> id, runnable |-> id \in MutatingActions /\ all = {} /\ (needs => owned)]

=============================================================================
