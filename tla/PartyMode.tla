------------------------------- MODULE PartyMode -------------------------------
(***************************************************************************)
(* skills/party-mode/scripts: a discussion among agents, held on a board   *)
(* on disk.  The moderator's commands (init, advance, finalize), those of  *)
(* the agents (post, respond) and the results the host records for the     *)
(* actions it was told to take each run under the state lock, load the     *)
(* files, and write those they change one after another: a command that is *)
(* killed or fails between two writes leaves the rest unwritten.           *)
(*                                                                         *)
(* A post is its author, a response its author, its target and whether it  *)
(* still disagrees; that their texts are there is validated by the code    *)
(* and taken for granted here.  public_round.json, the prompts, the audit  *)
(* log and the action history only repeat what the board says, and are     *)
(* left out; monitor, which reads without the lock, changes nothing.       *)
(***************************************************************************)
EXTENDS Integers, Sequences, FiniteSets

CONSTANTS
    Agents,       \* the agents of the discussion
    MaxRounds,    \* max_rounds of the configuration
    MaxTargets,   \* max_rebuttal_targets_per_agent
    Fresh,        \* fresh_context_per_round
    Supported,    \* the host can take the actions of a board
    MaxLag,       \* bound: lists of actions the host is behind at an advance
    MaxInits,     \* bound: calls of init
    MaxFailures,  \* bound: actions of the host that fail
    MaxStops      \* bound: commands stopped between two writes

ASSUME BoundAssumption ==
    {MaxRounds, MaxTargets, MaxLag, MaxInits, MaxFailures, MaxStops} \subseteq Nat

ASSUME ConfigAssumption == Fresh \in BOOLEAN /\ Supported \in BOOLEAN /\ MaxRounds > 0

VARIABLES
    board,     \* board.json
    status,    \* agents.json: the status of each agent
    actions,   \* actions.json: the actions for the host
    report,    \* reports/final.json
    writes,    \* what the command that holds the lock has yet to write
    due,       \* the actions the host was given and has no result of, in order
    inits, failures, stops,   \* spent bounds
    late,      \* history: a result was recorded out of order, or a failure
    alone,     \* history: an advance counted only some of the agents
    hushed     \* history: an advance out of respond counted no agent at all

bounds == <<inits, failures, stops>>
history == <<late, alone, hushed>>
vars == <<board, status, actions, report, writes, due, bounds, history>>

-----------------------------------------------------------------------------
NoBoard  == [phase |-> "none"]
NoReport == [reason |-> "none"]

EmptyRound == [posts |-> {}, responses |-> {}]

\* initial_board
NewBoard ==
    [phase |-> "publish", round |-> 1, rounds |-> <<EmptyRound>>, reason |-> "none"]

\* current_round
Current == board.rounds[board.round]

Active == {a \in Agents : status[a] \in {"pending", "active"}}

\* build_final_report: what the board says when it is built.
ReportOf(b) == [reason |-> b.reason, round |-> b.round, rounds |-> b.rounds]

\* child_action, close_actions, fallback_actions_document
Dispatches(round, phase, agents) ==
    IF ~Supported THEN {} ELSE [type : {"dispatch"}, agent : agents, round : {round}, phase : {phase}]

Closings(round, agents) == [type : {"close"}, agent : agents, round : {round}]

ActionsFor(round, phase, closing) ==
    [round |-> round, phase |-> phase,
     first |-> closing, then |-> Dispatches(round, phase, Active)]

NoActions == [round |-> 0, phase |-> "none", first |-> {}, then |-> {}]

\* _state_lock: a command starts when no other is between its writes.
Free == writes = <<>>

Issue(doc) == SelectSeq(<<doc.first, doc.then>>, LAMBDA s : s # {})

WriteBoard(b)   == [file |-> "board", board |-> b]
WriteAgents(s)  == [file |-> "agents", status |-> s]
WriteActions(d) == [file |-> "actions", actions |-> d]
WriteReport(b)  == [file |-> "report", report |-> ReportOf(b)]

Everyone(s) == [a \in Agents |-> s]

\* save_board, write_json: one replaced file.  The host takes up the actions
\* when they are there to read.
Put(w) ==
    /\ board' = IF w.file = "board" THEN w.board ELSE board
    /\ status' = IF w.file = "agents" THEN w.status ELSE status
    /\ actions' = IF w.file = "actions" THEN w.actions ELSE actions
    /\ report' = IF w.file = "report" THEN w.report ELSE report

\* The files a command replaces, in the order it does: the first of them now.
Change(files) == Put(Head(files)) /\ writes' = Tail(files)

-----------------------------------------------------------------------------
(* Commands of the moderator.                                              *)

\* init_discussion: whether or not the discussion is there.
InitDiscussion ==
    /\ Free
    /\ inits < MaxInits
    /\ Change(<<WriteBoard(NewBoard), WriteAgents(Everyone("pending")),
                WriteActions([round |-> 1, phase |-> "publish", first |-> {},
                              then |-> Dispatches(1, "publish", Agents)])>>)
    /\ inits' = inits + 1
    /\ UNCHANGED <<due, failures, stops, history>>

\* _close_discussion and the finalize it ends with.
Closing(b) ==
    <<WriteBoard(b), WriteActions(NoActions), WriteAgents(Everyone("closed")), WriteReport(b)>>

\* _advance_publish_phase
AdvancePublish ==
    /\ Free /\ Len(due) <= MaxLag
    /\ board.phase = "publish"
    /\ Active \subseteq Current.posts
    /\ LET b == [board EXCEPT !.phase = "respond"] IN
       Change(<<WriteBoard(b), WriteActions(ActionsFor(b.round, "respond", {}))>>)
    /\ alone' = (alone \/ Active # Agents)
    /\ UNCHANGED <<due, bounds, late, hushed>>

Voices == {r.by : r \in Current.responses}

Unresolved == {r \in Current.responses : r.disagrees}

MutantSettled == Voices # {} /\ (\E r \in Current.responses : ~r.disagrees)

\* No response of the round still disagrees; so it is when there is none.
Settled == Unresolved = {}

\* advance_board_state out of respond, _advance_respond_phase
AdvanceRespond ==
    /\ Free /\ Len(due) <= MaxLag
    /\ board.phase = "respond"
    /\ Active \subseteq Voices
    /\ LET next == board.round + 1
           onward == [board EXCEPT !.phase = "publish", !.round = next,
                                   !.rounds = Append(@, EmptyRound)]
           closed(reason) == [board EXCEPT !.phase = "closed", !.reason = reason]
       IN  Change(CASE Settled -> Closing(closed("converged"))
                    [] ~Settled /\ board.round >= MaxRounds ->
                         Closing(closed("max_rounds_unconverged"))
                    [] OTHER ->
                         <<WriteBoard(onward),
                           WriteActions(ActionsFor(next, "publish",
                               IF Fresh THEN Closings(board.round, Active) ELSE {}))>>)
    /\ alone' = (alone \/ Active # Agents)
    /\ hushed' = (hushed \/ Active = {})
    /\ UNCHANGED <<due, bounds, late>>

MutantFinalize(manual) ==            \* reports on a discussion that goes on
    /\ Free
    /\ board # NoBoard
    /\ Change(<<WriteReport(board)>>)
    /\ UNCHANGED <<due, bounds, history>>

\* finalize_discussion
Finalize(manual) ==
    /\ Free
    /\ board # NoBoard
    /\ IF board.phase = "closed"
       THEN Change(<<WriteAgents(Everyone("closed")), WriteReport(board)>>)
       ELSE /\ manual
            /\ Change(Closing([board EXCEPT !.phase = "closed",
                                            !.reason = "manual_terminated"]))
    /\ UNCHANGED <<due, bounds, history>>

-----------------------------------------------------------------------------
(* Commands of the agents.                                                 *)

\* post_submission
Post(a) ==
    /\ Free
    /\ board.phase = "publish"
    /\ a \in Active
    /\ a \notin Current.posts
    /\ Change(<<WriteBoard([board EXCEPT !.rounds[board.round].posts = @ \cup {a}])>>)
    /\ UNCHANGED <<due, bounds, history>>

MutantMayTarget(a, target) ==        \* the limit is off by one
    LET mine == {r.to : r \in {x \in Current.responses : x.by = a}} IN
    /\ target \in Current.posts \ {a}
    /\ Cardinality(mine) + 1 < MaxTargets

\* _response_target_and_decision, _validate_response_target_limit
MayTarget(a, target) ==
    LET mine == {r.to : r \in {x \in Current.responses : x.by = a}} IN
    /\ target \in Current.posts \ {a}
    /\ target \notin mine
    /\ Cardinality(mine) < MaxTargets

\* respond_submission: maintain disagrees, concede does not, revise says so.
Respond(a, target, disagrees) ==
    /\ Free
    /\ board.phase = "respond"
    /\ a \in Active
    /\ MayTarget(a, target)
    /\ Change(<<WriteBoard([board EXCEPT !.rounds[board.round].responses =
            @ \cup {[by |-> a, to |-> target, disagrees |-> disagrees]}])>>)
    /\ UNCHANGED <<due, bounds, history>>

-----------------------------------------------------------------------------
(* The host.                                                               *)

\* _default_agent_status
StatusAfter(action, well) ==
    IF ~well THEN "failed" ELSE IF action.type = "close" THEN "closed" ELSE "active"

\* record_action_result, for any action the host was given: nothing asks
\* whether it is of this round, nor whether an earlier one has its result.
RecordResult(i, action, well) ==
    /\ Free
    /\ i \in DOMAIN due /\ action \in due[i]
    /\ well \/ failures < MaxFailures
    /\ Change(<<WriteAgents([status EXCEPT ![action.agent] = StatusAfter(action, well)])>>)
    /\ due' = SelectSeq([due EXCEPT ![i] = @ \ {action}], LAMBDA s : s # {})
    /\ failures' = IF well THEN failures ELSE failures + 1
    /\ late' = (late \/ ~well \/ i > 1)
    /\ UNCHANGED <<inits, stops, alone, hushed>>

-----------------------------------------------------------------------------
(* The rest of the files of a command.                                     *)

Write ==
    /\ writes # <<>>
    /\ Change(writes)
    /\ due' = IF Head(writes).file = "actions" THEN due \o Issue(Head(writes).actions) ELSE due
    /\ UNCHANGED <<bounds, history>>

\* The process ends or a write fails: the lock goes, the other files stay.
Stop ==
    /\ writes # <<>>
    /\ stops < MaxStops
    /\ writes' = <<>>
    /\ stops' = stops + 1
    /\ UNCHANGED <<board, status, actions, report, due, inits, failures, history>>

-----------------------------------------------------------------------------
Init ==
    /\ board = NoBoard /\ status = Everyone("closed")
    /\ actions = NoActions /\ report = NoReport
    /\ writes = <<>> /\ due = <<>>
    /\ inits = 0 /\ failures = 0 /\ stops = 0
    /\ late = FALSE /\ alone = FALSE /\ hushed = FALSE

Answer(a) ==
    \E target \in Agents, disagrees \in BOOLEAN : Respond(a, target, disagrees)

Record == \E i \in DOMAIN due : \E action \in due[i] : \E well \in BOOLEAN :
              RecordResult(i, action, well)

\* An agent that has not spoken in the phase does.
Speak(a) == Post(a) \/ (Answer(a) /\ a \notin Voices)

Advance == AdvancePublish \/ AdvanceRespond

Next ==
    \/ InitDiscussion \/ Advance
    \/ \E manual \in BOOLEAN : Finalize(manual)
    \/ \E a \in Agents : Post(a) \/ Answer(a)
    \/ Record
    \/ Write \/ Stop

Spec == Init /\ [][Next]_vars

\* The first waiting action of the host gets its result.
RecordNext ==
    due # <<>> /\ \E action \in Head(due) : RecordResult(1, action, TRUE)

\* A command that holds the lock goes on, the host works through its actions,
\* an agent that may post or respond does so and the moderator advances when it
\* may.  No fairness of the lock is needed: nothing takes it for ever.
Fairness ==
    /\ WF_vars(Write) /\ WF_vars(RecordNext) /\ WF_vars(Advance)
    /\ \A a \in Agents : WF_vars(Speak(a))

FairSpec == Spec /\ Fairness

-----------------------------------------------------------------------------
(* Properties.                                                             *)

Response == [by : Agents, to : Agents, disagrees : BOOLEAN]

Round == [posts : SUBSET Agents, responses : SUBSET Response]

Reasons == {"none", "converged", "max_rounds_unconverged", "manual_terminated"}

Board == [phase : {"publish", "respond", "closed"}, round : Nat, rounds : Seq(Round),
          reason : Reasons]

Report == [reason : Reasons, round : Nat, rounds : Seq(Round)]

Statuses == {"pending", "active", "closed", "failed"}

Action == [type : {"dispatch"}, agent : Agents, round : Nat, phase : {"publish", "respond"}]
          \cup [type : {"close"}, agent : Agents, round : Nat]

ActionList == [round : Nat, phase : {"none", "publish", "respond"},
               first : SUBSET Action, then : SUBSET Action]

FileWrite == [file : {"board"}, board : Board] \cup [file : {"agents"}, status : [Agents -> Statuses]]
             \cup [file : {"actions"}, actions : ActionList] \cup [file : {"report"}, report : Report]

\* The types of the files and of what a command has yet to write; the round of
\* a board is the last one it has.
TypeOK ==
    /\ board \in Board \cup {NoBoard}
    /\ board # NoBoard => board.round = Len(board.rounds) /\ board.round > 0
    /\ status \in [Agents -> Statuses]
    /\ actions \in ActionList
    /\ report \in Report \cup {NoReport}
    /\ writes \in Seq(FileWrite)
    /\ inits \in 0..MaxInits /\ failures \in 0..MaxFailures /\ stops \in 0..MaxStops
    /\ late \in BOOLEAN /\ alone \in BOOLEAN /\ hushed \in BOOLEAN

\* A discussion that is said to have converged ended with a round in which
\* somebody answered and nobody still disagreed.  The one exception is an
\* advance that found no agent active: failed or closed agents are not asked,
\* and a round without a response has no disagreement in it.
ConvergedHasVoices ==
    board.phase = "closed" /\ board.reason = "converged" /\ ~hushed =>
        Voices # {} /\ Unresolved = {}

\* The final report is of the board as it stands: nothing is said after it,
\* and a discussion that is closed has it, unless a command was stopped half
\* way or the discussion was begun again.
ReportIsFaithful ==
    Free /\ stops = 0 /\ inits = 1 =>
        IF board # NoBoard /\ board.phase = "closed" THEN report = ReportOf(board)
        ELSE report = NoReport

\* A discussion ends, with its report, when its agents answer and its
\* moderator advances, unless the host fails at an action or records results
\* out of order, an advance leaves agents out (the one agent left cannot
\* respond to its own post), or a command is stopped half way.
Concludes ==
    (board # NoBoard) ~> (report # NoReport \/ late \/ alone \/ stops > 0)
=============================================================================
