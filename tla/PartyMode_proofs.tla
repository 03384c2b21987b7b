--------------------------- MODULE PartyMode_proofs ---------------------------
(***************************************************************************)
(* Proofs about PartyMode: its type invariant, that a discussion which is  *)
(* said to have converged ended with voices and no disagreement, and that  *)
(* the final report is the board it was built from.                        *)
(***************************************************************************)
EXTENDS PartyMode, SequenceTheorems, TLAPS

-----------------------------------------------------------------------------
(* The files of a command, written one after another.                      *)

\* A command's first file is written now, the others are still to come.
LEMMA ChangeOne ==
    ASSUME NEW a, Change(<<a>>) PROVE Put(a) /\ writes' = <<>>
  BY DEF Change

LEMMA ChangeTwo ==
    ASSUME NEW a, NEW b, Change(<<a, b>>) PROVE Put(a) /\ writes' = <<b>>
  BY DEF Change

LEMMA ChangeThree ==
    ASSUME NEW a, NEW b, NEW c, Change(<<a, b, c>>) PROVE Put(a) /\ writes' = <<b, c>>
  BY DEF Change

LEMMA ChangeFour ==
    ASSUME NEW a, NEW b, NEW c, NEW d, Change(<<a, b, c, d>>)
    PROVE  Put(a) /\ writes' = <<b, c, d>>
  BY DEF Change

\* What writing one file does.
LEMMA PutBoard ==
    ASSUME NEW b, Put(WriteBoard(b))
    PROVE  board' = b /\ UNCHANGED <<status, actions, report>>
  BY DEF Put, WriteBoard

LEMMA PutAgents ==
    ASSUME NEW s, Put(WriteAgents(s))
    PROVE  status' = s /\ UNCHANGED <<board, actions, report>>
  BY DEF Put, WriteAgents

LEMMA PutReport ==
    ASSUME NEW b, Put(WriteReport(b))
    PROVE  report' = ReportOf(b) /\ UNCHANGED <<board, status, actions>>
  BY DEF Put, WriteReport

\* Their types.
LEMMA WriteTypes ==
    /\ \A b \in Board : WriteBoard(b) \in FileWrite /\ WriteBoard(b).file = "board"
    /\ \A s \in [Agents -> Statuses] : WriteAgents(s) \in FileWrite /\ WriteAgents(s).file = "agents"
    /\ \A d \in ActionList : WriteActions(d) \in FileWrite /\ WriteActions(d).file = "actions"
    /\ \A b \in Board : /\ WriteReport(b) \in FileWrite /\ WriteReport(b).file = "report"
                        /\ WriteReport(b).report = ReportOf(b) /\ ReportOf(b) \in Report
<1>1. \A b \in Board : ReportOf(b) \in Report
  BY DEF Board, Report, ReportOf
<1>2. QED
  BY <1>1 DEF WriteBoard, WriteAgents, WriteActions, WriteReport, FileWrite

\* A written file is well typed.
LEMMA PutType ==
    ASSUME NEW w \in FileWrite, Put(w),
           board \in Board \cup {NoBoard}, status \in [Agents -> Statuses],
           actions \in ActionList, report \in Report \cup {NoReport}
    PROVE  /\ board' \in Board \cup {NoBoard} /\ status' \in [Agents -> Statuses]
           /\ actions' \in ActionList /\ report' \in Report \cup {NoReport}
           /\ w.file # "board" => board' = board
           /\ w.file # "report" => report' = report
           /\ w.file = "report" => report' = w.report
  BY DEF Put, FileWrite

-----------------------------------------------------------------------------
(* Types of what the commands write.                                       *)

LEMMA NewBoardType ==
    NewBoard \in Board /\ NewBoard.round = Len(NewBoard.rounds) /\ NewBoard.round > 0
    /\ NewBoard.phase = "publish"
<1>1. EmptyRound \in Round
  BY DEF EmptyRound, Round
<1>2. <<EmptyRound>> \in Seq(Round) /\ Len(<<EmptyRound>>) = 1
  BY <1>1
<1>3. QED
  BY <1>2 DEF NewBoard, Board, Reasons

LEMMA ActionTypes ==
    ASSUME NEW round \in Nat, NEW phase \in {"publish", "respond"}, NEW agents \in SUBSET Agents
    PROVE  Dispatches(round, phase, agents) \subseteq Action /\ Closings(round, agents) \subseteq Action
  BY DEF Dispatches, Closings, Action

LEMMA ActionListTypes ==
    /\ NoActions \in ActionList
    /\ \A round \in Nat, phase \in {"publish", "respond"}, closing \in SUBSET Action :
          ActionsFor(round, phase, closing) \in ActionList
<1>1. NoActions \in ActionList
  BY DEF NoActions, ActionList
<1>2. ASSUME NEW round \in Nat, NEW phase \in {"publish", "respond"}, NEW closing \in SUBSET Action
      PROVE  ActionsFor(round, phase, closing) \in ActionList
  <2>1. Active \in SUBSET Agents
    BY DEF Active
  <2>2. Dispatches(round, phase, Active) \in SUBSET Action
    BY <2>1, ActionTypes
  <2>3. QED
    BY <2>2 DEF ActionsFor, ActionList
<1>3. QED
  BY <1>1, <1>2

-----------------------------------------------------------------------------
(* The inductive invariant.                                                *)

NoBoardIn(ws)    == \A i \in DOMAIN ws : ws[i].file # "board"
NoReportIn(ws)   == \A i \in DOMAIN ws : ws[i].file # "report"
ReportsIn(ws, b) == \A i \in DOMAIN ws : ws[i].file = "report" => ws[i].report = ReportOf(b)

\* A closed board has its report, or a command has it still to write; a board
\* that is not closed has none.
Tells(b, r, ws) ==
    IF b.phase = "closed"
    THEN ReportsIn(ws, b) /\ (NoReportIn(ws) => r = ReportOf(b))
    ELSE r = NoReport /\ NoReportIn(ws)

Inv ==
    /\ TypeOK
    /\ ConvergedHasVoices
    /\ NoBoardIn(writes)
    /\ inits = 0 => board = NoBoard
    /\ stops = 0 /\ inits <= 1 => Tells(board, report, writes)

\* What the types say of a board that is there.
LEMMA BoardType ==
    ASSUME TypeOK, board.phase # "none"
    PROVE  /\ board \in Board /\ board # NoBoard
           /\ board.round \in Nat /\ board.round > 0 /\ board.round = Len(board.rounds)
           /\ board.rounds \in Seq(Round) /\ board.round \in 1..Len(board.rounds)
           /\ Current \in Round /\ board.phase \in {"publish", "respond", "closed"}
<1>1. board \in Board /\ board # NoBoard
  BY DEF TypeOK, NoBoard
<1>2. /\ board.round \in Nat /\ board.round > 0 /\ board.round = Len(board.rounds)
      /\ board.rounds \in Seq(Round) /\ board.phase \in {"publish", "respond", "closed"}
  BY <1>1 DEF TypeOK, Board
<1>3. Current \in Round
  BY <1>2, ElementOfSeq DEF Current
<1>4. QED
  BY <1>1, <1>2, <1>3

\* The rest of the state of the type invariant, when a command writes files.
LEMMA TypeKept ==
    ASSUME TypeOK,
           board' \in Board, board'.round = Len(board'.rounds), board'.round > 0,
           UNCHANGED <<status, actions, report>>, writes' \in Seq(FileWrite),
           inits' \in 0..MaxInits, UNCHANGED <<failures, stops>>,
           late' \in BOOLEAN, alone' \in BOOLEAN, hushed' \in BOOLEAN
    PROVE  TypeOK'
<1>1. board' \in Board \cup {NoBoard}
  OBVIOUS
<1>2. failures' \in 0..MaxFailures /\ stops' \in 0..MaxStops
  BY DEF TypeOK
<1>3. status' \in [Agents -> Statuses] /\ actions' \in ActionList /\ report' \in Report \cup {NoReport}
  BY DEF TypeOK
<1>4. QED
  BY <1>1, <1>2, <1>3 DEF TypeOK

\* Boards that say something new of an open discussion.
LEMMA OpenKeeps ==
    ASSUME Inv, NEW b \in Board, b.phase # "closed", b.round = Len(b.rounds), b.round > 0,
           board.phase \in {"publish", "respond"} \/ (board = NoBoard /\ report = NoReport)
               \/ inits' > 1,
           Put(WriteBoard(b)), writes' \in Seq(FileWrite),
           NoBoardIn(writes'), NoReportIn(writes'),
           inits' \in 1..MaxInits, inits' >= inits, UNCHANGED <<failures, stops>>,
           late' \in BOOLEAN, alone' \in BOOLEAN, hushed' \in BOOLEAN
    PROVE  Inv'
<1>1. board' = b /\ UNCHANGED <<status, actions, report>>
  BY PutBoard
<1>2. inits' \in 0..MaxInits /\ inits \in Nat /\ inits' \in Nat /\ inits' # 0
  BY BoundAssumption DEF Inv, TypeOK
<1>3. TypeOK'
  BY <1>1, <1>2, TypeKept DEF Inv
<1>4. ConvergedHasVoices'
  BY <1>1 DEF ConvergedHasVoices
<1>5. stops' = 0 /\ inits' <= 1 => Tells(board', report', writes')
  <2> SUFFICES ASSUME stops = 0, inits' <= 1 PROVE report = NoReport
    BY <1>1 DEF Tells
  <2>1. inits <= 1 /\ Tells(board, report, writes)
    BY <1>2 DEF Inv
  <2>2. QED
    BY <1>2, <2>1 DEF Tells
<1>6. QED
  BY <1>2, <1>3, <1>4, <1>5 DEF Inv

LEMMA InitDiscussionKeeps ==
    ASSUME Inv, InitDiscussion
    PROVE  Inv'
<1> DEFINE d == [round |-> 1, phase |-> "publish", first |-> {},
                 then |-> Dispatches(1, "publish", Agents)]
           A == WriteAgents(Everyone("pending"))
           D == WriteActions(d)
<1>1. Put(WriteBoard(NewBoard)) /\ writes' = <<A, D>>
  BY ChangeThree DEF InitDiscussion
<1>2. d \in ActionList
  <2>1. Dispatches(1, "publish", Agents) \in SUBSET Action
    BY ActionTypes
  <2>2. QED
    BY <2>1 DEF ActionList
<1>3. Everyone("pending") \in [Agents -> Statuses]
  BY DEF Everyone, Statuses
<1> HIDE DEF d
<1>4. A \in FileWrite /\ D \in FileWrite /\ A.file = "agents" /\ D.file = "actions"
  BY <1>2, <1>3, WriteTypes
<1> HIDE DEF A, D
<1>5. writes' \in Seq(FileWrite) /\ NoBoardIn(writes') /\ NoReportIn(writes')
  BY <1>1, <1>4 DEF NoBoardIn, NoReportIn
<1>6. inits \in Nat /\ inits' \in 1..MaxInits /\ inits' >= inits
      /\ (inits' > 1 \/ inits = 0)
  BY BoundAssumption DEF Inv, TypeOK, InitDiscussion
<1>7. UNCHANGED <<failures, stops, late, alone, hushed>>
  BY DEF InitDiscussion, history
<1>8. inits = 0 /\ stops = 0 => board = NoBoard /\ report = NoReport
  <2>1. inits = 0 => board = NoBoard /\ NoBoard.phase # "closed"
    BY DEF Inv, NoBoard
  <2>2. QED
    BY <2>1 DEF Inv, Tells
<1>9. QED
  <2>1. CASE stops = 0 \/ inits' > 1
    BY <1>1, <1>5, <1>6, <1>7, <1>8, <2>1, NewBoardType, OpenKeeps DEF Inv, TypeOK
  <2>2. CASE stops # 0
    <3>1. board' = NewBoard /\ UNCHANGED <<status, actions, report>>
      BY <1>1, PutBoard
    <3>2. TypeOK'
      BY <1>5, <1>6, <1>7, <3>1, NewBoardType, TypeKept DEF Inv, TypeOK
    <3>3. QED
      BY <1>5, <1>6, <1>7, <2>2, <3>1, <3>2, NewBoardType DEF Inv, ConvergedHasVoices
  <2>3. QED
    BY <2>1, <2>2

\* The bounds of a step that spends none.
LEMMA BoundsKept ==
    ASSUME Inv, UNCHANGED bounds, board.phase # "none"
    PROVE  /\ inits' \in 1..MaxInits /\ inits' >= inits /\ UNCHANGED <<inits, failures, stops>>
<1>1. inits \in 0..MaxInits /\ UNCHANGED <<inits, failures, stops>>
  BY DEF Inv, TypeOK, bounds
<1>2. inits # 0
  BY DEF Inv, NoBoard
<1>3. QED
  BY <1>1, <1>2, BoundAssumption

LEMMA AdvancePublishKeeps ==
    ASSUME Inv, AdvancePublish
    PROVE  Inv'
<1> DEFINE b == [board EXCEPT !.phase = "respond"]
           d == ActionsFor(b.round, "respond", {})
           D == WriteActions(d)
<1>0. board.phase = "publish" /\ board.phase # "none"
  BY DEF AdvancePublish
<1>1. Put(WriteBoard(b)) /\ writes' = <<D>>
  BY ChangeTwo DEF AdvancePublish
<1>2. b \in Board /\ b.round = board.round /\ b.rounds = board.rounds /\ b.phase = "respond"
  BY <1>0, BoardType DEF Inv, Board
<1>3. b.round \in Nat /\ b.round = Len(b.rounds) /\ b.round > 0
  BY <1>0, <1>2, BoardType DEF Inv
<1> HIDE DEF b
<1>4. D \in FileWrite /\ D.file = "actions"
  BY <1>3, ActionListTypes, WriteTypes
<1> HIDE DEF D
<1>5. writes' \in Seq(FileWrite) /\ NoBoardIn(writes') /\ NoReportIn(writes')
  BY <1>1, <1>4 DEF NoBoardIn, NoReportIn
<1>6. UNCHANGED <<bounds, late, hushed>> /\ alone' \in BOOLEAN
  BY DEF AdvancePublish, Inv, TypeOK
<1>7. late' \in BOOLEAN /\ hushed' \in BOOLEAN
  BY <1>6 DEF Inv, TypeOK
<1>8. QED
  BY <1>0, <1>1, <1>2, <1>3, <1>5, <1>6, <1>7, BoundsKept, OpenKeeps

\* The board of a discussion that ends, and what goes with it.
LEMMA ClosingKeeps ==
    ASSUME Inv, NEW reason \in Reasons, board.phase # "none",
           Change(Closing([board EXCEPT !.phase = "closed", !.reason = reason])),
           reason = "converged" /\ ~hushed' => Voices # {} /\ Unresolved = {},
           UNCHANGED bounds, late' \in BOOLEAN, alone' \in BOOLEAN, hushed' \in BOOLEAN
    PROVE  Inv'
<1> DEFINE b1 == [board EXCEPT !.phase = "closed"]
           b  == [b1 EXCEPT !.reason = reason]
           N == WriteActions(NoActions)
           A == WriteAgents(Everyone("closed"))
           R == WriteReport(b)
<1>1. b = [board EXCEPT !.phase = "closed", !.reason = reason]
  OBVIOUS
<1>2. Put(WriteBoard(b)) /\ writes' = <<N, A, R>>
  BY <1>1, ChangeFour DEF Closing
<1>3. b1 \in Board /\ b1.round = board.round /\ b1.rounds = board.rounds /\ b1.phase = "closed"
  BY BoardType DEF Inv, Board
<1> HIDE DEF b1
<1>4. b \in Board /\ b.round = board.round /\ b.rounds = board.rounds /\ b.phase = "closed"
      /\ b.reason = reason
  BY <1>3 DEF Board
<1>5. Everyone("closed") \in [Agents -> Statuses]
  BY DEF Everyone, Statuses
<1> HIDE DEF b
<1>6. /\ N \in FileWrite /\ A \in FileWrite /\ R \in FileWrite
      /\ N.file = "actions" /\ A.file = "agents" /\ R.file = "report" /\ R.report = ReportOf(b)
  BY <1>4, <1>5, WriteTypes, ActionListTypes
<1> HIDE DEF N, A, R
<1>7. /\ writes' \in Seq(FileWrite) /\ NoBoardIn(writes') /\ ReportsIn(writes', b)
      /\ ~NoReportIn(writes')
  BY <1>2, <1>6 DEF NoBoardIn, NoReportIn, ReportsIn
<1>8. board' = b /\ UNCHANGED <<status, actions, report>>
  BY <1>2, PutBoard
<1>9. /\ inits' \in 1..MaxInits /\ UNCHANGED <<inits, failures, stops>>
      /\ inits' \in 0..MaxInits /\ inits' # 0
  BY BoundsKept, BoundAssumption
<1>10. board'.round = Len(board'.rounds) /\ board'.round > 0
  BY <1>4, <1>8, BoardType DEF Inv
<1>11. TypeOK'
  BY <1>4, <1>7, <1>8, <1>9, <1>10, TypeKept DEF Inv
<1>12. ConvergedHasVoices'
  <2>1. Voices' = Voices /\ Unresolved' = Unresolved
    BY <1>4, <1>8 DEF Voices, Unresolved, Current
  <2>2. board'.reason = reason
    BY <1>4, <1>8
  <2>3. QED
    BY <2>1, <2>2 DEF ConvergedHasVoices
<1>13. Tells(board', report', writes')
  BY <1>4, <1>7, <1>8 DEF Tells
<1>14. QED
  BY <1>7, <1>9, <1>11, <1>12, <1>13 DEF Inv

\* A round in which nobody answered is left without a voice only when no agent
\* was active.
LEMMA ConvergedHeard ==
    ASSUME Active \subseteq Voices, Settled, Active # {}
    PROVE  Voices # {} /\ Unresolved = {}
  BY DEF Settled

LEMMA AdvanceRespondKeeps ==
    ASSUME Inv, AdvanceRespond
    PROVE  Inv'
<1> DEFINE next == board.round + 1
           onward == [board EXCEPT !.phase = "publish", !.round = next,
                                   !.rounds = Append(@, EmptyRound)]
           closed(reason) == [board EXCEPT !.phase = "closed", !.reason = reason]
           more == <<WriteBoard(onward),
                     WriteActions(ActionsFor(next, "publish",
                         IF Fresh THEN Closings(board.round, Active) ELSE {}))>>
<1>0. /\ board.phase = "respond" /\ board.phase # "none" /\ Active \subseteq Voices
      /\ UNCHANGED <<bounds, late>>
      /\ alone' \in BOOLEAN /\ hushed' \in BOOLEAN /\ late' \in BOOLEAN
      /\ (~hushed' => Active # {})
  BY DEF AdvanceRespond, Inv, TypeOK
<1>1. \/ Settled /\ Change(Closing(closed("converged")))
      \/ Change(Closing(closed("max_rounds_unconverged")))
      \/ Change(more)
  <2>1. Change(CASE Settled -> Closing(closed("converged"))
                 [] ~Settled /\ board.round >= MaxRounds ->
                         Closing(closed("max_rounds_unconverged"))
                 [] OTHER -> more)
    BY DEF AdvanceRespond
  <2> HIDE DEF more, closed
  <2>2. CASE Settled
    <3>1. (CASE Settled -> Closing(closed("converged"))
             [] ~Settled /\ board.round >= MaxRounds ->
                     Closing(closed("max_rounds_unconverged"))
             [] OTHER -> more) = Closing(closed("converged"))
      BY <2>2, Zenon
    <3>2. QED
      BY <2>1, <2>2, <3>1, Zenon
  <2>3. CASE ~Settled /\ board.round >= MaxRounds
    <3>1. (CASE Settled -> Closing(closed("converged"))
             [] ~Settled /\ board.round >= MaxRounds ->
                     Closing(closed("max_rounds_unconverged"))
             [] OTHER -> more) = Closing(closed("max_rounds_unconverged"))
      BY <2>3, Zenon
    <3>2. QED
      BY <2>1, <3>1, Zenon
  <2>4. CASE ~Settled /\ ~(board.round >= MaxRounds)
    <3>1. (CASE Settled -> Closing(closed("converged"))
             [] ~Settled /\ board.round >= MaxRounds ->
                     Closing(closed("max_rounds_unconverged"))
             [] OTHER -> more) = more
      BY <2>4, Zenon
    <3>2. QED
      BY <2>1, <3>1, Zenon
  <2>5. QED
    BY <2>2, <2>3, <2>4
<1>2. CASE Settled /\ Change(Closing(closed("converged")))
  BY <1>0, <1>2, ConvergedHeard, ClosingKeeps DEF Reasons
<1>3. CASE Change(Closing(closed("max_rounds_unconverged")))
  BY <1>0, <1>3, ClosingKeeps DEF Reasons
<1>4. CASE Change(more)
  <2> DEFINE r  == Append(board.rounds, EmptyRound)
             b1 == [board EXCEPT !.phase = "publish"]
             b2 == [b1 EXCEPT !.round = next]
             b  == [b2 EXCEPT !.rounds = r]
             D  == WriteActions(ActionsFor(next, "publish",
                         IF Fresh THEN Closings(board.round, Active) ELSE {}))
  <2>1. onward = b
    BY <1>0, BoardType DEF Inv, Board
  <2>2. Put(WriteBoard(b)) /\ writes' = <<D>>
    BY <1>4, <2>1, ChangeTwo
  <2>3. next \in Nat /\ next > 0 /\ board \in Board /\ board.rounds \in Seq(Round)
        /\ next = Len(board.rounds) + 1 /\ board.round \in Nat
    BY <1>0, BoardType DEF Inv
  <2>4. r \in Seq(Round) /\ Len(r) = next
    <3>1. EmptyRound \in Round
      BY DEF EmptyRound, Round
    <3>2. QED
      BY <2>3, <3>1, AppendProperties
  <2> HIDE DEF r, next
  <2>5. b1 \in Board /\ b1.phase = "publish"
    BY <2>3 DEF Board
  <2> HIDE DEF b1
  <2>6. b2 \in Board /\ b2.phase = "publish" /\ b2.round = next
    BY <2>3, <2>5 DEF Board
  <2> HIDE DEF b2
  <2>7. b \in Board /\ b.phase = "publish" /\ b.round = next /\ b.rounds = r
    BY <2>4, <2>6 DEF Board
  <2> HIDE DEF b
  <2>8. D \in FileWrite /\ D.file = "actions"
    <3>1. Active \in SUBSET Agents
      BY DEF Active
    <3>2. (IF Fresh THEN Closings(board.round, Active) ELSE {}) \in SUBSET Action
      BY <2>3, <3>1, ActionTypes
    <3>3. QED
      BY <2>3, <3>2, ActionListTypes, WriteTypes
  <2> HIDE DEF D
  <2>9. writes' \in Seq(FileWrite) /\ NoBoardIn(writes') /\ NoReportIn(writes')
    BY <2>2, <2>8 DEF NoBoardIn, NoReportIn
  <2>10. QED
    BY <1>0, <2>2, <2>3, <2>4, <2>7, <2>9, BoundsKept, OpenKeeps
<1>5. QED
  BY <1>1, <1>2, <1>3, <1>4

LEMMA FinalizeKeeps ==
    ASSUME Inv, NEW manual \in BOOLEAN, Finalize(manual)
    PROVE  Inv'
<1>0. board.phase # "none" /\ UNCHANGED <<due, bounds, history>>
  BY DEF Finalize, Inv, TypeOK, NoBoard, Board
<1>1. late' \in BOOLEAN /\ alone' \in BOOLEAN /\ hushed' \in BOOLEAN /\ hushed' = hushed
  BY <1>0 DEF history, Inv, TypeOK
<1>2. CASE board.phase # "closed"
  <2>1. Change(Closing([board EXCEPT !.phase = "closed", !.reason = "manual_terminated"]))
    BY <1>2 DEF Finalize
  <2>2. QED
    BY <1>0, <1>1, <2>1, ClosingKeeps DEF Reasons
<1>3. CASE board.phase = "closed"
  <2> DEFINE A == WriteAgents(Everyone("closed"))
             R == WriteReport(board)
  <2>1. Put(A) /\ writes' = <<R>>
    BY <1>3, ChangeTwo DEF Finalize
  <2>2. UNCHANGED <<board, actions, report>> /\ status' = Everyone("closed")
    BY <2>1, PutAgents
  <2>3. R \in FileWrite /\ R.file = "report" /\ R.report = ReportOf(board)
    BY <1>0, BoardType, WriteTypes DEF Inv
  <2> HIDE DEF R, A
  <2>4. writes' \in Seq(FileWrite) /\ NoBoardIn(writes') /\ ReportsIn(writes', board)
        /\ ~NoReportIn(writes')
    BY <2>1, <2>3 DEF NoBoardIn, NoReportIn, ReportsIn
  <2>5. TypeOK'
    BY <1>0, <1>1, <2>2, <2>4 DEF Inv, TypeOK, bounds, Everyone, Statuses
  <2>6. ConvergedHasVoices'
    BY <1>1, <2>2 DEF Inv, ConvergedHasVoices, Voices, Unresolved, Current
  <2>7. Tells(board', report', writes')
    BY <1>3, <2>2, <2>4 DEF Tells
  <2>8. QED
    BY <1>0, <2>2, <2>4, <2>5, <2>6, <2>7 DEF Inv, bounds
<1>4. QED
  BY <1>2, <1>3

\* A board with a round to which something was added.
LEMMA RoundAdded ==
    ASSUME Inv, board.phase \in {"publish", "respond"}, NEW x \in Round,
           Change(<<WriteBoard([board EXCEPT !.rounds = [@ EXCEPT ![board.round] = x]])>>),
           UNCHANGED <<due, bounds, history>>
    PROVE  Inv'
<1> DEFINE r == [board.rounds EXCEPT ![board.round] = x]
           b == [board EXCEPT !.rounds = r]
<1>1. Put(WriteBoard(b)) /\ writes' = <<>>
  BY ChangeOne
<1>2. r \in Seq(Round) /\ Len(r) = Len(board.rounds)
  BY BoardType, ExceptSeq DEF Inv
<1> HIDE DEF r
<1>3. b \in Board /\ b.phase = board.phase /\ b.round = board.round /\ b.rounds = r
  BY <1>2, BoardType DEF Inv, Board
<1>4. b.round = Len(b.rounds) /\ b.round > 0 /\ b.phase # "closed"
  BY <1>2, <1>3, BoardType DEF Inv
<1> HIDE DEF b
<1>5. writes' \in Seq(FileWrite) /\ NoBoardIn(writes') /\ NoReportIn(writes')
  BY <1>1 DEF NoBoardIn, NoReportIn
<1>6. late' \in BOOLEAN /\ alone' \in BOOLEAN /\ hushed' \in BOOLEAN
  BY DEF history, Inv, TypeOK
<1>7. QED
  BY <1>1, <1>3, <1>4, <1>5, <1>6, BoundsKept, OpenKeeps

LEMMA PostKeeps ==
    ASSUME Inv, NEW a \in Agents, Post(a)
    PROVE  Inv'
<1> DEFINE x == [Current EXCEPT !.posts = @ \cup {a}]
<1>0. board.phase = "publish" /\ board.phase # "none" /\ UNCHANGED <<due, bounds, history>>
  BY DEF Post
<1>1. x \in Round
  BY <1>0, BoardType DEF Inv, Round
<1>2. [board EXCEPT !.rounds[board.round].posts = @ \cup {a}] =
          [board EXCEPT !.rounds = [@ EXCEPT ![board.round] = x]]
  BY DEF Current
<1>3. Change(<<WriteBoard([board EXCEPT !.rounds = [@ EXCEPT ![board.round] = x]])>>)
  BY <1>2 DEF Post
<1> HIDE DEF x
<1>4. QED
  BY <1>0, <1>1, <1>3, RoundAdded

LEMMA RespondKeeps ==
    ASSUME Inv, NEW a \in Agents, NEW target \in Agents, NEW disagrees \in BOOLEAN,
           Respond(a, target, disagrees)
    PROVE  Inv'
<1> DEFINE e == [by |-> a, to |-> target, disagrees |-> disagrees]
           x == [Current EXCEPT !.responses = @ \cup {e}]
<1>0. board.phase = "respond" /\ board.phase # "none" /\ UNCHANGED <<due, bounds, history>>
  BY DEF Respond
<1>1. x \in Round
  <2>1. e \in Response
    BY DEF Response
  <2> HIDE DEF e
  <2>2. QED
    BY <1>0, <2>1, BoardType DEF Inv, Round
<1>2. [board EXCEPT !.rounds[board.round].responses = @ \cup {e}] =
          [board EXCEPT !.rounds = [@ EXCEPT ![board.round] = x]]
  BY DEF Current
<1>3. Change(<<WriteBoard([board EXCEPT !.rounds = [@ EXCEPT ![board.round] = x]])>>)
  BY <1>2 DEF Respond
<1> HIDE DEF x
<1>4. QED
  BY <1>0, <1>1, <1>3, RoundAdded

LEMMA RecordKeeps ==
    ASSUME Inv, NEW i, NEW action, NEW well \in BOOLEAN, RecordResult(i, action, well)
    PROVE  Inv'
<1> DEFINE s == [status EXCEPT ![action.agent] = StatusAfter(action, well)]
<1>0. writes = <<>> /\ Put(WriteAgents(s)) /\ writes' = <<>>
  BY ChangeOne DEF RecordResult, Free
<1>1. UNCHANGED <<board, actions, report>> /\ status' = s
  BY <1>0, PutAgents
<1>2. s \in [Agents -> Statuses]
  BY DEF StatusAfter, Statuses, Inv, TypeOK
<1> HIDE DEF s
<1>3. failures' \in 0..MaxFailures /\ UNCHANGED <<inits, stops, alone, hushed>> /\ late' \in BOOLEAN
  BY BoundAssumption DEF RecordResult, Inv, TypeOK
<1>4. TypeOK'
  BY <1>0, <1>1, <1>2, <1>3 DEF Inv, TypeOK
<1>5. QED
  BY <1>0, <1>1, <1>3, <1>4 DEF Inv, ConvergedHasVoices, Voices, Unresolved, Current, Tells

\* One more file of the command that holds the lock.
LEMMA WriteKeeps ==
    ASSUME Inv, Write
    PROVE  Inv'
<1> DEFINE w == Head(writes)
<1>0. writes \in Seq(FileWrite) /\ writes # <<>> /\ Put(w) /\ writes' = Tail(writes)
      /\ UNCHANGED <<bounds, history>>
  BY DEF Write, Change, Inv, TypeOK
<1>1. /\ w = writes[1] /\ w \in FileWrite /\ 1 \in DOMAIN writes
      /\ writes' \in Seq(FileWrite) /\ Len(writes') = Len(writes) - 1
      /\ \A i \in 1..Len(writes') : writes'[i] = writes[i + 1]
  BY <1>0, HeadTailProperties, LenProperties, ElementOfSeq
<1>2. \A i \in DOMAIN writes' : i + 1 \in DOMAIN writes /\ writes'[i] = writes[i + 1]
  BY <1>0, <1>1, LenProperties
<1>3. \A i \in DOMAIN writes : i = 1 \/ (i - 1 \in DOMAIN writes' /\ writes'[i - 1] = writes[i])
  BY <1>0, <1>1, LenProperties
<1> HIDE DEF w
<1>4. /\ board' = board /\ status' \in [Agents -> Statuses] /\ actions' \in ActionList
      /\ report' \in Report \cup {NoReport}
      /\ w.file # "report" => report' = report
      /\ w.file = "report" => report' = w.report
  <2>1. w.file # "board"
    BY <1>1 DEF Inv, NoBoardIn
  <2>2. QED
    BY <1>0, <1>1, <2>1, PutType DEF Inv, TypeOK
<1>5. TypeOK'
  BY <1>0, <1>1, <1>4 DEF Inv, TypeOK, bounds, history
<1>6. NoBoardIn(writes')
  BY <1>2 DEF Inv, NoBoardIn
<1>7. ASSUME Tells(board, report, writes) PROVE Tells(board', report', writes')
  <2>1. CASE board.phase = "closed"
    <3>1. ReportsIn(writes', board)
      BY <1>2, <1>7, <2>1 DEF Tells, ReportsIn
    <3>2. ASSUME NoReportIn(writes') PROVE report' = ReportOf(board)
      <4>1. CASE w.file = "report"
        BY <1>1, <1>4, <1>7, <2>1, <4>1 DEF Tells, ReportsIn
      <4>2. CASE w.file # "report"
        <5>1. NoReportIn(writes)
          BY <1>1, <1>3, <3>2, <4>2 DEF NoReportIn
        <5>2. QED
          BY <1>4, <1>7, <2>1, <4>2, <5>1 DEF Tells
      <4>3. QED
        BY <4>1, <4>2
    <3>3. QED
      BY <1>4, <2>1, <3>1, <3>2 DEF Tells
  <2>2. CASE board.phase # "closed"
    BY <1>1, <1>2, <1>4, <1>7, <2>2 DEF Tells, NoReportIn
  <2>3. QED
    BY <2>1, <2>2
<1>8. ConvergedHasVoices'
  BY <1>0, <1>4 DEF Inv, ConvergedHasVoices, Voices, Unresolved, Current, history
<1>9. QED
  BY <1>0, <1>4, <1>5, <1>6, <1>7, <1>8 DEF Inv, bounds

LEMMA StopKeeps ==
    ASSUME Inv, Stop
    PROVE  Inv'
<1>1. /\ writes' = <<>> /\ stops' = stops + 1 /\ stops < MaxStops
      /\ UNCHANGED <<board, status, actions, report, inits, failures, late, alone, hushed>>
  BY DEF Stop, history
<1>2. stops' \in 0..MaxStops /\ stops' # 0
  BY <1>1, BoundAssumption DEF Inv, TypeOK
<1>3. TypeOK'
  BY <1>1, <1>2 DEF Inv, TypeOK
<1>4. NoBoardIn(writes')
  BY <1>1 DEF NoBoardIn
<1>5. QED
  BY <1>1, <1>2, <1>3, <1>4 DEF Inv, ConvergedHasVoices, Voices, Unresolved, Current

-----------------------------------------------------------------------------
(* The whole discussion.                                                   *)

LEMMA InitInv == Init => Inv
<1> SUFFICES ASSUME Init PROVE Inv
  OBVIOUS
<1>1. /\ board = NoBoard /\ report = NoReport /\ writes = <<>> /\ inits = 0
      /\ failures = 0 /\ stops = 0 /\ late = FALSE /\ alone = FALSE /\ hushed = FALSE
      /\ status \in [Agents -> Statuses] /\ actions \in ActionList
  BY ActionListTypes DEF Init, Everyone, Statuses
<1>2. TypeOK
  <2>1. inits \in 0..MaxInits /\ failures \in 0..MaxFailures /\ stops \in 0..MaxStops
    BY <1>1, BoundAssumption
  <2>2. late \in BOOLEAN /\ alone \in BOOLEAN /\ hushed \in BOOLEAN
    BY <1>1
  <2>3. writes \in Seq(FileWrite) /\ report \in Report \cup {NoReport}
        /\ board \in Board \cup {NoBoard}
    BY <1>1
  <2>4. QED
    BY <1>1, <2>1, <2>2, <2>3 DEF TypeOK
<1>3. board.phase # "closed"
  BY <1>1 DEF NoBoard
<1>4. QED
  BY <1>1, <1>2, <1>3 DEF Inv, ConvergedHasVoices, Tells, NoBoardIn, NoReportIn

LEMMA StepInv == Inv /\ [Next]_vars => Inv'
<1> SUFFICES ASSUME Inv, [Next]_vars PROVE Inv'
  OBVIOUS
<1>1. CASE InitDiscussion
  BY <1>1, InitDiscussionKeeps
<1>2. CASE Advance
  BY <1>2, AdvancePublishKeeps, AdvanceRespondKeeps DEF Advance
<1>3. CASE \E manual \in BOOLEAN : Finalize(manual)
  BY <1>3, FinalizeKeeps
<1>4. CASE \E a \in Agents : Post(a) \/ Answer(a)
  BY <1>4, PostKeeps, RespondKeeps DEF Answer
<1>5. CASE Record
  BY <1>5, RecordKeeps DEF Record
<1>6. CASE Write \/ Stop
  BY <1>6, WriteKeeps, StopKeeps
<1>7. CASE UNCHANGED vars
  BY <1>7 DEF vars, bounds, history, Inv, TypeOK, ConvergedHasVoices, Voices, Unresolved, Current
<1>8. QED
  BY <1>1, <1>2, <1>3, <1>4, <1>5, <1>6, <1>7 DEF Next

LEMMA InvHolds == Spec => []Inv
  BY InitInv, StepInv, PTL DEF Spec

\* The files of a discussion, and what a command has still to write of them,
\* are well typed; a board is at its last round.
THEOREM TypeCorrect == Spec => []TypeOK
<1>1. Inv => TypeOK
  BY DEF Inv
<1>2. QED
  BY <1>1, InvHolds, PTL

\* A discussion that is said to have converged ended with a round in which
\* somebody answered and nobody disagreed, unless no agent was active when the
\* moderator advanced.
THEOREM ConvergenceHasVoices == Spec => []ConvergedHasVoices
<1>1. Inv => ConvergedHasVoices
  BY DEF Inv
<1>2. QED
  BY <1>1, InvHolds, PTL

\* The final report is of the board as it stands, and a closed discussion has
\* it, unless a command was stopped half way or the discussion begun again.
THEOREM ReportsAreFaithful == Spec => []ReportIsFaithful
<1>1. Inv => ReportIsFaithful
  <2> SUFFICES ASSUME Inv, Free, stops = 0, inits = 1
               PROVE  IF board # NoBoard /\ board.phase = "closed" THEN report = ReportOf(board)
                      ELSE report = NoReport
    BY DEF ReportIsFaithful
  <2>1. Tells(board, report, writes)
    BY DEF Inv
  <2>2. NoReportIn(writes)
    BY DEF Free, NoReportIn
  <2>3. NoBoard.phase # "closed"
    BY DEF NoBoard
  <2>4. QED
    BY <2>1, <2>2, <2>3 DEF Tells
<1>2. QED
  BY <1>1, InvHolds, PTL
=============================================================================
