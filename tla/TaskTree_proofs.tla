---------------------------- MODULE TaskTree_proofs ----------------------------
(***************************************************************************)
(* Proofs about TaskTree: its type invariant; that a task which was        *)
(* archived has one home; that an edit that was acknowledged stays; that   *)
(* the parents of a task form no cycle unless two links raced or an        *)
(* archive that was crossed fell back; and that the two ends of a link     *)
(* agree once nothing runs and nothing is pending.                         *)
(***************************************************************************)
EXTENDS TaskTree, TLAPS

-----------------------------------------------------------------------------
(* Commands, documents and directories.                                    *)

\* What a command carries.
LEMMA CommandFields ==
    ASSUME NEW c \in Commands
    PROVE  /\ c.task \in Names
           /\ c.kind \in {"link", "unlink", "edit", "archive", "create"}
           /\ c.kind \in {"link", "unlink"} => c.of \in Names
           /\ c.kind = "create" => c.of \in Names \cup {None} /\ c.deps \in SUBSET Names
  BY DEF Commands

\* A directory has a document, is empty, or is not there.
LEMMA DirKinds ==
    ASSUME NEW d \in Dirs
    PROVE  /\ IsFull(d) => d.doc \in Docs /\ d = Full(d.doc)
           /\ ~IsFull(d) => d \in {Absent, Husk}
           /\ ~IsFull(Absent) /\ ~IsFull(Husk) /\ Absent # Husk
           /\ RevOf(d) \in Nat
  BY DEF Dirs, IsFull, Full, Absent, Husk, RevOf, Docs

LEMMA FullIs ==
    ASSUME NEW doc
    PROVE  /\ IsFull(Full(doc)) /\ Full(doc).doc = doc
           /\ doc \in Docs => Full(doc) \in Dirs
           /\ Full(doc) # Absent /\ Full(doc) # Husk
  BY DEF Dirs, IsFull, Full, Absent, Husk

\* A write puts a document of the next revision there.
LEMMA WrittenIs ==
    ASSUME NEW d \in Dirs, NEW doc \in Docs
    PROVE  /\ Written(d, doc) \in Dirs /\ IsFull(Written(d, doc))
           /\ Written(d, doc) # Absent
           /\ Written(d, doc).doc \in Docs
           /\ Written(d, doc).doc.rev = RevOf(d) + 1
           /\ Written(d, doc).doc.note = doc.note
           /\ Written(d, doc).doc.status = doc.status
  <1> DEFINE new == [doc EXCEPT !.rev = RevOf(d) + 1]
  <1>1. RevOf(d) \in Nat
    BY DirKinds
  <1>2. new \in Docs /\ new.rev = RevOf(d) + 1 /\ new.note = doc.note /\ new.status = doc.status
    BY <1>1 DEF Docs
  <1>3. Written(d, doc) = Full(new)
    BY DEF Written
  <1> HIDE DEF new
  <1> QED
    BY <1>2, <1>3, FullIs

LEMMA WrittenDoc ==
    ASSUME NEW d, NEW doc PROVE Written(d, doc).doc = [doc EXCEPT !.rev = RevOf(d) + 1]
  BY FullIs DEF Written

\* A lock makes the directory and nothing else.
LEMMA LockedIs ==
    ASSUME NEW d \in Dirs
    PROVE  /\ Locked(d) \in Dirs /\ Locked(d) # Absent
           /\ d # Absent => Locked(d) = d
           /\ d = Absent => Locked(d) = Husk
           /\ IsFull(Locked(d)) <=> IsFull(d)
           /\ IsFull(d) => Locked(d) = d
  BY DirKinds DEF Locked, Dirs

\* What is put back is the document that was there before.
LEMMA UndoneIs ==
    ASSUME NEW d \in Dirs, NEW u, u.before[1] \in Docs
    PROVE  /\ Undone(u, d) \in Dirs
           /\ IsFull(d) => IsFull(Undone(u, d))
           /\ Undone(u, d) # d =>
                 /\ IsFull(Undone(u, d))
                 /\ RevOf(d) = u.before[1].rev + 1
                 /\ Undone(u, d).doc.rev = RevOf(d) + 1
                 /\ Undone(u, d).doc.note = u.before[1].note
  BY WrittenIs DEF Undone

LEMMA NewTaskIs ==
    ASSUME NEW deps \in SUBSET Names
    PROVE  NewTask(deps) \in Docs /\ NewTask(deps).note = 0 /\ NewTask(deps).rev = 1
  BY DEF NewTask, Docs

-----------------------------------------------------------------------------
(* The inductive invariants.                                               *)

\* What a process has in hand fits the step it is at.
Fits(p) ==
    LET c == cmd[p] IN
    /\ IF pc[p] = "idle" THEN c = NoCommand ELSE c \in Commands
    /\ pc[p] \in {"edit", "save"} => c.kind = "edit"
    /\ pc[p] \in LinkSteps => c.kind \in {"link", "unlink", "create"} /\ c.of # None
    /\ pc[p] \in ArchiveSteps => c.kind = "archive"
    /\ pc[p] \in CreateSteps => c.kind = "create"
    /\ pc[p] \in {"child", "walk", "list", "settle"} => IsFull(seen[p][c.of])
    /\ pc[p] \in {"walk", "list", "settle", "save"} => IsFull(seen[p][c.task])
    /\ c.kind = "create" /\ pc[p] \in LinkSteps \cup {"anchor"} => IsFull(seen[p][c.task])
    /\ pc[p] \in ArchiveSteps \ {"archive"} => IsFull(seen[p][c.task])
    /\ pc[p] = "walk" => walk[p].at # None
    /\ pc[p] \in {"relate", "restore"} => todo[p] \subseteq Updates(p)
    /\ pc[p] \in {"idle", "archive"} => \A n \in Names : seen[p][n] = Absent
    /\ pc[p] \in {"idle", "parent", "child", "create", "mkdir", "write"} => walk[p].been = {}
    /\ p \in Pending => pc[p] \in {"commit", "dead"}

Shape ==
    /\ TypeOK
    /\ \A p \in Procs : Fits(p)
    /\ Blur \subseteq blurred

\* An archive moves its task, and so knows it for itself only.
Follows(p, n) == Running(p) /\ IsFull(seen[p][n]) /\ (cmd[p].kind = "archive" => cmd[p].task # n)

\* Where the directories of a task are while its archive or creation goes on.
Placed(p, n) ==
    Running(p) /\ cmd[p].task = n =>
        /\ pc[p] \in {"relatives", "copy", "compare", "remove"} => active[n] = seen[p][n]
        /\ pc[p] \in {"relatives", "copy"} => seen[p][n].doc.status = "completed"
        /\ pc[p] \in {"mark", "relate", "files", "restore", "back", "mkdir"} => active[n] = Absent
        /\ pc[p] = "write" => active[n] = Husk
        /\ pc[p] = "takeback" => IsFull(seen[p][n]) \/ active[n] = Husk

\* The two are there at the same time only in the middle of a move.
Moves(p, n) ==
    Running(p) /\ cmd[p].task = n /\ pc[p] \in {"compare", "remove", "write", "takeback"}

Moving(n) == \E p \in Procs : Moves(p, n)

Housed(n) ==
    /\ active[n] = Absent \/ stored[n] = Absent \/ Moving(n)
    /\ IsFull(stored[n]) => stored[n].doc.status = "completed"

\* What p has loaded or staged of a task is of one that is there.
Own(p, n) ==
    /\ Follows(p, n) => IsFull(active[n])
    /\ Placed(p, n)
    /\ p \in Pending /\ n \in {unit[p].task, unit[p].of} => IsFull(active[n])

Homed(n) == Housed(n) /\ \A p \in Procs : Own(p, n)

HomeInv == Shape /\ \A n \in Names : Clear(n) => Homed(n)

\* The document a command has loaded, or staged a change of, is the one that
\* is there or one before it.
Older(old, new) == old.rev <= new.rev /\ (old.rev = new.rev => old = new)

UnitKept(u, n) ==
    /\ u.task = n => Older(u.before[2], active[n].doc)
    /\ u.of = n /\ u.phase = "prepared" => Older(u.before[1], active[n].doc)
    /\ u.of = n /\ u.phase = "half" =>
          /\ u.before[1].rev < active[n].doc.rev
          /\ u.before[1].rev + 1 = active[n].doc.rev =>
                active[n].doc = [u.after[1] EXCEPT !.rev = u.before[1].rev + 1]

Recalls(p, n) ==
    /\ Follows(p, n) => Older(seen[p][n].doc, active[n].doc)
    /\ Running(p) /\ cmd[p].kind = "archive" /\ IsFull(seen[p][n]) =>
          seen[p][n].doc.note = edits[n]
    /\ p \in Pending => UnitKept(unit[p], n)

\* Both places have the edits.
Noted(n) ==
    /\ IsFull(active[n]) => active[n].doc.note = edits[n]
    /\ IsFull(stored[n]) => stored[n].doc.note = edits[n]

Kept(n) == Noted(n) /\ \A p \in Procs : Recalls(p, n)

\* What a link or unlink makes of the documents of its two tasks.
Joined(c, docs) ==
    IF c.kind = "unlink"
    THEN <<[docs[1] EXCEPT !.children = @ \ {c.task}], [docs[2] EXCEPT !.parent = None]>>
    ELSE <<[docs[1] EXCEPT !.children = @ \cup {c.task}], [docs[2] EXCEPT !.parent = c.of]>>

\* A unit that is pending is that of the command of its process.
Faithful == \A q \in Pending :
    /\ cmd[q].kind \in {"link", "unlink", "create"}
    /\ unit[q].task = cmd[q].task /\ unit[q].of = cmd[q].of
    /\ unit[q].after = Joined(cmd[q], unit[q].before)

EditInv == HomeInv /\ Faithful /\ \A n \in Names : Clear(n) => Kept(n)

\* One document of a link or unlink changes its children, the other its parent,
\* and nothing else.
LEMMA JoinedIs ==
    ASSUME NEW c, c.task \in Names, c.of \in Names,
           NEW docs, docs[1] \in Docs, docs[2] \in Docs
    PROVE  /\ Joined(c, docs) \in Docs \X Docs
           /\ Joined(c, docs)[1].rev = docs[1].rev /\ Joined(c, docs)[2].rev = docs[2].rev
           /\ Joined(c, docs)[1].note = docs[1].note /\ Joined(c, docs)[2].note = docs[2].note
           /\ Joined(c, docs)[1].parent = docs[1].parent
           /\ Joined(c, docs)[2].children = docs[2].children
           /\ Joined(c, docs)[1].children =
                 IF c.kind = "unlink" THEN docs[1].children \ {c.task}
                 ELSE docs[1].children \cup {c.task}
           /\ Joined(c, docs)[2].parent = IF c.kind = "unlink" THEN None ELSE c.of
  <1> DEFINE first == [docs[1] EXCEPT !.children =
                          IF c.kind = "unlink" THEN @ \ {c.task} ELSE @ \cup {c.task}]
             second == [docs[2] EXCEPT !.parent = IF c.kind = "unlink" THEN None ELSE c.of]
  <1>1. Joined(c, docs) = <<first, second>>
    BY DEF Joined
  <1>2. docs[1] \in Docs /\ docs[2] \in Docs
    OBVIOUS
  <1>3. /\ first \in Docs /\ first.rev = docs[1].rev /\ first.note = docs[1].note
        /\ first.parent = docs[1].parent
        /\ first.children = IF c.kind = "unlink" THEN docs[1].children \ {c.task}
                            ELSE docs[1].children \cup {c.task}
    BY <1>2 DEF Docs
  <1>4. /\ second \in Docs /\ second.rev = docs[2].rev /\ second.note = docs[2].note
        /\ second.children = docs[2].children
        /\ second.parent = IF c.kind = "unlink" THEN None ELSE c.of
    BY <1>2 DEF Docs
  <1> HIDE DEF first, second
  <1> QED
    BY <1>1, <1>3, <1>4

-----------------------------------------------------------------------------
(* What a step of p leaves to the others, and to itself.                   *)

\* What process q has in hand, and where it is.
Same(q) ==
    /\ pc'[q] = pc[q] /\ cmd'[q] = cmd[q] /\ seen'[q] = seen[q]
    /\ walk'[q] = walk[q] /\ todo'[q] = todo[q] /\ queue'[q] = queue[q]

NoWalk == [at |-> None, been |-> {}]

\* A command that ends has nothing left in hand.
LEMMA ReturnIs ==
    ASSUME TypeOK, NEW p \in Procs, Return(p)
    PROVE  /\ \A q \in Procs \ {p} : Same(q) /\ unit'[q] = unit[q]
           /\ pc'[p] = "idle" /\ cmd'[p] = NoCommand /\ todo'[p] = {}
           /\ seen'[p] = [n \in Names |-> Absent] /\ walk'[p] = NoWalk /\ unit'[p] = NoUnit
           /\ pc' \in [Procs -> Places] /\ cmd' \in [Procs -> Commands \cup {NoCommand}]
           /\ seen' \in [Procs -> [Names -> Dirs]]
           /\ walk' \in [Procs -> [at : Names \cup {None}, been : SUBSET Names]]
           /\ todo' \in [Procs -> SUBSET Names]
           /\ queue' \in [Procs -> SUBSET Procs] /\ queue'[p] = {}
           /\ unit' \in [Procs -> Units]
  <1>1. "idle" \in Places /\ NoUnit \in Units /\ [n \in Names |-> Absent] \in [Names -> Dirs]
    BY DEF Places, Units, Dirs
  <1>2. NoWalk \in [at : Names \cup {None}, been : SUBSET Names]
    BY DEF NoWalk
  <1>3. /\ pc'   = [pc EXCEPT ![p] = "idle"]
        /\ cmd'  = [cmd EXCEPT ![p] = NoCommand]
        /\ seen' = [seen EXCEPT ![p] = [n \in Names |-> Absent]]
        /\ walk' = [walk EXCEPT ![p] = NoWalk]
        /\ todo' = [todo EXCEPT ![p] = {}]
        /\ queue' = [queue EXCEPT ![p] = {}]
        /\ unit' = [unit EXCEPT ![p] = NoUnit]
    BY DEF Return, Goto, NoWalk
  <1>4. \A q \in Procs \ {p} : Same(q) /\ unit'[q] = unit[q]
    BY <1>3 DEF Same, TypeOK
  <1>5. /\ pc' \in [Procs -> Places] /\ pc'[p] = "idle"
        /\ cmd' \in [Procs -> Commands \cup {NoCommand}] /\ cmd'[p] = NoCommand
        /\ seen' \in [Procs -> [Names -> Dirs]] /\ seen'[p] = [n \in Names |-> Absent]
    BY <1>1, <1>3 DEF TypeOK
  <1>6. /\ walk' \in [Procs -> [at : Names \cup {None}, been : SUBSET Names]] /\ walk'[p] = NoWalk
        /\ todo' \in [Procs -> SUBSET Names] /\ todo'[p] = {}
        /\ queue' \in [Procs -> SUBSET Procs] /\ queue'[p] = {}
        /\ unit' \in [Procs -> Units] /\ unit'[p] = NoUnit
    BY <1>1, <1>2, <1>3 DEF TypeOK
  <1> QED
    BY <1>4, <1>5, <1>6

\* A command that goes on goes to another step.
LEMMA GotoIs ==
    ASSUME TypeOK, NEW p \in Procs, NEW where \in Places, Goto(p, where)
    PROVE  pc' \in [Procs -> Places] /\ pc'[p] = where /\ \A q \in Procs \ {p} : pc'[q] = pc[q]
  BY DEF Goto, TypeOK

\* and may load a task.
LEMMA SawIs ==
    ASSUME TypeOK, NEW p \in Procs, NEW n \in Names, Saw(p, n)
    PROVE  /\ seen' \in [Procs -> [Names -> Dirs]]
           /\ seen'[p][n] = active[n]
           /\ \A m \in Names \ {n} : seen'[p][m] = seen[p][m]
           /\ \A q \in Procs \ {p} : seen'[q] = seen[q]
  BY DEF Saw, TypeOK

\* The memory of an idle process fits.
LEMMA IdleFits ==
    ASSUME NEW p \in Procs, pc'[p] = "idle", cmd'[p] = NoCommand, unit'[p] = NoUnit,
           seen'[p] = [n \in Names |-> Absent], walk'[p] = NoWalk
    PROVE  Fits(p)'
  BY DEF Fits, LinkSteps, ArchiveSteps, CreateSteps, NoCommand, NoUnit, NoWalk, Pending, Updates,
         IsFull

-----------------------------------------------------------------------------
(* The type invariant, one action after the other.                         *)

HandOK ==
    /\ pc \in [Procs -> Places]
    /\ cmd \in [Procs -> Commands \cup {NoCommand}]
    /\ seen \in [Procs -> [Names -> Dirs]]
    /\ walk \in [Procs -> [at : Names \cup {None}, been : SUBSET Names]]
    /\ todo \in [Procs -> SUBSET Names]
    /\ queue \in [Procs -> SUBSET Procs]
    /\ unit \in [Procs -> Units]

TreeOK ==
    /\ active \in [Names -> Dirs] /\ stored \in [Names -> Dirs]
    /\ edits \in [Names -> Nat] /\ torn \subseteq Names
    /\ faults \in Nat /\ crashes \in Nat /\ commands \in Nat

HistoryOK ==
    /\ crossed \subseteq Procs /\ raced \in BOOLEAN
    /\ blurred \subseteq Names /\ stale \subseteq Names

LEMMA TypeParts == TypeOK <=> HandOK /\ TreeOK /\ HistoryOK
  BY DEF TypeOK, HandOK, TreeOK, HistoryOK

LEMMA TreeKept ==
    ASSUME TreeOK, UNCHANGED <<tree, bounds, edits, torn>> PROVE TreeOK'
  BY DEF TreeOK, tree, bounds

\* A process at a step has a command, and knows its own task.
LEMMA InHand ==
    ASSUME Shape, NEW p \in Procs
    PROVE  /\ seen[p] \in [Names -> Dirs]
           /\ pc[p] # "idle" =>
                 /\ cmd[p] \in Commands /\ cmd[p].task \in Names
                 /\ cmd[p].kind \in {"link", "unlink", "edit", "archive", "create"}
                 /\ cmd[p].kind \in {"link", "unlink"} => cmd[p].of \in Names
                 /\ cmd[p].kind = "create" => cmd[p].of \in Names \cup {None}
                                              /\ cmd[p].deps \in SUBSET Names
           /\ pc[p] \in LinkSteps =>
                 cmd[p].kind \in {"link", "unlink", "create"} /\ cmd[p].of \in Names
           /\ pc[p] \in ArchiveSteps => cmd[p].kind = "archive"
           /\ pc[p] \in CreateSteps => cmd[p].kind = "create"
  <1>1. seen[p] \in [Names -> Dirs] /\ Fits(p)
    BY DEF Shape, TypeOK
  <1>2. (pc[p] # "idle" => cmd[p] \in Commands)
        /\ (pc[p] \in LinkSteps => cmd[p].kind \in {"link", "unlink", "create"} /\ cmd[p].of # None)
        /\ (pc[p] \in ArchiveSteps => cmd[p].kind = "archive")
        /\ (pc[p] \in CreateSteps => cmd[p].kind = "create")
    BY <1>1 DEF Fits
  <1>3. pc[p] \in LinkSteps => pc[p] # "idle"
    BY DEF LinkSteps
  <1> QED
    BY <1>1, <1>2, <1>3, CommandFields

LEMMA RefuseFits ==
    ASSUME Shape, NEW p \in Procs, pc[p] \in LinkSteps, p \notin Pending, Refuse(p)
    PROVE  HandOK' /\ Fits(p)'
  <1>1. CASE cmd[p].kind = "create"
    <2>1. Goto(p, "takeback") /\ UNCHANGED <<memory, unit>>
      BY <1>1 DEF Refuse
    <2>2. pc' \in [Procs -> Places] /\ pc'[p] = "takeback"
      BY <2>1, GotoIs DEF Shape, Places, CreateSteps
    <2>3. HandOK'
      BY <2>1, <2>2 DEF Shape, TypeOK, HandOK, memory
    <2>4. cmd[p] \in Commands /\ p \notin Pending'
      BY <2>1, InHand DEF LinkSteps, Pending
    <2> QED
      BY <1>1, <2>1, <2>2, <2>3, <2>4 DEF Fits, memory, LinkSteps, ArchiveSteps, CreateSteps
  <1>2. CASE cmd[p].kind # "create"
    BY <1>2, ReturnIs, IdleFits DEF Refuse, Shape, HandOK
  <1> QED
    BY <1>1, <1>2

LEMMA LinkedFits ==
    ASSUME Shape, NEW p \in Procs, pc[p] \in LinkSteps, p \notin Pending, Linked(p)
    PROVE  HandOK' /\ Fits(p)'
  <1>1. CASE cmd[p].kind = "create"
    <2>1. Goto(p, "anchor") /\ UNCHANGED <<memory, unit>>
      BY <1>1 DEF Linked
    <2>2. pc' \in [Procs -> Places] /\ pc'[p] = "anchor"
      BY <2>1, GotoIs DEF Shape, Places, CreateSteps
    <2>3. HandOK'
      BY <2>1, <2>2 DEF Shape, TypeOK, HandOK, memory
    <2>4. cmd[p] \in Commands /\ p \notin Pending' /\ IsFull(seen[p][cmd[p].task])
      BY <1>1, <2>1, InHand DEF LinkSteps, Pending, Shape, Fits
    <2> QED
      BY <1>1, <2>1, <2>2, <2>3, <2>4 DEF Fits, memory, LinkSteps, ArchiveSteps, CreateSteps
  <1>2. CASE cmd[p].kind # "create"
    BY <1>2, ReturnIs, IdleFits DEF Linked, Shape, HandOK
  <1> QED
    BY <1>1, <1>2

\* Only a process at its commit, or one that was killed there, has a unit
\* that is pending.
LEMMA NotPending ==
    ASSUME Shape, NEW p \in Procs, pc[p] \notin {"commit", "dead"}
    PROVE  p \notin Pending
  BY DEF Shape, Fits

LEMMA StartFits ==
    ASSUME Shape, NEW p \in Procs, Start(p)
    PROVE  HandOK' /\ TreeOK' /\ Fits(p)'
  <1>1. PICK c \in Commands :
            /\ cmd' = [cmd EXCEPT ![p] = c]
            /\ Goto(p, IF c.kind \in {"link", "unlink"} THEN "parent" ELSE c.kind)
    BY DEF Start
  <1>2. /\ pc[p] = "idle" /\ commands' = commands + 1
        /\ UNCHANGED <<tree, seen, walk, todo, queue, unit, faults, crashes, edits, torn>>
    BY DEF Start
  <1> DEFINE where == IF c.kind \in {"link", "unlink"} THEN "parent" ELSE c.kind
  <1>3. /\ c.kind \in {"link", "unlink", "edit", "archive", "create"}
        /\ c.kind \in {"link", "unlink"} => c.of \in Names
    BY CommandFields
  <1>4. where \in {"parent", "edit", "archive", "create"} /\ where \in Places
    BY <1>3 DEF Places, LinkSteps, ArchiveSteps, CreateSteps
  <1>5. pc' \in [Procs -> Places] /\ pc'[p] = where
    BY <1>1, <1>4, GotoIs DEF Shape
  <1>6. cmd' \in [Procs -> Commands \cup {NoCommand}] /\ cmd'[p] = c
    BY <1>1 DEF Shape, TypeOK
  <1>7. HandOK' /\ TreeOK'
    BY <1>2, <1>5, <1>6 DEF Shape, TypeOK, HandOK, TreeOK, tree
  <1>8. p \notin Pending'
    BY <1>2, NotPending DEF Pending
  <1>9. pc'[p] # "idle" /\ cmd'[p] \in Commands
    BY <1>4, <1>5, <1>6
  <1>10. /\ where = "parent" => c.kind \in {"link", "unlink"}
         /\ where # "parent" => where = c.kind
    BY <1>3
  <1>12. walk'[p].been = {} /\ \A n \in Names : seen'[p][n] = Absent
    BY <1>2 DEF Shape, Fits
  <1>11. Fits(p)'
    BY <1>3, <1>4, <1>5, <1>6, <1>8, <1>10, <1>12, NamesAssumption
    DEF Fits, LinkSteps, ArchiveSteps, CreateSteps
  <1> QED
    BY <1>7, <1>11

LEMMA LoadParentFits ==
    ASSUME Shape, NEW p \in Procs, LoadParent(p)
    PROVE  HandOK' /\ TreeOK' /\ Fits(p)'
  <1>1. pc[p] = "parent" /\ pc[p] \in LinkSteps /\ p \notin Pending
    BY NotPending DEF LoadParent, LinkSteps
  <1>2. TreeOK'
    BY TreeKept, TypeParts DEF LoadParent, Shape
  <1>3. CASE IsFull(active[cmd[p].of])
    <2>1. Saw(p, cmd[p].of) /\ Goto(p, "child") /\ UNCHANGED <<cmd, walk, todo, queue, unit>>
      BY <1>3 DEF LoadParent
    <2>2. cmd[p] \in Commands /\ cmd[p].of \in Names
      BY <1>1, InHand
    <2>3. seen' \in [Procs -> [Names -> Dirs]] /\ IsFull(seen'[p][cmd[p].of])
      BY <1>3, <2>1, <2>2, SawIs DEF Shape
    <2>4. pc' \in [Procs -> Places] /\ pc'[p] = "child"
      BY <2>1, GotoIs DEF Shape, Places, LinkSteps
    <2>5. HandOK' /\ p \notin Pending'
      BY <1>1, <2>1, <2>3, <2>4 DEF Shape, TypeOK, HandOK, Pending
    <2>6. cmd[p].kind = "create" => IsFull(seen'[p][cmd[p].task])
      BY <1>1, <1>3, <2>1, <2>2, SawIs, InHand DEF Shape, Fits
    <2>7. cmd[p].kind \in {"link", "unlink", "create"} /\ cmd[p].of # None
      BY <1>1, InHand, NamesAssumption
    <2>8. Fits(p)'
      <3>1. walk'[p].been = {}
        BY <1>1, <2>1 DEF Shape, Fits
      <3> QED
        BY <2>1, <2>2, <2>3, <2>4, <2>5, <2>6, <2>7, <3>1
        DEF Fits, LinkSteps, ArchiveSteps, CreateSteps
    <2> QED
      BY <1>2, <2>5, <2>8
  <1>4. CASE ~IsFull(active[cmd[p].of])
    BY <1>1, <1>2, <1>4, RefuseFits DEF LoadParent
  <1> QED
    BY <1>3, <1>4

\* A unit that is pending is the unit of two tasks.
LEMMA UnitIs ==
    ASSUME TypeOK, NEW q \in Pending
    PROVE  /\ q \in Procs /\ unit[q] # NoUnit /\ unit[q].phase \in {"prepared", "half"}
           /\ unit[q] \in [phase : {"prepared", "half", "conflicted", "committed"},
                           task : Names, of : Names,
                           before : Docs \X Docs, after : Docs \X Docs]
           /\ unit[q].task \in Names /\ unit[q].of \in Names
           /\ unit[q].before[1] \in Docs /\ unit[q].before[2] \in Docs
           /\ unit[q].after[1] \in Docs /\ unit[q].after[2] \in Docs
  <1>1. q \in Procs /\ unit[q] \in Units /\ unit[q].phase \in {"prepared", "half"}
    BY DEF Pending, TypeOK
  <1>2. unit[q] # NoUnit
    BY <1>1 DEF NoUnit
  <1>3. unit[q] \in [phase : {"prepared", "half", "conflicted", "committed"},
                     task : Names, of : Names,
                     before : Docs \X Docs, after : Docs \X Docs]
    BY <1>1, <1>2 DEF Units
  <1> QED
    BY <1>1, <1>2, <1>3

\* One write of a unit: the phase it comes to, and what it does to its tasks.
LEMMA AdvanceIs ==
    ASSUME TypeOK, NEW q \in Pending, Advance(q)
    PROVE  /\ active' \in [Names -> Dirs] /\ unit' \in [Procs -> Units]
           /\ \A r \in Procs \ {q} : unit'[r] = unit[r]
           /\ unit'[q].phase \in {"half", "conflicted", "committed"}
           /\ unit'[q].task = unit[q].task /\ unit'[q].of = unit[q].of
           /\ unit'[q].before = unit[q].before /\ unit'[q].after = unit[q].after
           /\ unit'[q] # NoUnit
           /\ torn \subseteq torn' /\ torn' \subseteq torn \cup {unit[q].task, unit[q].of}
           /\ \A n \in Names :
                 /\ IsFull(active[n]) => IsFull(active'[n])
                 /\ n \notin {unit[q].task, unit[q].of} => active'[n] = active[n]
  <1> DEFINE u == unit[q]
  <1>1. /\ q \in Procs /\ u.phase \in {"prepared", "half"}
        /\ u \in [phase : {"prepared", "half", "conflicted", "committed"},
                  task : Names, of : Names, before : Docs \X Docs, after : Docs \X Docs]
        /\ u.task \in Names /\ u.of \in Names
        /\ u.before[1] \in Docs /\ u.before[2] \in Docs
        /\ u.after[1] \in Docs /\ u.after[2] \in Docs
    BY UnitIs
  <1>2. active \in [Names -> Dirs] /\ unit \in [Procs -> Units]
    BY DEF TypeOK
  <1>3. PICK phase \in {"half", "conflicted", "committed"} : unit' = [unit EXCEPT ![q].phase = phase]
    BY <1>1 DEF Advance, First, Second
  <1>4. /\ \A r \in Procs \ {q} : unit'[r] = unit[r]
        /\ unit'[q] = [u EXCEPT !.phase = phase]
    BY <1>1, <1>2, <1>3
  <1>5. /\ [u EXCEPT !.phase = phase] \in Units
        /\ [u EXCEPT !.phase = phase].phase = phase
        /\ [u EXCEPT !.phase = phase].task = u.task
        /\ [u EXCEPT !.phase = phase].of = u.of
        /\ [u EXCEPT !.phase = phase].before = u.before
        /\ [u EXCEPT !.phase = phase].after = u.after
    BY <1>1 DEF Units
  <1>6. unit' \in [Procs -> Units] /\ unit'[q] # NoUnit
    BY <1>1, <1>2, <1>3, <1>4, <1>5 DEF NoUnit
  <1>9. torn' = torn \/ torn' = torn \cup {u.of, u.task}
    BY DEF Advance, First, Second
  <1>7. CASE u.phase = "prepared"
    <2>1. CASE Writable(active[u.of], u.before[1].rev)
      <3>1. active' = [active EXCEPT ![u.of] = Written(@, u.after[1])]
        BY <1>7, <2>1 DEF Advance, First
      <3>2. Written(active[u.of], u.after[1]) \in Dirs /\ IsFull(Written(active[u.of], u.after[1]))
        BY <1>1, <1>2, WrittenIs
      <3> QED
        BY <1>1, <1>2, <1>4, <1>5, <1>6, <1>9, <3>1, <3>2
    <2>2. CASE ~Writable(active[u.of], u.before[1].rev)
      <3>1. active' = [active EXCEPT ![u.of] = Locked(@)]
        BY <1>7, <2>2 DEF Advance, First
      <3>2. /\ Locked(active[u.of]) \in Dirs
            /\ IsFull(active[u.of]) => IsFull(Locked(active[u.of]))
        BY <1>1, <1>2, LockedIs
      <3> QED
        BY <1>1, <1>2, <1>4, <1>5, <1>6, <1>9, <3>1, <3>2
    <2> QED
      BY <2>1, <2>2
  <1>8. CASE u.phase # "prepared"
    <2>1. CASE Writable(active[u.task], u.before[2].rev)
      <3>1. active' = [active EXCEPT ![u.task] = Written(@, u.after[2])]
        BY <1>8, <2>1 DEF Advance, Second
      <3>2. /\ Written(active[u.task], u.after[2]) \in Dirs
            /\ IsFull(Written(active[u.task], u.after[2]))
        BY <1>1, <1>2, WrittenIs
      <3> QED
        BY <1>1, <1>2, <1>4, <1>5, <1>6, <1>9, <3>1, <3>2
    <2>2. CASE ~Writable(active[u.task], u.before[2].rev)
      <3> DEFINE lock == [active EXCEPT ![u.task] = Locked(@)]
      <3>1. active' = [lock EXCEPT ![u.of] = Undone(u, @)]
        BY <1>8, <2>2 DEF Advance, Second
      <3>2. /\ Locked(active[u.task]) \in Dirs
            /\ IsFull(active[u.task]) => IsFull(Locked(active[u.task]))
        BY <1>1, <1>2, LockedIs
      <3>3. /\ lock \in [Names -> Dirs]
            /\ \A n \in Names : /\ IsFull(active[n]) => IsFull(lock[n])
                                /\ n # u.task => lock[n] = active[n]
        BY <1>1, <1>2, <3>2
      <3> HIDE DEF lock
      <3>4. /\ Undone(u, lock[u.of]) \in Dirs
            /\ IsFull(lock[u.of]) => IsFull(Undone(u, lock[u.of]))
        BY <1>1, <3>3, UndoneIs
      <3>5. /\ active' \in [Names -> Dirs]
            /\ \A n \in Names : /\ IsFull(lock[n]) => IsFull(active'[n])
                                /\ n # u.of => active'[n] = lock[n]
        BY <1>1, <3>1, <3>3, <3>4
      <3> QED
        BY <1>4, <1>5, <1>6, <1>9, <3>3, <3>5
    <2> QED
      BY <2>1, <2>2
  <1> QED
    BY <1>7, <1>8

LEMMA LoadChildFits ==
    ASSUME Shape, NEW p \in Procs, LoadChild(p)
    PROVE  HandOK' /\ TreeOK' /\ Fits(p)'
  <1> DEFINE child == active[cmd[p].task]
             of == cmd[p].of
             listed == cmd[p].task \in seen[p][of].doc.children
             linking == cmd[p].kind # "unlink"
  <1>1. pc[p] = "child" /\ pc[p] \in LinkSteps /\ p \notin Pending
    BY NotPending DEF LoadChild, LinkSteps
  <1>2. TreeOK'
    BY TreeKept, TypeParts DEF LoadChild, Shape
  <1>3. \/ Refuse(p)
        \/ Linked(p)
        \/ ~linking /\ Return(p)
        \/ /\ IsFull(child)
           /\ Saw(p, cmd[p].task)
           /\ walk' = [walk EXCEPT ![p].at = of]
           /\ Goto(p, IF linking THEN "walk" ELSE "list")
           /\ UNCHANGED <<cmd, todo, queue, unit>>
    BY DEF LoadChild
  <1>4. CASE Refuse(p)
    BY <1>1, <1>2, <1>4, RefuseFits
  <1>5. CASE Linked(p)
    BY <1>1, <1>2, <1>5, LinkedFits
  <1>6. CASE Return(p)
    BY <1>2, <1>6, ReturnIs, IdleFits DEF Shape, HandOK
  <1>7. CASE /\ IsFull(child)
             /\ Saw(p, cmd[p].task)
             /\ walk' = [walk EXCEPT ![p].at = of]
             /\ Goto(p, IF linking THEN "walk" ELSE "list")
             /\ UNCHANGED <<cmd, todo, queue, unit>>
    <2>1. /\ cmd[p] \in Commands /\ cmd[p].task \in Names /\ of \in Names /\ of # None
          /\ cmd[p].kind \in {"link", "unlink", "create"}
      BY <1>1, InHand, NamesAssumption
    <2>2. IsFull(seen[p][of])
      BY <1>1 DEF Shape, Fits
    <2>3. /\ seen' \in [Procs -> [Names -> Dirs]]
          /\ IsFull(seen'[p][cmd[p].task]) /\ IsFull(seen'[p][of])
      BY <1>7, <2>1, <2>2, SawIs DEF Shape
    <2>4. pc' \in [Procs -> Places] /\ pc'[p] \in {"walk", "list"}
      BY <1>7, GotoIs DEF Shape, Places, LinkSteps
    <2>5. /\ walk' \in [Procs -> [at : Names \cup {None}, been : SUBSET Names]]
          /\ walk'[p].at # None
      BY <1>7, <2>1 DEF Shape, TypeOK
    <2>6. HandOK' /\ p \notin Pending'
      BY <1>1, <1>7, <2>3, <2>4, <2>5 DEF Shape, TypeOK, HandOK, Pending
    <2>7. Fits(p)'
      BY <1>7, <2>1, <2>3, <2>4, <2>5, <2>6 DEF Fits, LinkSteps, ArchiveSteps, CreateSteps
    <2> QED
      BY <1>2, <2>6, <2>7
  <1> QED
    BY <1>3, <1>4, <1>5, <1>6, <1>7

LEMMA WalkFits ==
    ASSUME Shape, NEW p \in Procs, Walk(p)
    PROVE  HandOK' /\ TreeOK' /\ Fits(p)'
  <1> DEFINE at == walk[p].at
             above == IF IsFull(active[at]) THEN active[at].doc.parent ELSE None
  <1>1. pc[p] = "walk" /\ pc[p] \in LinkSteps /\ p \notin Pending
    BY NotPending DEF Walk, LinkSteps
  <1>2. TreeOK'
    BY TreeKept, TypeParts DEF Walk, Shape
  <1>3. \/ Refuse(p)
        \/ /\ walk' = [walk EXCEPT ![p] = [at |-> above, been |-> @.been \cup {at}]]
           /\ Goto(p, IF above = None THEN "list" ELSE "walk")
           /\ UNCHANGED <<cmd, seen, todo, queue, unit>>
    BY DEF Walk
  <1>4. CASE Refuse(p)
    BY <1>1, <1>2, <1>4, RefuseFits
  <1>5. CASE /\ walk' = [walk EXCEPT ![p] = [at |-> above, been |-> @.been \cup {at}]]
             /\ Goto(p, IF above = None THEN "list" ELSE "walk")
             /\ UNCHANGED <<cmd, seen, todo, queue, unit>>
    <2>1. /\ walk[p] \in [at : Names \cup {None}, been : SUBSET Names]
          /\ active \in [Names -> Dirs]
      BY DEF Shape, TypeOK
    <2>2. at \in Names
      BY <1>1, <2>1 DEF Shape, Fits
    <2>3. above \in Names \cup {None}
      BY <2>1, <2>2, DirKinds DEF Docs
    <2>4. pc' \in [Procs -> Places] /\ pc'[p] = IF above = None THEN "list" ELSE "walk"
      BY <1>5, GotoIs DEF Shape, Places, LinkSteps
    <2>5. /\ walk' \in [Procs -> [at : Names \cup {None}, been : SUBSET Names]]
          /\ walk'[p].at = above
      BY <1>5, <2>1, <2>2, <2>3 DEF Shape, TypeOK
    <2>6. HandOK' /\ p \notin Pending'
      BY <1>1, <1>5, <2>4, <2>5 DEF Shape, TypeOK, HandOK, Pending
    <2>7. /\ cmd[p] \in Commands /\ cmd[p].of # None /\ cmd[p].kind \in {"link", "unlink", "create"}
          /\ IsFull(seen[p][cmd[p].of]) /\ IsFull(seen[p][cmd[p].task])
      BY <1>1, InHand, NamesAssumption DEF Shape, Fits
    <2>8. Fits(p)'
      BY <1>5, <2>4, <2>5, <2>6, <2>7 DEF Fits, LinkSteps, ArchiveSteps, CreateSteps
    <2> QED
      BY <1>2, <2>6, <2>8
  <1> QED
    BY <1>3, <1>4, <1>5

LEMMA ListFits ==
    ASSUME Shape, NEW p \in Procs, List(p)
    PROVE  HandOK' /\ TreeOK' /\ Fits(p)'
  <1>1. /\ pc[p] = "list" /\ pc[p] \in LinkSteps /\ p \notin Pending
        /\ queue' = [queue EXCEPT ![p] = Pending] /\ Goto(p, "settle")
        /\ UNCHANGED <<tree, cmd, seen, walk, todo, unit, bounds, edits, torn>>
    BY NotPending DEF List, LinkSteps
  <1>2. TreeOK'
    BY <1>1, TreeKept, TypeParts DEF Shape
  <1>3. pc' \in [Procs -> Places] /\ pc'[p] = "settle"
    BY <1>1, GotoIs DEF Shape, Places, LinkSteps
  <1>4. queue' \in [Procs -> SUBSET Procs]
    BY <1>1 DEF Shape, TypeOK, Pending
  <1>5. HandOK' /\ p \notin Pending'
    BY <1>1, <1>3, <1>4 DEF Shape, TypeOK, HandOK, Pending
  <1>6. /\ cmd[p] \in Commands /\ cmd[p].of # None /\ cmd[p].kind \in {"link", "unlink", "create"}
        /\ IsFull(seen[p][cmd[p].of]) /\ IsFull(seen[p][cmd[p].task])
    BY <1>1, InHand, NamesAssumption DEF Shape, Fits
  <1>7. Fits(p)'
    BY <1>1, <1>3, <1>5, <1>6 DEF Fits, LinkSteps, ArchiveSteps, CreateSteps
  <1> QED
    BY <1>2, <1>5, <1>7

\* A recovery takes a unit of another command one write further, or finds one
\* that was decided.
LEMMA RecoverIs ==
    ASSUME Shape, NEW p \in Procs, Recover(p)
    PROVE  /\ pc[p] = "settle" /\ pc[p] \in LinkSteps /\ p \notin Pending
           /\ UNCHANGED <<stored, memory, bounds, edits>>
           /\ pc' \in [Procs -> Places] /\ pc'[p] \in {"refused", "settle"}
           /\ \A q \in Procs \ {p} : pc'[q] = pc[q]
           /\ \/ UNCHANGED <<active, unit, torn>>
              \/ \E q \in Pending : q # p /\ Advance(q)
  <1>1. /\ pc[p] = "settle" /\ pc[p] \in LinkSteps /\ p \notin Pending
        /\ UNCHANGED <<stored, memory, bounds, edits>>
    BY NotPending DEF Recover, LinkSteps
  <1>2. PICK where \in {"refused", "settle"} : Goto(p, where)
    BY DEF Recover
  <1>3. where \in Places
    BY DEF Places, LinkSteps
  <1>4. /\ pc' \in [Procs -> Places] /\ pc'[p] \in {"refused", "settle"}
        /\ \A q \in Procs \ {p} : pc'[q] = pc[q]
    BY <1>2, <1>3, GotoIs DEF Shape
  <1>5. \/ UNCHANGED <<active, unit, torn>>
        \/ \E q \in Pending : q # p /\ Advance(q)
    BY <1>1 DEF Recover
  <1> QED
    BY <1>1, <1>4, <1>5

LEMMA RecoverFits ==
    ASSUME Shape, NEW p \in Procs, Recover(p)
    PROVE  HandOK' /\ TreeOK' /\ Fits(p)'
  <1>1. /\ pc[p] = "settle" /\ pc[p] \in LinkSteps /\ p \notin Pending
        /\ UNCHANGED <<stored, memory, bounds, edits>>
        /\ pc' \in [Procs -> Places] /\ pc'[p] \in {"refused", "settle"}
    BY RecoverIs
  <1>2. /\ active' \in [Names -> Dirs] /\ unit' \in [Procs -> Units]
        /\ unit'[p] = unit[p] /\ torn' \subseteq Names
    <2>1. CASE UNCHANGED <<active, unit, torn>>
      BY <2>1 DEF Shape, TypeOK
    <2>2. ASSUME NEW q \in Pending, q # p, Advance(q) PROVE <1>2
      <3>1. TypeOK /\ torn \subseteq Names
        BY DEF Shape, TypeOK
      <3> QED
        BY <2>2, <3>1, AdvanceIs, UnitIs
    <2> QED
      BY <2>1, <2>2, RecoverIs
  <1>3. HandOK' /\ TreeOK' /\ p \notin Pending'
    BY <1>1, <1>2 DEF Shape, TypeOK, HandOK, TreeOK, Pending, memory, bounds
  <1>4. /\ cmd[p] \in Commands /\ cmd[p].of # None /\ cmd[p].kind \in {"link", "unlink", "create"}
        /\ IsFull(seen[p][cmd[p].of]) /\ IsFull(seen[p][cmd[p].task])
    BY <1>1, InHand, NamesAssumption DEF Shape, Fits
  <1>5. Fits(p)'
    BY <1>1, <1>3, <1>4 DEF Fits, LinkSteps, ArchiveSteps, CreateSteps, memory
  <1> QED
    BY <1>3, <1>5

LEMMA PrepareFits ==
    ASSUME Shape, NEW p \in Procs, Prepare(p)
    PROVE  /\ HandOK' /\ TreeOK' /\ Fits(p)'
           /\ \A q \in Procs \ {p} : unit'[q] = unit[q]
           /\ unit'[p].task = cmd[p].task /\ unit'[p].of = cmd[p].of
           /\ unit'[p].phase = "prepared"
           /\ unit'[p].before = <<seen[p][cmd[p].of].doc, seen[p][cmd[p].task].doc>>
           /\ unit'[p].after = Joined(cmd[p], unit'[p].before)
           /\ cmd'[p] = cmd[p] /\ cmd[p].kind \in {"link", "unlink", "create"}
  <1> DEFINE docs == <<seen[p][cmd[p].of].doc, seen[p][cmd[p].task].doc>>
  <1>1. pc[p] = "settle" /\ pc[p] \in LinkSteps
    BY DEF Prepare, LinkSteps
  <1>2. TreeOK'
    BY TypeParts DEF Prepare, Shape, TreeOK, bounds, tree
  <1>3. /\ cmd[p] \in Commands /\ cmd[p].task \in Names /\ cmd[p].of \in Names /\ cmd[p].of # None
        /\ cmd[p].kind \in {"link", "unlink", "create"}
        /\ IsFull(seen[p][cmd[p].of]) /\ IsFull(seen[p][cmd[p].task])
        /\ seen[p] \in [Names -> Dirs]
    BY <1>1, InHand, NamesAssumption DEF Shape, Fits
  <1>4. docs \in Docs \X Docs
    BY <1>3, DirKinds
  <1>5. After(p) = Joined(cmd[p], docs) /\ After(p) \in Docs \X Docs
    <2>1. After(p) = Joined(cmd[p], docs)
      BY DEF After, Joined
    <2>2. docs[1] \in Docs /\ docs[2] \in Docs
      BY <1>4
    <2> DEFINE c == cmd[p]
    <2>3. c.task \in Names /\ c.of \in Names
      BY <1>3
    <2> HIDE DEF docs, c
    <2>4. Joined(c, docs) \in Docs \X Docs
      BY <2>2, <2>3, JoinedIs
    <2> USE DEF c
    <2> QED
      BY <2>1, <2>4
  <1> DEFINE new == [phase |-> "prepared", task |-> cmd[p].task, of |-> cmd[p].of,
                     before |-> docs, after |-> After(p)]
  <1>6. new \in Units
    BY <1>3, <1>4, <1>5 DEF Units
  <1>7. /\ unit' = [unit EXCEPT ![p] = new] /\ Goto(p, "commit")
        /\ UNCHANGED <<tree, memory, bounds, edits, torn>>
    BY DEF Prepare
  <1>8. /\ unit' \in [Procs -> Units] /\ unit'[p] = new
        /\ \A q \in Procs \ {p} : unit'[q] = unit[q]
    BY <1>6, <1>7 DEF Shape, TypeOK
  <1>9. pc' \in [Procs -> Places] /\ pc'[p] = "commit"
    BY <1>7, GotoIs DEF Shape, Places, LinkSteps
  <1>10. HandOK'
    BY <1>7, <1>8, <1>9 DEF Shape, TypeOK, HandOK, memory
  <1>11. Fits(p)'
    BY <1>3, <1>7, <1>9, NamesAssumption DEF Fits, LinkSteps, ArchiveSteps, CreateSteps, memory
  <1>12. /\ new.task = cmd[p].task /\ new.of = cmd[p].of /\ new.phase = "prepared"
         /\ new.before = docs /\ new.after = After(p)
    OBVIOUS
  <1>13. cmd'[p] = cmd[p]
    BY <1>7 DEF memory
  <1> HIDE DEF new
  <1> QED
    BY <1>2, <1>3, <1>5, <1>8, <1>10, <1>11, <1>12, <1>13

LEMMA CommitFits ==
    ASSUME Shape, NEW p \in Procs, Commit(p)
    PROVE  HandOK' /\ TreeOK' /\ Fits(p)'
  <1>1. /\ pc[p] = "commit" /\ pc[p] \in LinkSteps /\ p \in Pending /\ Advance(p)
        /\ UNCHANGED <<stored, pc, memory, bounds, edits>>
    BY DEF Commit, LinkSteps, Pending
  <1>2. active' \in [Names -> Dirs] /\ unit' \in [Procs -> Units] /\ torn' \subseteq Names
    <2>1. TypeOK /\ torn \subseteq Names
      BY DEF Shape, TypeOK
    <2> QED
      BY <1>1, <2>1, AdvanceIs, UnitIs
  <1>3. HandOK' /\ TreeOK'
    BY <1>1, <1>2 DEF Shape, TypeOK, HandOK, TreeOK, memory, bounds
  <1>4. /\ cmd[p] \in Commands /\ cmd[p].of # None /\ cmd[p].kind \in {"link", "unlink", "create"}
        /\ cmd[p].kind = "create" => IsFull(seen[p][cmd[p].task])
    BY <1>1, InHand, NamesAssumption DEF Shape, Fits
  <1>5. Fits(p)'
    BY <1>1, <1>4 DEF Fits, LinkSteps, ArchiveSteps, CreateSteps, memory
  <1> QED
    BY <1>3, <1>5

LEMMA CommittedFits ==
    ASSUME Shape, NEW p \in Procs, Committed(p)
    PROVE  HandOK' /\ TreeOK' /\ Fits(p)'
  <1>1. p \notin Pending /\ pc[p] \in LinkSteps
    BY NotPending DEF Committed, Pending, LinkSteps
  <1>2. TreeOK'
    BY TreeKept, TypeParts DEF Committed, Shape
  <1>3. Linked(p) \/ Refuse(p)
    BY DEF Committed
  <1> QED
    BY <1>1, <1>2, <1>3, LinkedFits, RefuseFits

LEMMA EditLoadFits ==
    ASSUME Shape, NEW p \in Procs, EditLoad(p)
    PROVE  HandOK' /\ TreeOK' /\ Fits(p)'
  <1>1. pc[p] = "edit" /\ p \notin Pending
    BY NotPending DEF EditLoad
  <1>2. TreeOK'
    BY TreeKept, TypeParts DEF EditLoad, Shape
  <1>3. CASE IsFull(active[cmd[p].task])
    <2>1. Saw(p, cmd[p].task) /\ Goto(p, "save") /\ UNCHANGED <<cmd, walk, todo, queue, unit>>
      BY <1>3 DEF EditLoad
    <2>2. cmd[p] \in Commands /\ cmd[p].task \in Names /\ cmd[p].kind = "edit"
      BY <1>1, InHand DEF Shape, Fits
    <2>3. seen' \in [Procs -> [Names -> Dirs]] /\ IsFull(seen'[p][cmd[p].task])
      BY <1>3, <2>1, <2>2, SawIs DEF Shape
    <2>4. pc' \in [Procs -> Places] /\ pc'[p] = "save"
      BY <2>1, GotoIs DEF Shape, Places
    <2>5. HandOK' /\ p \notin Pending'
      BY <1>1, <2>1, <2>3, <2>4 DEF Shape, TypeOK, HandOK, Pending
    <2>6. Fits(p)'
      BY <2>1, <2>2, <2>3, <2>4, <2>5 DEF Fits, LinkSteps, ArchiveSteps, CreateSteps
    <2> QED
      BY <1>2, <2>5, <2>6
  <1>4. CASE ~IsFull(active[cmd[p].task])
    <2>1. Return(p)
      BY <1>4 DEF EditLoad
    <2> QED
      BY <1>2, <2>1, ReturnIs, IdleFits DEF Shape, HandOK
  <1> QED
    BY <1>3, <1>4

LEMMA SaveFits ==
    ASSUME Shape, NEW p \in Procs, Save(p)
    PROVE  HandOK' /\ TreeOK' /\ Fits(p)'
  <1> DEFINE n == cmd[p].task
             doc == seen[p][n].doc
             kept == Writable(active[n], doc.rev)
             new == [doc EXCEPT !.note = @ + 1]
  <1>1. /\ active' = [active EXCEPT ![n] = IF kept THEN Written(@, new) ELSE Locked(@)]
        /\ edits' = [edits EXCEPT ![n] = IF kept THEN @ + 1 ELSE @]
        /\ Return(p) /\ UNCHANGED <<stored, bounds, torn>> /\ pc[p] = "save"
    BY DEF Save
  <1>2. n \in Names /\ seen[p] \in [Names -> Dirs] /\ IsFull(seen[p][n])
    BY <1>1, InHand DEF Shape, Fits
  <1>3. doc \in Docs
    BY <1>2, DirKinds
  <1>4. new \in Docs
    BY <1>3 DEF Docs
  <1>5. active \in [Names -> Dirs] /\ edits \in [Names -> Nat]
    BY DEF Shape, TypeOK
  <1>6. Written(active[n], new) \in Dirs /\ Locked(active[n]) \in Dirs
    BY <1>2, <1>4, <1>5, WrittenIs, LockedIs
  <1> HIDE DEF kept, new
  <1>7. active' \in [Names -> Dirs]
    BY <1>1, <1>2, <1>5, <1>6
  <1>8. edits' \in [Names -> Nat]
    BY <1>1, <1>2, <1>5
  <1>9. TreeOK'
    BY <1>1, <1>7, <1>8 DEF Shape, TypeOK, TreeOK, bounds
  <1> QED
    BY <1>1, <1>9, ReturnIs, IdleFits DEF Shape, HandOK

\* A faulty or a well step spends its bound.
LEMMA FaultIs ==
    ASSUME TypeOK, Fault \/ Well PROVE faults' \in Nat
  BY DEF TypeOK, Fault, Well

LEMMA HandIs ==
    ASSUME Shape, NEW p \in Procs PROVE Hand(p) \subseteq Names
  <1>1. CASE Running(p)
    <2>1. /\ pc[p] # "idle" /\ cmd[p].task \in Names
          /\ cmd[p].kind \in {"link", "unlink", "create"} => cmd[p].of \in Names \cup {None}
      BY <1>1, InHand DEF Running
    <2> QED
      BY <1>1, <2>1 DEF Hand
  <1>2. CASE ~Running(p)
    BY <1>2 DEF Hand
  <1> QED
    BY <1>1, <1>2

\* An archive at one of its steps after the first has loaded its task.
LEMMA Archived ==
    ASSUME Shape, NEW p \in Procs, pc[p] \in ArchiveSteps
    PROVE  /\ p \notin Pending /\ Running(p) /\ cmd[p].kind = "archive"
           /\ cmd[p] \in Commands /\ cmd[p].task \in Names /\ seen[p] \in [Names -> Dirs]
           /\ todo[p] \subseteq Names
           /\ cmd[p].task \in Hand(p) /\ Hand(p) \subseteq Names
           /\ pc[p] # "archive" =>
                 IsFull(seen[p][cmd[p].task]) /\ seen[p][cmd[p].task].doc \in Docs
           /\ pc[p] \in {"relate", "restore"} => todo[p] \subseteq Updates(p)
  <1>1. pc[p] \notin {"idle", "dead", "commit"}
    BY DEF ArchiveSteps
  <1>2. cmd[p] \in Commands /\ cmd[p].task \in Names /\ cmd[p].kind = "archive"
    BY <1>1, InHand
  <1>3. seen[p] \in [Names -> Dirs] /\ todo[p] \subseteq Names
    BY DEF Shape, TypeOK
  <1>4. pc[p] # "archive" => IsFull(seen[p][cmd[p].task])
    BY DEF Shape, Fits
  <1>5. IsFull(seen[p][cmd[p].task]) => seen[p][cmd[p].task].doc \in Docs
    BY <1>2, <1>3, DirKinds
  <1>6. pc[p] \in {"relate", "restore"} => todo[p] \subseteq Updates(p)
    BY DEF Shape, Fits
  <1>7. p \notin Pending /\ Running(p)
    BY <1>1, NotPending DEF Running
  <1>8. Hand(p) \subseteq Names /\ cmd[p].task \in Hand(p)
    BY <1>7, HandIs DEF Hand
  <1> QED
    BY <1>2, <1>3, <1>4, <1>5, <1>6, <1>7, <1>8

\* An archive that goes on to another step, with the same task in hand.
LEMMA ArchiveGoesOn ==
    ASSUME Shape, NEW p \in Procs, pc[p] \in ArchiveSteps, pc[p] # "archive",
           NEW where \in ArchiveSteps \ {"archive"}, pc' \in [Procs -> Places], pc'[p] = where,
           UNCHANGED <<cmd, walk, queue, unit>>,
           seen' \in [Procs -> [Names -> Dirs]],
           IsFull(seen'[p][cmd[p].task]),
           todo' \in [Procs -> SUBSET Names],
           where \in {"relate", "restore"} => todo'[p] \subseteq Updates(p)'
    PROVE  HandOK' /\ Fits(p)'
  <1>1. HandOK'
    BY DEF Shape, TypeOK, HandOK
  <1>2. /\ p \notin Pending' /\ cmd[p] \in Commands /\ cmd[p].kind = "archive"
    BY Archived DEF Pending
  <1>3. Fits(p)'
    BY <1>2 DEF Fits, LinkSteps, ArchiveSteps, CreateSteps
  <1> QED
    BY <1>1, <1>3

\* as a step that leaves its memory alone
LEMMA ArchiveMoves ==
    ASSUME Shape, NEW p \in Procs, pc[p] \in ArchiveSteps, pc[p] # "archive",
           NEW where \in ArchiveSteps \ {"archive", "relate", "restore"}, Goto(p, where),
           UNCHANGED <<memory, unit>>
    PROVE  HandOK' /\ Fits(p)'
  <1>1. where \in Places
    BY DEF Places
  <1>2. pc' \in [Procs -> Places] /\ pc'[p] = where
    BY <1>1, GotoIs DEF Shape
  <1>3. /\ seen' \in [Procs -> [Names -> Dirs]] /\ todo' \in [Procs -> SUBSET Names]
        /\ IsFull(seen'[p][cmd[p].task])
    BY Archived DEF Shape, TypeOK, memory
  <1> QED
    BY <1>2, <1>3, ArchiveGoesOn DEF memory

LEMMA ArchiveLoadFits ==
    ASSUME Shape, NEW p \in Procs, ArchiveLoad(p)
    PROVE  HandOK' /\ TreeOK' /\ Fits(p)'
  <1> DEFINE d == active[cmd[p].task]
  <1>1. pc[p] = "archive" /\ pc[p] \in ArchiveSteps
    BY DEF ArchiveLoad, ArchiveSteps
  <1>2. TreeOK'
    BY TreeKept, TypeParts DEF ArchiveLoad, Shape
  <1>3. CASE IsFull(d) /\ d.doc.status = "completed"
    <2>1. /\ Saw(p, cmd[p].task) /\ todo' = [todo EXCEPT ![p] = Relatives(d.doc)]
          /\ Goto(p, "relatives") /\ UNCHANGED <<cmd, walk, queue, unit>>
      BY <1>3 DEF ArchiveLoad
    <2>2. cmd[p] \in Commands /\ cmd[p].task \in Names /\ cmd[p].kind = "archive" /\ p \notin Pending
      BY <1>1, Archived
    <2>3. /\ seen' \in [Procs -> [Names -> Dirs]]
          /\ IsFull(seen'[p][cmd[p].task])
      BY <1>3, <2>1, <2>2, SawIs DEF Shape
    <2>4. d.doc \in Docs
      BY <1>3, <2>2, DirKinds DEF Shape, TypeOK
    <2>5. Relatives(d.doc) \subseteq Names
      BY <2>4 DEF Relatives, Docs
    <2>6. pc' \in [Procs -> Places] /\ pc'[p] = "relatives"
      BY <2>1, GotoIs DEF Shape, Places, ArchiveSteps
    <2>7. HandOK' /\ p \notin Pending'
      BY <2>1, <2>2, <2>3, <2>5, <2>6 DEF Shape, TypeOK, HandOK, Pending
    <2>8. Fits(p)'
      BY <2>1, <2>2, <2>3, <2>6, <2>7 DEF Fits, LinkSteps, ArchiveSteps, CreateSteps
    <2> QED
      BY <1>2, <2>7, <2>8
  <1>4. CASE ~(IsFull(d) /\ d.doc.status = "completed")
    <2>1. Return(p)
      BY <1>4 DEF ArchiveLoad
    <2> QED
      BY <1>2, <2>1, ReturnIs, IdleFits DEF Shape, HandOK
  <1> QED
    BY <1>3, <1>4

\* A relative that was read is there.
LEMMA ReadRelativeFits ==
    ASSUME Shape, NEW p \in Procs, ReadRelative(p)
    PROVE  /\ HandOK' /\ TreeOK' /\ Fits(p)'
           /\ \A n \in Names : seen'[p][n] # seen[p][n] =>
                 seen'[p][n] = active[n] /\ IsFull(active[n])
           /\ \A q \in Procs \ {p} : pc'[q] = pc[q] /\ seen'[q] = seen[q] /\ todo'[q] = todo[q]
           /\ pc'[p] \in {"relatives", "copy"}
  <1>1. /\ pc[p] = "relatives" /\ pc[p] \in ArchiveSteps
        /\ UNCHANGED <<tree, cmd, walk, queue, unit, bounds, edits, torn>>
    BY DEF ReadRelative, ArchiveSteps
  <1>2. TreeOK'
    BY <1>1, TreeKept, TypeParts DEF Shape
  <1>3. /\ pc \in [Procs -> Places] /\ seen \in [Procs -> [Names -> Dirs]]
        /\ todo \in [Procs -> SUBSET Names]
    BY DEF Shape, TypeOK
  <1>4. CASE todo[p] = {} /\ Goto(p, "copy") /\ UNCHANGED <<seen, todo>>
    <2>1. /\ pc' \in [Procs -> Places] /\ pc'[p] = "copy"
          /\ \A q \in Procs \ {p} : pc'[q] = pc[q]
      BY <1>4, GotoIs DEF Shape, Places, ArchiveSteps
    <2>2. HandOK' /\ Fits(p)'
      BY <1>1, <1>4, ArchiveMoves DEF memory, ArchiveSteps
    <2> QED
      BY <1>2, <1>4, <2>1, <2>2
  <1>5. ASSUME NEW r \in todo[p],
               IF IsFull(active[r]) THEN Saw(p, r) ELSE UNCHANGED seen,
               todo' = [todo EXCEPT ![p] = @ \ {r}], UNCHANGED pc
        PROVE  /\ HandOK' /\ Fits(p)'
               /\ \A n \in Names : seen'[p][n] # seen[p][n] =>
                     seen'[p][n] = active[n] /\ IsFull(active[n])
               /\ \A q \in Procs \ {p} : pc'[q] = pc[q] /\ seen'[q] = seen[q] /\ todo'[q] = todo[q]
               /\ pc'[p] \in {"relatives", "copy"}
    <2>1. r \in Names
      BY <1>1, <1>5, Archived
    <2>2. /\ seen' \in [Procs -> [Names -> Dirs]]
          /\ \A q \in Procs \ {p} : seen'[q] = seen[q]
          /\ \A n \in Names : seen'[p][n] # seen[p][n] =>
                 seen'[p][n] = active[n] /\ IsFull(active[n])
      <3>1. CASE IsFull(active[r])
        BY <1>3, <1>5, <2>1, <3>1, SawIs DEF Shape
      <3>2. CASE ~IsFull(active[r])
        BY <1>3, <1>5, <3>2
      <3> QED
        BY <3>1, <3>2
    <2>3. IsFull(seen'[p][cmd[p].task])
      BY <1>1, <2>2, Archived
    <2>4. /\ todo' \in [Procs -> SUBSET Names] /\ \A q \in Procs \ {p} : todo'[q] = todo[q]
      BY <1>3, <1>5
    <2>5. pc' \in [Procs -> Places] /\ pc'[p] = "relatives"
      BY <1>1, <1>3, <1>5
    <2>6. HandOK' /\ Fits(p)'
      BY <1>1, <2>2, <2>3, <2>4, <2>5, ArchiveGoesOn DEF ArchiveSteps
    <2> QED
      BY <1>5, <2>2, <2>4, <2>5, <2>6
  <1> QED
    BY <1>2, <1>4, <1>5 DEF ReadRelative

LEMMA ReturnFits ==
    ASSUME Shape, NEW p \in Procs, Return(p) PROVE HandOK' /\ Fits(p)'
  BY ReturnIs, IdleFits DEF Shape, HandOK

\* A step that changes the two directories of one task.
LEMMA TreeMoves ==
    ASSUME TypeOK, NEW n \in Names, NEW a \in Dirs, NEW s \in Dirs,
           active' = [active EXCEPT ![n] = a], stored' = [stored EXCEPT ![n] = s],
           Fault \/ Well, torn' \subseteq Names, UNCHANGED <<commands, crashes, edits>>
    PROVE  TreeOK'
  <1>1. faults' \in Nat
    BY FaultIs
  <1>2. active' \in [Names -> Dirs] /\ stored' \in [Names -> Dirs]
    BY DEF TypeOK
  <1> QED
    BY <1>1, <1>2 DEF TypeOK, TreeOK

LEMMA TreeStays ==
    ASSUME TypeOK, NEW n \in Names
    PROVE  /\ active[n] \in Dirs /\ stored[n] \in Dirs /\ Absent \in Dirs /\ Husk \in Dirs
           /\ active = [active EXCEPT ![n] = active[n]]
           /\ stored = [stored EXCEPT ![n] = stored[n]]
  BY DEF TypeOK, Dirs

LEMMA CopyFits ==
    ASSUME Shape, NEW p \in Procs, Copy(p)
    PROVE  HandOK' /\ TreeOK' /\ Fits(p)'
  <1> DEFINE n == cmd[p].task
  <1>1. /\ pc[p] = "copy" /\ pc[p] \in ArchiveSteps
        /\ UNCHANGED <<active, commands, crashes, edits>>
    BY DEF Copy, ArchiveSteps
  <1>2. n \in Names /\ torn \subseteq Names /\ TypeOK
    BY <1>1, Archived DEF Shape, TypeOK
  <1>3. CASE /\ Well
             /\ stored' = [stored EXCEPT ![n] = IF @ = Absent THEN active[n] ELSE @]
             /\ Goto(p, "compare")
             /\ UNCHANGED <<memory, unit, torn>>
    <2>1. HandOK' /\ Fits(p)'
      BY <1>1, <1>3, ArchiveMoves DEF ArchiveSteps
    <2>2. TreeOK'
      BY <1>1, <1>2, <1>3, TreeMoves, TreeStays
    <2> QED
      BY <2>1, <2>2
  <1>4. CASE /\ Fault
             /\ stored' = [stored EXCEPT ![n] = Husk]
             /\ torn' = torn \cup {n}
             /\ Return(p)
    BY <1>1, <1>2, <1>4, TreeMoves, TreeStays, ReturnFits
  <1>5. CASE Well /\ Return(p) /\ UNCHANGED <<stored, torn>>
    BY <1>1, <1>2, <1>5, TreeMoves, TreeStays, ReturnFits
  <1> QED
    BY <1>3, <1>4, <1>5 DEF Copy

LEMMA CompareFits ==
    ASSUME Shape, NEW p \in Procs, Compare(p)
    PROVE  HandOK' /\ TreeOK' /\ Fits(p)'
  <1>1. pc[p] = "compare" /\ pc[p] \in ArchiveSteps /\ UNCHANGED <<tree, bounds, edits>>
    BY DEF Compare, ArchiveSteps
  <1>2. \/ Goto(p, "remove") /\ UNCHANGED <<memory, unit, torn>>
        \/ Return(p) /\ torn' = torn \cup {cmd[p].task}
    BY DEF Compare
  <1>3. HandOK' /\ Fits(p)'
    BY <1>1, <1>2, ArchiveMoves, ReturnFits DEF ArchiveSteps
  <1>4. TreeOK'
    BY <1>1, <1>2, Archived DEF Shape, TypeOK, TreeOK, tree, bounds
  <1> QED
    BY <1>3, <1>4

LEMMA RemoveFits ==
    ASSUME Shape, NEW p \in Procs, Remove(p)
    PROVE  HandOK' /\ TreeOK' /\ Fits(p)'
  <1> DEFINE n == cmd[p].task
  <1>1. /\ pc[p] = "remove" /\ pc[p] \in ArchiveSteps
        /\ UNCHANGED <<stored, commands, crashes, edits>>
    BY DEF Remove, ArchiveSteps
  <1>2. n \in Names /\ torn \subseteq Names /\ TypeOK
    BY <1>1, Archived DEF Shape, TypeOK
  <1>3. \/ Goto(p, "mark") /\ UNCHANGED <<memory, unit>>
        \/ Return(p)
    BY DEF Remove
  <1>4. HandOK' /\ Fits(p)'
    BY <1>1, <1>3, ArchiveMoves, ReturnFits DEF ArchiveSteps
  <1>5. PICK a \in {active[n], Absent, Husk} : active' = [active EXCEPT ![n] = a]
    BY <1>2, TreeStays DEF Remove
  <1>6. (Fault \/ Well) /\ torn' \in {torn, torn \cup {n}}
    BY DEF Remove
  <1>7. TreeOK'
    BY <1>1, <1>2, <1>5, <1>6, TreeMoves, TreeStays
  <1> QED
    BY <1>4, <1>7

LEMMA MarkFits ==
    ASSUME Shape, NEW p \in Procs, Mark(p)
    PROVE  HandOK' /\ TreeOK' /\ Fits(p)'
  <1> DEFINE n == cmd[p].task
             done == [stored[n].doc EXCEPT !.status = "completed"]
  <1>1. /\ pc[p] = "mark" /\ pc[p] \in ArchiveSteps
        /\ todo' = [todo EXCEPT ![p] = Updates(p)]
        /\ UNCHANGED <<active, cmd, seen, walk, queue, unit, commands, crashes, edits, torn>>
    BY DEF Mark, ArchiveSteps
  <1>2. /\ n \in Names /\ torn \subseteq Names /\ TypeOK /\ IsFull(seen[p][n])
        /\ seen[p] \in [Names -> Dirs]
    BY <1>1, Archived DEF Shape, TypeOK
  <1>3. PICK where \in {"relate", "restore"} : Goto(p, where)
    BY DEF Mark
  <1>4. where \in ArchiveSteps /\ where \in Places
    BY DEF ArchiveSteps, Places
  <1>5. pc' \in [Procs -> Places] /\ pc'[p] = where
    BY <1>2, <1>3, <1>4, GotoIs
  <1>6. todo' \in [Procs -> SUBSET Names] /\ todo'[p] = Updates(p) /\ Updates(p)' = Updates(p)
    BY <1>1, <1>2 DEF Updates, TypeOK
  <1>7. seen' \in [Procs -> [Names -> Dirs]] /\ IsFull(seen'[p][n])
    BY <1>1, <1>2 DEF TypeOK
  <1>8. HandOK' /\ Fits(p)'
    BY <1>1, <1>4, <1>5, <1>6, <1>7, ArchiveGoesOn
  <1>9. CASE IsFull(stored[n]) /\ Well /\ stored' = [stored EXCEPT ![n] = Written(@, done)]
    <2>1. stored[n].doc \in Docs
      BY <1>2, <1>9, DirKinds, TreeStays
    <2>2. done \in Docs
      BY <2>1 DEF Docs
    <2> HIDE DEF done
    <2>3. Written(stored[n], done) \in Dirs
      BY <1>2, <2>2, WrittenIs, TreeStays
    <2>4. TreeOK'
      BY <1>1, <1>2, <1>9, <2>3, TreeMoves, TreeStays
    <2> QED
      BY <1>8, <2>4
  <1>10. CASE (Fault \/ Well) /\ UNCHANGED stored
    <2>1. TreeOK'
      BY <1>1, <1>2, <1>10, TreeMoves, TreeStays
    <2> QED
      BY <1>8, <2>1
  <1> QED
    BY <1>9, <1>10 DEF Mark

\* What an archive writes into a relative is a task, with the note it had.
LEMMA PartedIs ==
    ASSUME Shape, NEW p \in Procs, NEW r \in Names, NEW doc \in Docs, pc[p] \in ArchiveSteps,
           IsFull(seen[p][r])
    PROVE  Parted(p, r, doc) \in Docs /\ Parted(p, r, doc).note = doc.note
  <1>1. seen[p][r].doc \in Docs
    BY Archived, DirKinds
  <1> DEFINE parent == [doc EXCEPT !.children = seen[p][r].doc.children \ {cmd[p].task}]
             child == [doc EXCEPT !.parent = None]
  <1>2. parent \in Docs /\ child \in Docs /\ parent.note = doc.note /\ child.note = doc.note
    BY <1>1 DEF Docs
  <1>3. Parted(p, r, doc) \in {parent, child}
    BY DEF Parted
  <1> HIDE DEF parent, child
  <1> QED
    BY <1>2, <1>3

\* The relatives an archive has still to write or restore are those it read.
LEMMA TodoMoves ==
    ASSUME Shape, NEW p \in Procs, pc[p] \in ArchiveSteps, pc[p] # "archive",
           NEW where \in ArchiveSteps \ {"archive"}, pc' = [pc EXCEPT ![p] = where],
           NEW rest \in SUBSET Updates(p), todo' = [todo EXCEPT ![p] = rest],
           UNCHANGED <<cmd, seen, walk, queue, unit>>
    PROVE  HandOK' /\ Fits(p)'
  <1>1. where \in Places /\ TypeOK
    BY DEF Places, Shape
  <1>2. pc' \in [Procs -> Places] /\ pc'[p] = where
    BY <1>1 DEF TypeOK
  <1>3. Updates(p)' = Updates(p) /\ Updates(p) \subseteq Names
    BY DEF Updates
  <1>4. todo' \in [Procs -> SUBSET Names] /\ todo'[p] = rest
    BY <1>1, <1>3 DEF TypeOK
  <1>5. seen' \in [Procs -> [Names -> Dirs]] /\ IsFull(seen'[p][cmd[p].task])
    BY <1>1, Archived DEF TypeOK
  <1> QED
    BY <1>2, <1>3, <1>4, <1>5, ArchiveGoesOn

LEMMA PcStays ==
    ASSUME TypeOK, NEW p \in Procs PROVE pc = [pc EXCEPT ![p] = pc[p]]
  BY DEF TypeOK

\* An archive that is done with one relative.
LEMMA TodoShrinks ==
    ASSUME Shape, NEW p \in Procs, pc[p] \in {"relate", "restore"}, NEW r \in todo[p],
           todo' = [todo EXCEPT ![p] = @ \ {r}], UNCHANGED <<pc, cmd, seen, walk, queue, unit>>
    PROVE  HandOK' /\ Fits(p)' /\ pc[p] \in ArchiveSteps
           /\ r \in Names /\ r # cmd[p].task /\ IsFull(seen[p][r])
  <1>1. pc[p] \in ArchiveSteps
    BY DEF ArchiveSteps
  <1>2. todo[p] \subseteq Updates(p)
    BY <1>1, Archived
  <1>3. pc' = [pc EXCEPT ![p] = pc[p]]
    BY PcStays DEF Shape
  <1>4. todo[p] \ {r} \in SUBSET Updates(p) /\ todo' = [todo EXCEPT ![p] = todo[p] \ {r}]
    BY <1>2
  <1>5. HandOK' /\ Fits(p)'
    BY <1>1, <1>3, <1>4, TodoMoves
  <1> QED
    BY <1>1, <1>2, <1>5 DEF Updates

LEMMA RelateFits ==
    ASSUME Shape, NEW p \in Procs, Relate(p)
    PROVE  HandOK' /\ TreeOK' /\ Fits(p)'
  <1>1. /\ pc[p] = "relate" /\ pc[p] \in ArchiveSteps
        /\ UNCHANGED <<stored, cmd, seen, walk, queue, unit, commands, crashes, edits, torn>>
    BY DEF Relate, ArchiveSteps
  <1>2. cmd[p].task \in Names /\ torn \subseteq Names /\ TypeOK
    BY <1>1, Archived DEF Shape, TypeOK
  <1>3. ASSUME NEW r \in todo[p],
               Well, IsFull(active[r]),
               active' = [active EXCEPT ![r] = Written(@, Parted(p, r, @.doc))],
               todo' = [todo EXCEPT ![p] = @ \ {r}], UNCHANGED pc
        PROVE  HandOK' /\ TreeOK' /\ Fits(p)'
    <2>1. HandOK' /\ Fits(p)' /\ r \in Names /\ IsFull(seen[p][r])
      BY <1>1, <1>3, TodoShrinks
    <2>2. active[r].doc \in Docs
      BY <1>2, <1>3, <2>1, DirKinds, TreeStays
    <2>3. Written(active[r], Parted(p, r, active[r].doc)) \in Dirs
      BY <1>1, <1>2, <2>1, <2>2, PartedIs, WrittenIs, TreeStays
    <2>4. TreeOK'
      BY <1>1, <1>2, <1>3, <2>1, <2>3, TreeMoves, TreeStays
    <2> QED
      BY <2>1, <2>4
  <1>4. CASE /\ Fault \/ Well
             /\ todo' = [todo EXCEPT ![p] = Updates(p)]
             /\ Goto(p, "restore")
             /\ UNCHANGED active
    <2>1. HandOK' /\ Fits(p)'
      BY <1>1, <1>4, TodoMoves DEF Goto, ArchiveSteps
    <2>2. TreeOK'
      BY <1>1, <1>2, <1>4, TreeMoves, TreeStays
    <2> QED
      BY <2>1, <2>2
  <1>5. CASE Well /\ Goto(p, "files") /\ UNCHANGED <<active, todo>>
    <2>1. HandOK' /\ Fits(p)'
      BY <1>1, <1>5, ArchiveMoves DEF ArchiveSteps, memory
    <2>2. TreeOK'
      BY <1>1, <1>2, <1>5, TreeMoves, TreeStays
    <2> QED
      BY <2>1, <2>2
  <1> QED
    BY <1>3, <1>4, <1>5 DEF Relate

LEMMA FilesFits ==
    ASSUME Shape, NEW p \in Procs, Files(p)
    PROVE  HandOK' /\ TreeOK' /\ Fits(p)'
  <1>1. /\ pc[p] = "files" /\ pc[p] \in ArchiveSteps
        /\ UNCHANGED <<tree, commands, crashes, edits, torn>>
    BY DEF Files, ArchiveSteps
  <1>2. cmd[p].task \in Names /\ torn \subseteq Names /\ TypeOK
    BY <1>1, Archived DEF Shape, TypeOK
  <1>3. \/ Return(p)
        \/ /\ todo' = [todo EXCEPT ![p] = Updates(p)] /\ Goto(p, "restore")
           /\ UNCHANGED <<cmd, seen, walk, queue, unit>>
    BY DEF Files
  <1>4. HandOK' /\ Fits(p)'
    BY <1>1, <1>3, ReturnFits, TodoMoves DEF Goto, ArchiveSteps
  <1>5. Fault \/ Well
    BY DEF Files
  <1>6. TreeOK'
    BY <1>1, <1>2, <1>5, TreeMoves, TreeStays DEF tree
  <1> QED
    BY <1>4, <1>6

LEMMA RestoreFits ==
    ASSUME Shape, NEW p \in Procs, Restore(p)
    PROVE  HandOK' /\ TreeOK' /\ Fits(p)'
  <1>1. /\ pc[p] = "restore" /\ pc[p] \in ArchiveSteps
        /\ UNCHANGED <<stored, cmd, seen, walk, queue, unit, commands, crashes, edits>>
    BY DEF Restore, ArchiveSteps
  <1>2. /\ cmd[p].task \in Names /\ torn \subseteq Names /\ TypeOK
        /\ Hand(p) \subseteq Names /\ seen[p] \in [Names -> Dirs]
    BY <1>1, Archived DEF Shape, TypeOK
  <1>3. ASSUME NEW r \in todo[p],
               todo' = [todo EXCEPT ![p] = @ \ {r}], UNCHANGED pc,
               \/ Well /\ active' = [active EXCEPT ![r] = Written(@, seen[p][r].doc)]
                  /\ UNCHANGED torn
               \/ Fault /\ torn' = torn \cup Hand(p) /\ UNCHANGED active
        PROVE  HandOK' /\ TreeOK' /\ Fits(p)'
    <2>1. HandOK' /\ Fits(p)' /\ r \in Names /\ IsFull(seen[p][r])
      BY <1>1, <1>3, TodoShrinks
    <2>2. seen[p][r].doc \in Docs
      BY <1>2, <2>1, DirKinds
    <2>3. Written(active[r], seen[p][r].doc) \in Dirs
      BY <1>2, <2>1, <2>2, WrittenIs, TreeStays
    <2>4. TreeOK'
      BY <1>1, <1>2, <1>3, <2>1, <2>3, TreeMoves, TreeStays
    <2> QED
      BY <2>1, <2>4
  <1>4. CASE Goto(p, "back") /\ UNCHANGED <<active, todo, faults, torn>>
    <2>1. HandOK' /\ Fits(p)'
      BY <1>1, <1>4, ArchiveMoves DEF ArchiveSteps, memory
    <2>2. TreeOK'
      BY <1>1, <1>2, <1>4, TreeMoves, TreeStays DEF Well
    <2> QED
      BY <2>1, <2>2
  <1> QED
    BY <1>3, <1>4 DEF Restore

LEMMA BackFits ==
    ASSUME Shape, NEW p \in Procs, Back(p)
    PROVE  HandOK' /\ TreeOK' /\ Fits(p)'
  <1> DEFINE n == cmd[p].task
  <1>1. /\ pc[p] = "back" /\ pc[p] \in ArchiveSteps /\ Goto(p, "rewrite")
        /\ UNCHANGED <<memory, unit, commands, crashes, edits>>
    BY DEF Back, ArchiveSteps
  <1>2. n \in Names /\ torn \subseteq Names /\ TypeOK /\ Hand(p) \subseteq Names
    BY <1>1, Archived DEF Shape, TypeOK
  <1>3. HandOK' /\ Fits(p)'
    BY <1>1, ArchiveMoves DEF ArchiveSteps
  <1>4. (Fault \/ Well) /\ torn' \in {torn, torn \cup Hand(p)}
    BY DEF Back
  <1>5. PICK a \in {active[n], stored[n], Husk}, s \in {stored[n], Absent} :
            active' = [active EXCEPT ![n] = a] /\ stored' = [stored EXCEPT ![n] = s]
    BY <1>2, TreeStays DEF Back, tree
  <1>6. TreeOK'
    BY <1>1, <1>2, <1>4, <1>5, TreeMoves, TreeStays
  <1> QED
    BY <1>3, <1>6

LEMMA RewriteFits ==
    ASSUME Shape, NEW p \in Procs, Rewrite(p)
    PROVE  HandOK' /\ TreeOK' /\ Fits(p)'
  <1> DEFINE n == cmd[p].task
             back == Written(active[n], seen[p][n].doc)
  <1>1. /\ pc[p] = "rewrite" /\ pc[p] \in ArchiveSteps /\ Return(p)
        /\ UNCHANGED <<stored, commands, crashes, edits>>
    BY DEF Rewrite, ArchiveSteps
  <1>2. /\ n \in Names /\ torn \subseteq Names /\ TypeOK /\ Hand(p) \subseteq Names
        /\ seen[p][n].doc \in Docs
    BY <1>1, Archived DEF Shape, TypeOK
  <1>3. HandOK' /\ Fits(p)'
    BY <1>1, ReturnFits
  <1>4. (Fault \/ Well) /\ torn' \in {torn, torn \cup Hand(p)}
    BY DEF Rewrite
  <1>5. PICK a \in {active[n], back} : active' = [active EXCEPT ![n] = a]
    BY <1>2, TreeStays DEF Rewrite
  <1>6. back \in Dirs
    BY <1>2, WrittenIs, TreeStays
  <1> HIDE DEF back
  <1>7. TreeOK'
    BY <1>1, <1>2, <1>4, <1>5, <1>6, TreeMoves, TreeStays
  <1> QED
    BY <1>3, <1>7

LEMMA Creating ==
    ASSUME Shape, NEW p \in Procs, pc[p] \in CreateSteps
    PROVE  /\ p \notin Pending /\ Running(p) /\ cmd[p].kind = "create"
           /\ cmd[p] \in Commands /\ cmd[p].task \in Names /\ seen[p] \in [Names -> Dirs]
           /\ cmd[p].of \in Names \cup {None} /\ cmd[p].deps \in SUBSET Names
           /\ cmd[p].task \in Hand(p) /\ Hand(p) \subseteq Names
           /\ pc[p] = "anchor" => IsFull(seen[p][cmd[p].task])
  <1>1. pc[p] \notin {"idle", "dead", "commit"}
    BY DEF CreateSteps
  <1>2. /\ cmd[p] \in Commands /\ cmd[p].task \in Names /\ cmd[p].kind = "create"
        /\ cmd[p].of \in Names \cup {None} /\ cmd[p].deps \in SUBSET Names
    BY <1>1, InHand
  <1>3. seen[p] \in [Names -> Dirs]
    BY DEF Shape, TypeOK
  <1>4. pc[p] = "anchor" => IsFull(seen[p][cmd[p].task])
    BY <1>2 DEF Shape, Fits
  <1>5. p \notin Pending /\ Running(p)
    BY <1>1, NotPending DEF Running
  <1>6. Hand(p) \subseteq Names /\ cmd[p].task \in Hand(p)
    BY <1>5, HandIs DEF Hand
  <1> QED
    BY <1>2, <1>3, <1>4, <1>5, <1>6

\* A creation that goes on to another step, or to its link.
LEMMA CreateGoesOn ==
    ASSUME Shape, NEW p \in Procs, pc[p] \in CreateSteps,
           NEW where \in CreateSteps \cup {"parent"}, Goto(p, where),
           UNCHANGED <<cmd, walk, todo, queue, unit>>, seen' \in [Procs -> [Names -> Dirs]],
           where \in {"anchor", "parent"} => IsFull(seen'[p][cmd[p].task]),
           where = "parent" => cmd[p].of # None,
           where \in {"anchor", "takeback"} \/ pc[p] \in {"create", "mkdir", "write"}
    PROVE  HandOK' /\ Fits(p)'
  <1>1. where \in Places
    BY DEF Places, LinkSteps
  <1>2. pc' \in [Procs -> Places] /\ pc'[p] = where
    BY <1>1, GotoIs DEF Shape
  <1>3. HandOK'
    BY <1>2 DEF Shape, TypeOK, HandOK
  <1>4. p \notin Pending' /\ cmd[p] \in Commands /\ cmd[p].kind = "create"
    BY Creating DEF Pending
  <1>6. where \in {"anchor", "takeback"} \/ walk'[p].been = {}
    BY DEF Shape, Fits
  <1>5. Fits(p)'
    BY <1>2, <1>4, <1>6 DEF Fits, LinkSteps, ArchiveSteps, CreateSteps
  <1> QED
    BY <1>3, <1>5

LEMMA CreateCheckFits ==
    ASSUME Shape, NEW p \in Procs, CreateCheck(p)
    PROVE  HandOK' /\ TreeOK' /\ Fits(p)'
  <1>1. pc[p] = "create" /\ pc[p] \in CreateSteps
    BY DEF CreateCheck, CreateSteps
  <1>2. TreeOK'
    BY TreeKept, TypeParts DEF CreateCheck, Shape
  <1>3. \/ Return(p)
        \/ Goto(p, "mkdir") /\ UNCHANGED <<memory, unit>>
    BY DEF CreateCheck
  <1>4. UNCHANGED memory => seen' \in [Procs -> [Names -> Dirs]]
    BY DEF Shape, TypeOK, memory
  <1>5. HandOK' /\ Fits(p)'
    BY <1>1, <1>3, <1>4, ReturnFits, CreateGoesOn DEF CreateSteps, memory
  <1> QED
    BY <1>2, <1>5

LEMMA MkdirFits ==
    ASSUME Shape, NEW p \in Procs, Mkdir(p)
    PROVE  HandOK' /\ TreeOK' /\ Fits(p)'
  <1>1. /\ pc[p] = "mkdir" /\ pc[p] \in CreateSteps /\ Goto(p, "write")
        /\ active' = [active EXCEPT ![cmd[p].task] = Locked(@)]
        /\ UNCHANGED <<stored, memory, unit, bounds, edits, torn>>
    BY DEF Mkdir, CreateSteps
  <1>2. cmd[p].task \in Names /\ torn \subseteq Names /\ TypeOK
    BY <1>1, Creating DEF Shape, TypeOK
  <1>3. seen' \in [Procs -> [Names -> Dirs]]
    BY <1>1, <1>2 DEF TypeOK, memory
  <1>4. HandOK' /\ Fits(p)'
    BY <1>1, <1>3, CreateGoesOn DEF CreateSteps, memory
  <1>5. Locked(active[cmd[p].task]) \in Dirs
    BY <1>2, LockedIs, TreeStays
  <1>6. TreeOK'
    BY <1>1, <1>2, <1>5, TreeMoves, TreeStays DEF bounds, Well
  <1> QED
    BY <1>4, <1>6

LEMMA WriteTaskFits ==
    ASSUME Shape, NEW p \in Procs, WriteTask(p)
    PROVE  /\ HandOK' /\ TreeOK' /\ Fits(p)'
           /\ \A q \in Procs \ {p} : seen'[q] = seen[q]
           /\ \A m \in Names \ {cmd[p].task} : seen'[p][m] = seen[p][m]
  <1> DEFINE n == cmd[p].task
             new == NewTask(cmd[p].deps)
  <1>1. /\ pc[p] = "write" /\ pc[p] \in CreateSteps
        /\ UNCHANGED <<stored, cmd, walk, todo, queue, unit, commands, crashes>>
    BY DEF WriteTask, CreateSteps
  <1>2. /\ n \in Names /\ torn \subseteq Names /\ TypeOK /\ new \in Docs
        /\ seen \in [Procs -> [Names -> Dirs]] /\ edits \in [Names -> Nat]
    BY <1>1, Creating, NewTaskIs DEF Shape, TypeOK
  <1>3. Full(new) \in Dirs /\ IsFull(Full(new)) /\ Locked(active[n]) \in Dirs
    BY <1>2, FullIs, LockedIs, TreeStays
  <1>4. (Fault \/ Well) /\ torn' \in {torn, torn \cup {n}}
    BY DEF WriteTask
  <1>5. PICK a \in {Full(new), Locked(active[n])} : active' = [active EXCEPT ![n] = a]
    BY DEF WriteTask
  <1>6. edits' = [edits EXCEPT ![n] = 0] \/ UNCHANGED edits
    BY DEF WriteTask
  <1>7. edits' \in [Names -> Nat]
    BY <1>2, <1>6
  <1>8. faults' \in Nat
    BY <1>2, <1>4, FaultIs
  <1>9. active' \in [Names -> Dirs]
    BY <1>2, <1>3, <1>5 DEF TypeOK
  <1>10. TreeOK'
    BY <1>1, <1>2, <1>4, <1>7, <1>8, <1>9 DEF TypeOK, TreeOK
  <1>11. CASE /\ seen' = [seen EXCEPT ![p][n] = Full(new)]
              /\ Goto(p, IF cmd[p].of # None /\ IsFull(active[cmd[p].of])
                         THEN "parent" ELSE "anchor")
    <2> DEFINE where == IF cmd[p].of # None /\ IsFull(active[cmd[p].of])
                        THEN "parent" ELSE "anchor"
    <2>1. /\ seen' \in [Procs -> [Names -> Dirs]] /\ seen'[p][n] = Full(new)
          /\ \A q \in Procs \ {p} : seen'[q] = seen[q]
          /\ \A m \in Names \ {n} : seen'[p][m] = seen[p][m]
      BY <1>2, <1>3, <1>11
    <2>2. where \in CreateSteps \cup {"parent"} /\ (where = "parent" => cmd[p].of # None)
      BY DEF CreateSteps
    <2>3. Goto(p, where)
      BY <1>11
    <2> HIDE DEF where
    <2>4. HandOK' /\ Fits(p)'
      BY <1>1, <1>3, <2>1, <2>2, <2>3, CreateGoesOn
    <2> QED
      BY <1>10, <2>1, <2>4
  <1>12. CASE Goto(p, "takeback") /\ UNCHANGED seen
    <2>1. HandOK' /\ Fits(p)'
      BY <1>1, <1>2, <1>12, CreateGoesOn DEF CreateSteps
    <2> QED
      BY <1>10, <1>12, <2>1
  <1> QED
    BY <1>11, <1>12 DEF WriteTask

LEMMA AnchorFits ==
    ASSUME Shape, NEW p \in Procs, Anchor(p)
    PROVE  HandOK' /\ TreeOK' /\ Fits(p)'
  <1>1. /\ pc[p] = "anchor" /\ pc[p] \in CreateSteps
        /\ UNCHANGED <<tree, commands, crashes, edits, torn>>
    BY DEF Anchor, CreateSteps
  <1>2. cmd[p].task \in Names /\ torn \subseteq Names /\ TypeOK
    BY <1>1, Creating DEF Shape, TypeOK
  <1>3. \/ Return(p)
        \/ Goto(p, "takeback") /\ UNCHANGED <<memory, unit>>
    BY DEF Anchor
  <1>4. UNCHANGED memory => seen' \in [Procs -> [Names -> Dirs]]
    BY <1>2 DEF TypeOK, memory
  <1>5. HandOK' /\ Fits(p)'
    BY <1>1, <1>3, <1>4, ReturnFits, CreateGoesOn DEF CreateSteps, memory
  <1>6. Fault \/ Well
    BY DEF Anchor
  <1>7. TreeOK'
    BY <1>1, <1>2, <1>6, TreeMoves, TreeStays DEF tree
  <1> QED
    BY <1>5, <1>7

LEMMA TakeBackFits ==
    ASSUME Shape, NEW p \in Procs, TakeBack(p)
    PROVE  HandOK' /\ TreeOK' /\ Fits(p)'
  <1> DEFINE n == cmd[p].task
  <1>1. /\ pc[p] = "takeback" /\ pc[p] \in CreateSteps /\ Return(p)
        /\ UNCHANGED <<stored, bounds, edits>>
    BY DEF TakeBack, CreateSteps
  <1>2. n \in Names /\ torn \subseteq Names /\ TypeOK /\ Hand(p) \subseteq Names
    BY <1>1, Creating DEF Shape, TypeOK
  <1>3. PICK a \in {active[n], Absent} : active' = [active EXCEPT ![n] = a]
    BY DEF TakeBack
  <1>4. torn' \subseteq Names
    BY <1>2 DEF TakeBack
  <1>5. TreeOK'
    BY <1>1, <1>2, <1>3, <1>4, TreeMoves, TreeStays DEF bounds, Well
  <1> QED
    BY <1>1, <1>5, ReturnFits

LEMMA CrashFits ==
    ASSUME Shape, NEW p \in Procs, Crash(p)
    PROVE  HandOK' /\ TreeOK' /\ Fits(p)'
  <1>1. /\ Running(p) /\ crashes' = crashes + 1 /\ Goto(p, "dead")
        /\ torn' = torn \cup (IF cmd[p].kind \in {"archive", "create"} THEN Hand(p) ELSE {})
        /\ UNCHANGED <<tree, memory, unit, commands, faults, edits>>
    BY DEF Crash
  <1>2. pc' \in [Procs -> Places] /\ pc'[p] = "dead" /\ cmd[p] \in Commands
    BY <1>1, GotoIs, InHand DEF Shape, Places, Running
  <1>3. HandOK'
    BY <1>1, <1>2 DEF Shape, TypeOK, HandOK, memory
  <1>4. torn' \subseteq Names
    BY <1>1, HandIs DEF Shape, TypeOK
  <1>5. TreeOK'
    BY <1>1, <1>4 DEF Shape, TypeOK, TreeOK, tree
  <1>6. Fits(p)'
    BY <1>1, <1>2 DEF Fits, LinkSteps, ArchiveSteps, CreateSteps, memory
  <1> QED
    BY <1>3, <1>5, <1>6

\* Of the others, a step of p can take only a unit further: a recovery.
LEMMA Others ==
    ASSUME Shape, NEW p \in Procs, Step(p), NEW q \in Procs \ {p}
    PROVE  /\ Same(q)
           /\ unit'[q] = unit[q] \/ (q \in Pending /\ Recover(p) /\ Advance(q))
  <1> DEFINE Alone == Same(q) /\ unit'[q] = unit[q]
  <1>1. /\ pc \in [Procs -> Places] /\ cmd \in [Procs -> Commands \cup {NoCommand}]
        /\ seen \in [Procs -> [Names -> Dirs]] /\ todo \in [Procs -> SUBSET Names]
        /\ queue \in [Procs -> SUBSET Procs]
        /\ walk \in [Procs -> [at : Names \cup {None}, been : SUBSET Names]]
        /\ unit \in [Procs -> Units] /\ TypeOK
    BY DEF Shape, TypeOK
  <1>2. Return(p) => Alone
    BY <1>1, ReturnIs
  <1>3. ASSUME NEW where, Goto(p, where) PROVE pc'[q] = pc[q]
    BY <1>1, <1>3 DEF Goto
  <1>4. ASSUME NEW n, Saw(p, n) PROVE seen'[q] = seen[q]
    BY <1>1, <1>4 DEF Saw
  <1>5. ASSUME NEW where, Goto(p, where), UNCHANGED <<memory, unit>> PROVE Alone
    BY <1>3, <1>5 DEF Same, memory
  <1>6. (Refuse(p) => Alone) /\ (Linked(p) => Alone)
    BY <1>2, <1>5 DEF Refuse, Linked
  <1>7. CASE Start(p)
    <2>1. PICK c \in Commands :
            /\ cmd' = [cmd EXCEPT ![p] = c]
            /\ Goto(p, IF c.kind \in {"link", "unlink"} THEN "parent" ELSE c.kind)
      BY <1>7 DEF Start
    <2>2. UNCHANGED <<seen, walk, todo, queue, unit>>
      BY <1>7 DEF Start
    <2> QED
      BY <1>1, <1>3, <2>1, <2>2 DEF Same
  <1>8. CASE Link(p)
    <2>1. CASE LoadParent(p)
      BY <1>3, <1>4, <1>6, <2>1 DEF LoadParent, Same
    <2>2. CASE LoadChild(p)
      <3>1. \/ Refuse(p) \/ Linked(p) \/ Return(p)
            \/ /\ Saw(p, cmd[p].task)
               /\ walk' = [walk EXCEPT ![p].at = cmd[p].of]
               /\ Goto(p, IF cmd[p].kind # "unlink" THEN "walk" ELSE "list")
               /\ UNCHANGED <<cmd, todo, queue, unit>>
        BY <2>2 DEF LoadChild
      <3> QED
        BY <1>1, <1>2, <1>3, <1>4, <1>6, <3>1 DEF Same
    <2>3. CASE Walk(p)
      <3>1. \/ Refuse(p)
            \/ /\ \E w : walk' = [walk EXCEPT ![p] = w]
               /\ \E where : Goto(p, where)
               /\ UNCHANGED <<cmd, seen, todo, queue, unit>>
        BY <2>3 DEF Walk
      <3> QED
        BY <1>1, <1>3, <1>6, <3>1 DEF Same
    <2>4. CASE Recover(p)
      <3>1. Same(q)
        BY <2>4, RecoverIs DEF Same, memory
      <3>2. CASE UNCHANGED <<active, unit, torn>>
        BY <3>1, <3>2
      <3>3. ASSUME NEW r \in Pending, Advance(r) PROVE unit'[q] = unit[q] \/ q = r
        BY <1>1, <3>3, AdvanceIs
      <3> QED
        BY <2>4, <3>1, <3>2, <3>3, RecoverIs
    <2>8. CASE List(p)
      BY <1>1, <1>3, <2>8 DEF List, Same
    <2>5. CASE Prepare(p)
      BY <1>3, <2>5, PrepareFits DEF Prepare, Same, memory
    <2>6. CASE Commit(p)
      BY <1>1, <2>6, AdvanceIs DEF Commit, Pending, Same, memory
    <2>7. CASE Committed(p)
      BY <1>6, <2>7 DEF Committed
    <2> QED
      BY <1>8, <2>1, <2>2, <2>3, <2>4, <2>5, <2>6, <2>7, <2>8 DEF Link
  <1>9. CASE EditLoad(p)
    BY <1>2, <1>3, <1>4, <1>9 DEF EditLoad, Same
  <1>10. CASE Save(p)
    BY <1>2, <1>10 DEF Save
  <1>11. CASE Archive(p)
    <2>1. CASE ArchiveLoad(p)
      BY <1>1, <1>2, <1>3, <1>4, <2>1 DEF ArchiveLoad, Same
    <2>2. CASE ReadRelative(p)
      BY <2>2, ReadRelativeFits DEF ReadRelative, Same
    <2>3. CASE Copy(p)
      BY <1>2, <1>5, <2>3 DEF Copy
    <2>4. CASE Compare(p)
      BY <1>2, <1>5, <2>4 DEF Compare
    <2>5. CASE Remove(p)
      BY <1>2, <1>5, <2>5 DEF Remove
    <2>6. CASE Mark(p)
      BY <1>1, <1>3, <2>6 DEF Mark, Same
    <2>7. CASE Relate(p)
      BY <1>1, <1>3, <2>7 DEF Relate, Same
    <2>8. CASE Files(p)
      BY <1>1, <1>2, <1>3, <2>8 DEF Files, Same
    <2>9. CASE Restore(p)
      BY <1>1, <1>3, <2>9 DEF Restore, Same
    <2>10. CASE Back(p)
      BY <1>5, <2>10 DEF Back
    <2>11. CASE Rewrite(p)
      BY <1>2, <2>11 DEF Rewrite
    <2> QED
      BY <1>11, <2>1, <2>2, <2>3, <2>4, <2>5, <2>6, <2>7, <2>8, <2>9, <2>10, <2>11 DEF Archive
  <1>12. CASE Create(p)
    <2>1. CASE CreateCheck(p)
      BY <1>2, <1>5, <2>1 DEF CreateCheck
    <2>2. CASE Mkdir(p)
      BY <1>5, <2>2 DEF Mkdir
    <2>3. CASE WriteTask(p)
      <3>1. seen'[q] = seen[q]
        BY <2>3, WriteTaskFits
      <3>2. (\E where : Goto(p, where)) /\ UNCHANGED <<cmd, walk, todo, queue, unit>>
        BY <2>3 DEF WriteTask
      <3> QED
        BY <1>3, <3>1, <3>2 DEF Same
    <2>4. CASE Anchor(p)
      BY <1>2, <1>5, <2>4 DEF Anchor
    <2>5. CASE TakeBack(p)
      BY <1>2, <2>5 DEF TakeBack
    <2> QED
      BY <1>12, <2>1, <2>2, <2>3, <2>4, <2>5 DEF Create
  <1>13. CASE Crash(p)
    BY <1>5, <1>13 DEF Crash
  <1> QED
    BY <1>7, <1>8, <1>9, <1>10, <1>11, <1>12, <1>13 DEF Step

\* No step of p makes a unit of another pending.
LEMMA PendingMoves ==
    ASSUME Shape, NEW p \in Procs, Step(p)
    PROVE  Pending' \subseteq Pending \cup {p}
  <1>1. SUFFICES ASSUME NEW q \in Procs \ {p}, q \in Pending' PROVE q \in Pending
    BY DEF Pending
  <1>2. unit'[q] = unit[q] \/ q \in Pending
    BY Others
  <1> QED
    BY <1>1, <1>2 DEF Pending

LEMMA ShapeStep ==
    ASSUME Shape, Next PROVE Shape'
  <1>1. PICK p \in Procs : Step(p)
    BY DEF Next
  <1>2. HandOK' /\ TreeOK' /\ Fits(p)'
    BY <1>1, StartFits, LoadParentFits, LoadChildFits, WalkFits, ListFits, RecoverFits, PrepareFits,
       CommitFits, CommittedFits, EditLoadFits, SaveFits, ArchiveLoadFits, ReadRelativeFits,
       CopyFits, CompareFits, RemoveFits, MarkFits, RelateFits, FilesFits, RestoreFits,
       BackFits, RewriteFits, CreateCheckFits, MkdirFits, WriteTaskFits, AnchorFits,
       TakeBackFits, CrashFits DEF Step, Link, Archive, Create
  <1>3. ASSUME NEW q \in Procs \ {p} PROVE Fits(q)'
    <2>1. Same(q) /\ Fits(q) /\ (q \in Pending' => q \in Pending)
      BY <1>1, Others, PendingMoves DEF Shape
    <2> QED
      BY <2>1 DEF Same, Fits, Running, Updates
  <1>4. HistoryOK'
    <2>1. Race' \in BOOLEAN /\ Blur' \subseteq Names /\ Spread \subseteq Names
      BY DEF Race, Blur, Spread
    <2>2. crossed' \subseteq Procs /\ raced' \in BOOLEAN
      BY DEF Next
    <2> QED
      BY <2>1, <2>2 DEF Next, HistoryOK, Shape, TypeOK
  <1>5. TypeOK'
    BY <1>2, <1>4 DEF TypeOK, HandOK, TreeOK, HistoryOK
  <1>6. (Blur \subseteq blurred)'
    BY DEF Next
  <1> QED
    BY <1>2, <1>3, <1>5, <1>6 DEF Shape

LEMMA PlantedIs ==
    ASSUME NEW f \in Forests, NEW here, NEW done
    PROVE  /\ Planted(f, here, done) \in [Names -> Dirs]
           /\ \A n \in Names : IsFull(Planted(f, here, done)[n]) =>
                 Planted(f, here, done)[n].doc.note = 0
  <1> DEFINE doc(n) == [NewTask({}) EXCEPT
                          !.status = IF n \in done THEN "completed" ELSE "planning",
                          !.parent = f[n], !.children = {m \in Names : f[m] = n}]
  <1>1. ASSUME NEW n \in Names PROVE doc(n) \in Docs /\ doc(n).note = 0
    <2>1. NewTask({}) \in Docs /\ NewTask({}).note = 0
      BY NewTaskIs
    <2>2. f[n] \in Names \cup {None} /\ {m \in Names : f[m] = n} \in SUBSET Names
      BY DEF Forests
    <2> QED
      BY <2>1, <2>2 DEF Docs
  <1>2. Planted(f, here, done) = [n \in Names |-> IF n \notin here THEN Absent ELSE Full(doc(n))]
    BY DEF Planted
  <1> HIDE DEF doc
  <1>3. /\ Absent \in Dirs /\ ~IsFull(Absent)
        /\ \A n \in Names : Full(doc(n)) \in Dirs /\ Full(doc(n)).doc.note = 0
    BY <1>1, FullIs, DirKinds DEF Dirs
  <1> QED
    BY <1>2, <1>3

LEMMA ShapeInit == Init => Shape
  <1> SUFFICES ASSUME Init PROVE Shape
    OBVIOUS
  <1>1. \E f \in Forests, here, done \in SUBSET Names : active = Planted(f, here, done)
    BY DEF Init
  <1>2. active \in [Names -> Dirs]
    BY <1>1, PlantedIs
  <1>3. /\ stored = [n \in Names |-> Absent] /\ pc = [p \in Procs |-> "idle"]
        /\ cmd = [p \in Procs |-> NoCommand] /\ seen = [p \in Procs |-> [n \in Names |-> Absent]]
        /\ walk = [p \in Procs |-> [at |-> None, been |-> {}]]
        /\ todo = [p \in Procs |-> {}] /\ unit = [p \in Procs |-> NoUnit]
        /\ commands = 0 /\ faults = 0 /\ crashes = 0 /\ edits = [n \in Names |-> 0]
        /\ queue = [p \in Procs |-> {}] /\ crossed = {}
        /\ raced = FALSE /\ blurred = {} /\ stale = {} /\ torn = {}
    BY DEF Init
  <1>4. TreeOK /\ HistoryOK
    BY <1>2, <1>3 DEF TreeOK, HistoryOK, Dirs
  <1>5. HandOK
    BY <1>3 DEF HandOK, Places, Dirs, Units
  <1>6. ASSUME NEW p \in Procs PROVE Fits(p) /\ ~Running(p)
    BY <1>3 DEF Fits, LinkSteps, ArchiveSteps, CreateSteps, Pending, NoUnit, NoCommand, Running
  <1>7. Blur = {}
    BY <1>6 DEF Blur, Hand
  <1> QED
    BY <1>4, <1>5, <1>6, <1>7, TypeParts DEF Shape

LEMMA ShapeStays == ASSUME Shape, UNCHANGED vars PROVE Shape'
  BY DEF Shape, vars, tree, memory, bounds, past, TypeOK, Fits, Pending, Running, Updates, Blur,
         Hand, Holds

\* Every task.json in the tree, loaded, staged or put back is one of a task,
\* and a command is at a step of its own, whatever runs at the same time, fails
\* or is killed.
THEOREM TypeCorrect == Spec => []TypeOK
  <1>1. Init => Shape
    BY ShapeInit
  <1>2. Shape /\ [Next]_vars => Shape'
    BY ShapeStep, ShapeStays
  <1>3. Shape => TypeOK
    BY DEF Shape
  <1> QED
    BY <1>1, <1>2, <1>3, PTL DEF Spec

-----------------------------------------------------------------------------
(* What a step may do to the directories of a task.                        *)

\* A task that a running command asks for, or has loaded, is in its hand.
LEMMA InItsHand ==
    ASSUME Shape, NEW p \in Procs, Running(p)
    PROVE  /\ cmd[p].task \in Hand(p)
           /\ \A n \in Names : seen[p][n] # Absent => n \in Hand(p)
           /\ \A n \in Names : IsFull(seen[p][n]) => n \in Hand(p)
  BY DEF Hand, IsFull, Absent

\* A step writes the tasks that it has in hand and those of a pending unit.
LEMMA Writes ==
    ASSUME Shape, NEW p \in Procs, Step(p), NEW n \in Names,
           active'[n] # active[n] \/ stored'[n] # stored[n]
    PROVE  \/ n \in Hand(p)
           \/ \E q \in Pending : /\ n \in {unit[q].task, unit[q].of}
                                 /\ (Commit(p) /\ q = p) \/ (Recover(p) /\ q # p)
  <1>1. TypeOK /\ active \in [Names -> Dirs] /\ stored \in [Names -> Dirs]
    BY DEF Shape, TypeOK
  <1>2. CASE UNCHANGED tree
    BY <1>2 DEF tree
  <1>3. CASE Recover(p)
    <2>1. UNCHANGED stored /\ (UNCHANGED active \/ \E q \in Pending : q # p /\ Advance(q))
      BY <1>3, RecoverIs
    <2> QED
      BY <1>1, <1>3, <2>1, AdvanceIs
  <1>4. CASE Commit(p)
    <2>1. p \in Pending /\ Advance(p) /\ UNCHANGED stored
      BY <1>4 DEF Commit, Pending
    <2> QED
      BY <1>1, <1>4, <2>1, AdvanceIs
  <1>5. CASE Save(p)
    <2>1. cmd[p].task \in Hand(p)
      BY <1>5, InItsHand DEF Save, Running
    <2> QED
      BY <1>1, <1>5, <2>1 DEF Save
  <1>6. CASE Copy(p) \/ Remove(p) \/ Mark(p) \/ Back(p) \/ Rewrite(p)
    <2>1. cmd[p].task \in Hand(p)
      BY <1>6, Archived DEF Copy, Remove, Mark, Back, Rewrite, ArchiveSteps
    <2>2. n # cmd[p].task => active'[n] = active[n] /\ stored'[n] = stored[n]
      BY <1>1, <1>6 DEF Copy, Remove, Mark, Back, Rewrite, tree
    <2> QED
      BY <2>1, <2>2
  <1>7. CASE Relate(p) \/ Restore(p)
    <2>1. /\ pc[p] \in {"relate", "restore"} /\ pc[p] \in ArchiveSteps
          /\ UNCHANGED stored
      BY <1>7 DEF Relate, Restore, ArchiveSteps
    <2>2. Running(p) /\ todo[p] \subseteq Updates(p)
      BY <2>1, Archived
    <2>3. \A r \in todo[p] : r \in Hand(p)
      BY <2>2, InItsHand DEF Updates
    <2>4. PICK r : r \in todo[p] /\ r = n
      BY <1>1, <1>7, <2>1 DEF Relate, Restore
    <2> QED
      BY <2>3, <2>4
  <1>8. CASE Mkdir(p) \/ WriteTask(p) \/ TakeBack(p)
    <2>1. cmd[p].task \in Hand(p)
      BY <1>8, Creating DEF Mkdir, WriteTask, TakeBack, CreateSteps
    <2>2. n # cmd[p].task => active'[n] = active[n] /\ stored'[n] = stored[n]
      BY <1>1, <1>8 DEF Mkdir, WriteTask, TakeBack
    <2> QED
      BY <2>1, <2>2
  <1>9. \/ UNCHANGED tree \/ Recover(p) \/ Commit(p) \/ Save(p)
        \/ Copy(p) \/ Remove(p) \/ Mark(p) \/ Back(p) \/ Rewrite(p)
        \/ Relate(p) \/ Restore(p) \/ Mkdir(p) \/ WriteTask(p) \/ TakeBack(p)
    BY DEF Step, Link, Archive, Create, Start, LoadParent, LoadChild, Walk, List, Prepare, Committed,
           EditLoad, ArchiveLoad, ReadRelative, Compare, Files, CreateCheck, Anchor, Crash
  <1> QED
    BY <1>2, <1>3, <1>4, <1>5, <1>6, <1>7, <1>8, <1>9

\* Only the archive of a task takes its task.json away, and leaves nothing to
\* answer for.
LEMMA Kinds ==
    ASSUME Shape, NEW p \in Procs, Step(p), NEW n \in Names,
           IsFull(active[n]), ~IsFull(active'[n])
    PROVE  \/ n \in torn'
           \/ Remove(p) /\ cmd[p].task = n
  <1>1. TypeOK /\ active \in [Names -> Dirs] /\ seen \in [Procs -> [Names -> Dirs]]
    BY DEF Shape, TypeOK
  <1>2. CASE UNCHANGED active
    BY <1>2
  <1>3. CASE Recover(p)
    BY <1>1, <1>3, AdvanceIs, RecoverIs
  <1>4. CASE Commit(p)
    BY <1>1, <1>4, AdvanceIs DEF Commit, Pending
  <1>5. CASE Save(p)
    <2> DEFINE m == cmd[p].task
               doc == seen[p][m].doc
               new == [doc EXCEPT !.note = @ + 1]
    <2>1. pc[p] = "save" /\ m \in Names /\ IsFull(seen[p][m])
      BY <1>5, InHand DEF Save, Shape, Fits
    <2>2. active' = [active EXCEPT ![m] =
                 IF Writable(active[m], doc.rev) THEN Written(@, new) ELSE Locked(@)]
      BY <1>5 DEF Save
    <2> HIDE DEF new
    <2>3. IsFull(Written(active[m], new))
      BY FullIs DEF Written
    <2>4. IsFull(active[m]) => IsFull(Locked(active[m]))
      BY <1>1, <2>1, LockedIs
    <2> QED
      BY <1>1, <2>1, <2>2, <2>3, <2>4
  <1>6. CASE Remove(p)
    BY <1>1, <1>6 DEF Remove
  <1>7. CASE Relate(p)
    <2>1. \A r \in Names : IsFull(Written(active[r], Parted(p, r, active[r].doc)))
      BY FullIs DEF Written
    <2> QED
      BY <1>1, <1>7, <2>1 DEF Relate
  <1>8. CASE Restore(p)
    <2>1. \A r \in Names : IsFull(Written(active[r], seen[p][r].doc))
      BY FullIs DEF Written
    <2> QED
      BY <1>1, <1>8, <2>1 DEF Restore
  <1>9. CASE Back(p)
    <2>1. ~IsFull(Absent)
      BY DirKinds, <1>1
    <2> QED
      BY <1>1, <1>9, <2>1 DEF Back, tree
  <1>10. CASE Rewrite(p)
    <2>1. IsFull(Written(active[n], seen[p][n].doc))
      BY FullIs DEF Written
    <2> QED
      BY <1>1, <1>10, <2>1 DEF Rewrite
  <1>11. CASE Mkdir(p)
    BY <1>1, <1>11, LockedIs DEF Mkdir
  <1>12. CASE WriteTask(p)
    <2>1. IsFull(Full(NewTask(cmd[p].deps))) /\ IsFull(Locked(active[n]))
      BY <1>1, FullIs, LockedIs
    <2> QED
      BY <1>1, <1>12, <2>1 DEF WriteTask
  <1>13. CASE TakeBack(p)
    <2>1. cmd[p].task \in Hand(p)
      BY <1>13, Creating DEF TakeBack, CreateSteps
    <2> QED
      BY <1>1, <1>13, <2>1 DEF TakeBack
  <1>14. \/ UNCHANGED active \/ Recover(p) \/ Commit(p) \/ Save(p)
         \/ Remove(p) \/ Back(p) \/ Rewrite(p)
         \/ Relate(p) \/ Restore(p) \/ Mkdir(p) \/ WriteTask(p) \/ TakeBack(p)
    BY DEF Step, Link, Archive, Create, Start, LoadParent, LoadChild, Walk, List, Prepare, Committed,
           EditLoad, ArchiveLoad, ReadRelative, Compare, Copy, Mark, Files, CreateCheck, Anchor,
           Crash, tree
  <1> QED
    BY <1>2, <1>3, <1>4, <1>5, <1>6, <1>7, <1>8, <1>9, <1>10, <1>11, <1>12, <1>13, <1>14

LEMMA TornGrows ==
    ASSUME Shape, Next PROVE torn \subseteq torn'
  <1>1. PICK p \in Procs : Step(p)
    BY DEF Next
  <1>2. CASE Start(p) \/ EditLoad(p) \/ Save(p) \/ Crash(p)
    BY <1>2 DEF Start, EditLoad, Save, Crash
  <1>3. CASE Link(p)
    <2>1. CASE Recover(p) \/ Commit(p)
      BY <2>1, AdvanceIs, RecoverIs DEF Commit, Pending, Shape
    <2> QED
      BY <1>3, <2>1 DEF Link, LoadParent, LoadChild, Walk, List, Prepare, Committed
  <1>4. CASE ArchiveLoad(p) \/ ReadRelative(p) \/ Copy(p) \/ Compare(p) \/ Remove(p)
    BY <1>4 DEF ArchiveLoad, ReadRelative, Copy, Compare, Remove
  <1>5. CASE Mark(p) \/ Relate(p) \/ Files(p)
    BY <1>5 DEF Mark, Relate, Files
  <1>6. CASE Restore(p) \/ Back(p) \/ Rewrite(p)
    BY <1>6 DEF Restore, Back, Rewrite
  <1>7. CASE Create(p)
    BY <1>7 DEF Create, CreateCheck, Mkdir, WriteTask, Anchor, TakeBack
  <1> QED
    BY <1>1, <1>2, <1>3, <1>4, <1>5, <1>6, <1>7 DEF Step, Archive

\* Tasks are excused for good.
LEMMA ClearBefore ==
    ASSUME Shape, Next, NEW n, Clear(n)'
    PROVE  Clear(n) /\ n \notin Blur
  BY TornGrows DEF Next, Clear, Shape

-----------------------------------------------------------------------------
(* One home: what a step of p leaves to the other commands.                *)

LEMMA OthersOwn ==
    ASSUME HomeInv, NEW p \in Procs, Step(p), NEW n \in Names, Clear(n), n \notin Blur,
           n \notin torn', NEW q \in Procs \ {p}
    PROVE  Own(q, n)'
  <1>1. Shape /\ Own(q, n)
    BY DEF HomeInv, Homed
  <1>2. Same(q) /\ (unit'[q] = unit[q] \/ (q \in Pending /\ Advance(q)))
    BY <1>1, Others
  <1>3. IsFull(active[n]) /\ ~IsFull(active'[n]) =>
            n \in Hand(p) /\ cmd[p].kind = "archive"
    <2>1. Remove(p) => pc[p] \in ArchiveSteps
      BY DEF Remove, ArchiveSteps
    <2> QED
      BY <1>1, <2>1, Kinds, Archived
  <1>4. Follows(q, n) \/ (q \in Pending /\ n \in {unit[q].task, unit[q].of}) => n \in Holds(q)
    BY <1>1, InItsHand DEF Holds, Follows
  <1>5. Follows(q, n)' => IsFull(active'[n])
    <2>1. Follows(q, n)' => Follows(q, n)
      BY <1>2 DEF Same, Follows, Running
    <2> QED
      BY <1>1, <1>3, <1>4, <2>1 DEF Own, Blur
  <1>6. q \in Pending' /\ n \in {unit'[q].task, unit'[q].of} => IsFull(active'[n])
    <2>1. q \in Pending' => q \in Pending
      BY <1>1, PendingMoves
    <2>2. q \in Pending => unit'[q].task = unit[q].task /\ unit'[q].of = unit[q].of
      BY <1>1, <1>2, AdvanceIs DEF Shape
    <2> QED
      BY <1>1, <1>3, <1>4, <2>1, <2>2 DEF Own, Blur
  <1>7. Placed(q, n)'
    <2> DEFINE At == pc[q] \in ArchiveSteps \cup CreateSteps
    <2>1. At /\ Running(q) /\ cmd[q].task = n => UNCHANGED <<active[n], stored[n]>>
      <3> SUFFICES ASSUME At, Running(q), cmd[q].task = n,
                          active'[n] # active[n] \/ stored'[n] # stored[n]
                   PROVE  FALSE
        OBVIOUS
      <3>1. n \in Hand(q) /\ cmd[q].kind \in {"archive", "create"}
        BY <1>1, InHand, InItsHand
      <3>2. \A r \in Procs \ {q} : n \notin Holds(r)
        BY <3>1 DEF Blur
      <3>3. n \notin Hand(p)
        BY <3>2 DEF Holds
      <3>4. PICK r \in Pending : n \in {unit[r].task, unit[r].of}
        BY <1>1, <3>3, Writes
      <3>5. r = q
        BY <3>2, <3>4 DEF Holds, Pending
      <3>6. pc[q] \notin {"commit", "dead"}
        BY DEF ArchiveSteps, CreateSteps
      <3> QED
        BY <1>1, <3>4, <3>5, <3>6, NotPending
    <2>2. pc'[q] = pc[q] /\ cmd'[q] = cmd[q] /\ seen'[q] = seen[q] /\ Running(q)' = Running(q)
      BY <1>2 DEF Same, Running
    <2>3. CASE At /\ Running(q) /\ cmd[q].task = n
      BY <1>1, <2>1, <2>2, <2>3 DEF Own, Placed
    <2>4. CASE ~(At /\ Running(q) /\ cmd[q].task = n)
      BY <2>2, <2>4 DEF Placed, ArchiveSteps, CreateSteps
    <2> QED
      BY <2>3, <2>4
  <1> QED
    BY <1>5, <1>6, <1>7 DEF Own

\* A move of another command is still going on.
LEMMA OthersMove ==
    ASSUME Shape, NEW p \in Procs, Step(p), NEW n \in Names, Moving(n), ~Moves(p, n)
    PROVE  Moving(n)'
  <1>1. PICK q \in Procs \ {p} : Moves(q, n)
    BY DEF Moving
  <1>2. Same(q)
    BY Others
  <1> QED
    BY <1>1, <1>2 DEF Moving, Moves, Same, Running

\* A step that leaves the task where it is, and does not end a move of it.
LEMMA HousedStays ==
    ASSUME HomeInv, NEW p \in Procs, Step(p), NEW n \in Names, Clear(n), ~Moves(p, n),
           active'[n] = active[n], stored'[n] = stored[n]
    PROVE  Housed(n)'
  BY OthersMove DEF HomeInv, Homed, Housed

\* or writes it where it is there
LEMMA HousedWritten ==
    ASSUME HomeInv, NEW p \in Procs, Step(p), NEW n \in Names, Clear(n), ~Moves(p, n),
           active[n] # Absent, stored'[n] = stored[n]
    PROVE  Housed(n)'
  BY OthersMove DEF HomeInv, Homed, Housed

\* A command that has ended has loaded and staged nothing.
LEMMA IdleOwn ==
    ASSUME Shape, NEW p \in Procs, Return(p), NEW n \in Names
    PROVE  Own(p, n)'
  <1>1. pc'[p] = "idle" /\ unit'[p] = NoUnit
    BY ReturnIs DEF Shape
  <1>2. ~Running(p)' /\ p \notin Pending'
    BY <1>1 DEF Running, Pending, NoUnit
  <1> QED
    BY <1>2 DEF Own, Follows, Placed

\* What p has loaded of other tasks stays there.
LEMMA FollowsStays ==
    ASSUME HomeInv, NEW p \in Procs, Step(p), NEW n \in Names, Clear(n), n \notin torn',
           Follows(p, n)
    PROVE  IsFull(active'[n])
  <1>1. IsFull(active[n])
    BY DEF HomeInv, Homed, Own
  <1>2. Remove(p) => cmd[p].kind = "archive"
    BY Archived DEF Remove, HomeInv, ArchiveSteps
  <1> QED
    BY <1>1, <1>2, Kinds DEF HomeInv, Follows

-----------------------------------------------------------------------------
(* One home: one action after the other.                                   *)

\* A command that goes on, and has loaded only tasks that are there.
LEMMA OwnMoves ==
    ASSUME HomeInv, NEW p \in Procs, Step(p), NEW n \in Names, Clear(n), n \notin torn',
           Running(p), p \notin Pending', cmd'[p] = cmd[p],
           seen'[p][n] = seen[p][n] \/ IsFull(active'[n]),
           Placed(p, n)'
    PROVE  Own(p, n)'
  <1>1. Follows(p, n)' => Follows(p, n) \/ IsFull(active'[n])
    BY DEF Follows
  <1> QED
    BY <1>1, FollowsStays DEF Own

LEMMA RefuseOwn ==
    ASSUME HomeInv, NEW p \in Procs, Step(p), NEW n \in Names, Clear(n), n \notin torn',
           pc[p] \in LinkSteps, p \notin Pending, Refuse(p)
    PROVE  Own(p, n)'
  <1>1. CASE cmd[p].kind = "create"
    <2>1. Goto(p, "takeback") /\ UNCHANGED <<memory, unit>>
      BY <1>1 DEF Refuse
    <2>2. pc'[p] = "takeback" /\ Running(p) /\ p \notin Pending'
      BY <2>1, GotoIs DEF HomeInv, Shape, Places, CreateSteps, LinkSteps, Running, Pending
    <2>3. IsFull(seen[p][cmd[p].task])
      BY <1>1 DEF HomeInv, Shape, Fits
    <2>4. Placed(p, n)'
      BY <2>1, <2>2, <2>3 DEF Placed, memory
    <2> QED
      BY <2>1, <2>2, <2>4, OwnMoves DEF memory
  <1>2. CASE cmd[p].kind # "create"
    BY <1>2, IdleOwn DEF Refuse, HomeInv
  <1> QED
    BY <1>1, <1>2

LEMMA LinkedOwn ==
    ASSUME HomeInv, NEW p \in Procs, Step(p), NEW n \in Names, Clear(n), n \notin torn',
           pc[p] \in LinkSteps, p \notin Pending, Linked(p)
    PROVE  Own(p, n)'
  <1>1. CASE cmd[p].kind = "create"
    <2>1. Goto(p, "anchor") /\ UNCHANGED <<memory, unit>>
      BY <1>1 DEF Linked
    <2>2. pc'[p] = "anchor" /\ Running(p) /\ p \notin Pending'
      BY <2>1, GotoIs DEF HomeInv, Shape, Places, CreateSteps, LinkSteps, Running, Pending
    <2>3. Placed(p, n)'
      BY <2>2 DEF Placed
    <2> QED
      BY <2>1, <2>2, <2>3, OwnMoves DEF memory
  <1>2. CASE cmd[p].kind # "create"
    BY <1>2, IdleOwn DEF Linked, HomeInv
  <1> QED
    BY <1>1, <1>2

LEMMA StartHome ==
    ASSUME HomeInv, NEW p \in Procs, Step(p), Start(p), NEW n \in Names, Clear(n), n \notin torn'
    PROVE  Housed(n)' /\ Own(p, n)'
  <1>1. Shape /\ pc[p] = "idle" /\ UNCHANGED <<tree, seen, unit>>
    BY DEF Start, HomeInv
  <1>2. Housed(n)'
    BY <1>1, HousedStays DEF Moves, Running, tree
  <1>3. ~IsFull(seen'[p][n]) /\ p \notin Pending'
    BY <1>1, NotPending DEF Shape, Fits, Pending, IsFull, Absent
  <1>4. PICK c \in Commands :
            Goto(p, IF c.kind \in {"link", "unlink"} THEN "parent" ELSE c.kind)
    BY DEF Start
  <1>5. pc'[p] \in {"parent", "edit", "archive", "create"}
    <2>1. c.kind \in {"link", "unlink", "edit", "archive", "create"}
      BY CommandFields
    <2> QED
      BY <1>1, <1>4, <2>1 DEF Goto, Shape, TypeOK
  <1>6. Placed(p, n)'
    BY <1>5 DEF Placed
  <1> QED
    BY <1>2, <1>3, <1>6 DEF Own, Follows

\* One write of a unit goes to a task that is there.
LEMMA AdvanceHoused ==
    ASSUME HomeInv, NEW p \in Procs, Step(p), NEW n \in Names, Clear(n),
           pc[p] \in LinkSteps, NEW q \in Pending, Advance(q), UNCHANGED stored
    PROVE  Housed(n)'
  <1>1. ~Moves(p, n)
    BY DEF Moves, LinkSteps
  <1>2. CASE n \in {unit[q].task, unit[q].of}
    <2>1. IsFull(active[n])
      BY <1>2 DEF HomeInv, Homed, Own, Pending
    <2> QED
      BY <1>1, <2>1, HousedWritten DEF IsFull, Absent
  <1>3. CASE n \notin {unit[q].task, unit[q].of}
    BY <1>1, <1>3, AdvanceIs, HousedStays DEF HomeInv, Shape
  <1> QED
    BY <1>2, <1>3

LEMMA LinkHome ==
    ASSUME HomeInv, NEW p \in Procs, Step(p), Link(p), NEW n \in Names, Clear(n), n \notin torn'
    PROVE  Housed(n)' /\ Own(p, n)'
  <1>1. /\ Shape /\ TypeOK /\ pc[p] \in LinkSteps /\ Running(p) /\ ~Moves(p, n)
        /\ cmd[p] \in Commands /\ cmd[p].task \in Names /\ cmd[p].of \in Names
        /\ cmd[p].kind \in {"link", "unlink", "create"}
    <2>1. pc[p] \in LinkSteps
      BY DEF Link, LoadParent, LoadChild, Walk, List, Recover, Prepare, Commit, Committed, LinkSteps
    <2>2. pc[p] \notin {"idle", "dead", "compare", "remove", "write", "takeback"}
      BY <2>1 DEF LinkSteps
    <2> QED
      BY <2>1, <2>2, InHand DEF HomeInv, Shape, Running, Moves
  <1>2. pc[p] # "commit" => p \notin Pending
    BY <1>1, NotPending DEF LinkSteps
  <1>3. UNCHANGED tree => Housed(n)'
    BY <1>1, HousedStays DEF tree
  <1>4. pc'[p] \in LinkSteps => Placed(p, n)'
    BY DEF Placed, LinkSteps
  <1>5. CASE LoadParent(p)
    <2>1. pc[p] = "parent" /\ UNCHANGED tree
      BY <1>5 DEF LoadParent
    <2>2. CASE IsFull(active[cmd[p].of])
      <3>1. Saw(p, cmd[p].of) /\ Goto(p, "child") /\ UNCHANGED <<cmd, walk, todo, queue, unit>>
        BY <1>5, <2>2 DEF LoadParent
      <3>2. pc'[p] \in LinkSteps
        BY <1>1, <3>1, GotoIs DEF Places, LinkSteps
      <3>3. seen'[p][n] = seen[p][n] \/ IsFull(active'[n])
        BY <1>1, <2>1, <2>2, <3>1, SawIs DEF tree
      <3>4. p \notin Pending'
        BY <1>2, <2>1, <3>1 DEF Pending
      <3> QED
        BY <1>1, <1>3, <1>4, <2>1, <3>1, <3>2, <3>3, <3>4, OwnMoves
    <2>3. CASE ~IsFull(active[cmd[p].of])
      BY <1>1, <1>2, <1>3, <1>5, <2>1, <2>3, RefuseOwn DEF LoadParent
    <2> QED
      BY <2>2, <2>3
  <1>6. CASE LoadChild(p)
    <2>1. pc[p] = "child" /\ UNCHANGED tree
      BY <1>6 DEF LoadChild
    <2>2. \/ Refuse(p) \/ Linked(p) \/ Return(p)
          \/ /\ IsFull(active[cmd[p].task])
             /\ Saw(p, cmd[p].task)
             /\ Goto(p, IF cmd[p].kind # "unlink" THEN "walk" ELSE "list")
             /\ UNCHANGED <<cmd, todo, queue, unit>>
      BY <1>6 DEF LoadChild
    <2>3. CASE Refuse(p) \/ Linked(p) \/ Return(p)
      BY <1>1, <1>2, <1>3, <2>1, <2>3, RefuseOwn, LinkedOwn, IdleOwn
    <2>4. CASE /\ IsFull(active[cmd[p].task])
               /\ Saw(p, cmd[p].task)
               /\ Goto(p, IF cmd[p].kind # "unlink" THEN "walk" ELSE "list")
               /\ UNCHANGED <<cmd, todo, queue, unit>>
      <3>1. pc'[p] \in LinkSteps
        BY <1>1, <2>4, GotoIs DEF Places, LinkSteps
      <3>2. seen'[p][n] = seen[p][n] \/ IsFull(active'[n])
        BY <1>1, <2>1, <2>4, SawIs DEF tree
      <3>3. p \notin Pending'
        BY <1>2, <2>1, <2>4 DEF Pending
      <3> QED
        BY <1>1, <1>3, <1>4, <2>1, <2>4, <3>1, <3>2, <3>3, OwnMoves
    <2> QED
      BY <2>2, <2>3, <2>4
  <1>7. CASE Walk(p)
    <2>1. pc[p] = "walk" /\ UNCHANGED tree
      BY <1>7 DEF Walk
    <2>2. \/ Refuse(p)
          \/ /\ \E where \in {"walk", "list"} : Goto(p, where)
             /\ UNCHANGED <<cmd, seen, todo, queue, unit>>
      BY <1>7 DEF Walk
    <2>3. CASE Refuse(p)
      BY <1>1, <1>2, <1>3, <2>1, <2>3, RefuseOwn
    <2>4. CASE /\ \E where \in {"walk", "list"} : Goto(p, where)
               /\ UNCHANGED <<cmd, seen, todo, queue, unit>>
      <3>1. pc'[p] \in LinkSteps
        BY <1>1, <2>4, GotoIs DEF Places, LinkSteps
      <3>2. p \notin Pending'
        BY <1>2, <2>1, <2>4 DEF Pending
      <3> QED
        BY <1>1, <1>3, <1>4, <2>1, <2>4, <3>1, <3>2, OwnMoves
    <2> QED
      BY <2>2, <2>3, <2>4
  <1>8. CASE Recover(p)
    <2>1. /\ pc[p] = "settle" /\ UNCHANGED <<stored, memory>>
          /\ UNCHANGED <<active, unit, torn>> \/ \E q \in Pending : q # p /\ Advance(q)
      BY <1>1, <1>8, RecoverIs
    <2>3. Housed(n)'
      BY <1>1, <1>3, <2>1, AdvanceHoused DEF tree
    <2>4. pc'[p] \in LinkSteps
      BY <1>1, <1>8, RecoverIs DEF LinkSteps
    <2>5. p \notin Pending'
      BY <1>1, <1>2, <2>1, AdvanceIs DEF Pending
    <2> QED
      BY <1>1, <1>4, <2>1, <2>3, <2>4, <2>5, OwnMoves DEF memory
  <1>12. CASE List(p)
    <2>1. /\ pc[p] = "list" /\ UNCHANGED <<tree, cmd, seen, unit>> /\ Goto(p, "settle")
      BY <1>12 DEF List
    <2>2. pc'[p] \in LinkSteps
      BY <1>1, <2>1, GotoIs DEF Places, LinkSteps
    <2>3. p \notin Pending'
      BY <1>2, <2>1 DEF Pending
    <2> QED
      BY <1>1, <1>3, <1>4, <2>1, <2>2, <2>3, OwnMoves
  <1>9. CASE Prepare(p)
    <2>1. /\ pc[p] = "settle" /\ UNCHANGED <<tree, memory>> /\ Goto(p, "commit")
          /\ unit'[p].task = cmd[p].task /\ unit'[p].of = cmd[p].of
      BY <1>1, <1>9, PrepareFits DEF Prepare
    <2>2. pc'[p] \in LinkSteps
      BY <1>1, <2>1, GotoIs DEF Places, LinkSteps
    <2>3. n \in {cmd[p].task, cmd[p].of} => Follows(p, n)
      BY <1>1, <2>1 DEF Shape, Fits, Follows
    <2>4. Follows(p, n) => IsFull(active'[n])
      BY FollowsStays
    <2>5. Follows(p, n)' => Follows(p, n)
      BY <1>1, <2>1 DEF Follows, memory
    <2> QED
      BY <1>3, <1>4, <2>1, <2>2, <2>3, <2>4, <2>5 DEF Own
  <1>10. CASE Commit(p)
    <2>1. /\ p \in Pending /\ Advance(p) /\ UNCHANGED <<stored, pc, memory>>
      BY <1>10 DEF Commit, Pending
    <2>2. Housed(n)'
      BY <1>1, <2>1, AdvanceHoused
    <2>3. n \in {unit[p].task, unit[p].of} => IsFull(active'[n])
      BY <1>1, <2>1, AdvanceIs DEF HomeInv, Homed, Own
    <2>4. Follows(p, n)' => IsFull(active'[n])
      BY <1>1, <2>1, FollowsStays DEF Follows, memory
    <2>5. unit'[p].task = unit[p].task /\ unit'[p].of = unit[p].of
      BY <1>1, <2>1, AdvanceIs
    <2> QED
      BY <1>1, <1>4, <2>1, <2>2, <2>3, <2>4, <2>5 DEF Own
  <1>11. CASE Committed(p)
    <2>1. UNCHANGED tree /\ p \notin Pending /\ (Refuse(p) \/ Linked(p))
      BY <1>2, <1>11 DEF Committed, Pending
    <2> QED
      BY <1>1, <1>3, <2>1, RefuseOwn, LinkedOwn
  <1> QED
    BY <1>5, <1>6, <1>7, <1>8, <1>9, <1>10, <1>11, <1>12 DEF Link

LEMMA EditHome ==
    ASSUME HomeInv, NEW p \in Procs, Step(p), EditLoad(p) \/ Save(p), NEW n \in Names,
           Clear(n), n \notin torn'
    PROVE  Housed(n)' /\ Own(p, n)'
  <1>1. /\ Shape /\ TypeOK /\ pc[p] \in {"edit", "save"} /\ Running(p) /\ ~Moves(p, n)
        /\ p \notin Pending
    BY NotPending DEF EditLoad, Save, HomeInv, Shape, Running, Moves
  <1>2. cmd[p].task \in Names /\ cmd[p].kind = "edit"
    BY <1>1, InHand DEF Shape, Fits, Running
  <1>3. CASE EditLoad(p)
    <2>1. UNCHANGED tree
      BY <1>3 DEF EditLoad
    <2>2. Housed(n)'
      BY <1>1, <2>1, HousedStays DEF tree
    <2>3. CASE IsFull(active[cmd[p].task])
      <3>1. Saw(p, cmd[p].task) /\ Goto(p, "save") /\ UNCHANGED <<cmd, walk, todo, queue, unit>>
        BY <1>3, <2>3 DEF EditLoad
      <3>2. Placed(p, n)'
        BY <1>1, <3>1, GotoIs DEF Places, Placed
      <3>3. seen'[p][n] = seen[p][n] \/ IsFull(active'[n])
        BY <1>1, <1>2, <2>1, <2>3, <3>1, SawIs DEF tree
      <3>4. p \notin Pending'
        BY <1>1, <3>1 DEF Pending
      <3> QED
        BY <1>1, <2>2, <3>1, <3>2, <3>3, <3>4, OwnMoves
    <2>4. CASE ~IsFull(active[cmd[p].task])
      BY <1>1, <1>3, <2>2, <2>4, IdleOwn DEF EditLoad
    <2> QED
      BY <2>3, <2>4
  <1>4. CASE Save(p)
    <2>1. pc[p] = "save" /\ Return(p) /\ UNCHANGED stored
      BY <1>4 DEF Save
    <2>2. CASE n = cmd[p].task
      <3>1. Follows(p, n)
        BY <1>1, <1>2, <2>1, <2>2 DEF Shape, Fits, Follows
      <3>2. IsFull(active[n])
        BY <3>1 DEF HomeInv, Homed, Own
      <3> QED
        BY <1>1, <2>1, <3>2, HousedWritten, IdleOwn DEF IsFull, Absent
    <2>3. CASE n # cmd[p].task
      <3>1. active'[n] = active[n]
        BY <1>1, <1>4, <2>3 DEF Save, TypeOK
      <3> QED
        BY <1>1, <2>1, <3>1, HousedStays, IdleOwn
    <2> QED
      BY <2>2, <2>3
  <1> QED
    BY <1>3, <1>4

\* A command that is at no step of a move, or moves another task.
LEMMA PlacedElsewhere ==
    ASSUME NEW p \in Procs, NEW n, cmd'[p].task # n PROVE Placed(p, n)'
  BY DEF Placed

\* The first steps of an archive: its task is where it was, and completed.
LEMMA ArchiveStartHome ==
    ASSUME HomeInv, NEW p \in Procs, Step(p), ArchiveLoad(p) \/ ReadRelative(p),
           NEW n \in Names, Clear(n), n \notin torn'
    PROVE  Housed(n)' /\ Own(p, n)'
  <1>1. /\ Shape /\ TypeOK /\ pc[p] \in ArchiveSteps /\ UNCHANGED tree
        /\ pc[p] \in {"archive", "relatives"} /\ ~Moves(p, n)
    BY DEF ArchiveLoad, ReadRelative, HomeInv, Shape, ArchiveSteps, Moves
  <1>2. /\ p \notin Pending /\ Running(p) /\ cmd[p].kind = "archive" /\ cmd[p].task \in Names
    BY <1>1, Archived
  <1>3. Housed(n)'
    BY <1>1, HousedStays DEF tree
  <1>4. CASE ArchiveLoad(p)
    <2> DEFINE d == active[cmd[p].task]
    <2>1. CASE IsFull(d) /\ d.doc.status = "completed"
      <3>1. Saw(p, cmd[p].task) /\ Goto(p, "relatives") /\ UNCHANGED <<cmd, walk, queue, unit>>
        BY <1>4, <2>1 DEF ArchiveLoad
      <3>2. seen'[p][cmd[p].task] = d /\ pc'[p] = "relatives"
        BY <1>1, <1>2, <3>1, SawIs, GotoIs DEF Places, ArchiveSteps
      <3>3. Placed(p, n)'
        BY <1>1, <2>1, <3>1, <3>2 DEF Placed, tree
      <3>4. seen'[p][n] = seen[p][n] \/ IsFull(active'[n])
        BY <1>1, <1>2, <2>1, <3>1, SawIs DEF tree
      <3>5. p \notin Pending'
        BY <1>2, <3>1 DEF Pending
      <3> QED
        BY <1>2, <1>3, <3>1, <3>3, <3>4, <3>5, OwnMoves
    <2>2. CASE ~(IsFull(d) /\ d.doc.status = "completed")
      BY <1>1, <1>3, <1>4, <2>2, IdleOwn DEF ArchiveLoad
    <2> QED
      BY <2>1, <2>2
  <1>5. CASE ReadRelative(p)
    <2>1. /\ pc[p] = "relatives" /\ UNCHANGED <<cmd, unit>>
          /\ seen'[p][n] # seen[p][n] => seen'[p][n] = active[n] /\ IsFull(active[n])
          /\ pc'[p] \in {"relatives", "copy"}
      BY <1>1, <1>5, ReadRelativeFits DEF ReadRelative
    <2>2. Placed(p, n)
      BY DEF HomeInv, Homed, Own
    <2>3. Placed(p, n)'
      BY <1>1, <1>2, <2>1, <2>2 DEF Placed, tree
    <2>4. p \notin Pending'
      BY <1>2, <2>1 DEF Pending
    <2> QED
      BY <1>1, <1>2, <1>3, <2>1, <2>3, <2>4, OwnMoves DEF tree
  <1> QED
    BY <1>4, <1>5

\* The move itself.
LEMMA MoveHome ==
    ASSUME HomeInv, NEW p \in Procs, Step(p), Copy(p) \/ Compare(p) \/ Remove(p) \/ Mark(p),
           NEW n \in Names, Clear(n), n \notin torn'
    PROVE  Housed(n)' /\ Own(p, n)'
  <1> DEFINE t == cmd[p].task
  <1>1. /\ Shape /\ TypeOK /\ pc[p] \in ArchiveSteps
        /\ pc[p] \in {"copy", "compare", "remove", "mark"}
    BY DEF Copy, Compare, Remove, Mark, HomeInv, Shape, ArchiveSteps
  <1>2. /\ p \notin Pending /\ Running(p) /\ cmd[p].kind = "archive" /\ t \in Names
        /\ IsFull(seen[p][t])
    BY <1>1, Archived
  <1>3. active \in [Names -> Dirs] /\ stored \in [Names -> Dirs]
    BY <1>1 DEF TypeOK
  <1>4. Placed(p, n) /\ Housed(n)
    BY DEF HomeInv, Homed, Own
  <1>5. UNCHANGED <<memory, unit>> => p \notin Pending' /\ cmd'[p] = cmd[p] /\ seen'[p] = seen[p]
    BY <1>2 DEF Pending, memory
  <1>6. CASE t # n
    <2>1. active'[n] = active[n] /\ stored'[n] = stored[n] /\ ~Moves(p, n)
      BY <1>3, <1>6 DEF Copy, Compare, Remove, Mark, Moves, tree
    <2>2. Housed(n)'
      BY <2>1, HousedStays
    <2>3. Return(p) \/ UNCHANGED <<cmd, seen, unit>>
      BY DEF Copy, Compare, Remove, Mark, memory
    <2>4. CASE UNCHANGED <<cmd, seen, unit>>
      BY <1>2, <1>6, <2>2, <2>4, OwnMoves, PlacedElsewhere DEF Pending
    <2> QED
      BY <1>1, <2>2, <2>3, <2>4, IdleOwn
  <1>7. CASE t = n /\ Copy(p)
    <2>1. pc[p] = "copy" /\ active[n] = seen[p][n] /\ seen[p][n].doc.status = "completed"
      BY <1>2, <1>4, <1>7 DEF Copy, Placed
    <2>2. active[n] # Absent /\ UNCHANGED active
      BY <1>2, <1>7, <2>1 DEF IsFull, Absent, Copy
    <2>3. /\ stored' = [stored EXCEPT ![n] = IF @ = Absent THEN active[n] ELSE @]
          /\ Goto(p, "compare") /\ UNCHANGED <<memory, unit>>
      BY <1>7, <2>2 DEF Copy
    <2>4. pc'[p] = "compare" /\ \A q \in Procs \ {p} : pc'[q] = pc[q]
      BY <1>1, <2>3, GotoIs DEF Places, ArchiveSteps
    <2>5. Moving(n)'
      BY <1>7, <2>3, <2>4 DEF Moving, Moves, memory, Running
    <2>6. Housed(n)'
      BY <1>3, <1>4, <2>1, <2>3, <2>5 DEF Housed
    <2>7. Placed(p, n)'
      BY <2>1, <2>2, <2>3, <2>4 DEF Placed, memory
    <2> QED
      BY <1>2, <1>5, <2>3, <2>6, <2>7, OwnMoves
  <1>8. CASE t = n /\ Compare(p)
    <2>1. pc[p] = "compare" /\ active[n] = seen[p][n] /\ UNCHANGED tree
      BY <1>2, <1>4, <1>8 DEF Compare, Placed
    <2>2. Goto(p, "remove") /\ UNCHANGED <<memory, unit>>
      BY <1>8 DEF Compare
    <2>3. pc'[p] = "remove"
      BY <1>1, <2>2, GotoIs DEF Places, ArchiveSteps
    <2>4. Moving(n)'
      BY <1>8, <2>2, <2>3 DEF Moving, Moves, memory, Running
    <2>5. Housed(n)'
      BY <1>4, <2>1, <2>4 DEF Housed, tree
    <2>6. Placed(p, n)'
      BY <2>1, <2>2, <2>3 DEF Placed, memory, tree
    <2> QED
      BY <1>2, <1>5, <2>2, <2>5, <2>6, OwnMoves
  <1>9. CASE t = n /\ Remove(p)
    <2>1. /\ active' = [active EXCEPT ![n] = Absent] /\ UNCHANGED stored
          /\ Goto(p, "mark") /\ UNCHANGED <<memory, unit>>
      BY <1>9 DEF Remove
    <2>2. pc'[p] = "mark" /\ active'[n] = Absent
      BY <1>1, <1>3, <2>1, GotoIs DEF Places, ArchiveSteps
    <2>3. Housed(n)'
      BY <1>4, <2>1, <2>2 DEF Housed
    <2>4. Placed(p, n)'
      BY <2>2 DEF Placed
    <2> QED
      BY <1>2, <1>5, <2>1, <2>3, <2>4, OwnMoves
  <1>10. CASE t = n /\ Mark(p)
    <2>1. /\ pc[p] = "mark" /\ active[n] = Absent
          /\ UNCHANGED <<active, cmd, seen, walk, queue, unit>>
      BY <1>2, <1>4, <1>10 DEF Mark, Placed
    <2>2. pc'[p] \in {"relate", "restore"}
      BY <1>1, <1>10, GotoIs DEF Mark, Places, ArchiveSteps
    <2>3. Placed(p, n)'
      BY <2>1, <2>2 DEF Placed
    <2>4. IsFull(stored'[n]) => stored'[n].doc.status = "completed"
      <3>1. CASE UNCHANGED stored
        BY <1>4, <3>1 DEF Housed
      <3>2. CASE /\ IsFull(stored[n])
                 /\ stored' = [stored EXCEPT ![n] =
                                 Written(@, [@.doc EXCEPT !.status = "completed"])]
        <4> DEFINE done == [stored[n].doc EXCEPT !.status = "completed"]
        <4>1. stored[n].doc \in Docs
          BY <1>3, <3>2, DirKinds
        <4>2. done \in Docs /\ done.status = "completed"
          BY <4>1 DEF Docs
        <4>3. stored'[n] = Written(stored[n], done)
          BY <1>3, <3>2
        <4> HIDE DEF done
        <4> QED
          BY <1>3, <4>2, <4>3, WrittenIs
      <3> QED
        BY <1>10, <3>1, <3>2 DEF Mark
    <2>5. Housed(n)'
      BY <2>1, <2>4 DEF Housed
    <2>6. p \notin Pending'
      BY <1>2, <2>1 DEF Pending
    <2> QED
      BY <1>2, <2>1, <2>3, <2>5, <2>6, OwnMoves
  <1> QED
    BY <1>6, <1>7, <1>8, <1>9, <1>10

\* The relatives of a task that has been moved: they are there.
LEMMA RelateHome ==
    ASSUME HomeInv, NEW p \in Procs, Step(p), Relate(p) \/ Files(p) \/ Restore(p),
           NEW n \in Names, Clear(n), n \notin torn'
    PROVE  Housed(n)' /\ Own(p, n)'
  <1> DEFINE t == cmd[p].task
  <1>1. /\ Shape /\ TypeOK /\ pc[p] \in ArchiveSteps /\ UNCHANGED stored
        /\ pc[p] \in {"relate", "files", "restore"} /\ ~Moves(p, n)
    BY DEF Relate, Files, Restore, HomeInv, Shape, ArchiveSteps, Moves, tree
  <1>2. /\ p \notin Pending /\ Running(p) /\ cmd[p].kind = "archive" /\ t \in Names
        /\ pc[p] \in {"relate", "restore"} => todo[p] \subseteq Updates(p)
    BY <1>1, Archived
  <1>3. active \in [Names -> Dirs]
    BY <1>1 DEF TypeOK
  <1>4. Placed(p, n) /\ (Follows(p, n) => IsFull(active[n]))
    BY DEF HomeInv, Homed, Own
  <1>5. active'[n] = active[n] \/ Follows(p, n)
    <2>1. pc[p] \in {"relate", "restore"} => \A r \in todo[p] : Follows(p, r)
      BY <1>2 DEF Updates, Follows
    <2> QED
      BY <1>3, <2>1 DEF Relate, Files, Restore, tree
  <1>6. Housed(n)'
    BY <1>1, <1>4, <1>5, HousedStays, HousedWritten DEF IsFull, Absent
  <1>7. CASE Return(p)
    BY <1>1, <1>6, <1>7, IdleOwn
  <1>8. CASE UNCHANGED <<cmd, seen, unit>> /\ pc'[p] \in {"relate", "files", "restore", "back"}
    <2>1. t = n => ~Follows(p, n)
      BY <1>2 DEF Follows
    <2>2. t = n => active'[n] = Absent
      BY <1>1, <1>2, <1>4, <1>5, <2>1 DEF Placed
    <2>3. Placed(p, n)'
      BY <1>8, <2>2 DEF Placed
    <2> QED
      BY <1>2, <1>6, <1>8, <2>3, OwnMoves DEF Pending
  <1>9. \/ Return(p)
        \/ /\ UNCHANGED <<cmd, seen, unit>>
           /\ \/ UNCHANGED pc
              \/ \E where \in {"files", "restore", "back"} : Goto(p, where)
    BY DEF Relate, Files, Restore
  <1>10. ASSUME \E where \in {"files", "restore", "back"} : Goto(p, where)
         PROVE  pc'[p] \in {"files", "restore", "back"}
    BY <1>1, <1>10, GotoIs DEF Places, ArchiveSteps
  <1> QED
    BY <1>1, <1>7, <1>8, <1>9, <1>10

\* The way back.
LEMMA BackHome ==
    ASSUME HomeInv, NEW p \in Procs, Step(p), Back(p) \/ Rewrite(p),
           NEW n \in Names, Clear(n), n \notin torn'
    PROVE  Housed(n)' /\ Own(p, n)'
  <1> DEFINE t == cmd[p].task
  <1>1. /\ Shape /\ TypeOK /\ pc[p] \in ArchiveSteps
        /\ pc[p] \in {"back", "rewrite"} /\ ~Moves(p, n)
    BY DEF Back, Rewrite, HomeInv, Shape, ArchiveSteps, Moves
  <1>2. /\ p \notin Pending /\ Running(p) /\ cmd[p].kind = "archive" /\ t \in Names
        /\ t \in Hand(p)
    BY <1>1, Archived
  <1>3. active \in [Names -> Dirs] /\ stored \in [Names -> Dirs]
    BY <1>1 DEF TypeOK
  <1>4. Housed(n)'
    <2>1. CASE t # n
      BY <1>1, <1>3, <2>1, HousedStays DEF Back, Rewrite, tree
    <2>2. CASE t = n /\ Back(p)
      <3>1. /\ active' = [active EXCEPT ![n] = stored[n]]
            /\ stored' = [stored EXCEPT ![n] = Absent]
        BY <1>2, <2>2 DEF Back
      <3>2. stored'[n] = Absent /\ ~IsFull(Absent)
        BY <1>3, <3>1, DirKinds
      <3> QED
        BY <3>2 DEF Housed
    <2>3. CASE t = n /\ Rewrite(p)
      <3>1. UNCHANGED stored
        BY <2>3 DEF Rewrite
      <3>2. active[n] = Absent => active'[n] = active[n]
        BY <1>3, <2>3 DEF Rewrite
      <3> QED
        BY <1>1, <3>1, <3>2, HousedStays, HousedWritten
    <2> QED
      BY <2>1, <2>2, <2>3
  <1>5. CASE Back(p)
    <2>1. UNCHANGED <<cmd, seen, unit>> /\ Goto(p, "rewrite")
      BY <1>5 DEF Back, memory
    <2>2. pc'[p] = "rewrite"
      BY <1>1, <2>1, GotoIs DEF Places, ArchiveSteps
    <2>3. Placed(p, n)'
      BY <2>2 DEF Placed
    <2> QED
      BY <1>2, <1>4, <2>1, <2>3, OwnMoves DEF Pending
  <1>6. CASE Rewrite(p)
    BY <1>1, <1>4, <1>6, IdleOwn DEF Rewrite
  <1> QED
    BY <1>5, <1>6

LEMMA CreateHome ==
    ASSUME HomeInv, NEW p \in Procs, Step(p), Create(p), NEW n \in Names, Clear(n), n \notin torn'
    PROVE  Housed(n)' /\ Own(p, n)'
  <1> DEFINE t == cmd[p].task
  <1>1. /\ Shape /\ TypeOK /\ pc[p] \in CreateSteps
    BY DEF Create, CreateCheck, Mkdir, WriteTask, Anchor, TakeBack, HomeInv, Shape, CreateSteps
  <1>2. /\ p \notin Pending /\ Running(p) /\ cmd[p].kind = "create" /\ t \in Names
        /\ t \in Hand(p)
    BY <1>1, Creating
  <1>3. active \in [Names -> Dirs] /\ stored \in [Names -> Dirs]
    BY <1>1 DEF TypeOK
  <1>4. Placed(p, n) /\ Housed(n)
    BY DEF HomeInv, Homed, Own
  <1>5. CASE CreateCheck(p) \/ Anchor(p)
    <2>1. UNCHANGED tree /\ pc[p] \in {"create", "anchor"}
      BY <1>5 DEF CreateCheck, Anchor
    <2>2. Housed(n)'
      BY <2>1, HousedStays DEF Moves, tree
    <2>3. CASE Return(p)
      BY <1>1, <2>2, <2>3, IdleOwn
    <2>4. CASE CreateCheck(p) /\ ~Return(p)
      <3>1. /\ active[t] = Absent /\ Goto(p, "mkdir") /\ UNCHANGED <<memory, unit>>
        BY <2>4 DEF CreateCheck
      <3>2. pc'[p] = "mkdir"
        BY <1>1, <3>1, GotoIs DEF Places, CreateSteps
      <3>3. Placed(p, n)'
        BY <2>1, <3>1, <3>2 DEF Placed, memory, tree
      <3> QED
        BY <1>2, <2>2, <3>1, <3>3, OwnMoves DEF Pending, memory
    <2>5. CASE Anchor(p) /\ ~Return(p)
      <3>1. /\ pc[p] = "anchor" /\ Goto(p, "takeback") /\ UNCHANGED <<memory, unit>>
        BY <2>5 DEF Anchor
      <3>2. pc'[p] = "takeback" /\ IsFull(seen[p][t])
        BY <1>1, <3>1, GotoIs, Creating DEF Places, CreateSteps
      <3>3. Placed(p, n)'
        BY <3>1, <3>2 DEF Placed, memory
      <3> QED
        BY <1>2, <2>2, <3>1, <3>3, OwnMoves DEF Pending, memory
    <2> QED
      BY <1>5, <2>3, <2>4, <2>5
  <1>6. CASE Mkdir(p)
    <2>1. /\ pc[p] = "mkdir" /\ active' = [active EXCEPT ![t] = Locked(@)]
          /\ Goto(p, "write") /\ UNCHANGED <<stored, memory, unit>>
      BY <1>6 DEF Mkdir
    <2>2. pc'[p] = "write"
      BY <1>1, <2>1, GotoIs DEF Places, CreateSteps
    <2>3. CASE t = n
      <3>1. active[n] = Absent
        BY <1>2, <1>4, <2>1, <2>3 DEF Placed
      <3>2. active'[n] = Husk
        BY <1>3, <2>1, <2>3, <3>1, LockedIs
      <3>3. Moving(n)'
        BY <2>1, <2>2, <2>3 DEF Moving, Moves, memory, Running
      <3>4. Housed(n)'
        BY <1>4, <2>1, <3>3 DEF Housed
      <3>5. Placed(p, n)'
        BY <2>2, <3>2 DEF Placed
      <3> QED
        BY <1>2, <2>1, <3>4, <3>5, OwnMoves DEF Pending, memory
    <2>4. CASE t # n
      <3>1. Housed(n)'
        BY <1>3, <2>1, <2>4, HousedStays DEF Moves
      <3>2. Placed(p, n)'
        BY <2>1, <2>4 DEF Placed, memory
      <3> QED
        BY <1>2, <2>1, <3>1, <3>2, OwnMoves DEF Pending, memory
    <2> QED
      BY <2>3, <2>4
  <1>7. CASE WriteTask(p)
    <2> DEFINE new == NewTask(cmd[p].deps)
    <2>1. /\ pc[p] = "write" /\ UNCHANGED <<stored, cmd, walk, todo, queue, unit>>
          /\ \A m \in Names \ {t} : seen'[p][m] = seen[p][m]
      BY <1>1, <1>7, WriteTaskFits DEF WriteTask
    <2>2. CASE t # n
      <3>1. active'[n] = active[n] /\ seen'[p][n] = seen[p][n]
        BY <1>3, <1>7, <2>1, <2>2 DEF WriteTask
      <3>2. Housed(n)'
        BY <2>1, <2>2, <3>1, HousedStays DEF Moves
      <3>3. Placed(p, n)'
        BY <2>1, <2>2 DEF Placed
      <3> QED
        BY <1>2, <2>1, <3>1, <3>2, <3>3, OwnMoves DEF Pending
    <2>3. CASE /\ t = n
               /\ active' = [active EXCEPT ![t] = Full(new)]
               /\ torn' = IF stored[t] # Absent THEN torn \cup {t} ELSE torn
               /\ Goto(p, IF cmd[p].of # None /\ IsFull(active[cmd[p].of])
                          THEN "parent" ELSE "anchor")
      <3>1. active'[n] = Full(new) /\ IsFull(active'[n])
        BY <1>3, <2>3, FullIs
      <3>2. stored'[n] = Absent /\ ~IsFull(Absent)
        BY <1>3, <2>1, <2>3, DirKinds
      <3>3. Housed(n)'
        BY <3>2 DEF Housed
      <3>4. pc'[p] \in {"parent", "anchor"}
        BY <1>1, <2>3, GotoIs DEF Places, CreateSteps, LinkSteps
      <3>5. Placed(p, n)'
        BY <3>4 DEF Placed
      <3> QED
        BY <1>2, <2>1, <3>1, <3>3, <3>5, OwnMoves DEF Pending
    <2>4. CASE /\ t = n /\ active' = [active EXCEPT ![t] = Locked(@)]
               /\ Goto(p, "takeback") /\ UNCHANGED seen
      <3>1. active[n] = Husk
        BY <1>2, <1>4, <2>1, <2>4 DEF Placed
      <3>2. active'[n] = Husk
        BY <1>3, <2>4, <3>1, LockedIs, DirKinds
      <3>3. pc'[p] = "takeback"
        BY <1>1, <2>4, GotoIs DEF Places, CreateSteps
      <3>4. Moving(n)'
        BY <2>1, <2>4, <3>3 DEF Moving, Moves, Running
      <3>5. Housed(n)'
        BY <1>4, <2>1, <3>4 DEF Housed
      <3>6. Placed(p, n)'
        BY <3>2, <3>3 DEF Placed
      <3> QED
        BY <1>2, <2>1, <2>4, <3>5, <3>6, OwnMoves DEF Pending
    <2> QED
      BY <1>7, <2>2, <2>3, <2>4 DEF WriteTask
  <1>8. CASE TakeBack(p)
    <2> DEFINE wrote == IsFull(seen[p][t])
    <2>1. /\ pc[p] = "takeback" /\ Return(p) /\ UNCHANGED stored
          /\ active' = [active EXCEPT ![t] = IF IsFull(@) /\ ~wrote THEN @ ELSE Absent]
          /\ torn' = torn \cup (IF wrote THEN Hand(p) ELSE {})
      BY <1>8 DEF TakeBack
    <2>2. CASE t = n
      <3>1. ~wrote
        BY <1>2, <2>1, <2>2
      <3>2. active[n] = Husk
        BY <1>2, <1>4, <2>1, <2>2, <3>1 DEF Placed
      <3>3. active'[n] = Absent
        BY <1>3, <2>1, <2>2, <3>2, DirKinds
      <3>4. Housed(n)'
        BY <1>4, <2>1, <3>3 DEF Housed
      <3> QED
        BY <1>1, <2>1, <3>4, IdleOwn
    <2>3. CASE t # n
      <3>1. Housed(n)'
        BY <1>3, <2>1, <2>3, HousedStays DEF Moves
      <3> QED
        BY <1>1, <2>1, <3>1, IdleOwn
    <2> QED
      BY <2>2, <2>3
  <1> QED
    BY <1>5, <1>6, <1>7, <1>8 DEF Create

LEMMA CrashHome ==
    ASSUME HomeInv, NEW p \in Procs, Step(p), Crash(p), NEW n \in Names, Clear(n), n \notin torn'
    PROVE  Housed(n)' /\ Own(p, n)'
  <1>1. /\ Shape /\ Running(p) /\ Goto(p, "dead") /\ UNCHANGED <<tree, memory, unit>>
        /\ torn' = torn \cup (IF cmd[p].kind \in {"archive", "create"} THEN Hand(p) ELSE {})
    BY DEF Crash, HomeInv
  <1>2. ~Moves(p, n)
    <2>1. Moves(p, n) => cmd[p].kind \in {"archive", "create"} /\ n \in Hand(p)
      BY <1>1, InHand, InItsHand DEF Moves, ArchiveSteps, CreateSteps
    <2> QED
      BY <1>1, <2>1
  <1>3. Housed(n)'
    BY <1>1, <1>2, HousedStays DEF tree
  <1>4. ~Running(p)'
    BY <1>1, GotoIs DEF Shape, Places, Running
  <1> QED
    BY <1>1, <1>3, <1>4 DEF Own, Follows, Placed, Pending, HomeInv, Homed, tree

LEMMA HomeStep ==
    ASSUME HomeInv, Next PROVE HomeInv'
  <1>1. PICK p \in Procs : Step(p)
    BY DEF Next
  <1>2. Shape /\ Shape'
    BY ShapeStep DEF HomeInv
  <1>3. ASSUME NEW n \in Names, Clear(n)' PROVE Homed(n)'
    <2>1. Clear(n) /\ n \notin Blur /\ n \notin torn'
      BY <1>2, <1>3, ClearBefore DEF Clear
    <2>2. Housed(n)' /\ Own(p, n)'
      BY <1>1, <2>1, StartHome, LinkHome, EditHome, ArchiveStartHome, MoveHome, RelateHome,
         BackHome, CreateHome, CrashHome DEF Step, Archive
    <2>3. \A q \in Procs \ {p} : Own(q, n)'
      BY <1>1, <2>1, OthersOwn
    <2> QED
      BY <2>2, <2>3 DEF Homed
  <1> QED
    BY <1>2, <1>3 DEF HomeInv

LEMMA HomeStays == ASSUME HomeInv, UNCHANGED vars PROVE HomeInv'
  <1>1. Shape'
    BY ShapeStays DEF HomeInv
  <1>2. ASSUME NEW n \in Names, Clear(n)' PROVE Homed(n)'
    <2>1. Homed(n)
      BY <1>2 DEF HomeInv, Clear, vars, past
    <2> QED
      BY <2>1 DEF Homed, Housed, Own, Moving, Moves, Follows, Placed, Running, Pending,
                  vars, tree, memory
  <1> QED
    BY <1>1, <1>2 DEF HomeInv

LEMMA HomeInit == Init => HomeInv
  <1> SUFFICES ASSUME Init PROVE HomeInv
    OBVIOUS
  <1>1. Shape
    BY ShapeInit
  <1>2. \A n \in Names : stored[n] = Absent
    BY DEF Init
  <1>3. \A p \in Procs : ~Running(p) /\ p \notin Pending
    BY DEF Init, Running, Pending, NoUnit
  <1> QED
    BY <1>1, <1>2, <1>3 DEF HomeInv, Homed, Housed, Own, Follows, Placed, IsFull, Absent

\* An archived task is found once and completed, and nothing of it hides it
\* from the tasks that depend on it, however many commands ran at once, failed
\* half way or were killed: but for the tasks such a command had in hand, and
\* those that an archive or a creation shared with another command.
THEOREM OneHomeHolds == Spec => []OneHome
  <1>1. Init => HomeInv
    BY HomeInit
  <1>2. HomeInv /\ [Next]_vars => HomeInv'
    BY HomeStep, HomeStays
  <1>3. HomeInv => OneHome
    <2> SUFFICES ASSUME HomeInv, Quiet, NEW n \in Names, Clear(n)
                 PROVE  /\ active[n] = Absent \/ stored[n] = Absent
                        /\ IsFull(stored[n]) => DependencyStatus(n) = "completed"
      BY DEF OneHome
    <2>1. Housed(n)
      BY DEF HomeInv, Homed
    <2>2. ~Moving(n)
      BY DEF Quiet, Moving, Moves
    <2>3. active[n] = Absent \/ stored[n] = Absent
      BY <2>1, <2>2 DEF Housed
    <2>4. IsFull(stored[n]) => Found(n) = stored[n]
      BY <2>3 DEF Found, IsFull, Absent
    <2> QED
      BY <2>1, <2>3, <2>4 DEF Housed, DependencyStatus
  <1> QED
    BY <1>1, <1>2, <1>3, PTL DEF Spec

-----------------------------------------------------------------------------
(* Edits are kept: revisions only grow, and what is recalled is as old.    *)

LEMMA OlderStays ==
    ASSUME NEW old \in Docs, NEW new \in Docs, NEW newer \in Docs, Older(old, new),
           newer = new \/ newer.rev > new.rev
    PROVE  Older(old, newer)
  BY DEF Older, Docs

\* A task.json that is there before and after a step is the same or a newer one.
LEMMA Revisions ==
    ASSUME HomeInv, NEW p \in Procs, Step(p), NEW n \in Names, Clear(n), n \notin torn',
           IsFull(active[n]), IsFull(active'[n])
    PROVE  /\ active[n].doc \in Docs /\ active'[n].doc \in Docs
           /\ active'[n] = active[n] \/ active'[n].doc.rev > active[n].doc.rev
  <1>1. /\ Shape /\ TypeOK /\ active \in [Names -> Dirs] /\ seen \in [Procs -> [Names -> Dirs]]
        /\ active[n] \in Dirs /\ active[n].doc \in Docs /\ RevOf(active[n]) = active[n].doc.rev
        /\ active[n].doc.rev \in Nat /\ Locked(active[n]) = active[n]
        /\ Placed(p, n)
    BY DirKinds, LockedIs DEF HomeInv, Shape, TypeOK, RevOf, Homed, Own, Docs
  <1>2. ASSUME NEW doc \in Docs, active'[n] = Written(active[n], doc)
        PROVE  active'[n].doc \in Docs /\ active'[n].doc.rev > active[n].doc.rev
    BY <1>1, <1>2, WrittenIs
  <1>3. CASE active'[n] = active[n]
    BY <1>1, <1>3
  <1>4. ASSUME NEW q \in Pending, Advance(q), active'[n] # active[n]
        PROVE  active'[n].doc \in Docs /\ active'[n].doc.rev > active[n].doc.rev
    <2> DEFINE u == unit[q]
    <2>1. /\ u.task \in Names /\ u.of \in Names
          /\ u.before[1] \in Docs /\ u.after[1] \in Docs /\ u.after[2] \in Docs
      BY <1>1, UnitIs
    <2>2. CASE active' = [active EXCEPT ![u.of] = Written(@, u.after[1])]
      BY <1>1, <1>2, <1>4, <2>1, <2>2
    <2>3. CASE active' = [active EXCEPT ![u.of] = Locked(@)]
      BY <1>1, <1>4, <2>1, <2>3
    <2>4. CASE active' = [active EXCEPT ![u.task] = Written(@, u.after[2])]
      BY <1>1, <1>2, <1>4, <2>1, <2>4
    <2>5. CASE active' = [[active EXCEPT ![u.task] = Locked(@)] EXCEPT ![u.of] = Undone(u, @)]
      <3> DEFINE locked == [active EXCEPT ![u.task] = Locked(@)]
      <3>1. locked \in [Names -> Dirs] /\ locked[n] = active[n]
        <4>1. Locked(active[u.task]) \in Dirs
          BY <1>1, <2>1, LockedIs
        <4> QED
          BY <1>1, <2>1, <4>1
      <3>2. active' = [locked EXCEPT ![u.of] = Undone(u, @)]
        BY <2>5
      <3> HIDE DEF locked
      <3>3. active'[n] = Undone(u, active[n])
        BY <1>4, <2>1, <3>1, <3>2
      <3>4. active'[n] = Written(active[n], u.before[1])
        BY <1>4, <3>3 DEF Undone
      <3> QED
        BY <1>2, <2>1, <3>4
    <2>6. \/ active' = [active EXCEPT ![u.of] = Written(@, u.after[1])]
          \/ active' = [active EXCEPT ![u.of] = Locked(@)]
          \/ active' = [active EXCEPT ![u.task] = Written(@, u.after[2])]
          \/ active' = [[active EXCEPT ![u.task] = Locked(@)] EXCEPT ![u.of] = Undone(u, @)]
      BY <1>4 DEF Advance, First, Second
    <2> QED
      BY <2>2, <2>3, <2>4, <2>5, <2>6
  <1>5. CASE Recover(p) \/ Commit(p)
    <2>1. UNCHANGED active \/ \E q \in Pending : Advance(q)
      BY <1>1, <1>5, RecoverIs DEF Commit, Pending
    <2> QED
      BY <1>1, <1>3, <1>4, <2>1
  <1>6. CASE Save(p)
    <2> DEFINE m == cmd[p].task
               doc == seen[p][m].doc
               new == [doc EXCEPT !.note = @ + 1]
    <2>1. pc[p] = "save" /\ m \in Names /\ IsFull(seen[p][m])
      BY <1>1, <1>6, InHand DEF Save, Shape, Fits
    <2>2. doc \in Docs
      BY <1>1, <2>1, DirKinds
    <2>3. new \in Docs
      BY <2>2 DEF Docs
    <2>4. active' = [active EXCEPT ![m] =
                 IF Writable(active[m], doc.rev) THEN Written(@, new) ELSE Locked(@)]
      BY <1>6 DEF Save
    <2> HIDE DEF new
    <2> QED
      BY <1>1, <1>2, <1>3, <2>1, <2>3, <2>4
  <1>7. CASE Relate(p)
    <2>1. /\ pc[p] \in ArchiveSteps /\ pc[p] = "relate"
      BY <1>7 DEF Relate, ArchiveSteps
    <2>2. \A r \in todo[p] : r \in Names /\ IsFull(seen[p][r])
      BY <1>1, <2>1, Archived DEF Updates
    <2>3. \/ UNCHANGED active
          \/ \E r \in todo[p] :
               active' = [active EXCEPT ![r] = Written(@, Parted(p, r, @.doc))]
      BY <1>7 DEF Relate
    <2>4. n \in todo[p] => Parted(p, n, active[n].doc) \in Docs
      BY <1>1, <2>1, <2>2, PartedIs
    <2> QED
      BY <1>1, <1>2, <1>3, <2>2, <2>3, <2>4
  <1>8. CASE Restore(p)
    <2>1. /\ pc[p] \in ArchiveSteps /\ pc[p] = "restore"
      BY <1>8 DEF Restore, ArchiveSteps
    <2>2. \A r \in todo[p] : r \in Names /\ seen[p][r].doc \in Docs
      BY <1>1, <2>1, Archived, DirKinds DEF Updates
    <2>3. \/ UNCHANGED active
          \/ \E r \in todo[p] : active' = [active EXCEPT ![r] = Written(@, seen[p][r].doc)]
      BY <1>8 DEF Restore
    <2> QED
      BY <1>1, <1>2, <1>3, <2>2, <2>3
  <1>9. CASE Rewrite(p)
    <2>1. pc[p] \in ArchiveSteps /\ pc[p] = "rewrite"
      BY <1>9 DEF Rewrite, ArchiveSteps
    <2>2. seen[p][cmd[p].task].doc \in Docs /\ cmd[p].task \in Names
      BY <1>1, <2>1, Archived
    <2>3. \/ UNCHANGED active
          \/ active' = [active EXCEPT ![cmd[p].task] =
                          IF @ = Absent THEN @ ELSE Written(@, seen[p][cmd[p].task].doc)]
      BY <1>9 DEF Rewrite
    <2> QED
      BY <1>1, <1>2, <1>3, <2>2, <2>3
  <1>10. CASE Remove(p) \/ Back(p) \/ TakeBack(p) \/ Mkdir(p)
    <2>1. ~IsFull(Absent) /\ ~IsFull(Husk)
      BY <1>1, DirKinds
    <2>2. active'[n] = active[n]
      BY <1>1, <1>10, <2>1 DEF Remove, Back, TakeBack, Mkdir, tree
    <2> QED
      BY <1>3, <2>2
  <1>11. CASE WriteTask(p)
    <2>1. pc[p] = "write" /\ pc[p] \in CreateSteps
      BY <1>11 DEF WriteTask, CreateSteps
    <2>2. cmd[p].task # n
      <3>1. Running(p) /\ ~IsFull(Husk)
        BY <1>1, <2>1, Creating, DirKinds
      <3> QED
        BY <1>1, <2>1, <3>1 DEF Placed
    <2>3. active'[n] = active[n]
      BY <1>1, <1>11, <2>2 DEF WriteTask
    <2> QED
      BY <1>3, <2>3
  <1>12. \/ UNCHANGED active \/ Recover(p) \/ Commit(p) \/ Save(p)
         \/ Remove(p) \/ Back(p) \/ Rewrite(p)
         \/ Relate(p) \/ Restore(p) \/ Mkdir(p) \/ WriteTask(p) \/ TakeBack(p)
    BY DEF Step, Link, Archive, Create, Start, LoadParent, LoadChild, Walk, List, Prepare, Committed,
           EditLoad, ArchiveLoad, ReadRelative, Compare, Copy, Mark, Files, CreateCheck, Anchor,
           Crash, tree
  <1> QED
    BY <1>3, <1>5, <1>6, <1>7, <1>8, <1>9, <1>10, <1>11, <1>12

\* Only an edit that is acknowledged and a creation count.
LEMMA EditsStay ==
    ASSUME Shape, NEW p \in Procs, Step(p), NEW n \in Names, edits'[n] # edits[n]
    PROVE  /\ Save(p) \/ WriteTask(p)
           /\ cmd[p].task = n /\ n \in Hand(p) /\ cmd[p].kind # "archive"
  <1>1. edits \in [Names -> Nat]
    BY DEF Shape, TypeOK
  <1>2. CASE UNCHANGED edits
    BY <1>2
  <1>3. CASE Save(p)
    <2>1. cmd[p].task = n
      BY <1>1, <1>3 DEF Save
    <2>2. Running(p) /\ cmd[p].kind = "edit"
      BY <1>3, InHand DEF Save, Running, Shape, Fits
    <2> QED
      BY <1>3, <2>1, <2>2, InItsHand
  <1>4. CASE WriteTask(p)
    <2>1. cmd[p].task = n
      BY <1>1, <1>4 DEF WriteTask
    <2>2. cmd[p].task \in Hand(p) /\ cmd[p].kind = "create"
      BY <1>4, Creating DEF WriteTask, CreateSteps
    <2> QED
      BY <1>4, <2>1, <2>2
  <1>5. UNCHANGED edits \/ Save(p) \/ WriteTask(p)
    BY DEF Step, Link, Archive, Create, Start, LoadParent, LoadChild, Walk, List, Recover, Prepare,
           Commit, Committed, EditLoad, ArchiveLoad, ReadRelative, Copy, Compare, Remove,
           Mark, Relate, Files, Restore, Back, Rewrite, CreateCheck, Mkdir, Anchor, TakeBack, Crash
  <1> QED
    BY <1>2, <1>3, <1>4, <1>5

\* What a step of p means for a task of a unit that it leaves alone.
LEMMA UnitKeptStays ==
    ASSUME HomeInv, NEW p \in Procs, Step(p), NEW n \in Names, Clear(n), n \notin torn',
           NEW q \in Pending, q \in Pending', unit'[q] = unit[q],
           n \in {unit[q].task, unit[q].of} => IsFull(active'[n]),
           UnitKept(unit[q], n)
    PROVE  UnitKept(unit[q], n)'
  <1> DEFINE u == unit[q]
  <1>1. CASE n \in {u.task, u.of}
    <2>1. u.before[1] \in Docs /\ u.before[2] \in Docs /\ q \in Procs
      BY UnitIs DEF HomeInv, Shape
    <2>2. IsFull(active[n]) /\ IsFull(active'[n])
      BY <1>1, <2>1 DEF HomeInv, Homed, Own
    <2>3. /\ active[n].doc \in Docs /\ active'[n].doc \in Docs
          /\ active'[n].doc = active[n].doc \/ active'[n].doc.rev > active[n].doc.rev
      BY <2>2, Revisions
    <2>4. \A old \in Docs : Older(old, active[n].doc) => Older(old, active'[n].doc)
      BY <2>3, OlderStays
    <2>5. u.before[1].rev < active[n].doc.rev /\ active'[n].doc.rev > active[n].doc.rev =>
              u.before[1].rev < active'[n].doc.rev /\ u.before[1].rev + 1 # active'[n].doc.rev
      BY <2>1, <2>3 DEF Docs
    <2> QED
      BY <2>1, <2>3, <2>4, <2>5 DEF UnitKept
  <1>2. CASE n \notin {u.task, u.of}
    BY <1>2 DEF UnitKept
  <1> QED
    BY <1>1, <1>2

\* One write of a unit puts no older note over a task.
LEMMA AdvanceKept ==
    ASSUME EditInv, NEW q \in Pending, Advance(q), NEW n \in Names, Clear(n)
    PROVE  /\ IsFull(active'[n]) => active'[n].doc.note = edits[n]
           /\ q \in Pending' => UnitKept(unit[q], n)'
  <1> DEFINE u == unit[q]
  <1>1. /\ q \in Procs /\ u.phase \in {"prepared", "half"}
        /\ u \in [phase : {"prepared", "half", "conflicted", "committed"},
                  task : Names, of : Names, before : Docs \X Docs, after : Docs \X Docs]
        /\ u.task \in Names /\ u.of \in Names
        /\ u.before[1] \in Docs /\ u.before[2] \in Docs
        /\ u.after[1] \in Docs /\ u.after[2] \in Docs
        /\ TypeOK /\ active \in [Names -> Dirs] /\ unit \in [Procs -> Units]
    BY UnitIs DEF EditInv, HomeInv, Shape, TypeOK
  <1>2. /\ unit'[q].task = u.task /\ unit'[q].of = u.of /\ unit'[q].before = u.before
        /\ n \notin {u.task, u.of} => active'[n] = active[n]
    BY <1>1, AdvanceIs
  <1>6. unit'[q].after = u.after
    BY <1>1, AdvanceIs
  <1>3. /\ u.after[1].note = u.before[1].note /\ u.after[2].note = u.before[2].note
        /\ IsFull(active[n]) => active[n].doc.note = edits[n]
        /\ UnitKept(u, n)
        /\ n \in {u.task, u.of} => IsFull(active[n])
    <2>1. u.before[1] \in Docs /\ u.before[2] \in Docs /\ u.after = Joined(cmd[q], u.before)
          /\ cmd[q].task \in Names /\ cmd[q].of \in Names
      BY <1>1 DEF EditInv, Faithful
    <2>2. u.after[1].note = u.before[1].note /\ u.after[2].note = u.before[2].note
      <3> DEFINE c == cmd[q]
                 docs == u.before
      <3>1. c.task \in Names /\ c.of \in Names /\ docs[1] \in Docs /\ docs[2] \in Docs
        BY <2>1
      <3> HIDE DEF c, docs
      <3>2. Joined(c, docs)[1].note = docs[1].note /\ Joined(c, docs)[2].note = docs[2].note
        BY <3>1, JoinedIs
      <3> USE DEF c, docs
      <3> QED
        BY <2>1, <3>2
    <2>3. Homed(n) /\ Kept(n)
      BY DEF EditInv, HomeInv
    <2>4. Own(q, n) /\ Noted(n) /\ Recalls(q, n)
      BY <1>1, <2>3 DEF Homed, Kept
    <2>5. UnitKept(u, n) /\ (n \in {u.task, u.of} => IsFull(active[n]))
      BY <1>1, <2>4 DEF Own, Recalls
    <2> QED
      BY <2>2, <2>4, <2>5 DEF Noted
  <1>4. CASE n \notin {u.task, u.of}
    BY <1>2, <1>3, <1>4 DEF UnitKept
  <1>5. CASE n \in {u.task, u.of}
    <2>1. /\ IsFull(active[n]) /\ active[n] \in Dirs /\ active[n].doc \in Docs
          /\ RevOf(active[n]) = active[n].doc.rev /\ Locked(active[n]) = active[n]
          /\ active[n].doc.rev \in Nat
      BY <1>1, <1>3, <1>5, DirKinds, LockedIs DEF RevOf, Docs
    <2>2. CASE u.phase = "prepared" /\ Writable(active[u.of], u.before[1].rev)
      <3>1. /\ active' = [active EXCEPT ![u.of] = Written(@, u.after[1])]
            /\ unit' = [unit EXCEPT ![q].phase = "half"]
        BY <2>2 DEF Advance, First
      <3>2. unit'[q].phase = "half"
        BY <1>1, <3>1
      <3>3. CASE n = u.of
        <4>1. active[n].doc = u.before[1]
          BY <1>3, <2>1, <2>2, <3>3 DEF UnitKept, Older, Writable
        <4>2. /\ IsFull(active'[n]) /\ active'[n].doc.note = u.before[1].note
              /\ active'[n].doc.rev = active[n].doc.rev + 1 /\ active'[n].doc \in Docs
          BY <1>1, <1>3, <2>1, <3>1, <3>3, WrittenIs
        <4>5. active'[n].doc = [u.after[1] EXCEPT !.rev = u.before[1].rev + 1]
          <5>1. active'[n] = Written(active[n], u.after[1])
            BY <1>1, <3>1, <3>3
          <5>2. RevOf(active[n]) = u.before[1].rev
            BY <2>1, <4>1
          <5> QED
            BY <5>1, <5>2, WrittenDoc
        <4>3. u.task = n => Older(u.before[2], active'[n].doc)
          BY <1>1, <1>3, <2>1, <4>2, OlderStays DEF UnitKept
        <4>4. u.before[1].rev < active'[n].doc.rev
          BY <2>1, <4>1, <4>2
        <4>6. active'[n].doc.note = edits[n]
          BY <1>3, <2>1, <4>1, <4>2
        <4>7. UnitKept(unit[q], n)'
          BY <1>2, <1>6, <3>2, <3>3, <4>3, <4>4, <4>5 DEF UnitKept
        <4> QED
          BY <4>6, <4>7
      <3>4. CASE n # u.of
        BY <1>1, <1>2, <1>3, <2>1, <3>1, <3>4 DEF UnitKept
      <3> QED
        BY <3>3, <3>4
    <2>3. CASE u.phase = "prepared" /\ ~Writable(active[u.of], u.before[1].rev)
      <3>1. /\ active' = [active EXCEPT ![u.of] = Locked(@)]
            /\ unit' = [unit EXCEPT ![q].phase = "conflicted"]
        BY <2>3 DEF Advance, First
      <3>2. q \notin Pending'
        BY <1>1, <3>1 DEF Pending
      <3> QED
        BY <1>1, <1>3, <2>1, <3>1, <3>2
    <2>4. CASE u.phase = "half" /\ Writable(active[u.task], u.before[2].rev)
      <3>1. /\ active' = [active EXCEPT ![u.task] = Written(@, u.after[2])]
            /\ unit' = [unit EXCEPT ![q].phase = "committed"]
        BY <2>4 DEF Advance, Second
      <3>2. q \notin Pending'
        BY <1>1, <3>1 DEF Pending
      <3>3. CASE n = u.task
        <4>1. active[n].doc = u.before[2]
          BY <1>3, <2>1, <2>4, <3>3 DEF UnitKept, Older, Writable
        <4>2. active'[n].doc.note = u.before[2].note
          BY <1>1, <1>3, <2>1, <3>1, <3>3, WrittenIs
        <4> QED
          BY <1>3, <2>1, <3>2, <4>1, <4>2
      <3>4. CASE n # u.task
        BY <1>1, <1>3, <2>1, <3>1, <3>2, <3>4
      <3> QED
        BY <3>3, <3>4
    <2>5. CASE u.phase = "half" /\ ~Writable(active[u.task], u.before[2].rev)
      <3> DEFINE locked == [active EXCEPT ![u.task] = Locked(@)]
      <3>1. /\ active' = [locked EXCEPT ![u.of] = Undone(u, @)]
            /\ unit' = [unit EXCEPT ![q].phase = "conflicted"]
        BY <2>5 DEF Advance, Second
      <3>2. q \notin Pending'
        BY <1>1, <3>1 DEF Pending
      <3>3. locked \in [Names -> Dirs] /\ locked[n] = active[n]
        <4>1. Locked(active[u.task]) \in Dirs
          BY <1>1, LockedIs
        <4> QED
          BY <1>1, <2>1, <4>1
      <3> HIDE DEF locked
      <3>4. active'[n] = active[n] \/ (n = u.of /\ active'[n] = Undone(u, active[n]))
        BY <1>1, <3>1, <3>3
      <3>5. CASE n = u.of /\ active'[n] = Undone(u, active[n]) /\ active'[n] # active[n]
        <4>1. active[n].doc.rev = u.before[1].rev + 1 /\ active'[n].doc.note = u.before[1].note
          BY <1>1, <2>1, <3>5, UndoneIs
        <4>2. u.before[1].note = active[n].doc.note
          <5>1. active[n].doc = [u.after[1] EXCEPT !.rev = u.before[1].rev + 1]
            BY <1>3, <2>5, <3>5, <4>1 DEF UnitKept
          <5> QED
            BY <1>1, <1>3, <5>1 DEF Docs
        <4> QED
          BY <1>3, <2>1, <3>2, <4>1, <4>2
      <3> QED
        BY <1>3, <2>1, <3>2, <3>4, <3>5
    <2> QED
      BY <1>1, <2>2, <2>3, <2>4, <2>5
  <1> QED
    BY <1>4, <1>5

\* What a step of p leaves to the others.
LEMMA OthersRecall ==
    ASSUME EditInv, NEW p \in Procs, Step(p), NEW n \in Names, Clear(n), n \notin Blur,
           n \notin torn', NEW q \in Procs \ {p}
    PROVE  Recalls(q, n)'
  <1>1. HomeInv /\ Shape /\ TypeOK /\ Recalls(q, n) /\ Own(q, n) /\ Own(q, n)'
    BY OthersOwn DEF EditInv, HomeInv, Homed, Kept, Shape
  <1>2. Same(q) /\ (unit'[q] = unit[q] \/ (q \in Pending /\ Advance(q)))
    BY <1>1, Others
  <1>3. Follows(q, n)' => Older(seen[q][n].doc, active[n].doc)'
    <2> SUFFICES ASSUME Follows(q, n)' PROVE Older(seen[q][n].doc, active[n].doc)'
      OBVIOUS
    <2>1. Follows(q, n) /\ seen'[q][n] = seen[q][n]
      BY <1>2 DEF Same, Follows, Running
    <2>2. IsFull(active[n]) /\ IsFull(active'[n]) /\ Older(seen[q][n].doc, active[n].doc)
      BY <1>1, <2>1 DEF Own, Recalls
    <2>3. seen[q][n].doc \in Docs
      BY <1>1, <2>1, DirKinds DEF TypeOK, Follows
    <2>4. /\ active[n].doc \in Docs /\ active'[n].doc \in Docs
          /\ active'[n].doc = active[n].doc \/ active'[n].doc.rev > active[n].doc.rev
      BY <1>1, <2>2, Revisions
    <2>5. Older(seen[q][n].doc, active'[n].doc)
      BY <2>2, <2>3, <2>4, OlderStays
    <2> QED
      BY <2>1, <2>5
  <1>4. (Running(q) /\ cmd[q].kind = "archive" /\ IsFull(seen[q][n]) =>
            seen[q][n].doc.note = edits[n])'
    <2> SUFFICES ASSUME (Running(q) /\ cmd[q].kind = "archive" /\ IsFull(seen[q][n]))'
                 PROVE  seen'[q][n].doc.note = edits'[n]
      OBVIOUS
    <2>1. Running(q) /\ cmd[q].kind = "archive" /\ IsFull(seen[q][n]) /\ seen'[q] = seen[q]
      BY <1>2 DEF Same, Running
    <2>2. n \in Hand(q)
      BY <1>1, <2>1, InItsHand
    <2>3. n \notin Hand(p)
      BY <2>1, <2>2 DEF Blur, Holds
    <2>4. edits'[n] = edits[n]
      BY <1>1, <2>3, EditsStay
    <2> QED
      BY <1>1, <2>1, <2>4 DEF Recalls
  <1>5. q \in Pending' => UnitKept(unit[q], n)'
    <2> SUFFICES ASSUME q \in Pending' PROVE UnitKept(unit[q], n)'
      OBVIOUS
    <2>1. q \in Pending
      BY <1>1, PendingMoves
    <2>2. CASE unit'[q] = unit[q]
      <3>1. n \in {unit[q].task, unit[q].of} => IsFull(active'[n])
        BY <1>1, <2>2 DEF Own
      <3>2. UnitKept(unit[q], n)
        BY <1>1, <2>1 DEF Recalls
      <3> QED
        BY <1>1, <2>1, <2>2, <3>1, <3>2, UnitKeptStays
    <2>3. CASE Advance(q)
      BY <2>1, <2>3, AdvanceKept
    <2> QED
      BY <1>2, <2>2, <2>3
  <1> QED
    BY <1>3, <1>4, <1>5 DEF Recalls

-----------------------------------------------------------------------------
(* Edits are kept: what a step of p recalls and writes.                    *)

\* A command ends, or has loaded what is there.
LEMMA Loads ==
    ASSUME Shape, NEW p \in Procs, Step(p), NEW n \in Names
    PROVE  \/ Return(p) \/ Start(p) \/ Crash(p)
           \/ /\ Running(p) /\ cmd'[p] = cmd[p]
              /\ \/ seen'[p][n] = seen[p][n]
                 \/ IsFull(active'[n]) /\ seen'[p][n] = active'[n]
  <1> DEFINE GoesOn == /\ Running(p) /\ cmd'[p] = cmd[p]
                       /\ \/ seen'[p][n] = seen[p][n]
                          \/ IsFull(active'[n]) /\ seen'[p][n] = active'[n]
  <1>1. TypeOK /\ active \in [Names -> Dirs] /\ seen \in [Procs -> [Names -> Dirs]]
    BY DEF Shape, TypeOK
  <1>2. Running(p) /\ UNCHANGED <<cmd, seen>> => GoesOn
    OBVIOUS
  <1>3. ASSUME Running(p), NEW m \in Names, IsFull(active[m]), Saw(p, m), UNCHANGED <<active, cmd>>
        PROVE  GoesOn
    BY <1>1, <1>3, SawIs
  <1>4. CASE Link(p)
    <2>1. /\ Running(p) /\ cmd[p].task \in Names /\ cmd[p].of \in Names
      <3>1. pc[p] \in LinkSteps
        BY <1>4 DEF Link, LoadParent, LoadChild, Walk, List, Recover, Prepare, Commit, Committed, LinkSteps
      <3>2. pc[p] \notin {"idle", "dead"}
        BY <3>1 DEF LinkSteps
      <3> QED
        BY <3>1, <3>2, InHand DEF Running
    <2>2. Refuse(p) \/ Linked(p) => Return(p) \/ GoesOn
      BY <1>2, <2>1 DEF Refuse, Linked, memory
    <2>3. CASE LoadParent(p)
      BY <1>3, <2>1, <2>2, <2>3 DEF LoadParent, tree
    <2>4. CASE LoadChild(p)
      <3>1. \/ Refuse(p) \/ Linked(p) \/ Return(p)
            \/ /\ IsFull(active[cmd[p].task])
               /\ Saw(p, cmd[p].task)
               /\ UNCHANGED <<active, cmd>>
        BY <2>4 DEF LoadChild, tree
      <3> QED
        BY <1>3, <2>1, <2>2, <3>1
    <2>5. CASE Walk(p)
      <3>1. Refuse(p) \/ UNCHANGED <<cmd, seen>>
        BY <2>5 DEF Walk
      <3> QED
        BY <1>2, <2>1, <2>2, <3>1
    <2>6. CASE List(p) \/ Recover(p) \/ Prepare(p) \/ Commit(p)
      BY <1>2, <2>1, <2>6 DEF List, Recover, Prepare, Commit, memory
    <2>7. CASE Committed(p)
      BY <2>2, <2>7 DEF Committed
    <2> QED
      BY <1>4, <2>3, <2>4, <2>5, <2>6, <2>7 DEF Link
  <1>5. CASE EditLoad(p) \/ Save(p)
    <2>1. Running(p) /\ cmd[p].task \in Names
      BY <1>5, InHand DEF EditLoad, Save, Running
    <2> QED
      BY <1>3, <1>5, <2>1 DEF EditLoad, Save, tree
  <1>6. CASE Archive(p)
    <2>1. Running(p) /\ cmd[p].task \in Names
      <3>1. pc[p] \in ArchiveSteps
        BY <1>6 DEF Archive, ArchiveLoad, ReadRelative, Copy, Compare, Remove, Mark, Relate, Files,
                    Restore, Back, Rewrite, ArchiveSteps
      <3> QED
        BY <3>1, Archived
    <2>2. CASE ArchiveLoad(p)
      BY <1>3, <2>1, <2>2 DEF ArchiveLoad, tree
    <2>3. CASE ReadRelative(p)
      <3>1. UNCHANGED <<active, cmd>>
        BY <2>3 DEF ReadRelative, tree
      <3> QED
        BY <2>1, <2>3, <3>1, ReadRelativeFits
    <2>4. CASE Copy(p) \/ Compare(p) \/ Remove(p) \/ Mark(p)
      BY <1>2, <2>1, <2>4 DEF Copy, Compare, Remove, Mark, memory
    <2>5. CASE Relate(p) \/ Files(p) \/ Restore(p)
      BY <1>2, <2>1, <2>5 DEF Relate, Files, Restore
    <2>6. CASE Back(p) \/ Rewrite(p)
      BY <1>2, <2>1, <2>6 DEF Back, Rewrite, memory
    <2> QED
      BY <1>6, <2>2, <2>3, <2>4, <2>5, <2>6 DEF Archive
  <1>7. CASE Create(p)
    <2>1. Running(p) /\ cmd[p].task \in Names
      <3>1. pc[p] \in CreateSteps
        BY <1>7 DEF Create, CreateCheck, Mkdir, WriteTask, Anchor, TakeBack, CreateSteps
      <3> QED
        BY <3>1, Creating
    <2>2. CASE CreateCheck(p) \/ Mkdir(p) \/ Anchor(p) \/ TakeBack(p)
      BY <1>2, <2>1, <2>2 DEF CreateCheck, Mkdir, Anchor, TakeBack, memory
    <2>3. CASE WriteTask(p)
      <3>1. UNCHANGED cmd
        BY <2>3 DEF WriteTask
      <3>2. n # cmd[p].task => seen'[p][n] = seen[p][n]
        BY <2>3, WriteTaskFits
      <3>3. \/ UNCHANGED seen
            \/ /\ active' = [active EXCEPT ![cmd[p].task] = Full(NewTask(cmd[p].deps))]
               /\ seen' = [seen EXCEPT ![p][cmd[p].task] = Full(NewTask(cmd[p].deps))]
        BY <2>3 DEF WriteTask
      <3>4. CASE UNCHANGED seen
        BY <1>2, <2>1, <3>1, <3>4
      <3>5. CASE /\ active' = [active EXCEPT ![cmd[p].task] = Full(NewTask(cmd[p].deps))]
                 /\ seen' = [seen EXCEPT ![p][cmd[p].task] = Full(NewTask(cmd[p].deps))]
        <4>1. active'[cmd[p].task] = Full(NewTask(cmd[p].deps))
              /\ seen'[p][cmd[p].task] = Full(NewTask(cmd[p].deps))
          BY <1>1, <2>1, <3>5
        <4> QED
          BY <2>1, <3>1, <3>2, <4>1, FullIs
      <3> QED
        BY <3>3, <3>4, <3>5
    <2> QED
      BY <1>7, <2>2, <2>3 DEF Create
  <1> QED
    BY <1>4, <1>5, <1>6, <1>7 DEF Step

LEMMA SelfOlder == ASSUME NEW doc PROVE doc.rev \in Nat => Older(doc, doc)
  BY DEF Older

\* Both places have the edits after a step of p.
LEMMA NotedStep ==
    ASSUME EditInv, NEW p \in Procs, Step(p), NEW n \in Names, Clear(n), n \notin Blur,
           n \notin torn'
    PROVE  Noted(n)'
  <1> DEFINE t == cmd[p].task
  <1>1. /\ HomeInv /\ Shape /\ TypeOK /\ Noted(n) /\ Recalls(p, n) /\ Own(p, n) /\ Housed(n)
        /\ Placed(p, n)
        /\ active \in [Names -> Dirs] /\ stored \in [Names -> Dirs] /\ edits \in [Names -> Nat]
        /\ seen \in [Procs -> [Names -> Dirs]]
    BY DEF EditInv, HomeInv, Homed, Own, Kept, Shape, TypeOK
  <1>2. ~IsFull(Absent) /\ ~IsFull(Husk)
    BY <1>1, DirKinds
  <1>3. CASE active'[n] = active[n] /\ stored'[n] = stored[n] /\ edits'[n] = edits[n]
    BY <1>1, <1>3 DEF Noted
  <1>4. CASE Recover(p) \/ Commit(p)
    <2>1. UNCHANGED active \/ \E q \in Pending : Advance(q)
      BY <1>1, <1>4, RecoverIs DEF Commit, Pending
    <2>2. UNCHANGED <<stored, edits>>
      BY <1>4 DEF Recover, Commit
    <2>3. IsFull(active'[n]) => active'[n].doc.note = edits[n]
      BY <1>1, <2>1, AdvanceKept DEF Noted
    <2> QED
      BY <1>1, <2>2, <2>3 DEF Noted
  <1>5. CASE Save(p)
    <2> DEFINE doc == seen[p][n].doc
               new == [doc EXCEPT !.note = @ + 1]
    <2>1. CASE t # n
      BY <1>1, <1>3, <1>5, <2>1 DEF Save
    <2>2. CASE t = n
      <3>1. pc[p] = "save" /\ IsFull(seen[p][n]) /\ cmd[p].kind = "edit"
        BY <1>1, <1>5, <2>2 DEF Save, Shape, Fits
      <3>2. Running(p) /\ Follows(p, n) /\ n \in Hand(p)
        BY <1>1, <2>2, <3>1, InItsHand DEF Running, Follows
      <3>3. /\ IsFull(active[n]) /\ doc \in Docs /\ active[n].doc \in Docs
            /\ RevOf(active[n]) = active[n].doc.rev /\ Older(doc, active[n].doc)
        BY <1>1, <3>1, <3>2, DirKinds DEF Own, Recalls, RevOf
      <3>4. new \in Docs /\ new.note = doc.note + 1
        BY <3>3 DEF Docs
      <3>5. ~IsFull(stored[n])
        <4>1. active[n] # Absent
          BY <1>2, <3>3
        <4>2. ~Moving(n)
          <5> SUFFICES ASSUME NEW q \in Procs, Moves(q, n) PROVE FALSE
            BY DEF Moving
          <5>1. q # p
            BY <3>1 DEF Moves
          <5>2. n \in Hand(q) /\ cmd[q].kind \in {"archive", "create"}
            BY <1>1, InHand, InItsHand DEF Moves, ArchiveSteps, CreateSteps
          <5> QED
            BY <3>2, <5>1, <5>2 DEF Blur, Holds
        <4> QED
          BY <1>1, <1>2, <4>1, <4>2 DEF Housed
      <3>6. stored'[n] = stored[n]
        BY <1>5 DEF Save
      <3>7. CASE Writable(active[n], doc.rev)
        <4>1. doc = active[n].doc
          BY <3>3, <3>7 DEF Older, Writable
        <4>2. active'[n] = Written(active[n], new) /\ edits'[n] = edits[n] + 1
          BY <1>1, <1>5, <2>2, <3>7 DEF Save
        <4> HIDE DEF new
        <4>3. active'[n].doc.note = new.note
          BY <1>1, <3>4, <4>2, WrittenIs
        <4> QED
          BY <1>1, <3>3, <3>4, <3>5, <3>6, <4>1, <4>2, <4>3 DEF Noted
      <3>8. CASE ~Writable(active[n], doc.rev)
        <4>1. active'[n] = Locked(active[n]) /\ edits'[n] = edits[n]
          BY <1>1, <1>5, <2>2, <3>8 DEF Save
        <4>2. active'[n] = active[n]
          BY <1>1, <3>3, <4>1, LockedIs
        <4> QED
          BY <1>3, <3>6, <4>1, <4>2
      <3> QED
        BY <3>7, <3>8
    <2> QED
      BY <2>1, <2>2
  <1>6. CASE Copy(p)
    <2>1. UNCHANGED <<active, edits>> /\ stored'[n] \in {stored[n], active[n], Husk}
      BY <1>1, <1>6 DEF Copy
    <2> QED
      BY <1>1, <1>2, <2>1 DEF Noted
  <1>7. CASE Remove(p)
    <2>1. UNCHANGED <<stored, edits>> /\ active'[n] \in {active[n], Absent, Husk}
      BY <1>1, <1>7 DEF Remove
    <2> QED
      BY <1>1, <1>2, <2>1 DEF Noted
  <1>8. CASE Mark(p)
    <2>1. UNCHANGED <<active, edits>>
      BY <1>8 DEF Mark
    <2>2. CASE stored'[n] = stored[n]
      BY <1>3, <2>1, <2>2
    <2>3. CASE stored'[n] # stored[n]
      <3> DEFINE done == [stored[n].doc EXCEPT !.status = "completed"]
      <3>1. IsFull(stored[n]) /\ stored'[n] = Written(stored[n], done)
        BY <1>1, <1>8, <2>3 DEF Mark
      <3>2. stored[n].doc \in Docs
        BY <1>1, <3>1, DirKinds
      <3>3. done \in Docs /\ done.note = stored[n].doc.note
        BY <3>2 DEF Docs
      <3> HIDE DEF done
      <3>4. stored'[n].doc.note = done.note
        BY <1>1, <3>1, <3>3, WrittenIs
      <3> QED
        BY <1>1, <2>1, <3>1, <3>3, <3>4 DEF Noted
    <2> QED
      BY <2>2, <2>3
  <1>9. CASE Relate(p)
    <2>1. UNCHANGED <<stored, edits>> /\ pc[p] = "relate" /\ pc[p] \in ArchiveSteps
      BY <1>9 DEF Relate, ArchiveSteps
    <2>2. CASE active'[n] = active[n]
      BY <1>3, <2>1, <2>2
    <2>3. CASE active'[n] # active[n]
      <3>1. /\ n \in todo[p] /\ IsFull(active[n])
            /\ active'[n] = Written(active[n], Parted(p, n, active[n].doc))
        BY <1>1, <1>9, <2>3 DEF Relate
      <3>2. IsFull(seen[p][n]) /\ active[n].doc \in Docs
        BY <1>1, <2>1, <3>1, Archived, DirKinds DEF Updates
      <3>3. Parted(p, n, active[n].doc) \in Docs
            /\ Parted(p, n, active[n].doc).note = active[n].doc.note
        BY <1>1, <2>1, <3>2, PartedIs
      <3>4. active'[n].doc.note = active[n].doc.note
        BY <1>1, <3>1, <3>3, WrittenIs
      <3> QED
        BY <1>1, <2>1, <3>1, <3>4 DEF Noted
    <2> QED
      BY <2>2, <2>3
  <1>10. CASE Restore(p)
    <2>1. UNCHANGED <<stored, edits>> /\ pc[p] = "restore" /\ pc[p] \in ArchiveSteps
      BY <1>10 DEF Restore, ArchiveSteps
    <2>2. CASE active'[n] = active[n]
      BY <1>3, <2>1, <2>2
    <2>3. CASE active'[n] # active[n]
      <3>1. n \in todo[p] /\ active'[n] = Written(active[n], seen[p][n].doc)
        BY <1>1, <1>10, <2>3 DEF Restore
      <3>2. IsFull(seen[p][n]) /\ Running(p) /\ cmd[p].kind = "archive"
        BY <1>1, <2>1, <3>1, Archived DEF Updates
      <3>3. seen[p][n].doc \in Docs
        BY <1>1, <3>2, DirKinds
      <3>4. active'[n].doc.note = seen[p][n].doc.note
        BY <1>1, <3>1, <3>3, WrittenIs
      <3> QED
        BY <1>1, <2>1, <3>2, <3>4 DEF Noted, Recalls
    <2> QED
      BY <2>2, <2>3
  <1>11. CASE Back(p)
    <2>1. UNCHANGED edits /\ pc[p] = "back" /\ pc[p] \in ArchiveSteps
      BY <1>11 DEF Back, ArchiveSteps
    <2>2. CASE t # n
      BY <1>1, <1>3, <1>11, <2>1, <2>2 DEF Back, tree
    <2>3. CASE t = n
      <3>1. n \in Hand(p)
        BY <1>1, <2>1, <2>3, Archived
      <3>2. /\ active' = [active EXCEPT ![n] = stored[n]]
            /\ stored' = [stored EXCEPT ![n] = Absent]
        BY <1>11, <2>3, <3>1 DEF Back
      <3>3. active'[n] = stored[n] /\ stored'[n] = Absent
        BY <1>1, <3>2
      <3> QED
        BY <1>1, <1>2, <2>1, <3>3 DEF Noted
    <2> QED
      BY <2>2, <2>3
  <1>12. CASE Rewrite(p)
    <2>1. UNCHANGED <<stored, edits>> /\ pc[p] = "rewrite" /\ pc[p] \in ArchiveSteps
      BY <1>12 DEF Rewrite, ArchiveSteps
    <2>2. CASE active'[n] = active[n]
      BY <1>3, <2>1, <2>2
    <2>3. CASE active'[n] # active[n]
      <3>1. t = n /\ active'[n] = Written(active[n], seen[p][n].doc)
        BY <1>1, <1>12, <2>3 DEF Rewrite
      <3>2. IsFull(seen[p][n]) /\ seen[p][n].doc \in Docs /\ Running(p) /\ cmd[p].kind = "archive"
        BY <1>1, <2>1, <3>1, Archived
      <3>3. active'[n].doc.note = seen[p][n].doc.note
        BY <1>1, <3>1, <3>2, WrittenIs
      <3> QED
        BY <1>1, <2>1, <3>2, <3>3 DEF Noted, Recalls
    <2> QED
      BY <2>2, <2>3
  <1>13. CASE Mkdir(p)
    <2>1. UNCHANGED <<stored, edits>> /\ active'[n] \in {active[n], Locked(active[n])}
      BY <1>1, <1>13 DEF Mkdir
    <2> QED
      BY <1>1, <2>1, LockedIs DEF Noted
  <1>14. CASE WriteTask(p)
    <2> DEFINE new == NewTask(cmd[p].deps)
    <2>1. pc[p] = "write" /\ pc[p] \in CreateSteps /\ UNCHANGED stored
      BY <1>14 DEF WriteTask, CreateSteps
    <2>2. CASE t # n
      BY <1>1, <1>3, <1>14, <2>1, <2>2 DEF WriteTask
    <2>3. CASE /\ t = n /\ active' = [active EXCEPT ![t] = Full(new)]
               /\ edits' = [edits EXCEPT ![t] = 0]
               /\ torn' = IF stored[t] # Absent THEN torn \cup {t} ELSE torn
      <3>1. stored'[n] = Absent /\ edits'[n] = 0 /\ active'[n] = Full(new)
        BY <1>1, <2>1, <2>3
      <3>2. new.note = 0
        BY <1>1, <2>1, Creating, NewTaskIs
      <3> QED
        BY <1>2, <3>1, <3>2, FullIs DEF Noted
    <2>4. CASE t = n /\ active' = [active EXCEPT ![t] = Locked(@)] /\ UNCHANGED edits
      <3>1. active'[n] = Locked(active[n])
        BY <1>1, <2>4
      <3> QED
        BY <1>1, <2>1, <2>4, <3>1, LockedIs DEF Noted
    <2> QED
      BY <1>14, <2>2, <2>3, <2>4 DEF WriteTask
  <1>15. CASE TakeBack(p)
    <2>1. UNCHANGED <<stored, edits>> /\ active'[n] \in {active[n], Absent}
      BY <1>1, <1>15 DEF TakeBack
    <2> QED
      BY <1>1, <1>2, <2>1 DEF Noted
  <1>16. \/ UNCHANGED <<tree, edits>> \/ Recover(p) \/ Commit(p) \/ Save(p)
         \/ Copy(p) \/ Remove(p) \/ Mark(p) \/ Back(p) \/ Rewrite(p)
         \/ Relate(p) \/ Restore(p) \/ Mkdir(p) \/ WriteTask(p) \/ TakeBack(p)
    BY DEF Step, Link, Archive, Create, Start, LoadParent, LoadChild, Walk, List, Prepare, Committed,
           EditLoad, ArchiveLoad, ReadRelative, Compare, Files, CreateCheck, Anchor, Crash
  <1>17. CASE UNCHANGED <<tree, edits>>
    BY <1>3, <1>17 DEF tree
  <1> QED
    BY <1>4, <1>5, <1>6, <1>7, <1>8, <1>9, <1>10, <1>11, <1>12, <1>13, <1>14, <1>15, <1>16, <1>17

\* The unit of p is pending from its record on, until it is done or refused.
LEMMA OwnUnit ==
    ASSUME Shape, NEW p \in Procs, Step(p), p \in Pending'
    PROVE  Prepare(p) \/ Commit(p) \/ Crash(p)
  <1>1. SUFFICES ASSUME ~Prepare(p), ~Commit(p), ~Crash(p) PROVE FALSE
    OBVIOUS
  <1>2. ~Return(p) /\ TypeOK
    BY ReturnIs DEF Pending, NoUnit, Shape
  <1>3. unit'[p] # unit[p] \/ pc[p] \in {"commit", "dead"}
    BY NotPending DEF Pending
  <1>4. CASE pc[p] \notin {"commit", "dead"}
    <2>1. Refuse(p) \/ Linked(p) => UNCHANGED unit
      BY <1>2 DEF Refuse, Linked
    <2>2. CASE Recover(p)
      <3> QED
        BY <1>2, <1>3, <1>4, <2>2, AdvanceIs, RecoverIs
    <2>3. CASE Link(p) /\ ~Recover(p)
      <3>1. UNCHANGED unit
        BY <1>1, <1>2, <2>1, <2>3 DEF Link, LoadParent, LoadChild, Walk, List, Committed
      <3> QED
        BY <1>3, <1>4, <3>1
    <2>4. CASE Start(p) \/ EditLoad(p) \/ Save(p)
      BY <1>2, <1>3, <1>4, <2>4 DEF Start, EditLoad, Save
    <2>5. CASE Archive(p)
      BY <1>2, <1>3, <1>4, <2>5
      DEF Archive, ArchiveLoad, ReadRelative, Copy, Compare, Remove, Mark, Relate, Files, Restore,
          Back, Rewrite
    <2>6. CASE Create(p)
      BY <1>2, <1>3, <1>4, <2>6 DEF Create, CreateCheck, Mkdir, WriteTask, Anchor, TakeBack
    <2> QED
      BY <1>1, <2>2, <2>3, <2>4, <2>5, <2>6 DEF Step
  <1>5. CASE pc[p] \in {"commit", "dead"}
    <2>1. Committed(p)
      BY <1>1, <1>5
      DEF Step, Link, Archive, Create, Start, LoadParent, LoadChild, Walk, List, Recover,
          EditLoad, Save, ArchiveLoad, ReadRelative, Copy, Compare, Remove, Mark, Relate, Files,
          Restore, Back, Rewrite, CreateCheck, Mkdir, WriteTask, Anchor, TakeBack
    <2>2. unit[p].phase \notin {"prepared", "half"} /\ UNCHANGED unit
      BY <1>2, <1>5, <2>1 DEF Committed, Linked, Refuse
    <2> QED
      BY <2>2 DEF Pending
  <1> QED
    BY <1>4, <1>5

\* What p recalls after its own step.
LEMMA OwnRecall ==
    ASSUME EditInv, NEW p \in Procs, Step(p), Shape', NEW n \in Names, Clear(n), n \notin Blur,
           n \notin torn'
    PROVE  Recalls(p, n)'
  <1>1. /\ HomeInv /\ Shape /\ TypeOK /\ Recalls(p, n) /\ Own(p, n)
        /\ Noted(n)' /\ seen[p] \in [Names -> Dirs] /\ active'[n] \in Dirs
    BY NotedStep DEF EditInv, HomeInv, Homed, Kept, Shape, TypeOK
  <1>2. p \in Pending' => UnitKept(unit[p], n)'
    <2>1. CASE Prepare(p)
      <3>1. /\ unit'[p].task = cmd[p].task /\ unit'[p].of = cmd[p].of
            /\ unit'[p].phase = "prepared"
            /\ unit'[p].before = <<seen[p][cmd[p].of].doc, seen[p][cmd[p].task].doc>>
        BY <1>1, <2>1, PrepareFits
      <3>2. UNCHANGED active /\ pc[p] = "settle"
        BY <2>1 DEF Prepare, tree
      <3>3. IsFull(seen[p][cmd[p].of]) /\ IsFull(seen[p][cmd[p].task]) /\ Running(p)
            /\ cmd[p].kind \in {"link", "unlink", "create"}
        BY <1>1, <3>2, InHand DEF Shape, Fits, Running, LinkSteps
      <3>4. n \in {cmd[p].of, cmd[p].task} => Older(seen[p][n].doc, active[n].doc)
        BY <1>1, <3>3 DEF Recalls, Follows
      <3> QED
        BY <3>1, <3>2, <3>4 DEF UnitKept
    <2>2. CASE Commit(p)
      BY <2>2, AdvanceKept DEF Commit, Pending
    <2>3. CASE Crash(p)
      <3>1. UNCHANGED <<active, unit>>
        BY <2>3 DEF Crash, tree
      <3> QED
        BY <1>1, <3>1 DEF Recalls, Pending, UnitKept
    <2> QED
      BY <1>1, <2>1, <2>2, <2>3, OwnUnit
  <1>3. CASE Return(p) \/ Crash(p)
    <2>1. ~Running(p)'
      BY <1>1, <1>3, ReturnIs, GotoIs DEF Crash, Running, Places
    <2> QED
      BY <1>2, <2>1 DEF Recalls, Follows
  <1>4. CASE Start(p)
    <2>1. ~IsFull(seen'[p][n])
      BY <1>1, <1>4 DEF Start, Shape, Fits, IsFull, Absent
    <2> QED
      BY <1>2, <2>1 DEF Recalls, Follows
  <1>5. CASE Running(p) /\ cmd'[p] = cmd[p] /\ seen'[p][n] = seen[p][n]
    <2>1. Follows(p, n)' => Older(seen[p][n].doc, active[n].doc)'
      <3> SUFFICES ASSUME Follows(p, n)' PROVE Older(seen'[p][n].doc, active'[n].doc)
        OBVIOUS
      <3>1. Follows(p, n)
        BY <1>5 DEF Follows
      <3>2. IsFull(active[n]) /\ IsFull(active'[n]) /\ Older(seen[p][n].doc, active[n].doc)
        BY <1>1, <3>1, FollowsStays DEF Own, Recalls
      <3>3. seen[p][n].doc \in Docs
        BY <1>1, <3>1, DirKinds DEF Follows
      <3>4. /\ active[n].doc \in Docs /\ active'[n].doc \in Docs
            /\ active'[n].doc = active[n].doc \/ active'[n].doc.rev > active[n].doc.rev
        BY <1>1, <3>2, Revisions
      <3> QED
        BY <1>5, <3>2, <3>3, <3>4, OlderStays
    <2>2. cmd[p].kind = "archive" => edits'[n] = edits[n]
      BY <1>1, EditsStay
    <2> QED
      BY <1>1, <1>2, <1>5, <2>1, <2>2 DEF Recalls
  <1>6. CASE cmd'[p] = cmd[p] /\ IsFull(active'[n]) /\ seen'[p][n] = active'[n]
    <2>1. active'[n].doc.rev \in Nat
      BY <1>1, <1>6, DirKinds DEF Docs
    <2> QED
      BY <1>1, <1>2, <1>6, <2>1, SelfOlder DEF Recalls, Noted
  <1> QED
    BY <1>1, <1>3, <1>4, <1>5, <1>6, Loads

LEMMA FaithfulStep ==
    ASSUME EditInv, NEW p \in Procs, Step(p) PROVE Faithful'
  <1>1. Shape /\ TypeOK /\ Faithful
    BY DEF EditInv, HomeInv, Shape
  <1> DEFINE Meant(q) == /\ cmd[q].kind \in {"link", "unlink", "create"}
                         /\ unit[q].task = cmd[q].task /\ unit[q].of = cmd[q].of
                         /\ unit[q].after = Joined(cmd[q], unit[q].before)
  <1>2. SUFFICES ASSUME NEW q \in Procs, q \in Pending' PROVE Meant(q)'
    BY DEF Faithful, Pending
  <1>3. ASSUME q \in Pending, unit'[q] = unit[q] \/ Advance(q), cmd'[q] = cmd[q] PROVE Meant(q)'
    <2>1. /\ unit'[q].after = unit[q].after /\ unit'[q].before = unit[q].before
          /\ unit'[q].task = unit[q].task /\ unit'[q].of = unit[q].of
      BY <1>1, <1>3, AdvanceIs
    <2> QED
      BY <1>1, <1>3, <2>1 DEF Faithful, Joined
  <1>4. CASE q # p
    <2>1. q \in Pending /\ (unit'[q] = unit[q] \/ Advance(q)) /\ cmd'[q] = cmd[q]
      BY <1>1, <1>2, <1>4, Others, PendingMoves DEF Same
    <2> QED
      BY <1>3, <2>1
  <1>5. CASE q = p
    <2>1. CASE Prepare(p)
      BY <1>1, <1>5, <2>1, PrepareFits DEF Joined
    <2>2. CASE Commit(p) \/ Crash(p)
      <3>1. q \in Pending /\ (unit'[q] = unit[q] \/ Advance(q)) /\ cmd'[q] = cmd[q]
        BY <1>2, <1>5, <2>2 DEF Commit, Crash, Pending, memory
      <3> QED
        BY <1>3, <3>1
    <2> QED
      BY <1>1, <1>2, <1>5, <2>1, <2>2, OwnUnit
  <1> QED
    BY <1>4, <1>5

LEMMA EditStep ==
    ASSUME EditInv, Next PROVE EditInv'
  <1>1. PICK p \in Procs : Step(p)
    BY DEF Next
  <1>2. HomeInv /\ HomeInv' /\ Shape /\ Shape'
    BY HomeStep DEF EditInv, HomeInv
  <1>3. Faithful'
    BY <1>1, FaithfulStep
  <1>4. ASSUME NEW n \in Names, Clear(n)' PROVE Kept(n)'
    <2>1. Clear(n) /\ n \notin Blur /\ n \notin torn'
      BY <1>2, <1>4, ClearBefore DEF Clear
    <2>2. Noted(n)' /\ Recalls(p, n)'
      BY <1>1, <1>2, <2>1, NotedStep, OwnRecall
    <2>3. \A q \in Procs \ {p} : Recalls(q, n)'
      BY <1>1, <2>1, OthersRecall
    <2> QED
      BY <2>2, <2>3 DEF Kept
  <1> QED
    BY <1>2, <1>3, <1>4 DEF EditInv

LEMMA EditStays == ASSUME EditInv, UNCHANGED vars PROVE EditInv'
  <1>1. HomeInv'
    BY HomeStays DEF EditInv
  <1>2. Faithful'
    BY DEF EditInv, Faithful, Joined, Pending, vars, memory
  <1>3. ASSUME NEW n \in Names, Clear(n)' PROVE Kept(n)'
    <2>1. Kept(n)
      BY <1>3 DEF EditInv, Clear, vars, past
    <2> QED
      BY <2>1 DEF Kept, Noted, Recalls, UnitKept, Follows, Running, Pending,
                  vars, tree, memory, past
  <1> QED
    BY <1>1, <1>2, <1>3 DEF EditInv

LEMMA EditInit == Init => EditInv
  <1> SUFFICES ASSUME Init PROVE EditInv
    OBVIOUS
  <1>1. HomeInv
    BY HomeInit
  <1>2. \A p \in Procs : ~Running(p) /\ p \notin Pending
    BY DEF Init, Running, Pending, NoUnit
  <1>3. \A n \in Names : ~IsFull(stored[n]) /\ edits[n] = 0
    BY DEF Init, IsFull, Absent
  <1>4. \E f \in Forests, here, done \in SUBSET Names : active = Planted(f, here, done)
    BY DEF Init
  <1>5. \A n \in Names : IsFull(active[n]) => active[n].doc.note = 0
    BY <1>4, PlantedIs
  <1> QED
    BY <1>1, <1>2, <1>3, <1>5 DEF EditInv, Faithful, Kept, Noted, Recalls, Follows, Pending

\* An edit that was acknowledged stays: no link, unlink, archive, failed
\* archive or recovery of a killed link puts an older document over it, but
\* for the tasks in hand of a command that was killed or could not undo its
\* work, and those that an archive or a creation shared with another command.
THEOREM EditKeptHolds == Spec => []EditKept
  <1>1. Init => EditInv
    BY EditInit
  <1>2. EditInv /\ [Next]_vars => EditInv'
    BY EditStep, EditStays
  <1>3. EditInv => EditKept
    <2> SUFFICES ASSUME EditInv, NEW n \in Names, Clear(n), IsFull(Found(n))
                 PROVE  Found(n).doc.note = edits[n]
      BY DEF EditKept
    <2>1. Noted(n)
      BY DEF EditInv, Kept
    <2> QED
      BY <2>1 DEF Noted, Found
  <1> QED
    BY <1>1, <1>2, <1>3, PTL DEF Spec

-----------------------------------------------------------------------------
(* Parents and children: what a step does to them.                         *)

\* The two fields of a task.json that relate its task to others.
ParentIn(d) == IF IsFull(d) THEN d.doc.parent ELSE None
ChildrenIn(d) == IF IsFull(d) THEN d.doc.children ELSE {}

Alike(d, e) == ParentIn(d) = ParentIn(e) /\ ChildrenIn(d) = ChildrenIn(e)

LEMMA EdgesIn ==
    ASSUME NEW d \in Dirs
    PROVE  ParentIn(d) \in Names \cup {None} /\ ChildrenIn(d) \in SUBSET Names
  BY DirKinds DEF ParentIn, ChildrenIn, Docs

\* A write puts there the parent and the children of its document.
LEMMA WrittenEdges ==
    ASSUME NEW d \in Dirs, NEW doc \in Docs
    PROVE  /\ ParentIn(Written(d, doc)) = doc.parent
           /\ ChildrenIn(Written(d, doc)) = doc.children
  <1> DEFINE new == [doc EXCEPT !.rev = RevOf(d) + 1]
  <1>1. new.parent = doc.parent /\ new.children = doc.children
    BY DEF Docs
  <1>2. Written(d, doc) = Full(new)
    BY DEF Written
  <1> HIDE DEF new
  <1> QED
    BY <1>1, <1>2, FullIs DEF ParentIn, ChildrenIn

LEMMA LockedEdges ==
    ASSUME NEW d \in Dirs PROVE Alike(Locked(d), d)
  BY LockedIs, DirKinds DEF Alike, ParentIn, ChildrenIn

\* The second write of a unit changes the parent of its task, the first one and
\* the rollback the children of the other.
FirstWrites(q) == unit[q].phase = "prepared" /\ unit'[q].phase = "half"
SecondWrites(q) == unit[q].phase = "half" /\ unit'[q].phase = "committed"
RollsBack(q) == unit[q].phase = "half" /\ unit'[q].phase = "conflicted"
Refused(q) == unit[q].phase = "prepared" /\ unit'[q].phase = "conflicted"

LEMMA AdvanceEdges ==
    ASSUME EditInv, NEW q \in Pending, Advance(q), NEW n \in Names, Clear(n), n \notin torn'
    PROVE  LET u == unit[q] IN
           /\ FirstWrites(q) \/ SecondWrites(q) \/ RollsBack(q) \/ Refused(q)
           /\ \/ active'[n] = active[n] /\ (n = u.of => ~FirstWrites(q) /\ ~RollsBack(q))
                                        /\ (n = u.task => ~SecondWrites(q))
              \/ /\ n = u.of /\ FirstWrites(q)
                 /\ IsFull(active[n]) /\ active[n].doc = u.before[1]
                 /\ active'[n] = Written(active[n], u.after[1])
              \/ /\ n = u.task /\ SecondWrites(q)
                 /\ IsFull(active[n]) /\ active[n].doc = u.before[2]
                 /\ active'[n] = Written(active[n], u.after[2])
              \/ /\ n = u.of /\ RollsBack(q)
                 /\ IsFull(active[n]) /\ active[n].doc.rev = u.before[1].rev + 1
                 /\ active[n].doc = [u.after[1] EXCEPT !.rev = u.before[1].rev + 1]
                 /\ active'[n] = Written(active[n], u.before[1])
  <1> DEFINE u == unit[q]
             Stays == active'[n] = active[n] /\ (n = u.of => ~FirstWrites(q) /\ ~RollsBack(q))
                                             /\ (n = u.task => ~SecondWrites(q))
  <1>1. /\ q \in Procs /\ u.phase \in {"prepared", "half"}
        /\ u \in [phase : {"prepared", "half", "conflicted", "committed"},
                  task : Names, of : Names, before : Docs \X Docs, after : Docs \X Docs]
        /\ u.task \in Names /\ u.of \in Names
        /\ u.before[1] \in Docs /\ u.before[2] \in Docs
        /\ u.after[1] \in Docs /\ u.after[2] \in Docs
        /\ TypeOK /\ active \in [Names -> Dirs] /\ unit \in [Procs -> Units]
    BY UnitIs DEF EditInv, HomeInv, Shape, TypeOK
  <1>2. UnitKept(u, n) /\ (n \in {u.task, u.of} => IsFull(active[n]))
    <2>1. Homed(n) /\ Kept(n)
      BY DEF EditInv, HomeInv
    <2>2. Own(q, n) /\ Recalls(q, n)
      BY <1>1, <2>1 DEF Homed, Kept
    <2> QED
      BY <2>2 DEF Own, Recalls
  <1>3. IsFull(active[n]) =>
            /\ active[n].doc \in Docs /\ RevOf(active[n]) = active[n].doc.rev
            /\ Locked(active[n]) = active[n]
    BY <1>1, DirKinds, LockedIs DEF RevOf
  <1>4. CASE u.phase = "prepared" /\ Writable(active[u.of], u.before[1].rev)
    <2>1. /\ active' = [active EXCEPT ![u.of] = Written(@, u.after[1])]
          /\ unit' = [unit EXCEPT ![q].phase = "half"]
      BY <1>4 DEF Advance, First
    <2>2. FirstWrites(q) /\ ~SecondWrites(q) /\ ~RollsBack(q)
      BY <1>1, <1>4, <2>1 DEF FirstWrites, SecondWrites, RollsBack
    <2>3. CASE n = u.of
      <3>1. active[n].doc = u.before[1] /\ active'[n] = Written(active[n], u.after[1])
        BY <1>1, <1>2, <1>3, <1>4, <2>1, <2>3 DEF UnitKept, Older, Writable
      <3> QED
        BY <1>2, <2>2, <2>3, <3>1
    <2>4. CASE n # u.of
      BY <1>1, <2>1, <2>2, <2>4
    <2> QED
      BY <2>3, <2>4
  <1>5. CASE u.phase = "prepared" /\ ~Writable(active[u.of], u.before[1].rev)
    <2>1. /\ active' = [active EXCEPT ![u.of] = Locked(@)]
          /\ unit' = [unit EXCEPT ![q].phase = "conflicted"]
      BY <1>5 DEF Advance, First
    <2>2. Refused(q) /\ ~FirstWrites(q) /\ ~SecondWrites(q) /\ ~RollsBack(q)
      BY <1>1, <1>5, <2>1 DEF FirstWrites, SecondWrites, RollsBack, Refused
    <2>3. active'[n] = active[n]
      BY <1>1, <1>2, <1>3, <2>1
    <2> QED
      BY <2>2, <2>3
  <1>6. CASE u.phase = "half" /\ Writable(active[u.task], u.before[2].rev)
    <2>1. /\ active' = [active EXCEPT ![u.task] = Written(@, u.after[2])]
          /\ unit' = [unit EXCEPT ![q].phase = "committed"]
      BY <1>6 DEF Advance, Second
    <2>2. SecondWrites(q) /\ ~FirstWrites(q) /\ ~RollsBack(q)
      BY <1>1, <1>6, <2>1 DEF FirstWrites, SecondWrites, RollsBack
    <2>3. CASE n = u.task
      <3>1. active[n].doc = u.before[2] /\ active'[n] = Written(active[n], u.after[2])
        BY <1>1, <1>2, <1>3, <1>6, <2>1, <2>3 DEF UnitKept, Older, Writable
      <3> QED
        BY <1>2, <2>2, <2>3, <3>1
    <2>4. CASE n # u.task
      BY <1>1, <2>1, <2>2, <2>4
    <2> QED
      BY <2>3, <2>4
  <1>7. CASE u.phase = "half" /\ ~Writable(active[u.task], u.before[2].rev)
    <2> DEFINE locked == [active EXCEPT ![u.task] = Locked(@)]
    <2>1. /\ active' = [locked EXCEPT ![u.of] = Undone(u, @)]
          /\ unit' = [unit EXCEPT ![q].phase = "conflicted"]
          /\ torn' = IF Overtaken(u) THEN torn \cup {u.of, u.task} ELSE torn
      BY <1>7 DEF Advance, Second
    <2>2. RollsBack(q) /\ ~FirstWrites(q) /\ ~SecondWrites(q)
      BY <1>1, <1>7, <2>1 DEF FirstWrites, SecondWrites, RollsBack
    <2>3. locked \in [Names -> Dirs] /\ locked[n] = active[n]
      <3>1. Locked(active[u.task]) \in Dirs
        BY <1>1, LockedIs
      <3> QED
        BY <1>1, <1>2, <1>3, <3>1
    <2> HIDE DEF locked
    <2>4. CASE n = u.of
      <3>1. RevOf(active[n]) = u.before[1].rev + 1 /\ active'[n] = Undone(u, active[n])
        BY <1>1, <2>1, <2>3, <2>4 DEF Overtaken
      <3>2. active'[n] = Written(active[n], u.before[1])
        BY <3>1 DEF Undone
      <3>3. active[n].doc.rev = u.before[1].rev + 1
        BY <1>2, <1>3, <2>4, <3>1
      <3>4. active[n].doc = [u.after[1] EXCEPT !.rev = u.before[1].rev + 1]
        BY <1>2, <1>7, <2>4, <3>3 DEF UnitKept
      <3> QED
        BY <1>2, <2>2, <2>4, <3>2, <3>3, <3>4
    <2>5. CASE n # u.of
      BY <1>1, <2>1, <2>2, <2>3, <2>5
    <2> QED
      BY <2>4, <2>5
  <1> QED
    BY <1>1, <1>4, <1>5, <1>6, <1>7

\* What the two documents of a pending unit say.
LEMMA UnitEdges ==
    ASSUME EditInv, NEW q \in Pending
    PROVE  LET u == unit[q] IN
           /\ u.task = cmd[q].task /\ u.of = cmd[q].of
           /\ cmd[q].kind \in {"link", "unlink", "create"}
           /\ u.after[1].parent = u.before[1].parent
           /\ u.after[2].children = u.before[2].children
           /\ u.after[1].children =
                 IF cmd[q].kind = "unlink" THEN u.before[1].children \ {u.task}
                 ELSE u.before[1].children \cup {u.task}
           /\ u.after[2].parent = IF cmd[q].kind = "unlink" THEN None ELSE u.of
  <1> DEFINE c == cmd[q]
             docs == unit[q].before
  <1>1. /\ unit[q].task = c.task /\ unit[q].of = c.of /\ c.kind \in {"link", "unlink", "create"}
        /\ unit[q].after = Joined(c, docs)
    BY DEF EditInv, Faithful
  <1>2. c.task \in Names /\ c.of \in Names /\ docs[1] \in Docs /\ docs[2] \in Docs
    BY <1>1, UnitIs DEF EditInv, HomeInv, Shape
  <1> HIDE DEF c, docs
  <1>3. /\ Joined(c, docs)[1].parent = docs[1].parent
        /\ Joined(c, docs)[2].children = docs[2].children
        /\ Joined(c, docs)[1].children =
              IF c.kind = "unlink" THEN docs[1].children \ {c.task}
              ELSE docs[1].children \cup {c.task}
        /\ Joined(c, docs)[2].parent = IF c.kind = "unlink" THEN None ELSE c.of
    BY <1>2, JoinedIs
  <1>4. unit[q].after[1] = Joined(c, docs)[1] /\ unit[q].after[2] = Joined(c, docs)[2]
    BY <1>1
  <1> USE DEF c, docs
  <1> QED
    BY <1>1, <1>3, <1>4

\* What a step of p does to the parent and the children of a task that nobody
\* excuses.
LEMMA EdgesMove ==
    ASSUME EditInv, NEW p \in Procs, Step(p), NEW n \in Names, Clear(n), n \notin Blur,
           n \notin torn'
    PROVE  \/ Alike(active'[n], active[n])
           \/ \E q \in Pending : /\ n \in {unit[q].task, unit[q].of} /\ Advance(q)
                                 /\ (Commit(p) /\ q = p) \/ (Recover(p) /\ q # p)
           \/ Remove(p) /\ cmd[p].task = n /\ active'[n] = Absent
           \/ /\ Relate(p) /\ n \in todo[p] /\ IsFull(active[n])
              /\ Alike(active'[n], Full(Parted(p, n, active[n].doc)))
           \/ Restore(p) /\ n \in todo[p] /\ Alike(active'[n], seen[p][n])
           \/ Back(p) /\ cmd[p].task = n /\ active'[n] = stored[n]
           \/ Rewrite(p) /\ cmd[p].task = n /\ Alike(active'[n], seen[p][n])
  <1> DEFINE t == cmd[p].task
  <1>1. /\ HomeInv /\ Shape /\ TypeOK /\ Recalls(p, n) /\ Own(p, n) /\ Placed(p, n)
        /\ active \in [Names -> Dirs] /\ stored \in [Names -> Dirs]
        /\ seen \in [Procs -> [Names -> Dirs]] /\ active[n] \in Dirs
    BY DEF EditInv, HomeInv, Homed, Own, Kept, Shape, TypeOK
  <1>2. ~IsFull(Absent) /\ ~IsFull(Husk)
    BY <1>1, DirKinds
  <1>3. CASE active'[n] = active[n]
    BY <1>3 DEF Alike
  <1>4. CASE ~IsFull(active[n]) /\ ~IsFull(active'[n])
    BY <1>4 DEF Alike, ParentIn, ChildrenIn
  <1>5. CASE active'[n] = Locked(active[n])
    BY <1>1, <1>5, LockedEdges
  <1>6. CASE Recover(p) \/ Commit(p)
    <2>1. \/ UNCHANGED active
          \/ \E q \in Pending : /\ Advance(q)
                                /\ (Commit(p) /\ q = p) \/ (Recover(p) /\ q # p)
      BY <1>1, <1>6, RecoverIs DEF Commit, Pending
    <2>2. ASSUME NEW q \in Pending, Advance(q), n \notin {unit[q].task, unit[q].of}
          PROVE  active'[n] = active[n]
      BY <1>1, <2>2, AdvanceIs
    <2> QED
      BY <1>3, <2>1, <2>2
  <1>7. CASE Save(p)
    <2> DEFINE doc == seen[p][n].doc
               new == [doc EXCEPT !.note = @ + 1]
    <2>1. CASE t # n
      BY <1>1, <1>3, <1>7, <2>1 DEF Save
    <2>2. CASE t = n
      <3>1. pc[p] = "save" /\ IsFull(seen[p][n]) /\ cmd[p].kind = "edit"
        BY <1>1, <1>7, <2>2 DEF Save, Shape, Fits
      <3>2. Running(p) /\ Follows(p, n)
        BY <3>1 DEF Running, Follows
      <3>3. /\ IsFull(active[n]) /\ doc \in Docs /\ active[n].doc \in Docs
            /\ RevOf(active[n]) = active[n].doc.rev /\ Older(doc, active[n].doc)
        BY <1>1, <3>1, <3>2, DirKinds DEF Own, Recalls, RevOf
      <3>4. new \in Docs /\ new.parent = doc.parent /\ new.children = doc.children
        BY <3>3 DEF Docs
      <3>5. CASE Writable(active[n], doc.rev)
        <4>1. doc = active[n].doc
          BY <3>3, <3>5 DEF Older, Writable
        <4>2. active'[n] = Written(active[n], new)
          BY <1>1, <1>7, <2>2, <3>5 DEF Save
        <4> HIDE DEF new
        <4>3. ParentIn(active'[n]) = new.parent /\ ChildrenIn(active'[n]) = new.children
          BY <1>1, <3>4, <4>2, WrittenEdges
        <4> QED
          BY <3>3, <3>4, <4>1, <4>3 DEF Alike, ParentIn, ChildrenIn
      <3>6. CASE ~Writable(active[n], doc.rev)
        BY <1>1, <1>5, <1>7, <2>2, <3>6 DEF Save
      <3> QED
        BY <3>5, <3>6
    <2> QED
      BY <2>1, <2>2
  <1>8. CASE Remove(p)
    <2>1. \/ active'[n] = active[n]
          \/ t = n /\ active'[n] = Absent
          \/ t = n /\ n \in torn'
      BY <1>1, <1>8 DEF Remove
    <2> QED
      BY <1>3, <1>8, <2>1
  <1>9. CASE Relate(p)
    <2>1. pc[p] = "relate" /\ pc[p] \in ArchiveSteps
      BY <1>9 DEF Relate, ArchiveSteps
    <2>2. CASE active'[n] # active[n]
      <3>1. /\ n \in todo[p] /\ IsFull(active[n])
            /\ active'[n] = Written(active[n], Parted(p, n, active[n].doc))
        BY <1>1, <1>9, <2>2 DEF Relate
      <3>2. IsFull(seen[p][n]) /\ active[n].doc \in Docs
        BY <1>1, <2>1, <3>1, Archived, DirKinds DEF Updates
      <3>3. Parted(p, n, active[n].doc) \in Docs
        BY <1>1, <2>1, <3>2, PartedIs
      <3>4. Alike(active'[n], Full(Parted(p, n, active[n].doc)))
        BY <1>1, <3>1, <3>3, WrittenEdges, FullIs DEF Alike, ParentIn, ChildrenIn
      <3> QED
        BY <1>9, <3>1, <3>4
    <2> QED
      BY <1>3, <2>2
  <1>10. CASE Restore(p)
    <2>1. pc[p] = "restore" /\ pc[p] \in ArchiveSteps
      BY <1>10 DEF Restore, ArchiveSteps
    <2>2. CASE active'[n] # active[n]
      <3>1. n \in todo[p] /\ active'[n] = Written(active[n], seen[p][n].doc)
        BY <1>1, <1>10, <2>2 DEF Restore
      <3>2. IsFull(seen[p][n]) /\ seen[p][n].doc \in Docs
        BY <1>1, <2>1, <3>1, Archived, DirKinds DEF Updates
      <3>3. Alike(active'[n], seen[p][n])
        BY <1>1, <3>1, <3>2, WrittenEdges DEF Alike, ParentIn, ChildrenIn
      <3> QED
        BY <1>10, <3>1, <3>3
    <2> QED
      BY <1>3, <2>2
  <1>11. CASE Back(p)
    <2>1. pc[p] = "back" /\ pc[p] \in ArchiveSteps
      BY <1>11 DEF Back, ArchiveSteps
    <2>2. CASE t # n
      BY <1>1, <1>3, <1>11, <2>2 DEF Back, tree
    <2>3. CASE t = n
      <3>1. n \in Hand(p)
        BY <1>1, <2>1, <2>3, Archived
      <3>2. active' = [active EXCEPT ![n] = stored[n]]
        BY <1>11, <2>3, <3>1 DEF Back
      <3> QED
        BY <1>1, <1>11, <2>3, <3>2
    <2> QED
      BY <2>2, <2>3
  <1>12. CASE Rewrite(p)
    <2>1. pc[p] = "rewrite" /\ pc[p] \in ArchiveSteps
      BY <1>12 DEF Rewrite, ArchiveSteps
    <2>2. CASE active'[n] # active[n]
      <3>1. t = n /\ active'[n] = Written(active[n], seen[p][n].doc)
        BY <1>1, <1>12, <2>2 DEF Rewrite
      <3>2. IsFull(seen[p][n]) /\ seen[p][n].doc \in Docs
        BY <1>1, <2>1, <3>1, Archived
      <3>3. Alike(active'[n], seen[p][n])
        BY <1>1, <3>1, <3>2, WrittenEdges DEF Alike, ParentIn, ChildrenIn
      <3> QED
        BY <1>12, <3>1, <3>3
    <2> QED
      BY <1>3, <2>2
  <1>13. CASE Mkdir(p)
    <2>1. active'[n] \in {active[n], Locked(active[n])}
      BY <1>1, <1>13 DEF Mkdir
    <2> QED
      BY <1>3, <1>5, <2>1
  <1>14. CASE WriteTask(p)
    <2>1. pc[p] = "write" /\ pc[p] \in CreateSteps
      BY <1>14 DEF WriteTask, CreateSteps
    <2>2. CASE active'[n] = Full(NewTask(cmd[p].deps)) /\ t = n
      <3>1. active[n] = Husk
        BY <1>1, <2>1, <2>2, Creating DEF Placed
      <3>2. NewTask(cmd[p].deps).parent = None /\ NewTask(cmd[p].deps).children = {}
        BY DEF NewTask
      <3> QED
        BY <1>2, <2>2, <3>1, <3>2, FullIs DEF Alike, ParentIn, ChildrenIn
    <2>3. \/ active'[n] \in {active[n], Locked(active[n])}
          \/ active'[n] = Full(NewTask(cmd[p].deps)) /\ t = n
      BY <1>1, <1>14 DEF WriteTask
    <2> QED
      BY <1>3, <1>5, <2>2, <2>3
  <1>15. CASE TakeBack(p)
    <2>1. \/ active'[n] = active[n]
          \/ t = n /\ active'[n] = Absent /\ (~IsFull(active[n]) \/ IsFull(seen[p][n]))
      BY <1>1, <1>15 DEF TakeBack
    <2>2. t = n => n \in Hand(p)
      BY <1>1, <1>15, Creating DEF TakeBack, CreateSteps
    <2>3. t = n => ~IsFull(seen[p][n])
      BY <1>15, <2>2 DEF TakeBack
    <2> QED
      BY <1>2, <1>3, <1>4, <2>1, <2>3
  <1>16. \/ UNCHANGED active \/ Recover(p) \/ Commit(p) \/ Save(p)
         \/ Remove(p) \/ Back(p) \/ Rewrite(p)
         \/ Relate(p) \/ Restore(p) \/ Mkdir(p) \/ WriteTask(p) \/ TakeBack(p)
    BY DEF Step, Link, Archive, Create, Start, LoadParent, LoadChild, Walk, List, Prepare, Committed,
           EditLoad, ArchiveLoad, ReadRelative, Compare, Copy, Mark, Files, CreateCheck, Anchor,
           Crash, tree
  <1> QED
    BY <1>3, <1>6, <1>7, <1>8, <1>9, <1>10, <1>11, <1>12, <1>13, <1>14, <1>15, <1>16

-----------------------------------------------------------------------------
(* What an archive has in hand stays as it read it, or as it wrote it.     *)

\* The relative n of the task of p, without that task.
PartedSeen(p, n) == Full(Parted(p, n, seen[p][n].doc))

\* The relative n that p has read: as it was until the task has moved, as
\* written once it is out of the relatives still to write, and back at the end
\* of a rollback.
HeldRelative(p, n) ==
    cmd[p].task # n /\ IsFull(seen[p][n]) =>
        /\ pc[p] \in {"relatives", "copy", "compare", "remove", "mark"} => active[n] = seen[p][n]
        /\ pc[p] = "relate" /\ n \in todo[p] => active[n] = seen[p][n]
        /\ pc[p] = "relate" /\ n \notin todo[p] => Alike(active[n], PartedSeen(p, n))
        /\ pc[p] = "files" => Alike(active[n], PartedSeen(p, n))
        /\ pc[p] = "restore" /\ n \in todo[p] =>
              Alike(active[n], seen[p][n]) \/ Alike(active[n], PartedSeen(p, n))
        /\ pc[p] = "restore" /\ n \notin todo[p] => Alike(active[n], seen[p][n])
        /\ pc[p] \in {"back", "rewrite"} => Alike(active[n], seen[p][n])

\* The task itself: its copy, and then what is put back of it.
HeldTask(p, n) ==
    cmd[p].task = n =>
        /\ pc[p] = "remove" => stored[n] = seen[p][n]
        /\ pc[p] \in {"mark", "relate", "files", "restore", "back"} => Alike(stored[n], seen[p][n])
        /\ pc[p] = "rewrite" => Alike(active[n], seen[p][n])

Held(p, n) == pc[p] \in ArchiveSteps => HeldRelative(p, n) /\ HeldTask(p, n)

\* No step of another writes a task that an archive has in hand.
LEMMA OthersLeave ==
    ASSUME Shape, NEW p \in Procs, Step(p), NEW n \in Names, n \notin Blur,
           NEW q \in Procs \ {p}, n \in Hand(q), cmd[q].kind = "archive"
    PROVE  active'[n] = active[n] /\ stored'[n] = stored[n]
  <1>1. SUFFICES ASSUME active'[n] # active[n] \/ stored'[n] # stored[n] PROVE FALSE
    OBVIOUS
  <1>2. \A r \in Procs \ {q} : n \notin Holds(r)
    BY DEF Blur
  <1>3. n \notin Hand(p)
    BY <1>2 DEF Holds
  <1>4. PICK r \in Pending : n \in {unit[r].task, unit[r].of}
    BY <1>1, <1>3, Writes
  <1>5. r = q
    BY <1>2, <1>4 DEF Holds, Pending
  <1>6. Running(q)
    BY DEF Hand
  <1>7. pc[q] = "commit"
    BY <1>4, <1>5, <1>6, NotPending DEF Running
  <1> QED
    BY <1>7, InHand DEF LinkSteps

LEMMA OthersHeld ==
    ASSUME Shape, NEW p \in Procs, Step(p), NEW n \in Names, n \notin Blur,
           NEW q \in Procs \ {p}, Held(q, n)
    PROVE  Held(q, n)'
  <1>1. Same(q)
    BY Others
  <1>2. SUFFICES ASSUME pc[q] \in ArchiveSteps, IsFull(seen[q][n]) \/ cmd[q].task = n
                 PROVE  HeldRelative(q, n)' /\ HeldTask(q, n)'
    BY <1>1 DEF Held, HeldRelative, HeldTask, Same
  <1>3. Running(q) /\ cmd[q].kind = "archive" /\ n \in Hand(q)
    BY <1>2, Archived, InItsHand
  <1>4. active'[n] = active[n] /\ stored'[n] = stored[n]
    BY <1>3, OthersLeave
  <1>5. HeldRelative(q, n) /\ HeldTask(q, n)
    BY <1>2 DEF Held
  <1>6. PartedSeen(q, n)' = PartedSeen(q, n)
    BY <1>1 DEF PartedSeen, Parted, Same
  <1> QED
    BY <1>1, <1>4, <1>5, <1>6 DEF HeldRelative, HeldTask, Same

\* A step of p that is not one of an archive does not bring it to one.
LEMMA ArchiveOnly ==
    ASSUME Shape, NEW p \in Procs, Step(p), ~Archive(p)
    PROVE  pc'[p] \notin ArchiveSteps \ {"archive"}
  <1> DEFINE Out == pc'[p] \notin ArchiveSteps \ {"archive"}
  <1>1. TypeOK /\ pc \in [Procs -> Places]
    BY DEF Shape, TypeOK
  <1>2. ASSUME NEW where, Goto(p, where), where \notin ArchiveSteps \ {"archive"} PROVE Out
    BY <1>1, <1>2 DEF Goto
  <1>3. Return(p) => Out
    BY <1>1, ReturnIs DEF ArchiveSteps
  <1>4. Refuse(p) \/ Linked(p) => Out
    BY <1>2, <1>3 DEF Refuse, Linked, ArchiveSteps
  <1>5. CASE Start(p)
    <2>1. PICK c \in Commands : Goto(p, IF c.kind \in {"link", "unlink"} THEN "parent" ELSE c.kind)
      BY <1>5 DEF Start
    <2>2. c.kind \in {"link", "unlink", "edit", "archive", "create"}
      BY CommandFields
    <2> QED
      BY <1>2, <2>1, <2>2 DEF ArchiveSteps
  <1>6. CASE Link(p)
    <2>1. CASE LoadParent(p) \/ LoadChild(p) \/ Walk(p) \/ Committed(p)
      BY <1>2, <1>3, <1>4, <2>1 DEF LoadParent, LoadChild, Walk, Committed, ArchiveSteps
    <2>2. CASE List(p) \/ Recover(p) \/ Prepare(p) \/ Commit(p)
      BY <1>1, <1>2, <2>2, RecoverIs DEF List, Prepare, Commit, ArchiveSteps
    <2> QED
      BY <1>6, <2>1, <2>2 DEF Link
  <1>7. CASE EditLoad(p) \/ Save(p)
    BY <1>2, <1>3, <1>7 DEF EditLoad, Save, ArchiveSteps
  <1>8. CASE Create(p)
    BY <1>2, <1>3, <1>8
    DEF Create, CreateCheck, Mkdir, WriteTask, Anchor, TakeBack, ArchiveSteps
  <1>9. CASE Crash(p)
    BY <1>2, <1>9 DEF Crash, ArchiveSteps
  <1> QED
    BY <1>5, <1>6, <1>7, <1>8, <1>9 DEF Step

\* What p holds after its own step.
LEMMA OwnHeld ==
    ASSUME HomeInv, NEW p \in Procs, Step(p), NEW n \in Names, Clear(n), n \notin torn', Held(p, n)
    PROVE  Held(p, n)'
  <1> DEFINE t == cmd[p].task
  <1>1. /\ Shape /\ TypeOK /\ Placed(p, n) /\ pc \in [Procs -> Places]
        /\ active \in [Names -> Dirs] /\ stored \in [Names -> Dirs]
        /\ seen \in [Procs -> [Names -> Dirs]] /\ active[n] \in Dirs /\ stored[n] \in Dirs
        /\ todo \in [Procs -> SUBSET Names]
    BY DEF HomeInv, Homed, Own, Shape, TypeOK
  <1>2. SUFFICES ASSUME Archive(p), pc'[p] \in ArchiveSteps, pc'[p] # "archive"
                 PROVE  HeldRelative(p, n)' /\ HeldTask(p, n)'
    <2>1. pc'[p] = "archive" => HeldRelative(p, n)' /\ HeldTask(p, n)'
      BY DEF HeldRelative, HeldTask
    <2> QED
      BY <1>1, <2>1, ArchiveOnly DEF Held
  <1>3. /\ pc[p] \in ArchiveSteps /\ ~Return(p) /\ t \in Names /\ Running(p)
        /\ t \in Hand(p)
    <2>1. pc[p] \in ArchiveSteps
      BY <1>2 DEF Archive, ArchiveLoad, ReadRelative, Copy, Compare, Remove, Mark, Relate, Files,
                  Restore, Back, Rewrite, ArchiveSteps
    <2>2. ~Return(p)
      BY <1>1, <1>2, ReturnIs DEF ArchiveSteps
    <2> QED
      BY <1>1, <2>1, <2>2, Archived
  <1>4. HeldRelative(p, n) /\ HeldTask(p, n)
    BY <1>3 DEF Held
  <1>5. UNCHANGED <<cmd, seen>> => PartedSeen(p, n)' = PartedSeen(p, n)
    BY DEF PartedSeen, Parted
  <1>6. n # t /\ IsFull(seen[p][n]) <=> n \in Updates(p)
    BY DEF Updates
  <1>7. Alike(active[n], active[n]) /\ Alike(stored[n], stored[n])
    BY DEF Alike
  <1>8. CASE ArchiveLoad(p)
    <2>1. Saw(p, t) /\ pc'[p] = "relatives" /\ UNCHANGED <<active, cmd>> /\ pc[p] = "archive"
      BY <1>1, <1>2, <1>3, <1>8 DEF ArchiveLoad, Goto, tree
    <2>2. n # t => seen'[p][n] = Absent
      BY <1>1, <1>3, <2>1, SawIs DEF Shape, Fits
    <2>3. ~IsFull(Absent)
      BY <1>1, DirKinds
    <2> QED
      BY <2>1, <2>2, <2>3 DEF HeldRelative, HeldTask
  <1>9. CASE ReadRelative(p)
    <2>1. /\ pc[p] = "relatives" /\ pc'[p] \in {"relatives", "copy"} /\ UNCHANGED <<active, cmd>>
      BY <1>1, <1>9 DEF ReadRelative, Goto, tree
    <2>2. seen'[p][n] = seen[p][n] \/ seen'[p][n] = active[n]
      <3>1. UNCHANGED seen \/ \E r \in todo[p] : Saw(p, r)
        BY <1>9 DEF ReadRelative
      <3> QED
        BY <1>1, <3>1, SawIs
    <2> QED
      BY <1>4, <2>1, <2>2 DEF HeldRelative, HeldTask
  <1>10. CASE Copy(p) \/ Compare(p)
    <2>1. /\ UNCHANGED <<active, cmd, seen>>
          /\ Copy(p) => pc[p] = "copy" /\ pc'[p] = "compare"
          /\ Compare(p) => /\ pc[p] = "compare" /\ pc'[p] = "remove" /\ UNCHANGED stored
                           /\ active[t] = stored[t]
      BY <1>1, <1>3, <1>10 DEF Copy, Compare, Goto, memory, tree
    <2>2. t = n /\ pc[p] = "compare" => active[n] = seen[p][n]
      BY <1>1, <1>3 DEF Placed
    <2> QED
      BY <1>4, <1>10, <2>1, <2>2 DEF HeldRelative, HeldTask
  <1>11. CASE Remove(p)
    <2>1. /\ pc[p] = "remove" /\ pc'[p] = "mark" /\ UNCHANGED <<stored, cmd, seen>>
          /\ active' = [active EXCEPT ![t] = Absent]
      BY <1>1, <1>3, <1>11 DEF Remove, Goto, memory
    <2>2. n # t => active'[n] = active[n]
      BY <1>1, <1>3, <2>1
    <2> QED
      BY <1>4, <1>7, <2>1, <2>2 DEF HeldRelative, HeldTask
  <1>12. CASE Mark(p)
    <2>1. /\ pc[p] = "mark" /\ pc'[p] \in {"relate", "restore"} /\ UNCHANGED <<active, cmd, seen>>
          /\ todo'[p] = Updates(p)
      BY <1>1, <1>3, <1>12 DEF Mark, Goto
    <2>2. Alike(stored'[n], stored[n])
      <3> DEFINE done == [stored[n].doc EXCEPT !.status = "completed"]
      <3>1. \/ stored'[n] = stored[n]
            \/ IsFull(stored[n]) /\ stored'[n] = Written(stored[n], done)
        BY <1>1, <1>12 DEF Mark
      <3>2. ASSUME IsFull(stored[n]), stored'[n] = Written(stored[n], done)
            PROVE  Alike(stored'[n], stored[n])
        <4>1. stored[n].doc \in Docs
          BY <1>1, <3>2, DirKinds
        <4>2. done \in Docs /\ done.parent = stored[n].doc.parent
              /\ done.children = stored[n].doc.children
          BY <4>1 DEF Docs
        <4> HIDE DEF done
        <4> QED
          BY <1>1, <3>2, <4>2, WrittenEdges DEF Alike, ParentIn, ChildrenIn
      <3> QED
        BY <1>7, <3>1, <3>2
    <2>3. HeldTask(p, n)'
      BY <1>4, <2>1, <2>2 DEF HeldTask, Alike
    <2>4. HeldRelative(p, n)'
      BY <1>4, <1>6, <1>7, <2>1 DEF HeldRelative
    <2> QED
      BY <2>3, <2>4
  <1>13. CASE Relate(p)
    <2>1. /\ pc[p] = "relate" /\ UNCHANGED <<stored, cmd, seen>>
          /\ \/ \E r \in todo[p] :
                  /\ active' = [active EXCEPT ![r] = Written(@, Parted(p, r, @.doc))]
                  /\ todo'[p] = todo[p] \ {r}
                  /\ pc'[p] = "relate"
             \/ UNCHANGED active /\ todo'[p] = Updates(p) /\ pc'[p] = "restore"
             \/ UNCHANGED <<active, todo>> /\ todo[p] = {} /\ pc'[p] = "files"
      BY <1>1, <1>13 DEF Relate, Goto
    <2>2. HeldTask(p, n)'
      BY <1>4, <2>1 DEF HeldTask
    <2>3. SUFFICES ASSUME n # t, IsFull(seen[p][n]) PROVE HeldRelative(p, n)'
      BY <2>1, <2>2 DEF HeldRelative
    <2>4. /\ n \in todo[p] => active[n] = seen[p][n]
          /\ n \notin todo[p] => Alike(active[n], PartedSeen(p, n))
      BY <1>4, <2>1, <2>3 DEF HeldRelative
    <2>5. /\ PartedSeen(p, n)' = PartedSeen(p, n) /\ n \in Updates(p)
      BY <1>5, <1>6, <2>1, <2>3
    <2>6. ASSUME NEW r \in todo[p],
                 active' = [active EXCEPT ![r] = Written(@, Parted(p, r, @.doc))],
                 todo'[p] = todo[p] \ {r}, pc'[p] = "relate"
          PROVE  HeldRelative(p, n)'
      <3>1. CASE n # r
        BY <1>1, <2>1, <2>3, <2>4, <2>5, <2>6, <3>1 DEF HeldRelative
      <3>2. CASE n = r
        <4>1. active[n] = seen[p][n] /\ seen[p][n].doc \in Docs
              /\ active'[n] = Written(active[n], Parted(p, n, seen[p][n].doc))
          BY <1>1, <2>3, <2>4, <2>6, <3>2, DirKinds
        <4>2. Parted(p, n, seen[p][n].doc) \in Docs
          BY <1>1, <1>3, <2>1, <2>3, <4>1, PartedIs
        <4>3. Alike(active'[n], PartedSeen(p, n))
          BY <1>1, <4>1, <4>2, WrittenEdges, FullIs DEF Alike, ParentIn, ChildrenIn, PartedSeen
        <4> QED
          BY <2>5, <2>6, <3>2, <4>3 DEF HeldRelative
      <3> QED
        BY <3>1, <3>2
    <2>7. CASE UNCHANGED active /\ todo'[p] = Updates(p) /\ pc'[p] = "restore"
      <3>1. Alike(active[n], seen[p][n]) \/ Alike(active[n], PartedSeen(p, n))
        BY <1>7, <2>4
      <3> QED
        BY <2>1, <2>5, <2>7, <3>1 DEF HeldRelative
    <2>8. CASE UNCHANGED <<active, todo>> /\ todo[p] = {} /\ pc'[p] = "files"
      BY <2>1, <2>4, <2>5, <2>8 DEF HeldRelative
    <2> QED
      BY <2>1, <2>6, <2>7, <2>8
  <1>14. CASE Files(p)
    <2>1. /\ pc[p] = "files" /\ UNCHANGED <<tree, cmd, seen>>
          /\ todo'[p] = Updates(p) /\ pc'[p] = "restore"
      BY <1>1, <1>3, <1>14 DEF Files, Goto
    <2>2. HeldTask(p, n)'
      BY <1>4, <2>1 DEF HeldTask, tree
    <2>3. HeldRelative(p, n)'
      BY <1>4, <1>5, <1>6, <2>1 DEF HeldRelative, tree
    <2> QED
      BY <2>2, <2>3
  <1>15. CASE Restore(p)
    <2>1. /\ pc[p] = "restore" /\ UNCHANGED <<stored, cmd, seen>>
          /\ \/ \E r \in todo[p] :
                  /\ todo'[p] = todo[p] \ {r}
                  /\ \/ active' = [active EXCEPT ![r] = Written(@, seen[p][r].doc)]
                     \/ torn' = torn \cup Hand(p) /\ UNCHANGED active
                  /\ pc'[p] = "restore"
             \/ UNCHANGED <<active, todo>> /\ todo[p] = {} /\ pc'[p] = "back"
      BY <1>1, <1>15 DEF Restore, Goto
    <2>2. HeldTask(p, n)'
      BY <1>4, <2>1 DEF HeldTask
    <2>3. SUFFICES ASSUME n # t, IsFull(seen[p][n]) PROVE HeldRelative(p, n)'
      BY <2>1, <2>2 DEF HeldRelative
    <2>4. /\ n \in todo[p] => Alike(active[n], seen[p][n]) \/ Alike(active[n], PartedSeen(p, n))
          /\ n \notin todo[p] => Alike(active[n], seen[p][n])
          /\ PartedSeen(p, n)' = PartedSeen(p, n)
      BY <1>4, <1>5, <2>1, <2>3 DEF HeldRelative
    <2>5. n \in Hand(p)
      BY <1>1, <1>3, <2>3, InItsHand
    <2>6. ASSUME NEW r \in todo[p], todo'[p] = todo[p] \ {r}, pc'[p] = "restore",
                 active' = [active EXCEPT ![r] = Written(@, seen[p][r].doc)]
          PROVE  HeldRelative(p, n)'
      <3>1. CASE n # r
        BY <1>1, <2>1, <2>3, <2>4, <2>6, <3>1 DEF HeldRelative
      <3>2. CASE n = r
        <4>1. seen[p][n].doc \in Docs /\ active'[n] = Written(active[n], seen[p][n].doc)
          BY <1>1, <2>3, <2>6, <3>2, DirKinds
        <4>2. Alike(active'[n], seen[p][n])
          BY <1>1, <2>3, <4>1, WrittenEdges DEF Alike, ParentIn, ChildrenIn
        <4> QED
          BY <2>1, <2>6, <3>2, <4>2 DEF HeldRelative
      <3> QED
        BY <3>1, <3>2
    <2>7. CASE UNCHANGED <<active, todo>> /\ todo[p] = {} /\ pc'[p] = "back"
      BY <2>1, <2>4, <2>7 DEF HeldRelative
    <2> QED
      BY <2>1, <2>5, <2>6, <2>7
  <1>16. CASE Back(p)
    <2>1. /\ pc[p] = "back" /\ pc'[p] = "rewrite" /\ UNCHANGED <<cmd, seen>>
          /\ \/ active' = [active EXCEPT ![t] = stored[t]]
             \/ torn' = torn \cup Hand(p) /\ UNCHANGED tree
             \/ torn' = torn \cup Hand(p) /\ active' = [active EXCEPT ![t] = Husk]
      BY <1>1, <1>16 DEF Back, Goto, memory
    <2>2. HeldTask(p, n)'
      <3>1. n = t => active'[n] = stored[n]
        BY <1>1, <1>3, <2>1
      <3> QED
        BY <1>4, <2>1, <3>1 DEF HeldTask
    <2>3. HeldRelative(p, n)'
      <3>1. n # t => active'[n] = active[n]
        BY <1>1, <1>3, <2>1 DEF tree
      <3> QED
        BY <1>4, <2>1, <3>1 DEF HeldRelative
    <2> QED
      BY <2>2, <2>3
  <1>17. CASE Rewrite(p)
    BY <1>3, <1>17 DEF Rewrite
  <1> QED
    BY <1>2, <1>8, <1>9, <1>10, <1>11, <1>12, <1>13, <1>14, <1>15, <1>16, <1>17 DEF Archive


-----------------------------------------------------------------------------
(* Cycles: no set of tasks has all its parents in it.                      *)

Parent(n) == ParentIn(active[n])

\* The parent of a task that an archive has taken away, or has taken out of its
\* relatives, and would put back.
Lost(p, n) == Away(p) /\ p \notin crossed /\ IsFull(seen[p][n])

\* m is the parent of n, or may be again.
Up(n, m) == Parent(n) = m \/ \E p \in Procs : Lost(p, n) /\ seen[p][n].doc.parent = m

Trap(S) == S # {} /\ \A n \in S : \E m \in S : Up(n, m)

NoTrap == \A S \in SUBSET Names : (\A n \in S : Clear(n)) => ~Trap(S)

\* A link or unlink that has loaded its tasks and is not over.
Working(q) == pc[q] \in {"walk", "list", "settle"} \/ q \in Pending

\* A link that has begun its cycle check and is not over.
Visits(q) == Working(q) /\ cmd[q].kind # "unlink"

\* It has been at the parent-to-be and at what is above it, up to where it is,
\* and not at the child-to-be.
Closed(q) ==
    /\ cmd[q].task \notin walk[q].been
    /\ pc[q] # "walk" => cmd[q].of \in walk[q].been /\ walk[q].at = None
    /\ pc[q] = "walk" => cmd[q].of \in walk[q].been \cup {walk[q].at}
    /\ \A n \in walk[q].been : Clear(n) =>
          \/ Parent(n) \in walk[q].been \cup {walk[q].at, None}
          \/ ~Clear(Parent(n))

\* What the history of archives and links tells.
Told ==
    /\ Cross \subseteq crossed
    /\ \A p \in crossed : FallsBack(p) => raced
    /\ Race => raced

CycleInv ==
    /\ EditInv
    /\ \A n \in Names : Clear(n) => \A p \in Procs : Held(p, n)
    /\ Told
    /\ ~raced => NoTrap /\ \A q \in Procs : Visits(q) => Closed(q)

LEMMA ToldStep == ASSUME Next PROVE Told'
  BY DEF Next, Told, Cross

\* An archive that was crossed stays so as long as it is away.
LEMMA CrossedStays ==
    ASSUME Next, NEW r \in Procs, r \in crossed, Away(r)' PROVE r \in crossed'
  BY DEF Next

LEMMA HeldStep ==
    ASSUME CycleInv, Next
    PROVE  \A n \in Names : Clear(n)' => \A p \in Procs : Held(p, n)'
  <1>1. HomeInv /\ Shape
    BY DEF CycleInv, EditInv, HomeInv
  <1>2. PICK p \in Procs : Step(p)
    BY DEF Next
  <1>3. SUFFICES ASSUME NEW n \in Names, Clear(n)', NEW q \in Procs PROVE Held(q, n)'
    OBVIOUS
  <1>4. Clear(n) /\ n \notin Blur /\ n \notin torn'
    BY <1>1, <1>3, ClearBefore DEF Clear
  <1>5. Held(q, n)
    BY <1>4 DEF CycleInv
  <1>6. CASE q = p
    BY <1>1, <1>2, <1>4, <1>5, <1>6, OwnHeld
  <1>7. CASE q # p
    BY <1>1, <1>2, <1>4, <1>5, <1>7, OthersHeld
  <1> QED
    BY <1>6, <1>7

\* What a step of p does to the parent of a task, while no two links and no
\* link and a falling archive have met.
LEMMA ParentsMove ==
    ASSUME CycleInv, ~raced, NEW p \in Procs, Step(p), NEW n \in Names, Clear(n), n \notin Blur,
           n \notin torn'
    PROVE  \/ Parent(n)' \in {Parent(n), None}
           \/ /\ Commit(p) /\ p \in Pending /\ SecondWrites(p) /\ cmd[p].kind # "unlink"
              /\ n = cmd[p].task /\ Parent(n)' = cmd[p].of
           \/ FallsBack(p) /\ IsFull(seen[p][n]) /\ Parent(n)' = seen[p][n].doc.parent
  <1>1. /\ EditInv /\ Shape /\ TypeOK /\ Held(p, n) /\ active[n] \in Dirs
        /\ seen \in [Procs -> [Names -> Dirs]]
    BY DEF CycleInv, EditInv, HomeInv, Shape, TypeOK
  <1>2. CASE Alike(active'[n], active[n])
    BY <1>2 DEF Alike, Parent
  <1>3. ASSUME NEW q \in Pending, n \in {unit[q].task, unit[q].of}, Advance(q),
               (Commit(p) /\ q = p) \/ (Recover(p) /\ q # p)
        PROVE  \/ Parent(n)' = Parent(n) \/ Parent(n)' = None
               \/ /\ Commit(p) /\ q = p /\ SecondWrites(p) /\ cmd[p].kind # "unlink"
                  /\ n = cmd[p].task /\ Parent(n)' = cmd[p].of
    <2>1. CASE Recover(p) /\ q # p
      <3>1. Linking(p) /\ Linking(q) /\ q \in Procs
        BY <2>1 DEF Recover, Linking, Pending
      <3> QED
        BY <2>1, <3>1 DEF Race, CycleInv, Told
    <2>2. CASE Commit(p) /\ q = p
      <3> DEFINE u == unit[q]
      <3>1. /\ u.before[1] \in Docs /\ u.before[2] \in Docs
            /\ u.after[1] \in Docs /\ u.after[2] \in Docs
        BY <1>1, UnitIs
      <3>2. /\ u.task = cmd[q].task /\ u.of = cmd[q].of
            /\ u.after[1].parent = u.before[1].parent
            /\ u.after[2].parent = IF cmd[q].kind = "unlink" THEN None ELSE u.of
        BY <1>1, UnitEdges
      <3>3. \/ active'[n] = active[n]
            \/ /\ IsFull(active[n]) /\ active[n].doc = u.before[1]
               /\ active'[n] = Written(active[n], u.after[1])
            \/ /\ n = u.task /\ SecondWrites(q)
               /\ active'[n] = Written(active[n], u.after[2])
            \/ /\ IsFull(active[n])
               /\ active[n].doc = [u.after[1] EXCEPT !.rev = u.before[1].rev + 1]
               /\ active'[n] = Written(active[n], u.before[1])
        BY <1>1, <1>3, AdvanceEdges
      <3>4. CASE active'[n] = active[n]
        BY <3>4 DEF Parent
      <3>5. CASE /\ IsFull(active[n]) /\ active[n].doc = u.before[1]
                 /\ active'[n] = Written(active[n], u.after[1])
        <4>1. ParentIn(active'[n]) = u.after[1].parent
          BY <1>1, <3>1, <3>5, WrittenEdges
        <4> QED
          BY <3>2, <3>5, <4>1 DEF Parent, ParentIn
      <3>6. CASE n = u.task /\ SecondWrites(q) /\ active'[n] = Written(active[n], u.after[2])
        <4>1. ParentIn(active'[n]) = u.after[2].parent
          BY <1>1, <3>1, <3>6, WrittenEdges
        <4> QED
          BY <2>2, <3>2, <3>6, <4>1 DEF Parent
      <3>7. CASE /\ IsFull(active[n])
                 /\ active[n].doc = [u.after[1] EXCEPT !.rev = u.before[1].rev + 1]
                 /\ active'[n] = Written(active[n], u.before[1])
        <4>1. ParentIn(active'[n]) = u.before[1].parent
          BY <1>1, <3>1, <3>7, WrittenEdges
        <4>2. active[n].doc.parent = u.after[1].parent
          BY <3>1, <3>7 DEF Docs
        <4> QED
          BY <3>2, <3>7, <4>1, <4>2 DEF Parent, ParentIn
      <3> QED
        BY <3>3, <3>4, <3>5, <3>6, <3>7
    <2> QED
      BY <1>3, <2>1, <2>2
  <1>4. CASE Remove(p) /\ active'[n] = Absent
    BY <1>1, <1>4, DirKinds DEF Parent, ParentIn
  <1>5. CASE IsFull(active[n]) /\ Alike(active'[n], Full(Parted(p, n, active[n].doc)))
    <2>1. active[n].doc \in Docs
      BY <1>1, <1>5, DirKinds
    <2>2. Parted(p, n, active[n].doc).parent \in {active[n].doc.parent, None}
      BY <2>1 DEF Parted, Docs
    <2> QED
      BY <1>5, <2>2, FullIs DEF Alike, Parent, ParentIn
  <1>6. CASE Restore(p) /\ n \in todo[p] /\ Alike(active'[n], seen[p][n])
    <2>1. pc[p] = "restore" /\ pc[p] \in ArchiveSteps
      BY <1>6 DEF Restore, ArchiveSteps
    <2>2. IsFull(seen[p][n])
      BY <1>1, <1>6, <2>1, Archived DEF Updates
    <2> QED
      BY <1>6, <2>1, <2>2 DEF FallsBack, Alike, Parent, ParentIn
  <1>7. CASE Back(p) /\ cmd[p].task = n /\ active'[n] = stored[n]
    <2>1. pc[p] = "back" /\ pc[p] \in ArchiveSteps
      BY <1>7 DEF Back, ArchiveSteps
    <2>2. IsFull(seen[p][n])
      BY <1>1, <1>7, <2>1, Archived
    <2>3. Alike(stored[n], seen[p][n])
      BY <1>1, <1>7, <2>1 DEF Held, HeldTask
    <2> QED
      BY <1>7, <2>1, <2>2, <2>3 DEF FallsBack, Alike, Parent, ParentIn
  <1>8. CASE Rewrite(p) /\ cmd[p].task = n /\ Alike(active'[n], seen[p][n])
    <2>1. pc[p] = "rewrite" /\ pc[p] \in ArchiveSteps
      BY <1>8 DEF Rewrite, ArchiveSteps
    <2>2. IsFull(seen[p][n])
      BY <1>1, <1>8, <2>1, Archived
    <2> QED
      BY <1>8, <2>1, <2>2 DEF FallsBack, Alike, Parent, ParentIn
  <1> QED
    BY <1>1, <1>2, <1>3, <1>4, <1>5, <1>6, <1>7, <1>8, EdgesMove

\* What an archive would put back of a task was so before the step, there or in
\* the memory of the archive.
LEMMA LostMoves ==
    ASSUME CycleInv, Next, NEW p \in Procs, Step(p), NEW n \in Names, Clear(n),
           NEW r \in Procs, Lost(r, n)'
    PROVE  Up(n, seen'[r][n].doc.parent)
  <1>1. /\ HomeInv /\ Shape /\ TypeOK /\ Held(r, n) /\ Own(r, n) /\ pc \in [Procs -> Places]
        /\ seen \in [Procs -> [Names -> Dirs]] /\ active[n] \in Dirs
    BY DEF CycleInv, EditInv, HomeInv, Homed, Shape, TypeOK
  <1>2. Away(r)' /\ r \notin crossed' /\ IsFull(seen'[r][n])
    BY DEF Lost
  <1>3. r \notin crossed
    BY <1>2, CrossedStays
  <1>4. CASE Away(r) /\ seen'[r] = seen[r]
    BY <1>2, <1>3, <1>4 DEF Lost, Up
  <1>5. CASE r # p
    BY <1>1, <1>2, <1>4, <1>5, Others DEF Same, Away
  <1>6. CASE r = p
    <2>1. pc'[p] \in {"mark", "relate", "files", "restore", "back", "rewrite"} /\ ~Return(p)
      BY <1>1, <1>2, <1>6, ReturnIs DEF Away
    <2>2. Archive(p)
      BY <1>1, <2>1, ArchiveOnly DEF ArchiveSteps
    <2>3. CASE Remove(p)
      <3>1. pc[p] = "remove" /\ pc[p] \in ArchiveSteps /\ UNCHANGED seen
        BY <2>1, <2>3 DEF Remove, ArchiveSteps, memory
      <3>2. cmd[p].task # n => active[n] = seen[p][n]
        BY <1>1, <1>2, <1>6, <3>1 DEF Held, HeldRelative
      <3>3. cmd[p].task = n => active[n] = seen[p][n]
        BY <1>1, <1>6, <3>1, Archived DEF Own, Placed
      <3> QED
        BY <1>2, <1>6, <3>1, <3>2, <3>3 DEF Up, Parent, ParentIn
    <2>4. CASE Mark(p) \/ Relate(p) \/ Files(p) \/ Restore(p) \/ Back(p)
      <3>1. UNCHANGED seen /\ Away(p)
        BY <2>1, <2>4 DEF Mark, Relate, Files, Restore, Back, Away, memory
      <3> QED
        BY <1>4, <1>6, <3>1
    <2>5. CASE ArchiveLoad(p) \/ ReadRelative(p) \/ Copy(p) \/ Compare(p)
      <3>1. pc'[p] \in {"relatives", "copy", "compare", "remove"}
        BY <1>1, <2>1, <2>5 DEF ArchiveLoad, ReadRelative, Copy, Compare, Goto
      <3> QED
        BY <2>1, <3>1
    <2>6. ~Rewrite(p)
      BY <2>1 DEF Rewrite
    <2> QED
      BY <2>2, <2>3, <2>4, <2>5, <2>6 DEF Archive
  <1> QED
    BY <1>5, <1>6

\* Only the second write of a link gives a task a new parent.
LEMMA UpMoves ==
    ASSUME CycleInv, ~raced, Next, NEW p \in Procs, Step(p), NEW n \in Names, Clear(n)',
           NEW m \in Names, Up(n, m)'
    PROVE  \/ Up(n, m)
           \/ /\ Commit(p) /\ p \in Pending /\ SecondWrites(p) /\ cmd[p].kind # "unlink"
              /\ n = cmd[p].task /\ m = cmd[p].of
  <1>1. Clear(n) /\ n \notin Blur /\ n \notin torn'
    BY ClearBefore DEF Clear, CycleInv, EditInv, HomeInv
  <1>2. CASE Parent(n)' = m
    <2>1. m # None
      BY NamesAssumption
    <2>2. CASE FallsBack(p) /\ IsFull(seen[p][n]) /\ Parent(n)' = seen[p][n].doc.parent
      <3>1. p \notin crossed
        BY <2>2 DEF CycleInv, Told
      <3> QED
        BY <1>2, <2>2, <3>1 DEF Up, Lost, FallsBack, Away
    <2> QED
      BY <1>1, <1>2, <2>1, <2>2, ParentsMove DEF Up
  <1>3. ASSUME NEW r \in Procs, Lost(r, n)', seen'[r][n].doc.parent = m PROVE Up(n, m)
    BY <1>1, <1>3, LostMoves
  <1> QED
    BY <1>2, <1>3 DEF Up

\* The second write of a link closes no trap: the parent is among the tasks its
\* check has been at, and the child is not.
LEMMA NoTrapStep ==
    ASSUME CycleInv, Next, ~raced' PROVE NoTrap'
  <1>1. PICK p \in Procs : Step(p)
    BY DEF Next
  <1>2. ~raced /\ NoTrap
    BY DEF Next, CycleInv
  <1>3. SUFFICES ASSUME NEW S \in SUBSET Names, \A n \in S : Clear(n)', Trap(S)' PROVE FALSE
    BY DEF NoTrap
  <1>4. Shape /\ \A n \in S : Clear(n)
    BY <1>3, ClearBefore DEF CycleInv, EditInv, HomeInv
  <1> DEFINE c == cmd[p]
  <1>5. CASE ~(Commit(p) /\ p \in Pending /\ SecondWrites(p) /\ c.kind # "unlink")
    <2>1. Trap(S)
      BY <1>1, <1>2, <1>3, <1>5, UpMoves DEF Trap
    <2> QED
      BY <1>2, <1>4, <2>1 DEF NoTrap
  <1>6. CASE Commit(p) /\ p \in Pending /\ SecondWrites(p) /\ c.kind # "unlink"
    <2>0. PICK t, o : t = c.task /\ o = c.of
      OBVIOUS
    <2> DEFINE been == walk[p].been
               T == S \cap been
    <2>1. Closed(p) /\ pc[p] = "commit" /\ pc'[p] = "commit"
      BY <1>2, <1>6 DEF CycleInv, Visits, Working, Commit
    <2>2. t \notin been /\ o \in been /\ walk[p].at = None
      BY <2>0, <2>1 DEF Closed
    <2>3. ASSUME NEW r \in Procs, NEW n, Lost(r, n)' PROVE FALSE
      <3>1. r \in Cross'
        BY <2>1, <2>3 DEF Lost, Cross, Linking
      <3> QED
        BY <2>3, <3>1, ToldStep DEF Told, Lost
    <2>4. ASSUME NEW n \in S, NEW m \in S, Up(n, m)'
          PROVE  Up(n, m) \/ (n = t /\ m = o)
      BY <1>1, <1>2, <1>3, <2>0, <2>4, UpMoves
    <2>5. t \in S
      <3> SUFFICES ASSUME t \notin S PROVE FALSE
        OBVIOUS
      <3>1. Trap(S)
        BY <1>3, <2>4 DEF Trap
      <3> QED
        BY <1>2, <1>4, <3>1 DEF NoTrap
    <2>6. Parent(t)' = o
      <3>1. t \in Names /\ Clear(t)' /\ Clear(t)
        BY <1>3, <1>4, <2>5
      <3>2. EditInv /\ TypeOK /\ active[t] \in Dirs /\ Advance(p)
        BY <1>6, <3>1 DEF CycleInv, EditInv, HomeInv, Shape, TypeOK, Commit
      <3>3. /\ unit[p].task = t /\ unit[p].after[2].parent = o
            /\ unit[p].after[2] \in Docs
        BY <1>6, <2>0, <3>2, UnitEdges, UnitIs
      <3>4. t \notin torn'
        BY <3>1 DEF Clear
      <3>5. active'[t] = Written(active[t], unit[p].after[2])
        <4>1. ~FirstWrites(p) /\ ~RollsBack(p)
          BY <1>6 DEF SecondWrites, FirstWrites, RollsBack
        <4> QED
          BY <1>6, <3>1, <3>2, <3>3, <3>4, <4>1, AdvanceEdges
      <3> QED
        BY <3>2, <3>3, <3>5, WrittenEdges DEF Parent
    <2>7. o \in S
      <3>1. PICK m \in S : Up(t, m)'
        BY <1>3, <2>5 DEF Trap
      <3> QED
        BY <2>3, <2>6, <3>1 DEF Up
    <2>8. Trap(T)
      <3>1. T # {}
        BY <2>2, <2>7
      <3>2. ASSUME NEW n \in T PROVE \E m \in T : Up(n, m)
        <4>1. PICK m \in S : Up(n, m)'
          BY <1>3 DEF Trap
        <4>2. Parent(n)' = m
          BY <2>3, <4>1 DEF Up
        <4>3. n # t
          BY <2>2
        <4>4. /\ Clear(n) /\ n \notin Blur /\ n \notin torn'
          BY <1>3, <1>4, ClearBefore DEF Clear
        <4>5. ~FallsBack(p) /\ m # None
          BY <2>1, NamesAssumption DEF FallsBack
        <4>6. Parent(n) = m
          BY <1>1, <1>2, <2>0, <4>2, <4>3, <4>4, <4>5, ParentsMove
        <4>7. m \in been
          BY <1>4, <2>1, <2>2, <4>4, <4>5, <4>6 DEF Closed
        <4> QED
          BY <4>6, <4>7 DEF Up
      <3> QED
        BY <3>1, <3>2 DEF Trap
    <2>9. \A n \in T : Clear(n)
      BY <1>4
    <2> QED
      BY <1>2, <2>8, <2>9 DEF NoTrap
  <1> QED
    BY <1>5, <1>6


\* Where a link or unlink is between its checks and its operation record.
LEMMA VisitOnly ==
    ASSUME Shape, NEW p \in Procs, Step(p), ~LoadChild(p), ~Walk(p), ~List(p), ~Recover(p)
    PROVE  pc'[p] \notin {"walk", "list", "settle"}
  <1> DEFINE Out == pc'[p] \notin {"walk", "list", "settle"}
  <1>1. TypeOK /\ pc \in [Procs -> Places]
    BY DEF Shape, TypeOK
  <1>2. ASSUME NEW where, Goto(p, where), where \notin {"walk", "list", "settle"} PROVE Out
    BY <1>1, <1>2 DEF Goto
  <1>3. Return(p) => Out
    BY <1>1, ReturnIs
  <1>4. Refuse(p) \/ Linked(p) => Out
    BY <1>2, <1>3 DEF Refuse, Linked
  <1>5. CASE Start(p)
    <2>1. PICK c \in Commands : Goto(p, IF c.kind \in {"link", "unlink"} THEN "parent" ELSE c.kind)
      BY <1>5 DEF Start
    <2>2. c.kind \in {"link", "unlink", "edit", "archive", "create"}
      BY CommandFields
    <2> QED
      BY <1>2, <2>1, <2>2
  <1>6. CASE Link(p)
    <2>1. CASE LoadParent(p) \/ Committed(p)
      BY <1>2, <1>4, <2>1 DEF LoadParent, Committed
    <2>2. CASE Prepare(p) \/ Commit(p)
      BY <1>1, <1>2, <2>2 DEF Prepare, Commit
    <2> QED
      BY <1>6, <2>1, <2>2 DEF Link
  <1>7. CASE EditLoad(p) \/ Save(p) \/ Create(p) \/ Crash(p)
    BY <1>2, <1>3, <1>7
    DEF EditLoad, Save, Create, CreateCheck, Mkdir, WriteTask, Anchor, TakeBack, Crash
  <1>8. CASE Archive(p)
    BY <1>1, <1>2, <1>3, <1>8
    DEF Archive, ArchiveLoad, ReadRelative, Copy, Compare, Remove, Mark, Relate, Files, Restore,
        Back, Rewrite
  <1> QED
    BY <1>5, <1>6, <1>7, <1>8 DEF Step

\* A link or unlink that has loaded its tasks has just done so, has taken its
\* check one task further, or is where it was.
LEMMA WorkMoves ==
    ASSUME Shape, NEW p \in Procs, Step(p), NEW r \in Procs, Working(r)'
    PROVE  \/ r = p /\ LoadChild(p)
           \/ r = p /\ Walk(p) /\ Working(p) /\ p \notin Pending'
           \/ /\ Working(r) /\ walk'[r] = walk[r] /\ cmd'[r] = cmd[r] /\ seen'[r] = seen[r]
              /\ (pc'[r] = "walk" <=> pc[r] = "walk")
              /\ pc'[r] \in {"list", "settle"} => pc[r] \in {"list", "settle"}
              /\ r = p => ~SecondWrites(r)
  <1>1. TypeOK /\ Fits(r) /\ pc \in [Procs -> Places]
    BY DEF Shape, TypeOK
  <1>2. CASE r # p
    <2>1. Same(r) /\ (unit'[r] = unit[r] \/ r \in Pending)
      BY <1>2, Others
    <2> QED
      BY <1>2, <2>1 DEF Same, Working, Pending
  <1>3. CASE r = p /\ (LoadChild(p) \/ Walk(p))
    <2>1. CASE Walk(p)
      <3>1. pc[p] = "walk"
        BY <2>1 DEF Walk
      <3>2. p \notin Pending'
        <4>1. unit'[p] = unit[p] \/ unit'[p] = NoUnit
          BY <1>1, <2>1, ReturnIs DEF Walk, Refuse
        <4> QED
          BY <1>1, <1>3, <3>1, <4>1 DEF Fits, Pending, NoUnit
      <3> QED
        BY <1>3, <2>1, <3>1, <3>2 DEF Working
    <2> QED
      BY <1>3, <2>1
  <1>4. CASE r = p /\ ~LoadChild(p) /\ ~Walk(p)
    <2>1. CASE List(p)
      BY <1>1, <1>4, <2>1 DEF List, Goto, Working, SecondWrites
    <2>2. CASE Recover(p)
      <3>1. pc[p] = "settle" /\ UNCHANGED memory /\ p \notin Pending
        BY <1>1, <1>4, <2>2 DEF Recover, Fits
      <3>2. pc'[p] # "walk"
        BY <1>1, <2>2 DEF Recover, Goto
      <3> QED
        BY <1>4, <3>1, <3>2 DEF memory, Working, SecondWrites, Pending
    <2>3. CASE p \in Pending'
      <3>1. Prepare(p) \/ Commit(p) \/ Crash(p)
        BY <2>3, OwnUnit
      <3>2. p \in Pending \/ pc[p] = "settle"
        BY <2>3, <3>1 DEF Prepare, Commit, Crash, Pending
      <3>3. /\ UNCHANGED memory /\ pc[p] # "walk" /\ pc'[p] \in {"commit", "dead"}
        BY <1>1, <1>4, <2>3, <3>1, <3>2 DEF Prepare, Commit, Crash, Goto, Fits, Pending
      <3> QED
        BY <1>4, <2>3, <3>2, <3>3 DEF memory, Working, SecondWrites, Pending
    <2> QED
      BY <1>4, <2>1, <2>2, <2>3, VisitOnly DEF Working
  <1> QED
    BY <1>2, <1>3, <1>4

\* What a cycle check has been at stays closed under parents while no other link
\* is under way and no archive falls back.
LEMMA ClosedStep ==
    ASSUME CycleInv, Next, ~raced', NEW r \in Procs, Visits(r)'
    PROVE  Closed(r)'
  <1>1. PICK p \in Procs : Step(p)
    BY DEF Next
  <1>2. ~raced /\ Shape /\ Told /\ TypeOK /\ Fits(p) /\ Fits(p)'
    BY ShapeStep DEF Next, CycleInv, EditInv, HomeInv, Shape
  <1>3. \A n : Clear(n)' => Clear(n) /\ n \notin Blur /\ n \notin torn'
    BY <1>2, ClearBefore DEF Clear
  <1>4. ASSUME NEW n, ~Clear(n) PROVE ~Clear(n)'
    BY <1>2, <1>4, ClearBefore
  <1>5. CASE r = p /\ LoadChild(p)
    <2>1. pc[p] = "child" /\ UNCHANGED tree /\ walk[p].been = {}
      BY <1>2, <1>5 DEF LoadChild, Fits
    <2>2. ~Return(p) /\ ~Refuse(p) /\ ~Linked(p)
      <3>1. p \notin Pending'
        <4>1. unit'[p] = unit[p] \/ unit'[p] = NoUnit
          BY <1>2, <1>5, ReturnIs DEF LoadChild, Refuse, Linked
        <4> QED
          BY <1>2, <2>1, <4>1 DEF Fits, Pending, NoUnit
      <3>2. pc'[p] \in {"walk", "list", "settle"} /\ pc \in [Procs -> Places]
        BY <1>2, <1>5, <3>1 DEF Visits, Working, TypeOK
      <3>3. ~Return(p)
        BY <1>2, <3>2, ReturnIs
      <3> QED
        BY <3>2, <3>3 DEF Refuse, Linked, Goto
    <2>3. /\ walk' = [walk EXCEPT ![p].at = cmd[p].of] /\ UNCHANGED cmd
          /\ Goto(p, IF cmd[p].kind # "unlink" THEN "walk" ELSE "list")
      BY <1>5, <2>2 DEF LoadChild
    <2>4. cmd[p].kind # "unlink"
      BY <1>5, <2>3 DEF Visits
    <2>5. pc'[p] = "walk" /\ walk'[p].at = cmd[p].of /\ walk'[p].been = {}
      BY <1>2, <2>1, <2>3, <2>4 DEF Goto, TypeOK
    <2> QED
      BY <1>5, <2>3, <2>5 DEF Closed
  <1>6. CASE r = p /\ Walk(p) /\ Visits(p) /\ p \notin Pending'
    <2>1. /\ pc[p] = "walk" /\ UNCHANGED tree /\ Closed(p)
          /\ walk \in [Procs -> [at : Names \cup {None}, been : SUBSET Names]]
          /\ pc \in [Procs -> Places]
      BY <1>2, <1>6 DEF Walk, CycleInv, TypeOK
    <2>2. ~Refuse(p)
      BY <1>2, <1>6, ReturnIs DEF Visits, Working, Refuse, Goto, Shape, TypeOK
    <2>3. PICK at, above : at = walk[p].at /\ above = Parent(at)
      OBVIOUS
    <2>4. /\ at # cmd[p].task /\ UNCHANGED cmd
          /\ walk' = [walk EXCEPT ![p] = [at |-> above, been |-> @.been \cup {at}]]
          /\ Goto(p, IF above = None THEN "list" ELSE "walk")
      BY <1>6, <2>2, <2>3 DEF Walk, Parent, ParentIn
    <2>5. /\ walk'[p].at = above /\ walk'[p].been = walk[p].been \cup {at}
          /\ pc'[p] = IF above = None THEN "list" ELSE "walk"
      BY <2>1, <2>4 DEF Goto
    <2>6. /\ cmd[p].task \notin walk[p].been /\ cmd[p].of \in walk[p].been \cup {at}
          /\ \A n \in walk[p].been : Clear(n) =>
                Parent(n) \in walk[p].been \cup {at, None} \/ ~Clear(Parent(n))
      BY <2>1, <2>3 DEF Closed
    <2>7. \A n : Parent(n)' = Parent(n)
      BY <2>1 DEF Parent, tree
    <2>8. ASSUME NEW n \in walk'[p].been, Clear(n)'
          PROVE  Parent(n)' \in walk'[p].been \cup {above, None} \/ ~Clear(Parent(n))'
      <3>1. n = at \/ (n \in walk[p].been /\ Clear(n))
        BY <1>3, <2>5, <2>8
      <3>2. CASE n = at
        BY <2>3, <2>7, <3>2
      <3>3. CASE Parent(n) \in walk[p].been \cup {at, None}
        BY <2>5, <2>7, <3>3
      <3>4. CASE ~Clear(Parent(n))
        BY <1>4, <2>7, <3>4
      <3> QED
        BY <2>6, <3>1, <3>2, <3>3, <3>4
    <2> QED
      BY <1>6, <2>4, <2>5, <2>6, <2>8 DEF Closed
  <1>7. CASE /\ Visits(r) /\ walk'[r] = walk[r] /\ cmd'[r] = cmd[r]
             /\ (pc'[r] = "walk" <=> pc[r] = "walk")
             /\ r = p => ~SecondWrites(r)
    <2>1. Closed(r) /\ Linking(r) /\ walk[r].been \subseteq Names
      BY <1>2, <1>7 DEF CycleInv, Visits, Working, Linking, TypeOK
    <2>2. ~(Commit(p) /\ p \in Pending /\ SecondWrites(p))
      BY <1>2, <1>7, <2>1 DEF Linking, Race, Told
    <2>3. ~FallsBack(p)
      BY <1>2, <2>1 DEF Told, Cross, FallsBack, Away
    <2>4. ASSUME NEW n \in walk[r].been, Clear(n)'
          PROVE  Parent(n)' \in walk[r].been \cup {walk[r].at, None} \/ ~Clear(Parent(n))'
      <3>1. Parent(n)' \in {Parent(n), None}
        BY <1>1, <1>2, <1>3, <2>1, <2>2, <2>3, <2>4, ParentsMove
      <3>2. Parent(n) \in walk[r].been \cup {walk[r].at, None} \/ ~Clear(Parent(n))
        BY <1>3, <2>1, <2>4 DEF Closed
      <3> QED
        BY <1>4, <3>1, <3>2
    <2> QED
      BY <1>7, <2>1, <2>4 DEF Closed
  <1> QED
    <2>1. Working(r)' /\ cmd'[r].kind # "unlink"
      BY DEF Visits
    <2>2. Working(r) /\ cmd'[r] = cmd[r] => Visits(r)
      BY <2>1 DEF Visits
    <2>3. ASSUME r = p, Walk(p), Working(p), p \notin Pending' PROVE Visits(p)
      <3>1. pc \in [Procs -> Places]
        BY <1>2 DEF TypeOK
      <3>2. ~Return(p)
        BY <1>2, <2>1, <2>3, ReturnIs DEF Working
      <3> QED
        BY <2>2, <2>3, <3>2 DEF Walk, Refuse, memory
    <2> QED
      BY <1>1, <1>2, <1>5, <1>6, <1>7, <2>1, <2>2, <2>3, WorkMoves

LEMMA CycleStep ==
    ASSUME CycleInv, Next PROVE CycleInv'
  <1>1. EditInv'
    BY EditStep DEF CycleInv
  <1>2. (\A n \in Names : Clear(n) => \A p \in Procs : Held(p, n))'
    BY HeldStep
  <1>3. ASSUME ~raced' PROVE NoTrap' /\ (\A q \in Procs : Visits(q) => Closed(q))'
    BY <1>3, NoTrapStep, ClosedStep
  <1> QED
    BY <1>1, <1>2, <1>3, ToldStep DEF CycleInv

LEMMA CycleStays == ASSUME CycleInv, UNCHANGED vars PROVE CycleInv'
  <1>1. EditInv'
    BY EditStays DEF CycleInv
  <1>2. UNCHANGED <<active, stored, pc, cmd, seen, walk, todo, unit, crossed, raced, blurred, torn>>
    BY DEF vars, tree, memory, past
  <1>3. (\A n \in Names : Clear(n) => \A p \in Procs : Held(p, n))'
    BY <1>2
    DEF CycleInv, Clear, Held, HeldRelative, HeldTask, PartedSeen, Parted
  <1>4. Told'
    BY <1>2 DEF CycleInv, Told, Cross, Away, Linking, Pending, FallsBack, Race
  <1>5. NoTrap = NoTrap'
    BY <1>2 DEF NoTrap, Clear, Trap, Up, Parent, Lost, Away
  <1>6. (\A q \in Procs : Visits(q) => Closed(q)) <=> (\A q \in Procs : Visits(q) => Closed(q))'
    BY <1>2 DEF Visits, Working, Closed, Pending, Parent, Clear
  <1> QED
    BY <1>1, <1>2, <1>3, <1>4, <1>5, <1>6 DEF CycleInv


\* The tasks that are there at first are related as in the forest.
LEMMA PlantedEdges ==
    ASSUME NEW f \in Forests, NEW here, NEW done, NEW n \in Names
    PROVE  /\ ParentIn(Planted(f, here, done)[n]) = (IF n \in here THEN f[n] ELSE None)
           /\ \A m \in Names :
                 m \in ChildrenIn(Planted(f, here, done)[n]) <=> n \in here /\ f[m] = n
           /\ IsFull(Planted(f, here, done)[n]) <=> n \in here
  <1> DEFINE doc == [NewTask({}) EXCEPT
                       !.status = IF n \in done THEN "completed" ELSE "planning",
                       !.parent = f[n], !.children = {m \in Names : f[m] = n}]
  <1>1. Planted(f, here, done)[n] = IF n \notin here THEN Absent ELSE Full(doc)
    BY DEF Planted
  <1>2. doc.parent = f[n] /\ doc.children = {m \in Names : f[m] = n}
    BY DEF NewTask
  <1> HIDE DEF doc
  <1>3. IsFull(Full(doc)) /\ Full(doc).doc = doc /\ ~IsFull(Absent)
    BY FullIs DEF IsFull, Absent
  <1> QED
    BY <1>1, <1>2, <1>3 DEF ParentIn, ChildrenIn

LEMMA CycleInit == Init => CycleInv
  <1> SUFFICES ASSUME Init PROVE CycleInv
    OBVIOUS
  <1>1. EditInv
    BY EditInit
  <1>2. /\ \A p \in Procs : pc[p] = "idle" /\ p \notin Pending
        /\ crossed = {} /\ blurred = {} /\ torn = {}
    BY DEF Init, Pending, NoUnit
  <1>3. \A p \in Procs : ~Linking(p) /\ ~Away(p) /\ \A n \in Names : Held(p, n)
    BY <1>2 DEF Held, ArchiveSteps, Linking, Away
  <1>4. Told
    BY <1>2, <1>3 DEF Told, Cross, Race
  <1>5. ASSUME NEW S \in SUBSET Names, Trap(S) PROVE FALSE
    <2>1. PICK f \in Forests, here, done \in SUBSET Names : active = Planted(f, here, done)
      BY DEF Init
    <2>2. PICK n \in S : f[n] \notin S
      BY <1>5, <2>1 DEF Forests, Trap
    <2>3. PICK m \in S : Up(n, m)
      BY <1>5, <2>2 DEF Trap
    <2>4. Parent(n) = m
      BY <1>3, <2>2, <2>3 DEF Up, Lost
    <2>5. Parent(n) \in {f[n], None}
      BY <2>1, <2>2, PlantedEdges DEF Parent
    <2> QED
      BY <2>2, <2>3, <2>4, <2>5, NamesAssumption
  <1>6. \A q \in Procs : ~Visits(q)
    BY <1>2 DEF Visits, Working
  <1> QED
    BY <1>1, <1>3, <1>4, <1>5, <1>6 DEF CycleInv, NoTrap

\* The tasks of a cycle have all their parents among them.
LEMMA CyclesAreTraps ==
    ASSUME NEW tasks \in SUBSET Names, Cyclic(tasks)
    PROVE  \E S \in SUBSET tasks : Trap(S)
  <1>0. PICK k \in 1..Cardinality(tasks) : \E path \in [0..k -> tasks] :
            /\ path[k] = path[0]
            /\ \A i \in 0..(k - 1) :
                 IsFull(active[path[i]]) /\ active[path[i]].doc.parent = path[i + 1]
    BY DEF Cyclic
  <1>1. PICK path \in [0..k -> tasks] :
            /\ path[k] = path[0]
            /\ \A i \in 0..(k - 1) :
                 IsFull(active[path[i]]) /\ active[path[i]].doc.parent = path[i + 1]
    BY <1>0
  <1>2. k \in Int /\ 1 <= k
    BY <1>0
  <1> DEFINE S == {path[i] : i \in 0..(k - 1)}
  <1>3. S \in SUBSET tasks /\ path[0] \in S
    BY <1>2
  <1>4. ASSUME NEW i \in 0..(k - 1) PROVE \E m \in S : Up(path[i], m)
    <2>1. Parent(path[i]) = path[i + 1]
      BY <1>1 DEF Parent, ParentIn
    <2>2. path[i + 1] \in S
      <3>1. CASE i + 1 \in 0..(k - 1)
        BY <3>1
      <3>2. CASE i + 1 = k
        BY <1>1, <1>3, <3>2
      <3> QED
        BY <1>2, <3>1, <3>2
    <2> QED
      BY <2>1, <2>2 DEF Up
  <1>5. \A n \in S : \E m \in S : Up(n, m)
    BY <1>4
  <1>6. Trap(S)
    BY <1>3, <1>5 DEF Trap
  <1> QED
    BY <1>3, <1>6

\* The parents of a task lead to a root, for any number of tasks and commands,
\* as long as no two links and no link and an archive of a task that falls back
\* were under way at once; tasks that commands spoilt are excused.
THEOREM CyclesHaveACause == Spec => []CycleHasACause
  <1>1. Init => CycleInv
    BY CycleInit
  <1>2. CycleInv /\ [Next]_vars => CycleInv'
    BY CycleStep, CycleStays
  <1>3. CycleInv => CycleHasACause
    <2> SUFFICES ASSUME CycleInv, ~raced, Cyclic({n \in Names : Clear(n)}) PROVE FALSE
      BY DEF CycleHasACause
    <2>1. PICK S \in SUBSET {n \in Names : Clear(n)} : Trap(S)
      BY CyclesAreTraps
    <2> QED
      BY <2>1 DEF CycleInv, NoTrap
  <1> QED
    BY <1>1, <1>2, <1>3, PTL DEF Spec

-----------------------------------------------------------------------------
(* Links agree: the two ends of a link.                                    *)

\* n lists m among its children.
Child(n, m) == m \in ChildrenIn(active[n])

Half(q) == q \in Pending /\ unit[q].phase = "half"

\* A link or unlink of the two is between its writes.
Open(n, m) == \E q \in Procs : Half(q) /\ unit[q].of = n /\ unit[q].task = m

\* Between the removal of the task of p and its end or return.
Empty(p) == pc[p] \in {"mark", "relate", "files", "restore", "back"}

\* The task is being archived, and not here.
Gone(n) == \E p \in Procs : Empty(p) /\ cmd[p].task = n

\* How two tasks may be related.
Paired(n, m) ==
    /\ ~Child(n, n)
    /\ ~(Parent(n) = m /\ Parent(m) = n)
    /\ ~Open(n, m) /\ ~Gone(n) /\ ~Gone(m) => (Child(n, m) <=> Parent(m) = n)

\* A link moves no child of another, and links no task with itself.
Apart(c, child) == child.parent \in {None, c.of} /\ (c.kind # "unlink" => c.of # c.task)

Meant(q) ==
    /\ pc[q] \in {"walk", "list", "settle"} => Apart(cmd[q], seen[q][cmd[q].task].doc)
    /\ q \in Pending => Apart(cmd[q], unit[q].before[2])

\* The document of the parent-to-be is not that of a child of the child-to-be,
\* or a newer one is there.
NotUnder(q, doc) ==
    cmd[q].kind # "unlink" /\ Sound(cmd[q].of) /\ doc.parent = cmd[q].task =>
        doc.rev < active[cmd[q].of].doc.rev

\* The cycle check of q has gone on from the parent-to-be.
Past(q) ==
    \/ pc[q] \in {"list", "settle"}
    \/ pc[q] = "walk" /\ walk[q].been # {} /\ walk[q].at # cmd[q].task

Above(q) ==
    /\ pc[q] = "walk" /\ walk[q].been = {} => walk[q].at = cmd[q].of
    /\ Past(q) => NotUnder(q, seen[q][cmd[q].of].doc)
    /\ q \in Pending /\ unit[q].phase = "prepared" => NotUnder(q, unit[q].before[1])

LEMMA SoundBefore ==
    ASSUME Shape, Next, NEW n, Sound(n)'
    PROVE  Sound(n) /\ n \notin Blur
  BY ClearBefore DEF Next, Sound

\* What is pending has just been prepared, or was, and may be a write further.
LEMMA PendingKept ==
    ASSUME Shape, NEW p \in Procs, Step(p), NEW q \in Procs, q \in Pending'
    PROVE  \/ q = p /\ Prepare(p)
           \/ /\ q \in Pending /\ cmd'[q] = cmd[q]
              /\ unit'[q].task = unit[q].task /\ unit'[q].of = unit[q].of
              /\ unit'[q].before = unit[q].before /\ unit'[q].after = unit[q].after
              /\ \/ unit'[q] = unit[q]
                 \/ Advance(q) /\ ((Commit(p) /\ q = p) \/ (Recover(p) /\ q # p))
  <1>1. TypeOK
    BY DEF Shape
  <1>2. ASSUME q \in Pending, cmd'[q] = cmd[q],
               unit'[q] = unit[q]
               \/ (Advance(q) /\ ((Commit(p) /\ q = p) \/ (Recover(p) /\ q # p)))
        PROVE  /\ unit'[q].task = unit[q].task /\ unit'[q].of = unit[q].of
               /\ unit'[q].before = unit[q].before /\ unit'[q].after = unit[q].after
    BY <1>1, <1>2, AdvanceIs
  <1>3. CASE q # p
    <2>1. q \in Pending /\ cmd'[q] = cmd[q] /\ (unit'[q] = unit[q] \/ (Recover(p) /\ Advance(q)))
      BY <1>3, Others, PendingMoves DEF Same
    <2> QED
      BY <1>2, <1>3, <2>1
  <1>4. CASE q = p
    <2>1. Prepare(p) \/ Commit(p) \/ Crash(p)
      BY <1>4, OwnUnit
    <2>2. CASE Commit(p)
      <3>1. q \in Pending /\ cmd'[q] = cmd[q] /\ Advance(q)
        BY <1>4, <2>2 DEF Commit, Pending, memory
      <3> QED
        BY <1>2, <1>4, <2>2, <3>1
    <2>3. CASE Crash(p)
      <3>1. q \in Pending /\ cmd'[q] = cmd[q] /\ unit'[q] = unit[q]
        BY <1>4, <2>3 DEF Crash, Pending, memory
      <3> QED
        BY <1>2, <3>1
    <2> QED
      BY <1>4, <2>1, <2>2, <2>3
  <1> QED
    BY <1>3, <1>4

\* What a link or unlink has before it when it has loaded its tasks.
LEMMA LoadChildIs ==
    ASSUME Shape, NEW p \in Procs, LoadChild(p), Working(p)'
    PROVE  /\ UNCHANGED <<tree, cmd, unit>> /\ p \notin Pending'
           /\ walk'[p].at = cmd[p].of /\ walk'[p].been = {}
           /\ seen' = [seen EXCEPT ![p][cmd[p].task] = active[cmd[p].task]]
           /\ pc'[p] = IF cmd[p].kind = "unlink" THEN "list" ELSE "walk"
           /\ Apart(cmd[p], active[cmd[p].task].doc)
  <1>1. /\ TypeOK /\ Fits(p) /\ pc \in [Procs -> Places] /\ pc[p] = "child"
        /\ walk[p].been = {} /\ UNCHANGED tree
        /\ walk \in [Procs -> [at : Names \cup {None}, been : SUBSET Names]]
    BY DEF Shape, TypeOK, Fits, LoadChild
  <1>2. unit'[p] = unit[p] \/ unit'[p] = NoUnit
    BY <1>1, ReturnIs DEF LoadChild, Refuse, Linked
  <1>3. p \notin Pending'
    BY <1>1, <1>2 DEF Fits, Pending, NoUnit
  <1>4. pc'[p] \in {"walk", "list", "settle"}
    BY <1>3 DEF Working
  <1>5. ~Return(p)
    BY <1>1, <1>4, ReturnIs
  <1>6. ~Refuse(p) /\ ~Linked(p)
    BY <1>1, <1>4, <1>5 DEF Refuse, Linked, Goto
  <1>7. /\ Saw(p, cmd[p].task)
        /\ walk' = [walk EXCEPT ![p].at = cmd[p].of]
        /\ Goto(p, IF cmd[p].kind # "unlink" THEN "walk" ELSE "list")
        /\ UNCHANGED <<cmd, todo, queue, unit>>
        /\ ~(cmd[p].kind # "unlink" /\ cmd[p].of = cmd[p].task)
        /\ active[cmd[p].task].doc.parent \in {None, cmd[p].of}
    BY <1>5, <1>6 DEF LoadChild
  <1> QED
    BY <1>1, <1>3, <1>7 DEF Saw, Goto, Apart

LEMMA MeantStep ==
    ASSUME Shape, NEW p \in Procs, Step(p), NEW q \in Procs, Meant(q)
    PROVE  Meant(q)'
  <1>1. Fits(q) /\ TypeOK /\ seen \in [Procs -> [Names -> Dirs]] /\ pc \in [Procs -> Places]
    BY DEF Shape, TypeOK
  <1>2. CASE q = p /\ LoadChild(p) /\ Working(p)'
    <2>1. cmd[p].task \in Names
      BY <1>2, InHand DEF LoadChild
    <2>2. seen'[p][cmd[p].task] = active[cmd[p].task] /\ p \notin Pending' /\ cmd' = cmd
      BY <1>1, <1>2, <2>1, LoadChildIs
    <2> QED
      BY <1>2, <2>2, LoadChildIs DEF Meant, Apart
  <1>3. CASE q = p /\ Walk(p) /\ Working(p) /\ p \notin Pending' /\ Working(p)'
    <2>1. pc[p] = "walk"
      BY <1>3 DEF Walk
    <2>2. pc'[p] \in {"walk", "list", "settle"}
      BY <1>3 DEF Working
    <2>3. ~Return(p)
      BY <1>1, <2>2, ReturnIs
    <2>4. UNCHANGED <<cmd, seen>>
      BY <1>3, <2>3 DEF Walk, Refuse, memory
    <2> QED
      BY <1>3, <2>1, <2>4 DEF Meant, Apart
  <1>4. CASE /\ Working(q) /\ cmd'[q] = cmd[q] /\ seen'[q] = seen[q]
             /\ (pc'[q] = "walk" <=> pc[q] = "walk")
             /\ pc'[q] \in {"list", "settle"} => pc[q] \in {"list", "settle"}
    <2>1. CASE q \in Pending'
      <3>1. CASE Prepare(p) /\ q = p
        <4>1. unit'[p].before[2] = seen[p][cmd[p].task].doc /\ pc[p] = "settle"
          <5>1. unit'[p].before = <<seen[p][cmd[p].of].doc, seen[p][cmd[p].task].doc>>
            BY <3>1, PrepareFits
          <5>2. pc[p] = "settle"
            BY <3>1 DEF Prepare
          <5> QED
            BY <5>1, <5>2
        <4>2. pc'[p] = "commit"
          BY <1>1, <3>1 DEF Prepare, Goto
        <4> QED
          BY <1>4, <3>1, <4>1, <4>2 DEF Meant, Apart
      <3>2. CASE q \in Pending /\ unit'[q].before = unit[q].before
        BY <1>4, <3>2 DEF Meant, Apart
      <3> QED
        BY <2>1, <3>1, <3>2, PendingKept
    <2>2. CASE q \notin Pending'
      BY <1>4, <2>2 DEF Meant, Apart
    <2> QED
      BY <2>1, <2>2
  <1>5. CASE ~Working(q)'
    BY <1>5 DEF Meant, Working
  <1> QED
    BY <1>2, <1>3, <1>4, <1>5, WorkMoves

\* As long as a task is there, its revision does not go back.
LEMMA Grows ==
    ASSUME CycleInv, Next, NEW n \in Names, Sound(n)', IsFull(active[n]), IsFull(active'[n])
    PROVE  /\ active[n].doc \in Docs /\ active'[n].doc \in Docs
           /\ active[n].doc.rev \in Nat /\ active'[n].doc.rev \in Nat
           /\ active[n].doc.rev <= active'[n].doc.rev
           /\ active[n].doc.rev = active'[n].doc.rev => active'[n] = active[n]
  <1>1. PICK p \in Procs : Step(p)
    BY DEF Next
  <1>2. HomeInv /\ Sound(n) /\ n \notin torn'
    BY SoundBefore DEF CycleInv, EditInv, HomeInv, Sound, Clear
  <1>3. /\ active[n].doc \in Docs /\ active'[n].doc \in Docs
        /\ active'[n] = active[n] \/ active'[n].doc.rev > active[n].doc.rev
    BY <1>1, <1>2, Revisions DEF Sound
  <1> QED
    BY <1>3 DEF Docs

\* The parent-to-be of a link or unlink at work is there.
LEMMA OfIsFull ==
    ASSUME CycleInv, NEW q \in Procs, Working(q)
    PROVE  LET of == cmd[q].of IN
           /\ of \in Names /\ cmd[q].kind \in {"link", "unlink", "create"}
           /\ Sound(of) => IsFull(active[of])
           /\ q \in Pending => unit[q].before[1].rev \in Nat /\ unit[q].of = of
           /\ pc[q] \in {"walk", "list", "settle"} =>
                 /\ seen[q][of].doc.rev \in Nat
                 /\ Sound(of) => Older(seen[q][of].doc, active[of].doc)
  <1>1. /\ EditInv /\ Shape /\ TypeOK /\ Faithful /\ Fits(q)
        /\ \A n \in Names : Sound(n) => Own(q, n) /\ Recalls(q, n)
    BY DEF CycleInv, EditInv, HomeInv, Homed, Shape, Kept, Sound
  <1>2. CASE pc[q] \in {"walk", "list", "settle"}
    <2>1. /\ pc[q] \in LinkSteps /\ Running(q) /\ q \notin Pending
          /\ IsFull(seen[q][cmd[q].of])
      BY <1>1, <1>2 DEF LinkSteps, Running, Fits
    <2>2. /\ cmd[q].of \in Names /\ cmd[q].kind \in {"link", "unlink", "create"}
          /\ seen[q] \in [Names -> Dirs]
      BY <1>1, <2>1, InHand
    <2>3. seen[q][cmd[q].of].doc \in Docs /\ Follows(q, cmd[q].of)
      BY <2>1, <2>2, DirKinds DEF Follows
    <2> QED
      BY <1>1, <2>1, <2>2, <2>3 DEF Own, Recalls, Docs
  <1>3. CASE q \in Pending
    <2>1. /\ unit[q].of = cmd[q].of /\ cmd[q].kind \in {"link", "unlink", "create"}
          /\ unit[q].of \in Names /\ unit[q].before[1] \in Docs
          /\ pc[q] \notin {"walk", "list", "settle"}
      BY <1>1, <1>3, UnitIs DEF Faithful, Fits
    <2> QED
      BY <1>1, <1>3, <2>1 DEF Own, Docs
  <1> QED
    BY <1>2, <1>3 DEF Working

\* What is newer than a document stays so.
LEMMA NotUnderStays ==
    ASSUME CycleInv, CycleInv', Next, NEW q \in Procs, Working(q), Working(q)',
           cmd'[q] = cmd[q], NEW doc, doc.rev \in Nat, NotUnder(q, doc)
    PROVE  NotUnder(q, doc)'
  <1>1. PICK of : of = cmd[q].of
    OBVIOUS
  <1>2. SUFFICES ASSUME cmd[q].kind # "unlink", doc.parent = cmd[q].task, Sound(of)'
                 PROVE  doc.rev < active'[of].doc.rev
    BY <1>1 DEF NotUnder
  <1>3. of \in Names /\ (Sound(of) => IsFull(active[of]))
    BY <1>1, OfIsFull
  <1>4. Sound(of)
    BY <1>2, <1>3, SoundBefore DEF CycleInv, EditInv, HomeInv
  <1>5. IsFull(active'[of])
    <2>1. /\ Faithful' /\ Fits(q)' /\ Own(q, of)' /\ TypeOK'
      BY <1>2, <1>3 DEF CycleInv, EditInv, HomeInv, Homed, Shape, Sound
    <2>2. CASE pc'[q] \in {"walk", "list", "settle"}
      <3>1. Running(q)' /\ IsFull(seen'[q][of]) /\ cmd'[q].kind # "archive"
        BY <1>1, <2>1, <2>2 DEF Fits, Running, LinkSteps
      <3> QED
        BY <1>1, <2>1, <3>1 DEF Own, Follows
    <2>3. CASE q \in Pending'
      BY <1>1, <2>1, <2>3 DEF Faithful, Own
    <2> QED
      BY <2>2, <2>3 DEF Working
  <1>6. doc.rev < active[of].doc.rev
    BY <1>1, <1>2, <1>4 DEF NotUnder
  <1>7. /\ active[of].doc.rev \in Nat /\ active'[of].doc.rev \in Nat
        /\ active[of].doc.rev <= active'[of].doc.rev
    BY <1>2, <1>3, <1>4, <1>5, Grows
  <1> QED
    BY <1>6, <1>7

LEMMA AboveStep ==
    ASSUME CycleInv, CycleInv', Next, NEW p \in Procs, Step(p), NEW q \in Procs, Above(q)
    PROVE  Above(q)'
  <1>1. /\ Shape /\ TypeOK /\ Fits(q) /\ pc \in [Procs -> Places]
        /\ walk \in [Procs -> [at : Names \cup {None}, been : SUBSET Names]]
        /\ seen \in [Procs -> [Names -> Dirs]]
    BY DEF CycleInv, EditInv, HomeInv, Shape, TypeOK
  <1>2. CASE q = p /\ LoadChild(p) /\ Working(p)'
    <2>1. /\ walk'[p].at = cmd[p].of /\ walk'[p].been = {} /\ p \notin Pending' /\ cmd' = cmd
          /\ pc'[p] = IF cmd[p].kind = "unlink" THEN "list" ELSE "walk"
      BY <1>1, <1>2, LoadChildIs
    <2> QED
      BY <1>2, <2>1 DEF Above, Past, NotUnder
  <1>3. CASE q = p /\ Walk(p) /\ Working(p) /\ p \notin Pending' /\ Working(p)'
    <2>1. pc[p] = "walk" /\ UNCHANGED tree
      BY <1>3 DEF Walk
    <2>2. pc'[p] \in {"walk", "list", "settle"}
      BY <1>3 DEF Working
    <2>3. ~Return(p) /\ ~Refuse(p)
      BY <1>1, <2>2, ReturnIs DEF Refuse, Goto
    <2>4. PICK of, at, above, doc :
            of = cmd[p].of /\ at = walk[p].at /\ above = Parent(at) /\ doc = seen[p][of].doc
      OBVIOUS
    <2>5. /\ at # cmd[p].task /\ UNCHANGED <<cmd, seen>>
          /\ walk' = [walk EXCEPT ![p] = [at |-> above, been |-> @.been \cup {at}]]
          /\ Goto(p, IF above = None THEN "list" ELSE "walk")
      BY <1>3, <2>3, <2>4 DEF Walk, Parent, ParentIn
    <2>6. /\ walk'[p].at = above /\ walk'[p].been # {}
          /\ pc'[p] = IF above = None THEN "list" ELSE "walk"
      BY <1>1, <2>5 DEF Goto
    <2>7. SUFFICES ASSUME Past(p)', cmd[p].kind # "unlink", Sound(of)', doc.parent = cmd[p].task
                   PROVE  doc.rev < active'[of].doc.rev
      BY <1>3, <2>4, <2>5, <2>6 DEF Above, NotUnder
    <2>8. /\ of \in Names /\ doc.rev \in Nat /\ cmd[p].task \in Names
          /\ (Sound(of) => IsFull(active[of]) /\ Older(doc, active[of].doc))
      BY <1>1, <1>3, <2>1, <2>4, OfIsFull, InHand
    <2>9. Sound(of)
      BY <1>1, <2>7, <2>8, SoundBefore
    <2>10. CASE walk[p].been = {}
      <3>1. at = of
        BY <1>3, <2>1, <2>4, <2>10 DEF Above
      <3>2. above # cmd[p].task
        BY <2>5, <2>6, <2>7, <2>8, NamesAssumption DEF Past
      <3>3. active[of].doc.parent # doc.parent
        BY <2>4, <2>7, <2>8, <2>9, <3>1, <3>2 DEF Parent, ParentIn
      <3>4. active[of] \in Dirs /\ active[of].doc.rev \in Nat
        BY <1>1, <2>8, <2>9, DirKinds DEF TypeOK, Docs
      <3>5. doc.rev < active[of].doc.rev
        BY <2>8, <2>9, <3>3, <3>4 DEF Older
      <3> QED
        BY <2>1, <3>5 DEF tree
    <2>11. CASE walk[p].been # {}
      <3>1. Past(p)
        BY <2>1, <2>4, <2>5, <2>11 DEF Past
      <3>2. doc.rev < active[of].doc.rev
        BY <1>3, <2>4, <2>7, <2>9, <3>1 DEF Above, NotUnder
      <3> QED
        BY <2>1, <3>2 DEF tree
    <2> QED
      BY <2>10, <2>11
  <1>4. CASE /\ Working(q) /\ walk'[q] = walk[q] /\ cmd'[q] = cmd[q] /\ seen'[q] = seen[q]
             /\ (pc'[q] = "walk" <=> pc[q] = "walk")
             /\ pc'[q] \in {"list", "settle"} => pc[q] \in {"list", "settle"}
             /\ Working(q)'
    <2>1. PICK doc : doc = seen[q][cmd[q].of].doc
      OBVIOUS
    <2>2. ASSUME Past(q)' PROVE NotUnder(q, doc)'
      <3>1. Past(q) /\ pc[q] \in {"walk", "list", "settle"}
        BY <1>4, <2>2 DEF Past
      <3>2. NotUnder(q, doc)
        BY <2>1, <3>1 DEF Above
      <3>3. doc.rev \in Nat
        BY <1>4, <2>1, <3>1, OfIsFull
      <3> QED
        BY <1>4, <3>2, <3>3, NotUnderStays
    <2>3. ASSUME q \in Pending', unit'[q].phase = "prepared" PROVE NotUnder(q, unit[q].before[1])'
      <3>1. CASE Prepare(p) /\ q = p
        <4>1. unit'[p].before[1] = doc /\ pc[p] = "settle"
          <5>1. unit'[p].before = <<seen[p][cmd[p].of].doc, seen[p][cmd[p].task].doc>>
            BY <1>1, <3>1, PrepareFits
          <5>2. pc[p] = "settle"
            BY <3>1 DEF Prepare
          <5> QED
            BY <2>1, <3>1, <5>1, <5>2
        <4>2. NotUnder(q, doc) /\ doc.rev \in Nat
          BY <1>4, <2>1, <3>1, <4>1, OfIsFull DEF Above, Past
        <4>3. NotUnder(q, doc)'
          BY <1>4, <4>2, NotUnderStays
        <4> QED
          BY <3>1, <4>1, <4>3 DEF NotUnder
      <3>2. CASE q \in Pending /\ unit'[q].before = unit[q].before
                 /\ (unit'[q] = unit[q] \/ Advance(q))
        <4>1. unit[q].phase = "prepared"
          BY <1>1, <2>3, <3>2, AdvanceIs
        <4>2. PICK before : before = unit[q].before[1]
          OBVIOUS
        <4>3. NotUnder(q, before) /\ before.rev \in Nat
          BY <1>4, <3>2, <4>1, <4>2, OfIsFull DEF Above
        <4>4. NotUnder(q, before)'
          BY <1>4, <4>3, NotUnderStays
        <4> QED
          BY <3>2, <4>2, <4>4 DEF NotUnder
      <3> QED
        BY <1>1, <2>3, <3>1, <3>2, PendingKept
    <2>4. Past(q)' => NotUnder(q, seen[q][cmd[q].of].doc)'
      BY <1>4, <2>1, <2>2 DEF NotUnder
    <2>5. (pc[q] = "walk" /\ walk[q].been = {} => walk[q].at = cmd[q].of)'
      BY <1>4 DEF Above
    <2> QED
      BY <2>3, <2>4, <2>5 DEF Above
  <1>5. CASE ~Working(q)'
    BY <1>5 DEF Above, Past, Working
  <1> QED
    BY <1>1, <1>2, <1>3, <1>4, <1>5, WorkMoves

\* What an archive has in hand is excused when its task is.
Bound(p) ==
    cmd[p].kind = "archive" =>
        \A n \in Names : n \in Hand(p) /\ Sound(n) => Sound(cmd[p].task)

\* What an archive has read of r agrees with what it has read of its task, and
\* r has nothing to do with the task when it has read nothing of it.
Read(p, r) ==
    LET t == cmd[p].task
        task == seen[p][t].doc
        rel == seen[p][r].doc
    IN
    pc[p] \in ArchiveSteps \ {"archive"} /\ Sound(t) =>
        /\ r \in Relatives(task) =>
              r # t /\ (IsFull(seen[p][r]) \/ (pc[p] = "relatives" /\ r \in todo[p]))
        /\ pc[p] = "relatives" /\ r \in todo[p] => r \in Relatives(task)
        /\ r # t /\ IsFull(seen[p][r]) =>
              /\ r \in Relatives(task)
              /\ t \in rel.children <=> task.parent = r
              /\ rel.parent = t <=> r \in task.children
              /\ ~(task.parent = r /\ r \in task.children)
        /\ Empty(p) /\ r # t /\ ~IsFull(seen[p][r]) => ~Child(r, t) /\ Parent(r) # t

\* What a unit between its writes has made of its two tasks.
Joins(q) ==
    LET u == unit[q] IN
    Sound(u.task) =>
        /\ Child(u.of, u.task) <=> cmd[q].kind # "unlink"
        /\ active[u.of].doc.rev = u.before[1].rev + 1 =>
              (u.task \in u.before[1].children <=> Parent(u.task) = u.of)
        /\ cmd[q].kind # "unlink" => Parent(u.of) # u.task

\* No other unit has what the unit of q has written.
Ahead(q, r) ==
    LET u == unit[q] IN
    /\ Half(r) => unit[r].of # u.of
    /\ r \in Pending =>
          /\ unit[r].of = u.of => unit[r].before[1].rev <= u.before[1].rev
          /\ unit[r].task = u.of => unit[r].before[2].rev <= u.before[1].rev
    /\ pc[r] = "settle" /\ q \notin queue[r] /\ u.of \in {cmd[r].of, cmd[r].task} =>
          seen[r][u.of].doc.rev <= u.before[1].rev

LinkInv ==
    /\ CycleInv
    /\ \A p \in Procs : Meant(p) /\ Above(p) /\ Bound(p)
    /\ \A p \in Procs, n \in Names : Sound(n) => Read(p, n)
    /\ \A q \in Procs : Half(q) /\ Sound(unit[q].of) =>
          Joins(q) /\ \A r \in Procs \ {q} : Ahead(q, r)
    /\ \A n, m \in Names : Sound(n) /\ Sound(m) => Paired(n, m)

LEMMA BoundStep == ASSUME Next, NEW p \in Procs PROVE Bound(p)'
  <1>1. SUFFICES ASSUME cmd'[p].kind = "archive", NEW n \in Names, n \in Hand(p)',
                        ~Sound(cmd[p].task)'
                 PROVE  ~Sound(n)'
    BY DEF Bound
  <1>2. stale' = stale \cup Spread /\ blurred' = blurred \cup Blur'
    BY DEF Next
  <1>3. CASE cmd'[p].task \in blurred' \cup torn' \cup stale
    <2>1. n \in Spread
      BY <1>1, <1>3 DEF Spread
    <2> QED
      BY <1>2, <2>1 DEF Sound, Clear
  <1>4. CASE cmd'[p].task \in Spread
    <2>1. PICK a \in Procs : /\ cmd'[p].task \in Hand(a)' /\ cmd'[a].kind = "archive"
                             /\ cmd'[a].task \in blurred' \cup torn' \cup stale
      BY <1>4 DEF Spread
    <2>2. cmd'[p].task \in Hand(p)' /\ cmd'[p].task \in Names
      BY <1>1, <1>4 DEF Hand, Spread
    <2>3. a # p => cmd'[p].task \in Blur'
      BY <1>1, <2>1, <2>2 DEF Blur, Holds
    <2> QED
      BY <1>2, <1>3, <2>1, <2>3
  <1> QED
    BY <1>1, <1>2, <1>3, <1>4 DEF Sound, Clear

\* An archive that writes the clear task n as a relative has read of it what
\* agrees with its task.
LEMMA RelativeIs ==
    ASSUME LinkInv, NEW p \in Procs, pc[p] \in {"relate", "restore"}, NEW n \in todo[p], Sound(n)
    PROVE  LET t == cmd[p].task
               task == seen[p][t].doc
               rel == seen[p][n].doc
           IN
           /\ n \in Names /\ n # t /\ Sound(t) /\ cmd[p].kind = "archive"
           /\ IsFull(seen[p][n]) /\ rel \in Docs /\ HeldRelative(p, n)
           /\ n \in Relatives(task)
           /\ t \in rel.children <=> task.parent = n
           /\ rel.parent = t <=> n \in task.children
           /\ ~(task.parent = n /\ n \in task.children)
  <1> DEFINE t == cmd[p].task
  <1>1. /\ Shape /\ pc[p] \in ArchiveSteps \ {"archive"} /\ pc[p] \in ArchiveSteps
    BY DEF LinkInv, CycleInv, EditInv, HomeInv, ArchiveSteps
  <1>2. /\ Running(p) /\ cmd[p].kind = "archive" /\ n \in Names \ {t} /\ IsFull(seen[p][n])
        /\ seen[p] \in [Names -> Dirs]
    BY <1>1, Archived DEF Updates
  <1>3. n \in Hand(p)
    BY <1>1, <1>2, InItsHand
  <1>4. Sound(t) /\ Read(p, n) /\ Held(p, n)
    BY <1>2, <1>3 DEF LinkInv, Bound, CycleInv, Sound
  <1>5. seen[p][n].doc \in Docs
    BY <1>2, DirKinds
  <1> QED
    BY <1>1, <1>2, <1>4, <1>5 DEF Read, Held

\* Only a unit of the two and an archive of one of them change whether n lists
\* m.
LEMMA ChildMoves ==
    ASSUME LinkInv, NEW p \in Procs, Step(p), NEW n \in Names, Sound(n), n \notin Blur,
           n \notin torn', NEW m \in Names,
           \A q \in Pending : Advance(q) /\ ((Commit(p) /\ q = p) \/ (Recover(p) /\ q # p)) =>
               ~(unit[q].of = n /\ unit[q].task = m),
           cmd[p].kind = "archive" => cmd[p].task \notin {n, m}
    PROVE  Child(n, m)' <=> Child(n, m)
  <1>1. /\ EditInv /\ Shape /\ TypeOK /\ Held(p, n) /\ active[n] \in Dirs
        /\ seen \in [Procs -> [Names -> Dirs]]
    BY DEF LinkInv, CycleInv, EditInv, HomeInv, Shape, TypeOK, Sound
  <1>2. CASE Alike(active'[n], active[n])
    BY <1>2 DEF Alike, Child
  <1>3. ASSUME NEW q \in Pending, n \in {unit[q].task, unit[q].of}, Advance(q),
               (Commit(p) /\ q = p) \/ (Recover(p) /\ q # p)
        PROVE  Child(n, m)' <=> Child(n, m)
    <2> DEFINE u == unit[q]
    <2>1. /\ u.before[1] \in Docs /\ u.before[2] \in Docs
          /\ u.after[1] \in Docs /\ u.after[2] \in Docs
      BY <1>1, UnitIs
    <2>2. /\ u.after[2].children = u.before[2].children
          /\ u.after[1].children = IF cmd[q].kind = "unlink" THEN u.before[1].children \ {u.task}
                                   ELSE u.before[1].children \cup {u.task}
      BY <1>1, UnitEdges
    <2>3. n = u.of => u.task # m
      BY <1>3
    <2>4. \/ active'[n] = active[n]
          \/ /\ n = u.of /\ IsFull(active[n]) /\ active[n].doc = u.before[1]
             /\ active'[n] = Written(active[n], u.after[1])
          \/ /\ IsFull(active[n]) /\ active[n].doc = u.before[2]
             /\ active'[n] = Written(active[n], u.after[2])
          \/ /\ n = u.of /\ IsFull(active[n])
             /\ active[n].doc = [u.after[1] EXCEPT !.rev = u.before[1].rev + 1]
             /\ active'[n] = Written(active[n], u.before[1])
      BY <1>1, <1>3, AdvanceEdges DEF Sound
    <2>5. CASE active'[n] = active[n]
      BY <2>5 DEF Child
    <2>6. CASE /\ n = u.of /\ IsFull(active[n]) /\ active[n].doc = u.before[1]
               /\ active'[n] = Written(active[n], u.after[1])
      <3>1. ChildrenIn(active'[n]) = u.after[1].children
        BY <1>1, <2>1, <2>6, WrittenEdges
      <3> QED
        BY <2>2, <2>3, <2>6, <3>1 DEF Child, ChildrenIn
    <2>7. CASE /\ IsFull(active[n]) /\ active[n].doc = u.before[2]
               /\ active'[n] = Written(active[n], u.after[2])
      <3>1. ChildrenIn(active'[n]) = u.after[2].children
        BY <1>1, <2>1, <2>7, WrittenEdges
      <3> QED
        BY <2>2, <2>7, <3>1 DEF Child, ChildrenIn
    <2>8. CASE /\ n = u.of /\ IsFull(active[n])
               /\ active[n].doc = [u.after[1] EXCEPT !.rev = u.before[1].rev + 1]
               /\ active'[n] = Written(active[n], u.before[1])
      <3>1. ChildrenIn(active'[n]) = u.before[1].children
        BY <1>1, <2>1, <2>8, WrittenEdges
      <3>2. active[n].doc.children = u.after[1].children
        BY <2>1, <2>8 DEF Docs
      <3> QED
        BY <2>2, <2>3, <2>8, <3>1, <3>2 DEF Child, ChildrenIn
    <2> QED
      BY <2>4, <2>5, <2>6, <2>7, <2>8
  <1>4. CASE Relate(p) /\ n \in todo[p] /\ IsFull(active[n])
             /\ Alike(active'[n], Full(Parted(p, n, active[n].doc)))
    <2>1. pc[p] = "relate"
      BY <1>4 DEF Relate
    <2>2. /\ cmd[p].kind = "archive" /\ HeldRelative(p, n) /\ n # cmd[p].task
          /\ IsFull(seen[p][n]) /\ seen[p][n].doc \in Docs
      BY <1>4, <2>1, RelativeIs
    <2>3. active[n] = seen[p][n]
      BY <1>4, <2>1, <2>2 DEF HeldRelative
    <2>4. m \in Parted(p, n, active[n].doc).children <=> m \in active[n].doc.children
      BY <2>2, <2>3 DEF Parted, Docs
    <2> QED
      BY <1>4, <2>4, FullIs DEF Alike, Child, ChildrenIn
  <1>5. CASE Restore(p) /\ n \in todo[p] /\ Alike(active'[n], seen[p][n])
    <2>1. pc[p] = "restore"
      BY <1>5 DEF Restore
    <2>2. /\ cmd[p].kind = "archive" /\ HeldRelative(p, n) /\ n # cmd[p].task
          /\ IsFull(seen[p][n]) /\ seen[p][n].doc \in Docs
      BY <1>5, <2>1, RelativeIs
    <2>3. Alike(active[n], seen[p][n]) \/ Alike(active[n], PartedSeen(p, n))
      BY <1>5, <2>1, <2>2 DEF HeldRelative
    <2>4. m \in Parted(p, n, seen[p][n].doc).children <=> m \in seen[p][n].doc.children
      BY <2>2 DEF Parted, Docs
    <2> QED
      BY <1>5, <2>2, <2>3, <2>4, FullIs DEF Alike, Child, ChildrenIn, PartedSeen
  <1>6. Remove(p) \/ Back(p) \/ Rewrite(p) => cmd[p].kind = "archive"
    <2>1. Remove(p) \/ Back(p) \/ Rewrite(p) => pc[p] \in ArchiveSteps
      BY DEF Remove, Back, Rewrite, ArchiveSteps
    <2> QED
      BY <1>1, <2>1, Archived
  <1> QED
    BY <1>1, <1>2, <1>3, <1>4, <1>5, <1>6, EdgesMove DEF Sound

\* Likewise whether n is the parent of m.
LEMMA ParentChanges ==
    ASSUME LinkInv, NEW p \in Procs, Step(p), NEW m \in Names, Sound(m), m \notin Blur,
           m \notin torn', NEW n \in Names,
           \A q \in Pending : Advance(q) /\ ((Commit(p) /\ q = p) \/ (Recover(p) /\ q # p)) =>
               ~(unit[q].of = n /\ unit[q].task = m),
           cmd[p].kind = "archive" => cmd[p].task \notin {n, m}
    PROVE  Parent(m)' = n <=> Parent(m) = n
  <1>1. /\ EditInv /\ Shape /\ TypeOK /\ Held(p, m) /\ active[m] \in Dirs /\ n # None
        /\ seen \in [Procs -> [Names -> Dirs]]
    BY NamesAssumption DEF LinkInv, CycleInv, EditInv, HomeInv, Shape, TypeOK, Sound
  <1>2. CASE Alike(active'[m], active[m])
    BY <1>2 DEF Alike, Parent
  <1>3. ASSUME NEW q \in Pending, m \in {unit[q].task, unit[q].of}, Advance(q),
               (Commit(p) /\ q = p) \/ (Recover(p) /\ q # p)
        PROVE  Parent(m)' = n <=> Parent(m) = n
    <2> DEFINE u == unit[q]
    <2>1. /\ u.before[1] \in Docs /\ u.before[2] \in Docs
          /\ u.after[1] \in Docs /\ u.after[2] \in Docs
      BY <1>1, UnitIs
    <2>2. /\ u.task = cmd[q].task /\ u.of = cmd[q].of
          /\ u.after[1].parent = u.before[1].parent
          /\ u.after[2].parent = IF cmd[q].kind = "unlink" THEN None ELSE u.of
      BY <1>1, UnitEdges
    <2>3. u.before[2].parent \in {None, u.of}
      BY <1>1, <2>2, UnitIs DEF LinkInv, Meant, Apart
    <2>4. m = u.task => u.of # n
      BY <1>3
    <2>5. \/ active'[m] = active[m]
          \/ /\ IsFull(active[m]) /\ active[m].doc = u.before[1]
             /\ active'[m] = Written(active[m], u.after[1])
          \/ /\ m = u.task /\ IsFull(active[m]) /\ active[m].doc = u.before[2]
             /\ active'[m] = Written(active[m], u.after[2])
          \/ /\ IsFull(active[m])
             /\ active[m].doc = [u.after[1] EXCEPT !.rev = u.before[1].rev + 1]
             /\ active'[m] = Written(active[m], u.before[1])
      BY <1>1, <1>3, AdvanceEdges DEF Sound
    <2>6. CASE active'[m] = active[m]
      BY <2>6 DEF Parent
    <2>7. CASE /\ IsFull(active[m]) /\ active[m].doc = u.before[1]
               /\ active'[m] = Written(active[m], u.after[1])
      <3>1. ParentIn(active'[m]) = u.after[1].parent
        BY <1>1, <2>1, <2>7, WrittenEdges
      <3> QED
        BY <2>2, <2>7, <3>1 DEF Parent, ParentIn
    <2>8. CASE /\ m = u.task /\ IsFull(active[m]) /\ active[m].doc = u.before[2]
               /\ active'[m] = Written(active[m], u.after[2])
      <3>1. ParentIn(active'[m]) = u.after[2].parent
        BY <1>1, <2>1, <2>8, WrittenEdges
      <3> QED
        BY <1>1, <2>2, <2>3, <2>4, <2>8, <3>1 DEF Parent, ParentIn
    <2>9. CASE /\ IsFull(active[m])
               /\ active[m].doc = [u.after[1] EXCEPT !.rev = u.before[1].rev + 1]
               /\ active'[m] = Written(active[m], u.before[1])
      <3>1. ParentIn(active'[m]) = u.before[1].parent
        BY <1>1, <2>1, <2>9, WrittenEdges
      <3>2. active[m].doc.parent = u.after[1].parent
        BY <2>1, <2>9 DEF Docs
      <3> QED
        BY <2>2, <2>9, <3>1, <3>2 DEF Parent, ParentIn
    <2> QED
      BY <2>5, <2>6, <2>7, <2>8, <2>9
  <1>4. CASE Relate(p) /\ m \in todo[p] /\ IsFull(active[m])
             /\ Alike(active'[m], Full(Parted(p, m, active[m].doc)))
    <2> DEFINE t == cmd[p].task
               task == seen[p][t].doc
    <2>1. pc[p] = "relate"
      BY <1>4 DEF Relate
    <2>2. /\ cmd[p].kind = "archive" /\ HeldRelative(p, m) /\ m # t
          /\ IsFull(seen[p][m]) /\ seen[p][m].doc \in Docs
          /\ m \in Relatives(task) /\ (seen[p][m].doc.parent = t <=> m \in task.children)
      BY <1>4, <2>1, RelativeIs
    <2>3. active[m] = seen[p][m]
      BY <1>4, <2>1, <2>2 DEF HeldRelative
    <2>4. Parted(p, m, active[m].doc).parent = n <=> active[m].doc.parent = n
      <3>1. CASE task.parent = m
        BY <2>2, <2>3, <3>1 DEF Parted, Docs
      <3>2. CASE task.parent # m
        <4>1. active[m].doc.parent = t /\ n # t
          BY <2>2, <2>3, <3>2 DEF Relatives
        <4>2. Parted(p, m, active[m].doc).parent = None
          BY <2>2, <2>3, <3>2 DEF Parted, Docs
        <4> QED
          BY <1>1, <4>1, <4>2
      <3> QED
        BY <3>1, <3>2
    <2> QED
      BY <1>4, <2>4, FullIs DEF Alike, Parent, ParentIn
  <1>5. CASE Restore(p) /\ m \in todo[p] /\ Alike(active'[m], seen[p][m])
    <2> DEFINE t == cmd[p].task
               task == seen[p][t].doc
    <2>1. pc[p] = "restore"
      BY <1>5 DEF Restore
    <2>2. /\ cmd[p].kind = "archive" /\ HeldRelative(p, m) /\ m # t
          /\ IsFull(seen[p][m]) /\ seen[p][m].doc \in Docs
          /\ m \in Relatives(task) /\ (seen[p][m].doc.parent = t <=> m \in task.children)
      BY <1>5, <2>1, RelativeIs
    <2>3. Alike(active[m], seen[p][m]) \/ Alike(active[m], PartedSeen(p, m))
      BY <1>5, <2>1, <2>2 DEF HeldRelative
    <2>4. Parted(p, m, seen[p][m].doc).parent = n <=> seen[p][m].doc.parent = n
      <3>1. CASE task.parent = m
        BY <2>2, <3>1 DEF Parted, Docs
      <3>2. CASE task.parent # m
        <4>1. seen[p][m].doc.parent = t /\ n # t
          BY <2>2, <3>2 DEF Relatives
        <4>2. Parted(p, m, seen[p][m].doc).parent = None
          BY <2>2, <3>2 DEF Parted, Docs
        <4> QED
          BY <1>1, <4>1, <4>2
      <3> QED
        BY <3>1, <3>2
    <2> QED
      BY <1>5, <2>2, <2>3, <2>4, FullIs DEF Alike, Parent, ParentIn, PartedSeen
  <1>6. Remove(p) \/ Back(p) \/ Rewrite(p) => cmd[p].kind = "archive"
    <2>1. Remove(p) \/ Back(p) \/ Rewrite(p) => pc[p] \in ArchiveSteps
      BY DEF Remove, Back, Rewrite, ArchiveSteps
    <2> QED
      BY <1>1, <2>1, Archived
  <1> QED
    BY <1>1, <1>2, <1>3, <1>4, <1>5, <1>6, EdgesMove DEF Sound

-----------------------------------------------------------------------------
(* Links agree: what an archive has read.                                  *)

\* The archive that makes a step runs.
LEMMA KindRuns ==
    ASSUME Shape, NEW p \in Procs, Step(p), cmd[p].kind = "archive"
    PROVE  /\ Running(p) /\ p \notin Pending /\ cmd[p].task \in Hand(p) /\ cmd[p].task \in Names
           /\ pc[p] \in ArchiveSteps
  <1>1. pc[p] # "idle" /\ pc[p] \in Places /\ TypeOK
    BY DEF Shape, Fits, NoCommand, TypeOK
  <1>2. pc[p] # "dead"
    BY DEF Step, Link, Archive, Create, Start, LoadParent, LoadChild, Walk, List, Recover, Prepare,
           Commit, Committed, EditLoad, Save, ArchiveLoad, ReadRelative, Copy, Compare, Remove,
           Mark, Relate, Files, Restore, Back, Rewrite, CreateCheck, Mkdir, WriteTask, Anchor,
           TakeBack, Crash, Running
  <1>3. pc[p] \in ArchiveSteps
    BY <1>1, <1>2 DEF Shape, Fits, Places
  <1> QED
    BY <1>3, Archived



\* What an archive has in hand, no other command has.
LEMMA Sole ==
    ASSUME Shape, NEW p \in Procs, cmd[p].kind = "archive", NEW n \in Names, n \in Hand(p),
           n \notin Blur, NEW q \in Procs \ {p}
    PROVE  n \notin Hand(q) /\ (q \in Pending => n \notin {unit[q].task, unit[q].of})
  BY DEF Blur, Holds

LEMMA GoneIs ==
    ASSUME HomeInv, NEW n \in Names, Sound(n), NEW p \in Procs, Empty(p), cmd[p].task = n
    PROVE  /\ active[n] = Absent /\ Parent(n) = None /\ \A m : ~Child(n, m)
           /\ pc[p] \in ArchiveSteps \ {"archive"} /\ pc[p] \in ArchiveSteps
           /\ cmd[p].kind = "archive" /\ n \in Hand(p)
  <1>1. pc[p] \in ArchiveSteps \ {"archive"} /\ pc[p] \in ArchiveSteps /\ Shape
    BY DEF Empty, ArchiveSteps, HomeInv
  <1>2. Running(p) /\ cmd[p].kind = "archive" /\ n \in Hand(p)
    BY <1>1, Archived
  <1>3. active[n] = Absent
    BY <1>2 DEF HomeInv, Homed, Own, Placed, Empty, Sound
  <1>4. ~IsFull(Absent)
    BY DEF IsFull, Absent
  <1> QED
    BY <1>1, <1>2, <1>3, <1>4 DEF Parent, Child, ParentIn, ChildrenIn

\* No unit is about to link what an archive has in hand.
LEMMA NotOpen ==
    ASSUME Shape, NEW p \in Procs, cmd[p].kind = "archive", NEW n \in Names, n \in Hand(p),
           n \notin Blur, pc[p] \in ArchiveSteps, NEW m
    PROVE  ~Open(n, m) /\ ~Open(m, n)
  <1>1. p \notin Pending
    BY Archived
  <1> QED
    BY <1>1, Sole DEF Open, Half

\* An archive of r that has not read n has no relation of r and n to restore.
LEMMA Unrelated ==
    ASSUME LinkInv, NEW p \in Procs, pc[p] \in ArchiveSteps \ {"archive", "relatives"},
           NEW r \in Names, cmd[p].task = r, Sound(r), NEW n \in Names, Sound(n), n \notin Hand(p)
    PROVE  n \notin Relatives(seen[p][r].doc)
  <1>1. Shape /\ Read(p, n) /\ pc[p] \in ArchiveSteps \ {"archive"}
    BY DEF LinkInv, CycleInv, EditInv, HomeInv
  <1>2. ~IsFull(seen[p][n])
    BY <1>1, Archived, InItsHand
  <1> QED
    BY <1>1, <1>2 DEF Read

\* A task that an archive has not read gets no relation to the task of the
\* archive while it is away.
LEMMA StaysUnrelated ==
    ASSUME LinkInv, NEW p \in Procs, Step(p), NEW a \in Procs \ {p},
           NEW t \in Names, cmd[a].task = t, Empty(a), Sound(t), t \notin Blur, t \notin torn',
           NEW r \in Names \ {t}, Sound(r), r \notin Blur, r \notin torn', ~IsFull(seen[a][r])
    PROVE  ~Child(r, t)' /\ Parent(r)' # t
  <1>1. /\ EditInv /\ HomeInv /\ Shape /\ TypeOK /\ active[r] \in Dirs /\ t # None
    BY NamesAssumption DEF LinkInv, CycleInv, EditInv, HomeInv, Shape, TypeOK
  <1>2. /\ cmd[a].kind = "archive" /\ t \in Hand(a) /\ pc[a] \in ArchiveSteps
        /\ pc[a] \in ArchiveSteps \ {"archive"} /\ a \notin Pending
    BY <1>1, GoneIs, Archived
  <1>3. ~Child(r, t) /\ Parent(r) # t
    BY <1>2 DEF LinkInv, Read
  <1>4. \A q \in Pending : t \notin {unit[q].task, unit[q].of}
    BY <1>1, <1>2, Sole DEF Pending
  <1>5. t \notin Hand(p)
    BY <1>1, <1>2, Sole
  <1>6. CASE cmd[p].kind = "archive" => cmd[p].task # r
    <2>1. cmd[p].kind = "archive" => cmd[p].task # t
      BY <1>1, <1>5, KindRuns
    <2> QED
      BY <1>3, <1>4, <1>6, <2>1, ChildMoves, ParentChanges
  <1>7. CASE cmd[p].kind = "archive" /\ cmd[p].task = r
    <2>1. CASE Alike(active'[r], active[r])
      BY <1>3, <2>1 DEF Alike, Parent, Child
    <2>2. CASE active'[r] = Absent
      BY <1>1, <2>2 DEF Parent, Child, ParentIn, ChildrenIn, IsFull, Absent
    <2>3. CASE Alike(active'[r], seen[p][r]) /\ pc[p] \in ArchiveSteps \ {"archive", "relatives"}
      <3>1. t \notin Relatives(seen[p][r].doc)
        BY <1>5, <1>7, <2>3, Unrelated
      <3> QED
        BY <1>1, <2>3, <3>1 DEF Alike, Parent, Child, ParentIn, ChildrenIn, Relatives
    <2>4. ASSUME NEW q \in Pending, r \in {unit[q].task, unit[q].of} PROVE FALSE
      <3>1. r \in Hand(p) /\ p \notin Pending
        BY <1>1, <1>7, KindRuns
      <3> QED
        BY <1>1, <1>7, <2>4, <3>1, Sole DEF Pending
    <2>5. (Relate(p) \/ Restore(p)) /\ r \in todo[p] => FALSE
      BY <1>7, RelativeIs DEF Relate, Restore
    <2>6. Back(p) /\ active'[r] = stored[r] =>
              Alike(active'[r], seen[p][r]) /\ pc[p] \in ArchiveSteps \ {"archive", "relatives"}
      <3>1. Back(p) => pc[p] = "back" /\ pc[p] \in ArchiveSteps \ {"archive", "relatives"}
        BY DEF Back, ArchiveSteps
      <3>2. Held(p, r)
        BY DEF LinkInv, CycleInv, Sound
      <3> QED
        BY <1>7, <3>1, <3>2 DEF Held, HeldTask
    <2>7. Rewrite(p) => pc[p] \in ArchiveSteps \ {"archive", "relatives"}
      BY DEF Rewrite, ArchiveSteps
    <2> QED
      BY <1>1, <2>1, <2>2, <2>3, <2>4, <2>5, <2>6, <2>7, EdgesMove DEF Sound
  <1> QED
    BY <1>6, <1>7

LEMMA OthersRead ==
    ASSUME LinkInv, Next, NEW p \in Procs, Step(p), NEW a \in Procs \ {p},
           NEW r \in Names, Sound(r)'
    PROVE  Read(a, r)'
  <1>1. PICK t : t = cmd[a].task
    OBVIOUS
  <1>2. Shape /\ Same(a)
    BY Others DEF LinkInv, CycleInv, EditInv, HomeInv
  <1>3. SUFFICES ASSUME pc[a] \in ArchiveSteps \ {"archive"}, Sound(t)' PROVE Read(a, r)'
    BY <1>1, <1>2 DEF Read, Same
  <1>4. /\ Sound(r) /\ r \notin Blur /\ r \notin torn'
        /\ Sound(t) /\ t \notin Blur /\ t \notin torn' /\ t \in Names
    BY <1>1, <1>2, <1>3, SoundBefore, Archived DEF Sound, Clear
  <1>5. Read(a, r)
    BY <1>4 DEF LinkInv
  <1>6. ASSUME Empty(a), r # t, ~IsFull(seen[a][r]) PROVE ~Child(r, t)' /\ Parent(r)' # t
    BY <1>1, <1>4, <1>6, StaysUnrelated
  <1> QED
    BY <1>1, <1>2, <1>3, <1>4, <1>5, <1>6 DEF Read, Same, Empty

\* What an archive that has its task before it reads of a relative.
LEMMA ReadsRelative ==
    ASSUME LinkInv, NEW p \in Procs, pc[p] \in {"relatives", "copy", "compare", "remove"},
           NEW t \in Names, cmd[p].task = t, Sound(t), t \notin Blur,
           NEW r \in Names \ {t}, Sound(r)
    PROVE  /\ IsFull(active[t]) /\ active[t] = seen[p][t]
           /\ Child(r, t) => Parent(t) = r
           /\ Parent(r) = t => Child(t, r)
           /\ r \in Relatives(seen[p][t].doc) =>
                 /\ IsFull(active[r])
                 /\ t \in active[r].doc.children <=> seen[p][t].doc.parent = r
                 /\ active[r].doc.parent = t <=> r \in seen[p][t].doc.children
                 /\ ~(seen[p][t].doc.parent = r /\ r \in seen[p][t].doc.children)
  <1>1. /\ HomeInv /\ Shape /\ pc[p] \in ArchiveSteps /\ pc[p] # "archive"
        /\ Paired(t, r) /\ Paired(r, t) /\ t # None /\ r # None
    BY NamesAssumption DEF LinkInv, CycleInv, EditInv, HomeInv, ArchiveSteps
  <1>2. /\ Running(p) /\ cmd[p].kind = "archive" /\ t \in Hand(p) /\ IsFull(seen[p][t])
    BY <1>1, Archived
  <1>3. active[t] = seen[p][t]
    BY <1>2 DEF LinkInv, CycleInv, EditInv, HomeInv, Homed, Own, Placed, Sound
  <1>4. ~IsFull(Absent)
    BY DEF IsFull, Absent
  <1>5. ~Gone(t)
    BY <1>1, <1>2, <1>3, <1>4, GoneIs DEF Gone
  <1>6. ~Open(t, r) /\ ~Open(r, t)
    BY <1>1, <1>2, NotOpen
  <1>7. Gone(r) => active[r] = Absent /\ ~Child(t, r) /\ Parent(t) # r
    <2>1. SUFFICES ASSUME NEW g \in Procs, Empty(g), cmd[g].task = r
                   PROVE  active[r] = Absent /\ ~Child(t, r) /\ Parent(t) # r
      BY DEF Gone
    <2>2. /\ active[r] = Absent /\ cmd[g].kind = "archive" /\ pc[g] \in ArchiveSteps \ {"archive"}
          /\ pc[g] \in ArchiveSteps
      BY <1>1, <2>1, GoneIs
    <2>3. g # p /\ t \notin Hand(g)
      BY <1>1, <1>2, <2>1, Sole
    <2>4. ~IsFull(seen[g][t])
      BY <1>1, <2>2, <2>3, Archived, InItsHand
    <2>5. Read(g, t)
      BY DEF LinkInv
    <2> QED
      BY <2>1, <2>2, <2>4, <2>5 DEF Read
  <1>8. ~IsFull(active[r]) => ~Child(t, r) /\ Parent(t) # r
    <2>1. ~IsFull(active[r]) => Parent(r) = None /\ ~Child(r, t)
      BY DEF Parent, Child, ParentIn, ChildrenIn
    <2> QED
      BY <1>1, <1>5, <1>6, <1>7, <2>1 DEF Paired
  <1>9. /\ Child(t, r) <=> r \in seen[p][t].doc.children
        /\ Parent(t) = seen[p][t].doc.parent
    BY <1>2, <1>3 DEF Child, Parent, ParentIn, ChildrenIn
  <1>10. IsFull(active[r]) =>
             /\ ~Gone(r) /\ (Child(r, t) <=> t \in active[r].doc.children)
             /\ Parent(r) = active[r].doc.parent
    BY <1>4, <1>7 DEF Child, Parent, ParentIn, ChildrenIn
  <1>11. ~Gone(r) => (Child(t, r) <=> Parent(r) = t) /\ (Child(r, t) <=> Parent(t) = r)
    BY <1>1, <1>5, <1>6 DEF Paired
  <1>12. Gone(r) => ~Child(r, t) /\ Parent(r) # t
    BY <1>1, <1>4, <1>7 DEF Child, Parent, ParentIn, ChildrenIn
  <1>13. ~(Parent(t) = r /\ Parent(r) = t)
    BY <1>1 DEF Paired
  <1> QED
    BY <1>2, <1>3, <1>8, <1>9, <1>10, <1>11, <1>12, <1>13 DEF Relatives

LEMMA OwnRead ==
    ASSUME LinkInv, Next, NEW p \in Procs, Step(p), NEW r \in Names, Sound(r)'
    PROVE  Read(p, r)'
  <1>1. PICK t : t = cmd[p].task
    OBVIOUS
  <1>2. /\ HomeInv /\ Shape /\ TypeOK /\ pc \in [Procs -> Places] /\ Sound(r)
        /\ seen \in [Procs -> [Names -> Dirs]] /\ todo \in [Procs -> SUBSET Names]
        /\ active \in [Names -> Dirs]
    BY SoundBefore DEF LinkInv, CycleInv, EditInv, HomeInv, Shape, TypeOK
  <1>3. SUFFICES ASSUME pc'[p] \in ArchiveSteps \ {"archive"}, cmd'[p].task \notin blurred' \cup torn' \cup stale'
                 PROVE  Read(p, r)'
    BY DEF Read, Sound, Clear
  <1>4. Archive(p) /\ ~Return(p)
    BY <1>2, <1>3, ArchiveOnly, ReturnIs DEF ArchiveSteps
  <1>5. pc[p] \in ArchiveSteps /\ cmd'[p] = cmd[p]
    BY <1>4 DEF Archive, ArchiveLoad, ReadRelative, Copy, Compare, Remove, Mark, Relate, Files,
                Restore, Back, Rewrite, ArchiveSteps, memory
  <1>6. Sound(t) /\ t \notin Blur /\ t \in Names
    <2>1. t \in Names /\ Sound(t)'
      BY <1>1, <1>2, <1>3, <1>5, Archived DEF Sound, Clear
    <2> QED
      BY <1>2, <2>1, SoundBefore
  <1>7. Read(p, r) /\ Read(p, t)
    BY <1>2, <1>6 DEF LinkInv
  <1>8. CASE ArchiveLoad(p)
    <2>1. /\ pc[p] = "archive" /\ Saw(p, t) /\ IsFull(active[t])
          /\ todo' = [todo EXCEPT ![p] = Relatives(active[t].doc)] /\ Goto(p, "relatives")
      BY <1>1, <1>4, <1>8 DEF ArchiveLoad
    <2>2. /\ seen'[p][t] = active[t] /\ todo'[p] = Relatives(active[t].doc)
          /\ pc'[p] = "relatives"
      BY <1>2, <1>6, <2>1, SawIs DEF Goto
    <2>3. r # t => ~IsFull(seen'[p][r])
      <3>1. seen[p][r] = Absent
        BY <2>1 DEF LinkInv, CycleInv, EditInv, HomeInv, Shape, Fits
      <3>2. ~IsFull(Absent)
        BY DEF IsFull, Absent
      <3> QED
        BY <1>2, <1>6, <2>1, <3>1, <3>2, SawIs
    <2>4. t \notin Relatives(active[t].doc)
      <3>1. Paired(t, t)
        BY <1>6 DEF LinkInv
      <3> QED
        BY <2>1, <3>1 DEF Paired, Child, Parent, ParentIn, ChildrenIn, Relatives
    <2> QED
      BY <1>1, <1>5, <2>2, <2>3, <2>4 DEF Read, Empty
  <1>9. CASE ReadRelative(p)
    <2>1. pc[p] = "relatives"
      BY <1>9 DEF ReadRelative
    <2>2. CASE todo[p] = {} /\ Goto(p, "copy") /\ UNCHANGED <<seen, todo>>
      <3>1. pc'[p] = "copy"
        BY <1>2, <2>2 DEF Goto
      <3> QED
        BY <1>1, <1>5, <1>6, <1>7, <2>1, <2>2, <3>1 DEF Read, ArchiveSteps, Empty
    <2>3. ASSUME NEW s \in todo[p], IF IsFull(active[s]) THEN Saw(p, s) ELSE UNCHANGED seen,
                 todo' = [todo EXCEPT ![p] = @ \ {s}], UNCHANGED pc
          PROVE  Read(p, r)'
      <3>1. s # t /\ s \in Names
        BY <1>1, <1>2, <1>6, <1>7, <2>1, <2>3 DEF Read, ArchiveSteps
      <3>2. seen'[p][t] = seen[p][t] /\ todo'[p] = todo[p] \ {s} /\ pc'[p] = "relatives"
        BY <1>2, <1>6, <2>1, <2>3, <3>1, SawIs
      <3>3. CASE r # s
        <4>1. seen'[p][r] = seen[p][r]
          BY <1>2, <2>3, <3>1, <3>3, SawIs
        <4> QED
          BY <1>1, <1>5, <1>6, <1>7, <2>1, <3>2, <3>3, <4>1 DEF Read, ArchiveSteps, Empty
      <3>4. CASE r = s
        <4>1. r \in Relatives(seen[p][t].doc)
          BY <1>1, <1>6, <1>7, <2>1, <2>3, <3>4 DEF Read, ArchiveSteps
        <4>2. /\ IsFull(active[r])
              /\ t \in active[r].doc.children <=> seen[p][t].doc.parent = r
              /\ active[r].doc.parent = t <=> r \in seen[p][t].doc.children
              /\ ~(seen[p][t].doc.parent = r /\ r \in seen[p][t].doc.children)
          BY <1>1, <1>2, <1>6, <2>1, <3>1, <3>4, <4>1, ReadsRelative
        <4>3. seen'[p][r] = active[r]
          BY <1>2, <2>3, <3>4, <4>2, SawIs
        <4> QED
          BY <1>1, <1>5, <3>1, <3>2, <3>4, <4>1, <4>2, <4>3 DEF Read, Empty
      <3> QED
        BY <3>3, <3>4
    <2> QED
      BY <1>9, <2>2, <2>3 DEF ReadRelative
  <1>10. CASE Copy(p) \/ Compare(p)
    <2>1. /\ UNCHANGED seen /\ pc[p] \in {"copy", "compare"}
          /\ pc'[p] \in {"compare", "remove"}
      BY <1>2, <1>4, <1>10 DEF Copy, Compare, Goto, memory
    <2> QED
      BY <1>1, <1>5, <1>6, <1>7, <2>1 DEF Read, ArchiveSteps, Empty
  <1>11. CASE Remove(p)
    <2>1. /\ pc[p] = "remove" /\ active' = [active EXCEPT ![t] = Absent] /\ UNCHANGED seen
          /\ pc'[p] = "mark"
      BY <1>1, <1>2, <1>4, <1>11 DEF Remove, Goto, memory
    <2>2. ASSUME r # t, ~IsFull(seen[p][r]) PROVE ~Child(r, t)' /\ Parent(r)' # t
      <3>1. r \notin Relatives(seen[p][t].doc)
        BY <1>1, <1>6, <1>7, <2>1, <2>2 DEF Read, ArchiveSteps
      <3>2. IsFull(active[t]) /\ active[t] = seen[p][t] /\ t # None /\ r # None
        BY <1>1, <1>2, <1>6, <2>1, <2>2, ReadsRelative, NamesAssumption
      <3>3. Parent(t) # r /\ ~Child(t, r)
        BY <3>1, <3>2 DEF Relatives, Parent, Child, ParentIn, ChildrenIn
      <3>4. ~Child(r, t) /\ Parent(r) # t
        BY <1>1, <1>2, <1>6, <2>1, <2>2, <3>3, ReadsRelative
      <3>5. active'[r] = active[r]
        BY <1>2, <2>1, <2>2
      <3> QED
        BY <3>4, <3>5 DEF Child, Parent
    <2> QED
      BY <1>1, <1>5, <1>6, <1>7, <2>1, <2>2 DEF Read, ArchiveSteps, Empty
  <1>12. CASE Mark(p)
    <2>1. /\ pc[p] = "mark" /\ UNCHANGED <<active, seen>> /\ pc'[p] # "relatives"
      BY <1>2, <1>12 DEF Mark, Goto
    <2> QED
      BY <1>1, <1>5, <1>6, <1>7, <2>1 DEF Read, ArchiveSteps, Empty, Child, Parent
  <1>13. CASE Relate(p) \/ Files(p) \/ Restore(p)
    <2>1. /\ pc[p] \in {"relate", "files", "restore"} /\ UNCHANGED seen
          /\ pc'[p] # "relatives"
      BY <1>2, <1>4, <1>13 DEF Relate, Files, Restore, Goto
    <2>2. ~IsFull(seen[p][r]) => active'[r] = active[r]
      <3>1. CASE Files(p)
        BY <3>1 DEF Files, tree
      <3>2. CASE Relate(p) \/ Restore(p)
        <4>1. ~IsFull(seen[p][r]) => r \notin todo[p]
          BY <1>2, <1>5, <3>2, Archived DEF Updates, Relate, Restore
        <4> QED
          BY <1>2, <3>2, <4>1 DEF Relate, Restore
      <3> QED
        BY <1>13, <3>1, <3>2
    <2> QED
      BY <1>1, <1>5, <1>6, <1>7, <2>1, <2>2 DEF Read, ArchiveSteps, Empty, Child, Parent
  <1>14. CASE Back(p)
    <2>1. pc[p] = "back" /\ UNCHANGED seen /\ pc'[p] = "rewrite"
      BY <1>2, <1>14 DEF Back, Goto, memory
    <2> QED
      BY <1>1, <1>5, <1>6, <1>7, <2>1 DEF Read, ArchiveSteps, Empty
  <1>15. ~Rewrite(p)
    BY <1>4 DEF Rewrite
  <1> QED
    BY <1>4, <1>8, <1>9, <1>10, <1>11, <1>12, <1>13, <1>14, <1>15 DEF Archive


-----------------------------------------------------------------------------
(* Links agree: a unit between its writes.                                 *)

\* The step of p writes for the unit of q.
Takes(p, q) == Advance(q) /\ ((Commit(p) /\ q = p) \/ (Recover(p) /\ q # p))

LEMMA SettleMoves ==
    ASSUME Shape, NEW p \in Procs, Step(p), NEW r \in Procs, pc'[r] = "settle"
    PROVE  \/ r = p /\ List(p)
           \/ /\ pc[r] = "settle" /\ queue'[r] = queue[r] /\ cmd'[r] = cmd[r]
              /\ seen'[r] = seen[r]
  <1>1. CASE r # p
    BY <1>1, Others DEF Same
  <1>2. CASE r = p
    <2>1. TypeOK /\ pc \in [Procs -> Places] /\ Working(p)'
      BY <1>2 DEF Shape, TypeOK, Working
    <2>2. ~LoadChild(p)
      BY <1>2, <2>1, LoadChildIs
    <2>3. ~Return(p)
      BY <1>2, <2>1, ReturnIs
    <2>4. ~Walk(p)
      BY <1>2, <2>1, <2>3 DEF Walk, Refuse, Goto
    <2>5. Recover(p) => pc[p] = "settle" /\ UNCHANGED memory
      BY DEF Recover
    <2> QED
      BY <1>2, <2>2, <2>4, <2>5, VisitOnly DEF memory
  <1> QED
    BY <1>1, <1>2

\* The parent of a unit between its writes is newer than what the unit found.
LEMMA HalfIs ==
    ASSUME LinkInv, NEW q \in Procs, Half(q), Sound(unit[q].of)
    PROVE  LET u == unit[q] IN
           /\ u.of \in Names /\ u.task \in Names /\ u.of # None
           /\ u.task = cmd[q].task /\ u.of = cmd[q].of
           /\ cmd[q].kind # "unlink" => u.of # u.task
           /\ u.before[1].rev \in Nat /\ active[u.of].doc.rev \in Nat
           /\ IsFull(active[u.of]) /\ u.before[1].rev < active[u.of].doc.rev
           /\ u.before[1].rev + 1 = active[u.of].doc.rev =>
                 active[u.of].doc = [u.after[1] EXCEPT !.rev = u.before[1].rev + 1]
           /\ Joins(q) /\ \A r \in Procs \ {q} : Ahead(q, r)
  <1> DEFINE u == unit[q]
  <1>1. /\ EditInv /\ Shape /\ TypeOK /\ Meant(q) /\ q \in Pending /\ u.phase = "half"
    BY DEF LinkInv, CycleInv, EditInv, HomeInv, Shape, Half
  <1>2. /\ u.of \in Names /\ u.task \in Names /\ u.before[1] \in Docs
    BY <1>1, UnitIs
  <1>3. u.task = cmd[q].task /\ u.of = cmd[q].of
    BY <1>1, UnitEdges
  <1>4. cmd[q].kind # "unlink" => u.of # u.task
    BY <1>1, <1>3 DEF Meant, Apart
  <1>5. UnitKept(u, u.of) /\ IsFull(active[u.of])
    <2>1. Homed(u.of) /\ Kept(u.of)
      BY <1>1, <1>2 DEF EditInv, HomeInv, Sound
    <2> QED
      BY <1>1, <2>1 DEF Homed, Kept, Own, Recalls
  <1>6. active[u.of].doc \in Docs
    BY <1>1, <1>2, <1>5, DirKinds DEF TypeOK
  <1>7. Joins(q) /\ \A r \in Procs \ {q} : Ahead(q, r)
    BY DEF LinkInv
  <1> QED
    BY <1>1, <1>2, <1>3, <1>4, <1>5, <1>6, <1>7, NamesAssumption DEF UnitKept, Docs

\* No other unit writes over it.
LEMMA Behind ==
    ASSUME LinkInv, NEW q \in Procs, Half(q), Sound(unit[q].of), unit[q].of \notin torn',
           NEW r \in Pending, r # q, Advance(r)
    PROVE  active'[unit[q].of] = active[unit[q].of]
  <1> DEFINE u == unit[q]
  <1>1. /\ EditInv /\ Shape /\ TypeOK /\ r \in Procs
        /\ u.of \in Names /\ u.before[1].rev \in Nat /\ active[u.of].doc.rev \in Nat
        /\ IsFull(active[u.of]) /\ u.before[1].rev < active[u.of].doc.rev /\ Ahead(q, r)
    BY HalfIs DEF LinkInv, CycleInv, EditInv, HomeInv, Shape, Pending
  <1>2. unit[r].before[1].rev \in Nat /\ unit[r].before[2].rev \in Nat
    BY <1>1, UnitIs DEF Docs
  <1>3. RollsBack(r) => Half(r)
    BY DEF RollsBack, Half
  <1>4. /\ unit[r].of = u.of => unit[r].before[1].rev <= u.before[1].rev
        /\ unit[r].task = u.of => unit[r].before[2].rev <= u.before[1].rev
        /\ Half(r) => unit[r].of # u.of
    BY <1>1 DEF Ahead
  <1>5. /\ ~(u.of = unit[r].of /\ active[u.of].doc = unit[r].before[1])
        /\ ~(u.of = unit[r].task /\ active[u.of].doc = unit[r].before[2])
        /\ ~(u.of = unit[r].of /\ RollsBack(r))
    BY <1>1, <1>2, <1>3, <1>4
  <1> HIDE DEF u
  <1>6. Sound(u.of) /\ u.of \notin torn'
    BY DEF u
  <1>7. active'[u.of] = active[u.of]
    BY <1>1, <1>5, <1>6, AdvanceEdges DEF Sound
  <1> QED
    BY <1>7 DEF u

\* No archive has a task of a pending unit in hand.
LEMMA NoArchive ==
    ASSUME Shape, NEW p \in Procs, Step(p), NEW q \in Pending, NEW n \in Names, n \notin Blur,
           n \in {unit[q].task, unit[q].of}, cmd[p].kind = "archive"
    PROVE  cmd[p].task # n
  <1>1. p \notin Pending /\ cmd[p].task \in Hand(p)
    BY KindRuns
  <1> QED
    BY <1>1, Sole DEF Pending

\* What a unit has made of its two tasks stays until its next write.
LEMMA JoinsStay ==
    ASSUME LinkInv, Next, NEW p \in Procs, Step(p), NEW q \in Procs, Half(q), unit'[q] = unit[q],
           cmd'[q] = cmd[q], Sound(unit[q].of)'
    PROVE  Joins(q)'
  <1>1. PICK u : u = unit[q]
    OBVIOUS
  <1>2. SUFFICES ASSUME Sound(u.task)' PROVE Joins(q)'
    BY <1>1 DEF Joins, Sound, Clear
  <1>3. Sound(u.of)'
    BY <1>1 DEF Sound, Clear
  <1>4. EditInv /\ CycleInv /\ Shape /\ TypeOK /\ q \in Pending /\ u.phase = "half"
    BY <1>1 DEF LinkInv, CycleInv, EditInv, HomeInv, Shape, Half
  <1>5. /\ Sound(u.of) /\ u.of \notin Blur /\ u.of \notin torn'
        /\ Sound(u.task) /\ u.task \notin Blur /\ u.task \notin torn'
    BY <1>2, <1>3, <1>4, SoundBefore DEF Sound, Clear
  <1>6. /\ u.of \in Names /\ u.task \in Names /\ u.of # None
        /\ u.task = cmd[q].task /\ u.of = cmd[q].of
        /\ cmd[q].kind # "unlink" => u.of # u.task
        /\ u.before[1].rev \in Nat /\ active[u.of].doc.rev \in Nat
        /\ IsFull(active[u.of]) /\ u.before[1].rev < active[u.of].doc.rev
        /\ Joins(q) /\ \A r \in Procs \ {q} : Ahead(q, r)
    BY <1>1, <1>5, HalfIs
  <1>7. ASSUME NEW r \in Pending, Advance(r) PROVE r # q
    BY <1>1, <1>3, <1>4, <1>5, <1>6, <1>7, AdvanceEdges
       DEF FirstWrites, SecondWrites, RollsBack, Refused, Sound
  <1>8. ASSUME NEW r \in Pending, Advance(r) PROVE active'[u.of] = active[u.of]
    BY <1>1, <1>5, <1>7, <1>8, Behind
  <1>9. ASSUME NEW r \in Pending, Advance(r), unit[r].of = u.of, unit[r].task = u.task
        PROVE  active'[u.task] = active[u.task]
    <2>1. r \in Procs /\ ~Half(r)
      BY <1>1, <1>6, <1>7, <1>9 DEF Ahead, Pending
    <2>2. ~SecondWrites(r) /\ ~RollsBack(r)
      BY <1>9, <2>1 DEF SecondWrites, RollsBack, Half
    <2>3. CASE u.task = u.of
      BY <1>8, <1>9, <2>3
    <2>4. CASE u.task # u.of
      BY <1>4, <1>5, <1>6, <1>9, <2>2, <2>4, AdvanceEdges DEF Sound
    <2> QED
      BY <2>3, <2>4
  <1>10. cmd[p].kind = "archive" => cmd[p].task \notin {u.of, u.task}
    BY <1>1, <1>4, <1>5, <1>6, NoArchive
  <1>11. Child(u.of, u.task)' <=> Child(u.of, u.task)
    <2>1. CASE \E r \in Pending : Advance(r)
      BY <1>8, <2>1 DEF Child
    <2>2. CASE ~\E r \in Pending : Advance(r)
      BY <1>5, <1>6, <1>10, <2>2, ChildMoves
    <2> QED
      BY <2>1, <2>2
  <1>12. Parent(u.task)' = u.of <=> Parent(u.task) = u.of
    <2>1. CASE \E r \in Pending : Advance(r) /\ unit[r].of = u.of /\ unit[r].task = u.task
      BY <1>9, <2>1 DEF Parent
    <2>2. CASE ~\E r \in Pending : Advance(r) /\ unit[r].of = u.of /\ unit[r].task = u.task
      BY <1>5, <1>6, <1>10, <2>2, ParentChanges
    <2> QED
      BY <2>1, <2>2
  <1>13. Parent(u.of)' = u.task <=> Parent(u.of) = u.task
    <2>1. CASE \E r \in Pending : Advance(r)
      BY <1>8, <2>1 DEF Parent
    <2>2. CASE ~\E r \in Pending : Advance(r)
      BY <1>5, <1>6, <1>10, <2>2, ParentChanges
    <2> QED
      BY <2>1, <2>2
  <1>14. active'[u.of].doc.rev = u.before[1].rev + 1 => active[u.of].doc.rev = u.before[1].rev + 1
    <2>1. IsFull(active'[u.of]) =>
              active'[u.of].doc.rev \in Nat /\ active[u.of].doc.rev <= active'[u.of].doc.rev
      BY <1>3, <1>4, <1>6, Grows
    <2>2. IsFull(active'[u.of])
      <3>1. ~(Remove(p) /\ cmd[p].task = u.of)
        <4>1. Remove(p) => cmd[p].kind = "archive"
          <5>1. Remove(p) => pc[p] \in ArchiveSteps
            BY DEF Remove, ArchiveSteps
          <5> QED
            BY <1>4, <5>1, Archived
        <4> QED
          BY <1>10, <4>1
      <3> QED
        BY <1>4, <1>5, <1>6, <3>1, Kinds
    <2> QED
      BY <1>6, <2>1, <2>2
  <1>15. /\ Child(u.of, u.task) <=> cmd[q].kind # "unlink"
         /\ active[u.of].doc.rev = u.before[1].rev + 1 =>
               (u.task \in u.before[1].children <=> Parent(u.task) = u.of)
         /\ cmd[q].kind # "unlink" => Parent(u.of) # u.task
    BY <1>1, <1>5, <1>6 DEF Joins
  <1>16. unit'[q] = u
    BY <1>1
  <1>17. /\ Child(u.of, u.task)' <=> cmd[q].kind # "unlink"
         /\ active'[u.of].doc.rev = u.before[1].rev + 1 =>
               (u.task \in u.before[1].children <=> Parent(u.task)' = u.of)
         /\ cmd[q].kind # "unlink" => Parent(u.of)' # u.task
    BY <1>11, <1>12, <1>13, <1>14, <1>15
  <1> QED
    BY <1>16, <1>17 DEF Joins, Child, Parent


LEMMA AheadStays ==
    ASSUME LinkInv, Next, NEW p \in Procs, Step(p), NEW q \in Procs, Half(q), unit'[q] = unit[q],
           Sound(unit[q].of)', NEW r \in Procs \ {q}
    PROVE  Ahead(q, r)'
  <1>1. PICK u : u = unit[q]
    OBVIOUS
  <1>2. EditInv /\ Shape /\ TypeOK /\ q \in Pending /\ Ahead(q, r) /\ Sound(u.of)
        /\ u.of \notin torn'
    <2>1. Shape /\ Sound(u.of)'
      BY <1>1 DEF LinkInv, CycleInv, EditInv, HomeInv, Sound, Clear
    <2>2. Sound(u.of)
      BY <2>1, SoundBefore
    <2> QED
      BY <1>1, <2>1, <2>2, HalfIs DEF LinkInv, CycleInv, EditInv, HomeInv, Shape, Half, Sound, Clear
  <1>3. /\ u.of \in Names /\ u.before[1].rev \in Nat /\ active[u.of].doc.rev \in Nat
        /\ u.before[1].rev < active[u.of].doc.rev
    BY <1>1, <1>2, HalfIs
  <1>4. /\ unit[r].of = u.of /\ r \in Pending => unit[r].before[1].rev <= u.before[1].rev
        /\ unit[r].task = u.of /\ r \in Pending => unit[r].before[2].rev <= u.before[1].rev
        /\ Half(r) => unit[r].of # u.of
        /\ pc[r] = "settle" /\ q \notin queue[r] /\ u.of \in {cmd[r].of, cmd[r].task} =>
              seen[r][u.of].doc.rev <= u.before[1].rev
    BY <1>1, <1>2 DEF Ahead
  <1>5. ASSUME r = p, Prepare(p)
        PROVE  /\ unit'[r].of = u.of => unit'[r].before[1].rev <= u.before[1].rev
               /\ unit'[r].task = u.of => unit'[r].before[2].rev <= u.before[1].rev
               /\ ~Half(r)'
    <2>1. /\ unit'[p].task = cmd[p].task /\ unit'[p].of = cmd[p].of
          /\ unit'[p].phase = "prepared"
      BY <1>2, <1>5, PrepareFits
    <2>2. unit'[p].before = <<seen[p][cmd[p].of].doc, seen[p][cmd[p].task].doc>>
      BY <1>2, <1>5, PrepareFits
    <2>3. /\ unit'[p].before[1] = seen[p][cmd[p].of].doc
          /\ unit'[p].before[2] = seen[p][cmd[p].task].doc
      BY <2>2
    <2>4. pc[p] = "settle" /\ q \notin queue[p]
      BY <1>2, <1>5 DEF Prepare
    <2> QED
      BY <1>4, <1>5, <2>1, <2>3, <2>4 DEF Half
  <1>6. ASSUME r \in Pending, unit'[r].task = unit[r].task, unit'[r].of = unit[r].of,
               unit'[r].before = unit[r].before, unit'[r] = unit[r] \/ Advance(r)
        PROVE  /\ unit'[r].of = u.of => unit'[r].before[1].rev <= u.before[1].rev
               /\ unit'[r].task = u.of => unit'[r].before[2].rev <= u.before[1].rev
               /\ Half(r)' => unit'[r].of # u.of
    <2>1. CASE unit'[r] = unit[r]
      BY <1>4, <1>6, <2>1 DEF Half
    <2>2. CASE Advance(r)
      <3>1. Half(r)' /\ unit[r].of = u.of => FirstWrites(r)
        BY <1>2, <1>3, <1>6, <2>2, AdvanceEdges
           DEF Half, FirstWrites, SecondWrites, RollsBack, Refused, Sound
      <3>2. unit[r].before[1].rev \in Nat
        BY <1>2, <1>6, UnitIs DEF Docs
      <3>3. FirstWrites(r) /\ unit[r].of = u.of => active[u.of].doc = unit[r].before[1]
        BY <1>2, <1>3, <1>6, <2>2, AdvanceEdges DEF FirstWrites, SecondWrites, RollsBack, Refused, Sound
      <3> QED
        BY <1>3, <1>4, <1>6, <3>1, <3>2, <3>3
    <2> QED
      BY <1>6, <2>1, <2>2
  <1>7. r \in Pending' =>
            /\ unit'[r].of = u.of => unit'[r].before[1].rev <= u.before[1].rev
            /\ unit'[r].task = u.of => unit'[r].before[2].rev <= u.before[1].rev
            /\ Half(r)' => unit'[r].of # u.of
    BY <1>2, <1>5, <1>6, PendingKept
  <1>8. pc'[r] = "settle" /\ q \notin queue'[r] /\ u.of \in {cmd'[r].of, cmd'[r].task} =>
            seen'[r][u.of].doc.rev <= u.before[1].rev
    <2>1. List(p) => q \in queue'[p]
      BY <1>2 DEF List, Shape, TypeOK
    <2> QED
      BY <1>2, <1>4, <2>1, SettleMoves
  <1>9. unit'[q] = u
    BY <1>1
  <1>10. (Half(r)' => r \in Pending') /\ r \in Procs
    BY DEF Half
  <1> QED
    BY <1>7, <1>8, <1>9, <1>10 DEF Ahead

\* The first write of a unit finds the parent as the unit did.
LEMMA FirstIs ==
    ASSUME LinkInv, NEW q \in Pending, Advance(q), FirstWrites(q),
           Sound(unit[q].of), unit[q].of \notin torn'
    PROVE  LET u == unit[q] IN
           /\ u.of \in Names /\ u.task \in Names /\ u.before[1] \in Docs /\ u.before[1].rev \in Nat
           /\ IsFull(active[u.of]) /\ active[u.of].doc = u.before[1]
           /\ ParentIn(active'[u.of]) = u.before[1].parent
           /\ ChildrenIn(active'[u.of]) = IF cmd[q].kind = "unlink"
                                          THEN u.before[1].children \ {u.task}
                                          ELSE u.before[1].children \cup {u.task}
           /\ \A r \in Procs \ {q} : Half(r) => unit[r].of # u.of
  <1>0. PICK u : u = unit[q]
    OBVIOUS
  <1>1. /\ EditInv /\ Shape /\ TypeOK /\ q \in Procs /\ Sound(u.of) /\ u.of \notin torn'
        /\ u.of \in Names /\ u.task \in Names /\ u.before[1] \in Docs /\ u.before[1].rev \in Nat
        /\ u.after[1] \in Docs
    BY <1>0, UnitIs DEF LinkInv, CycleInv, EditInv, HomeInv, Shape, Docs
  <1>2. /\ IsFull(active[u.of]) /\ active[u.of].doc = u.before[1]
        /\ active'[u.of] = Written(active[u.of], u.after[1])
    BY <1>0, <1>1, AdvanceEdges DEF FirstWrites, SecondWrites, RollsBack, Refused, Sound
  <1>3. /\ ParentIn(active'[u.of]) = u.after[1].parent
        /\ ChildrenIn(active'[u.of]) = u.after[1].children
    BY <1>1, <1>2, WrittenEdges DEF TypeOK
  <1>4. ASSUME NEW r \in Procs \ {q}, Half(r), unit[r].of = u.of PROVE FALSE
    <2>1. /\ unit[r].before[1].rev \in Nat /\ unit[r].before[1].rev < active[u.of].doc.rev
          /\ Ahead(r, q)
      BY <1>1, <1>4, HalfIs
    <2>2. u.before[1].rev <= unit[r].before[1].rev
      BY <1>0, <1>1, <1>4, <2>1 DEF Ahead
    <2> QED
      BY <1>1, <1>2, <2>1, <2>2
  <1> QED
    BY <1>0, <1>1, <1>2, <1>3, <1>4, UnitEdges

\* Two tasks of a pending unit that are both there are related both ways or not
\* at all, unless a unit is between its writes.
LEMMA PairedHere ==
    ASSUME LinkInv, NEW q \in Pending, LET u == unit[q] IN
              /\ Sound(u.of) /\ Sound(u.task) /\ u.of \notin Blur /\ u.task \notin Blur
              /\ ~Open(u.of, u.task)
    PROVE  Child(unit[q].of, unit[q].task) <=> Parent(unit[q].task) = unit[q].of
  <1>1. PICK of, task : of = unit[q].of /\ task = unit[q].task
    OBVIOUS
  <1>2. /\ HomeInv /\ Shape /\ of \in Names /\ task \in Names /\ q \in Procs
        /\ Sound(of) /\ Sound(task) /\ of \notin Blur /\ task \notin Blur /\ Paired(of, task)
    BY <1>1, UnitIs DEF LinkInv, CycleInv, EditInv, HomeInv, Shape
  <1>3. ASSUME NEW n \in {of, task}, NEW g \in Procs, Empty(g), cmd[g].task = n PROVE FALSE
    <2>1. /\ n \in Names /\ Sound(n) /\ n \notin Blur
      BY <1>2
    <2>2. cmd[g].kind = "archive" /\ n \in Hand(g) /\ g \notin Pending
      BY <1>2, <1>3, <2>1, GoneIs, Archived
    <2> QED
      BY <1>1, <1>2, <1>3, <2>1, <2>2, Sole
  <1>4. ~Gone(of) /\ ~Gone(task)
    BY <1>3 DEF Gone
  <1> QED
    BY <1>1, <1>2, <1>4 DEF Paired

LEMMA JoinsBegin ==
    ASSUME LinkInv, Next, NEW q \in Pending, Advance(q), FirstWrites(q),
           unit'[q].of = unit[q].of, unit'[q].task = unit[q].task,
           unit'[q].before = unit[q].before, cmd'[q] = cmd[q], Sound(unit[q].of)'
    PROVE  Joins(q)'
  <1>1. PICK u : u = unit[q]
    OBVIOUS
  <1>2. SUFFICES ASSUME Sound(u.task)' PROVE Joins(q)'
    BY <1>1 DEF Joins, Sound, Clear
  <1>3. /\ LinkInv /\ EditInv /\ Shape /\ TypeOK /\ q \in Procs /\ Above(q) /\ unit[q].phase = "prepared"
    BY DEF LinkInv, CycleInv, EditInv, HomeInv, Shape, Pending, FirstWrites
  <1>4. Sound(u.of)'
    BY <1>1 DEF Sound, Clear
  <1>5. /\ Sound(u.of) /\ u.of \notin Blur /\ u.of \notin torn'
        /\ Sound(u.task) /\ u.task \notin Blur /\ u.task \notin torn'
    BY <1>2, <1>3, <1>4, SoundBefore DEF Sound, Clear
  <1>6. /\ u.of \in Names /\ u.task \in Names /\ u.before[1] \in Docs /\ u.before[1].rev \in Nat
        /\ IsFull(active[u.of]) /\ active[u.of].doc = u.before[1]
        /\ ParentIn(active'[u.of]) = u.before[1].parent
        /\ ChildrenIn(active'[u.of]) = IF cmd[q].kind = "unlink"
                                       THEN u.before[1].children \ {u.task}
                                       ELSE u.before[1].children \cup {u.task}
        /\ \A r \in Procs \ {q} : Half(r) => unit[r].of # u.of
    BY <1>1, <1>5, FirstIs
  <1>7. u.of = cmd[q].of /\ u.task = cmd[q].task
    BY <1>1, <1>3, UnitEdges
  <1>8. Parent(u.task)' = Parent(u.task)
    <2>1. CASE u.task = u.of
      BY <1>6, <2>1 DEF Parent, ParentIn
    <2>2. CASE u.task # u.of
      <3>1. active'[u.task] = active[u.task]
        BY <1>1, <1>3, <1>5, <1>6, <2>2, AdvanceEdges DEF FirstWrites, SecondWrites, Sound
      <3> QED
        BY <3>1 DEF Parent
    <2> QED
      BY <2>1, <2>2
  <1>9. u.task \in u.before[1].children <=> Parent(u.task) = u.of
    <2>1. ~Open(u.of, u.task)
      BY <1>1, <1>3, <1>6 DEF Open, Half
    <2>2. Child(u.of, u.task) <=> Parent(u.task) = u.of
      BY <1>1, <1>5, <2>1, PairedHere
    <2> QED
      BY <1>6, <2>2 DEF Child, ChildrenIn
  <1>10. cmd[q].kind # "unlink" => u.before[1].parent # u.task
    <2>1. NotUnder(q, u.before[1])
      BY <1>1, <1>3 DEF Above
    <2> QED
      BY <1>5, <1>6, <1>7, <2>1 DEF NotUnder
  <1>11. /\ Child(u.of, u.task)' <=> cmd[q].kind # "unlink"
         /\ u.task \in u.before[1].children <=> Parent(u.task)' = u.of
         /\ cmd[q].kind # "unlink" => Parent(u.of)' # u.task
    BY <1>6, <1>8, <1>9, <1>10 DEF Child, Parent
  <1>12. unit'[q].of = u.of /\ unit'[q].task = u.task /\ unit'[q].before = u.before
    BY <1>1
  <1> QED
    BY <1>11, <1>12 DEF Joins, Child, Parent

LEMMA AheadBegins ==
    ASSUME LinkInv, NEW p \in Procs, Step(p), NEW q \in Pending, Takes(p, q), FirstWrites(q),
           unit'[q].of = unit[q].of, unit'[q].before = unit[q].before,
           Sound(unit[q].of), unit[q].of \notin torn', NEW r \in Procs \ {q}
    PROVE  Ahead(q, r)'
  <1>1. PICK u : u = unit[q]
    OBVIOUS
  <1>2. EditInv /\ Shape /\ TypeOK /\ Advance(q) /\ Sound(u.of) /\ Fits(r)
    BY <1>1 DEF LinkInv, CycleInv, EditInv, HomeInv, Shape, Takes
  <1>3. /\ u.of \in Names /\ u.before[1].rev \in Nat /\ active[u.of].doc = u.before[1]
        /\ (Half(r) => unit[r].of # u.of) /\ unit'[r] = unit[r]
    BY <1>1, <1>2, FirstIs, AdvanceIs
  <1>4. Recalls(r, u.of)
    BY <1>2, <1>3 DEF EditInv, Kept, Sound
  <1>5. r \in Pending =>
            /\ unit[r].of = u.of => unit[r].before[1].rev <= u.before[1].rev
            /\ unit[r].task = u.of => unit[r].before[2].rev <= u.before[1].rev
    BY <1>3, <1>4 DEF Recalls, UnitKept, Older, Half, Pending
  <1>6. pc[r] = "settle" /\ u.of \in {cmd[r].of, cmd[r].task} =>
            seen[r][u.of].doc.rev <= u.before[1].rev
    <2>1. pc[r] = "settle" => pc[r] \in LinkSteps /\ Running(r)
      BY DEF LinkSteps, Running
    <2>2. pc[r] = "settle" /\ u.of \in {cmd[r].of, cmd[r].task} => Follows(r, u.of)
      BY <1>2, <2>1 DEF Fits, Follows
    <2> QED
      BY <1>3, <1>4, <2>2 DEF Recalls, Older
  <1>7. pc'[r] = "settle" =>
            pc[r] = "settle" /\ cmd'[r] = cmd[r] /\ seen'[r] = seen[r]
    <2>1. ~List(p)
      <3>1. pc[p] # "list"
        BY <1>2 DEF List, Takes, Recover, Commit
      <3> QED
        BY <3>1 DEF List
    <2> QED
      BY <1>2, <2>1, SettleMoves
  <1>8. (Half(r)' => Half(r)) /\ (r \in Pending' => r \in Pending)
    BY <1>3 DEF Half, Pending
  <1>9. unit'[q].of = u.of /\ unit'[q].before = u.before
    BY <1>1
  <1> QED
    BY <1>3, <1>5, <1>6, <1>7, <1>8, <1>9 DEF Ahead


LEMMA HalfStep ==
    ASSUME LinkInv, Next, NEW p \in Procs, Step(p), NEW q \in Procs, Half(q)',
           unit'[q].of \notin blurred' \cup torn' \cup stale'
    PROVE  Joins(q)' /\ \A r \in Procs \ {q} : Ahead(q, r)'
  <1>1. Shape /\ EditInv /\ q \in Pending'
    BY DEF LinkInv, CycleInv, EditInv, HomeInv, Half
  <1>2. CASE q = p /\ Prepare(p)
    BY <1>1, <1>2, PrepareFits DEF Half
  <1>3. CASE /\ q \in Pending /\ cmd'[q] = cmd[q]
             /\ unit'[q].task = unit[q].task /\ unit'[q].of = unit[q].of
             /\ unit'[q].before = unit[q].before /\ unit'[q].after = unit[q].after
             /\ unit'[q] = unit[q] \/ Takes(p, q)
    <2>1. PICK of : of = unit[q].of
      OBVIOUS
    <2>2. of \in Names /\ Sound(of)' /\ Sound(unit[q].of)'
      BY <1>1, <1>3, <2>1, UnitIs DEF Sound, Clear, Shape
    <2>3. Sound(of) /\ of \notin torn'
      BY <1>1, <2>2, SoundBefore DEF Sound, Clear
    <2>4. CASE unit'[q] = unit[q]
      BY <1>3, <2>2, <2>4, JoinsStay, AheadStays DEF Half
    <2>5. CASE Takes(p, q) /\ unit'[q] # unit[q]
      <3>1. FirstWrites(q) /\ Advance(q)
        BY <1>1, <1>3, <2>1, <2>2, <2>3, <2>5, AdvanceEdges
           DEF Half, Takes, FirstWrites, SecondWrites, RollsBack, Refused, Sound
      <3> QED
        BY <1>3, <2>1, <2>2, <2>3, <2>5, <3>1, JoinsBegin, AheadBegins
    <2> QED
      BY <1>3, <2>4, <2>5
  <1> QED
    BY <1>1, <1>2, <1>3, PendingKept DEF Takes

-----------------------------------------------------------------------------
(* Links agree: the two ends after a step.                                 *)

\* A pending unit stays as it is until its next write.
LEMMA PendingGoesOn ==
    ASSUME Shape, NEW p \in Procs, Step(p), NEW q \in Pending, ~Takes(p, q)
    PROVE  unit'[q] = unit[q]
  <1>1. q \in Procs /\ unit[q].phase \in {"prepared", "half"}
    BY DEF Pending
  <1>2. CASE q # p
    BY <1>1, <1>2, Others DEF Takes
  <1>3. CASE q = p
    <2>1. pc[p] \in {"commit", "dead"}
      BY <1>3, NotPending
    <2>2. ~Commit(p)
      BY <1>3 DEF Takes, Commit
    <2>3. Crash(p)
      BY <1>1, <1>3, <2>1, <2>2
      DEF Step, Link, Archive, Create, Start, LoadParent, LoadChild, Walk, List, Recover, Prepare,
          Committed, EditLoad, Save, ArchiveLoad, ReadRelative, Copy, Compare, Remove, Mark,
          Relate, Files, Restore, Back, Rewrite, CreateCheck, Mkdir, WriteTask, Anchor, TakeBack
    <2> QED
      BY <1>3, <2>3 DEF Crash
  <1> QED
    BY <1>2, <1>3

LEMMA OpenStays ==
    ASSUME Shape, NEW p \in Procs, Step(p), NEW n, NEW m, Open(n, m),
           \A q \in Pending : Takes(p, q) => ~(unit[q].of = n /\ unit[q].task = m)
    PROVE  Open(n, m)'
  <1>1. PICK q \in Procs : Half(q) /\ unit[q].of = n /\ unit[q].task = m
    BY DEF Open
  <1>2. unit'[q] = unit[q]
    BY <1>1, PendingGoesOn DEF Half
  <1> QED
    BY <1>1, <1>2 DEF Open, Half, Pending

LEMMA GoneStays ==
    ASSUME Shape, NEW p \in Procs, Step(p), NEW n, Gone(n), ~(Empty(p) /\ cmd[p].task = n)
    PROVE  Gone(n)'
  <1>1. PICK g \in Procs : Empty(g) /\ cmd[g].task = n
    BY DEF Gone
  <1>2. Same(g)
    BY <1>1, Others
  <1> QED
    BY <1>1, <1>2 DEF Gone, Same, Empty

\* The step of an archive writes for no unit.
LEMMA ArchiveTakes ==
    ASSUME Shape, NEW p \in Procs, Step(p), cmd[p].kind = "archive", NEW q PROVE ~Takes(p, q)
  <1>1. pc[p] \in ArchiveSteps
    BY KindRuns
  <1> QED
    BY <1>1 DEF Takes, Commit, Recover, ArchiveSteps

\* What the archive of n does to the edges of n.
LEMMA OwnEdges ==
    ASSUME LinkInv, NEW p \in Procs, Step(p), NEW n \in Names, Sound(n), n \notin Blur,
           n \notin torn', cmd[p].kind = "archive", cmd[p].task = n
    PROVE  \/ Alike(active'[n], active[n])
           \/ Remove(p) /\ active'[n] = Absent
           \/ /\ Back(p) \/ Rewrite(p)
              /\ Alike(active'[n], seen[p][n]) /\ IsFull(seen[p][n])
              /\ n \notin Relatives(seen[p][n].doc)
  <1>1. EditInv /\ Shape /\ Held(p, n) /\ Read(p, n) /\ pc[p] \in ArchiveSteps
    BY KindRuns DEF LinkInv, CycleInv, EditInv, HomeInv, Sound
  <1>2. ~\E q \in Pending : /\ n \in {unit[q].task, unit[q].of} /\ Advance(q)
                            /\ (Commit(p) /\ q = p) \/ (Recover(p) /\ q # p)
    BY <1>1, ArchiveTakes DEF Takes
  <1>3. (Relate(p) \/ Restore(p)) => n \notin todo[p]
    BY RelativeIs DEF Relate, Restore
  <1>4. Back(p) \/ Rewrite(p) =>
            IsFull(seen[p][n]) /\ n \notin Relatives(seen[p][n].doc)
    <2>1. Back(p) \/ Rewrite(p) => pc[p] \in {"back", "rewrite"}
      BY DEF Back, Rewrite
    <2> QED
      BY <1>1, <2>1, Archived DEF Read, ArchiveSteps
  <1>5. Back(p) /\ active'[n] = stored[n] => Alike(active'[n], seen[p][n])
    BY <1>1 DEF Held, HeldTask, Back
  <1> QED
    BY <1>1, <1>2, <1>3, <1>4, <1>5, EdgesMove DEF Sound

\* and to those of another task.
LEMMA OtherEdges ==
    ASSUME LinkInv, NEW p \in Procs, Step(p), NEW n \in Names, Sound(n), n \notin Blur,
           n \notin torn', cmd[p].kind = "archive", cmd[p].task # n
    PROVE  \/ Alike(active'[n], active[n])
           \/ /\ Relate(p) \/ Restore(p)
              /\ n \in todo[p]
  <1>1. EditInv /\ Shape
    BY DEF LinkInv, CycleInv, EditInv, HomeInv
  <1>2. ~\E q \in Pending : /\ n \in {unit[q].task, unit[q].of} /\ Advance(q)
                            /\ (Commit(p) /\ q = p) \/ (Recover(p) /\ q # p)
    BY <1>1, ArchiveTakes DEF Takes
  <1> QED
    BY <1>1, <1>2, EdgesMove DEF Sound

\* The parents of the two tasks of a unit after one of its writes.
LEMMA UnitParents ==
    ASSUME LinkInv, NEW q \in Pending, Advance(q), NEW n \in Names, Sound(n), n \notin torn',
           n \in {unit[q].task, unit[q].of}
    PROVE  LET u == unit[q] IN
           /\ u.of \in Names /\ u.of # None
           /\ (cmd[q].kind # "unlink" => u.of # u.task)
           /\ ~(n = u.task /\ SecondWrites(q)) => Parent(n)' = Parent(n)
           /\ n = u.task /\ SecondWrites(q) =>
                 Parent(n)' = IF cmd[q].kind = "unlink" THEN None ELSE u.of
  <1>1. PICK u : u = unit[q]
    OBVIOUS
  <1>2. /\ EditInv /\ Shape /\ TypeOK /\ active[n] \in Dirs /\ q \in Procs /\ Meant(q)
    BY UnitIs DEF LinkInv, CycleInv, EditInv, HomeInv, Shape, TypeOK
  <1>3. /\ u.before[1] \in Docs /\ u.before[2] \in Docs /\ u.of \in Names
        /\ u.after[1] \in Docs /\ u.after[2] \in Docs
    BY <1>1, <1>2, UnitIs
  <1>4. /\ u.task = cmd[q].task /\ u.of = cmd[q].of
        /\ u.after[1].parent = u.before[1].parent
        /\ u.after[2].parent = IF cmd[q].kind = "unlink" THEN None ELSE u.of
    BY <1>1, <1>2, UnitEdges
  <1>5. cmd[q].kind # "unlink" => u.of # u.task
    BY <1>2, <1>4 DEF Meant, Apart
  <1>6. \/ active'[n] = active[n] /\ ~(n = u.task /\ SecondWrites(q))
        \/ /\ ~SecondWrites(q) /\ IsFull(active[n]) /\ active[n].doc = u.before[1]
           /\ active'[n] = Written(active[n], u.after[1])
        \/ n = u.task /\ SecondWrites(q) /\ active'[n] = Written(active[n], u.after[2])
        \/ /\ ~SecondWrites(q) /\ IsFull(active[n])
           /\ active[n].doc = [u.after[1] EXCEPT !.rev = u.before[1].rev + 1]
           /\ active'[n] = Written(active[n], u.before[1])
    BY <1>1, <1>2, AdvanceEdges DEF FirstWrites, SecondWrites, RollsBack, Refused, Sound
  <1>7. CASE active'[n] = active[n] /\ ~(n = u.task /\ SecondWrites(q))
    BY <1>1, <1>3, <1>5, <1>7, NamesAssumption DEF Parent
  <1>8. CASE /\ ~SecondWrites(q) /\ IsFull(active[n]) /\ active[n].doc = u.before[1]
             /\ active'[n] = Written(active[n], u.after[1])
    <2>1. ParentIn(active'[n]) = u.after[1].parent
      BY <1>2, <1>3, <1>8, WrittenEdges
    <2> QED
      BY <1>1, <1>3, <1>4, <1>5, <1>8, <2>1, NamesAssumption DEF Parent, ParentIn
  <1>9. CASE n = u.task /\ SecondWrites(q) /\ active'[n] = Written(active[n], u.after[2])
    <2>1. ParentIn(active'[n]) = u.after[2].parent
      BY <1>2, <1>3, <1>9, WrittenEdges
    <2> QED
      BY <1>1, <1>3, <1>4, <1>5, <1>9, <2>1, NamesAssumption DEF Parent
  <1>10. CASE /\ ~SecondWrites(q) /\ IsFull(active[n])
              /\ active[n].doc = [u.after[1] EXCEPT !.rev = u.before[1].rev + 1]
              /\ active'[n] = Written(active[n], u.before[1])
    <2>1. ParentIn(active'[n]) = u.before[1].parent
      BY <1>2, <1>3, <1>10, WrittenEdges
    <2>2. active[n].doc.parent = u.after[1].parent
      BY <1>3, <1>10 DEF Docs
    <2> QED
      BY <1>1, <1>3, <1>4, <1>5, <1>10, <2>1, <2>2, NamesAssumption DEF Parent, ParentIn
  <1> QED
    BY <1>6, <1>7, <1>8, <1>9, <1>10

\* The children that the parent of a unit has after one of its writes.
LEMMA UnitChildren ==
    ASSUME LinkInv, NEW q \in Pending, Advance(q), LET u == unit[q] IN
              Sound(u.of) /\ u.of \notin torn'
    PROVE  LET u == unit[q] IN
           /\ FirstWrites(q) \/ SecondWrites(q) \/ RollsBack(q) \/ Refused(q)
           /\ FirstWrites(q) => ChildrenIn(active'[u.of]) = u.after[1].children
           /\ RollsBack(q) => /\ ChildrenIn(active'[u.of]) = u.before[1].children
                              /\ active[u.of].doc.rev = u.before[1].rev + 1
           /\ SecondWrites(q) \/ Refused(q) =>
                 ChildrenIn(active'[u.of]) = ChildrenIn(active[u.of])
           /\ Refused(q) => active'[u.of] = active[u.of]
  <1>1. PICK u : u = unit[q]
    OBVIOUS
  <1>2. /\ EditInv /\ TypeOK /\ Sound(u.of) /\ u.of \notin torn'
        /\ u.of \in Names /\ active[u.of] \in Dirs
        /\ u.before[1] \in Docs /\ u.before[2] \in Docs
        /\ u.after[1] \in Docs /\ u.after[2] \in Docs
    BY <1>1, UnitIs DEF LinkInv, CycleInv, EditInv, HomeInv, Shape, TypeOK
  <1>3. u.after[2].children = u.before[2].children
    BY <1>1, <1>2, UnitEdges
  <1>4. FirstWrites(q) \/ SecondWrites(q) \/ RollsBack(q) \/ Refused(q)
    BY <1>1, <1>2, AdvanceEdges DEF Sound
  <1>5. \/ active'[u.of] = active[u.of] /\ ~FirstWrites(q) /\ ~RollsBack(q)
        \/ FirstWrites(q) /\ active'[u.of] = Written(active[u.of], u.after[1])
        \/ /\ SecondWrites(q) /\ IsFull(active[u.of]) /\ active[u.of].doc = u.before[2]
           /\ active'[u.of] = Written(active[u.of], u.after[2])
        \/ /\ RollsBack(q) /\ active[u.of].doc.rev = u.before[1].rev + 1
           /\ active'[u.of] = Written(active[u.of], u.before[1])
    BY <1>1, <1>2, AdvanceEdges DEF Sound
  <1>6. /\ ChildrenIn(Written(active[u.of], u.after[1])) = u.after[1].children
        /\ ChildrenIn(Written(active[u.of], u.after[2])) = u.after[2].children
        /\ ChildrenIn(Written(active[u.of], u.before[1])) = u.before[1].children
    BY <1>2, WrittenEdges
  <1>7. /\ FirstWrites(q) => ~SecondWrites(q) /\ ~RollsBack(q) /\ ~Refused(q)
        /\ SecondWrites(q) => ~RollsBack(q) /\ ~Refused(q)
        /\ RollsBack(q) => ~Refused(q)
    BY DEF FirstWrites, SecondWrites, RollsBack, Refused
  <1> QED
    BY <1>1, <1>2, <1>3, <1>4, <1>5, <1>6, <1>7 DEF ChildrenIn


LEMMA SelfStep ==
    ASSUME LinkInv, NEW p \in Procs, Step(p), NEW n \in Names, Sound(n), n \notin Blur,
           n \notin torn'
    PROVE  ~Child(n, n)'
  <1>1. /\ ~Child(n, n) /\ Parent(n) # n /\ EditInv /\ Shape
    BY DEF LinkInv, Paired, CycleInv, EditInv, HomeInv
  <1>2. CASE cmd[p].kind = "archive" /\ cmd[p].task = n
    <2>1. ~IsFull(Absent)
      BY DEF IsFull, Absent
    <2> QED
      BY <1>1, <1>2, <2>1, OwnEdges DEF Alike, Child, ChildrenIn, Relatives
  <1>3. ASSUME NEW q \in Pending, Takes(p, q), unit[q].of = n, unit[q].task = n
        PROVE  ~Child(n, n)'
    <2>1. Advance(q) /\ cmd[q].kind = "unlink"
      BY <1>1, <1>3, UnitParents DEF Takes
    <2>2. n \notin unit[q].after[1].children
      BY <1>1, <1>3, <2>1, UnitEdges
    <2>3. RollsBack(q) /\ active[n].doc.rev = unit[q].before[1].rev + 1 =>
              n \notin unit[q].before[1].children
      <3>1. RollsBack(q) => Half(q) /\ q \in Procs
        BY DEF RollsBack, Half, Pending
      <3>2. RollsBack(q) => Joins(q)
        BY <1>3, <3>1, HalfIs
      <3> QED
        BY <1>1, <1>3, <3>2 DEF Joins
    <2> QED
      BY <1>1, <1>3, <2>1, <2>2, <2>3, UnitChildren DEF Child
  <1>4. CASE /\ ~(cmd[p].kind = "archive" /\ cmd[p].task = n)
             /\ \A q \in Pending : Takes(p, q) => ~(unit[q].of = n /\ unit[q].task = n)
    BY <1>1, <1>4, ChildMoves DEF Takes
  <1> QED
    BY <1>2, <1>3, <1>4

\* Neither an archive nor a unit makes two tasks the parents of each other.
LEMMA ArchiveTwo ==
    ASSUME LinkInv, NEW p \in Procs, Step(p), cmd[p].kind = "archive",
           NEW t \in Names, cmd[p].task = t, Sound(t), t \notin Blur, t \notin torn',
           NEW r \in Names, Sound(r), r \notin Blur, r \notin torn'
    PROVE  ~(Parent(t)' = r /\ Parent(r)' = t)
  <1>1. /\ Shape /\ Read(p, r) /\ Held(p, r) /\ Paired(t, r) /\ Paired(t, t)
        /\ pc[p] \in ArchiveSteps /\ Running(p) /\ t # None /\ r # None
    BY KindRuns, NamesAssumption DEF LinkInv, CycleInv, EditInv, HomeInv, Sound
  <1>2. ~IsFull(Absent)
    BY DEF IsFull, Absent
  <1>3. CASE Alike(active'[t], active[t])
    <2>1. Parent(t)' = Parent(t)
      BY <1>3 DEF Alike, Parent
    <2>2. CASE r = t
      BY <1>1, <2>1, <2>2 DEF Paired
    <2>3. CASE r # t /\ Alike(active'[r], active[r])
      <3>1. Parent(r)' = Parent(r)
        BY <2>3 DEF Alike, Parent
      <3> QED
        BY <1>1, <2>1, <3>1 DEF Paired
    <2>4. CASE Relate(p) \/ Restore(p)
      <3>1. active[t] = Absent
        BY <1>1, <2>4
           DEF LinkInv, CycleInv, EditInv, HomeInv, Homed, Own, Placed, Relate, Restore, Sound
      <3> QED
        BY <1>1, <1>2, <2>1, <3>1 DEF Parent, ParentIn
    <2> QED
      BY <2>2, <2>3, <2>4, OtherEdges
  <1>4. CASE active'[t] = Absent
    BY <1>1, <1>2, <1>4 DEF Parent, ParentIn
  <1>5. CASE /\ Back(p) \/ Rewrite(p)
             /\ Alike(active'[t], seen[p][t]) /\ IsFull(seen[p][t])
             /\ t \notin Relatives(seen[p][t].doc)
    <2>1. Parent(t)' = seen[p][t].doc.parent
      BY <1>5 DEF Alike, Parent, ParentIn
    <2>2. CASE r = t
      BY <1>1, <1>5, <2>1, <2>2 DEF Relatives
    <2>3. CASE r # t
      <3>1. pc[p] \in {"back", "rewrite"}
        BY <1>5 DEF Back, Rewrite
      <3>2. Parent(r)' = Parent(r)
        <4>1. ~Relate(p) /\ ~Restore(p)
          BY <3>1 DEF Relate, Restore
        <4> QED
          BY <2>3, <4>1, OtherEdges DEF Alike, Parent
      <3>3. SUFFICES ASSUME seen[p][t].doc.parent = r, Parent(r) = t PROVE FALSE
        BY <2>1, <3>2
      <3>4. r \in Relatives(seen[p][t].doc)
        BY <1>1, <3>3 DEF Relatives
      <3>5. /\ IsFull(seen[p][r])
            /\ seen[p][r].doc.parent = t => r \in seen[p][t].doc.children
            /\ ~(seen[p][t].doc.parent = r /\ r \in seen[p][t].doc.children)
        BY <1>1, <2>3, <3>1, <3>4 DEF Read, ArchiveSteps
      <3>6. Alike(active[r], seen[p][r])
        BY <1>1, <2>3, <3>1, <3>5 DEF Held, HeldRelative
      <3> QED
        BY <3>3, <3>5, <3>6 DEF Alike, Parent, ParentIn
    <2> QED
      BY <2>2, <2>3
  <1> QED
    BY <1>3, <1>4, <1>5, OwnEdges

LEMMA UnitTwo ==
    ASSUME LinkInv, NEW q \in Pending, Advance(q),
           NEW n \in Names, Sound(n), n \notin torn', unit[q].of = n,
           NEW m \in Names, Sound(m), m \notin torn', unit[q].task = m
    PROVE  ~(Parent(n)' = m /\ Parent(m)' = n)
  <1>1. Paired(n, m) /\ q \in Procs
    BY DEF LinkInv, Pending
  <1>2. /\ n # None /\ (cmd[q].kind # "unlink" => n # m)
        /\ ~(n = m /\ SecondWrites(q)) => Parent(n)' = Parent(n)
        /\ ~SecondWrites(q) => Parent(m)' = Parent(m)
        /\ SecondWrites(q) => Parent(m)' = IF cmd[q].kind = "unlink" THEN None ELSE n
    BY UnitParents
  <1>3. CASE SecondWrites(q) /\ cmd[q].kind # "unlink"
    <2>1. Half(q)
      BY <1>3 DEF SecondWrites, Half
    <2>2. Joins(q)
      BY <1>1, <2>1, HalfIs
    <2>3. Parent(n) # m
      BY <1>3, <2>2 DEF Joins
    <2> QED
      BY <1>2, <1>3, <2>3
  <1>4. CASE SecondWrites(q) /\ cmd[q].kind = "unlink"
    BY <1>2, <1>4
  <1>5. CASE ~SecondWrites(q)
    BY <1>1, <1>2, <1>5 DEF Paired
  <1> QED
    BY <1>3, <1>4, <1>5

LEMMA TwoStep ==
    ASSUME LinkInv, NEW p \in Procs, Step(p),
           NEW n \in Names, Sound(n), n \notin Blur, n \notin torn',
           NEW m \in Names, Sound(m), m \notin Blur, m \notin torn'
    PROVE  ~(Parent(n)' = m /\ Parent(m)' = n)
  <1>1. Paired(n, m)
    BY DEF LinkInv
  <1>2. CASE cmd[p].kind = "archive" /\ cmd[p].task \in {n, m}
    BY <1>2, ArchiveTwo
  <1>3. CASE \E q \in Pending : Takes(p, q) /\ \/ unit[q].of = n /\ unit[q].task = m
                                               \/ unit[q].of = m /\ unit[q].task = n
    BY <1>3, UnitTwo DEF Takes
  <1>4. CASE /\ ~(cmd[p].kind = "archive" /\ cmd[p].task \in {n, m})
             /\ \A q \in Pending : Takes(p, q) => ~(unit[q].of = n /\ unit[q].task = m)
             /\ \A q \in Pending : Takes(p, q) => ~(unit[q].of = m /\ unit[q].task = n)
    <2>1. Parent(m)' = n <=> Parent(m) = n
      BY <1>4, ParentChanges DEF Takes
    <2>2. Parent(n)' = m <=> Parent(n) = m
      BY <1>4, ParentChanges DEF Takes
    <2> QED
      BY <1>1, <2>1, <2>2 DEF Paired
  <1> QED
    BY <1>2, <1>3, <1>4

\* A unit that is done, or undone, leaves its two tasks related both ways or
\* not at all.
LEMMA UnitPaired ==
    ASSUME LinkInv, NEW p \in Procs, Step(p), NEW q \in Pending, Takes(p, q),
           NEW n \in Names, Sound(n), n \notin Blur, n \notin torn', unit[q].of = n,
           NEW m \in Names \ {n}, Sound(m), m \notin Blur, m \notin torn', unit[q].task = m,
           ~Open(n, m)'
    PROVE  Child(n, m)' <=> Parent(m)' = n
  <1>1. EditInv /\ Shape /\ TypeOK /\ Advance(q) /\ q \in Procs
    BY DEF LinkInv, CycleInv, EditInv, HomeInv, Shape, Takes, Pending
  <1>2. /\ FirstWrites(q) \/ SecondWrites(q) \/ RollsBack(q) \/ Refused(q)
        /\ RollsBack(q) => /\ ChildrenIn(active'[n]) = unit[q].before[1].children
                           /\ active[n].doc.rev = unit[q].before[1].rev + 1
        /\ SecondWrites(q) \/ Refused(q) => ChildrenIn(active'[n]) = ChildrenIn(active[n])
    BY <1>1, UnitChildren
  <1>3. /\ n # None /\ (~SecondWrites(q) => Parent(m)' = Parent(m))
        /\ SecondWrites(q) => Parent(m)' = IF cmd[q].kind = "unlink" THEN None ELSE n
    BY <1>1, UnitParents
  <1>4. ~FirstWrites(q)
    BY <1>1, AdvanceIs DEF FirstWrites, Open, Half, Pending
  <1>5. RollsBack(q) \/ SecondWrites(q) => Joins(q)
    <2>1. RollsBack(q) \/ SecondWrites(q) => Half(q)
      BY DEF RollsBack, SecondWrites, Half
    <2> QED
      BY <1>1, <2>1, HalfIs
  <1>6. CASE SecondWrites(q)
    <2>1. Child(n, m) <=> cmd[q].kind # "unlink"
      BY <1>5, <1>6 DEF Joins
    <2> QED
      BY <1>2, <1>3, <1>6, <2>1 DEF Child
  <1>7. CASE RollsBack(q)
    <2>1. m \in unit[q].before[1].children <=> Parent(m) = n
      BY <1>2, <1>5, <1>7 DEF Joins
    <2>2. ~SecondWrites(q)
      BY <1>7 DEF RollsBack, SecondWrites
    <2> QED
      BY <1>2, <1>3, <1>7, <2>1, <2>2 DEF Child
  <1>8. CASE Refused(q)
    <2>1. ~SecondWrites(q)
      BY <1>8 DEF Refused, SecondWrites
    <2>2. ~Open(n, m)
      <3>1. SUFFICES ASSUME NEW r \in Procs, Half(r), unit[r].of = n, unit[r].task = m
                     PROVE  FALSE
        BY DEF Open
      <3>2. r # q
        BY <1>8, <3>1 DEF Refused, Half
      <3>3. unit'[r] = unit[r]
        BY <1>1, <3>2, AdvanceIs
      <3> QED
        BY <3>1, <3>3 DEF Open, Half, Pending
    <2>3. Child(n, m) <=> Parent(m) = n
      BY <2>2, PairedHere
    <2> QED
      BY <1>2, <1>3, <1>8, <2>1, <2>3 DEF Child
  <1> QED
    BY <1>2, <1>4, <1>6, <1>7, <1>8


\* What an archive leaves behind it, or puts back, is related both ways or not
\* at all.
LEMMA ArchivePaired ==
    ASSUME LinkInv, NEW p \in Procs, Step(p), cmd[p].kind = "archive",
           NEW t \in Names, cmd[p].task = t, Sound(t), t \notin Blur, t \notin torn',
           NEW r \in Names \ {t}, Sound(r), r \notin Blur, r \notin torn',
           ~Gone(t)', ~Gone(r)'
    PROVE  (Child(t, r)' <=> Parent(r)' = t) /\ (Child(r, t)' <=> Parent(t)' = r)
  <1>1. /\ Shape /\ TypeOK /\ Read(p, r) /\ Held(p, r) /\ Paired(t, r) /\ Paired(r, t)
        /\ pc[p] \in ArchiveSteps /\ Running(p) /\ t \in Hand(p) /\ t # None /\ r # None
        /\ pc \in [Procs -> Places]
    BY KindRuns, NamesAssumption DEF LinkInv, CycleInv, EditInv, HomeInv, Shape, TypeOK, Sound
  <1>2. ~IsFull(Absent)
    BY DEF IsFull, Absent
  <1>3. ~(Empty(p)' /\ cmd'[p] = cmd[p])
    BY DEF Gone
  <1>4. ~Crash(p)
    BY <1>1 DEF Crash
  <1>5. /\ ~Start(p) /\ ~EditLoad(p) /\ ~Save(p)
        /\ ~Link(p) /\ ~Create(p)
    BY <1>1 DEF Start, EditLoad, Save, Link, LoadParent, LoadChild, Walk, List, Recover, Prepare,
                Commit, Committed, Create, CreateCheck, Mkdir, WriteTask, Anchor, TakeBack,
                ArchiveSteps
  <1>6. CASE /\ Alike(active'[t], active[t]) /\ Alike(active'[r], active[r]) /\ ~Empty(p)
    <2>1. ~Gone(t) /\ ~Gone(r)
      BY <1>1, <1>6, GoneStays
    <2>2. ~Open(t, r) /\ ~Open(r, t)
      BY <1>1, NotOpen
    <2>3. (Child(t, r) <=> Parent(r) = t) /\ (Child(r, t) <=> Parent(t) = r)
      BY <1>1, <2>1, <2>2 DEF Paired
    <2> QED
      BY <1>6, <2>3 DEF Alike, Child, Parent
  <1>7. CASE ArchiveLoad(p) \/ ReadRelative(p) \/ Copy(p) \/ Compare(p)
    <2>1. UNCHANGED active /\ ~Empty(p)
      BY <1>7 DEF ArchiveLoad, ReadRelative, Copy, Compare, Empty, tree
    <2> QED
      BY <1>6, <2>1 DEF Alike
  <1>8. ~Remove(p)
    BY <1>1, <1>3 DEF Remove, Goto, Empty, memory
  <1>9. ~Mark(p) /\ ~Relate(p) /\ ~Restore(p)
    BY <1>1, <1>3 DEF Mark, Relate, Restore, Goto, Empty
  <1>10. CASE Files(p)
    <2>1. /\ pc[p] = "files" /\ UNCHANGED active
      BY <1>10 DEF Files, tree
    <2>2. active[t] = Absent
      BY <1>1, <2>1 DEF LinkInv, CycleInv, EditInv, HomeInv, Homed, Own, Placed, Sound
    <2>3. ~Child(t, r)' /\ Parent(t)' = None
      BY <1>2, <2>1, <2>2 DEF Child, Parent, ChildrenIn, ParentIn
    <2>4. ~Child(r, t) /\ Parent(r) # t
      <3>1. CASE ~IsFull(seen[p][r])
        BY <1>1, <2>1, <3>1 DEF Read, Empty, ArchiveSteps
      <3>2. CASE IsFull(seen[p][r])
        <4> DEFINE task == seen[p][t].doc
                   rel == seen[p][r].doc
        <4>1. /\ r \in Relatives(task)
              /\ t \in rel.children <=> task.parent = r
              /\ rel.parent = t <=> r \in task.children
              /\ ~(task.parent = r /\ r \in task.children)
          BY <1>1, <2>1, <3>2 DEF Read, ArchiveSteps
        <4>2. Alike(active[r], PartedSeen(p, r))
          BY <1>1, <2>1, <3>2 DEF Held, HeldRelative
        <4>3. rel \in Docs
          <5>1. seen[p][r] \in Dirs
            BY <1>1 DEF TypeOK
          <5> QED
            BY <3>2, <5>1, DirKinds
        <4>4. t \notin Parted(p, r, rel).children /\ Parted(p, r, rel).parent # t
          BY <1>1, <4>1, <4>3 DEF Parted, Docs
        <4> QED
          BY <4>2, <4>4, FullIs DEF Alike, Child, Parent, ChildrenIn, ParentIn, PartedSeen
      <3> QED
        BY <3>1, <3>2
    <2>5. ~Child(r, t)' /\ Parent(r)' # t
      BY <2>1, <2>4 DEF Child, Parent
    <2> QED
      BY <1>1, <2>3, <2>5
  <1>11. CASE Back(p)
    <2>1. /\ pc[p] = "back" /\ pc[p] \in ArchiveSteps \ {"archive"}
          /\ active' = [active EXCEPT ![t] = stored[t]]
      BY <1>1, <1>11 DEF Back, ArchiveSteps
    <2>2. active'[t] = stored[t] /\ active'[r] = active[r]
      BY <1>1, <2>1 DEF TypeOK
    <2>3. Held(p, t) /\ IsFull(seen[p][t])
      BY <1>1, <2>1, Archived DEF LinkInv, CycleInv, Sound
    <2>4. Alike(active'[t], seen[p][t])
      BY <1>1, <2>1, <2>2, <2>3 DEF Held, HeldTask
    <2>5. /\ Child(t, r)' <=> r \in seen[p][t].doc.children
          /\ Parent(t)' = seen[p][t].doc.parent
          /\ (Child(r, t)' <=> Child(r, t)) /\ Parent(r)' = Parent(r)
      BY <2>2, <2>3, <2>4 DEF Alike, Child, Parent, ChildrenIn, ParentIn
    <2>6. CASE ~IsFull(seen[p][r])
      <3>1. /\ ~Child(r, t) /\ Parent(r) # t
            /\ r \notin Relatives(seen[p][t].doc)
        BY <1>1, <2>1, <2>6 DEF Read, Empty
      <3> QED
        BY <1>1, <2>5, <3>1 DEF Relatives
    <2>7. CASE IsFull(seen[p][r])
      <3>1. /\ t \in seen[p][r].doc.children <=> seen[p][t].doc.parent = r
            /\ seen[p][r].doc.parent = t <=> r \in seen[p][t].doc.children
        BY <1>1, <2>1, <2>7 DEF Read
      <3>2. Alike(active[r], seen[p][r])
        BY <1>1, <2>1, <2>7 DEF Held, HeldRelative
      <3> QED
        BY <2>5, <2>7, <3>1, <3>2 DEF Alike, Child, Parent, ChildrenIn, ParentIn
    <2> QED
      BY <2>6, <2>7
  <1>12. CASE Rewrite(p)
    <2>1. pc[p] = "rewrite" /\ ~Empty(p) /\ Held(p, t)
      BY <1>12 DEF Rewrite, Empty, LinkInv, CycleInv, Sound
    <2>2. Alike(active[t], seen[p][t])
      BY <1>1, <2>1 DEF Held, HeldTask
    <2>3. Alike(active'[t], active[t])
      <3>1. ~Remove(p)
        BY <2>1 DEF Remove
      <3> QED
        BY <2>2, <3>1, OwnEdges DEF Alike
    <2>4. Alike(active'[r], active[r])
      <3>1. ~Relate(p) /\ ~Restore(p)
        BY <2>1 DEF Relate, Restore
      <3> QED
        BY <3>1, OtherEdges
    <2> QED
      BY <1>6, <2>1, <2>3, <2>4
  <1> QED
    BY <1>4, <1>5, <1>7, <1>8, <1>9, <1>10, <1>11, <1>12 DEF Step, Archive

LEMMA PairedStep ==
    ASSUME LinkInv, Next, NEW p \in Procs, Step(p),
           NEW n \in Names, Sound(n)', NEW m \in Names, Sound(m)'
    PROVE  Paired(n, m)'
  <1>1. Shape
    BY DEF LinkInv, CycleInv, EditInv, HomeInv
  <1>2. /\ Sound(n) /\ n \notin Blur /\ n \notin torn'
        /\ Sound(m) /\ m \notin Blur /\ m \notin torn'
    BY <1>1, SoundBefore DEF Sound, Clear
  <1>3. ~Child(n, n)' /\ ~(Parent(n)' = m /\ Parent(m)' = n)
    BY <1>2, SelfStep, TwoStep
  <1>4. ASSUME ~Open(n, m)', ~Gone(n)', ~Gone(m)' PROVE Child(n, m)' <=> Parent(m)' = n
    <2>1. CASE n = m
      BY <1>3, <2>1
    <2>2. CASE n # m /\ cmd[p].kind = "archive" /\ cmd[p].task \in {n, m}
      BY <1>2, <1>4, <2>2, ArchivePaired
    <2>3. CASE n # m /\ \E q \in Pending : Takes(p, q) /\ unit[q].of = n /\ unit[q].task = m
      BY <1>2, <1>4, <2>3, UnitPaired
    <2>4. CASE /\ ~(cmd[p].kind = "archive" /\ cmd[p].task \in {n, m})
               /\ \A q \in Pending : Takes(p, q) => ~(unit[q].of = n /\ unit[q].task = m)
      <3>1. Child(n, m)' <=> Child(n, m)
        BY <1>2, <2>4, ChildMoves DEF Takes
      <3>2. Parent(m)' = n <=> Parent(m) = n
        BY <1>2, <2>4, ParentChanges DEF Takes
      <3>3. ~Open(n, m)
        BY <1>1, <1>4, <2>4, OpenStays
      <3>4. ~Gone(n) /\ ~Gone(m)
        <4>1. Empty(p) => cmd[p].kind = "archive"
          <5>1. Empty(p) => pc[p] \in ArchiveSteps
            BY DEF Empty, ArchiveSteps
          <5> QED
            BY <1>1, <5>1, Archived
        <4> QED
          BY <1>1, <1>4, <2>4, <4>1, GoneStays
      <3>5. Paired(n, m)
        BY <1>2 DEF LinkInv
      <3> QED
        BY <3>1, <3>2, <3>3, <3>4, <3>5 DEF Paired
    <2> QED
      BY <2>1, <2>2, <2>3, <2>4
  <1> QED
    BY <1>3, <1>4 DEF Paired

LEMMA LinkStep ==
    ASSUME LinkInv, Next PROVE LinkInv'
  <1>1. CycleInv /\ CycleInv' /\ Shape
    BY CycleStep DEF LinkInv, CycleInv, EditInv, HomeInv
  <1>2. PICK p \in Procs : Step(p)
    BY DEF Next
  <1>3. ASSUME NEW q \in Procs PROVE (Meant(q) /\ Above(q) /\ Bound(q))'
    BY <1>1, <1>2, MeantStep, AboveStep, BoundStep DEF LinkInv
  <1>4. ASSUME NEW q \in Procs, NEW n \in Names, Sound(n)' PROVE Read(q, n)'
    BY <1>2, <1>4, OwnRead, OthersRead
  <1>5. ASSUME NEW q \in Procs, Half(q)', unit'[q].of \notin blurred' \cup torn' \cup stale'
        PROVE  Joins(q)' /\ \A r \in Procs \ {q} : Ahead(q, r)'
    BY <1>2, <1>5, HalfStep
  <1>6. ASSUME NEW n \in Names, NEW m \in Names, Sound(n)', Sound(m)' PROVE Paired(n, m)'
    BY <1>2, <1>6, PairedStep
  <1> QED
    BY <1>1, <1>3, <1>4, <1>5, <1>6 DEF LinkInv, Sound, Clear


LEMMA LinkStays == ASSUME LinkInv, UNCHANGED vars PROVE LinkInv'
  <1>1. CycleInv'
    BY CycleStays DEF LinkInv
  <1>2. UNCHANGED <<active, stored, pc, cmd, seen, walk, todo, queue, unit, blurred, stale, torn>>
    BY DEF vars, tree, memory, past
  <1>3. (\A p \in Procs : Meant(p) /\ Above(p) /\ Bound(p))'
    BY <1>2 DEF LinkInv, Meant, Above, Past, NotUnder, Bound, Hand, Running, Pending, Sound, Clear
  <1>4. (\A p \in Procs, n \in Names : Sound(n) => Read(p, n))'
    BY <1>2 DEF LinkInv, Read, Empty, Child, Parent, Sound, Clear
  <1>5. (\A q \in Procs : Half(q) /\ Sound(unit[q].of) =>
            Joins(q) /\ \A r \in Procs \ {q} : Ahead(q, r))'
    BY <1>2 DEF LinkInv, Half, Pending, Joins, Ahead, Child, Parent, Sound, Clear
  <1>6. (\A n, m \in Names : Sound(n) /\ Sound(m) => Paired(n, m))'
    BY <1>2 DEF LinkInv, Paired, Open, Half, Pending, Gone, Empty, Child, Parent, Sound, Clear
  <1> QED
    BY <1>1, <1>3, <1>4, <1>5, <1>6 DEF LinkInv

LEMMA LinkInit == Init => LinkInv
  <1> SUFFICES ASSUME Init PROVE LinkInv
    OBVIOUS
  <1>1. CycleInv
    BY CycleInit
  <1>2. \A p \in Procs : pc[p] = "idle" /\ p \notin Pending /\ cmd[p] = NoCommand
    BY DEF Init, Pending, NoUnit
  <1>3. \A p \in Procs : Meant(p) /\ Above(p) /\ Bound(p) /\ ~Half(p)
    BY <1>2 DEF Meant, Above, Past, Bound, NoCommand, Half
  <1>4. \A p \in Procs, n \in Names : Read(p, n)
    BY <1>2 DEF Read, ArchiveSteps
  <1>5. ASSUME NEW n \in Names, NEW m \in Names PROVE Paired(n, m)
    <2>1. PICK f \in Forests, here, done \in SUBSET Names :
            /\ \A x \in Names \ here : f[x] = None /\ \A y \in Names : f[y] # x
            /\ active = Planted(f, here, done)
      BY DEF Init
    <2>2. ASSUME NEW x \in Names, NEW y \in Names
          PROVE  (Child(x, y) <=> f[y] = x) /\ (Parent(y) = x <=> f[y] = x)
      <3>0. active[x] = Planted(f, here, done)[x] /\ active[y] = Planted(f, here, done)[y]
        BY <2>1
      <3>1. y \in ChildrenIn(active[x]) <=> x \in here /\ f[y] = x
        BY <3>0, PlantedEdges
      <3>2. ParentIn(active[y]) = (IF y \in here THEN f[y] ELSE None)
        BY <3>0, PlantedEdges
      <3> QED
        BY <2>1, <3>1, <3>2, NamesAssumption DEF Child, Parent
    <2>6. \A S \in SUBSET Names : S # {} => \E x \in S : f[x] \notin S
      BY <2>1 DEF Forests
    <2>3. f[n] # n
      <3>1. {n} \in SUBSET Names /\ {n} # {}
        OBVIOUS
      <3>2. \E x \in {n} : f[x] \notin {n}
        BY <2>6, <3>1
      <3> QED
        BY <3>2
    <2>4. ~(f[n] = m /\ f[m] = n)
      <3>1. {n, m} \in SUBSET Names /\ {n, m} # {}
        OBVIOUS
      <3>2. \E x \in {n, m} : f[x] \notin {n, m}
        BY <2>6, <3>1
      <3> QED
        BY <3>2
    <2> QED
      BY <2>2, <2>3, <2>4 DEF Paired
  <1> QED
    BY <1>1, <1>3, <1>4, <1>5 DEF LinkInv

\* Once nothing runs and nothing is pending, the two ends of a link agree, for
\* any number of tasks, commands, failures and kills; the tasks that are not
\* Sound are excused.
THEOREM LinksAlwaysAgree == Spec => []LinksAgree
  <1>1. Init => LinkInv
    BY LinkInit
  <1>2. LinkInv /\ [Next]_vars => LinkInv'
    BY LinkStep, LinkStays
  <1>3. LinkInv => LinksAgree
    <2> SUFFICES ASSUME LinkInv, Quiet, NEW n \in Names, Sound(n), IsFull(active[n])
                 PROVE  /\ \A m \in active[n].doc.children :
                              Sound(m) => IsFull(active[m]) /\ active[m].doc.parent = n
                        /\ LET m == active[n].doc.parent IN
                           m # None /\ Sound(m) => IsFull(active[m]) /\ n \in active[m].doc.children
      BY DEF LinksAgree
    <2>1. active[n].doc \in Docs
      BY DirKinds DEF LinkInv, CycleInv, EditInv, HomeInv, Shape, TypeOK
    <2>2. \A x, y : ~Open(x, y) /\ ~Gone(x)
      BY DEF Quiet, Open, Half, Gone, Empty, Running
    <2>3. ASSUME NEW x \in Names, NEW y \in Names, Sound(x), Sound(y)
          PROVE  Child(x, y) <=> Parent(y) = x
      BY <2>2, <2>3 DEF LinkInv, Paired
    <2>4. ASSUME NEW m \in active[n].doc.children, Sound(m)
          PROVE  IsFull(active[m]) /\ active[m].doc.parent = n
      <3>1. m \in Names /\ n # None
        BY <2>1, <2>4, NamesAssumption DEF Docs
      <3>2. Parent(m) = n
        BY <2>3, <2>4, <3>1 DEF Child, ChildrenIn
      <3> QED
        BY <3>1, <3>2 DEF Parent, ParentIn
    <2>5. ASSUME NEW m, m = active[n].doc.parent, m # None, Sound(m)
          PROVE  IsFull(active[m]) /\ n \in active[m].doc.children
      <3>1. m \in Names
        BY <2>1, <2>5 DEF Docs
      <3>2. Child(m, n)
        BY <2>3, <2>5, <3>1 DEF Parent, ParentIn
      <3> QED
        BY <3>2 DEF Child, ChildrenIn
    <2> QED
      BY <2>4, <2>5
  <1> QED
    BY <1>1, <1>2, <1>3, PTL DEF Spec


=============================================================================
