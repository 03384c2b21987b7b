------------------------ MODULE RuntimeContext_proofs ------------------------
(***************************************************************************)
(* Proofs about RuntimeContext: its type invariant, and that contexts of   *)
(* one task come to overlap, a context changes its host session and        *)
(* evidence is lost only through a write of something that was read before *)
(* somebody else wrote it.                                                 *)
(***************************************************************************)
EXTENDS RuntimeContext, TLAPS

-----------------------------------------------------------------------------
(* Operators on claims and files.                                          *)

\* Two contexts collide whichever of them is named first.
LEMMA CollideSymmetric == \A a, b : Collide(a, b) => Collide(b, a)
<1> SUFFICES ASSUME NEW a, NEW b, Collide(a, b) PROVE Collide(b, a)
  OBVIOUS
<1>1. OwnedOverlap(b.owns, a.owns)
  BY DEF Collide, OwnedOverlap, PathsOverlap
<1>2. QED
  BY <1>1 DEF Collide

\* Whether a file is open, and whether one exists, is told by its status.
LEMMA OpenExists == \A x : Open(x) => x.status # "absent"
  BY DEF Open

-----------------------------------------------------------------------------
(* Type correctness.                                                       *)

\* What a process remembers of a context file is no newer than the file, is
\* the file itself if it has its revision, and was fit for what it goes on to
\* do with it.
Remembers(q, files, n) ==
    /\ q.op \in {"bind", "close"} =>
          /\ q.snap.rev > 0 /\ q.snap.rev <= files[q.c].rev
          /\ q.snap.rev = files[q.c].rev => q.snap = files[q.c]
          /\ q.snap.evidence \subseteq 1..n
    /\ q.op = "bind" => Open(q.snap) /\ q.snap.key \in {None, q.key}
    /\ q.op \in {"list", "init"} => \A o \in Contexts : q.saw[o] <= files[o].rev
    /\ q.op = "init" /\ Claims(q.asked) =>
          \A o \in Contexts \ {q.c} :
             o \notin q.unread /\ q.saw[o] = files[o].rev =>
                ~(Open(files[o]) /\ Collide(q.asked, files[o].asked))

Memory == \A p \in Procs : Remembers(call[p], ctx, entries)

Inv == TypeOK /\ Memory

\* A file is as it was, or it has a newer revision.
Advances(old, new) == \A c \in Contexts : new[c] = old[c] \/ new[c].rev > old[c].rev

\* A memory outlives the writes of others.
LEMMA RemembersOn ==
    ASSUME NEW q \in Calls, NEW old \in [Contexts -> ContextFile],
           NEW new \in [Contexts -> ContextFile], NEW n \in Nat, NEW m \in Nat, n <= m,
           Advances(old, new), Remembers(q, old, n)
    PROVE  Remembers(q, new, m)
<1>1. \A c \in Contexts : old[c].rev \in Nat /\ new[c].rev \in Nat /\ old[c].rev <= new[c].rev
  BY DEF Advances, ContextFile
<1>2. CASE q.op \in {"bind", "close"}
  <2>1. q.c \in Contexts /\ q.snap \in ContextFile
    BY <1>2 DEF Calls, Idle
  <2>2. q.snap.rev \in Nat
    BY <2>1 DEF ContextFile
  <2>3. q.snap.rev > 0 /\ q.snap.rev <= new[q.c].rev
    BY <1>1, <1>2, <2>1, <2>2 DEF Remembers
  <2>4. q.snap.rev = new[q.c].rev => q.snap = new[q.c]
    BY <1>1, <1>2, <2>1, <2>2 DEF Remembers, Advances
  <2>5. q.snap.evidence \subseteq 1..m
    BY <1>2 DEF Remembers
  <2>6. QED
    BY <1>2, <2>3, <2>4, <2>5 DEF Remembers
<1>3. CASE q.op \in {"list", "init"}
  <2>1. q.saw \in [Contexts -> Nat]
    BY <1>3 DEF Calls, Idle
  <2>2. \A o \in Contexts : q.saw[o] <= new[o].rev
    BY <1>1, <1>3, <2>1 DEF Remembers
  <2>3. ASSUME q.op = "init", Claims(q.asked), NEW o \in Contexts \ {q.c}, o \notin q.unread,
               q.saw[o] = new[o].rev
        PROVE  ~(Open(new[o]) /\ Collide(q.asked, new[o].asked))
    <3>1. new[o] = old[o]
      BY <1>1, <1>3, <2>1, <2>3 DEF Remembers, Advances
    <3>2. QED
      BY <2>3, <3>1 DEF Remembers
  <2>4. QED
    BY <1>3, <2>2, <2>3 DEF Remembers
<1>4. CASE q.op \notin {"bind", "close", "list", "init"}
  BY <1>4 DEF Remembers
<1>5. QED
  BY <1>2, <1>3, <1>4

\* An idle process remembers nothing.
LEMMA IdleRemembers == \A files, n : Remembers(Idle, files, n)
  BY DEF Remembers, Idle

\* Sentinels are told from contexts.
LEMMA Sentinels == None \notin Contexts /\ None \notin Keys /\ None \notin Tasks
  BY NoneAssumption

LEMMA FileTypes ==
    /\ Unasked \in Assignments \cup {Unasked}
    /\ Absent \in ContextFile
    /\ \A a \in Assignments, r \in Nat : Fresh(a, r) \in ContextFile
  BY DEF Absent, ContextFile, Fresh, Statuses, Unasked

LEMMA SessionTypes ==
    /\ NoSession \in SessionFile /\ ~(NoSession.scope = "subagent") /\ NoSession.rc \notin Contexts
    /\ \A t \in Tasks : Main(t) \in SessionFile /\ Main(t).scope # "subagent" /\ Main(t).rc \notin Contexts
    /\ \A c \in Contexts, t \in Tasks \cup {None} :
          Sub(c, t) \in SessionFile /\ Sub(c, t).scope = "subagent" /\ Sub(c, t).rc \in Contexts
  BY Sentinels DEF NoSession, Main, Sub, SessionFile

-----------------------------------------------------------------------------
(* The parts of the type invariant, each for the state parts it is about.   *)

FilesOK(files, n) ==
    /\ files \in [Contexts -> ContextFile]
    /\ n \in Nat
    /\ \A c \in Contexts :
           /\ files[c].evidence \subseteq 1..n
           /\ files[c].rev = 0 <=> files[c] = Absent
           /\ files[c].status = "absent" => files[c].rev = 0

SessionsOK(ss) ==
    /\ ss \in [Keys -> SessionFile]
    /\ \A k \in Keys : ss[k].scope = "subagent" <=> ss[k].rc \in Contexts

Parts ==
    /\ FilesOK(ctx, entries) /\ SessionsOK(session)
    /\ call \in [Procs -> Calls]
    /\ mains \in Nat
    /\ logical \subseteq {c \in Contexts : Exists(c)}

LEMMA PartsAreAll == TypeOK <=> Parts
  BY DEF TypeOK, Parts, FilesOK, SessionsOK

\* One written file.
LEMMA FileWritten ==
    ASSUME NEW files, NEW n, FilesOK(files, n), NEW m \in Nat, n <= m,
           NEW c \in Contexts, NEW x \in ContextFile,
           x.rev = files[c].rev + 1, x.status # "absent", x.evidence \subseteq 1..m
    PROVE  LET new == [files EXCEPT ![c] = x]
           IN FilesOK(new, m) /\ Advances(files, new)
<1> DEFINE new == [files EXCEPT ![c] = x]
<1>1. files \in [Contexts -> ContextFile] /\ n \in Nat
  BY DEF FilesOK
<1>2. new \in [Contexts -> ContextFile]
  BY <1>1
<1>3. new[c] = x /\ \A o \in Contexts : o # c => new[o] = files[o]
  BY <1>1
<1>4. files[c].rev \in Nat /\ x.rev \in Nat /\ x.rev > 0
  BY <1>1 DEF ContextFile
<1>5. x # Absent
  BY <1>4 DEF Absent
<1>6. \A o \in Contexts : files[o].evidence \subseteq 1..m
  BY <1>1 DEF FilesOK
<1>7. FilesOK(new, m)
  <2>1. ASSUME NEW o \in Contexts
        PROVE  /\ new[o].evidence \subseteq 1..m
               /\ new[o].rev = 0 <=> new[o] = Absent
               /\ new[o].status = "absent" => new[o].rev = 0
    <3>1. CASE o = c
      BY <1>3, <1>4, <1>5, <3>1
    <3>2. CASE o # c
      BY <1>3, <1>6, <3>2 DEF FilesOK
    <3>3. QED
      BY <3>1, <3>2
  <2>2. QED
    BY <1>2, <2>1 DEF FilesOK
<1>8. Advances(files, new)
  BY <1>3, <1>4 DEF Advances
<1>9. QED
  BY <1>7, <1>8

\* Nothing written.
LEMMA NothingWritten ==
    ASSUME NEW files PROVE Advances(files, files)
  BY DEF Advances

\* A step keeps the invariant if it writes well formed files and one process,
\* at most, changes its call to one it remembers rightly.
LEMMA StepKeeps ==
    ASSUME Inv,
           FilesOK(ctx', entries'), entries <= entries', Advances(ctx, ctx'),
           SessionsOK(session'), mains' \in Nat,
           logical' \subseteq {c \in Contexts : Exists(c)'},
           NEW p \in Procs, NEW q \in Calls,
           call' = call \/ (call' = [call EXCEPT ![p] = q] /\ Remembers(q, ctx', entries'))
    PROVE  Inv'
<1>0. Parts
  BY PartsAreAll DEF Inv
<1>1. call \in [Procs -> Calls] /\ ctx \in [Contexts -> ContextFile] /\ entries \in Nat
      /\ ctx' \in [Contexts -> ContextFile] /\ entries' \in Nat
  BY <1>0 DEF Parts, FilesOK
<1>2. call' \in [Procs -> Calls]
  BY <1>1
<1>3. Parts'
  BY <1>2 DEF Parts
<1>4. TypeOK'
  BY <1>3, PartsAreAll, PTL
<1>5. ASSUME NEW r \in Procs PROVE Remembers(call[r], ctx', entries')
  <2>1. Remembers(call[r], ctx, entries)
    BY DEF Inv, Memory
  <2>2. QED
    BY <1>1, <2>1, RemembersOn
<1>6. ASSUME NEW r \in Procs PROVE Remembers(call'[r], ctx', entries')
  <2>1. CASE call'[r] = call[r]
    BY <1>5, <2>1
  <2>2. CASE call'[r] # call[r]
    BY <1>1, <2>2
  <2>3. QED
    BY <2>1, <2>2
<1>7. Memory'
  BY <1>6 DEF Memory
<1>8. QED
  BY <1>4, <1>7 DEF Inv

\* The types that a step starts from.
LEMMA InvTypes ==
    ASSUME Inv
    PROVE  /\ FilesOK(ctx, entries) /\ SessionsOK(session)
           /\ ctx \in [Contexts -> ContextFile] /\ session \in [Keys -> SessionFile]
           /\ call \in [Procs -> Calls] /\ entries \in Nat /\ mains \in Nat
           /\ logical \subseteq {c \in Contexts : Exists(c)}
           /\ \A c \in Contexts : ctx[c].rev \in Nat /\ (Exists(c) <=> ctx[c].rev > 0)
           /\ \A c \in Contexts : ctx[c].evidence \subseteq 1..entries
<1>1. Parts
  BY PartsAreAll DEF Inv
<1>2. \A c \in Contexts : ctx[c].rev \in Nat /\ (Exists(c) <=> ctx[c].rev > 0)
  BY <1>1 DEF Parts, FilesOK, ContextFile, Exists, Absent
<1>3. QED
  BY <1>1, <1>2 DEF Parts, FilesOK, SessionsOK

\* A step that only changes what one process remembers.
LEMMA QuietKeeps ==
    ASSUME Inv, Quiet, NEW p \in Procs, NEW q \in Calls,
           call' = [call EXCEPT ![p] = q], Remembers(q, ctx, entries)
    PROVE  Inv'
<1>1. FilesOK(ctx', entries') /\ entries <= entries' /\ SessionsOK(session') /\ mains' \in Nat
  BY InvTypes DEF Quiet
<1>2. Advances(ctx, ctx')
  BY NothingWritten DEF Quiet
<1>3. logical' \subseteq {c \in Contexts : Exists(c)'}
  BY InvTypes DEF Quiet, Exists
<1>4. Remembers(q, ctx', entries')
  BY DEF Quiet
<1>5. QED
  BY <1>1, <1>2, <1>3, <1>4, StepKeeps

LEMMA IdleIsCall == Idle \in Calls
  BY DEF Calls

\* A process gives up: it remembers nothing and nothing is written.
LEMMA FinishKeeps ==
    ASSUME Inv, Quiet, NEW p \in Procs, Finish(p)
    PROVE  Inv'
  BY QuietKeeps, IdleIsCall, IdleRemembers DEF Finish

\* A file that exists goes on to exist.
LEMMA StillThere ==
    ASSUME Inv, FilesOK(ctx', entries'), Advances(ctx, ctx')
    PROVE  \A c \in Contexts : Exists(c) => Exists(c)'
<1> SUFFICES ASSUME NEW c \in Contexts, Exists(c) PROVE Exists(c)'
  OBVIOUS
<1>1. ctx[c].rev \in Nat /\ ctx[c].rev > 0 /\ ctx'[c].rev \in Nat
  BY InvTypes DEF FilesOK, ContextFile
<1>2. ctx'[c].rev # 0
  BY <1>1 DEF Advances
<1>3. QED
  BY <1>2 DEF FilesOK, Exists

\* A step that writes one context file, its call being over.
LEMMA WriteKeeps ==
    ASSUME Inv, NEW c \in Contexts, NEW x \in ContextFile,
           x.rev = ctx[c].rev + 1, x.status # "absent",
           entries' \in Nat, entries <= entries', x.evidence \subseteq 1..entries',
           ctx' = [ctx EXCEPT ![c] = x],
           SessionsOK(session'), mains' = mains, logical' \subseteq logical \cup {c},
           NEW p \in Procs, call' = call \/ call' = [call EXCEPT ![p] = Idle]
    PROVE  Inv' /\ Advances(ctx, ctx')
<1>1. FilesOK(ctx', entries') /\ Advances(ctx, ctx')
  BY InvTypes, FileWritten
<1>2. mains' \in Nat
  BY InvTypes
<1>3. logical' \subseteq {o \in Contexts : Exists(o)'}
  <2>1. ctx'[c].status # "absent"
    BY InvTypes
  <2>2. \A o \in logical : o \in Contexts /\ ctx'[o].status # "absent"
    BY <1>1, StillThere, InvTypes DEF Exists
  <2>3. QED
    BY <2>1, <2>2 DEF Exists
<1>4. Inv'
  BY <1>1, <1>2, <1>3, StepKeeps, IdleIsCall, IdleRemembers
<1>5. QED
  BY <1>1, <1>4

-----------------------------------------------------------------------------
(* subagent init.                                                          *)

LEMMA BeginInitKeeps ==
    ASSUME Inv, NEW p \in Procs, NEW c \in Contexts, NEW a \in Assignments, BeginInit(p, c, a)
    PROVE  Inv'
<1> DEFINE q == [op |-> "chosen", c |-> c, asked |-> a]
<1>1. q \in Calls
  BY DEF Calls
<1>2. Remembers(q, ctx, entries)
  BY DEF Remembers
<1>3. QED
  BY <1>1, <1>2, QuietKeeps DEF BeginInit

LEMMA InitLoadKeeps ==
    ASSUME Inv, NEW p \in Procs, InitLoad(p)
    PROVE  Inv'
<1> DEFINE q == [op |-> IF Claims(call[p].asked) THEN "list" ELSE "init",
                 c |-> call[p].c, asked |-> call[p].asked, unread |-> {},
                 saw |-> [o \in Contexts |-> 0]]
<1>1. CASE Finish(p)
  BY <1>1, FinishKeeps DEF InitLoad
<1>2. CASE call' = [call EXCEPT ![p] = q]
  <2>1. call[p] \in Calls /\ call[p].op = "chosen"
    BY InvTypes DEF InitLoad
  <2>2. call[p].c \in Contexts /\ call[p].asked \in Assignments
    BY <2>1 DEF Calls, Idle
  <2>3. q \in Calls
    BY <2>2 DEF Calls
  <2>4. Remembers(q, ctx, entries)
    <3>1. \A o \in Contexts : q.saw[o] <= ctx[o].rev
      BY InvTypes
    <3>2. q.op = "init" => ~Claims(q.asked)
      OBVIOUS
    <3>3. QED
      BY <3>1, <3>2 DEF Remembers
  <2>5. QED
    BY <1>2, <2>3, <2>4, QuietKeeps DEF InitLoad
<1>3. QED
  BY <1>1, <1>2 DEF InitLoad, Reading

\* What a process that lists or reads the directory remembers.
LEMMA ListingTypes ==
    ASSUME Inv, NEW p \in Procs, call[p].op \in {"list", "init"}
    PROVE  /\ call[p].c \in Contexts /\ call[p].asked \in Assignments
           /\ call[p].unread \subseteq Contexts /\ call[p].saw \in [Contexts -> Nat]
           /\ call[p] = [op |-> call[p].op, c |-> call[p].c, asked |-> call[p].asked,
                         unread |-> call[p].unread, saw |-> call[p].saw]
           /\ Remembers(call[p], ctx, entries)
<1>1. call[p] \in Calls
  BY InvTypes
<1>2. call[p] \in [op : {"list", "init"}, c : Contexts, asked : Assignments,
                   unread : SUBSET Contexts, saw : [Contexts -> Nat]]
  BY <1>1 DEF Calls, Idle
<1>3. QED
  BY <1>2 DEF Inv, Memory

LEMMA InitListKeeps ==
    ASSUME Inv, NEW p \in Procs, InitList(p)
    PROVE  Inv'
<1> DEFINE U == {o \in Contexts : Exists(o)} \ {call[p].c}
           q == [op |-> "init", c |-> call[p].c, asked |-> call[p].asked,
                 unread |-> U, saw |-> call[p].saw]
<1>0. call \in [Procs -> Calls] /\ call[p].op \in {"list", "init"}
  BY InvTypes DEF InitList
<1>1. call' = [call EXCEPT ![p] = q]
  BY <1>0 DEF InitList, Reading
<1>2. q \in Calls
  BY <1>0, ListingTypes DEF Calls
<1>3. Remembers(q, ctx, entries)
  <2>1. \A o \in Contexts : q.saw[o] <= ctx[o].rev
    BY <1>0, ListingTypes DEF Remembers
  <2>2. \A o \in Contexts \ {q.c} : o \notin q.unread => ~Open(ctx[o])
    BY OpenExists DEF Exists
  <2>3. QED
    BY <2>1, <2>2 DEF Remembers
<1>4. QED
  BY <1>1, <1>2, <1>3, QuietKeeps DEF InitList

LEMMA InitExamineKeeps ==
    ASSUME Inv, NEW p \in Procs, NEW o \in Contexts, InitExamine(p, o)
    PROVE  Inv'
<1> DEFINE S == [call[p].saw EXCEPT ![o] = ctx[o].rev]
           q == [op |-> "init", c |-> call[p].c, asked |-> call[p].asked,
                 unread |-> call[p].unread \ {o}, saw |-> S]
<1>0. call \in [Procs -> Calls] /\ call[p].op = "init" /\ call[p].op \in {"list", "init"}
  BY InvTypes DEF InitExamine
<1>1. CASE Open(ctx[o]) /\ Collide(call[p].asked, ctx[o].asked)
  BY <1>1, FinishKeeps DEF InitExamine
<1>2. CASE ~(Open(ctx[o]) /\ Collide(call[p].asked, ctx[o].asked))
  <2>1. call' = [call EXCEPT ![p] = q]
    BY <1>0, <1>2 DEF InitExamine, Reading
  <2>2. call[p].saw \in [Contexts -> Nat] /\ ctx[o].rev \in Nat
    BY <1>0, ListingTypes, InvTypes
  <2>3. q \in Calls
    BY <1>0, <2>2, ListingTypes DEF Calls
  <2>4. S[o] = ctx[o].rev /\ \A x \in Contexts : x # o => S[x] = call[p].saw[x]
    BY <2>2
  <2>5. \A x \in Contexts : S[x] <= ctx[x].rev
    BY <1>0, <2>2, <2>4, ListingTypes DEF Remembers
  <2>6. ASSUME Claims(q.asked), NEW x \in Contexts \ {q.c}, x \notin q.unread,
               q.saw[x] = ctx[x].rev
        PROVE  ~(Open(ctx[x]) /\ Collide(q.asked, ctx[x].asked))
    <3>1. CASE x = o
      BY <1>2, <3>1
    <3>2. CASE x # o
      BY <1>0, <2>4, <2>6, <3>2, ListingTypes DEF Remembers
    <3>3. QED
      BY <3>1, <3>2
  <2>7. Remembers(q, ctx, entries)
    BY <2>5, <2>6 DEF Remembers
  <2>8. QED
    BY <2>1, <2>3, <2>7, QuietKeeps DEF InitExamine
<1>3. QED
  BY <1>1, <1>2

LEMMA InitCommitKeeps ==
    ASSUME Inv, NEW p \in Procs, InitCommit(p)
    PROVE  Inv' /\ Advances(ctx, ctx')
<1> DEFINE c == call[p].c
           x == Fresh(call[p].asked, ctx[c].rev + 1)
<1>0. c \in Contexts /\ call[p].asked \in Assignments
  BY ListingTypes DEF InitCommit
<1>1. ctx[c].rev \in Nat
  BY <1>0, InvTypes
<1>2. x \in ContextFile /\ x.rev = ctx[c].rev + 1 /\ x.status # "absent" /\ x.evidence \subseteq 1..entries
  <2>1. ctx[c].rev + 1 \in Nat
    BY <1>1
  <2>2. x \in ContextFile
    BY <1>0, <2>1, FileTypes
  <2>3. QED
    BY <2>2 DEF Fresh
<1>3. ctx' = [ctx EXCEPT ![c] = x] /\ entries' = entries /\ entries \in Nat
  BY InvTypes DEF InitCommit
<1>4. /\ SessionsOK(session') /\ mains' = mains /\ logical' \subseteq logical \cup {c}
      /\ call' = [call EXCEPT ![p] = Idle]
      /\ entries' \in Nat /\ entries <= entries' /\ x.evidence \subseteq 1..entries'
  BY <1>2, <1>3, InvTypes DEF InitCommit, Finish
<1> HIDE DEF c, x
<1>5. QED
  BY <1>0, <1>2, <1>3, <1>4, WriteKeeps

-----------------------------------------------------------------------------
(* subagent update and evidence.                                           *)

LEMMA UpdateKeeps ==
    ASSUME Inv, NEW p \in Procs, NEW c \in Contexts, NEW s \in Statuses, Update(p, c, s)
    PROVE  /\ Inv' /\ Advances(ctx, ctx')
           /\ ctx' = [ctx EXCEPT ![c] = ctx'[c]]
           /\ ctx'[c].key = ctx[c].key /\ ctx'[c].asked = ctx[c].asked
           /\ ctx'[c].evidence = ctx[c].evidence
<1> DEFINE x1 == [ctx[c] EXCEPT !.status = s]
           x  == [x1 EXCEPT !.rev = ctx[c].rev + 1]
<1>0. ctx[c] \in ContextFile /\ ctx[c].rev + 1 \in Nat
  BY InvTypes
<1>1. /\ x1 \in ContextFile /\ x1.status = s
      /\ x1.key = ctx[c].key /\ x1.asked = ctx[c].asked /\ x1.evidence = ctx[c].evidence
  BY <1>0 DEF ContextFile
<1> HIDE DEF x1
<1>2. /\ x \in ContextFile /\ x.rev = ctx[c].rev + 1 /\ x.status = s
      /\ x.key = ctx[c].key /\ x.asked = ctx[c].asked /\ x.evidence = ctx[c].evidence
  BY <1>0, <1>1 DEF ContextFile
<1>3. ctx' = [ctx EXCEPT ![c] = x]
  BY InvTypes DEF Update, x1
<1> HIDE DEF x
<1>4. s # "absent"
  BY DEF Statuses
<1>5. /\ entries' \in Nat /\ entries <= entries' /\ x.evidence \subseteq 1..entries'
      /\ SessionsOK(session') /\ mains' = mains /\ logical' \subseteq logical \cup {c}
      /\ call' = call /\ x.status # "absent"
  BY <1>2, <1>4, InvTypes DEF Update
<1>6. Inv' /\ Advances(ctx, ctx')
  BY <1>2, <1>3, <1>5, WriteKeeps
<1>7. ctx'[c] = x
  BY <1>3, InvTypes
<1>8. QED
  BY <1>2, <1>3, <1>6, <1>7

LEMMA EvidenceKeeps ==
    ASSUME Inv, NEW p \in Procs, NEW c \in Contexts, Evidence(p, c)
    PROVE  /\ Inv' /\ Advances(ctx, ctx')
           /\ ctx' = [ctx EXCEPT ![c] = ctx'[c]]
           /\ ctx'[c].key = ctx[c].key /\ ctx'[c].asked = ctx[c].asked
           /\ ctx'[c].status = ctx[c].status
           /\ ctx[c].evidence \subseteq ctx'[c].evidence
<1> DEFINE e  == ctx[c].evidence \cup {entries'}
           x1 == [ctx[c] EXCEPT !.evidence = e]
           x  == [x1 EXCEPT !.rev = ctx[c].rev + 1]
<1>0. ctx[c] \in ContextFile /\ ctx[c].rev + 1 \in Nat /\ entries \in Nat /\ entries' = entries + 1
  BY InvTypes DEF Evidence
<1>1. e \subseteq 1..entries' /\ ctx[c].evidence \subseteq e /\ e \subseteq Nat
  <2>1. ctx[c].evidence \subseteq 1..entries
    BY InvTypes
  <2>2. QED
    BY <1>0, <2>1
<1>2. ctx' = [ctx EXCEPT ![c] = x]
  BY InvTypes DEF Evidence
<1> HIDE DEF e
<1>3. /\ x1 \in ContextFile /\ x1.status = ctx[c].status
      /\ x1.key = ctx[c].key /\ x1.asked = ctx[c].asked /\ x1.evidence = e
  BY <1>0, <1>1 DEF ContextFile
<1> HIDE DEF x1
<1>4. /\ x \in ContextFile /\ x.rev = ctx[c].rev + 1 /\ x.status = ctx[c].status
      /\ x.key = ctx[c].key /\ x.asked = ctx[c].asked /\ x.evidence = e
  BY <1>0, <1>3 DEF ContextFile
<1> HIDE DEF x
<1>5. x.status # "absent" /\ SessionsOK(session') /\ entries' \in Nat /\ entries <= entries'
  BY <1>0, <1>4, InvTypes DEF Evidence, Exists
<1>6. Inv' /\ Advances(ctx, ctx')
  BY <1>1, <1>2, <1>4, <1>5, WriteKeeps DEF Evidence
<1>7. ctx'[c] = x
  BY <1>2, InvTypes
<1>8. QED
  BY <1>1, <1>2, <1>4, <1>6, <1>7

-----------------------------------------------------------------------------
(* subagent bind and close.                                                *)

LEMMA BeginBindKeeps ==
    ASSUME Inv, NEW p \in Procs, NEW c \in Contexts, NEW k \in Keys, BeginBind(p, c, k)
    PROVE  Inv'
<1> DEFINE q == [op |-> "bind", c |-> c, key |-> k, snap |-> ctx[c]]
<1>1. q \in Calls
  BY InvTypes DEF Calls
<1>2. ctx[c].rev > 0 /\ ctx[c].rev \in Nat
  BY InvTypes, OpenExists DEF BeginBind, Exists
<1>3. Remembers(q, ctx, entries)
  BY <1>2, InvTypes DEF Remembers, BeginBind
<1>4. QED
  BY <1>1, <1>3, QuietKeeps DEF BeginBind

\* A hook that binds is a bind.
LEMMA HookBinds ==
    ASSUME NEW p, NEW c, NEW said \in Keys \cup {None}, NEW own \in Keys \cup {None},
           HookBind(p, c, said, own)
    PROVE  \E k \in Keys : BeginBind(p, c, k)
  BY DEF HookBind

LEMMA BeginCloseKeeps ==
    ASSUME Inv, NEW p \in Procs, NEW c \in Contexts, BeginClose(p, c)
    PROVE  Inv'
<1> DEFINE q == [op |-> "close", c |-> c, snap |-> ctx[c]]
<1>1. q \in Calls
  BY InvTypes DEF Calls
<1>2. ctx[c].rev > 0 /\ ctx[c].rev \in Nat
  BY InvTypes DEF BeginClose
<1>3. Remembers(q, ctx, entries)
  BY <1>2, InvTypes DEF Remembers, BeginClose
<1>4. QED
  BY <1>1, <1>3, QuietKeeps DEF BeginClose

\* What a process that is about to bind or close remembers.
LEMMA SnapTypes ==
    ASSUME Inv, NEW p \in Procs, call[p].op \in {"bind", "close"}
    PROVE  /\ call[p].c \in Contexts /\ call[p].snap \in ContextFile
           /\ call[p].op = "bind" => call[p].key \in Keys
           /\ Remembers(call[p], ctx, entries)
<1>1. call[p] \in Calls
  BY InvTypes
<1>2. call[p].c \in Contexts /\ call[p].snap \in ContextFile
      /\ (call[p].op = "bind" => call[p].key \in Keys)
  BY <1>1 DEF Calls, Idle
<1>3. QED
  BY <1>2 DEF Inv, Memory

LEMMA BindCommitKeeps ==
    ASSUME Inv, NEW p \in Procs, BindCommit(p)
    PROVE  /\ Inv' /\ Advances(ctx, ctx')
           /\ ctx' = [ctx EXCEPT ![call[p].c] = ctx'[call[p].c]]
           /\ ctx'[call[p].c].rev = ctx[call[p].c].rev + 1
           /\ ctx'[call[p].c].key = call[p].key
           /\ ctx'[call[p].c].asked = call[p].snap.asked
           /\ ctx'[call[p].c].evidence = call[p].snap.evidence
<1> DEFINE c == call[p].c
           s == call[p].snap
           k == call[p].key
           r == ctx[c].rev + 1
           x1 == [s EXCEPT !.status = "bound"]
           x2 == [x1 EXCEPT !.key = k]
           x  == [x2 EXCEPT !.rev = r]
<1>0. /\ c \in Contexts /\ s \in ContextFile /\ k \in Keys
      /\ s.evidence \subseteq 1..entries
  BY SnapTypes DEF BindCommit, Remembers
<1>1. r \in Nat /\ r = ctx[c].rev + 1
  BY <1>0, InvTypes
<1>2. ctx' = [ctx EXCEPT ![c] = x]
  BY DEF BindCommit
<1>3. session' = [session EXCEPT ![k] = Sub(c, s.asked.task)] /\ logical' = logical
      /\ entries' = entries /\ mains' = mains /\ call' = [call EXCEPT ![p] = Idle]
  BY DEF BindCommit, Finish
<1>4. SessionsOK(session')
  <2>1. s.asked \in Assignments \cup {Unasked}
    BY <1>0 DEF ContextFile
  <2>2. s.asked.task \in Tasks \cup {None}
    BY <2>1, AssignmentAssumption DEF Unasked
  <2>3. Sub(c, s.asked.task) \in SessionFile /\ Sub(c, s.asked.task).scope = "subagent"
        /\ Sub(c, s.asked.task).rc \in Contexts
    BY <1>0, <2>2, SessionTypes
  <2>4. SessionsOK(session)
    BY InvTypes
  <2> HIDE DEF c, s, k
  <2>5. QED
    BY <1>0, <1>3, <2>3, <2>4 DEF SessionsOK
<1> HIDE DEF r, c, s, k
<1>5. /\ x1 \in ContextFile /\ x1.status = "bound"
      /\ x1.asked = s.asked /\ x1.evidence = s.evidence
  BY <1>0 DEF ContextFile, Statuses
<1> HIDE DEF x1
<1>6. /\ x2 \in ContextFile /\ x2.status = "bound" /\ x2.key = k
      /\ x2.asked = s.asked /\ x2.evidence = s.evidence
  BY <1>0, <1>5 DEF ContextFile
<1> HIDE DEF x2
<1>7. /\ x \in ContextFile /\ x.status = "bound" /\ x.key = k /\ x.rev = r
      /\ x.asked = s.asked /\ x.evidence = s.evidence
  BY <1>0, <1>1, <1>6 DEF ContextFile
<1> HIDE DEF x
<1>8. Inv' /\ Advances(ctx, ctx')
  <2>1. entries \in Nat /\ entries <= entries'
    BY <1>3, InvTypes
  <2>2. QED
    BY <1>0, <1>1, <1>2, <1>3, <1>4, <1>7, <2>1, WriteKeeps
<1>9. ctx'[c] = x
  BY <1>0, <1>2, InvTypes
<1>10. QED
  BY <1>1, <1>2, <1>7, <1>8, <1>9 DEF c, s, k

LEMMA CloseCommitKeeps ==
    ASSUME Inv, NEW p \in Procs, CloseCommit(p)
    PROVE  /\ Inv' /\ Advances(ctx, ctx')
           /\ ctx' = [ctx EXCEPT ![call[p].c] = ctx'[call[p].c]]
           /\ ctx'[call[p].c].rev = ctx[call[p].c].rev + 1
           /\ ctx'[call[p].c].key = call[p].snap.key
           /\ ctx'[call[p].c].status = "closed"
           /\ ctx'[call[p].c].evidence = call[p].snap.evidence
<1> DEFINE c == call[p].c
           s == call[p].snap
           r == ctx[c].rev + 1
           x1 == [s EXCEPT !.status = "closed"]
           x  == [x1 EXCEPT !.rev = r]
<1>0. /\ c \in Contexts /\ s \in ContextFile /\ s.evidence \subseteq 1..entries
  BY SnapTypes DEF CloseCommit, Remembers
<1>1. r \in Nat /\ r = ctx[c].rev + 1
  BY <1>0, InvTypes
<1>2. ctx' = [ctx EXCEPT ![c] = x]
  BY DEF CloseCommit
<1>3. session' = [k \in Keys |-> IF k = s.key THEN NoSession ELSE session[k]]
      /\ logical' = logical \ {c}
      /\ entries' = entries /\ mains' = mains /\ call' = [call EXCEPT ![p] = Idle]
  BY DEF CloseCommit, Finish
<1> HIDE DEF r, c, s
<1>4. SessionsOK(session')
  BY <1>3, InvTypes, SessionTypes DEF SessionsOK
<1>5. /\ x1 \in ContextFile /\ x1.status = "closed" /\ x1.key = s.key /\ x1.evidence = s.evidence
  BY <1>0 DEF ContextFile, Statuses
<1> HIDE DEF x1
<1>6. /\ x \in ContextFile /\ x.status = "closed" /\ x.key = s.key /\ x.rev = r
      /\ x.evidence = s.evidence
  BY <1>0, <1>1, <1>5 DEF ContextFile
<1> HIDE DEF x
<1>7. Inv' /\ Advances(ctx, ctx')
  <2>1. entries \in Nat /\ entries <= entries'
    BY <1>3, InvTypes
  <2>2. QED
    BY <1>0, <1>1, <1>2, <1>3, <1>4, <1>6, <2>1, WriteKeeps
<1>8. ctx'[c] = x
  BY <1>0, <1>2, InvTypes
<1>9. QED
  BY <1>1, <1>2, <1>6, <1>7, <1>8 DEF c, s

-----------------------------------------------------------------------------
(* The whole system.                                                       *)

LEMMA LifecycleKeeps ==
    ASSUME Inv, Lifecycle
    PROVE  Inv' /\ ctx' = ctx
<1>1. /\ ctx' = ctx /\ call' = call /\ entries' = entries /\ mains' = mains + 1
      /\ logical' \subseteq logical
  BY DEF Lifecycle, ClaimMain, ClearActive, ClearTask
<1>2. mains' \in Nat
  BY <1>1, InvTypes
<1>3. SessionsOK(session')
  <2>1. CASE \E k \in Keys, t \in Tasks : ClaimMain(k, t)
    BY <2>1, InvTypes, SessionTypes DEF ClaimMain, SessionsOK
  <2>2. CASE \E k \in Keys : ClearActive(k)
    BY <2>2, InvTypes, SessionTypes DEF ClearActive, SessionsOK
  <2>3. CASE \E t \in Tasks : ClearTask(t)
    BY <2>3, InvTypes, SessionTypes DEF ClearTask, SessionsOK
  <2>4. QED
    BY <2>1, <2>2, <2>3 DEF Lifecycle
<1>4. Parts'
  BY <1>1, <1>2, <1>3, InvTypes DEF Parts, Exists, FilesOK
<1>5. TypeOK'
  BY <1>4, PartsAreAll, PTL
<1>6. Memory'
  BY <1>1 DEF Inv, Memory
<1>7. QED
  BY <1>1, <1>5, <1>6 DEF Inv

LEMMA InitInv == Init => Inv
<1> SUFFICES ASSUME Init PROVE Inv
  OBVIOUS
<1>1. FilesOK(ctx, entries)
  <2>1. ctx \in [Contexts -> ContextFile] /\ entries = 0
    BY FileTypes DEF Init
  <2>2. \A c \in Contexts : ctx[c] = Absent
    BY DEF Init
  <2>3. Absent.evidence = {} /\ Absent.rev = 0
    BY DEF Absent
  <2>4. QED
    BY <2>1, <2>2, <2>3 DEF FilesOK
<1>2. SessionsOK(session)
  BY SessionTypes DEF Init, SessionsOK
<1>3. call \in [Procs -> Calls] /\ \A p \in Procs : call[p] = Idle
  BY IdleIsCall DEF Init
<1>4. Parts
  BY <1>1, <1>2, <1>3 DEF Parts, Init
<1>5. Memory
  BY <1>3, IdleRemembers DEF Memory
<1>6. QED
  BY <1>4, <1>5, PartsAreAll DEF Inv

\* What a step of a command is: it leaves the files alone, or it is one of the
\* writes.
Committing(p) ==
    \/ InitCommit(p) \/ BindCommit(p) \/ CloseCommit(p)
    \/ \E c \in Contexts : Evidence(p, c) \/ \E s \in Statuses : Update(p, c, s)

LEMMA CommandKeeps ==
    ASSUME Inv, NEW p \in Procs, Command(p)
    PROVE  Inv' /\ (ctx' = ctx \/ Committing(p))
<1>1. CASE Committing(p)
  BY <1>1, InitCommitKeeps, BindCommitKeeps, CloseCommitKeeps, EvidenceKeeps, UpdateKeeps
     DEF Committing
<1>2. CASE \E c \in Contexts, a \in Assignments : BeginInit(p, c, a)
  BY <1>2, BeginInitKeeps DEF BeginInit, Quiet
<1>3. CASE \E c \in Contexts, k \in Keys : BeginBind(p, c, k)
  BY <1>3, BeginBindKeeps DEF BeginBind, Quiet
<1>4. CASE \E c \in Contexts, said, own \in Keys \cup {None} : HookBind(p, c, said, own)
  <2>1. \E c \in Contexts, k \in Keys : BeginBind(p, c, k)
    BY <1>4, HookBinds
  <2>2. QED
    BY <1>3, <2>1
<1>5. CASE \E c \in Contexts : BeginClose(p, c)
  BY <1>5, BeginCloseKeeps DEF BeginClose, Quiet
<1>6. CASE \E c \in Contexts : InitExamine(p, c)
  BY <1>6, InitExamineKeeps DEF InitExamine, Quiet
<1>7. CASE InitLoad(p)
  BY <1>7, InitLoadKeeps DEF InitLoad, Quiet
<1>8. CASE InitList(p)
  BY <1>8, InitListKeeps DEF InitList, Quiet
<1>9. CASE UnitFails(p)
  BY <1>9, FinishKeeps DEF UnitFails, Quiet
<1>10. QED
  BY <1>1, <1>2, <1>3, <1>4, <1>5, <1>6, <1>7, <1>8, <1>9 DEF Command, Committing

LEMMA StepInv == Inv /\ [Next]_vars => Inv'
<1>1. ASSUME Inv, Next PROVE Inv'
  BY <1>1, CommandKeeps, LifecycleKeeps DEF Next
<1>2. ASSUME Inv, UNCHANGED vars PROVE Inv'
  BY <1>2 DEF vars, Inv, TypeOK, Memory, Exists
<1>3. QED
  BY <1>1, <1>2

LEMMA InvHolds == Spec => []Inv
  BY InitInv, StepInv, PTL DEF Spec

\* The files, the session files and the calls are well typed: only a context
\* that was never written is absent, a session file of a subagent names its
\* context, and no entry of evidence is made up.
THEOREM TypeCorrect == Spec => []TypeOK
<1>1. Inv => TypeOK
  BY DEF Inv
<1>2. QED
  BY <1>1, InvHolds, PTL

-----------------------------------------------------------------------------
(* Writes of what was read before.                                         *)

\* A bind or a close that is not stale writes over the very file it had read.
LEMMA FreshWrite ==
    ASSUME Inv, NEW p \in Procs, BindCommit(p) \/ CloseCommit(p)
    PROVE  \/ call[p].snap = ctx[call[p].c]
           \/ WritesStale(p, call[p].c)
<1>1. call[p].op \in {"bind", "close"}
  BY DEF BindCommit, CloseCommit
<1>2. call[p] # Idle /\ call'[p] = Idle
  BY <1>1, InvTypes DEF BindCommit, CloseCommit, Finish, Idle
<1>3. ctx'[call[p].c] # ctx[call[p].c]
  <2>1. call[p].c \in Contexts /\ ctx[call[p].c].rev \in Nat
    BY <1>1, SnapTypes, InvTypes
  <2>2. ctx'[call[p].c].rev = ctx[call[p].c].rev + 1
    BY BindCommitKeeps, CloseCommitKeeps
  <2>3. QED
    BY <2>1, <2>2
<1>4. CASE call[p].snap.rev = ctx[call[p].c].rev
  BY <1>1, <1>4, SnapTypes DEF Remembers
<1>5. CASE call[p].snap.rev # ctx[call[p].c].rev
  BY <1>1, <1>2, <1>3, <1>5 DEF WritesStale, Writes
<1>6. QED
  BY <1>4, <1>5

\* An init that writes over a context is stale.
LEMMA InitOverwrites ==
    ASSUME Inv, NEW p \in Procs, InitCommit(p)
    PROVE  /\ Writes(p, call[p].c)
           /\ Exists(call[p].c) => InitsStale(p, call[p].c)
           /\ ctx' = [ctx EXCEPT ![call[p].c] = ctx'[call[p].c]]
           /\ ctx'[call[p].c].asked = call[p].asked
<1>1. call[p].op \in {"list", "init"} /\ call[p].op = "init"
  BY DEF InitCommit
<1>2. call[p] # Idle /\ call'[p] = Idle
  BY <1>1, InvTypes DEF InitCommit, Finish, Idle
<1>3. call[p].c \in Contexts /\ ctx[call[p].c].rev \in Nat
  BY <1>1, ListingTypes, InvTypes
<1>4. ctx'[call[p].c] = Fresh(call[p].asked, ctx[call[p].c].rev + 1)
      /\ ctx' = [ctx EXCEPT ![call[p].c] = ctx'[call[p].c]]
  BY <1>3, InvTypes DEF InitCommit
<1>5. ctx'[call[p].c].rev = ctx[call[p].c].rev + 1
      /\ ctx'[call[p].c].asked = call[p].asked
  BY <1>4 DEF Fresh
<1>6. Writes(p, call[p].c)
  BY <1>2, <1>3, <1>5 DEF Writes
<1>7. QED
  BY <1>1, <1>4, <1>5, <1>6 DEF InitsStale

\* A step changes at most one context file: by an init, a bind or a close of it,
\* by an update of its status, or by another entry of evidence.
LEMMA StepWrites ==
    ASSUME Inv, [Next]_vars, NEW c \in Contexts, ctx'[c] # ctx[c]
    PROVE  \E p \in Procs :
              \/ (InitCommit(p) \/ BindCommit(p) \/ CloseCommit(p)) /\ call[p].c = c
              \/ Evidence(p, c) \/ \E s \in Statuses : Update(p, c, s)
<1>1. Next
  BY DEF vars
<1>2. PICK p \in Procs : Command(p) /\ ctx' # ctx
  BY <1>1, LifecycleKeeps DEF Next
<1>3. Committing(p)
  BY <1>2, CommandKeeps
<1>4. CASE InitCommit(p)
  BY <1>4, InitOverwrites, InvTypes
<1>5. CASE BindCommit(p)
  BY <1>5, BindCommitKeeps, InvTypes
<1>6. CASE CloseCommit(p)
  BY <1>6, CloseCommitKeeps, InvTypes
<1>7. ASSUME NEW d \in Contexts, Evidence(p, d) PROVE d = c
  BY <1>7, EvidenceKeeps, InvTypes
<1>8. ASSUME NEW d \in Contexts, NEW s \in Statuses, Update(p, d, s) PROVE d = c
  BY <1>8, UpdateKeeps, InvTypes
<1>9. QED
  BY <1>3, <1>4, <1>5, <1>6, <1>7, <1>8 DEF Committing

\* A context that has a key, or evidence, is there.
LEMMA HoldersExist ==
    ASSUME Inv, NEW c \in Contexts, ctx[c].key # None \/ ctx[c].evidence # {}
    PROVE  Exists(c)
<1>1. ctx[c] # Absent
  BY DEF Absent
<1>2. QED
  BY <1>1, InvTypes DEF Exists, FilesOK

\* A context that is bound to a host session stays bound to it, unless a bind
\* or an init that read the context before it was bound writes over it.
THEOREM KeysAreStable == Spec => KeyStable
<1> DEFINE Step ==
        \A c \in Contexts :
          ctx[c].key # None /\ ctx'[c].key # ctx[c].key =>
             \E p \in Procs : WritesStale(p, c) \/ InitsStale(p, c)
<1>1. ASSUME Inv, [Next]_vars PROVE Step
  <2> SUFFICES ASSUME NEW c \in Contexts, ctx[c].key # None, ctx'[c].key # ctx[c].key
               PROVE  \E p \in Procs : WritesStale(p, c) \/ InitsStale(p, c)
    OBVIOUS
  <2>1. PICK p \in Procs :
              \/ (InitCommit(p) \/ BindCommit(p) \/ CloseCommit(p)) /\ call[p].c = c
              \/ Evidence(p, c) \/ \E s \in Statuses : Update(p, c, s)
    BY <1>1, StepWrites
  <2>2. CASE InitCommit(p) /\ call[p].c = c
    BY <1>1, <2>2, InitOverwrites, HoldersExist
  <2>3. CASE BindCommit(p) /\ call[p].c = c
    <3>1. call[p].snap.key \in {None, call[p].key}
      BY <1>1, <2>3, SnapTypes DEF BindCommit, Remembers
    <3>2. ctx'[c].key = call[p].key
      BY <1>1, <2>3, BindCommitKeeps
    <3>3. call[p].snap # ctx[c]
      BY <3>1, <3>2
    <3>4. QED
      BY <1>1, <2>3, <3>3, FreshWrite
  <2>4. CASE CloseCommit(p) /\ call[p].c = c
    <3>1. ctx'[c].key = call[p].snap.key
      BY <1>1, <2>4, CloseCommitKeeps
    <3>2. QED
      BY <1>1, <2>4, <3>1, FreshWrite
  <2>5. CASE Evidence(p, c)
    BY <1>1, <2>5, EvidenceKeeps
  <2>6. CASE \E s \in Statuses : Update(p, c, s)
    BY <1>1, <2>6, UpdateKeeps
  <2>7. QED
    BY <2>1, <2>2, <2>3, <2>4, <2>5, <2>6
<1>2. Inv /\ [Next]_vars => [Step]_vars
  BY <1>1
<1>3. QED
  BY <1>2, InvHolds, PTL DEF Spec, KeyStable

\* An entry of evidence that was recorded stays recorded, unless a bind, a
\* close or an init that had read the context without it writes over it.
THEOREM EvidenceIsKept == Spec => EvidenceKept
<1> DEFINE Step ==
        \A c \in Contexts :
          ~(ctx[c].evidence \subseteq ctx'[c].evidence) =>
             \E p \in Procs : WritesStale(p, c) \/ InitsStale(p, c)
<1>1. ASSUME Inv, [Next]_vars PROVE Step
  <2> SUFFICES ASSUME NEW c \in Contexts, ~(ctx[c].evidence \subseteq ctx'[c].evidence)
               PROVE  \E p \in Procs : WritesStale(p, c) \/ InitsStale(p, c)
    OBVIOUS
  <2>0. ctx'[c] # ctx[c] /\ ctx[c].evidence # {}
    OBVIOUS
  <2>1. PICK p \in Procs :
              \/ (InitCommit(p) \/ BindCommit(p) \/ CloseCommit(p)) /\ call[p].c = c
              \/ Evidence(p, c) \/ \E s \in Statuses : Update(p, c, s)
    BY <1>1, <2>0, StepWrites
  <2>2. CASE InitCommit(p) /\ call[p].c = c
    BY <1>1, <2>0, <2>2, InitOverwrites, HoldersExist
  <2>3. CASE (BindCommit(p) \/ CloseCommit(p)) /\ call[p].c = c
    <3>1. ctx'[c].evidence = call[p].snap.evidence
      BY <1>1, <2>3, BindCommitKeeps, CloseCommitKeeps
    <3>2. QED
      BY <1>1, <2>3, <3>1, FreshWrite
  <2>4. CASE Evidence(p, c)
    BY <1>1, <2>4, EvidenceKeeps
  <2>5. CASE \E s \in Statuses : Update(p, c, s)
    BY <1>1, <2>5, UpdateKeeps
  <2>6. QED
    BY <2>1, <2>2, <2>3, <2>4, <2>5
<1>2. Inv /\ [Next]_vars => [Step]_vars
  BY <1>1
<1>3. QED
  BY <1>2, InvHolds, PTL DEF Spec, EvidenceKept

\* Two open contexts that collide, in the files f.
Clashes(f, a, b) == a # b /\ Open(f[a]) /\ Open(f[b]) /\ Collide(f[a].asked, f[b].asked)

Causes(c) ==
    \E p \in Procs :
        \/ InitsStale(p, c) \/ WritesStale(p, c)
        \/ ctx[c].status = "closed" /\ call[p] = Idle

\* The context c comes to collide with o by a write of c: the write is stale,
\* or it opens c again.
LEMMA ClashHasACause ==
    ASSUME Inv, [Next]_vars, NEW c \in Contexts, NEW o \in Contexts,
           ctx'[c] # ctx[c], Clashes(ctx', c, o), ~Clashes(ctx, c, o)
    PROVE  Causes(c)
<1>1. PICK p \in Procs :
              \/ (InitCommit(p) \/ BindCommit(p) \/ CloseCommit(p)) /\ call[p].c = c
              \/ Evidence(p, c) \/ \E s \in Statuses : Update(p, c, s)
  BY StepWrites
<1>2. c # o /\ Open(ctx'[c]) /\ Open(ctx'[o]) /\ Collide(ctx'[c].asked, ctx'[o].asked)
  BY DEF Clashes
<1>3. CASE InitCommit(p) /\ call[p].c = c
  <2>1. Writes(p, c) /\ ctx' = [ctx EXCEPT ![c] = ctx'[c]] /\ ctx'[c].asked = call[p].asked
        /\ (Exists(c) => InitsStale(p, c))
    BY <1>3, InitOverwrites
  <2>2. ctx'[o] = ctx[o]
    BY <1>2, <2>1, InvTypes
  <2>3. Open(ctx[o]) /\ Collide(call[p].asked, ctx[o].asked) /\ Claims(call[p].asked)
    BY <1>2, <2>1, <2>2 DEF Collide
  <2>4. call[p].op = "init" /\ call[p].op \in {"list", "init"} /\ call[p].unread = {}
    BY <1>3 DEF InitCommit
  <2>5. call[p].saw[o] # ctx[o].rev
    BY <1>2, <1>3, <2>3, <2>4, ListingTypes DEF Remembers
  <2>6. InitsStale(p, c)
    BY <1>2, <2>1, <2>4, <2>5 DEF InitsStale
  <2>7. QED
    BY <2>6 DEF Causes
<1>4. CASE BindCommit(p) /\ call[p].c = c
  <2>1. ctx' = [ctx EXCEPT ![c] = ctx'[c]] /\ ctx'[c].asked = call[p].snap.asked
    BY <1>4, BindCommitKeeps
  <2>2. ctx'[o] = ctx[o]
    BY <1>2, <2>1, InvTypes
  <2>3. Open(call[p].snap)
    BY <1>4, SnapTypes DEF BindCommit, Remembers
  <2>4. call[p].snap # ctx[c]
    BY <1>2, <2>1, <2>2, <2>3 DEF Clashes
  <2>5. QED
    BY <1>4, <2>4, FreshWrite DEF Causes
<1>5. CASE CloseCommit(p) /\ call[p].c = c
  BY <1>2, <1>5, CloseCommitKeeps DEF Open
<1>6. CASE Evidence(p, c)
  <2>1. ctx' = [ctx EXCEPT ![c] = ctx'[c]] /\ ctx'[c].asked = ctx[c].asked
        /\ ctx'[c].status = ctx[c].status
    BY <1>6, EvidenceKeeps
  <2>2. ctx'[o] = ctx[o]
    BY <1>2, <2>1, InvTypes
  <2>3. QED
    BY <1>2, <2>1, <2>2 DEF Clashes, Open
<1>7. CASE \E s \in Statuses : Update(p, c, s)
  <2>1. ctx' = [ctx EXCEPT ![c] = ctx'[c]] /\ ctx'[c].asked = ctx[c].asked
    BY <1>7, UpdateKeeps
  <2>2. ctx'[o] = ctx[o]
    BY <1>2, <2>1, InvTypes
  <2>3. ~Open(ctx[c]) /\ Exists(c) /\ call[p] = Idle
    BY <1>2, <1>7, <2>1, <2>2 DEF Clashes, Update
  <2>4. QED
    BY <2>3 DEF Causes, Open, Exists
<1>8. QED
  BY <1>1, <1>3, <1>4, <1>5, <1>6, <1>7

\* Two open implement contexts of a task come to own overlapping paths only by
\* an init that listed the directory too early, a stale bind, or an update that
\* opens a closed context again.
THEOREM OverlapsAreExplained == Spec => OverlapHasACause
<1> DEFINE Step ==
        \A a, b \in Contexts :
           Clashes(ctx', a, b) /\ ~Clashes(ctx, a, b) => \E c \in {a, b} : Causes(c)
<1>1. ASSUME Inv, [Next]_vars PROVE Step
  <2> SUFFICES ASSUME NEW a \in Contexts, NEW b \in Contexts,
                      Clashes(ctx', a, b), ~Clashes(ctx, a, b)
               PROVE  Causes(a) \/ Causes(b)
    OBVIOUS
  <2>1. Clashes(ctx', b, a) /\ ~Clashes(ctx, b, a)
    BY CollideSymmetric DEF Clashes
  <2>2. ctx'[a] # ctx[a] \/ ctx'[b] # ctx[b]
    BY DEF Clashes
  <2>3. QED
    BY <1>1, <2>1, <2>2, ClashHasACause
<1>2. Inv /\ [Next]_vars => [Step]_vars
  BY <1>1
<1>3. Step <=> \A a, b \in Contexts :
          LET Clash(x) == a # b /\ Open(x[a]) /\ Open(x[b]) /\ Collide(x[a].asked, x[b].asked)
          IN Clash(ctx') /\ ~Clash(ctx) =>
                \E p \in Procs, c \in {a, b} :
                   \/ InitsStale(p, c)
                   \/ WritesStale(p, c)
                   \/ ctx[c].status = "closed" /\ call[p] = Idle
  BY DEF Clashes, Causes
<1>4. QED
  BY <1>2, <1>3, InvHolds, PTL DEF Spec, OverlapHasACause
=============================================================================
