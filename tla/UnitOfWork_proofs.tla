--------------------------- MODULE UnitOfWork_proofs ---------------------------
(***************************************************************************)
(* What holds of units of work for any operations, documents, processes,   *)
(* kills and lock timeouts.                                                *)
(***************************************************************************)
EXTENDS UnitOfWork, SequenceTheorems, WellFoundedInduction, TLAPS

LEMMA PlanType ==
    ASSUME NEW o \in Ops
    PROVE  /\ Indices(o) = 1..Len(Plan[o]) /\ Len(Plan[o]) \in Nat \ {0}
           /\ \A i \in Indices(o) :
                 Plan[o][i].file \in Files /\ Plan[o][i].kind \in {"replace", "delete"}
<1>1. Plan[o] \in Seq([file : Files, kind : {"replace", "delete"}]) /\ Len(Plan[o]) > 0
  BY PlanAssumption
<1>2. Indices(o) = 1..Len(Plan[o]) /\ Len(Plan[o]) \in Nat
  BY <1>1, LenProperties DEF Indices
<1>3. \A i \in 1..Len(Plan[o]) : Plan[o][i] \in [file : Files, kind : {"replace", "delete"}]
  BY <1>1, ElementOfSeq
<1>4. QED
  BY <1>1, <1>2, <1>3

LEMMA OpsType ==
    /\ Ops \subseteq Nat \ {0} /\ Units \subseteq Ops /\ Direct \subseteq Ops
    /\ Workers = Units \cup Direct \cup Recoverers
    /\ \A w \in Recoverers : w \notin Ops
    /\ N \in Ops /\ \A o \in Ops : o # N => o + 1 \in Ops
<1>1. Ops \subseteq Nat \ {0} /\ N \in Ops /\ \A o \in Ops : o # N => o + 1 \in Ops
  <2>1. N \in Nat \ {0}
    BY PlanAssumption
  <2>2. QED
    BY <2>1 DEF Ops
<1>2. \A w \in Recoverers : w \notin Ops
  <2>1. \A o \in Ops : o \in Int
    BY <1>1
  <2>2. QED
    BY <2>1, WorkerAssumption
<1>3. Direct \subseteq Ops
  BY PlanAssumption
<1>4. QED
  BY <1>1, <1>2, <1>3 DEF Units, Workers

\* A nonempty set of numbers has a smallest member, and a largest one if it is
\* bounded.
LEMMA MinType ==
    ASSUME NEW S \in SUBSET Nat, S # {}
    PROVE  Min(S) \in S /\ \A m \in S : Min(S) <= m
<1> DEFINE Less == {ss \in Nat \X Nat : ss[1] < ss[2]}
<1>1. IsWellFoundedOn(Less, Nat)
  BY NatLessThanWellFounded, Zenon DEF OpToRel
<1>2. PICK n \in S : \A m \in S : <<m, n>> \notin Less
  <2>1. S \subseteq Nat
    OBVIOUS
  <2>2. QED
    BY <1>1, <2>1, WFMin, Zenon
<1>3. ASSUME NEW m \in S PROVE n <= m
  <2>1. <<m, n>> \in Nat \X Nat /\ <<m, n>>[1] = m /\ <<m, n>>[2] = n
    OBVIOUS
  <2>2. ~ (m < n)
    BY <1>2, <2>1, Zenon
  <2>3. QED
    BY <2>2
<1>4. QED
  BY <1>3 DEF Min

LEMMA MaxType ==
    ASSUME NEW n \in Nat, NEW S \in SUBSET (1..n), S # {}
    PROVE  Max(S) \in S /\ \A m \in S : Max(S) >= m
<1> DEFINE T == {n - m : m \in S}
<1>1. T \in SUBSET Nat /\ T # {}
  <2>1. \A m \in 1..n : n - m \in Nat
    OBVIOUS
  <2>2. QED
    BY <2>1
<1>2. PICK m \in S : n - m = Min(T)
  BY <1>1, MinType
<1>3. \A k \in S : m >= k
  <2>1. \A k \in S : n - m <= n - k
    BY <1>1, <1>2, MinType
  <2>2. QED
    BY <2>1
<1>4. QED
  BY <1>3 DEF Max

-----------------------------------------------------------------------------
(* Records.                                                                 *)

LEMMA RecordFields ==
    ASSUME NEW o \in Ops, NEW r \in RecordOf(o)
    PROVE  /\ r.phase \in {"prepared", "applying", "committed", "conflicted"}
           /\ r.applied \subseteq Indices(o) /\ r.parts \in [Indices(o) -> Part]
           /\ r.rolledBack \in {"unset", "yes", "no"}
BY DEF RecordOf

LEMMA NewRecordType ==
    ASSUME NEW o \in Ops
    PROVE  NewRecord(o) \in RecordOf(o) /\ NewRecord(o).phase = "prepared"
<1>1. [expected |-> 0, before |-> -1, existed |-> FALSE] \in Part
  BY PlanAssumption DEF Part
<1>2. QED
  BY <1>1 DEF NewRecord, RecordOf, NoError, Codes

LEMMA PhaseChanges ==
    ASSUME NEW o \in Ops, NEW r \in RecordOf(o),
           NEW p \in {"prepared", "applying", "committed", "conflicted"}
    PROVE  LET n == [r EXCEPT !.phase = p]
           IN /\ n \in RecordOf(o) /\ n.phase = p /\ n.applied = r.applied
              /\ n.parts = r.parts /\ n.rolledBack = r.rolledBack
BY DEF RecordOf

LEMMA AppliedChanges ==
    ASSUME NEW o \in Ops, NEW r \in RecordOf(o), NEW i \in Indices(o)
    PROVE  LET n == [r EXCEPT !.applied = @ \cup {i}]
           IN /\ n \in RecordOf(o) /\ n.phase = r.phase /\ n.applied = r.applied \cup {i}
              /\ n.parts = r.parts /\ n.rolledBack = r.rolledBack
BY DEF RecordOf

LEMMA ErrorChanges ==
    ASSUME NEW o \in Ops, NEW r \in RecordOf(o), NEW e \in (Indices(o) \cup {0}) \X Codes
    PROVE  LET n == [r EXCEPT !.error = e]
           IN /\ n \in RecordOf(o) /\ n.phase = r.phase /\ n.applied = r.applied
              /\ n.parts = r.parts /\ n.rolledBack = r.rolledBack
BY DEF RecordOf

LEMMA RolledBackChanges ==
    ASSUME NEW o \in Ops, NEW r \in RecordOf(o), NEW a \in {"yes", "no"}
    PROVE  LET n == [r EXCEPT !.phase = "conflicted", !.rolledBack = a]
           IN /\ n \in RecordOf(o) /\ n.phase = "conflicted" /\ n.applied = r.applied
              /\ n.parts = r.parts /\ n.rolledBack = a
BY DEF RecordOf

LEMMA CommittedChanges ==
    ASSUME NEW o \in Ops, NEW r \in RecordOf(o)
    PROVE  LET n == [r EXCEPT !.phase = "committed", !.error = NoError]
           IN /\ n \in RecordOf(o) /\ n.phase = "committed" /\ n.applied = r.applied
              /\ n.parts = r.parts /\ n.rolledBack = r.rolledBack
<1>1. NoError \in (Indices(o) \cup {0}) \X Codes
  BY DEF NoError, Codes
<1>2. QED
  BY <1>1 DEF RecordOf

LEMMA PartsChange ==
    ASSUME NEW o \in Ops, NEW r \in RecordOf(o), NEW i \in Indices(o), NEW part \in Part
    PROVE  LET n == [r EXCEPT !.parts[i] = part]
           IN /\ n \in RecordOf(o) /\ n.phase = r.phase /\ n.applied = r.applied
              /\ n.parts = [r.parts EXCEPT ![i] = part] /\ n.rolledBack = r.rolledBack
BY DEF RecordOf

-----------------------------------------------------------------------------
(* Types.                                                                   *)

Items == [op : Units, record : UNION {RecordOf(o) : o \in Units}]

Homes == {"new", "staging", "direct", "create", "done", "raised", "dead"}

\* What a process remembers while it is somewhere.
MemoryTyped(w) ==
    /\ pc[w] \in Resting \cup InApply \cup {"scan", "next", "staging", "create", "direct"}
    /\ seen[w] \in Nat /\ failed[w] \in BOOLEAN /\ cursor[w] \in Nat
    /\ pc[w] \in Homes => w \in Ops
    /\ pc[w] = "idle" => w \notin Ops
    /\ w \in Direct => pc[w] \in Homes \ {"create"}
    /\ pc[w] = "direct" => w \in Direct
    /\ pc[w] = "new" => cursor[w] = 1
    /\ pc[w] \in {"new", "staging", "direct", "create"} => work[w] = w
    /\ pc[w] \in {"staging", "direct", "create"} => rec[w] \in RecordOf(w)
    /\ pc[w] \in {"staging", "create"} => rec[w].phase = "prepared"
    /\ pc[w] = "staging" => cursor[w] \in Indices(w)
    /\ pc[w] = "scan" => cursor[w] \in Ops
    /\ queue[w] \in Seq(Items)
    /\ \A k \in DOMAIN queue[w] : queue[w][k].record \in RecordOf(queue[w][k].op)

ApplyTyped(w) ==
    /\ pc[w] \in InApply =>
          work[w] \in Units /\ rec[w] \in RecordOf(work[w]) /\ rec[w].phase # "prepared"
    /\ pc[w] \in {"apply", "undo", "undoing"} => rec[w].phase = "applying"
    /\ pc[w] \in {"undo", "undoing"} => todo[w] \subseteq Indices(work[w])
    /\ pc[w] = "undoing" => todo[w] # {}

FilesTyped ==
    /\ file \in [Files -> Store!Doc]
    /\ stuck \subseteq Files \cup Ops
    /\ effects \in [Ops -> SUBSET Nat] /\ \A o \in Ops : effects[o] \subseteq Indices(o)

LogTyped ==
    /\ DOMAIN log = Ops
    /\ \A o \in Ops : /\ log[o].rev \in Nat
                      /\ log[o].rev = 0 => log[o].record = NoRecord
                      /\ log[o].rev > 0 => o \in Units /\ log[o].record \in RecordOf(o)

FlowTyped ==
    /\ DOMAIN pc = Workers /\ DOMAIN work = Workers /\ DOMAIN rec = Workers
    /\ DOMAIN cursor = Workers /\ DOMAIN seen = Workers /\ DOMAIN todo = Workers
    /\ DOMAIN failed = Workers /\ DOMAIN queue = Workers
    /\ \A w \in Workers : MemoryTyped(w) /\ ApplyTyped(w)

BoundsTyped ==
    /\ setting \in Settings
    /\ crashes \in Nat /\ lockDeaths \in Nat /\ timeouts \in Nat
    /\ crashes <= setting.crashes /\ lockDeaths <= setting.lockDeaths
    /\ timeouts <= setting.timeouts

Typed == FilesTyped /\ LogTyped /\ FlowTyped /\ BoundsTyped

LEMMA TypedTypes == Typed => TypeOK
<1> SUFFICES ASSUME Typed PROVE TypeOK
  OBVIOUS
<1>1. \A w \in Workers :
        /\ pc[w] \in Resting \cup InApply \cup {"scan", "next", "staging", "create", "direct"}
        /\ pc[w] \in InApply => work[w] \in Ops /\ rec[w] \in RecordOf(work[w])
        /\ pc[w] = "undoing" => todo[w] # {}
        /\ seen[w] \in Nat /\ failed[w] \in BOOLEAN /\ cursor[w] \in Nat
        /\ \A k \in DOMAIN queue[w] : queue[w][k].record \in RecordOf(queue[w][k].op)
  BY OpsType DEF Typed, FlowTyped, MemoryTyped, ApplyTyped
<1>2. QED
  BY <1>1 DEF Typed, TypeOK, FilesTyped, LogTyped, BoundsTyped

LEMMA TypedInit == Init => Typed
<1> SUFFICES ASSUME Init PROVE Typed
  OBVIOUS
<1>1. setting \in Setting /\ setting \in Settings
  BY SettingAssumption DEF Init
<1>2. BoundsTyped
  BY <1>1 DEF Init, BoundsTyped, Setting
<1>3. OpId(0) \in OpIds /\ 0 \in Payloads
  BY PlanAssumption DEF OpId, OpIds, Payloads
<1>4. Missing \in Store!Doc /\ [exists |-> TRUE, rev |-> 1, op |-> OpId(0), data |-> 0] \in Store!Doc
  BY <1>3 DEF Missing, Store!Absent, Store!Doc
<1>5. FilesTyped
  BY <1>4 DEF Init, FilesTyped
<1>6. LogTyped
  BY DEF Init, LogTyped
<1>7. \A w \in Workers : /\ pc[w] \in {"new", "idle"} /\ (pc[w] = "new" <=> w \in Ops)
                         /\ (w \in Ops => work[w] = w) /\ queue[w] = <<>> /\ cursor[w] = 1
                         /\ seen[w] = 0 /\ failed[w] = FALSE
  BY DEF Init
<1>8. <<>> \in Seq(Items) /\ DOMAIN << >> = {}
  OBVIOUS
<1>9. \A w \in Workers : MemoryTyped(w)
  <2> SUFFICES ASSUME NEW w \in Workers PROVE MemoryTyped(w)
    OBVIOUS
  <2> failed[w] \in BOOLEAN
    BY <1>7
  <2>1. CASE w \in Ops
    <3>1. pc[w] = "new" /\ work[w] = w /\ queue[w] = <<>> /\ cursor[w] = 1 /\ seen[w] \in Nat
      BY <1>7, <2>1
    <3>2. QED
      BY <1>8, <2>1, <3>1 DEF MemoryTyped, Resting, Homes
  <2>2. CASE w \notin Ops
    <3>1. pc[w] = "idle" /\ queue[w] = <<>> /\ cursor[w] = 1 /\ seen[w] \in Nat
          /\ w \notin Direct /\ w \notin Ops
      BY <1>7, <2>2, OpsType
    <3>2. QED
      BY <1>8, <3>1 DEF MemoryTyped, Resting, Homes
  <2>3. QED
    BY <2>1, <2>2
<1>10. \A w \in Workers : ApplyTyped(w)
  BY <1>7 DEF ApplyTyped, InApply
<1>11. FlowTyped
  BY <1>9, <1>10 DEF Init, FlowTyped
<1>12. QED
  BY <1>2, <1>5, <1>6, <1>11 DEF Typed

\* A step of w leaves the memory of the other processes alone.
OnlyMoves(w) ==
    /\ DOMAIN pc' = Workers /\ DOMAIN work' = Workers /\ DOMAIN rec' = Workers
    /\ DOMAIN cursor' = Workers /\ DOMAIN seen' = Workers /\ DOMAIN todo' = Workers
    /\ DOMAIN failed' = Workers /\ DOMAIN queue' = Workers
    /\ \A v \in Workers \ {w} :
          /\ pc'[v] = pc[v] /\ work'[v] = work[v] /\ rec'[v] = rec[v]
          /\ cursor'[v] = cursor[v] /\ seen'[v] = seen[v] /\ todo'[v] = todo[v]
          /\ failed'[v] = failed[v] /\ queue'[v] = queue[v]

LEMMA FlowKept ==
    ASSUME Typed, NEW w \in Workers, OnlyMoves(w), MemoryTyped(w)', ApplyTyped(w)'
    PROVE  FlowTyped'
<1>1. \A v \in Workers : v # w => MemoryTyped(v)'
  BY DEF Typed, FlowTyped, OnlyMoves, MemoryTyped
<1>2. \A v \in Workers : v # w => ApplyTyped(v)'
  BY DEF Typed, FlowTyped, OnlyMoves, ApplyTyped
<1>3. QED
  BY <1>1, <1>2 DEF FlowTyped, OnlyMoves

\* A process that ends its call, one way or another, remembers nothing.
LEMMA ForgetTyped ==
    ASSUME Typed, NEW w \in Workers, NEW where, Forget(w), Goto(w, where),
           \/ w \in Ops /\ where \in {"done", "raised", "dead"}
           \/ w \in Recoverers /\ where = "idle"
    PROVE  /\ OnlyMoves(w) /\ MemoryTyped(w)' /\ ApplyTyped(w)'
           /\ pc'[w] = where /\ rec'[w] = NoRecord /\ queue'[w] = <<>> /\ work' = work
<1>1. OnlyMoves(w)
  BY DEF Typed, FlowTyped, OnlyMoves, Forget, Goto
<1>2. /\ pc'[w] = where /\ rec'[w] = NoRecord /\ cursor'[w] = 1 /\ seen'[w] = 0 /\ todo'[w] = {}
      /\ failed'[w] = FALSE /\ queue'[w] = <<>> /\ work' = work
  BY DEF Typed, FlowTyped, Forget, Goto
<1>3. failed'[w] \in BOOLEAN
  BY <1>2
<1>4. seen'[w] \in Nat /\ cursor'[w] \in Nat /\ <<>> \in Seq(Items) /\ DOMAIN << >> = {}
  BY <1>2
<1>5. (w \in Recoverers => w \notin Direct) /\ (where = "idle" => w \notin Ops)
  BY OpsType
<1>6. MemoryTyped(w)'
  BY <1>2, <1>3, <1>4, <1>5 DEF MemoryTyped, Resting, Homes
<1>7. ApplyTyped(w)'
  BY <1>2 DEF ApplyTyped, InApply
<1>8. QED
  BY <1>1, <1>2, <1>6, <1>7

LEMMA RaiseTyped ==
    ASSUME Typed, NEW w \in Workers, Raise(w)
    PROVE  /\ OnlyMoves(w) /\ MemoryTyped(w)' /\ ApplyTyped(w)'
           /\ pc'[w] \in {"raised", "idle"} /\ rec'[w] = NoRecord /\ queue'[w] = <<>>
           /\ work' = work
BY ForgetTyped, OpsType DEF Raise

LEMMA DieTyped ==
    ASSUME Typed, NEW w \in Workers, Die(w)
    PROVE  /\ OnlyMoves(w) /\ MemoryTyped(w)' /\ ApplyTyped(w)'
           /\ pc'[w] \in {"dead", "idle"} /\ rec'[w] = NoRecord /\ queue'[w] = <<>>
           /\ work' = work
BY ForgetTyped, OpsType DEF Die

\* What is known of a process.
LEMMA MemoryOf ==
    ASSUME Typed, NEW w \in Workers
    PROVE  MemoryTyped(w) /\ ApplyTyped(w)
BY DEF Typed, FlowTyped

-----------------------------------------------------------------------------
(* Types: staging and the log.                                              *)

LEMMA StageTyped ==
    ASSUME Typed, NEW o \in Ops, Stage(o)
    PROVE  OnlyMoves(o) /\ MemoryTyped(o)' /\ ApplyTyped(o)'
<1> DEFINE c == cursor[o]
           f == Plan[o][c].file
           part == [expected |-> file[f].rev, before |-> file[f].data, existed |-> file[f].exists]
<1>1. o \in Workers /\ pc[o] = "staging" /\ rec[o] \in RecordOf(o) /\ rec[o].phase = "prepared"
      /\ c \in Indices(o) /\ work[o] = o
  <2>1. o \in Workers /\ pc[o] = "staging"
    BY DEF Stage, Workers
  <2>2. MemoryTyped(o)
    BY <2>1, MemoryOf
  <2>3. QED
    BY <2>1, <2>2, Zenon DEF MemoryTyped
<1>2. part \in Part
  <2>1. file[f] \in Store!Doc
    BY <1>1, PlanType DEF Typed, FilesTyped
  <2>2. N \in Nat
    BY PlanAssumption
  <2>3. file[f].rev \in Nat /\ file[f].data \in -1..N /\ file[f].exists \in BOOLEAN
    BY <2>1, <2>2 DEF Store!Doc, Payloads
  <2>4. QED
    BY <2>3 DEF Part
<1>3. rec'[o] = [rec[o] EXCEPT !.parts[c] = part]
  BY <1>1 DEF Stage, Typed, FlowTyped
<1>4. rec'[o] \in RecordOf(o) /\ rec'[o].phase = "prepared"
  BY <1>1, <1>2, <1>3, PartsChange
<1>5. OnlyMoves(o)
  BY <1>1 DEF Stage, OnlyMoves, Goto, Typed, FlowTyped
<1>6. /\ cursor'[o] = c + 1 /\ work'[o] = o /\ seen'[o] = seen[o] /\ failed'[o] = failed[o]
      /\ queue'[o] = queue[o]
      /\ pc'[o] = IF c = Len(Plan[o]) THEN IF o \in Direct THEN "direct" ELSE "create"
                  ELSE "staging"
  BY <1>1 DEF Stage, Goto, Typed, FlowTyped
<1>7. cursor'[o] \in Nat /\ (pc'[o] = "staging" => cursor'[o] \in Indices(o))
  BY <1>1, <1>6, PlanType
<1>8. MemoryTyped(o)'
  BY <1>1, <1>4, <1>6, <1>7, MemoryOf DEF MemoryTyped, Homes, Resting, InApply
<1>9. ApplyTyped(o)'
  BY <1>6 DEF ApplyTyped, InApply
<1>10. QED
  BY <1>5, <1>8, <1>9

LEMMA StartDirectTyped ==
    ASSUME Typed, NEW o \in Ops, StartDirect(o)
    PROVE  OnlyMoves(o) /\ MemoryTyped(o)' /\ ApplyTyped(o)'
<1>1. o \in Workers /\ pc[o] = "new" /\ work[o] = o /\ cursor[o] = 1
  <2>1. o \in Workers /\ pc[o] = "new"
    BY DEF StartDirect, Workers
  <2>2. QED
    BY <2>1, MemoryOf DEF MemoryTyped
<1>2. OnlyMoves(o)
  BY <1>1 DEF StartDirect, OnlyMoves, Goto, Typed, FlowTyped
<1>3. /\ cursor'[o] = 1 /\ work'[o] = o /\ seen'[o] = seen[o] /\ failed'[o] = failed[o]
      /\ queue'[o] = queue[o] /\ pc'[o] = "staging" /\ rec'[o] = NewRecord(o)
  BY <1>1 DEF StartDirect, Goto, Typed, FlowTyped
<1>4. 1 \in Indices(o) /\ 1 \in Nat
  BY PlanType
<1>5. MemoryTyped(o)'
  BY <1>1, <1>3, <1>4, MemoryOf, NewRecordType DEF MemoryTyped, Homes, Resting, InApply
<1>6. ApplyTyped(o)'
  BY <1>3 DEF ApplyTyped, InApply
<1>7. QED
  BY <1>2, <1>5, <1>6

LEMMA CreateTyped ==
    ASSUME Typed, NEW o \in Ops, Create(o)
    PROVE  OnlyMoves(o) /\ MemoryTyped(o)' /\ ApplyTyped(o)' /\ LogTyped'
<1>1. /\ o \in Workers /\ pc[o] = "create" /\ work[o] = o /\ o \in Units /\ rec[o] \in RecordOf(o)
      /\ rec[o].phase = "prepared"
  BY MemoryOf, OpsType DEF Create, MemoryTyped, Units
<1>2. OnlyMoves(o)
  BY <1>1 DEF Create, OnlyMoves, Goto, Typed, FlowTyped
<1>3. /\ cursor'[o] = cursor[o] /\ work'[o] = o /\ seen'[o] = seen[o] /\ failed'[o] = failed[o]
      /\ queue'[o] = queue[o] /\ pc'[o] = "save" /\ rec'[o] = [rec[o] EXCEPT !.phase = "applying"]
  BY <1>1 DEF Create, Goto, Typed, FlowTyped
<1>4. rec'[o] \in RecordOf(o) /\ rec'[o].phase = "applying"
  <2>1. /\ [rec[o] EXCEPT !.phase = "applying"] \in RecordOf(o)
        /\ [rec[o] EXCEPT !.phase = "applying"].phase = "applying"
    BY <1>1, PhaseChanges
  <2>2. QED
    BY <1>3, <2>1
<1>5. MemoryTyped(o)'
  BY <1>1, <1>3, MemoryOf DEF MemoryTyped, Homes, Resting, InApply, Units
<1>6. ApplyTyped(o)'
  BY <1>1, <1>3, <1>4 DEF ApplyTyped, InApply
<1>7. LogTyped'
  BY <1>1 DEF Create, WriteLog, Typed, LogTyped
<1>8. QED
  BY <1>2, <1>5, <1>6, <1>7

LEMMA SaveLoadTyped ==
    ASSUME Typed, NEW w \in Workers, SaveLoad(w)
    PROVE  OnlyMoves(w) /\ MemoryTyped(w)' /\ ApplyTyped(w)'
<1>1. pc[w] = "save" /\ work[w] \in Ops
  BY MemoryOf, OpsType DEF SaveLoad, ApplyTyped, InApply
<1>2. OnlyMoves(w)
  BY DEF SaveLoad, OnlyMoves, Goto, Typed, FlowTyped
<1>3. /\ cursor'[w] = cursor[w] /\ work'[w] = work[w] /\ rec'[w] = rec[w] /\ failed'[w] = failed[w]
      /\ queue'[w] = queue[w] /\ pc'[w] = "saving" /\ seen'[w] \in Nat
  BY <1>1 DEF SaveLoad, Goto, Typed, FlowTyped, LogTyped
<1>4. MemoryTyped(w)'
  BY <1>1, <1>3, MemoryOf DEF MemoryTyped, Homes, Resting, InApply
<1>5. ApplyTyped(w)'
  BY <1>1, <1>3, MemoryOf DEF ApplyTyped, InApply
<1>6. QED
  BY <1>2, <1>4, <1>5

LEMMA SaveTyped ==
    ASSUME Typed, NEW w \in Workers, Save(w)
    PROVE  OnlyMoves(w) /\ MemoryTyped(w)' /\ ApplyTyped(w)' /\ LogTyped'
<1>1. /\ pc[w] = "saving" /\ work[w] \in Units /\ work[w] \in Ops /\ rec[w] \in RecordOf(work[w])
      /\ rec[w].phase # "prepared"
  BY MemoryOf, OpsType DEF Save, ApplyTyped, InApply
<1>2. LogTyped'
  BY <1>1 DEF Save, WriteLog, Typed, LogTyped
<1>3. CASE Raise(w)
  BY <1>2, <1>3, RaiseTyped
<1>4. CASE Goto(w, "done") /\ Forget(w) /\ w = work[w]
  BY <1>1, <1>2, <1>4, ForgetTyped
<1>5. CASE /\ \/ Goto(w, "apply") /\ rec[w].phase = "applying"
              \/ Goto(w, "next") /\ w # work[w]
           /\ UNCHANGED memoryVars
  <2>1. OnlyMoves(w)
    BY <1>5 DEF OnlyMoves, Goto, Typed, FlowTyped, memoryVars
  <2>2. (pc'[w] = "apply" /\ rec[w].phase = "applying") \/ pc'[w] = "next"
    BY <1>5 DEF Goto, Typed, FlowTyped
  <2>3. w \notin Direct
    BY <1>1, MemoryOf DEF MemoryTyped, Homes
  <2>4. MemoryTyped(w)'
    BY <1>1, <1>5, <2>2, <2>3, MemoryOf DEF MemoryTyped, Homes, Resting, InApply, memoryVars
  <2>5. ApplyTyped(w)'
    BY <1>1, <1>5, <2>2, MemoryOf DEF ApplyTyped, InApply, memoryVars
  <2>6. QED
    BY <1>2, <2>1, <2>4, <2>5
<1>6. Raise(w) \/ AfterSave(w)
  BY DEF Save
<1>7. CASE AfterSave(w)
  <2>1. CASE rec[w].phase = "applying"
    BY <1>5, <1>7, <2>1 DEF AfterSave
  <2>2. CASE rec[w].phase = "conflicted"
    BY <1>3, <1>7, <2>2 DEF AfterSave
  <2>3. CASE rec[w].phase = "committed"
    BY <1>4, <1>5, <1>7, <2>3 DEF AfterSave
  <2>4. QED
    BY <1>7, <2>1, <2>2, <2>3 DEF AfterSave
<1>8. QED
  BY <1>3, <1>6, <1>7

-----------------------------------------------------------------------------
(* Types: store calls.                                                      *)

LEMMA CallTyped ==
    ASSUME FilesTyped, NEW f \in Files, NEW c, DoCall(f, c),
           c.op \in OpIds, c.data \in -1..N
    PROVE  file' \in [Files -> Store!Doc]
<1>1. file[f] \in Store!Doc
  BY DEF FilesTyped
<1>2. N \in Nat
  BY PlanAssumption
<1>3. Store!CallEffect(file[f], c) \in Store!Doc
  <2>1. file[f].rev + 1 \in Nat /\ c.data \in Payloads \cup {-1}
    BY <1>1, <1>2 DEF Store!Doc, Payloads
  <2>2. QED
    BY <2>1 DEF Store!CallEffect, Store!Absent, Store!Doc
<1>4. file' = file \/ file' = [file EXCEPT ![f] = Store!CallEffect(file[f], c)]
  BY DEF DoCall
<1>5. QED
  BY <1>3, <1>4 DEF FilesTyped

LEMMA MutationCallType ==
    ASSUME NEW o \in Ops, NEW r, NEW i
    PROVE  /\ MutationCall(o, r, i).op \in OpIds /\ MutationCall(o, r, i).data \in -1..N
           /\ MutationCall(o, r, i).op = OpId(o) /\ MutationCall(o, r, i).data = o
           /\ MutationCall(o, r, i).kind = Plan[o][i].kind
           /\ MutationCall(o, r, i).expected = r.parts[i].expected
<1>1. N \in Nat
  BY PlanAssumption
<1>2. o \in 0..N /\ o \in -1..N
  BY <1>1 DEF Ops
<1>3. QED
  BY <1>2 DEF MutationCall, OpIds, OpId

LEMMA UndoCallType ==
    ASSUME NEW o \in Ops, NEW r \in RecordOf(o), NEW i \in Indices(o), NEW rev
    PROVE  /\ UndoCall(o, r, i, rev).op \in OpIds /\ UndoCall(o, r, i, rev).data \in -1..N
           /\ UndoCall(o, r, i, rev).op = RollbackId(o, i)
           /\ UndoCall(o, r, i, rev).kind = IF r.parts[i].existed THEN "replace" ELSE "delete"
           /\ UndoCall(o, r, i, rev).expected = rev
           /\ UndoCall(o, r, i, rev).data = r.parts[i].before
<1>1. N \in Nat
  BY PlanAssumption
<1>2. o \in 0..N
  BY <1>1 DEF Ops
<1>3. i \in Nat
  BY PlanType
<1>4. r.parts[i].before \in -1..N
  BY RecordFields DEF Part
<1>5. QED
  BY <1>2, <1>3, <1>4 DEF UndoCall, OpIds, RollbackId

\* Waiting for a lock in vain changes nothing else.
LEMMA TimeoutTyped ==
    ASSUME BoundsTyped, NEW x, LockTimeout(x), setting' = setting
    PROVE  BoundsTyped'
<1>1. setting \in Setting
  BY SettingAssumption DEF BoundsTyped
<1>2. setting.timeouts \in Nat
  BY <1>1 DEF Setting
<1>3. QED
  BY <1>2 DEF BoundsTyped, LockTimeout, faultVars

LEMMA BoundsKept ==
    ASSUME BoundsTyped, setting' = setting, UNCHANGED faultVars
    PROVE  BoundsTyped'
BY DEF BoundsTyped, faultVars

\* The setting a process dies under leaves room for one more death.
LEMMA DieBounds ==
    ASSUME BoundsTyped, NEW w, Die(w),
           \/ UNCHANGED lockDeaths
           \/ lockDeaths < setting.lockDeaths /\ lockDeaths' = lockDeaths + 1
    PROVE  BoundsTyped'
<1>1. setting \in Setting
  BY SettingAssumption DEF BoundsTyped
<1>2. setting.crashes \in Nat /\ setting.lockDeaths \in Nat
  BY <1>1 DEF Setting
<1>3. QED
  BY <1>2 DEF BoundsTyped, Die

LEMMA LogKept ==
    ASSUME LogTyped, UNCHANGED log
    PROVE  LogTyped'
BY DEF LogTyped

LEMMA LogWritten ==
    ASSUME LogTyped, NEW o \in Units, NEW r \in RecordOf(o), WriteLog(o, r)
    PROVE  LogTyped'
BY OpsType DEF LogTyped, WriteLog

LEMMA DirectTyped ==
    ASSUME Typed, NEW o \in Ops, WriteDirect(o) \/ DirectTimeout(o)
    PROVE  OnlyMoves(o) /\ MemoryTyped(o)' /\ ApplyTyped(o)'
<1>1. o \in Workers
  BY DEF Workers
<1>2. CASE WriteDirect(o)
  BY <1>1, <1>2, ForgetTyped DEF WriteDirect
<1>3. CASE DirectTimeout(o)
  BY <1>1, <1>3, RaiseTyped DEF DirectTimeout
<1>4. QED
  BY <1>2, <1>3

LEMMA WriteDirectFiles ==
    ASSUME Typed, NEW o \in Ops, WriteDirect(o)
    PROVE  FilesTyped'
<1>1. Plan[o][1].file \in Files
  BY PlanType
<1>2. file' \in [Files -> Store!Doc]
  BY <1>1, CallTyped, MutationCallType DEF WriteDirect, Typed
<1>3. QED
  BY <1>2 DEF WriteDirect, Typed, FilesTyped

-----------------------------------------------------------------------------
(* Types: applying, undoing and recovering.                                 *)

LEMMA ApplyContext ==
    ASSUME Typed, NEW w \in Workers, pc[w] \in {"apply", "undo", "undoing"}
    PROVE  /\ work[w] \in Units /\ work[w] \in Ops /\ rec[w] \in RecordOf(work[w])
           /\ rec[w].phase = "applying"
           /\ Remaining(w) # {} => /\ NextMutation(w) \in Remaining(w)
                                   /\ NextMutation(w) \in Indices(work[w])
                                   /\ Doc(w, NextMutation(w)) \in Files
                                   /\ \A i \in Remaining(w) : NextMutation(w) <= i
<1>1. work[w] \in Units /\ work[w] \in Ops /\ rec[w] \in RecordOf(work[w]) /\ rec[w].phase = "applying"
  BY MemoryOf, OpsType DEF ApplyTyped, InApply
<1>2. ASSUME Remaining(w) # {}
      PROVE  /\ NextMutation(w) \in Remaining(w) /\ \A i \in Remaining(w) : NextMutation(w) <= i
  <2>1. Remaining(w) \in SUBSET Nat
    BY <1>1, PlanType DEF Remaining
  <2>2. QED
    BY <1>2, <2>1, MinType DEF NextMutation
<1>3. Remaining(w) # {} => NextMutation(w) \in Indices(work[w])
  BY <1>2 DEF Remaining
<1>4. Remaining(w) # {} => Doc(w, NextMutation(w)) \in Files
  BY <1>1, <1>3, PlanType DEF Doc
<1>5. QED
  BY <1>1, <1>2, <1>3, <1>4

LEMMA UndoContext ==
    ASSUME Typed, NEW w \in Workers, pc[w] \in {"undo", "undoing"}
    PROVE  /\ todo[w] \subseteq Indices(work[w])
           /\ pc[w] = "undoing" => todo[w] # {}
           /\ todo[w] # {} => /\ Max(todo[w]) \in todo[w] /\ Max(todo[w]) \in Indices(work[w])
                              /\ Doc(w, Max(todo[w])) \in Files
                              /\ \A i \in todo[w] : i <= Max(todo[w])
<1>1. todo[w] \subseteq Indices(work[w]) /\ (pc[w] = "undoing" => todo[w] # {}) /\ work[w] \in Ops
  BY MemoryOf, ApplyContext DEF ApplyTyped
<1>2. ASSUME todo[w] # {}
      PROVE  Max(todo[w]) \in todo[w] /\ \A i \in todo[w] : i <= Max(todo[w])
  <2>1. Len(Plan[work[w]]) \in Nat /\ todo[w] \in SUBSET (1..Len(Plan[work[w]]))
    BY <1>1, PlanType
  <2>2. Max(todo[w]) \in todo[w] /\ \A i \in todo[w] : Max(todo[w]) >= i
    BY <1>2, <2>1, MaxType
  <2>3. \A i \in todo[w] : i \in Int /\ Max(todo[w]) \in Int
    BY <2>1, <2>2
  <2>4. QED
    BY <2>2, <2>3
<1>3. todo[w] # {} => Doc(w, Max(todo[w])) \in Files
  BY <1>1, <1>2, PlanType DEF Doc
<1>4. QED
  BY <1>1, <1>2, <1>3

\* A process that goes on applying keeps what it read.
LEMMA AppliesOn ==
    ASSUME Typed, NEW w \in Workers, pc[w] \in InApply, pc'[w] \in InApply,
           seen'[w] \in Nat, failed'[w] \in BOOLEAN,
           cursor'[w] = cursor[w], queue'[w] = queue[w]
    PROVE  MemoryTyped(w)'
BY MemoryOf DEF MemoryTyped, InApply, Homes, Resting

LEMMA ApplyStepTyped ==
    ASSUME Typed, NEW w \in Workers, Apply(w)
    PROVE  /\ OnlyMoves(w) /\ MemoryTyped(w)' /\ ApplyTyped(w)'
           /\ rec'[w] = [rec[w] EXCEPT !.applied = @ \cup {NextMutation(w)}]
           /\ work'[w] = work[w] /\ queue'[w] = queue[w] /\ pc'[w] = "save"
<1>1. pc[w] = "apply" /\ Remaining(w) # {}
  BY DEF Apply
<1>2. OnlyMoves(w)
  BY DEF Apply, OnlyMoves, Goto, Typed, FlowTyped
<1>3. /\ cursor'[w] = cursor[w] /\ work'[w] = work[w] /\ seen'[w] = seen[w]
      /\ failed'[w] = failed[w] /\ queue'[w] = queue[w] /\ pc'[w] = "save"
      /\ rec'[w] = [rec[w] EXCEPT !.applied = @ \cup {NextMutation(w)}]
  BY DEF Apply, Goto, Typed, FlowTyped
<1>4. rec'[w] \in RecordOf(work[w]) /\ rec'[w].phase = "applying"
  <2>1. LET n == [rec[w] EXCEPT !.applied = @ \cup {NextMutation(w)}]
        IN n \in RecordOf(work[w]) /\ n.phase = rec[w].phase
    BY <1>1, ApplyContext, AppliedChanges
  <2>2. QED
    BY <1>1, <1>3, <2>1, ApplyContext
<1>5. seen'[w] \in Nat /\ failed'[w] \in BOOLEAN
  BY <1>3, MemoryOf DEF MemoryTyped
<1>6. MemoryTyped(w)'
  BY <1>1, <1>3, <1>5, AppliesOn DEF InApply
<1>7. ApplyTyped(w)'
  BY <1>1, <1>3, <1>4, ApplyContext DEF ApplyTyped
<1>8. QED
  BY <1>2, <1>3, <1>6, <1>7

LEMMA ErrorType ==
    ASSUME NEW o \in Ops, NEW i \in Indices(o), NEW code \in Codes
    PROVE  <<i, code>> \in (Indices(o) \cup {0}) \X Codes
OBVIOUS

LEMMA BeginUndoTyped ==
    ASSUME Typed, NEW w \in Workers, pc[w] = "apply", Remaining(w) # {},
           NEW code \in Codes, BeginUndo(w, code)
    PROVE  /\ OnlyMoves(w) /\ MemoryTyped(w)' /\ ApplyTyped(w)'
           /\ rec'[w] = [rec[w] EXCEPT !.error = <<NextMutation(w), code>>]
           /\ work'[w] = work[w] /\ queue'[w] = queue[w] /\ pc'[w] = "undo"
           /\ todo'[w] = rec[w].applied /\ failed'[w] = FALSE
<1>1. OnlyMoves(w)
  BY DEF BeginUndo, OnlyMoves, Goto, Typed, FlowTyped
<1>2. /\ cursor'[w] = cursor[w] /\ work'[w] = work[w] /\ seen'[w] = seen[w]
      /\ failed'[w] = FALSE /\ queue'[w] = queue[w] /\ pc'[w] = "undo"
      /\ todo'[w] = rec[w].applied
      /\ rec'[w] = [rec[w] EXCEPT !.error = <<NextMutation(w), code>>]
  BY DEF BeginUndo, Goto, Typed, FlowTyped
<1>3. rec'[w] \in RecordOf(work[w]) /\ rec'[w].phase = "applying"
  <2>1. <<NextMutation(w), code>> \in (Indices(work[w]) \cup {0}) \X Codes
    BY ApplyContext, ErrorType
  <2>2. LET n == [rec[w] EXCEPT !.error = <<NextMutation(w), code>>]
        IN n \in RecordOf(work[w]) /\ n.phase = rec[w].phase
    BY <2>1, ApplyContext, ErrorChanges
  <2>3. QED
    BY <1>2, <2>2, ApplyContext
<1>4. seen'[w] \in Nat
  BY <1>2, MemoryOf DEF MemoryTyped
<1>5. failed'[w] \in BOOLEAN
  BY <1>2
<1>6. MemoryTyped(w)'
  BY <1>2, <1>4, <1>5, AppliesOn DEF InApply
<1>7. rec[w].applied \subseteq Indices(work[w])
  BY ApplyContext, RecordFields
<1>8. ApplyTyped(w)'
  BY <1>2, <1>3, <1>7, ApplyContext DEF ApplyTyped
<1>9. QED
  BY <1>1, <1>2, <1>6, <1>8

LEMMA ApplyRefusedTyped ==
    ASSUME Typed, NEW w \in Workers, ApplyRefused(w)
    PROVE  /\ pc[w] = "apply" /\ Remaining(w) # {}
           /\ \E code \in Codes : BeginUndo(w, code)
<1>1. pc[w] = "apply" /\ Remaining(w) # {}
  BY DEF ApplyRefused
<1>2. ASSUME NEW f, ~Succeeds(f, MutationOf(w))
      PROVE  Store!CallAnswer(file[f], MutationOf(w)) \in Codes
  BY <1>2 DEF Succeeds, Store!CallAnswer, Codes
<1>3. QED
  BY <1>1, <1>2 DEF ApplyRefused, Codes

LEMMA FinishTyped ==
    ASSUME Typed, NEW w \in Workers, Finish(w)
    PROVE  /\ OnlyMoves(w) /\ MemoryTyped(w)' /\ ApplyTyped(w)'
           /\ rec'[w] = [rec[w] EXCEPT !.phase = "committed", !.error = NoError]
           /\ work'[w] = work[w] /\ queue'[w] = queue[w] /\ pc'[w] = "save"
<1>1. pc[w] = "apply"
  BY DEF Finish
<1>2. OnlyMoves(w)
  BY DEF Finish, OnlyMoves, Goto, Typed, FlowTyped
<1>3. /\ cursor'[w] = cursor[w] /\ work'[w] = work[w] /\ seen'[w] = seen[w]
      /\ failed'[w] = failed[w] /\ queue'[w] = queue[w] /\ pc'[w] = "save"
      /\ rec'[w] = [rec[w] EXCEPT !.phase = "committed", !.error = NoError]
  BY DEF Finish, Goto, Typed, FlowTyped
<1>4. rec'[w] \in RecordOf(work[w]) /\ rec'[w].phase = "committed"
  <2>1. LET n == [rec[w] EXCEPT !.phase = "committed", !.error = NoError]
        IN n \in RecordOf(work[w]) /\ n.phase = "committed"
    BY <1>1, ApplyContext, CommittedChanges
  <2>2. QED
    BY <1>3, <2>1
<1>5. seen'[w] \in Nat /\ failed'[w] \in BOOLEAN
  BY <1>3, MemoryOf DEF MemoryTyped
<1>6. MemoryTyped(w)'
  BY <1>1, <1>3, <1>5, AppliesOn DEF InApply
<1>7. ApplyTyped(w)'
  BY <1>1, <1>3, <1>4, ApplyContext DEF ApplyTyped
<1>8. QED
  BY <1>2, <1>3, <1>6, <1>7

LEMMA UndoFinishTyped ==
    ASSUME Typed, NEW w \in Workers, UndoFinish(w)
    PROVE  /\ OnlyMoves(w) /\ MemoryTyped(w)' /\ ApplyTyped(w)'
           /\ rec'[w] = [rec[w] EXCEPT !.phase = "conflicted",
                                       !.rolledBack = IF failed[w] THEN "no" ELSE "yes"]
           /\ work'[w] = work[w] /\ queue'[w] = queue[w] /\ pc'[w] = "save"
<1> DEFINE a == IF failed[w] THEN "no" ELSE "yes"
<1>1. pc[w] = "undo"
  BY DEF UndoFinish
<1>2. OnlyMoves(w)
  BY DEF UndoFinish, OnlyMoves, Goto, Typed, FlowTyped
<1>3. /\ cursor'[w] = cursor[w] /\ work'[w] = work[w] /\ seen'[w] = seen[w]
      /\ failed'[w] = failed[w] /\ queue'[w] = queue[w] /\ pc'[w] = "save"
      /\ rec'[w] = [rec[w] EXCEPT !.phase = "conflicted", !.rolledBack = a]
  BY DEF UndoFinish, Goto, Typed, FlowTyped
<1>4. rec'[w] \in RecordOf(work[w]) /\ rec'[w].phase = "conflicted"
  <2>1. a \in {"yes", "no"}
    OBVIOUS
  <2>2. LET n == [rec[w] EXCEPT !.phase = "conflicted", !.rolledBack = a]
        IN n \in RecordOf(work[w]) /\ n.phase = "conflicted"
    <3>1. work[w] \in Ops /\ rec[w] \in RecordOf(work[w])
      BY <1>1, ApplyContext
    <3> HIDE DEF a
    <3>2. QED
      BY <2>1, <3>1 DEF RecordOf
  <2>3. QED
    BY <1>3, <2>2
<1>5. seen'[w] \in Nat /\ failed'[w] \in BOOLEAN
  BY <1>3, MemoryOf DEF MemoryTyped
<1>6. MemoryTyped(w)'
  BY <1>1, <1>3, <1>5, AppliesOn DEF InApply
<1>7. ApplyTyped(w)'
  BY <1>1, <1>3, <1>4, ApplyContext DEF ApplyTyped
<1>8. QED
  BY <1>2, <1>3, <1>6, <1>7

LEMMA UndoLookTyped ==
    ASSUME Typed, NEW w \in Workers, UndoLook(w)
    PROVE  OnlyMoves(w) /\ MemoryTyped(w)' /\ ApplyTyped(w)'
<1> DEFINE i == Max(todo[w])
           d == file[Doc(w, i)]
<1>1. pc[w] = "undo" /\ todo[w] # {}
  BY DEF UndoLook
<1>2. OnlyMoves(w)
  BY DEF UndoLook, OnlyMoves, Goto, Typed, FlowTyped
<1>3. d.rev \in Nat
  <2>1. d \in Store!Doc
    BY <1>1, UndoContext DEF Typed, FilesTyped
  <2>2. QED
    BY <2>1 DEF Store!Doc
<1>4. /\ cursor'[w] = cursor[w] /\ work'[w] = work[w] /\ rec'[w] = rec[w]
      /\ failed'[w] = failed[w] /\ queue'[w] = queue[w]
      /\ \/ pc'[w] = "undoing" /\ todo'[w] = todo[w] /\ seen'[w] = d.rev
         \/ pc'[w] = "undo" /\ todo'[w] = todo[w] \ {i} /\ seen'[w] = seen[w]
  BY <1>1 DEF UndoLook, Goto, Typed, FlowTyped
<1>5. seen'[w] \in Nat
  BY <1>3, <1>4, MemoryOf DEF MemoryTyped
<1>6. failed'[w] \in BOOLEAN
  BY <1>4, MemoryOf DEF MemoryTyped
<1>7. MemoryTyped(w)'
  BY <1>1, <1>4, <1>5, <1>6, AppliesOn DEF InApply
<1>8. ApplyTyped(w)'
  BY <1>1, <1>4, ApplyContext, UndoContext DEF ApplyTyped
<1>9. QED
  BY <1>2, <1>7, <1>8

LEMMA UndoneTyped ==
    ASSUME Typed, NEW w \in Workers, pc[w] = "undoing", NEW ok \in BOOLEAN, Undone(w, ok)
    PROVE  /\ OnlyMoves(w) /\ MemoryTyped(w)' /\ ApplyTyped(w)'
           /\ rec'[w] = rec[w] /\ work'[w] = work[w] /\ queue'[w] = queue[w] /\ pc'[w] = "undo"
           /\ todo'[w] = todo[w] \ {Max(todo[w])} /\ failed'[w] = (failed[w] \/ ~ok)
<1>1. OnlyMoves(w)
  BY DEF Undone, OnlyMoves, Goto, Typed, FlowTyped
<1>2. /\ cursor'[w] = cursor[w] /\ work'[w] = work[w] /\ rec'[w] = rec[w] /\ seen'[w] = seen[w]
      /\ queue'[w] = queue[w] /\ pc'[w] = "undo" /\ todo'[w] = todo[w] \ {Max(todo[w])}
  BY DEF Undone, Goto, Typed, FlowTyped
<1>3. failed'[w] = (failed[w] \/ ~ok)
  BY DEF Undone, Typed, FlowTyped
<1>4. failed'[w] \in BOOLEAN
  BY <1>3
<1>5. seen'[w] \in Nat
  BY <1>2, MemoryOf DEF MemoryTyped
<1>6. MemoryTyped(w)'
  BY <1>2, <1>4, <1>5, AppliesOn DEF InApply
<1>7. ApplyTyped(w)'
  BY <1>2, ApplyContext, UndoContext DEF ApplyTyped
<1>8. QED
  BY <1>1, <1>2, <1>3, <1>6, <1>7

\* What an application and a rollback leave in the documents.
LEMMA MutateFiles ==
    ASSUME Typed, NEW w \in Workers, pc[w] = "apply", Remaining(w) # {}, Mutate(w)
    PROVE  /\ file' \in [Files -> Store!Doc]
           /\ effects' \in [Ops -> SUBSET Nat] /\ \A o \in Ops : effects'[o] \subseteq Indices(o)
<1> DEFINE i == NextMutation(w)
<1>1. work[w] \in Ops /\ i \in Indices(work[w]) /\ Doc(w, i) \in Files
  BY ApplyContext
<1>2. MutationOf(w).op \in OpIds /\ MutationOf(w).data \in -1..N
  BY <1>1, MutationCallType DEF MutationOf
<1>3. file' \in [Files -> Store!Doc]
  BY <1>1, <1>2, CallTyped DEF Mutate, Typed
<1>4. effects' = effects \/ effects' = [effects EXCEPT ![work[w]] = @ \cup {i}]
  BY DEF Mutate
<1>5. i \in Nat
  BY <1>1, PlanType
<1>6. QED
  BY <1>1, <1>3, <1>4, <1>5 DEF Typed, FilesTyped

LEMMA CompensateFiles ==
    ASSUME Typed, NEW w \in Workers, pc[w] = "undoing", Compensate(w)
    PROVE  /\ file' \in [Files -> Store!Doc]
           /\ effects' \in [Ops -> SUBSET Nat] /\ \A o \in Ops : effects'[o] \subseteq Indices(o)
<1> DEFINE i == Max(todo[w])
<1>1. /\ work[w] \in Ops /\ rec[w] \in RecordOf(work[w]) /\ i \in Indices(work[w])
      /\ Doc(w, i) \in Files
  BY ApplyContext, UndoContext
<1>2. UndoOf(w).op \in OpIds /\ UndoOf(w).data \in -1..N
  BY <1>1, UndoCallType DEF UndoOf
<1>3. file' \in [Files -> Store!Doc]
  BY <1>1, <1>2, CallTyped DEF Compensate, Typed
<1>4. effects' = effects \/ effects' = [effects EXCEPT ![work[w]] = @ \ {i}]
  BY DEF Compensate
<1>5. QED
  BY <1>1, <1>3, <1>4 DEF Typed, FilesTyped

LEMMA UndoTyped ==
    ASSUME Typed, NEW w \in Workers, Undo(w) \/ UndoTimeout(w)
    PROVE  /\ OnlyMoves(w) /\ MemoryTyped(w)' /\ ApplyTyped(w)'
           /\ pc[w] = "undoing" /\ rec'[w] = rec[w] /\ work'[w] = work[w]
           /\ queue'[w] = queue[w] /\ pc'[w] = "undo"
<1>1. pc[w] = "undoing"
  BY DEF Undo, UndoTimeout
<1>2. CASE Undo(w)
  <2>1. Undone(w, Succeeds(Doc(w, Max(todo[w])), UndoOf(w)))
    BY <1>2 DEF Undo
  <2>2. Succeeds(Doc(w, Max(todo[w])), UndoOf(w)) \in BOOLEAN
    BY DEF Succeeds
  <2>3. QED
    BY <1>1, <2>1, <2>2, UndoneTyped
<1>3. CASE UndoTimeout(w)
  <2>1. Undone(w, FALSE)
    BY <1>3 DEF UndoTimeout
  <2>2. FALSE \in BOOLEAN
    OBVIOUS
  <2>3. QED
    BY <1>1, <2>1, <2>2, UndoneTyped
<1>4. QED
  BY <1>2, <1>3

LEMMA RecoverTyped ==
    ASSUME Typed, NEW w \in Workers, Recover(w)
    PROVE  OnlyMoves(w) /\ MemoryTyped(w)' /\ ApplyTyped(w)'
<1>1. pc[w] \in {"idle", "new"} /\ w \notin Direct
  BY DEF Recover
<1>2. OnlyMoves(w)
  BY DEF Recover, OnlyMoves, Goto, Typed, FlowTyped
<1>3. /\ cursor'[w] = 1 /\ work'[w] = work[w] /\ rec'[w] = rec[w] /\ seen'[w] = seen[w]
      /\ failed'[w] = failed[w] /\ queue'[w] = queue[w] /\ pc'[w] = "scan"
  BY DEF Recover, Goto, Typed, FlowTyped
<1>4. 1 \in Ops /\ 1 \in Nat
  BY PlanAssumption DEF Ops
<1>5. MemoryTyped(w)'
  BY <1>1, <1>3, <1>4, MemoryOf DEF MemoryTyped, Homes, Resting
<1>6. ApplyTyped(w)'
  BY <1>3 DEF ApplyTyped, InApply
<1>7. QED
  BY <1>2, <1>5, <1>6

\* A record that is read while it is pending belongs to a unit.
LEMMA PendingType ==
    ASSUME Typed, NEW o \in Ops, Pending(log[o].record)
    PROVE  o \in Units /\ log[o].record \in RecordOf(o)
<1>1. log[o].record # NoRecord
  BY DEF Pending, NoRecord
<1>2. log[o].rev > 0
  BY <1>1 DEF Typed, LogTyped
<1>3. QED
  BY <1>2 DEF Typed, LogTyped

LEMMA QueueAppended ==
    ASSUME NEW q \in Seq(Items), NEW item \in Items, item.record \in RecordOf(item.op),
           \A k \in DOMAIN q : q[k].record \in RecordOf(q[k].op)
    PROVE  LET p == Append(q, item)
           IN p \in Seq(Items) /\ \A k \in DOMAIN p : p[k].record \in RecordOf(p[k].op)
<1> DEFINE p == Append(q, item)
<1>1. /\ p \in Seq(Items) /\ DOMAIN q = 1..Len(q) /\ DOMAIN p = 1..(Len(q) + 1) /\ Len(q) \in Nat
      /\ \A k \in 1..Len(q) : p[k] = q[k]
      /\ p[Len(q) + 1] = item
  BY AppendProperties, LenProperties
<1>2. \A k \in DOMAIN p : k = Len(q) + 1 \/ k \in DOMAIN q
  BY <1>1
<1>3. QED
  BY <1>1, <1>2

LEMMA ScanTyped ==
    ASSUME Typed, NEW w \in Workers, Scan(w)
    PROVE  /\ OnlyMoves(w) /\ MemoryTyped(w)' /\ ApplyTyped(w)'
           /\ cursor[w] \in Ops /\ work'[w] = work[w]
           /\ pc[w] = "scan" /\ pc'[w] \in {"scan", "next"}
           /\ \/ queue'[w] = queue[w]
              \/ /\ Pending(log[cursor[w]].record)
                 /\ queue'[w] = Append(queue[w], [op |-> cursor[w], record |-> log[cursor[w]].record])
<1> DEFINE o == cursor[w]
           item == [op |-> o, record |-> log[o].record]
<1>1. /\ pc[w] = "scan" /\ o \in Ops /\ w \notin Direct /\ queue[w] \in Seq(Items)
      /\ \A k \in DOMAIN queue[w] : queue[w][k].record \in RecordOf(queue[w][k].op)
  BY MemoryOf DEF Scan, MemoryTyped, Homes
<1>2. OnlyMoves(w)
  BY DEF Scan, OnlyMoves, Goto, Typed, FlowTyped
<1>3. /\ work'[w] = work[w] /\ rec'[w] = rec[w] /\ seen'[w] = seen[w] /\ failed'[w] = failed[w]
      /\ cursor'[w] = IF o = N THEN 1 ELSE o + 1
      /\ pc'[w] = IF o = N THEN "next" ELSE "scan"
      /\ queue'[w] = IF Pending(log[o].record) THEN Append(queue[w], item) ELSE queue[w]
  BY <1>1 DEF Scan, Goto, Typed, FlowTyped
<1>4. /\ queue'[w] \in Seq(Items)
      /\ \A k \in DOMAIN queue'[w] : queue'[w][k].record \in RecordOf(queue'[w][k].op)
  <2>1. CASE Pending(log[o].record)
    <3>1. o \in Units /\ log[o].record \in RecordOf(o)
      BY <1>1, <2>1, PendingType
    <3>2. item \in Items /\ item.record \in RecordOf(item.op)
      BY <3>1 DEF Items
    <3>3. QED
      BY <1>1, <1>3, <2>1, <3>2, QueueAppended
  <2>2. CASE ~Pending(log[o].record)
    BY <1>1, <1>3, <2>2
  <2>3. QED
    BY <2>1, <2>2
<1>5. cursor'[w] \in Nat /\ (pc'[w] = "scan" => cursor'[w] \in Ops)
  <2>1. o \in Nat /\ (o # N => o + 1 \in Ops)
    BY <1>1, OpsType
  <2>2. pc'[w] = "scan" => o # N
    BY <1>3
  <2>3. QED
    BY <1>3, <2>1, <2>2
<1>6. pc'[w] \in {"scan", "next"}
  BY <1>3
<1>7. seen'[w] \in Nat /\ failed'[w] \in BOOLEAN
  BY <1>3, MemoryOf DEF MemoryTyped
<1>8. MemoryTyped(w)'
  BY <1>1, <1>4, <1>5, <1>6, <1>7 DEF MemoryTyped, Homes, Resting
<1>9. ApplyTyped(w)'
  BY <1>6 DEF ApplyTyped, InApply
<1>10. QED
  BY <1>1, <1>2, <1>3, <1>6, <1>8, <1>9

LEMMA TakeTyped ==
    ASSUME Typed, NEW w \in Workers, Take(w)
    PROVE  /\ OnlyMoves(w) /\ MemoryTyped(w)' /\ ApplyTyped(w)'
           /\ pc[w] = "next" /\ pc'[w] = "save" /\ 1 \in DOMAIN queue[w]
           /\ work'[w] = queue[w][1].op
           /\ rec'[w] = [queue[w][1].record EXCEPT !.phase = "applying"]
           /\ DOMAIN queue'[w] = 1..(Len(queue[w]) - 1) /\ Len(queue[w]) \in Nat
           /\ \A k \in DOMAIN queue'[w] : k + 1 \in DOMAIN queue[w] /\ queue'[w][k] = queue[w][k + 1]
<1>1. /\ pc[w] = "next" /\ w \notin Direct /\ queue[w] \in Seq(Items) /\ queue[w] # <<>>
      /\ \A k \in DOMAIN queue[w] : queue[w][k].record \in RecordOf(queue[w][k].op)
  BY MemoryOf DEF Take, MemoryTyped, Homes
<1>2. OnlyMoves(w)
  BY DEF Take, OnlyMoves, Goto, Typed, FlowTyped
<1>3. /\ seen'[w] = seen[w] /\ failed'[w] = failed[w] /\ cursor'[w] = cursor[w]
      /\ pc'[w] = "save" /\ queue'[w] = Tail(queue[w]) /\ work'[w] = Head(queue[w]).op
      /\ rec'[w] = [Head(queue[w]).record EXCEPT !.phase = "applying"]
  BY DEF Take, Goto, Typed, FlowTyped
<1>4. /\ Tail(queue[w]) \in Seq(Items) /\ Head(queue[w]) = queue[w][1] /\ 1 \in DOMAIN queue[w]
      /\ Len(queue[w]) \in Nat
      /\ DOMAIN queue[w] = 1..Len(queue[w]) /\ DOMAIN Tail(queue[w]) = 1..(Len(queue[w]) - 1)
      /\ \A k \in 1..(Len(queue[w]) - 1) : Tail(queue[w])[k] = queue[w][k + 1]
  BY <1>1, HeadTailProperties, LenProperties
<1>5. \A k \in DOMAIN queue'[w] : k + 1 \in DOMAIN queue[w] /\ queue'[w][k] = queue[w][k + 1]
  BY <1>3, <1>4
<1>6. queue[w][1] \in Items /\ queue[w][1].op \in Units /\ queue[w][1].record \in RecordOf(queue[w][1].op)
  <2>1. queue[w][1] \in Items
    BY <1>1, <1>4, ElementOfSeq
  <2>2. QED
    BY <1>1, <1>4, <2>1 DEF Items
<1>7. rec'[w] \in RecordOf(work'[w]) /\ rec'[w].phase = "applying" /\ work'[w] \in Units
  <2>1. queue[w][1].op \in Ops
    BY <1>6, OpsType
  <2>2. /\ [queue[w][1].record EXCEPT !.phase = "applying"] \in RecordOf(queue[w][1].op)
        /\ [queue[w][1].record EXCEPT !.phase = "applying"].phase = "applying"
    BY <1>6, <2>1, PhaseChanges
  <2>3. QED
    BY <1>3, <1>4, <1>6, <2>2
<1>8. /\ queue'[w] \in Seq(Items)
      /\ \A k \in DOMAIN queue'[w] : queue'[w][k].record \in RecordOf(queue'[w][k].op)
  BY <1>1, <1>3, <1>4, <1>5
<1>9. seen'[w] \in Nat /\ failed'[w] \in BOOLEAN /\ cursor'[w] \in Nat
  BY <1>3, MemoryOf DEF MemoryTyped
<1>10. MemoryTyped(w)'
  BY <1>1, <1>3, <1>8, <1>9 DEF MemoryTyped, Homes, Resting, InApply
<1>11. ApplyTyped(w)'
  BY <1>3, <1>7 DEF ApplyTyped, InApply
<1>12. QED
  BY <1>1, <1>2, <1>3, <1>4, <1>5, <1>10, <1>11

LEMMA RecoveredTyped ==
    ASSUME Typed, NEW w \in Workers, Recovered(w)
    PROVE  /\ OnlyMoves(w) /\ MemoryTyped(w)' /\ ApplyTyped(w)'
           /\ pc[w] = "next" /\ queue[w] = <<>> /\ queue'[w] = <<>>
           /\ \/ w \in Units /\ pc'[w] = "staging" /\ rec'[w] = NewRecord(w) /\ cursor'[w] = 1
                 /\ work'[w] = w
              \/ pc'[w] = "idle" /\ rec'[w] = NoRecord /\ work'[w] = work[w]
<1>1. pc[w] = "next" /\ queue[w] = <<>> /\ w \notin Direct
  BY MemoryOf DEF Recovered, MemoryTyped, Homes
<1>2. OnlyMoves(w)
  BY DEF Recovered, OnlyMoves, Goto, Typed, FlowTyped
<1>3. /\ cursor'[w] = 1 /\ seen'[w] = 0 /\ failed'[w] = failed[w] /\ queue'[w] = queue[w]
  BY DEF Recovered, Goto, Typed, FlowTyped
<1>4. \/ w \in Ops /\ pc'[w] = "staging" /\ work'[w] = w /\ rec'[w] = NewRecord(w)
      \/ w \notin Ops /\ pc'[w] = "idle" /\ rec'[w] = NoRecord /\ work'[w] = work[w]
  BY DEF Recovered, Goto, Typed, FlowTyped
<1>5. failed'[w] \in BOOLEAN
  BY <1>3, MemoryOf DEF MemoryTyped
<1>6. cursor'[w] \in Nat /\ seen'[w] \in Nat
  BY <1>3
<1>7. queue'[w] \in Seq(Items) /\ DOMAIN queue'[w] = {}
  BY <1>1, <1>3
<1>8. MemoryTyped(w)'
  <2>1. CASE w \in Ops
    <3>1. cursor'[w] \in Indices(w)
      BY <1>3, <2>1, PlanType
    <3>2. QED
      BY <1>1, <1>4, <1>5, <1>6, <1>7, <2>1, <3>1, NewRecordType DEF MemoryTyped, Homes, Resting
  <2>2. CASE w \notin Ops
    BY <1>1, <1>4, <1>5, <1>6, <1>7, <2>2 DEF MemoryTyped, Homes, Resting
  <2>3. QED
    BY <2>1, <2>2
<1>9. ApplyTyped(w)'
  BY <1>4 DEF ApplyTyped, InApply
<1>10. QED
  BY <1>1, <1>2, <1>3, <1>4, <1>8, <1>9 DEF Units

-----------------------------------------------------------------------------
(* Types: every step.                                                       *)

LEMMA CommitTyped ==
    ASSUME Typed, NEW o \in Ops, CommitStep(o)
    PROVE  Typed'
<1>0. o \in Workers /\ setting' = setting
  BY DEF Workers, CommitStep
<1>1. CASE Stage(o)
  <2>1. FlowTyped'
    BY <1>0, <1>1, StageTyped, FlowKept
  <2>2. LogTyped' /\ FilesTyped' /\ BoundsTyped'
    BY <1>0, <1>1, LogKept, BoundsKept DEF Stage, storeVars, Typed, FilesTyped
  <2>3. QED
    BY <2>1, <2>2 DEF Typed
<1>2. CASE Create(o)
  <2>1. FlowTyped' /\ LogTyped'
    BY <1>0, <1>2, CreateTyped, FlowKept
  <2>2. FilesTyped' /\ BoundsTyped'
    BY <1>0, <1>2, BoundsKept DEF Create, Typed, FilesTyped
  <2>3. QED
    BY <2>1, <2>2 DEF Typed
<1>3. CASE StartDirect(o)
  <2>1. FlowTyped'
    BY <1>0, <1>3, StartDirectTyped, FlowKept
  <2>2. LogTyped' /\ FilesTyped' /\ BoundsTyped'
    BY <1>0, <1>3, LogKept, BoundsKept DEF StartDirect, storeVars, Typed, FilesTyped
  <2>3. QED
    BY <2>1, <2>2 DEF Typed
<1>4. CASE WriteDirect(o)
  <2>1. FlowTyped'
    BY <1>0, <1>4, DirectTyped, FlowKept
  <2>2. LogTyped' /\ BoundsTyped'
    BY <1>0, <1>4, LogKept, BoundsKept DEF WriteDirect, Typed
  <2>3. QED
    BY <1>4, <2>1, <2>2, WriteDirectFiles DEF Typed
<1>5. CASE DirectTimeout(o)
  <2>1. FlowTyped'
    BY <1>0, <1>5, DirectTyped, FlowKept
  <2>2. LogTyped' /\ FilesTyped'
    BY <1>0, <1>5, LogKept DEF DirectTimeout, storeVars, Typed, FilesTyped
  <2>3. BoundsTyped'
    BY <1>0, <1>5, TimeoutTyped DEF DirectTimeout, Typed
  <2>4. QED
    BY <2>1, <2>2, <2>3 DEF Typed
<1>6. QED
  BY <1>1, <1>2, <1>3, <1>4, <1>5 DEF CommitStep

LEMMA RecoverStepTyped ==
    ASSUME Typed, NEW w \in Workers, RecoverStep(w)
    PROVE  Typed'
<1>1. FlowTyped'
  BY RecoverTyped, ScanTyped, TakeTyped, RecoveredTyped, FlowKept DEF RecoverStep
<1>2. UNCHANGED storeVars /\ UNCHANGED effects /\ UNCHANGED faultVars /\ UNCHANGED setting
  BY DEF RecoverStep, Recover, Scan, Take, Recovered
<1>3. LogTyped' /\ FilesTyped' /\ BoundsTyped'
  BY <1>2, LogKept, BoundsKept DEF storeVars, Typed, FilesTyped
<1>4. QED
  BY <1>1, <1>3 DEF Typed

LEMMA WorkTyped ==
    ASSUME Typed, NEW w \in Workers, Work(w)
    PROVE  Typed'
<1>0. setting' = setting
  BY DEF Work
<1>1. CASE SaveLoad(w) \/ Finish(w) \/ UndoLook(w) \/ UndoFinish(w)
  <2>1. FlowTyped'
    BY <1>1, SaveLoadTyped, FinishTyped, UndoLookTyped, UndoFinishTyped, FlowKept
  <2>2. UNCHANGED storeVars /\ UNCHANGED effects /\ UNCHANGED faultVars
    BY <1>1 DEF SaveLoad, Finish, UndoLook, UndoFinish
  <2>3. LogTyped' /\ FilesTyped' /\ BoundsTyped'
    BY <1>0, <2>2, LogKept, BoundsKept DEF storeVars, Typed, FilesTyped
  <2>4. QED
    BY <2>1, <2>3 DEF Typed
<1>2. CASE Save(w)
  <2>1. FlowTyped' /\ LogTyped'
    BY <1>2, SaveTyped, FlowKept
  <2>2. FilesTyped' /\ BoundsTyped'
    BY <1>0, <1>2, BoundsKept DEF Save, Typed, FilesTyped
  <2>3. QED
    BY <2>1, <2>2 DEF Typed
<1>3. CASE SaveTimeout(w)
  <2>1. FlowTyped'
    BY <1>3, RaiseTyped, FlowKept DEF SaveTimeout
  <2>2. LogTyped' /\ FilesTyped'
    BY <1>3, LogKept DEF SaveTimeout, storeVars, Typed, FilesTyped
  <2>3. BoundsTyped'
    BY <1>0, <1>3, TimeoutTyped DEF SaveTimeout, Typed
  <2>4. QED
    BY <2>1, <2>2, <2>3 DEF Typed
<1>4. CASE Apply(w)
  <2>1. FlowTyped'
    BY <1>4, ApplyStepTyped, FlowKept
  <2>2. FilesTyped'
    BY <1>4, MutateFiles DEF Apply, Typed, FilesTyped
  <2>3. LogTyped' /\ BoundsTyped'
    BY <1>0, <1>4, LogKept, BoundsKept DEF Apply, Typed
  <2>4. QED
    BY <2>1, <2>2, <2>3 DEF Typed
<1>5. CASE ApplyRefused(w)
  <2>1. FlowTyped'
    BY <1>5, ApplyRefusedTyped, BeginUndoTyped, FlowKept
  <2>2. UNCHANGED storeVars /\ UNCHANGED effects
    BY <1>5 DEF ApplyRefused, BeginUndo
  <2>3. LogTyped' /\ FilesTyped'
    BY <2>2, LogKept DEF storeVars, Typed, FilesTyped
  <2>4. BoundsTyped'
    BY <1>0, <1>5, TimeoutTyped, BoundsKept DEF ApplyRefused, Typed
  <2>5. QED
    BY <2>1, <2>3, <2>4 DEF Typed
<1>6. CASE Undo(w)
  <2>1. FlowTyped'
    BY <1>6, UndoTyped, FlowKept
  <2>2. FilesTyped'
    BY <1>6, CompensateFiles DEF Undo, Undone, Typed, FilesTyped
  <2>3. LogTyped' /\ BoundsTyped'
    BY <1>0, <1>6, LogKept, BoundsKept DEF Undo, Undone, Typed
  <2>4. QED
    BY <2>1, <2>2, <2>3 DEF Typed
<1>7. CASE UndoTimeout(w)
  <2>1. FlowTyped'
    BY <1>7, UndoTyped, FlowKept
  <2>2. LogTyped' /\ FilesTyped'
    BY <1>7, LogKept DEF UndoTimeout, Undone, Typed, FilesTyped
  <2>3. BoundsTyped'
    BY <1>0, <1>7, TimeoutTyped DEF UndoTimeout, Typed
  <2>4. QED
    BY <2>1, <2>2, <2>3 DEF Typed
<1>8. QED
  BY <1>1, <1>2, <1>3, <1>4, <1>5, <1>6, <1>7 DEF Work

LEMMA CrashTyped ==
    ASSUME Typed, NEW w \in Workers,
           Crash(w) \/ CrashInSave(w) \/ CrashInApply(w) \/ CrashInUndo(w)
    PROVE  Typed'
<1>1. Die(w)
  BY DEF Crash, CrashInSave, CrashInApply, CrashInUndo, DieHolding
<1>2. FlowTyped'
  BY <1>1, DieTyped, FlowKept
<1>3. BoundsTyped'
  BY <1>1, DieBounds DEF Crash, CrashInSave, CrashInApply, CrashInUndo, DieHolding, Typed
<1>4. CASE Crash(w)
  BY <1>2, <1>3, <1>4, LogKept DEF Crash, storeVars, Typed, FilesTyped
<1>5. CASE CrashInSave(w)
  <2>1. work[w] \in Units /\ work[w] \in Ops /\ rec[w] \in RecordOf(work[w])
    <3>1. CASE pc[w] = "create"
      BY <3>1, MemoryOf, OpsType DEF MemoryTyped, Homes, Units
    <3>2. CASE pc[w] = "saving"
      BY <3>2, MemoryOf, OpsType DEF ApplyTyped, InApply
    <3>3. QED
      BY <1>5, <3>1, <3>2 DEF CrashInSave
  <2>2. LogTyped'
    BY <1>5, <2>1, LogKept, LogWritten DEF CrashInSave, Typed
  <2>3. stuck' \subseteq Files \cup Ops
    BY <1>5, <2>1 DEF CrashInSave, DieHolding, Typed, FilesTyped
  <2>4. FilesTyped'
    BY <1>5, <2>3 DEF CrashInSave, Typed, FilesTyped
  <2>5. QED
    BY <1>2, <1>3, <2>2, <2>4 DEF Typed
<1>6. CASE CrashInApply(w)
  <2>1. pc[w] = "apply" /\ Remaining(w) # {}
    BY <1>6 DEF CrashInApply
  <2>2. stuck' \subseteq Files \cup Ops
    BY <1>6, <2>1, ApplyContext DEF CrashInApply, DieHolding, Typed, FilesTyped
  <2>3. /\ file' \in [Files -> Store!Doc]
        /\ effects' \in [Ops -> SUBSET Nat] /\ \A o \in Ops : effects'[o] \subseteq Indices(o)
    BY <1>6, <2>1, MutateFiles DEF CrashInApply, Typed, FilesTyped
  <2>4. LogTyped'
    BY <1>6, LogKept DEF CrashInApply, Typed
  <2>5. FilesTyped'
    BY <2>2, <2>3 DEF FilesTyped
  <2>6. QED
    BY <1>2, <1>3, <2>4, <2>5 DEF Typed
<1>7. CASE CrashInUndo(w)
  <2>1. pc[w] = "undoing"
    BY <1>7 DEF CrashInUndo
  <2>2. stuck' \subseteq Files \cup Ops
    BY <1>7, <2>1, UndoContext DEF CrashInUndo, DieHolding, Typed, FilesTyped
  <2>3. /\ file' \in [Files -> Store!Doc]
        /\ effects' \in [Ops -> SUBSET Nat] /\ \A o \in Ops : effects'[o] \subseteq Indices(o)
    BY <1>7, <2>1, CompensateFiles DEF CrashInUndo, Typed, FilesTyped
  <2>4. LogTyped'
    BY <1>7, LogKept DEF CrashInUndo, Typed
  <2>5. FilesTyped'
    BY <2>2, <2>3 DEF FilesTyped
  <2>6. QED
    BY <1>2, <1>3, <2>4, <2>5 DEF Typed
<1>8. QED
  BY <1>4, <1>5, <1>6, <1>7

LEMMA ClearTyped ==
    ASSUME Typed, NEW x, ClearLock(x)
    PROVE  Typed'
<1>1. FlowTyped'
  BY DEF ClearLock, Typed, FlowTyped, MemoryTyped, ApplyTyped, memoryVars
<1>2. FilesTyped' /\ LogTyped' /\ BoundsTyped'
  BY LogKept, BoundsKept DEF ClearLock, Typed, FilesTyped
<1>3. QED
  BY <1>1, <1>2 DEF Typed

LEMMA TypedStep == Typed /\ [Next]_vars => Typed'
<1> SUFFICES ASSUME Typed, [Next]_vars PROVE Typed'
  OBVIOUS
<1>1. CASE UNCHANGED vars
  <2>1. FlowTyped'
    BY <1>1 DEF vars, memoryVars, Typed, FlowTyped, MemoryTyped, ApplyTyped
  <2>2. FilesTyped' /\ LogTyped' /\ BoundsTyped'
    BY <1>1, LogKept, BoundsKept DEF vars, storeVars, Typed, FilesTyped
  <2>3. QED
    BY <2>1, <2>2 DEF Typed
<1>2. ASSUME NEW o \in Ops, CommitStep(o) PROVE Typed'
  BY <1>2, CommitTyped
<1>3. ASSUME NEW w \in Workers,
             \/ RecoverStep(w) \/ Work(w) \/ Crash(w) \/ CrashInSave(w)
             \/ CrashInApply(w) \/ CrashInUndo(w)
      PROVE  Typed'
  BY <1>3, RecoverStepTyped, WorkTyped, CrashTyped
<1>4. ASSUME NEW x \in Files \cup Ops, ClearLock(x) PROVE Typed'
  BY <1>4, ClearTyped
<1>5. QED
  BY <1>1, <1>2, <1>3, <1>4 DEF Next

\* Documents, records and what every process remembers keep their types,
\* whatever is refused, killed or held up where.
THEOREM TypeCorrect == Spec => []TypeOK
<1>1. Spec => []Typed
  BY TypedInit, TypedStep, PTL DEF Spec
<1>2. QED
  BY <1>1, TypedTypes, PTL

-----------------------------------------------------------------------------
(* No newer version is overwritten.  Deleting a document lets its revisions *)
(* start again, so that a revision tells versions apart only as long as     *)
(* documents are replaced: this is a hypothesis of the theorem.             *)

OnlyReplaced ==
    /\ Existing = Files
    /\ \A o \in Ops : \A i \in Indices(o) : Plan[o][i].kind = "replace"

\* What a record says of a participant is true of a version of the document
\* that was there, and if it is the one that is there, of this one.
Fits(part, d) ==
    /\ part.existed
    /\ part.expected <= d.rev
    /\ part.expected = d.rev => part.before = d.data

Sound(o, r, docs) == \A i \in Indices(o) : Fits(r.parts[i], docs[Plan[o][i].file])

DocumentsThere == \A f \in Files : file[f].exists /\ file[f].rev > 0

LogSound == \A o \in Ops : log[o].rev > 0 => Sound(o, log[o].record, file)

\* The records a process holds.
MemorySound(w) ==
    /\ pc[w] = "staging" => \A i \in Indices(w) :
          i < cursor[w] => Fits(rec[w].parts[i], file[Plan[w][i].file])
    /\ pc[w] = "create" => Sound(w, rec[w], file)
    /\ pc[w] \in InApply => Sound(work[w], rec[w], file)
    /\ \A k \in DOMAIN queue[w] : Sound(queue[w][k].op, queue[w][k].record, file)

\* A document that is about to be undone is as the operation left it, or has
\* been written since.
UndoSound(w) ==
    pc[w] = "undoing" =>
       /\ seen[w] <= file[Doc(w, Max(todo[w]))].rev
       /\ seen[w] = file[Doc(w, Max(todo[w]))].rev =>
             file[Doc(w, Max(todo[w]))].op = OpId(work[w])

WorkersSound == \A w \in Workers : MemorySound(w) /\ UndoSound(w)

Versions == DocumentsThere /\ LogSound /\ WorkersSound

\* What any store call of these operations does to the documents.
FilesGrow ==
    \A f \in Files : \/ file'[f] = file[f]
                     \/ file'[f].exists /\ file'[f].rev > file[f].rev /\ file'[f].rev \in Nat

LEMMA CallGrows ==
    ASSUME Typed, NEW f \in Files, NEW c, DoCall(f, c), c.kind = "replace"
    PROVE  FilesGrow
<1>1. file[f] \in Store!Doc
  BY DEF Typed, FilesTyped
<1>2. /\ Store!CallEffect(file[f], c).exists
      /\ Store!CallEffect(file[f], c).rev > file[f].rev
      /\ Store!CallEffect(file[f], c).rev \in Nat
  BY <1>1 DEF Store!CallEffect, Store!Doc
<1>3. QED
  BY <1>2 DEF DoCall, FilesGrow, Typed, FilesTyped

\* What was true of the documents stays true as they grow.
LEMMA FitsKept ==
    ASSUME Typed, FilesGrow, NEW f \in Files, NEW part \in Part, Fits(part, file[f])
    PROVE  Fits(part, file'[f])
<1>1. file[f].rev \in Nat /\ part.expected \in Nat
  BY DEF Typed, FilesTyped, Store!Doc, Part
<1>2. CASE file'[f] = file[f]
  BY <1>2
<1>3. CASE file'[f].rev > file[f].rev /\ file'[f].rev \in Nat
  BY <1>1, <1>3 DEF Fits
<1>4. QED
  BY <1>2, <1>3 DEF FilesGrow

LEMMA SoundKept ==
    ASSUME Typed, FilesGrow, NEW o \in Ops, NEW r \in RecordOf(o), Sound(o, r, file)
    PROVE  Sound(o, r, file')
<1> SUFFICES ASSUME NEW i \in Indices(o) PROVE Fits(r.parts[i], file'[Plan[o][i].file])
  BY DEF Sound
<1>1. r.parts[i] \in Part /\ Plan[o][i].file \in Files
  BY RecordFields, PlanType
<1>2. QED
  BY <1>1, FitsKept DEF Sound

\* A process that neither writes nor reads a document keeps what it knows.
LEMMA QueueSound ==
    ASSUME Typed, Versions, FilesGrow, NEW w \in Workers
    PROVE  \A k \in DOMAIN queue[w] : Sound(queue[w][k].op, queue[w][k].record, file')
<1> SUFFICES ASSUME NEW k \in DOMAIN queue[w]
             PROVE  Sound(queue[w][k].op, queue[w][k].record, file')
  OBVIOUS
<1>1. /\ queue[w] \in Seq(Items) /\ queue[w][k].record \in RecordOf(queue[w][k].op)
      /\ Sound(queue[w][k].op, queue[w][k].record, file)
  BY MemoryOf DEF MemoryTyped, Versions, WorkersSound, MemorySound
<1>2. queue[w][k] \in Items
  BY <1>1, ElementOfSeq, LenProperties
<1>3. queue[w][k].op \in Ops
  BY <1>2, OpsType DEF Items
<1>4. QED
  BY <1>1, <1>3, SoundKept

LEMMA OtherSound ==
    ASSUME Typed, Versions, FilesGrow, NEW w \in Workers, OnlyMoves(w),
           NEW v \in Workers \ {w}
    PROVE  MemorySound(v)' /\ UndoSound(v)'
<1>1. /\ pc'[v] = pc[v] /\ work'[v] = work[v] /\ rec'[v] = rec[v] /\ cursor'[v] = cursor[v]
      /\ seen'[v] = seen[v] /\ todo'[v] = todo[v] /\ queue'[v] = queue[v]
  BY DEF OnlyMoves
<1>2. MemoryTyped(v) /\ ApplyTyped(v) /\ MemorySound(v) /\ UndoSound(v)
  BY MemoryOf DEF Versions, WorkersSound
<1>3. pc[v] = "staging" => \A i \in Indices(v) :
         i < cursor[v] => Fits(rec[v].parts[i], file'[Plan[v][i].file])
  <2> SUFFICES ASSUME pc[v] = "staging", NEW i \in Indices(v), i < cursor[v]
               PROVE  Fits(rec[v].parts[i], file'[Plan[v][i].file])
    OBVIOUS
  <2>1. v \in Ops /\ rec[v] \in RecordOf(v) /\ Fits(rec[v].parts[i], file[Plan[v][i].file])
    BY <1>2 DEF MemoryTyped, MemorySound, Homes
  <2>2. rec[v].parts[i] \in Part /\ Plan[v][i].file \in Files
    BY <2>1, RecordFields, PlanType
  <2>3. QED
    BY <2>1, <2>2, FitsKept
<1>4. pc[v] = "create" => Sound(v, rec[v], file')
  <2> SUFFICES ASSUME pc[v] = "create" PROVE Sound(v, rec[v], file')
    OBVIOUS
  <2>1. v \in Ops /\ rec[v] \in RecordOf(v) /\ Sound(v, rec[v], file)
    BY <1>2 DEF MemoryTyped, MemorySound, Homes
  <2>2. QED
    BY <2>1, SoundKept
<1>5. pc[v] \in InApply => Sound(work[v], rec[v], file')
  <2> SUFFICES ASSUME pc[v] \in InApply PROVE Sound(work[v], rec[v], file')
    OBVIOUS
  <2>1. work[v] \in Ops /\ rec[v] \in RecordOf(work[v]) /\ Sound(work[v], rec[v], file)
    BY <1>2, OpsType DEF ApplyTyped, MemorySound
  <2>2. QED
    BY <2>1, SoundKept
<1>6. MemorySound(v)'
  BY <1>1, <1>3, <1>4, <1>5, QueueSound DEF MemorySound
<1>7. UndoSound(v)'
  <2> SUFFICES ASSUME pc[v] = "undoing" PROVE UndoSound(v)'
    BY <1>1 DEF UndoSound
  <2> DEFINE f == Plan[work[v]][Max(todo[v])].file
  <2>1. f \in Files
    BY UndoContext DEF Doc
  <2>2. file[f].rev \in Nat
    BY <2>1 DEF Typed, FilesTyped, Store!Doc
  <2>3. seen[v] \in Nat /\ seen[v] <= file[f].rev /\ (seen[v] = file[f].rev => file[f].op = OpId(work[v]))
    BY <1>2 DEF UndoSound, MemoryTyped, Doc
  <2>4. file'[f] = file[f] \/ (file'[f].rev > file[f].rev /\ file'[f].rev \in Nat)
    BY <2>1 DEF FilesGrow
  <2>5. seen[v] <= file'[f].rev /\ (seen[v] = file'[f].rev => file'[f].op = OpId(work[v]))
    BY <2>2, <2>3, <2>4
  <2>6. QED
    BY <1>1, <2>5 DEF UndoSound, Doc
<1>8. QED
  BY <1>6, <1>7

LEMMA ThereKept ==
    ASSUME DocumentsThere, Typed, FilesGrow
    PROVE  DocumentsThere'
<1> SUFFICES ASSUME NEW f \in Files PROVE file'[f].exists /\ file'[f].rev > 0
  BY DEF DocumentsThere
<1>1. file[f].rev \in Nat /\ file[f].exists /\ file[f].rev > 0
  BY DEF Typed, FilesTyped, DocumentsThere, Store!Doc
<1>2. QED
  BY <1>1 DEF FilesGrow

LEMMA LogSoundKept ==
    ASSUME Typed, Versions, FilesGrow,
           \/ UNCHANGED log
           \/ \E o \in Ops : \E r \in RecordOf(o) : WriteLog(o, r) /\ Sound(o, r, file)
    PROVE  LogSound'
<1> SUFFICES ASSUME NEW o \in Ops, log'[o].rev > 0 PROVE Sound(o, log'[o].record, file')
  BY DEF LogSound
<1>1. CASE log'[o] = log[o]
  <2>1. log[o].record \in RecordOf(o) /\ Sound(o, log[o].record, file)
    BY <1>1 DEF Typed, LogTyped, Versions, LogSound
  <2>2. QED
    BY <1>1, <2>1, SoundKept
<1>2. ASSUME NEW r \in RecordOf(o), Sound(o, r, file), log'[o].record = r
      PROVE  Sound(o, log'[o].record, file')
  BY <1>2, SoundKept
<1>3. QED
  BY <1>1, <1>2 DEF WriteLog, Typed, LogTyped

\* A step of w that grows the documents leaves only what w knows to be shown.
LEMMA VersionsKept ==
    ASSUME Typed, Versions, FilesGrow, NEW w \in Workers, OnlyMoves(w),
           MemorySound(w)', UndoSound(w)',
           \/ UNCHANGED log
           \/ \E o \in Ops : \E r \in RecordOf(o) : WriteLog(o, r) /\ Sound(o, r, file)
    PROVE  Versions'
<1>1. WorkersSound'
  BY OtherSound DEF WorkersSound
<1>2. DocumentsThere' /\ LogSound'
  BY ThereKept, LogSoundKept DEF Versions
<1>3. QED
  BY <1>1, <1>2 DEF Versions

LEMMA SameGrows == UNCHANGED file => FilesGrow
BY DEF FilesGrow

LEMMA MutateGrows ==
    ASSUME OnlyReplaced, Typed, NEW w \in Workers, pc[w] = "apply", Remaining(w) # {}, Mutate(w)
    PROVE  FilesGrow
<1>1. /\ work[w] \in Ops /\ NextMutation(w) \in Indices(work[w])
      /\ Doc(w, NextMutation(w)) \in Files
  BY ApplyContext
<1>2. MutationOf(w).kind = "replace"
  BY <1>1, MutationCallType DEF MutationOf, OnlyReplaced
<1>3. QED
  BY <1>1, <1>2, CallGrows DEF Mutate

LEMMA CompensateGrows ==
    ASSUME Typed, Versions, NEW w \in Workers, pc[w] = "undoing", Compensate(w)
    PROVE  FilesGrow
<1>1. /\ work[w] \in Ops /\ rec[w] \in RecordOf(work[w]) /\ Max(todo[w]) \in Indices(work[w])
      /\ Doc(w, Max(todo[w])) \in Files
  BY ApplyContext, UndoContext
<1>2. rec[w].parts[Max(todo[w])].existed
  BY <1>1 DEF Versions, WorkersSound, MemorySound, InApply, Sound, Fits
<1>3. UndoOf(w).kind = "replace"
  BY <1>1, <1>2, UndoCallType DEF UndoOf
<1>4. QED
  BY <1>1, <1>3, CallGrows DEF Compensate

\* A process that ends its call knows nothing any more.
LEMMA RestSound ==
    ASSUME NEW w \in Workers, pc'[w] \in Resting, queue'[w] = <<>>
    PROVE  MemorySound(w)' /\ UndoSound(w)'
<1>1. DOMAIN << >> = {}
  OBVIOUS
<1>2. QED
  BY <1>1 DEF MemorySound, UndoSound, Resting, InApply

\* One that goes on with its record knows what it knew.
LEMMA GoesOnSound ==
    ASSUME Typed, Versions, FilesGrow, NEW w \in Workers,
           pc[w] \in InApply, pc'[w] \in {"save", "saving", "apply", "undo", "next"},
           work'[w] = work[w], rec'[w].parts = rec[w].parts, queue'[w] = queue[w]
    PROVE  MemorySound(w)' /\ UndoSound(w)'
<1>1. work[w] \in Ops /\ rec[w] \in RecordOf(work[w]) /\ Sound(work[w], rec[w], file)
  BY MemoryOf, OpsType DEF ApplyTyped, Versions, WorkersSound, MemorySound
<1>2. Sound(work[w], rec[w], file')
  BY <1>1, SoundKept
<1>3. Sound(work'[w], rec'[w], file')
  BY <1>2 DEF Sound
<1>4. MemorySound(w)'
  BY <1>3, QueueSound DEF MemorySound, InApply
<1>5. UndoSound(w)'
  BY DEF UndoSound
<1>6. QED
  BY <1>4, <1>5

LEMMA StageSound ==
    ASSUME OnlyReplaced, Typed, Versions, NEW o \in Ops, Stage(o)
    PROVE  Versions'
<1> DEFINE c == cursor[o]
           f == Plan[o][c].file
           part == [expected |-> file[f].rev, before |-> file[f].data, existed |-> file[f].exists]
<1>1. o \in Workers /\ pc[o] = "staging"
  BY DEF Stage, Workers
<1>2. c \in Indices(o) /\ rec[o] \in RecordOf(o) /\ OnlyMoves(o) /\ f \in Files
      /\ rec[o].parts \in [Indices(o) -> Part]
  BY <1>1, MemoryOf, StageTyped, PlanType, RecordFields DEF MemoryTyped
<1>3. /\ cursor'[o] = c + 1 /\ queue'[o] = queue[o] /\ pc'[o] \in {"direct", "create", "staging"}
      /\ (pc'[o] = "create" => c = Len(Plan[o]))
      /\ rec'[o] = [rec[o] EXCEPT !.parts[c] = part]
      /\ UNCHANGED file /\ UNCHANGED log
  BY <1>1 DEF Stage, Goto, Typed, FlowTyped, storeVars
<1>4. Fits(part, file[f])
  BY <1>2 DEF Fits, Versions, DocumentsThere, Typed, FilesTyped, Store!Doc
<1>5. /\ rec'[o].parts[c] = part
      /\ \A i \in Indices(o) : i # c => rec'[o].parts[i] = rec[o].parts[i]
  BY <1>2, <1>3 DEF RecordOf
<1>6. \A i \in Indices(o) : i < c => Fits(rec[o].parts[i], file[Plan[o][i].file])
  BY <1>1 DEF Versions, WorkersSound, MemorySound
<1>7. \A i \in Indices(o) : i < c + 1 => Fits(rec'[o].parts[i], file[Plan[o][i].file])
  <2> SUFFICES ASSUME NEW i \in Indices(o), i < c + 1
               PROVE  Fits(rec'[o].parts[i], file[Plan[o][i].file])
    OBVIOUS
  <2>1. i = c \/ i < c
    BY <1>2, PlanType
  <2>2. QED
    BY <1>4, <1>5, <1>6, <2>1
<1>8. pc'[o] = "create" => Sound(o, rec'[o], file)
  <2>1. c = Len(Plan[o]) => \A i \in Indices(o) : i < c + 1
    BY PlanType
  <2>2. QED
    BY <1>3, <1>7, <2>1 DEF Sound
<1>9. FilesGrow
  BY <1>3, SameGrows
<1>10. MemorySound(o)' /\ UndoSound(o)'
  BY <1>1, <1>3, <1>7, <1>8, <1>9, QueueSound DEF MemorySound, UndoSound, InApply
<1>11. QED
  BY <1>1, <1>2, <1>3, <1>9, <1>10, VersionsKept

LEMMA CommitSound ==
    ASSUME OnlyReplaced, Typed, Versions, NEW o \in Ops, CommitStep(o)
    PROVE  Versions'
<1>0. o \in Workers
  BY DEF Workers
<1>1. CASE Stage(o)
  BY <1>1, StageSound
<1>2. CASE Create(o)
  <2>1. /\ pc[o] = "create" /\ work[o] = o /\ rec[o] \in RecordOf(o) /\ Sound(o, rec[o], file)
        /\ OnlyMoves(o)
    BY <1>0, <1>2, MemoryOf, CreateTyped DEF Create, MemoryTyped, Versions, WorkersSound, MemorySound
  <2>2. /\ WriteLog(o, rec[o]) /\ UNCHANGED file /\ queue'[o] = queue[o] /\ work'[o] = o
        /\ pc'[o] = "save" /\ rec'[o] = [rec[o] EXCEPT !.phase = "applying"]
    BY <1>0, <1>2, <2>1 DEF Create, Goto, Typed, FlowTyped
  <2>3. rec'[o].parts = rec[o].parts
    BY <2>1, <2>2 DEF RecordOf
  <2>4. FilesGrow
    BY <2>2, SameGrows
  <2>5. Sound(o, rec'[o], file)
    BY <2>1, <2>3 DEF Sound
  <2>6. MemorySound(o)' /\ UndoSound(o)'
    BY <1>0, <2>2, <2>4, <2>5, QueueSound DEF MemorySound, UndoSound
  <2>7. QED
    BY <1>0, <2>1, <2>2, <2>4, <2>6, VersionsKept
<1>3. CASE StartDirect(o)
  <2>1. /\ OnlyMoves(o) /\ UNCHANGED file /\ UNCHANGED log /\ queue'[o] = queue[o]
        /\ pc'[o] = "staging" /\ cursor'[o] = 1
    <3>1. pc[o] = "new" /\ cursor[o] = 1
      BY <1>0, <1>3, MemoryOf DEF StartDirect, MemoryTyped
    <3>2. QED
      BY <1>0, <1>3, <3>1, StartDirectTyped DEF StartDirect, Goto, Typed, FlowTyped, storeVars
  <2>2. FilesGrow
    BY <2>1, SameGrows
  <2>3. \A i \in Indices(o) : ~ (i < 1)
    BY PlanType
  <2>4. MemorySound(o)' /\ UndoSound(o)'
    BY <1>0, <2>1, <2>2, <2>3, QueueSound DEF MemorySound, UndoSound, InApply
  <2>5. QED
    BY <1>0, <2>1, <2>2, <2>4, VersionsKept
<1>4. CASE WriteDirect(o)
  <2>1. 1 \in Indices(o) /\ Plan[o][1].file \in Files
    BY PlanType
  <2>2. MutationCall(o, rec[o], 1).kind = "replace"
    BY <2>1, MutationCallType DEF OnlyReplaced
  <2>3. FilesGrow
    BY <1>4, <2>1, <2>2, CallGrows DEF WriteDirect
  <2>4. OnlyMoves(o) /\ pc'[o] = "done" /\ queue'[o] = <<>> /\ UNCHANGED log
    BY <1>0, <1>4, ForgetTyped DEF WriteDirect
  <2>5. QED
    BY <1>0, <2>3, <2>4, RestSound, VersionsKept DEF Resting
<1>5. CASE DirectTimeout(o)
  <2>1. OnlyMoves(o) /\ pc'[o] \in Resting /\ queue'[o] = <<>> /\ UNCHANGED log /\ UNCHANGED file
    BY <1>0, <1>5, RaiseTyped DEF DirectTimeout, Resting, storeVars
  <2>2. QED
    BY <1>0, <2>1, SameGrows, RestSound, VersionsKept
<1>6. QED
  BY <1>1, <1>2, <1>3, <1>4, <1>5 DEF CommitStep

LEMMA RecoverStepSound ==
    ASSUME Typed, Versions, NEW w \in Workers, RecoverStep(w)
    PROVE  Versions'
<1>1. UNCHANGED file /\ UNCHANGED log /\ FilesGrow
  BY SameGrows DEF RecoverStep, Recover, Scan, Take, Recovered, storeVars
<1>2. CASE Recover(w)
  <2>1. OnlyMoves(w) /\ pc'[w] = "scan" /\ queue'[w] = queue[w]
    BY <1>2, RecoverTyped DEF Recover, Goto, Typed, FlowTyped
  <2>2. MemorySound(w)' /\ UndoSound(w)'
    BY <1>1, <2>1, QueueSound DEF MemorySound, UndoSound, InApply
  <2>3. QED
    BY <1>1, <2>1, <2>2, VersionsKept
<1>3. CASE Scan(w)
  <2> DEFINE o == cursor[w]
             item == [op |-> o, record |-> log[o].record]
  <2>1. /\ OnlyMoves(w) /\ o \in Ops /\ pc'[w] \in {"scan", "next"}
        /\ \/ queue'[w] = queue[w]
           \/ Pending(log[o].record) /\ queue'[w] = Append(queue[w], item)
    BY <1>3, ScanTyped
  <2>2. \A k \in DOMAIN queue'[w] : Sound(queue'[w][k].op, queue'[w][k].record, file')
    <3>1. CASE queue'[w] = queue[w]
      BY <1>1, <3>1, QueueSound
    <3>2. CASE Pending(log[o].record) /\ queue'[w] = Append(queue[w], item)
      <4>1. log[o].record # NoRecord
        BY <3>2 DEF Pending, NoRecord
      <4>2. Sound(o, log[o].record, file')
        BY <1>1, <2>1, <4>1 DEF Typed, LogTyped, Versions, LogSound
      <4>3. o \in Units /\ item \in Items
        BY <2>1, <3>2, PendingType DEF Items
      <4>4. queue[w] \in Seq(Items)
        BY MemoryOf DEF MemoryTyped
      <4>5. /\ DOMAIN queue[w] = 1..Len(queue[w]) /\ DOMAIN queue'[w] = 1..(Len(queue[w]) + 1)
            /\ Len(queue[w]) \in Nat
            /\ \A k \in 1..Len(queue[w]) : queue'[w][k] = queue[w][k]
            /\ queue'[w][Len(queue[w]) + 1] = item
        BY <3>2, <4>3, <4>4, AppendProperties, LenProperties
      <4>6. \A k \in DOMAIN queue'[w] : k = Len(queue[w]) + 1 \/ k \in DOMAIN queue[w]
        BY <4>5
      <4>7. QED
        BY <1>1, <4>2, <4>5, <4>6, QueueSound
    <3>3. QED
      BY <2>1, <3>1, <3>2
  <2>3. MemorySound(w)' /\ UndoSound(w)'
    BY <2>1, <2>2 DEF MemorySound, UndoSound, InApply
  <2>4. QED
    BY <1>1, <2>1, <2>3, VersionsKept
<1>4. CASE Take(w)
  <2>1. /\ OnlyMoves(w) /\ pc'[w] = "save" /\ 1 \in DOMAIN queue[w] /\ work'[w] = queue[w][1].op
        /\ rec'[w] = [queue[w][1].record EXCEPT !.phase = "applying"]
        /\ \A k \in DOMAIN queue'[w] : k + 1 \in DOMAIN queue[w] /\ queue'[w][k] = queue[w][k + 1]
    BY <1>4, TakeTyped
  <2>2. Sound(work'[w], rec'[w], file')
    <3>1. Sound(queue[w][1].op, queue[w][1].record, file')
      BY <1>1, <2>1, QueueSound
    <3>2. queue[w][1].record \in RecordOf(queue[w][1].op)
      BY <2>1, MemoryOf DEF MemoryTyped
    <3>3. rec'[w].parts = queue[w][1].record.parts
      BY <2>1, <3>2 DEF RecordOf
    <3>4. QED
      BY <2>1, <3>1, <3>3 DEF Sound
  <2>3. \A k \in DOMAIN queue'[w] : Sound(queue'[w][k].op, queue'[w][k].record, file')
    BY <1>1, <2>1, QueueSound
  <2>4. MemorySound(w)' /\ UndoSound(w)'
    BY <2>1, <2>2, <2>3 DEF MemorySound, UndoSound
  <2>5. QED
    BY <1>1, <2>1, <2>4, VersionsKept
<1>5. CASE Recovered(w)
  <2>1. /\ OnlyMoves(w) /\ queue'[w] = <<>>
        /\ \/ w \in Units /\ pc'[w] = "staging" /\ cursor'[w] = 1
           \/ pc'[w] = "idle"
    BY <1>5, RecoveredTyped
  <2>2. w \in Units => \A i \in Indices(w) : ~ (i < 1)
    BY OpsType, PlanType
  <2>3. DOMAIN << >> = {}
    OBVIOUS
  <2>4. MemorySound(w)' /\ UndoSound(w)'
    BY <2>1, <2>2, <2>3 DEF MemorySound, UndoSound, InApply
  <2>5. QED
    BY <1>1, <2>1, <2>4, VersionsKept
<1>6. QED
  BY <1>2, <1>3, <1>4, <1>5 DEF RecoverStep

\* The document a rollback finds as its operation left it carries its id.
LEMMA UndoLookSound ==
    ASSUME OnlyReplaced, Typed, Versions, NEW w \in Workers, UndoLook(w)
    PROVE  Versions'
<1> DEFINE i == Max(todo[w])
           f == Doc(w, i)
<1>1. /\ pc[w] = "undo" /\ todo[w] # {} /\ UNCHANGED file /\ UNCHANGED log
      /\ work'[w] = work[w] /\ rec'[w] = rec[w] /\ queue'[w] = queue[w]
      /\ OnlyMoves(w) /\ FilesGrow
  BY UndoLookTyped, SameGrows DEF UndoLook, storeVars
<1>2. work[w] \in Ops /\ i \in Indices(work[w]) /\ f \in Files
  BY <1>1, ApplyContext, UndoContext
<1>3. CASE ~OursToUndo(work[w], rec[w], i, file[f])
  <2>1. pc'[w] = "undo"
    BY <1>1, <1>3 DEF UndoLook
  <2>2. MemorySound(w)' /\ UndoSound(w)'
    BY <1>1, <2>1, GoesOnSound DEF InApply
  <2>3. QED
    BY <1>1, <2>2, VersionsKept
<1>4. CASE OursToUndo(work[w], rec[w], i, file[f])
  <2>1. pc'[w] = "undoing" /\ seen'[w] = file[f].rev /\ todo'[w] = todo[w]
    BY <1>1, <1>4 DEF UndoLook, Goto, Typed, FlowTyped
  <2>2. file[f].op = OpId(work[w]) /\ file[f].rev \in Nat
    BY <1>2, <1>4 DEF OursToUndo, OnlyReplaced, Typed, FilesTyped, Store!Doc
  <2>3. UndoSound(w)'
    <3>1. file'[Plan[work'[w]][Max(todo'[w])].file] = file[f]
      BY <1>1, <2>1 DEF Doc
    <3>2. seen'[w] <= file[f].rev /\ file[f].op = OpId(work'[w])
      BY <1>1, <2>1, <2>2
    <3>3. QED
      BY <3>1, <3>2 DEF UndoSound, Doc
  <2>4. Sound(work'[w], rec'[w], file')
    BY <1>1 DEF Versions, WorkersSound, MemorySound, InApply
  <2>5. MemorySound(w)'
    BY <1>1, <2>1, <2>4, QueueSound DEF MemorySound
  <2>6. QED
    BY <1>1, <2>3, <2>5, VersionsKept
<1>5. QED
  BY <1>3, <1>4

LEMMA WorkSound ==
    ASSUME OnlyReplaced, Typed, Versions, NEW w \in Workers, Work(w)
    PROVE  Versions'
<1>1. CASE SaveLoad(w)
  <2>1. /\ pc[w] = "save" /\ pc'[w] = "saving" /\ work'[w] = work[w] /\ rec'[w] = rec[w]
        /\ queue'[w] = queue[w] /\ UNCHANGED log /\ FilesGrow /\ OnlyMoves(w)
    BY <1>1, SaveLoadTyped, SameGrows DEF SaveLoad, Goto, storeVars, Typed, FlowTyped
  <2>2. QED
    BY <2>1, GoesOnSound, VersionsKept DEF InApply
<1>2. CASE Save(w)
  <2>1. /\ pc[w] = "saving" /\ work[w] \in Ops /\ rec[w] \in RecordOf(work[w])
        /\ Sound(work[w], rec[w], file)
    BY <1>2, MemoryOf, OpsType DEF Save, ApplyTyped, InApply, Versions, WorkersSound, MemorySound
  <2>2. OnlyMoves(w) /\ FilesGrow
    BY <1>2, SaveTyped, SameGrows DEF Save
  <2>3. UNCHANGED log \/ WriteLog(work[w], rec[w])
    BY <1>2 DEF Save
  <2>4. Raise(w) \/ AfterSave(w)
    BY <1>2 DEF Save
  <2>5. \/ pc'[w] \in Resting /\ queue'[w] = <<>>
        \/ pc'[w] \in {"apply", "next"} /\ UNCHANGED memoryVars
    <3>1. CASE Raise(w)
      BY <3>1, RaiseTyped DEF Resting
    <3>2. CASE AfterSave(w)
      <4>1. \/ Raise(w)
            \/ Goto(w, "done") /\ Forget(w)
            \/ (Goto(w, "apply") \/ Goto(w, "next")) /\ UNCHANGED memoryVars
        <5>1. CASE w = work[w]
          BY <3>2, <5>1 DEF AfterSave
        <5>2. CASE w # work[w]
          BY <3>2, <5>2 DEF AfterSave
        <5>3. QED
          BY <5>1, <5>2
      <4>2. CASE Goto(w, "done") /\ Forget(w)
        BY <4>2 DEF Goto, Forget, Resting, Typed, FlowTyped
      <4>3. CASE (Goto(w, "apply") \/ Goto(w, "next")) /\ UNCHANGED memoryVars
        BY <4>3 DEF Goto, Typed, FlowTyped
      <4>4. QED
        BY <3>1, <4>1, <4>2, <4>3
    <3>3. QED
      BY <2>4, <3>1, <3>2
  <2>6. MemorySound(w)' /\ UndoSound(w)'
    <3>1. CASE pc'[w] \in Resting /\ queue'[w] = <<>>
      BY <3>1, RestSound
    <3>2. CASE pc'[w] \in {"apply", "next"} /\ UNCHANGED memoryVars
      BY <2>1, <2>2, <3>2, GoesOnSound DEF InApply, memoryVars
    <3>3. QED
      BY <2>5, <3>1, <3>2
  <2>7. QED
    BY <2>1, <2>2, <2>3, <2>6, VersionsKept
<1>3. CASE SaveTimeout(w)
  <2>1. OnlyMoves(w) /\ pc'[w] \in Resting /\ queue'[w] = <<>> /\ UNCHANGED log /\ UNCHANGED file
    BY <1>3, RaiseTyped DEF SaveTimeout, Resting, storeVars
  <2>2. QED
    BY <2>1, SameGrows, RestSound, VersionsKept
<1>4. CASE Apply(w)
  <2>1. /\ pc[w] = "apply" /\ Remaining(w) # {} /\ UNCHANGED log /\ FilesGrow
    BY <1>4, MutateGrows DEF Apply
  <2>2. /\ OnlyMoves(w) /\ pc'[w] = "save" /\ work'[w] = work[w] /\ queue'[w] = queue[w]
        /\ rec'[w] = [rec[w] EXCEPT !.applied = @ \cup {NextMutation(w)}]
    BY <1>4, ApplyStepTyped
  <2>3. rec'[w].parts = rec[w].parts
    BY <2>1, <2>2, ApplyContext DEF RecordOf
  <2>4. QED
    BY <2>1, <2>2, <2>3, GoesOnSound, VersionsKept DEF InApply
<1>5. CASE ApplyRefused(w)
  <2>1. PICK code \in Codes : BeginUndo(w, code)
    BY <1>5, ApplyRefusedTyped
  <2>2. /\ OnlyMoves(w) /\ pc[w] = "apply" /\ pc'[w] = "undo" /\ work'[w] = work[w]
        /\ queue'[w] = queue[w] /\ rec'[w] = [rec[w] EXCEPT !.error = <<NextMutation(w), code>>]
    BY <1>5, <2>1, ApplyRefusedTyped, BeginUndoTyped
  <2>3. rec'[w].parts = rec[w].parts
    BY <2>2, ApplyContext DEF RecordOf
  <2>4. UNCHANGED log /\ FilesGrow
    BY <2>1, SameGrows DEF BeginUndo, storeVars
  <2>5. QED
    BY <2>2, <2>3, <2>4, GoesOnSound, VersionsKept DEF InApply
<1>6. CASE Finish(w)
  <2>1. /\ pc[w] = "apply" /\ UNCHANGED log /\ FilesGrow
    BY <1>6, SameGrows DEF Finish, storeVars
  <2>2. /\ OnlyMoves(w) /\ pc'[w] = "save" /\ work'[w] = work[w] /\ queue'[w] = queue[w]
        /\ rec'[w] = [rec[w] EXCEPT !.phase = "committed", !.error = NoError]
    BY <1>6, FinishTyped
  <2>3. rec'[w].parts = rec[w].parts
    BY <2>1, <2>2, ApplyContext DEF RecordOf
  <2>4. QED
    BY <2>1, <2>2, <2>3, GoesOnSound, VersionsKept DEF InApply
<1>7. CASE UndoLook(w)
  BY <1>7, UndoLookSound
<1>8. CASE Undo(w) \/ UndoTimeout(w)
  <2>1. /\ OnlyMoves(w) /\ pc[w] = "undoing" /\ rec'[w] = rec[w] /\ work'[w] = work[w]
        /\ queue'[w] = queue[w] /\ pc'[w] = "undo"
    BY <1>8, UndoTyped
  <2>2. FilesGrow /\ UNCHANGED log
    BY <1>8, <2>1, CompensateGrows, SameGrows DEF Undo, UndoTimeout, Undone
  <2>3. QED
    BY <2>1, <2>2, GoesOnSound, VersionsKept DEF InApply
<1>9. CASE UndoFinish(w)
  <2>1. /\ pc[w] = "undo" /\ UNCHANGED log /\ FilesGrow
    BY <1>9, SameGrows DEF UndoFinish, storeVars
  <2>2. /\ OnlyMoves(w) /\ pc'[w] = "save" /\ work'[w] = work[w] /\ queue'[w] = queue[w]
        /\ rec'[w] = [rec[w] EXCEPT !.phase = "conflicted",
                                    !.rolledBack = IF failed[w] THEN "no" ELSE "yes"]
    BY <1>9, UndoFinishTyped
  <2>3. rec'[w].parts = rec[w].parts
    BY <2>1, <2>2, ApplyContext DEF RecordOf
  <2>4. QED
    BY <2>1, <2>2, <2>3, GoesOnSound, VersionsKept DEF InApply
<1>10. QED
  BY <1>1, <1>2, <1>3, <1>4, <1>5, <1>6, <1>7, <1>8, <1>9 DEF Work

LEMMA CrashSound ==
    ASSUME OnlyReplaced, Typed, Versions, NEW w \in Workers,
           Crash(w) \/ CrashInSave(w) \/ CrashInApply(w) \/ CrashInUndo(w)
    PROVE  Versions'
<1>1. Die(w)
  BY DEF Crash, CrashInSave, CrashInApply, CrashInUndo, DieHolding
<1>2. OnlyMoves(w) /\ MemorySound(w)' /\ UndoSound(w)'
  BY <1>1, DieTyped, RestSound DEF Resting
<1>3. FilesGrow
  BY SameGrows, MutateGrows, CompensateGrows
     DEF Crash, CrashInSave, CrashInApply, CrashInUndo, storeVars
<1>4. \/ UNCHANGED log
      \/ \E o \in Ops : \E r \in RecordOf(o) : WriteLog(o, r) /\ Sound(o, r, file)
  <2>1. CASE CrashInSave(w)
    <3>1. /\ work[w] \in Ops /\ rec[w] \in RecordOf(work[w]) /\ Sound(work[w], rec[w], file)
      <4>1. CASE pc[w] = "create"
        BY <4>1, MemoryOf DEF MemoryTyped, Homes, Versions, WorkersSound, MemorySound
      <4>2. CASE pc[w] = "saving"
        BY <4>2, MemoryOf, OpsType DEF ApplyTyped, InApply, Versions, WorkersSound, MemorySound
      <4>3. QED
        BY <2>1, <4>1, <4>2 DEF CrashInSave
    <3>2. QED
      BY <2>1, <3>1 DEF CrashInSave
  <2>2. CASE ~CrashInSave(w)
    BY <2>2 DEF Crash, CrashInApply, CrashInUndo, storeVars
  <2>3. QED
    BY <2>1, <2>2
<1>5. QED
  BY <1>2, <1>3, <1>4, VersionsKept

LEMMA VersionsInit == OnlyReplaced /\ Init => Versions
<1> SUFFICES ASSUME OnlyReplaced, Init PROVE Versions
  OBVIOUS
<1>1. DocumentsThere
  BY DEF Init, OnlyReplaced, DocumentsThere
<1>2. LogSound
  BY DEF Init, LogSound
<1>3. DOMAIN << >> = {}
  OBVIOUS
<1>4. WorkersSound
  BY <1>3 DEF Init, WorkersSound, MemorySound, UndoSound, InApply
<1>5. QED
  BY <1>1, <1>2, <1>4 DEF Versions

LEMMA VersionsStep == OnlyReplaced /\ Typed /\ Versions /\ [Next]_vars => Versions'
<1> SUFFICES ASSUME OnlyReplaced, Typed, Versions, [Next]_vars PROVE Versions'
  OBVIOUS
<1>1. ASSUME UNCHANGED file, UNCHANGED log, UNCHANGED pc, UNCHANGED memoryVars
      PROVE  Versions'
  BY <1>1 DEF memoryVars, Versions, DocumentsThere, LogSound, WorkersSound, MemorySound,
              UndoSound, Doc
<1>2. CASE UNCHANGED vars
  BY <1>1, <1>2 DEF vars, storeVars
<1>3. ASSUME NEW o \in Ops, CommitStep(o) PROVE Versions'
  BY <1>3, CommitSound
<1>4. ASSUME NEW w \in Workers,
             \/ RecoverStep(w) \/ Work(w) \/ Crash(w) \/ CrashInSave(w)
             \/ CrashInApply(w) \/ CrashInUndo(w)
      PROVE  Versions'
  BY <1>4, RecoverStepSound, WorkSound, CrashSound
<1>5. ASSUME NEW x \in Files \cup Ops, ClearLock(x) PROVE Versions'
  BY <1>1, <1>5 DEF ClearLock
<1>6. QED
  BY <1>2, <1>3, <1>4, <1>5 DEF Next

\* What NoNewerOverwritten asks of the step of w.
Overwrites(w) ==
    file' # file /\ pc'[w] # pc[w] =>
       IF pc[w] = "apply"
       THEN file[Doc(w, NextMutation(w))].data = rec[w].parts[NextMutation(w)].before
       ELSE pc[w] = "undoing" =>
            file[Doc(w, Max(todo[w]))].op \in {OpId(work[w]), <<>>}

LEMMA MutateFresh ==
    ASSUME OnlyReplaced, Typed, Versions, NEW w \in Workers, pc[w] = "apply",
           Remaining(w) # {}, Mutate(w), file' # file
    PROVE  file[Doc(w, NextMutation(w))].data = rec[w].parts[NextMutation(w)].before
<1> DEFINE i == NextMutation(w)
           f == Doc(w, i)
           c == MutationOf(w)
<1>1. work[w] \in Ops /\ rec[w] \in RecordOf(work[w]) /\ i \in Indices(work[w]) /\ f \in Files
  BY ApplyContext
<1>2. Store!Changes(file[f], c)
  BY DEF Mutate, DoCall
<1>3. c.kind = "replace" /\ c.expected = rec[w].parts[i].expected
  BY <1>1, MutationCallType DEF MutationOf, OnlyReplaced
<1>4. rec[w].parts[i].expected \in Nat
  BY <1>1, RecordFields DEF Part
<1>5. file[f].rev = c.expected
  BY <1>2, <1>3, <1>4 DEF Store!Changes, Store!CallAnswer, Store!Stale
<1>6. Fits(rec[w].parts[i], file[f])
  BY <1>1 DEF Versions, WorkersSound, MemorySound, InApply, Sound, Doc
<1>7. QED
  BY <1>3, <1>5, <1>6 DEF Fits

LEMMA CompensateFresh ==
    ASSUME Typed, Versions, NEW w \in Workers, pc[w] = "undoing", Compensate(w), file' # file
    PROVE  file[Doc(w, Max(todo[w]))].op = OpId(work[w])
<1> DEFINE i == Max(todo[w])
           f == Doc(w, i)
           c == UndoOf(w)
<1>1. work[w] \in Ops /\ rec[w] \in RecordOf(work[w]) /\ i \in Indices(work[w]) /\ f \in Files
  BY ApplyContext, UndoContext
<1>2. Store!Changes(file[f], c)
  BY DEF Compensate, DoCall
<1>3. c.kind = "replace" /\ c.expected = seen[w]
  BY <1>1, UndoCallType DEF UndoOf, Versions, WorkersSound, MemorySound, InApply, Sound, Fits
<1>4. seen[w] \in Nat
  BY MemoryOf DEF MemoryTyped
<1>5. file[f].rev = c.expected
  BY <1>2, <1>3, <1>4 DEF Store!Changes, Store!CallAnswer, Store!Stale
<1>6. QED
  BY <1>3, <1>5 DEF Versions, WorkersSound, UndoSound

LEMMA OverwritesStep ==
    ASSUME OnlyReplaced, Typed, Versions, [Next]_vars
    PROVE  \A w \in Workers : Overwrites(w)
<1> SUFFICES ASSUME NEW w \in Workers, file' # file, pc'[w] # pc[w],
                    pc[w] \in {"apply", "undoing"}
             PROVE  Overwrites(w)
  BY DEF Overwrites
<1>1. ASSUME NEW o \in Ops, CommitStep(o) PROVE Overwrites(w)
  <2>1. CASE w = o
    BY <1>1, <2>1 DEF CommitStep, Stage, Create, StartDirect, WriteDirect, DirectTimeout
  <2>2. CASE w # o
    <3>1. o \in Workers /\ (OnlyMoves(o) \/ UNCHANGED file)
      BY <1>1, DirectTyped DEF Workers, CommitStep, Stage, Create, StartDirect, storeVars
    <3>2. QED
      BY <2>2, <3>1 DEF OnlyMoves
  <2>3. QED
    BY <2>1, <2>2
<1>2. ASSUME NEW v \in Workers,
             \/ RecoverStep(v) \/ Work(v) \/ Crash(v) \/ CrashInSave(v)
             \/ CrashInApply(v) \/ CrashInUndo(v)
      PROVE  Overwrites(w)
  <2>1. \/ Apply(v) \/ Undo(v) \/ CrashInApply(v) \/ CrashInUndo(v)
    BY <1>2 DEF RecoverStep, Recover, Scan, Take, Recovered, Work, SaveLoad, Save, SaveTimeout,
                ApplyRefused, BeginUndo, Finish, UndoLook, UndoTimeout, UndoFinish, Crash,
                CrashInSave, storeVars
  <2>2. OnlyMoves(v)
    BY <2>1, ApplyStepTyped, UndoTyped, DieTyped DEF CrashInApply, CrashInUndo, DieHolding
  <2>3. w = v
    BY <2>2 DEF OnlyMoves
  <2>4. CASE Apply(v) \/ CrashInApply(v)
    <3>1. pc[w] = "apply" /\ Remaining(w) # {} /\ Mutate(w)
      BY <2>3, <2>4 DEF Apply, CrashInApply
    <3>2. QED
      BY <3>1, MutateFresh DEF Overwrites
  <2>5. CASE Undo(v) \/ CrashInUndo(v)
    <3>1. pc[w] = "undoing" /\ Compensate(w)
      BY <2>3, <2>5 DEF Undo, CrashInUndo
    <3>2. QED
      BY <3>1, CompensateFresh DEF Overwrites
  <2>6. QED
    BY <2>1, <2>4, <2>5
<1>3. ASSUME NEW x, ClearLock(x) PROVE Overwrites(w)
  BY <1>3 DEF ClearLock
<1>4. CASE UNCHANGED vars
  BY <1>4 DEF vars, storeVars
<1>5. QED
  BY <1>1, <1>2, <1>3, <1>4 DEF Next

\* Where documents are only replaced, no step of a commit, a rollback or a
\* recovery replaces a version that it does not know: an application replaces
\* the version its record holds, a rollback the one its operation left, whatever
\* other operations, recoveries, single writes and deaths come in between.
THEOREM NothingNewerIsLost ==
    ASSUME OnlyReplaced
    PROVE  Spec => NoNewerOverwritten
<1>1. Init => Typed /\ Versions
  BY TypedInit, VersionsInit
<1>2. Typed /\ Versions /\ [Next]_vars => Typed' /\ Versions'
  BY TypedStep, VersionsStep
<1>3. Typed /\ Versions /\ [Next]_vars =>
         [\A w \in Workers :
            file' # file /\ pc'[w] # pc[w] =>
               IF pc[w] = "apply"
               THEN file[Doc(w, NextMutation(w))].data = rec[w].parts[NextMutation(w)].before
               ELSE pc[w] = "undoing" =>
                    file[Doc(w, Max(todo[w]))].op \in {OpId(work[w]), <<>>}]_vars
  BY OverwritesStep DEF Overwrites
<1>4. QED
  BY <1>1, <1>2, <1>3, PTL DEF Spec, NoNewerOverwritten

-----------------------------------------------------------------------------
(* A record that says it was rolled back is right, where units and          *)
(* recoveries come one after another and no lock is waited for in vain.     *)

SerialIsCalm == \A s \in Settings : s.serial => s.lockDeaths = 0 /\ s.timeouts = 0

Loners == Workers \ Direct

\* The documents that are as o left them.
LeftIn(docs, o) == {f \in Files : docs[f].op = OpId(o)}

\* What an operation may have written when participants a are recorded as
\* applied: their documents and the one of the next participant.
Reach(o, a) ==
    {Plan[o][i].file : i \in {j \in Indices(o) : j \in a \/ \A k \in Indices(o) \ a : j <= k}}

Docs(o, S) == {Plan[o][i].file : i \in S}

Stamped == \A f \in Files : \A o \in Ops : file[f].op = OpId(o) => file[f].data = o

OneAtATime ==
    \A v, w \in Loners : pc[v] \notin Resting /\ pc[w] \notin Resting => v = w

LogTidy(o) ==
    /\ log[o].rev = 0 => LeftIn(file, o) = {}
    /\ Pending(log[o].record) => LeftIn(file, o) \subseteq Reach(o, log[o].record.applied)
    /\ log[o].record.phase = "conflicted" /\ log[o].record.rolledBack = "yes" => LeftIn(file, o) = {}

WorkTidy(w) ==
    pc[w] \in InApply =>
       /\ Pending(log[work[w]].record)
       /\ pc[w] \in {"apply", "undo", "undoing"} => log[work[w]].record.applied = rec[w].applied
       /\ pc[w] \in {"save", "saving"} /\ rec[w].phase = "applying" =>
             LeftIn(file, work[w]) \subseteq Reach(work[w], rec[w].applied)
       /\ pc[w] \in {"save", "saving"} /\ rec[w].phase = "conflicted" /\ rec[w].rolledBack = "yes" =>
             LeftIn(file, work[w]) = {}
       /\ pc[w] \in {"undo", "undoing"} /\ ~failed[w] =>
             LeftIn(file, work[w]) \subseteq Docs(work[w], todo[w])

QueueTidy(w) ==
    /\ pc[w] \in Resting \cup {"staging", "create"} => queue[w] = <<>>
    /\ \A k \in DOMAIN queue[w] :
          /\ log[queue[w][k].op].record = queue[w][k].record
          /\ Pending(queue[w][k].record)
          /\ pc[w] = "scan" => queue[w][k].op < cursor[w]
          /\ pc[w] \in InApply => queue[w][k].op # work[w]
    /\ \A j, k \in DOMAIN queue[w] : j # k => queue[w][j].op # queue[w][k].op

\* The log file of an operation is there only once its process has made it.
FreshTidy(w) ==
    w \in Units /\ (\/ pc[w] \in {"new", "scan", "next", "staging", "create"}
                    \/ pc[w] \in InApply /\ work[w] # w) =>
       log[w].rev = 0

LonersTidy == \A w \in Loners : WorkTidy(w) /\ QueueTidy(w) /\ FreshTidy(w)

LogsTidy == \A o \in Units : LogTidy(o)

Tidy == stuck = {} /\ Stamped /\ OneAtATime /\ LogsTidy /\ LonersTidy

Alone(w) == \A v \in Loners \ {w} : pc[v] \in Resting

Shrinks(o) == LeftIn(file', o) \subseteq LeftIn(file, o)

LEMMA IdsDiffer ==
    /\ \A o, p \in Ops : OpId(o) = OpId(p) => o = p
    /\ \A o \in Ops : \A i \in Indices(o) : \A p \in Ops : RollbackId(o, i) # OpId(p)
<1>1. \A o \in Ops : \A i \in Indices(o) : i # 0
  BY PlanType
<1>2. QED
  BY <1>1 DEF OpId, RollbackId

\* No lock is waited for in vain and none is left behind.
LEMMA CalmTyped ==
    ASSUME SerialIsCalm, Typed, setting.serial, stuck = {}
    PROVE  /\ \A x : ~LockTimeout(x)
           /\ \A w, x : ~DieHolding(w, x)
<1>1. setting.lockDeaths = 0 /\ setting.timeouts = 0
  BY DEF SerialIsCalm, Typed, BoundsTyped
<1>2. lockDeaths \in Nat /\ timeouts \in Nat
  BY DEF Typed, BoundsTyped
<1>3. ~ (lockDeaths < setting.lockDeaths) /\ ~ (timeouts < setting.timeouts)
  BY <1>1, <1>2
<1>4. QED
  BY <1>3 DEF LockTimeout, DieHolding

LEMMA LonerType ==
    ASSUME NEW w \in Loners
    PROVE  w \in Workers /\ w \notin Direct /\ (w \in Ops => w \in Units)
BY DEF Loners, Units

LEMMA AloneNow ==
    ASSUME Tidy, NEW w \in Loners, pc[w] \notin Resting
    PROVE  Alone(w)
BY DEF Tidy, OneAtATime, Alone

\* A store call leaves documents of its own operation only where it writes.
LEMMA CallLeft ==
    ASSUME Typed, NEW f \in Files, NEW c, DoCall(f, c), c.kind = "replace"
    PROVE  /\ \A o \in Ops : c.op # OpId(o) => Shrinks(o)
           /\ \A o \in Ops : LeftIn(file', o) \subseteq LeftIn(file, o) \cup {f}
<1>1. \A g \in Files : file'[g] = file[g] \/ (g = f /\ file'[g].op = c.op)
  BY DEF DoCall, Store!CallEffect, Typed, FilesTyped
<1>2. QED
  BY <1>1 DEF Shrinks, LeftIn

LEMMA CallStamped ==
    ASSUME Typed, Stamped, NEW f \in Files, NEW c, DoCall(f, c), c.kind = "replace",
           \A o \in Ops : c.op = OpId(o) => c.data = o
    PROVE  Stamped'
<1>1. \A g \in Files : \/ file'[g] = file[g]
                       \/ g = f /\ file'[g].op = c.op /\ file'[g].data = c.data
  BY DEF DoCall, Store!CallEffect, Typed, FilesTyped
<1>2. QED
  BY <1>1 DEF Stamped

LEMMA StampedKept ==
    ASSUME Stamped, UNCHANGED file
    PROVE  Stamped'
BY DEF Stamped

LEMMA SameShrinks == UNCHANGED file => \A o \in Units : Shrinks(o)
BY DEF Shrinks

LEMMA LogsKept ==
    ASSUME LogsTidy, UNCHANGED log, \A o \in Units : Shrinks(o)
    PROVE  LogsTidy'
BY DEF LogsTidy, LogTidy, Shrinks

\* What one process does while the others rest leaves them as they are.
LEMMA TidyKept ==
    ASSUME Typed, Tidy, NEW w \in Loners, Alone(w), OnlyMoves(w),
           \A v \in Units \ {w} : log[v].rev = 0 => log'[v].rev = 0,
           stuck' = stuck, Stamped', LogsTidy', WorkTidy(w)', QueueTidy(w)', FreshTidy(w)'
    PROVE  Tidy'
<1>1. \A v \in Loners \ {w} : pc'[v] = pc[v] /\ pc[v] \in Resting /\ queue'[v] = queue[v]
  BY DEF Alone, OnlyMoves, Loners
<1>2. OneAtATime'
  BY <1>1 DEF OneAtATime
<1>3. \A v \in Loners \ {w} : QueueTidy(v)'
  <2>1. DOMAIN << >> = {}
    OBVIOUS
  <2>2. \A v \in Loners \ {w} : queue[v] = <<>>
    BY <1>1 DEF Tidy, LonersTidy, QueueTidy
  <2>3. QED
    BY <1>1, <2>1, <2>2 DEF QueueTidy
<1>4. \A v \in Loners \ {w} : WorkTidy(v)'
  BY <1>1 DEF WorkTidy, InApply, Resting
<1>5. \A v \in Loners \ {w} : FreshTidy(v)'
  BY <1>1 DEF FreshTidy, InApply, Resting, Tidy, LonersTidy
<1>6. LonersTidy'
  BY <1>3, <1>4, <1>5 DEF LonersTidy
<1>7. QED
  BY <1>2, <1>6 DEF Tidy

\* A single write beside them takes documents away from their operations.
LEMMA DirectTidy ==
    ASSUME Typed, Tidy, NEW d \in Direct, OnlyMoves(d), UNCHANGED log, stuck' = stuck,
           Stamped', \A o \in Units : Shrinks(o)
    PROVE  Tidy'
<1>1. \A v \in Loners : /\ pc'[v] = pc[v] /\ work'[v] = work[v] /\ rec'[v] = rec[v]
                        /\ cursor'[v] = cursor[v] /\ todo'[v] = todo[v]
                        /\ failed'[v] = failed[v] /\ queue'[v] = queue[v]
  BY DEF OnlyMoves, Loners
<1>2. LogsTidy'
  BY LogsKept DEF Tidy
<1>3. OneAtATime'
  BY <1>1 DEF OneAtATime, Tidy
<1>4. \A v \in Loners : WorkTidy(v)'
  <2> SUFFICES ASSUME NEW v \in Loners PROVE WorkTidy(v)'
    OBVIOUS
  <2>1. CASE pc[v] \in InApply
    <3>1. work[v] \in Units
      BY <2>1, LonerType, MemoryOf DEF ApplyTyped
    <3>2. LeftIn(file', work[v]) \subseteq LeftIn(file, work[v])
      BY <3>1 DEF Shrinks
    <3>3. QED
      BY <1>1, <3>2 DEF WorkTidy, Tidy, LonersTidy
  <2>2. CASE pc[v] \notin InApply
    BY <1>1, <2>2 DEF WorkTidy
  <2>3. QED
    BY <2>1, <2>2
<1>5. \A v \in Loners : QueueTidy(v)' /\ FreshTidy(v)'
  BY <1>1 DEF QueueTidy, FreshTidy, Tidy, LonersTidy
<1>6. QED
  BY <1>2, <1>3, <1>4, <1>5 DEF Tidy, LonersTidy

LEMMA RestTidy ==
    ASSUME NEW w \in Loners, pc'[w] \in {"raised", "dead", "done", "idle"}, queue'[w] = <<>>
    PROVE  WorkTidy(w)' /\ QueueTidy(w)' /\ FreshTidy(w)'
<1>1. DOMAIN << >> = {}
  OBVIOUS
<1>2. QED
  BY <1>1 DEF WorkTidy, QueueTidy, FreshTidy, InApply

\* Steps that read or end, and leave documents and records as they are.
LEMMA QuietTidy ==
    ASSUME Typed, Tidy, NEW w \in Loners, Alone(w), OnlyMoves(w),
           UNCHANGED file, UNCHANGED log, stuck' = stuck,
           WorkTidy(w)', QueueTidy(w)', FreshTidy(w)'
    PROVE  Tidy'
<1>1. Stamped' /\ LogsTidy'
  BY StampedKept, LogsKept, SameShrinks DEF Tidy
<1>2. QED
  BY <1>1, TidyKept

LEMMA EndTidy ==
    ASSUME Typed, Tidy, NEW w \in Loners, Alone(w), OnlyMoves(w),
           pc'[w] \in {"raised", "dead", "done", "idle"}, queue'[w] = <<>>,
           UNCHANGED file, UNCHANGED log, stuck' = stuck
    PROVE  Tidy'
BY RestTidy, QuietTidy

\* What a process knows of its queue and of its own log file as it goes on.
LEMMA QueueOn ==
    ASSUME Typed, Tidy, NEW w \in Loners, pc[w] \in InApply, pc'[w] \in InApply \cup {"next"},
           queue'[w] = queue[w], work'[w] = work[w], pc'[w] = "next" => work[w] # w,
           \A o \in Units : o # work[w] => log'[o] = log[o]
    PROVE  QueueTidy(w)' /\ FreshTidy(w)'
<1>1. w \in Workers /\ queue[w] \in Seq(Items)
  BY LonerType, MemoryOf DEF MemoryTyped
<1>2. \A k \in DOMAIN queue[w] : queue[w][k].op \in Units
  <2>1. \A k \in DOMAIN queue[w] : queue[w][k] \in Items
    BY <1>1, ElementOfSeq, LenProperties
  <2>2. QED
    BY <2>1 DEF Items
<1>3. \A k \in DOMAIN queue[w] : queue[w][k].op # work[w]
  BY DEF Tidy, LonersTidy, QueueTidy
<1>4. QueueTidy(w)'
  BY <1>2, <1>3 DEF Tidy, LonersTidy, QueueTidy, InApply, Resting
<1>5. FreshTidy(w)'
  BY DEF FreshTidy, InApply, Tidy, LonersTidy
<1>6. QED
  BY <1>4, <1>5

LEMMA RecoverTidy ==
    ASSUME Typed, setting.serial, Tidy, NEW w \in Loners, Recover(w)
    PROVE  Tidy'
<1>1. /\ pc[w] \in {"idle", "new"} /\ w \in Workers /\ UNCHANGED file /\ UNCHANGED log
      /\ stuck' = stuck /\ OnlyMoves(w)
  BY LonerType, RecoverTyped DEF Recover, storeVars
<1>2. Alone(w)
  BY DEF Recover, MayStart, Alone, Loners
<1>3. pc'[w] = "scan" /\ queue'[w] = queue[w] /\ cursor'[w] = 1
  BY <1>1 DEF Recover, Goto, Typed, FlowTyped
<1>4. WorkTidy(w)'
  BY <1>3 DEF WorkTidy, InApply
<1>5. QueueTidy(w)'
  <2>1. queue[w] = <<>> /\ DOMAIN << >> = {}
    BY <1>1 DEF Tidy, LonersTidy, QueueTidy, Resting
  <2>2. QED
    BY <1>3, <2>1 DEF QueueTidy, Resting
<1>6. FreshTidy(w)'
  <2>1. w \in Units => pc[w] = "new"
    BY <1>1, MemoryOf, OpsType DEF MemoryTyped
  <2>2. QED
    BY <1>1, <1>3, <2>1 DEF FreshTidy, Tidy, LonersTidy, InApply
<1>7. QED
  BY <1>1, <1>2, <1>4, <1>5, <1>6, QuietTidy

LEMMA ScanTidy ==
    ASSUME Typed, Tidy, NEW w \in Loners, Scan(w)
    PROVE  Tidy'
<1> DEFINE o == cursor[w]
           item == [op |-> o, record |-> log[o].record]
<1>1. /\ w \in Workers /\ pc[w] = "scan" /\ o \in Ops /\ pc'[w] \in {"scan", "next"}
      /\ \/ queue'[w] = queue[w]
         \/ Pending(log[o].record) /\ queue'[w] = Append(queue[w], item)
      /\ OnlyMoves(w) /\ UNCHANGED file /\ UNCHANGED log /\ stuck' = stuck
  BY LonerType, ScanTyped DEF Scan, storeVars
<1>2. Alone(w)
  BY <1>1, AloneNow DEF Resting
<1>3. pc'[w] = "scan" => cursor'[w] = o + 1
  BY <1>1 DEF Scan, Goto, Typed, FlowTyped
<1>4. queue[w] \in Seq(Items) /\ \A o1 \in Ops : o1 \in Nat
  BY <1>1, MemoryOf, OpsType DEF MemoryTyped
<1>5. \A k \in DOMAIN queue[w] : queue[w][k].op \in Ops
  <2>1. \A k \in DOMAIN queue[w] : queue[w][k] \in Items
    BY <1>4, ElementOfSeq, LenProperties
  <2>2. QED
    BY <2>1, OpsType DEF Items
<1>6. \A k \in DOMAIN queue[w] : /\ queue[w][k].op < o
                                 /\ log[queue[w][k].op].record = queue[w][k].record
                                 /\ Pending(queue[w][k].record)
  BY <1>1 DEF Tidy, LonersTidy, QueueTidy
<1>7. \A j, k \in DOMAIN queue[w] : j # k => queue[w][j].op # queue[w][k].op
  BY DEF Tidy, LonersTidy, QueueTidy
<1>8. /\ \A k \in DOMAIN queue'[w] : /\ queue'[w][k].op < o + 1
                                     /\ log[queue'[w][k].op].record = queue'[w][k].record
                                     /\ Pending(queue'[w][k].record)
      /\ \A j, k \in DOMAIN queue'[w] : j # k => queue'[w][j].op # queue'[w][k].op
  <2>1. CASE queue'[w] = queue[w]
    <3>1. \A k \in DOMAIN queue[w] : queue[w][k].op < o + 1
      BY <1>1, <1>4, <1>5, <1>6
    <3>2. QED
      BY <1>6, <1>7, <2>1, <3>1
  <2>2. CASE Pending(log[o].record) /\ queue'[w] = Append(queue[w], item)
    <3>1. item \in Items
      BY <1>1, <2>2, PendingType DEF Items
    <3>2. /\ DOMAIN queue[w] = 1..Len(queue[w]) /\ DOMAIN queue'[w] = 1..(Len(queue[w]) + 1)
          /\ Len(queue[w]) \in Nat
          /\ \A k \in 1..Len(queue[w]) : queue'[w][k] = queue[w][k]
          /\ queue'[w][Len(queue[w]) + 1] = item
      BY <1>4, <2>2, <3>1, AppendProperties, LenProperties
    <3>3. \A k \in DOMAIN queue'[w] : \/ k \in DOMAIN queue[w] /\ queue'[w][k] = queue[w][k]
                                      \/ k = Len(queue[w]) + 1 /\ queue'[w][k] = item
      BY <3>2
    <3>4. \A k \in DOMAIN queue'[w] : /\ queue'[w][k].op < o + 1
                                      /\ log[queue'[w][k].op].record = queue'[w][k].record
                                      /\ Pending(queue'[w][k].record)
      <4> SUFFICES ASSUME NEW k \in DOMAIN queue'[w]
                   PROVE  /\ queue'[w][k].op < o + 1
                          /\ log[queue'[w][k].op].record = queue'[w][k].record
                          /\ Pending(queue'[w][k].record)
        OBVIOUS
      <4>1. CASE k \in DOMAIN queue[w] /\ queue'[w][k] = queue[w][k]
        BY <1>1, <1>4, <1>5, <1>6, <4>1
      <4>2. CASE queue'[w][k] = item
        BY <1>1, <1>4, <2>2, <4>2
      <4>3. QED
        BY <3>3, <4>1, <4>2
    <3>5. \A j, k \in DOMAIN queue'[w] : j # k => queue'[w][j].op # queue'[w][k].op
      <4>1. \A k \in DOMAIN queue[w] : queue[w][k].op # o
        BY <1>1, <1>4, <1>5, <1>6
      <4>2. QED
        BY <1>7, <3>3, <4>1
    <3>6. QED
      BY <3>4, <3>5
  <2>3. QED
    BY <1>1, <2>1, <2>2
<1>9. WorkTidy(w)'
  BY <1>1 DEF WorkTidy, InApply
<1>10. QueueTidy(w)'
  BY <1>1, <1>3, <1>8 DEF QueueTidy, Resting, InApply
<1>11. FreshTidy(w)'
  BY <1>1 DEF FreshTidy, Tidy, LonersTidy, InApply
<1>12. QED
  BY <1>1, <1>2, <1>9, <1>10, <1>11, QuietTidy

LEMMA TakeTidy ==
    ASSUME Typed, Tidy, NEW w \in Loners, Take(w)
    PROVE  Tidy'
<1> DEFINE o == queue[w][1].op
           r == queue[w][1].record
<1>1. /\ w \in Workers /\ pc[w] = "next" /\ pc'[w] = "save" /\ 1 \in DOMAIN queue[w]
      /\ work'[w] = o /\ rec'[w] = [r EXCEPT !.phase = "applying"]
      /\ DOMAIN queue'[w] = 1..(Len(queue[w]) - 1) /\ Len(queue[w]) \in Nat
      /\ \A k \in DOMAIN queue'[w] : k + 1 \in DOMAIN queue[w] /\ queue'[w][k] = queue[w][k + 1]
      /\ OnlyMoves(w) /\ UNCHANGED file /\ UNCHANGED log /\ stuck' = stuck
  BY LonerType, TakeTyped DEF Take, storeVars
<1>2. Alone(w)
  BY <1>1, AloneNow DEF Resting
<1>3. log[o].record = r /\ Pending(r)
  BY <1>1 DEF Tidy, LonersTidy, QueueTidy
<1>4. r \in RecordOf(o) /\ o \in Units
  <2>1. queue[w] \in Seq(Items) /\ r \in RecordOf(o)
    BY <1>1, MemoryOf DEF MemoryTyped
  <2>2. queue[w][1] \in Items
    BY <1>1, <2>1, ElementOfSeq, LenProperties
  <2>3. QED
    BY <2>1, <2>2 DEF Items
<1>5. rec'[w].applied = r.applied /\ rec'[w].phase = "applying"
  BY <1>1, <1>4 DEF RecordOf
<1>6. LeftIn(file, o) \subseteq Reach(o, r.applied)
  BY <1>3, <1>4 DEF Tidy, LogsTidy, LogTidy
<1>7. WorkTidy(w)'
  <2>1. LeftIn(file', work'[w]) \subseteq Reach(work'[w], rec'[w].applied)
    BY <1>1, <1>5, <1>6
  <2>2. Pending(log'[work'[w]].record)
    BY <1>1, <1>3
  <2>3. QED
    BY <1>1, <1>5, <2>1, <2>2 DEF WorkTidy
<1>8. \A k \in DOMAIN queue'[w] : k \in Nat /\ k + 1 # 1
  BY <1>1
<1>9. \A k \in DOMAIN queue'[w] : /\ log[queue'[w][k].op].record = queue'[w][k].record
                                  /\ Pending(queue'[w][k].record)
                                  /\ queue'[w][k].op # o
  BY <1>1, <1>8 DEF Tidy, LonersTidy, QueueTidy
<1>10. \A j, k \in DOMAIN queue'[w] : j # k => queue'[w][j].op # queue'[w][k].op
  <2>1. \A j, k \in DOMAIN queue'[w] : j # k => j + 1 # k + 1
    BY <1>8
  <2>2. QED
    BY <1>1, <2>1 DEF Tidy, LonersTidy, QueueTidy
<1>11. QueueTidy(w)'
  BY <1>1, <1>9, <1>10 DEF QueueTidy, Resting
<1>12. FreshTidy(w)'
  BY <1>1 DEF FreshTidy, Tidy, LonersTidy, InApply
<1>13. QED
  BY <1>1, <1>2, <1>7, <1>11, <1>12, QuietTidy

LEMMA RecoveredTidy ==
    ASSUME Typed, Tidy, NEW w \in Loners, Recovered(w)
    PROVE  Tidy'
<1>1. /\ w \in Workers /\ pc[w] = "next" /\ queue'[w] = <<>> /\ pc'[w] \in {"staging", "idle"}
      /\ OnlyMoves(w) /\ UNCHANGED file /\ UNCHANGED log /\ stuck' = stuck
  BY LonerType, RecoveredTyped DEF Recovered, storeVars
<1>2. Alone(w)
  BY <1>1, AloneNow DEF Resting
<1>3. DOMAIN << >> = {}
  OBVIOUS
<1>4. WorkTidy(w)' /\ QueueTidy(w)'
  BY <1>1, <1>3 DEF WorkTidy, QueueTidy, InApply
<1>5. FreshTidy(w)'
  BY <1>1 DEF FreshTidy, Tidy, LonersTidy, InApply
<1>6. QED
  BY <1>1, <1>2, <1>4, <1>5, QuietTidy

LEMMA StageTidy ==
    ASSUME Typed, Tidy, NEW w \in Loners, w \in Ops, Stage(w)
    PROVE  Tidy'
<1>1. /\ w \in Workers /\ pc[w] = "staging" /\ OnlyMoves(w)
      /\ UNCHANGED file /\ UNCHANGED log /\ stuck' = stuck
  BY LonerType, StageTyped DEF Stage, storeVars
<1>2. Alone(w)
  BY <1>1, AloneNow DEF Resting
<1>3. pc'[w] \in {"staging", "create"} /\ queue'[w] = queue[w]
  BY <1>1, LonerType DEF Stage, Goto, Typed, FlowTyped
<1>4. queue[w] = <<>> /\ DOMAIN << >> = {}
  BY <1>1 DEF Tidy, LonersTidy, QueueTidy
<1>5. WorkTidy(w)' /\ QueueTidy(w)'
  BY <1>3, <1>4 DEF WorkTidy, QueueTidy, InApply
<1>6. FreshTidy(w)'
  BY <1>1 DEF FreshTidy, Tidy, LonersTidy, InApply
<1>7. QED
  BY <1>1, <1>2, <1>5, <1>6, QuietTidy

LEMMA CreateTidy ==
    ASSUME Typed, Tidy, NEW w \in Loners, w \in Ops, Create(w)
    PROVE  Tidy'
<1>1. /\ w \in Workers /\ w \in Units /\ pc[w] = "create" /\ OnlyMoves(w) /\ work[w] = w
      /\ rec[w].phase = "prepared" /\ rec[w] \in RecordOf(w)
      /\ UNCHANGED file /\ stuck' = stuck
  BY LonerType, CreateTyped, MemoryOf DEF Create, MemoryTyped
<1>2. Alone(w)
  BY <1>1, AloneNow DEF Resting
<1>3. /\ pc'[w] = "save" /\ work'[w] = w /\ queue'[w] = queue[w]
      /\ rec'[w] = [rec[w] EXCEPT !.phase = "applying"]
      /\ log'[w].record = rec[w] /\ log'[w].rev = log[w].rev + 1
      /\ \A v \in Ops \ {w} : log'[v] = log[v]
  BY <1>1 DEF Create, WriteLog, Goto, Typed, FlowTyped, LogTyped
<1>4. rec'[w].phase = "applying"
  BY <1>1, <1>3 DEF RecordOf
<1>5. LeftIn(file, w) = {}
  BY <1>1 DEF Tidy, LonersTidy, FreshTidy, LogsTidy, LogTidy
<1>6. queue[w] = <<>> /\ DOMAIN << >> = {}
  BY <1>1 DEF Tidy, LonersTidy, QueueTidy
<1>7. Pending(rec[w])
  BY <1>1 DEF Pending, Final, FinalPhases
<1>8. WorkTidy(w)'
  BY <1>1, <1>3, <1>4, <1>5, <1>7 DEF WorkTidy
<1>9. QueueTidy(w)'
  BY <1>3, <1>6 DEF QueueTidy, Resting
<1>10. FreshTidy(w)'
  BY <1>3 DEF FreshTidy
<1>11. LogsTidy'
  <2> SUFFICES ASSUME NEW o \in Units PROVE LogTidy(o)'
    BY DEF LogsTidy
  <2>1. CASE o = w
    BY <1>1, <1>5, <2>1 DEF LogTidy
  <2>2. CASE o # w
    BY <1>1, <1>3, <2>2, OpsType DEF LogTidy, Tidy, LogsTidy
  <2>3. QED
    BY <2>1, <2>2
<1>12. Stamped'
  BY <1>1, StampedKept DEF Tidy
<1>13. \A v \in Units \ {w} : log'[v] = log[v]
  BY <1>3, OpsType
<1>14. QED
  BY <1>1, <1>2, <1>8, <1>9, <1>10, <1>11, <1>12, <1>13, TidyKept

\* A process that is applying o: what is known of it.
LEMMA AtWork ==
    ASSUME Typed, Tidy, NEW w \in Loners, pc[w] \in InApply
    PROVE  /\ w \in Workers /\ Alone(w) /\ work[w] \in Units /\ work[w] \in Ops
           /\ rec[w] \in RecordOf(work[w]) /\ WorkTidy(w) /\ LogTidy(work[w])
           /\ Pending(log[work[w]].record)
           /\ LeftIn(file, work[w]) \subseteq Reach(work[w], log[work[w]].record.applied)
<1>1. w \in Workers
  BY LonerType
<1>2. pc[w] \notin Resting
  BY DEF InApply, Resting
<1>3. Alone(w)
  BY <1>2, AloneNow
<1>4. work[w] \in Units /\ work[w] \in Ops /\ rec[w] \in RecordOf(work[w])
  BY <1>1, MemoryOf, OpsType DEF ApplyTyped
<1>5. WorkTidy(w) /\ LogTidy(work[w])
  BY <1>4 DEF Tidy, LonersTidy, LogsTidy
<1>6. Pending(log[work[w]].record)
  BY <1>5 DEF WorkTidy
<1>7. QED
  BY <1>1, <1>3, <1>4, <1>5, <1>6 DEF LogTidy

LEMMA SaveLoadTidy ==
    ASSUME Typed, Tidy, NEW w \in Loners, SaveLoad(w)
    PROVE  Tidy'
<1>1. pc[w] = "save" /\ UNCHANGED file /\ UNCHANGED log /\ stuck' = stuck
  BY DEF SaveLoad, storeVars
<1>2. w \in Workers /\ Alone(w) /\ WorkTidy(w) /\ OnlyMoves(w)
  BY <1>1, AtWork, SaveLoadTyped DEF InApply
<1>3. pc'[w] = "saving" /\ work'[w] = work[w] /\ rec'[w] = rec[w] /\ queue'[w] = queue[w]
  BY <1>2 DEF SaveLoad, Goto, Typed, FlowTyped
<1>4. WorkTidy(w)'
  BY <1>1, <1>2, <1>3 DEF WorkTidy, InApply
<1>5. QueueTidy(w)' /\ FreshTidy(w)'
  BY <1>1, <1>3, QueueOn DEF InApply
<1>6. QED
  BY <1>1, <1>2, <1>4, <1>5, QuietTidy

\* A record that is saved is true of the documents.
LEMMA WrittenTidy ==
    ASSUME Typed, Tidy, NEW w \in Loners, pc[w] = "saving", UNCHANGED file,
           UNCHANGED log \/ WriteLog(work[w], rec[w])
    PROVE  /\ LogsTidy'
           /\ \A o \in Ops : o # work[w] => log'[o] = log[o]
           /\ \A v \in Units : log[v].rev = 0 => log'[v].rev = 0
<1>1. /\ w \in Workers /\ work[w] \in Units /\ work[w] \in Ops /\ rec[w] \in RecordOf(work[w])
      /\ WorkTidy(w) /\ Pending(log[work[w]].record) /\ rec[w].phase # "prepared"
  BY AtWork, MemoryOf DEF InApply, ApplyTyped
<1>2. \A o \in Ops : o # work[w] => log'[o] = log[o]
  BY DEF WriteLog, Typed, LogTyped
<1>3. log[work[w]].rev # 0
  BY <1>1 DEF Typed, LogTyped, Pending, NoRecord
<1>4. ASSUME NEW o \in Units, o = work[w] PROVE LogTidy(o)'
  <2>1. CASE UNCHANGED log
    BY <2>1 DEF Tidy, LogsTidy, LogTidy
  <2>2. CASE WriteLog(work[w], rec[w])
    <3>1. log'[o].record = rec[w] /\ log'[o].rev = log[o].rev + 1
      BY <1>1, <1>4, <2>2 DEF WriteLog, Typed, LogTyped
    <3>2. log'[o].rev # 0
      BY <1>1, <1>4, <3>1 DEF Typed, LogTyped
    <3>3. Pending(rec[w]) => rec[w].phase = "applying"
      BY <1>1, RecordFields DEF Pending, Final, FinalPhases
    <3>4. WorkTidy(w) /\ pc[w] = "saving"
      BY <1>1
    <3>5. /\ rec[w].phase = "applying" => LeftIn(file, o) \subseteq Reach(o, rec[w].applied)
          /\ rec[w].phase = "conflicted" /\ rec[w].rolledBack = "yes" => LeftIn(file, o) = {}
      BY <1>4, <3>4 DEF WorkTidy, InApply
    <3>6. QED
      BY <3>1, <3>2, <3>3, <3>5 DEF LogTidy
  <2>3. QED
    BY <2>1, <2>2
<1>5. ASSUME NEW o \in Units, o # work[w] PROVE LogTidy(o)'
  BY <1>2, <1>5, OpsType DEF LogTidy, Tidy, LogsTidy
<1>6. LogsTidy'
  BY <1>4, <1>5 DEF LogsTidy
<1>7. QED
  BY <1>2, <1>3, <1>6, OpsType

LEMMA SaveTidy ==
    ASSUME Typed, Tidy, NEW w \in Loners, Save(w)
    PROVE  Tidy'
<1>1. /\ pc[w] = "saving" /\ UNCHANGED file /\ stuck' = stuck
      /\ UNCHANGED log \/ WriteLog(work[w], rec[w])
  BY DEF Save
<1>2. /\ w \in Workers /\ Alone(w) /\ WorkTidy(w) /\ OnlyMoves(w) /\ work[w] \in Ops
      /\ rec[w] \in RecordOf(work[w])
  BY <1>1, AtWork, SaveTyped DEF InApply
<1>3. /\ LogsTidy'
      /\ \A o \in Ops : o # work[w] => log'[o] = log[o]
      /\ \A v \in Units : log[v].rev = 0 => log'[v].rev = 0
  BY <1>1, WrittenTidy
<1>4. Stamped'
  BY <1>1, StampedKept DEF Tidy
<1>5. CASE Raise(w)
  BY <1>1, <1>2, <1>3, <1>4, <1>5, RaiseTyped, RestTidy, TidyKept
<1>6. CASE rec[w].phase = "applying" /\ SaveOutcome(w) # "error" /\ Goto(w, "apply")
           /\ UNCHANGED memoryVars
  <2>1. /\ pc'[w] = "apply" /\ work'[w] = work[w] /\ rec'[w] = rec[w] /\ queue'[w] = queue[w]
    BY <1>2, <1>6 DEF Goto, Typed, FlowTyped, memoryVars
  <2>2. log'[work[w]].record = rec[w]
    <3>1. CASE WriteLog(work[w], rec[w])
      BY <1>2, <3>1 DEF WriteLog, Typed, LogTyped
    <3>2. CASE ~WriteLog(work[w], rec[w])
      <4>1. SaveOutcome(w) = "replay" /\ UNCHANGED log
        BY <1>6, <3>2 DEF Save
      <4>2. QED
        BY <4>1 DEF SaveOutcome
    <3>3. QED
      BY <3>1, <3>2
  <2>3. WorkTidy(w)'
    BY <1>6, <2>1, <2>2 DEF WorkTidy, Pending, Final, FinalPhases
  <2>4. QueueTidy(w)' /\ FreshTidy(w)'
    BY <1>1, <1>3, <2>1, OpsType, QueueOn DEF InApply
  <2>5. QED
    BY <1>1, <1>2, <1>3, <1>4, <2>3, <2>4, TidyKept
<1>7. CASE Goto(w, "done") /\ Forget(w)
  <2>1. pc'[w] = "done" /\ queue'[w] = <<>>
    BY <1>2, <1>7 DEF Goto, Forget, Typed, FlowTyped
  <2>2. QED
    BY <1>1, <1>2, <1>3, <1>4, <2>1, RestTidy, TidyKept
<1>8. CASE Goto(w, "next") /\ w # work[w] /\ UNCHANGED memoryVars
  <2>1. /\ pc'[w] = "next" /\ work'[w] = work[w] /\ queue'[w] = queue[w]
    BY <1>2, <1>8 DEF Goto, Typed, FlowTyped, memoryVars
  <2>2. WorkTidy(w)'
    BY <2>1 DEF WorkTidy, InApply
  <2>3. QueueTidy(w)' /\ FreshTidy(w)'
    BY <1>1, <1>3, <1>8, <2>1, OpsType, QueueOn DEF InApply
  <2>4. QED
    BY <1>1, <1>2, <1>3, <1>4, <2>2, <2>3, TidyKept
<1>9. Raise(w) \/ (AfterSave(w) /\ SaveOutcome(w) # "error")
  BY DEF Save
<1>10. CASE AfterSave(w) /\ SaveOutcome(w) # "error"
  <2>1. CASE rec[w].phase = "applying"
    BY <1>6, <1>10, <2>1 DEF AfterSave
  <2>2. CASE rec[w].phase = "conflicted"
    BY <1>5, <1>10, <2>2 DEF AfterSave
  <2>3. CASE rec[w].phase = "committed"
    BY <1>7, <1>8, <1>10, <2>3 DEF AfterSave
  <2>4. QED
    BY <1>10, <2>1, <2>2, <2>3 DEF AfterSave
<1>11. QED
  BY <1>5, <1>9, <1>10

\* The next participant is the only one that may be written and not recorded.
LEMMA ReachNext ==
    ASSUME NEW o \in Ops, NEW a \in SUBSET Indices(o), NEW i \in Indices(o) \ a,
           \A k \in Indices(o) \ a : i <= k
    PROVE  /\ Plan[o][i].file \in Reach(o, a)
           /\ Reach(o, a) \subseteq Docs(o, a) \cup {Plan[o][i].file}
           /\ Docs(o, a) \cup {Plan[o][i].file} \subseteq Reach(o, a \cup {i})
<1>1. i \in {j \in Indices(o) : j \in a \/ \A k \in Indices(o) \ a : j <= k}
  OBVIOUS
<1>2. \A j \in Indices(o) : j \in a \/ (\A k \in Indices(o) \ a : j <= k) => j \in a \cup {i}
  <2>1. \A j \in Indices(o) : j \in Int
    BY PlanType
  <2>2. \A j \in Indices(o) : j <= i /\ i <= j => i = j
    BY <2>1
  <2>3. QED
    BY <2>2
<1>3. a \cup {i} \subseteq {j \in Indices(o) : j \in a \cup {i} \/ \A k \in Indices(o) \ (a \cup {i}) : j <= k}
  OBVIOUS
<1>4. Plan[o][i].file \in Reach(o, a)
  BY <1>1 DEF Reach
<1>5. Reach(o, a) \subseteq Docs(o, a) \cup {Plan[o][i].file}
  BY <1>2 DEF Reach, Docs
<1>6. Docs(o, a) \cup {Plan[o][i].file} \subseteq Reach(o, a \cup {i})
  BY <1>3 DEF Reach, Docs
<1>7. QED
  BY <1>4, <1>5, <1>6

\* The next mutation of a process, and what its operation has written so far.
LEMMA BeforeMutation ==
    ASSUME OnlyReplaced, Typed, Tidy, NEW w \in Loners, pc[w] = "apply", Remaining(w) # {}
    PROVE  LET o == work[w]
               i == NextMutation(w)
               f == Doc(w, i)
           IN /\ o \in Ops /\ f \in Files /\ f = Plan[o][i].file
              /\ i \in Indices(o) \ rec[w].applied
              /\ rec[w].applied \in SUBSET Indices(o)
              /\ \A k \in Indices(o) \ rec[w].applied : i <= k
              /\ MutationOf(w).kind = "replace" /\ MutationOf(w).op = OpId(o)
              /\ MutationOf(w).data = o
              /\ log[o].record.applied = rec[w].applied
              /\ LeftIn(file, o) \subseteq Reach(o, rec[w].applied)
<1> DEFINE o == work[w]
           i == NextMutation(w)
<1>1. /\ w \in Workers /\ o \in Ops /\ rec[w] \in RecordOf(o) /\ WorkTidy(w)
      /\ LeftIn(file, o) \subseteq Reach(o, log[o].record.applied)
  BY AtWork DEF InApply
<1>2. /\ i \in Indices(o) \ rec[w].applied /\ Doc(w, i) \in Files
      /\ \A k \in Indices(o) \ rec[w].applied : i <= k
  BY <1>1, ApplyContext DEF Remaining
<1>3. rec[w].applied \in SUBSET Indices(o)
  BY <1>1, RecordFields
<1>4. MutationOf(w).kind = "replace" /\ MutationOf(w).op = OpId(o) /\ MutationOf(w).data = o
  BY <1>1, <1>2, MutationCallType DEF MutationOf, OnlyReplaced
<1>5. log[o].record.applied = rec[w].applied
  BY <1>1 DEF WorkTidy, InApply
<1>6. QED
  BY <1>1, <1>2, <1>3, <1>4, <1>5 DEF Doc

LEMMA ApplyTidy ==
    ASSUME OnlyReplaced, Typed, Tidy, NEW w \in Loners, Apply(w)
    PROVE  Tidy'
<1> DEFINE o == work[w]
           i == NextMutation(w)
           f == Doc(w, i)
           c == MutationOf(w)
           a == rec[w].applied
<1>1. /\ pc[w] = "apply" /\ Remaining(w) # {} /\ UNCHANGED log /\ stuck' = stuck /\ DoCall(f, c)
  BY DEF Apply, Mutate
<1>2. /\ w \in Workers /\ Alone(w) /\ o \in Units /\ OnlyMoves(w) /\ rec[w] \in RecordOf(o)
      /\ Pending(log[o].record)
  BY <1>1, AtWork, ApplyStepTyped DEF InApply
<1>3. /\ o \in Ops /\ f \in Files /\ f = Plan[o][i].file /\ i \in Indices(o) \ a
      /\ a \in SUBSET Indices(o) /\ \A k \in Indices(o) \ a : i <= k
      /\ c.kind = "replace" /\ c.op = OpId(o) /\ c.data = o
      /\ log[o].record.applied = a /\ LeftIn(file, o) \subseteq Reach(o, a)
  BY <1>1, BeforeMutation
<1>4. /\ pc'[w] = "save" /\ work'[w] = o /\ queue'[w] = queue[w]
      /\ rec'[w] = [rec[w] EXCEPT !.applied = @ \cup {i}]
  BY <1>2, ApplyStepTyped
<1>5. rec'[w].applied = a \cup {i} /\ rec'[w].phase = "applying"
  BY <1>1, <1>2, <1>3, <1>4, ApplyContext DEF RecordOf
<1>6. /\ LeftIn(file', o) \subseteq LeftIn(file, o) \cup {f}
      /\ \A p \in Ops : p # o => Shrinks(p)
  BY <1>1, <1>3, CallLeft, IdsDiffer
<1>7. /\ f \in Reach(o, a) /\ LeftIn(file', o) \subseteq Reach(o, a)
      /\ LeftIn(file', o) \subseteq Reach(o, a \cup {i})
  BY <1>3, <1>6, ReachNext
<1>8. Stamped'
  BY <1>1, <1>3, CallStamped, IdsDiffer DEF Tidy
<1>9. LogsTidy'
  <2> SUFFICES ASSUME NEW p \in Units PROVE LogTidy(p)'
    BY DEF LogsTidy
  <2>1. CASE p = o
    <3>1. log[p].rev # 0
      BY <1>2, <1>3, <2>1 DEF Typed, LogTyped, Pending, NoRecord
    <3>2. log[p].record.phase # "conflicted"
      BY <1>2, <2>1 DEF Pending, Final, FinalPhases
    <3>3. LeftIn(file', p) \subseteq Reach(p, log[p].record.applied)
      BY <1>3, <1>7, <2>1
    <3>4. QED
      BY <1>1, <3>1, <3>2, <3>3 DEF LogTidy
  <2>2. CASE p # o
    BY <1>1, <1>6, <2>2, OpsType DEF LogTidy, Tidy, LogsTidy, Shrinks
  <2>3. QED
    BY <2>1, <2>2
<1>10. WorkTidy(w)'
  <2>1. LeftIn(file', work'[w]) \subseteq Reach(work'[w], rec'[w].applied)
    BY <1>4, <1>5, <1>7
  <2>2. Pending(log'[work'[w]].record)
    BY <1>1, <1>2, <1>4
  <2>3. QED
    BY <1>4, <1>5, <2>1, <2>2 DEF WorkTidy
<1>11. QueueTidy(w)' /\ FreshTidy(w)'
  BY <1>1, <1>4, QueueOn DEF InApply
<1>12. QED
  BY <1>1, <1>2, <1>8, <1>9, <1>10, <1>11, TidyKept

\* The participant that is refused is not as the operation would leave it: a
\* mutation that was made before is answered from the document.
LEMMA ApplyRefusedTidy ==
    ASSUME OnlyReplaced, SerialIsCalm, setting.serial, Typed, Tidy, NEW w \in Loners,
           ApplyRefused(w)
    PROVE  Tidy'
<1> DEFINE o == work[w]
           i == NextMutation(w)
           f == Doc(w, i)
           c == MutationOf(w)
           a == rec[w].applied
<1>1. /\ pc[w] = "apply" /\ Remaining(w) # {} /\ ~Succeeds(f, c)
  <2>1. \A x : ~LockTimeout(x)
    BY CalmTyped DEF Tidy
  <2>2. QED
    BY <2>1 DEF ApplyRefused
<1>2. PICK code \in Codes : BeginUndo(w, code)
  BY LonerType, ApplyRefusedTyped
<1>3. /\ w \in Workers /\ Alone(w) /\ o \in Units /\ rec[w] \in RecordOf(o)
      /\ Pending(log[o].record)
  BY <1>1, AtWork DEF InApply
<1>4. /\ OnlyMoves(w) /\ pc'[w] = "undo" /\ work'[w] = o /\ queue'[w] = queue[w]
      /\ rec'[w] = [rec[w] EXCEPT !.error = <<i, code>>] /\ todo'[w] = a
      /\ UNCHANGED file /\ UNCHANGED log /\ stuck' = stuck
  BY <1>1, <1>2, <1>3, BeginUndoTyped DEF BeginUndo, storeVars
<1>5. rec'[w].applied = a
  BY <1>3, <1>4 DEF RecordOf
<1>6. /\ o \in Ops /\ f \in Files /\ f = Plan[o][i].file /\ i \in Indices(o) \ a
      /\ a \in SUBSET Indices(o) /\ \A k \in Indices(o) \ a : i <= k
      /\ c.kind = "replace" /\ c.op = OpId(o) /\ c.data = o
      /\ log[o].record.applied = a /\ LeftIn(file, o) \subseteq Reach(o, a)
  BY <1>1, BeforeMutation
<1>7. f \notin LeftIn(file, o)
  <2> SUFFICES ASSUME file[f].op = OpId(o) PROVE FALSE
    BY DEF LeftIn
  <2>1. file[f].data = o
    BY <1>6 DEF Tidy, Stamped
  <2>2. Store!CallAnswer(file[f], c) = "ok"
    BY <1>6, <2>1 DEF Store!CallAnswer, Store!Replay
  <2>3. QED
    BY <1>1, <2>2 DEF Succeeds
<1>8. LeftIn(file, o) \subseteq Docs(o, a)
  <2>1. o \in Ops /\ a \in SUBSET Indices(o) /\ i \in Indices(o) \ a
        /\ (\A k \in Indices(o) \ a : i <= k) /\ f = Plan[o][i].file
    BY <1>6
  <2> HIDE DEF o, i, f, a
  <2>2. Reach(o, a) \subseteq Docs(o, a) \cup {f}
    BY <2>1, ReachNext
  <2>3. QED
    BY <1>6, <1>7, <2>2
<1>9. WorkTidy(w)'
  <2>1. LeftIn(file', work'[w]) \subseteq Docs(work'[w], todo'[w])
    BY <1>4, <1>8
  <2>2. Pending(log'[work'[w]].record) /\ log'[work'[w]].record.applied = rec'[w].applied
    BY <1>3, <1>4, <1>5, <1>6
  <2>3. QED
    BY <1>4, <2>1, <2>2 DEF WorkTidy
<1>10. QueueTidy(w)' /\ FreshTidy(w)'
  BY <1>1, <1>4, QueueOn DEF InApply
<1>11. QED
  BY <1>3, <1>4, <1>9, <1>10, QuietTidy

LEMMA FinishTidy ==
    ASSUME Typed, Tidy, NEW w \in Loners, Finish(w)
    PROVE  Tidy'
<1>1. pc[w] = "apply" /\ UNCHANGED file /\ UNCHANGED log /\ stuck' = stuck
  BY DEF Finish, storeVars
<1>2. /\ w \in Workers /\ Alone(w) /\ rec[w] \in RecordOf(work[w]) /\ Pending(log[work[w]].record)
      /\ work[w] \in Ops
  BY <1>1, AtWork DEF InApply
<1>3. /\ OnlyMoves(w) /\ pc'[w] = "save" /\ work'[w] = work[w] /\ queue'[w] = queue[w]
      /\ rec'[w] = [rec[w] EXCEPT !.phase = "committed", !.error = NoError]
  BY <1>2, FinishTyped
<1>4. rec'[w].phase = "committed"
  BY <1>2, <1>3 DEF RecordOf
<1>5. WorkTidy(w)'
  BY <1>1, <1>2, <1>3, <1>4 DEF WorkTidy
<1>6. QueueTidy(w)' /\ FreshTidy(w)'
  BY <1>1, <1>3, QueueOn DEF InApply
<1>7. QED
  BY <1>1, <1>2, <1>3, <1>5, <1>6, QuietTidy

LEMMA UndoLookTidy ==
    ASSUME OnlyReplaced, Typed, Versions, Tidy, NEW w \in Loners, UndoLook(w)
    PROVE  Tidy'
<1> DEFINE o == work[w]
           i == Max(todo[w])
           f == Doc(w, i)
<1>1. /\ pc[w] = "undo" /\ todo[w] # {} /\ UNCHANGED file /\ UNCHANGED log /\ stuck' = stuck
  BY DEF UndoLook, storeVars
<1>2. /\ w \in Workers /\ Alone(w) /\ o \in Ops /\ WorkTidy(w) /\ Pending(log[o].record)
  BY <1>1, AtWork DEF InApply
<1>3. i \in todo[w] /\ i \in Indices(o) /\ f \in Files /\ f = Plan[o][i].file
  BY <1>1, <1>2, UndoContext DEF Doc
<1>4. /\ OnlyMoves(w) /\ work'[w] = o /\ rec'[w] = rec[w] /\ queue'[w] = queue[w]
      /\ failed'[w] = failed[w] /\ pc'[w] \in {"undo", "undoing"}
      /\ \/ OursToUndo(o, rec[w], i, file[f]) /\ todo'[w] = todo[w]
         \/ ~OursToUndo(o, rec[w], i, file[f]) /\ todo'[w] = todo[w] \ {i}
  BY <1>1, <1>2, UndoLookTyped DEF UndoLook, Goto, Typed, FlowTyped
<1>5. ~failed[w] => LeftIn(file, o) \subseteq Docs(o, todo[w])
  BY <1>1, <1>2 DEF WorkTidy, InApply
<1>6. ~OursToUndo(o, rec[w], i, file[f]) => f \notin LeftIn(file, o)
  BY <1>2, <1>3 DEF OursToUndo, OnlyReplaced, Versions, DocumentsThere, Tidy, Stamped, LeftIn
<1>7. f \notin LeftIn(file, o) /\ LeftIn(file, o) \subseteq Docs(o, todo[w]) =>
         LeftIn(file, o) \subseteq Docs(o, todo[w] \ {i})
  BY <1>3 DEF Docs
<1>8. ~failed[w] => LeftIn(file, o) \subseteq Docs(o, todo'[w])
  BY <1>4, <1>5, <1>6, <1>7
<1>9. WorkTidy(w)'
  <2>1. ~failed'[w] => LeftIn(file', work'[w]) \subseteq Docs(work'[w], todo'[w])
    BY <1>1, <1>4, <1>8
  <2>2. Pending(log'[work'[w]].record) /\ log'[work'[w]].record.applied = rec'[w].applied
    BY <1>1, <1>2, <1>4 DEF WorkTidy, InApply
  <2>3. QED
    BY <1>4, <2>1, <2>2 DEF WorkTidy
<1>10. QueueTidy(w)' /\ FreshTidy(w)'
  BY <1>1, <1>4, QueueOn DEF InApply
<1>11. QED
  BY <1>1, <1>2, <1>4, <1>9, <1>10, QuietTidy

\* A participant whose rollback succeeds is no longer as the operation left it.
LEMMA UndoTidy ==
    ASSUME OnlyReplaced, Typed, Versions, Tidy, NEW w \in Loners, Undo(w)
    PROVE  Tidy'
<1> DEFINE o == work[w]
           i == Max(todo[w])
           f == Doc(w, i)
           c == UndoOf(w)
<1>1. /\ pc[w] = "undoing" /\ UNCHANGED log /\ stuck' = stuck /\ DoCall(f, c)
      /\ Undone(w, Succeeds(f, c))
  BY DEF Undo, Undone, Compensate
<1>2. /\ w \in Workers /\ Alone(w) /\ o \in Ops /\ o \in Units /\ WorkTidy(w)
      /\ Pending(log[o].record) /\ rec[w] \in RecordOf(o)
  BY <1>1, AtWork DEF InApply
<1>3. i \in todo[w] /\ i \in Indices(o) /\ f \in Files /\ f = Plan[o][i].file
  BY <1>1, <1>2, UndoContext DEF Doc
<1>4. c.kind = "replace" /\ c.op = RollbackId(o, i)
  <2>1. rec[w].parts[i].existed
    BY <1>1, <1>2, <1>3 DEF Versions, WorkersSound, MemorySound, InApply, Sound, Fits
  <2>2. QED
    BY <1>2, <1>3, <2>1, UndoCallType DEF UndoOf
<1>5. \A p \in Ops : c.op # OpId(p)
  BY <1>2, <1>3, <1>4, IdsDiffer
<1>6. (\A p \in Ops : Shrinks(p)) /\ Stamped'
  BY <1>1, <1>3, <1>4, <1>5, CallLeft, CallStamped DEF Tidy
<1>7. /\ OnlyMoves(w) /\ work'[w] = o /\ rec'[w] = rec[w] /\ queue'[w] = queue[w]
      /\ pc'[w] = "undo" /\ todo'[w] = todo[w] \ {i} /\ failed'[w] = (failed[w] \/ ~Succeeds(f, c))
  <2>1. Succeeds(f, c) \in BOOLEAN
    BY DEF Succeeds
  <2>2. QED
    BY <1>1, <1>2, <2>1, UndoneTyped
<1>8. Succeeds(f, c) => f \notin LeftIn(file', o)
  <2> SUFFICES ASSUME Succeeds(f, c) PROVE file'[f].op # OpId(o)
    BY DEF LeftIn
  <2>1. Store!CallAnswer(file[f], c) = "ok"
    BY <1>4 DEF Succeeds, Store!CallAnswer
  <2>2. CASE Store!Replay(file[f], c)
    <3>1. file' = file /\ file[f].op = c.op
      BY <1>1, <2>2 DEF DoCall, Store!Changes, Store!Replay
    <3>2. QED
      BY <1>2, <1>5, <3>1
  <2>3. CASE ~Store!Replay(file[f], c)
    <3>1. file'[f].op = c.op
      BY <1>1, <1>3, <1>4, <2>1, <2>3 DEF DoCall, Store!Changes, Store!CallEffect, Typed, FilesTyped
    <3>2. QED
      BY <1>2, <1>5, <3>1
  <2>4. QED
    BY <2>2, <2>3
<1>9. ~failed[w] => LeftIn(file, o) \subseteq Docs(o, todo[w])
  BY <1>1, <1>2 DEF WorkTidy, InApply
<1>10. ~failed[w] /\ Succeeds(f, c) => LeftIn(file', o) \subseteq Docs(o, todo[w] \ {i})
  <2>1. LeftIn(file', o) \subseteq LeftIn(file, o)
    BY <1>2, <1>6 DEF Shrinks
  <2>2. QED
    BY <1>3, <1>8, <1>9, <2>1 DEF Docs
<1>11. WorkTidy(w)'
  <2>1. ~failed'[w] => LeftIn(file', work'[w]) \subseteq Docs(work'[w], todo'[w])
    BY <1>7, <1>10
  <2>2. Pending(log'[work'[w]].record) /\ log'[work'[w]].record.applied = rec'[w].applied
    BY <1>1, <1>2, <1>7 DEF WorkTidy, InApply
  <2>3. QED
    BY <1>7, <2>1, <2>2 DEF WorkTidy
<1>12. QueueTidy(w)' /\ FreshTidy(w)'
  BY <1>1, <1>7, QueueOn DEF InApply
<1>13. LogsTidy'
  BY <1>1, <1>6, LogsKept, OpsType DEF Tidy
<1>14. QED
  BY <1>1, <1>2, <1>6, <1>7, <1>11, <1>12, <1>13, TidyKept

LEMMA UndoFinishTidy ==
    ASSUME Typed, Tidy, NEW w \in Loners, UndoFinish(w)
    PROVE  Tidy'
<1>1. pc[w] = "undo" /\ todo[w] = {} /\ UNCHANGED file /\ UNCHANGED log /\ stuck' = stuck
  BY DEF UndoFinish, storeVars
<1>2. /\ w \in Workers /\ Alone(w) /\ rec[w] \in RecordOf(work[w]) /\ Pending(log[work[w]].record)
      /\ work[w] \in Ops /\ WorkTidy(w)
  BY <1>1, AtWork DEF InApply
<1>3. /\ OnlyMoves(w) /\ pc'[w] = "save" /\ work'[w] = work[w] /\ queue'[w] = queue[w]
      /\ rec'[w] = [rec[w] EXCEPT !.phase = "conflicted",
                                  !.rolledBack = IF failed[w] THEN "no" ELSE "yes"]
  BY <1>2, UndoFinishTyped
<1>4. rec'[w].phase = "conflicted" /\ (rec'[w].rolledBack = "yes" => ~failed[w])
  BY <1>2, <1>3 DEF RecordOf
<1>5. ~failed[w] => LeftIn(file, work[w]) = {}
  BY <1>1, <1>2 DEF WorkTidy, InApply, Docs
<1>6. WorkTidy(w)'
  <2>1. rec'[w].rolledBack = "yes" => LeftIn(file', work'[w]) = {}
    BY <1>1, <1>3, <1>4, <1>5
  <2>2. Pending(log'[work'[w]].record)
    BY <1>1, <1>2, <1>3
  <2>3. QED
    BY <1>3, <1>4, <2>1, <2>2 DEF WorkTidy
<1>7. QueueTidy(w)' /\ FreshTidy(w)'
  BY <1>1, <1>3, QueueOn DEF InApply
<1>8. QED
  BY <1>1, <1>2, <1>3, <1>6, <1>7, QuietTidy

LEMMA DirectStepTidy ==
    ASSUME OnlyReplaced, Typed, Tidy, NEW d \in Direct,
           Stage(d) \/ StartDirect(d) \/ WriteDirect(d) \/ DirectTimeout(d) \/ Crash(d)
    PROVE  Tidy'
<1>1. d \in Ops /\ d \in Workers
  BY OpsType
<1>2. UNCHANGED log /\ stuck' = stuck
  BY DEF Stage, StartDirect, WriteDirect, DirectTimeout, Crash, storeVars
<1>3. OnlyMoves(d)
  BY <1>1, StageTyped, StartDirectTyped, DirectTyped, DieTyped DEF Crash
<1>4. CASE WriteDirect(d)
  <2>1. 1 \in Indices(d) /\ Plan[d][1].file \in Files
    BY <1>1, PlanType
  <2>2. /\ MutationCall(d, rec[d], 1).kind = "replace" /\ MutationCall(d, rec[d], 1).op = OpId(d)
        /\ MutationCall(d, rec[d], 1).data = d
    BY <1>1, <2>1, MutationCallType DEF OnlyReplaced
  <2>3. \A o \in Units : OpId(d) # OpId(o)
    BY <1>1, IdsDiffer DEF Units
  <2>4. \A o \in Units : Shrinks(o)
    BY <1>4, <2>1, <2>2, <2>3, CallLeft, OpsType DEF WriteDirect
  <2>5. Stamped'
    BY <1>1, <1>4, <2>1, <2>2, CallStamped, IdsDiffer DEF WriteDirect, Tidy
  <2>6. QED
    BY <1>2, <1>3, <2>4, <2>5, DirectTidy
<1>5. CASE ~WriteDirect(d)
  <2>1. UNCHANGED file
    BY <1>5 DEF Stage, StartDirect, DirectTimeout, Crash, storeVars
  <2>2. QED
    BY <1>2, <1>3, <2>1, SameShrinks, StampedKept, DirectTidy DEF Tidy
<1>6. QED
  BY <1>4, <1>5

LEMMA CrashTidy ==
    ASSUME Typed, Tidy, NEW w \in Loners, Crash(w)
    PROVE  Tidy'
<1>1. /\ pc[w] \notin Resting /\ w \in Workers /\ UNCHANGED file /\ UNCHANGED log /\ stuck' = stuck
  BY LonerType DEF Crash, storeVars
<1>2. Alone(w)
  BY <1>1, AloneNow
<1>3. OnlyMoves(w) /\ pc'[w] \in {"dead", "idle"} /\ queue'[w] = <<>>
  BY <1>1, DieTyped DEF Crash
<1>4. QED
  BY <1>1, <1>2, <1>3, EndTidy

\* What a unit or a recovery does in a serial setting.
SerialStep(w) ==
    \/ w \in Ops /\ (Stage(w) \/ Create(w))
    \/ RecoverStep(w) \/ SaveLoad(w) \/ Save(w) \/ Apply(w) \/ ApplyRefused(w) \/ Finish(w)
    \/ UndoLook(w) \/ Undo(w) \/ UndoFinish(w) \/ Crash(w)

\* Nothing times out, and no lock of the dead is there to be cleared.
LEMMA SerialSteps ==
    ASSUME SerialIsCalm, setting.serial, Typed, Tidy, [Next]_vars
    PROVE  \/ UNCHANGED vars
           \/ \E d \in Direct : \/ Stage(d) \/ StartDirect(d) \/ WriteDirect(d)
                                \/ DirectTimeout(d) \/ Crash(d)
           \/ \E w \in Loners : SerialStep(w)
<1>1. /\ \A x : ~LockTimeout(x)
      /\ \A w, x : ~DieHolding(w, x)
  BY CalmTyped DEF Tidy
<1>2. ASSUME NEW o \in Ops, CommitStep(o), o \in Direct
      PROVE  Stage(o) \/ StartDirect(o) \/ WriteDirect(o) \/ DirectTimeout(o)
  <2>1. ~Create(o)
    BY <1>2, MemoryOf DEF Create, MemoryTyped, Workers
  <2>2. QED
    BY <1>2, <2>1 DEF CommitStep
<1>3. ASSUME NEW o \in Ops, CommitStep(o), o \notin Direct
      PROVE  o \in Loners /\ (Stage(o) \/ Create(o))
  <2>1. o \in Loners /\ o \in Workers
    BY <1>3 DEF Loners, Workers
  <2>2. pc[o] # "direct"
    BY <1>3, <2>1, MemoryOf DEF MemoryTyped
  <2>3. setting.writers \subseteq Direct
    <3>1. setting \in Setting
      BY SettingAssumption DEF Typed, BoundsTyped
    <3>2. QED
      BY <3>1 DEF Setting
  <2>4. QED
    BY <1>3, <2>1, <2>2, <2>3 DEF CommitStep, StartDirect, WriteDirect, DirectTimeout
<1>4. ASSUME NEW w \in Workers, RecoverStep(w) \/ Work(w) PROVE w \in Loners /\ SerialStep(w)
  <2>1. w \in Loners
    BY <1>4, MemoryOf DEF RecoverStep, Recover, Scan, Take, Recovered, Work, SaveLoad, Save,
          SaveTimeout, Apply, ApplyRefused, Finish, UndoLook, Undo, UndoTimeout, UndoFinish,
          MemoryTyped, Homes, Loners
  <2>2. ~SaveTimeout(w) /\ ~UndoTimeout(w)
    BY <1>1 DEF SaveTimeout, UndoTimeout
  <2>3. QED
    BY <1>4, <2>1, <2>2 DEF Work, SerialStep
<1>5. ASSUME NEW w \in Workers,
             Crash(w) \/ CrashInSave(w) \/ CrashInApply(w) \/ CrashInUndo(w)
      PROVE  Crash(w)
  BY <1>1, <1>5 DEF CrashInSave, CrashInApply, CrashInUndo
<1>6. \A x : ~ClearLock(x)
  BY DEF ClearLock, Tidy
<1>7. ASSUME NEW w \in Workers, Crash(w)
      PROVE  (w \in Direct /\ Crash(w)) \/ (w \in Loners /\ SerialStep(w))
  BY <1>7 DEF Loners, SerialStep
<1>8. QED
  BY <1>2, <1>3, <1>4, <1>5, <1>6, <1>7 DEF Next, SerialStep

\* What a serial setting asks of each step.
LEMMA TidyStep ==
    ASSUME OnlyReplaced, SerialIsCalm, setting.serial, Typed, Versions, Tidy, [Next]_vars
    PROVE  Tidy'
<1>1. CASE UNCHANGED vars
  <2>1. UNCHANGED <<file, log, stuck, pc, work, rec, cursor, todo, failed, queue>>
    BY <1>1 DEF vars, storeVars, memoryVars
  <2>2. Stamped' /\ LogsTidy'
    BY <2>1, StampedKept, LogsKept, SameShrinks DEF Tidy
  <2>3. OneAtATime'
    BY <2>1 DEF OneAtATime, Tidy
  <2>4. ASSUME NEW w \in Loners PROVE WorkTidy(w)' /\ QueueTidy(w)' /\ FreshTidy(w)'
    <3>1. WorkTidy(w) /\ QueueTidy(w) /\ FreshTidy(w)
      BY DEF Tidy, LonersTidy
    <3>2. WorkTidy(w)'
      BY <2>1, <3>1 DEF WorkTidy
    <3>3. QueueTidy(w)'
      BY <2>1, <3>1 DEF QueueTidy
    <3>4. FreshTidy(w)'
      BY <2>1, <3>1 DEF FreshTidy
    <3>5. QED
      BY <3>2, <3>3, <3>4
  <2>5. QED
    BY <2>1, <2>2, <2>3, <2>4 DEF Tidy, LonersTidy
<1>2. ASSUME NEW d \in Direct,
             Stage(d) \/ StartDirect(d) \/ WriteDirect(d) \/ DirectTimeout(d) \/ Crash(d)
      PROVE  Tidy'
  BY <1>2, DirectStepTidy
<1>3. ASSUME NEW w \in Loners, SerialStep(w) PROVE Tidy'
  <2>1. CASE RecoverStep(w)
    BY <2>1, RecoverTidy, ScanTidy, TakeTidy, RecoveredTidy DEF RecoverStep
  <2>2. CASE ~RecoverStep(w)
    BY <1>3, <2>2, StageTidy, CreateTidy, SaveLoadTidy, SaveTidy, ApplyTidy, ApplyRefusedTidy,
       FinishTidy, UndoLookTidy, UndoTidy, UndoFinishTidy, CrashTidy DEF SerialStep
  <2>3. QED
    BY <2>1, <2>2
<1>4. QED
  BY <1>1, <1>2, <1>3, SerialSteps

LEMMA TidyInit == Init => Tidy
<1> SUFFICES ASSUME Init PROVE Tidy
  OBVIOUS
<1>1. \A o \in Ops : \A f \in Files : file[f].op # OpId(o)
  <2>1. \A o \in Ops : o # 0
    BY OpsType
  <2>2. \A o \in Ops : OpId(0) # OpId(o) /\ <<>> # OpId(o)
    BY <2>1 DEF OpId
  <2>3. QED
    BY <2>2 DEF Init, Missing, Store!Absent
<1>2. Stamped
  BY <1>1 DEF Stamped
<1>3. LogsTidy
  BY <1>1, OpsType DEF Init, LogsTidy, LogTidy, LeftIn, NoRecord, Pending
<1>4. \A w \in Workers : /\ pc[w] \in {"new", "idle"} /\ queue[w] = <<>>
                         /\ (w \in Ops => log[w].rev = 0)
  BY DEF Init
<1>5. OneAtATime
  BY <1>4 DEF OneAtATime, Resting, Loners
<1>6. DOMAIN << >> = {}
  OBVIOUS
<1>7. LonersTidy
  BY <1>4, <1>6, OpsType DEF LonersTidy, Loners, WorkTidy, QueueTidy, FreshTidy, InApply
<1>8. QED
  BY <1>2, <1>3, <1>5, <1>7 DEF Init, Tidy

LEMMA TidyIsClean ==
    ASSUME OnlyReplaced, Typed, setting.serial => Tidy
    PROVE  RolledBackIsClean
<1> SUFFICES ASSUME setting.serial, NEW o \in Ops, Phase(o) = "conflicted",
                    log[o].record.rolledBack = "yes", NEW i \in Indices(o)
             PROVE  ~InPlace(o, i)
  BY DEF RolledBackIsClean
<1>1. o \in Units
  BY DEF Typed, LogTyped, Phase, NoRecord
<1>2. LeftIn(file, o) = {}
  BY <1>1 DEF Tidy, LogsTidy, LogTidy, Phase
<1>3. Plan[o][i].file \in Files /\ Plan[o][i].kind = "replace"
  BY PlanType DEF OnlyReplaced
<1>4. QED
  BY <1>2, <1>3 DEF InPlace, LeftIn

\* Where documents are only replaced and, in the serial settings, no lock is
\* waited for in vain, a record that says its operation was rolled back is
\* right: whatever was killed between two store calls and written beside it, no
\* document is left as the operation put it.
THEOREM RolledBackIsTrue ==
    ASSUME OnlyReplaced, SerialIsCalm
    PROVE  Spec => []RolledBackIsClean
<1> DEFINE Clean == setting.serial => Tidy
<1>1. Init => Typed /\ Versions /\ Clean
  BY TypedInit, VersionsInit, TidyInit
<1>2. Typed /\ Versions /\ Clean /\ [Next]_vars => Typed' /\ Versions' /\ Clean'
  <2> SUFFICES ASSUME Typed, Versions, Clean, [Next]_vars PROVE Typed' /\ Versions' /\ Clean'
    OBVIOUS
  <2>1. setting' = setting
    BY DEF Next, CommitStep, RecoverStep, Work, Crash, CrashInSave, CrashInApply, CrashInUndo,
           DieHolding, Die, ClearLock, vars
  <2>2. QED
    BY <2>1, TypedStep, VersionsStep, TidyStep
<1>3. Typed /\ Clean => RolledBackIsClean
  BY TidyIsClean
<1>4. QED
  BY <1>1, <1>2, <1>3, PTL DEF Spec

-----------------------------------------------------------------------------
(* A unit keeps its promise, where units and recoveries come one after      *)
(* another.  What a record has as applied is done, unless a rollback that   *)
(* was cut short has undone it; but then the participant that was refused   *)
(* is refused again, and the operation is never committed.                  *)

\* The next participant of o was written by somebody else: record r never gets
\* past it.
Beaten(o, r, docs) ==
    \E j \in Indices(o) \ r.applied :
       /\ \A k \in Indices(o) \ r.applied : j <= k
       /\ r.parts[j].expected < docs[Plan[o][j].file].rev
       /\ docs[Plan[o][j].file].op # OpId(o)

Earned(o, r, docs, done) == r.applied \subseteq done \/ Beaten(o, r, docs)

LogEarned(o) == Pending(log[o].record) => Earned(o, log[o].record, file, effects[o])

WorkEarned(w) ==
    /\ w \in Units /\ pc[w] \in {"staging", "create"} => rec[w].applied = {}
    /\ pc[w] \in InApply =>
          /\ rec[w].parts = log[work[w]].record.parts
          /\ rec[w].phase = "applying" => Earned(work[w], rec[w], file, effects[work[w]])
          /\ pc[w] \in {"undo", "undoing"} => Beaten(work[w], rec[w], file)
          /\ rec[w].phase = "committed" => effects[work[w]] = Indices(work[w])

LogsEarned == \A o \in Units : LogEarned(o)

Accounts == LogsEarned /\ \A w \in Loners : WorkEarned(w)

LEMMA BeatenSame ==
    ASSUME NEW o, NEW r, NEW s, NEW docs, s.applied = r.applied, s.parts = r.parts,
           Beaten(o, r, docs)
    PROVE  Beaten(o, s, docs)
BY DEF Beaten

\* Nobody but the operation itself helps it past a participant.
LEMMA BeatenKept ==
    ASSUME Typed, NEW f \in Files, NEW c, DoCall(f, c), c.kind = "replace",
           NEW o \in Ops, c.op # OpId(o), NEW r \in RecordOf(o), Beaten(o, r, file)
    PROVE  Beaten(o, r, file')
<1>1. PICK j \in Indices(o) \ r.applied :
         /\ \A k \in Indices(o) \ r.applied : j <= k
         /\ r.parts[j].expected < file[Plan[o][j].file].rev
         /\ file[Plan[o][j].file].op # OpId(o)
  BY DEF Beaten
<1> DEFINE g == Plan[o][j].file
<1>2. g \in Files /\ file[g].rev \in Nat /\ r.parts[j].expected \in Nat
  BY PlanType, RecordFields DEF Typed, FilesTyped, Store!Doc, Part
<1>3. file'[g] = file[g] \/ (file'[g].op = c.op /\ file'[g].rev = file[g].rev + 1)
  BY <1>2 DEF DoCall, Store!CallEffect, Typed, FilesTyped
<1>4. r.parts[j].expected < file'[g].rev /\ file'[g].op # OpId(o)
  BY <1>1, <1>2, <1>3
<1>5. QED
  BY <1>1, <1>4 DEF Beaten

\* What one process does while the others rest leaves their accounts as they are.
LEMMA AccountsKept ==
    ASSUME Accounts, NEW w \in Loners, Alone(w), OnlyMoves(w), LogsEarned', WorkEarned(w)'
    PROVE  Accounts'
<1>1. \A v \in Loners \ {w} : pc'[v] = pc[v] /\ pc[v] \in Resting
  BY DEF Alone, OnlyMoves, Loners
<1>2. \A v \in Loners \ {w} : WorkEarned(v)'
  BY <1>1 DEF WorkEarned, InApply, Resting
<1>3. QED
  BY <1>2 DEF Accounts

LEMMA LogsEarnedKept ==
    ASSUME LogsEarned, UNCHANGED file, UNCHANGED log, UNCHANGED effects
    PROVE  LogsEarned'
BY DEF LogsEarned, LogEarned

LEMMA QuietEarned ==
    ASSUME Accounts, NEW w \in Loners, Alone(w), OnlyMoves(w),
           UNCHANGED file, UNCHANGED log, UNCHANGED effects, WorkEarned(w)'
    PROVE  Accounts'
BY LogsEarnedKept, AccountsKept DEF Accounts

\* Outside of a commit there is nothing to account for.
LEMMA IdleEarned ==
    ASSUME NEW w \in Loners, pc'[w] \notin InApply \cup {"staging", "create"}
    PROVE  WorkEarned(w)'
BY DEF WorkEarned

LEMMA StageEarned ==
    ASSUME Typed, Tidy, Accounts, NEW w \in Loners, w \in Ops, Stage(w)
    PROVE  Accounts'
<1> DEFINE part == [expected |-> file[Plan[w][cursor[w]].file].rev,
                    before |-> file[Plan[w][cursor[w]].file].data,
                    existed |-> file[Plan[w][cursor[w]].file].exists]
<1>1. /\ w \in Workers /\ w \in Units /\ pc[w] = "staging" /\ OnlyMoves(w) /\ Alone(w)
      /\ UNCHANGED file /\ UNCHANGED log /\ UNCHANGED effects /\ rec[w] \in RecordOf(w)
  BY LonerType, StageTyped, AloneNow, MemoryOf DEF Stage, storeVars, Resting, MemoryTyped
<1>2. pc'[w] \in {"staging", "create"} /\ rec'[w] = [rec[w] EXCEPT !.parts[cursor[w]] = part]
  BY <1>1, LonerType DEF Stage, Goto, Typed, FlowTyped
<1>3. rec'[w].applied = {}
  BY <1>1, <1>2 DEF RecordOf, Accounts, WorkEarned
<1>4. WorkEarned(w)'
  BY <1>2, <1>3 DEF WorkEarned, InApply
<1>5. QED
  BY <1>1, <1>4, QuietEarned

LEMMA CreateEarned ==
    ASSUME Typed, Tidy, Accounts, NEW w \in Loners, w \in Ops, Create(w)
    PROVE  Accounts'
<1>1. /\ w \in Workers /\ w \in Units /\ pc[w] = "create" /\ OnlyMoves(w) /\ work[w] = w
      /\ rec[w] \in RecordOf(w) /\ UNCHANGED file /\ UNCHANGED effects /\ Alone(w)
  BY LonerType, CreateTyped, AloneNow, MemoryOf DEF Create, MemoryTyped, Resting
<1>2. /\ pc'[w] = "save" /\ work'[w] = w /\ rec'[w] = [rec[w] EXCEPT !.phase = "applying"]
      /\ log'[w].record = rec[w] /\ \A v \in Ops \ {w} : log'[v] = log[v]
  BY <1>1 DEF Create, WriteLog, Goto, Typed, FlowTyped, LogTyped
<1>3. rec[w].applied = {}
  BY <1>1 DEF Accounts, WorkEarned
<1>4. rec'[w].applied = {} /\ rec'[w].parts = rec[w].parts /\ rec'[w].phase = "applying"
  BY <1>1, <1>2, <1>3 DEF RecordOf
<1>5. WorkEarned(w)'
  BY <1>2, <1>4 DEF WorkEarned, InApply, Earned
<1>6. LogsEarned'
  <2> SUFFICES ASSUME NEW o \in Units PROVE LogEarned(o)'
    BY DEF LogsEarned
  <2>1. CASE o = w
    BY <1>2, <1>3, <2>1 DEF LogEarned, Earned
  <2>2. CASE o # w
    BY <1>1, <1>2, <2>2, OpsType DEF LogEarned, Accounts, LogsEarned
  <2>3. QED
    BY <2>1, <2>2
<1>7. QED
  BY <1>1, <1>5, <1>6, AccountsKept

LEMMA TakeEarned ==
    ASSUME Typed, Tidy, Accounts, NEW w \in Loners, Take(w)
    PROVE  Accounts'
<1> DEFINE o == queue[w][1].op
           r == queue[w][1].record
<1>1. /\ w \in Workers /\ pc[w] = "next" /\ pc'[w] = "save" /\ 1 \in DOMAIN queue[w]
      /\ work'[w] = o /\ rec'[w] = [r EXCEPT !.phase = "applying"]
      /\ OnlyMoves(w) /\ UNCHANGED file /\ UNCHANGED log /\ UNCHANGED effects
  BY LonerType, TakeTyped DEF Take, storeVars
<1>2. Alone(w)
  BY <1>1, AloneNow DEF Resting
<1>3. log[o].record = r /\ Pending(r)
  BY <1>1 DEF Tidy, LonersTidy, QueueTidy
<1>4. r \in RecordOf(o) /\ o \in Units
  <2>1. queue[w] \in Seq(Items) /\ r \in RecordOf(o)
    BY <1>1, MemoryOf DEF MemoryTyped
  <2>2. queue[w][1] \in Items
    BY <1>1, <2>1, ElementOfSeq, LenProperties
  <2>3. QED
    BY <2>1, <2>2 DEF Items
<1>5. rec'[w].applied = r.applied /\ rec'[w].parts = r.parts /\ rec'[w].phase = "applying"
  BY <1>1, <1>4 DEF RecordOf
<1>6. Earned(o, r, file, effects[o])
  BY <1>3, <1>4 DEF Accounts, LogsEarned, LogEarned
<1>7. Earned(o, rec'[w], file, effects[o])
  BY <1>5, <1>6, BeatenSame DEF Earned
<1>8. WorkEarned(w)'
  <2>1. rec'[w].parts = log'[work'[w]].record.parts
    BY <1>1, <1>3, <1>5
  <2>2. Earned(work'[w], rec'[w], file', effects'[work'[w]])
    BY <1>1, <1>7
  <2>3. QED
    BY <1>1, <1>5, <2>1, <2>2 DEF WorkEarned
<1>9. QED
  BY <1>1, <1>2, <1>8, QuietEarned

LEMMA SaveLoadEarned ==
    ASSUME Typed, Tidy, Accounts, NEW w \in Loners, SaveLoad(w)
    PROVE  Accounts'
<1>1. pc[w] = "save" /\ UNCHANGED file /\ UNCHANGED log /\ UNCHANGED effects
  BY DEF SaveLoad, storeVars
<1>2. w \in Workers /\ Alone(w) /\ OnlyMoves(w)
  BY <1>1, AtWork, SaveLoadTyped DEF InApply
<1>3. pc'[w] = "saving" /\ work'[w] = work[w] /\ rec'[w] = rec[w]
  BY <1>2 DEF SaveLoad, Goto, Typed, FlowTyped
<1>4. WorkEarned(w)'
  BY <1>1, <1>3 DEF WorkEarned, InApply, Accounts
<1>5. QED
  BY <1>1, <1>2, <1>4, QuietEarned

LEMMA SaveEarned ==
    ASSUME Typed, Tidy, Accounts, NEW w \in Loners, Save(w)
    PROVE  Accounts'
<1>1. /\ pc[w] = "saving" /\ UNCHANGED file /\ UNCHANGED effects
      /\ UNCHANGED log \/ WriteLog(work[w], rec[w])
  BY DEF Save
<1>2. /\ w \in Workers /\ Alone(w) /\ OnlyMoves(w) /\ work[w] \in Ops /\ work[w] \in Units
      /\ rec[w] \in RecordOf(work[w]) /\ WorkEarned(w) /\ rec[w].phase # "prepared"
  BY <1>1, AtWork, SaveTyped, MemoryOf DEF InApply, Accounts, ApplyTyped
<1>3. /\ \A o \in Ops : o # work[w] => log'[o] = log[o]
      /\ log'[work[w]] = log[work[w]] \/ log'[work[w]].record = rec[w]
  BY <1>1, <1>2 DEF WriteLog, Typed, LogTyped
<1>4. Pending(rec[w]) => Earned(work[w], rec[w], file, effects[work[w]])
  <2>1. Pending(rec[w]) => rec[w].phase = "applying"
    BY <1>2, RecordFields DEF Pending, Final, FinalPhases
  <2>2. QED
    BY <1>1, <1>2, <2>1 DEF WorkEarned, InApply
<1>5. LogsEarned'
  <2> SUFFICES ASSUME NEW o \in Units PROVE LogEarned(o)'
    BY DEF LogsEarned
  <2>1. CASE log'[o] = log[o]
    BY <1>1, <2>1 DEF LogEarned, Accounts, LogsEarned
  <2>2. CASE log'[o] # log[o]
    <3>1. o = work[w] /\ log'[o].record = rec[w]
      BY <1>3, <2>2, OpsType
    <3>2. QED
      BY <1>1, <1>4, <3>1 DEF LogEarned
  <2>3. QED
    BY <2>1, <2>2
<1>6. CASE pc'[w] = "apply" /\ UNCHANGED memoryVars
  <2>1. work'[w] = work[w] /\ rec'[w] = rec[w]
    BY <1>6 DEF memoryVars
  <2>2. rec[w].parts = log'[work[w]].record.parts
    BY <1>1, <1>2, <1>3 DEF WorkEarned, InApply
  <2>3. WorkEarned(w)'
    BY <1>1, <1>2, <1>6, <2>1, <2>2 DEF WorkEarned, InApply
  <2>4. QED
    BY <1>2, <1>5, <2>3, AccountsKept
<1>7. CASE pc'[w] \in {"raised", "idle", "done", "next"}
  BY <1>2, <1>5, <1>7, IdleEarned, AccountsKept DEF InApply
<1>8. (pc'[w] = "apply" /\ UNCHANGED memoryVars) \/ pc'[w] \in {"raised", "idle", "done", "next"}
  <2>1. Raise(w) => pc'[w] \in {"raised", "idle"}
    BY <1>2, RaiseTyped
  <2>2. Raise(w) \/ AfterSave(w)
    BY DEF Save
  <2>3. ASSUME NEW x, Goto(w, x) PROVE pc'[w] = x
    BY <1>2, <2>3 DEF Goto, Typed, FlowTyped
  <2>4. QED
    BY <2>1, <2>2, <2>3 DEF AfterSave
<1>9. QED
  BY <1>6, <1>7, <1>8

\* A participant that is carried out is done, and one that was beaten is not
\* carried out.
LEMMA ApplyEarned ==
    ASSUME OnlyReplaced, Typed, Versions, Tidy, Accounts, NEW w \in Loners, Apply(w)
    PROVE  Accounts'
<1> DEFINE o == work[w]
           i == NextMutation(w)
           f == Doc(w, i)
           c == MutationOf(w)
           a == rec[w].applied
<1>1. /\ pc[w] = "apply" /\ Remaining(w) # {} /\ UNCHANGED log /\ DoCall(f, c) /\ Succeeds(f, c)
  BY DEF Apply, Mutate
<1>2. /\ w \in Workers /\ Alone(w) /\ o \in Units /\ OnlyMoves(w) /\ rec[w] \in RecordOf(o)
      /\ WorkEarned(w) /\ rec[w].phase = "applying"
  BY <1>1, AtWork, ApplyStepTyped, ApplyContext DEF InApply, Accounts
<1>3. /\ o \in Ops /\ f \in Files /\ f = Plan[o][i].file /\ i \in Indices(o) \ a
      /\ a \in SUBSET Indices(o) /\ \A k \in Indices(o) \ a : i <= k
      /\ c.kind = "replace" /\ c.op = OpId(o) /\ c.data = o
      /\ log[o].record.applied = a
  BY <1>1, BeforeMutation
<1>4. /\ pc'[w] = "save" /\ work'[w] = o
      /\ rec'[w] = [rec[w] EXCEPT !.applied = @ \cup {i}]
  BY <1>2, ApplyStepTyped
<1>5. rec'[w].applied = a \cup {i} /\ rec'[w].phase = "applying" /\ rec'[w].parts = rec[w].parts
  BY <1>2, <1>4 DEF RecordOf
<1>6. /\ effects' = [effects EXCEPT ![o] = @ \cup {i}]
      /\ effects'[o] = effects[o] \cup {i} /\ \A p \in Ops \ {o} : effects'[p] = effects[p]
  BY <1>1, <1>3 DEF Apply, Mutate, Succeeds, Typed, FilesTyped
<1>7. ~Beaten(o, rec[w], file)
  <2> SUFFICES ASSUME Beaten(o, rec[w], file) PROVE FALSE
    OBVIOUS
  <2>1. PICK j \in Indices(o) \ a :
           /\ \A k \in Indices(o) \ a : j <= k
           /\ rec[w].parts[j].expected < file[Plan[o][j].file].rev
           /\ file[Plan[o][j].file].op # OpId(o)
    BY DEF Beaten
  <2>2. j = i
    <3>1. j <= i /\ i <= j /\ i \in Int /\ j \in Int
      BY <1>3, <2>1, PlanType
    <3>2. QED
      BY <3>1
  <2>3. rec[w].parts[i].expected < file[f].rev /\ file[f].op # OpId(o)
    BY <1>3, <2>1, <2>2
  <2>4. rec[w].parts[i].expected \in Nat /\ file[f].rev \in Nat
    BY <1>2, <1>3, RecordFields DEF Part, Typed, FilesTyped, Store!Doc
  <2>5. c.expected = rec[w].parts[i].expected
    BY <1>3, MutationCallType DEF MutationOf
  <2>6. ~Store!Replay(file[f], c) /\ Store!Stale(file[f], c)
    BY <1>3, <2>3, <2>4, <2>5 DEF Store!Replay, Store!Stale
  <2>7. Store!CallAnswer(file[f], c) = "STATE-CONFLICT-001"
    BY <1>3, <2>6 DEF Store!CallAnswer
  <2>8. QED
    BY <1>1, <2>7 DEF Succeeds
<1>8. a \subseteq effects[o]
  BY <1>1, <1>2, <1>7 DEF WorkEarned, InApply, Earned
<1>9. WorkEarned(w)'
  <2>1. rec'[w].parts = log'[work'[w]].record.parts
    BY <1>1, <1>2, <1>4, <1>5 DEF WorkEarned, InApply
  <2>2. Earned(work'[w], rec'[w], file', effects'[work'[w]])
    BY <1>4, <1>5, <1>6, <1>8 DEF Earned
  <2>3. QED
    BY <1>4, <1>5, <2>1, <2>2 DEF WorkEarned
<1>10. LogsEarned'
  <2> SUFFICES ASSUME NEW p \in Units, Pending(log[p].record)
               PROVE  Earned(p, log[p].record, file', effects'[p])
    BY <1>1 DEF LogsEarned, LogEarned
  <2>1. CASE p = o
    BY <1>3, <1>6, <1>8, <2>1 DEF Earned
  <2>2. CASE p # o
    <3>1. Earned(p, log[p].record, file, effects[p])
      BY DEF Accounts, LogsEarned, LogEarned
    <3>2. p \in Ops /\ c.op # OpId(p) /\ log[p].record \in RecordOf(p)
      BY <1>3, <2>2, IdsDiffer, OpsType, PendingType
    <3>3. Beaten(p, log[p].record, file) => Beaten(p, log[p].record, file')
      BY <1>1, <1>3, <3>2, BeatenKept
    <3>4. effects'[p] = effects[p]
      BY <1>6, <2>2, <3>2
    <3>5. QED
      BY <3>1, <3>3, <3>4 DEF Earned
  <2>3. QED
    BY <2>1, <2>2
<1>11. QED
  BY <1>2, <1>9, <1>10, AccountsKept

\* A participant is refused because somebody else wrote its document after it
\* was staged.
LEMMA ApplyRefusedEarned ==
    ASSUME OnlyReplaced, SerialIsCalm, setting.serial, Typed, Versions, Tidy, Accounts,
           NEW w \in Loners, ApplyRefused(w)
    PROVE  Accounts'
<1> DEFINE o == work[w]
           i == NextMutation(w)
           f == Doc(w, i)
           c == MutationOf(w)
           a == rec[w].applied
<1>1. /\ pc[w] = "apply" /\ Remaining(w) # {} /\ ~Succeeds(f, c)
  <2>1. \A x : ~LockTimeout(x)
    BY CalmTyped DEF Tidy
  <2>2. QED
    BY <2>1 DEF ApplyRefused
<1>2. PICK code \in Codes : BeginUndo(w, code)
  BY LonerType, ApplyRefusedTyped
<1>3. /\ w \in Workers /\ Alone(w) /\ o \in Units /\ rec[w] \in RecordOf(o) /\ WorkEarned(w)
      /\ rec[w].phase = "applying"
  BY <1>1, AtWork, ApplyContext DEF InApply, Accounts
<1>4. /\ OnlyMoves(w) /\ pc'[w] = "undo" /\ work'[w] = o
      /\ rec'[w] = [rec[w] EXCEPT !.error = <<i, code>>]
      /\ UNCHANGED file /\ UNCHANGED log /\ UNCHANGED effects
  BY <1>1, <1>2, <1>3, BeginUndoTyped DEF BeginUndo, storeVars
<1>5. rec'[w].applied = a /\ rec'[w].parts = rec[w].parts /\ rec'[w].phase = "applying"
  BY <1>3, <1>4 DEF RecordOf
<1>6. /\ o \in Ops /\ f \in Files /\ f = Plan[o][i].file /\ i \in Indices(o) \ a
      /\ \A k \in Indices(o) \ a : i <= k
      /\ c.kind = "replace" /\ c.op = OpId(o) /\ c.data = o
  BY <1>1, BeforeMutation
<1>7. file[f].op # OpId(o)
  <2> SUFFICES ASSUME file[f].op = OpId(o) PROVE FALSE
    OBVIOUS
  <2>1. file[f].data = o
    BY <1>6 DEF Tidy, Stamped
  <2>2. Store!CallAnswer(file[f], c) = "ok"
    BY <1>6, <2>1 DEF Store!CallAnswer, Store!Replay
  <2>3. QED
    BY <1>1, <2>2 DEF Succeeds
<1>8. rec[w].parts[i].expected < file[f].rev
  <2>1. rec[w].parts[i].expected \in Nat /\ file[f].rev \in Nat
    BY <1>3, <1>6, RecordFields DEF Part, Typed, FilesTyped, Store!Doc
  <2>2. rec[w].parts[i].expected <= file[f].rev
    BY <1>1, <1>3, <1>6 DEF Versions, WorkersSound, MemorySound, InApply, Sound, Fits
  <2>3. c.expected = rec[w].parts[i].expected
    BY <1>6, MutationCallType DEF MutationOf
  <2>4. ~Store!Replay(file[f], c)
    BY <1>6, <1>7 DEF Store!Replay
  <2>5. Store!Stale(file[f], c)
    BY <1>1, <1>6, <2>4 DEF Store!CallAnswer, Succeeds
  <2>6. rec[w].parts[i].expected # file[f].rev
    BY <2>3, <2>5 DEF Store!Stale
  <2>7. QED
    BY <2>1, <2>2, <2>6
<1>9. Beaten(o, rec[w], file)
  BY <1>6, <1>7, <1>8 DEF Beaten
<1>10. Beaten(o, rec'[w], file)
  BY <1>5, <1>9, BeatenSame
<1>11. WorkEarned(w)'
  <2>1. rec'[w].parts = log'[work'[w]].record.parts
    BY <1>1, <1>3, <1>4, <1>5 DEF WorkEarned, InApply
  <2>2. Beaten(work'[w], rec'[w], file')
    BY <1>4, <1>10
  <2>3. QED
    BY <1>4, <1>5, <2>1, <2>2 DEF WorkEarned, Earned
<1>12. QED
  BY <1>3, <1>4, <1>11, QuietEarned

LEMMA FinishEarned ==
    ASSUME Typed, Tidy, Accounts, NEW w \in Loners, Finish(w)
    PROVE  Accounts'
<1> DEFINE o == work[w]
<1>1. pc[w] = "apply" /\ Remaining(w) = {} /\ UNCHANGED file /\ UNCHANGED log /\ UNCHANGED effects
  BY DEF Finish, storeVars
<1>2. /\ w \in Workers /\ Alone(w) /\ rec[w] \in RecordOf(o) /\ o \in Ops /\ WorkEarned(w)
      /\ rec[w].phase = "applying"
  BY <1>1, AtWork, ApplyContext DEF InApply, Accounts
<1>3. /\ OnlyMoves(w) /\ pc'[w] = "save" /\ work'[w] = o
      /\ rec'[w] = [rec[w] EXCEPT !.phase = "committed", !.error = NoError]
  BY <1>2, FinishTyped
<1>4. rec'[w].phase = "committed" /\ rec'[w].parts = rec[w].parts
  BY <1>2, <1>3 DEF RecordOf
<1>5. Indices(o) \ rec[w].applied = {}
  BY <1>1 DEF Remaining
<1>6. rec[w].applied \subseteq effects[o]
  BY <1>1, <1>2, <1>5 DEF WorkEarned, InApply, Earned, Beaten
<1>7. effects[o] = Indices(o)
  BY <1>2, <1>5, <1>6 DEF Typed, FilesTyped
<1>8. WorkEarned(w)'
  <2>1. rec'[w].parts = log'[work'[w]].record.parts
    BY <1>1, <1>2, <1>3, <1>4 DEF WorkEarned, InApply
  <2>2. effects'[work'[w]] = Indices(work'[w])
    BY <1>1, <1>3, <1>7
  <2>3. QED
    BY <1>3, <1>4, <2>1, <2>2 DEF WorkEarned
<1>9. QED
  BY <1>1, <1>2, <1>3, <1>8, QuietEarned

LEMMA UndoLookEarned ==
    ASSUME Typed, Tidy, Accounts, NEW w \in Loners, UndoLook(w)
    PROVE  Accounts'
<1>1. pc[w] = "undo" /\ todo[w] # {} /\ UNCHANGED file /\ UNCHANGED log /\ UNCHANGED effects
  BY DEF UndoLook, storeVars
<1>2. w \in Workers /\ Alone(w) /\ WorkEarned(w) /\ rec[w].phase = "applying"
  BY <1>1, AtWork, ApplyContext DEF InApply, Accounts
<1>3. /\ OnlyMoves(w) /\ work'[w] = work[w] /\ rec'[w] = rec[w] /\ pc'[w] \in {"undo", "undoing"}
  BY <1>1, <1>2, UndoLookTyped DEF UndoLook, Goto, Typed, FlowTyped
<1>4. WorkEarned(w)'
  BY <1>1, <1>2, <1>3 DEF WorkEarned, InApply
<1>5. QED
  BY <1>1, <1>2, <1>3, <1>4, QuietEarned

\* What a call by another operation leaves of the accounts of o.
LEMMA LogEarnedBeside ==
    ASSUME Typed, Accounts, NEW f \in Files, NEW c, DoCall(f, c), c.kind = "replace",
           NEW o \in Units, c.op # OpId(o), UNCHANGED log, effects'[o] = effects[o]
    PROVE  LogEarned(o)'
<1> SUFFICES ASSUME Pending(log[o].record)
             PROVE  Earned(o, log[o].record, file', effects[o])
  BY DEF LogEarned
<1>1. Earned(o, log[o].record, file, effects[o])
  BY DEF Accounts, LogsEarned, LogEarned
<1>2. o \in Ops /\ log[o].record \in RecordOf(o)
  BY PendingType, OpsType
<1>3. Beaten(o, log[o].record, file) => Beaten(o, log[o].record, file')
  BY <1>2, BeatenKept
<1>4. QED
  BY <1>1, <1>3 DEF Earned

\* What is undone is not committed any more.
LEMMA UndoEarned ==
    ASSUME OnlyReplaced, Typed, Versions, Tidy, Accounts, NEW w \in Loners, Undo(w)
    PROVE  Accounts'
<1> DEFINE o == work[w]
           i == Max(todo[w])
           f == Doc(w, i)
           c == UndoOf(w)
<1>1. /\ pc[w] = "undoing" /\ UNCHANGED log /\ DoCall(f, c) /\ Undone(w, Succeeds(f, c))
  BY DEF Undo, Undone, Compensate
<1>2. /\ w \in Workers /\ Alone(w) /\ o \in Ops /\ o \in Units /\ WorkEarned(w)
      /\ rec[w] \in RecordOf(o) /\ rec[w].phase = "applying" /\ WorkTidy(w)
  BY <1>1, AtWork, ApplyContext DEF InApply, Accounts
<1>3. i \in Indices(o) /\ f \in Files
  BY <1>1, <1>2, UndoContext
<1>4. c.kind = "replace" /\ c.op = RollbackId(o, i)
  <2>1. rec[w].parts[i].existed
    BY <1>1, <1>2, <1>3 DEF Versions, WorkersSound, MemorySound, InApply, Sound, Fits
  <2>2. QED
    BY <1>2, <1>3, <2>1, UndoCallType DEF UndoOf
<1>5. \A p \in Ops : c.op # OpId(p)
  BY <1>2, <1>3, <1>4, IdsDiffer
<1>6. OnlyMoves(w) /\ work'[w] = o /\ rec'[w] = rec[w] /\ pc'[w] = "undo"
  <2>1. Succeeds(f, c) \in BOOLEAN
    BY DEF Succeeds
  <2>2. QED
    BY <1>1, <1>2, <2>1, UndoneTyped
<1>7. \A p \in Ops \ {o} : effects'[p] = effects[p]
  BY <1>2 DEF Undo, Compensate, Typed, FilesTyped
<1>8. Beaten(o, rec[w], file) /\ rec[w].parts = log[o].record.parts
      /\ rec[w].applied = log[o].record.applied
  BY <1>1, <1>2 DEF WorkEarned, WorkTidy, InApply
<1>9. Beaten(o, rec[w], file')
  BY <1>1, <1>2, <1>3, <1>4, <1>5, <1>8, BeatenKept
<1>10. Beaten(o, log[o].record, file')
  BY <1>8, <1>9, BeatenSame
<1>11. WorkEarned(w)'
  <2>1. rec'[w].parts = log'[work'[w]].record.parts
    BY <1>1, <1>6, <1>8
  <2>2. Beaten(work'[w], rec'[w], file')
    BY <1>6, <1>9
  <2>3. rec'[w].phase = "applying"
    BY <1>2, <1>6
  <2>4. QED
    BY <1>6, <2>1, <2>2, <2>3 DEF WorkEarned, Earned
<1>12. LogsEarned'
  <2> SUFFICES ASSUME NEW p \in Units PROVE LogEarned(p)'
    BY DEF LogsEarned
  <2>1. CASE p = o
    BY <1>1, <1>10, <2>1 DEF LogEarned, Earned
  <2>2. CASE p # o
    BY <1>1, <1>3, <1>4, <1>5, <1>7, <2>2, OpsType, LogEarnedBeside
  <2>3. QED
    BY <2>1, <2>2
<1>13. QED
  BY <1>2, <1>6, <1>11, <1>12, AccountsKept

LEMMA UndoFinishEarned ==
    ASSUME Typed, Tidy, Accounts, NEW w \in Loners, UndoFinish(w)
    PROVE  Accounts'
<1>1. pc[w] = "undo" /\ UNCHANGED file /\ UNCHANGED log /\ UNCHANGED effects
  BY DEF UndoFinish, storeVars
<1>2. /\ w \in Workers /\ Alone(w) /\ rec[w] \in RecordOf(work[w]) /\ work[w] \in Ops
      /\ WorkEarned(w)
  BY <1>1, AtWork DEF InApply, Accounts
<1>3. /\ OnlyMoves(w) /\ pc'[w] = "save" /\ work'[w] = work[w]
      /\ rec'[w] = [rec[w] EXCEPT !.phase = "conflicted",
                                  !.rolledBack = IF failed[w] THEN "no" ELSE "yes"]
  BY <1>2, UndoFinishTyped
<1>4. rec'[w].phase = "conflicted" /\ rec'[w].parts = rec[w].parts
  BY <1>2, <1>3 DEF RecordOf
<1>5. WorkEarned(w)'
  BY <1>1, <1>2, <1>3, <1>4 DEF WorkEarned, InApply
<1>6. QED
  BY <1>1, <1>2, <1>3, <1>5, QuietEarned

LEMMA RecoverStepEarned ==
    ASSUME Typed, Tidy, Accounts, setting.serial, NEW w \in Loners, RecoverStep(w)
    PROVE  Accounts'
<1>1. w \in Workers /\ UNCHANGED file /\ UNCHANGED log /\ UNCHANGED effects
  BY LonerType DEF RecoverStep, Recover, Scan, Take, Recovered, storeVars
<1>2. CASE Take(w)
  BY <1>2, TakeEarned
<1>3. CASE Recover(w)
  <2>1. OnlyMoves(w) /\ pc'[w] = "scan"
    BY <1>1, <1>3, RecoverTyped DEF Recover, Goto, Typed, FlowTyped
  <2>2. Alone(w)
    BY <1>3 DEF Recover, MayStart, Alone, Loners
  <2>3. QED
    BY <1>1, <2>1, <2>2, IdleEarned, QuietEarned DEF InApply
<1>4. CASE Scan(w)
  <2>1. OnlyMoves(w) /\ pc[w] = "scan" /\ pc'[w] \in {"scan", "next"}
    BY <1>1, <1>4, ScanTyped
  <2>2. Alone(w)
    BY <2>1, AloneNow DEF Resting
  <2>3. QED
    BY <1>1, <2>1, <2>2, IdleEarned, QuietEarned DEF InApply
<1>5. CASE Recovered(w)
  <2>1. /\ OnlyMoves(w) /\ pc[w] = "next"
        /\ \/ pc'[w] = "staging" /\ rec'[w] = NewRecord(w)
           \/ pc'[w] = "idle"
    BY <1>1, <1>5, RecoveredTyped
  <2>2. Alone(w)
    BY <2>1, AloneNow DEF Resting
  <2>3. NewRecord(w).applied = {}
    BY DEF NewRecord
  <2>4. WorkEarned(w)'
    BY <2>1, <2>3 DEF WorkEarned, InApply
  <2>5. QED
    BY <1>1, <2>1, <2>2, <2>4, QuietEarned
<1>6. QED
  BY <1>2, <1>3, <1>4, <1>5 DEF RecoverStep

\* A single write beside them may beat an operation, and never helps one.
LEMMA DirectEarned ==
    ASSUME OnlyReplaced, Typed, Accounts, NEW d \in Direct,
           Stage(d) \/ StartDirect(d) \/ WriteDirect(d) \/ DirectTimeout(d) \/ Crash(d)
    PROVE  Accounts'
<1>1. d \in Ops /\ d \in Workers
  BY OpsType
<1>2. UNCHANGED log /\ UNCHANGED effects
  BY DEF Stage, StartDirect, WriteDirect, DirectTimeout, Crash, storeVars
<1>3. OnlyMoves(d)
  BY <1>1, StageTyped, StartDirectTyped, DirectTyped, DieTyped DEF Crash
<1>4. \A v \in Loners : pc'[v] = pc[v] /\ work'[v] = work[v] /\ rec'[v] = rec[v]
  BY <1>3 DEF OnlyMoves, Loners
<1>5. CASE WriteDirect(d)
  <2> DEFINE f == Plan[d][1].file
             c == MutationCall(d, rec[d], 1)
  <2>1. 1 \in Indices(d) /\ f \in Files
    BY <1>1, PlanType
  <2>2. c.kind = "replace" /\ c.op = OpId(d) /\ DoCall(f, c)
    BY <1>1, <1>5, <2>1, MutationCallType DEF OnlyReplaced, WriteDirect
  <2>3. \A o \in Units : o \in Ops /\ c.op # OpId(o)
    BY <1>1, <2>2, IdsDiffer, OpsType DEF Units
  <2>4. LogsEarned'
    BY <1>2, <2>1, <2>2, <2>3, LogEarnedBeside DEF LogsEarned
  <2>5. ASSUME NEW v \in Loners PROVE WorkEarned(v)'
    <3>1. WorkEarned(v)
      BY DEF Accounts
    <3>2. CASE pc[v] \in InApply
      <4>1. work[v] \in Units /\ rec[v] \in RecordOf(work[v])
        BY <3>2, LonerType, MemoryOf DEF ApplyTyped
      <4>2. Beaten(work[v], rec[v], file) => Beaten(work[v], rec[v], file')
        BY <2>1, <2>2, <2>3, <4>1, BeatenKept
      <4>3. QED
        BY <1>2, <1>4, <3>1, <3>2, <4>2 DEF WorkEarned, Earned, InApply
    <3>3. CASE pc[v] \notin InApply
      BY <1>4, <3>1, <3>3 DEF WorkEarned
    <3>4. QED
      BY <3>2, <3>3
  <2>6. QED
    BY <2>4, <2>5 DEF Accounts
<1>6. CASE ~WriteDirect(d)
  <2>1. UNCHANGED file
    BY <1>6 DEF Stage, StartDirect, DirectTimeout, Crash, storeVars
  <2>2. \A v \in Loners : WorkEarned(v)'
    BY <1>2, <1>4, <2>1 DEF WorkEarned, Accounts
  <2>3. QED
    BY <1>2, <2>1, <2>2, LogsEarnedKept DEF Accounts
<1>7. QED
  BY <1>5, <1>6

LEMMA CrashEarned ==
    ASSUME Typed, Tidy, Accounts, NEW w \in Loners, Crash(w)
    PROVE  Accounts'
<1>1. /\ pc[w] \notin Resting /\ w \in Workers /\ UNCHANGED file /\ UNCHANGED log
      /\ UNCHANGED effects
  BY LonerType DEF Crash, storeVars
<1>2. OnlyMoves(w) /\ pc'[w] \in {"dead", "idle"} /\ Alone(w)
  BY <1>1, DieTyped, AloneNow DEF Crash
<1>3. QED
  BY <1>1, <1>2, IdleEarned, QuietEarned DEF InApply

LEMMA AccountsInit == Init => Accounts
<1> SUFFICES ASSUME Init PROVE Accounts
  OBVIOUS
<1>1. \A o \in Units : ~Pending(log[o].record)
  BY OpsType DEF Init, NoRecord, Pending
<1>2. \A w \in Loners : pc[w] \in {"new", "idle"}
  BY LonerType DEF Init
<1>3. QED
  BY <1>1, <1>2 DEF Accounts, LogsEarned, LogEarned, WorkEarned, InApply

LEMMA AccountsStep ==
    ASSUME OnlyReplaced, SerialIsCalm, setting.serial, Typed, Versions, Tidy, Accounts,
           [Next]_vars
    PROVE  Accounts'
<1>1. CASE UNCHANGED vars
  <2>1. UNCHANGED <<file, log, pc, work, rec, effects>>
    BY <1>1 DEF vars, storeVars, memoryVars
  <2>2. \A w \in Loners : WorkEarned(w)'
    BY <2>1 DEF Accounts, WorkEarned
  <2>3. QED
    BY <2>1, <2>2, LogsEarnedKept DEF Accounts
<1>2. ASSUME NEW d \in Direct,
             Stage(d) \/ StartDirect(d) \/ WriteDirect(d) \/ DirectTimeout(d) \/ Crash(d)
      PROVE  Accounts'
  BY <1>2, DirectEarned
<1>3. ASSUME NEW w \in Loners, SerialStep(w) PROVE Accounts'
  BY <1>3, StageEarned, CreateEarned, RecoverStepEarned, SaveLoadEarned, SaveEarned,
     ApplyEarned, ApplyRefusedEarned, FinishEarned, UndoLookEarned, UndoEarned,
     UndoFinishEarned, CrashEarned DEF SerialStep
<1>4. QED
  BY <1>1, <1>2, <1>3, SerialSteps

\* How OperationPromise sees an operation.
Outcome(o) == IF Phase(o) \in {"prepared", "applying"} THEN "open" ELSE Phase(o)

LEMMA PromiseState ==
    ASSUME setting.serial, setting.serial'
    PROVE  /\ Promise!promiseVars = <<[o \in Ops |-> Outcome(o)], [o \in Ops |-> effects[o]]>>
           /\ Promise!promiseVars' = <<[o \in Ops |-> Outcome(o)'], [o \in Ops |-> effects'[o]]>>
BY DEF Promise!promiseVars, Outcome

LEMMA PromiseSame ==
    ASSUME setting.serial, setting.serial', UNCHANGED log, UNCHANGED effects
    PROVE  UNCHANGED Promise!promiseVars
<1>1. \A o \in Ops : Outcome(o)' = Outcome(o) /\ effects'[o] = effects[o]
  BY DEF Outcome, Phase
<1>2. QED
  BY <1>1, PromiseState

\* An operation is decided, and nothing is done or undone with it.
LEMMA Decided ==
    ASSUME setting.serial, setting.serial', NEW o \in Ops, NEW from, NEW to,
           Outcome(o) = from, Outcome(o)' = to, \A p \in Ops \ {o} : log'[p] = log[p],
           UNCHANGED effects
    PROVE  Promise!Decide(o, from, to)
<1>1. \A p \in Ops \ {o} : Outcome(p)' = Outcome(p)
  BY DEF Outcome, Phase
<1>2. \A p \in Ops : effects'[p] = effects[p]
  OBVIOUS
<1>3. QED
  BY <1>1, <1>2 DEF Promise!Decide, Outcome

\* A participant of an operation that is open is done or undone.
LEMMA Changed ==
    ASSUME setting.serial, setting.serial', Typed, NEW o \in Ops, NEW i \in Indices(o),
           Outcome(o) = "open", UNCHANGED log,
           \/ effects' = [effects EXCEPT ![o] = @ \cup {i}]
           \/ effects' = [effects EXCEPT ![o] = @ \ {i}]
    PROVE  Promise!PromiseNext
<1>1. \A p \in Ops : Outcome(p)' = Outcome(p)
  BY DEF Outcome, Phase
<1>2. DOMAIN effects = Ops
  BY DEF Typed, FilesTyped
<1>3. CASE effects' = [effects EXCEPT ![o] = @ \cup {i}]
  <2>1. \A p \in Ops : effects'[p] = IF p = o THEN effects[p] \cup {i} ELSE effects[p]
    BY <1>2, <1>3
  <2>2. Promise!Carry(o, i)
    BY <1>1, <2>1 DEF Promise!Carry, Outcome
  <2>3. QED
    BY <2>2 DEF Promise!PromiseNext
<1>4. CASE effects' = [effects EXCEPT ![o] = @ \ {i}]
  <2>1. \A p \in Ops : effects'[p] = IF p = o THEN effects[p] \ {i} ELSE effects[p]
    BY <1>2, <1>4
  <2>2. Promise!TakeBack(o, i)
    BY <1>1, <2>1 DEF Promise!TakeBack, Outcome
  <2>3. QED
    BY <2>2 DEF Promise!PromiseNext
<1>5. QED
  BY <1>3, <1>4

LEMMA OpenAtWork ==
    ASSUME Typed, Tidy, NEW w \in Loners, pc[w] \in InApply
    PROVE  Outcome(work[w]) = "open"
<1>1. Pending(log[work[w]].record) /\ work[w] \in Ops
  BY AtWork
<1>2. log[work[w]].record \in RecordOf(work[w])
  BY <1>1, PendingType
<1>3. QED
  BY <1>1, <1>2, RecordFields DEF Outcome, Phase, Pending, Final, FinalPhases

LEMMA CreateOpens ==
    ASSUME setting.serial, setting.serial', Typed, Tidy, NEW w \in Loners, w \in Ops, Create(w)
    PROVE  Promise!PromiseNext
<1>1. /\ w \in Workers /\ w \in Units /\ pc[w] = "create" /\ work[w] = w
      /\ rec[w].phase = "prepared" /\ UNCHANGED effects
  BY LonerType, MemoryOf DEF Create, MemoryTyped
<1>2. log'[w].record = rec[w] /\ \A v \in Ops \ {w} : log'[v] = log[v]
  BY <1>1 DEF Create, WriteLog, Typed, LogTyped
<1>3. log[w].record = NoRecord
  BY <1>1 DEF Tidy, LonersTidy, FreshTidy, Typed, LogTyped
<1>4. Outcome(w) = "none" /\ Outcome(w)' = "open"
  BY <1>1, <1>2, <1>3 DEF Outcome, Phase, NoRecord
<1>5. Promise!Open(w)
  BY <1>1, <1>2, <1>4, Decided DEF Promise!Open
<1>6. QED
  BY <1>5 DEF Promise!PromiseNext

LEMMA SaveDecides ==
    ASSUME setting.serial, setting.serial', Typed, Tidy, Accounts, NEW w \in Loners, Save(w)
    PROVE  Promise!PromiseNext \/ UNCHANGED Promise!promiseVars
<1> SUFFICES ASSUME NEW o, o = work[w]
             PROVE  Promise!PromiseNext \/ UNCHANGED Promise!promiseVars
  OBVIOUS
<1>1. /\ pc[w] = "saving" /\ UNCHANGED effects
      /\ UNCHANGED log \/ WriteLog(o, rec[w])
  BY DEF Save
<1>2. /\ w \in Workers /\ o \in Ops /\ rec[w] \in RecordOf(o) /\ rec[w].phase # "prepared"
      /\ WorkEarned(w) /\ Outcome(o) = "open"
  BY <1>1, AtWork, OpenAtWork, MemoryOf DEF InApply, ApplyTyped, Accounts
<1>3. CASE UNCHANGED log
  BY <1>1, <1>3, PromiseSame
<1>4. CASE WriteLog(o, rec[w])
  <2>1. log'[o].record = rec[w] /\ \A v \in Ops \ {o} : log'[v] = log[v]
    BY <1>2, <1>4 DEF WriteLog, Typed, LogTyped
  <2>2. CASE rec[w].phase = "applying"
    <3>1. \A v \in Ops : Outcome(v)' = Outcome(v)
      BY <1>2, <2>1, <2>2 DEF Outcome, Phase
    <3>2. \A v \in Ops : effects'[v] = effects[v]
      BY <1>1
    <3>3. QED
      BY <3>1, <3>2, PromiseState
  <2>3. CASE rec[w].phase = "committed"
    <3>1. Outcome(o)' = "committed"
      BY <2>1, <2>3 DEF Outcome, Phase
    <3>2. Promise!Decide(o, "open", "committed")
      BY <1>1, <1>2, <2>1, <3>1, Decided
    <3>3. effects[o] = Indices(o)
      BY <1>1, <1>2, <2>3 DEF WorkEarned, InApply
    <3>4. Promise!Commit(o)
      BY <1>2, <3>2, <3>3 DEF Promise!Commit
    <3>5. QED
      BY <1>2, <3>4 DEF Promise!PromiseNext
  <2>4. CASE rec[w].phase = "conflicted"
    <3>1. Outcome(o)' = "conflicted"
      BY <2>1, <2>4 DEF Outcome, Phase
    <3>2. Promise!Conflict(o)
      BY <1>1, <1>2, <2>1, <3>1, Decided DEF Promise!Conflict
    <3>3. QED
      BY <1>2, <3>2 DEF Promise!PromiseNext
  <2>5. QED
    BY <1>2, <2>2, <2>3, <2>4, RecordFields
<1>5. QED
  BY <1>1, <1>3, <1>4

LEMMA ApplyCarries ==
    ASSUME setting.serial, setting.serial', Typed, Tidy, NEW w \in Loners, Apply(w)
    PROVE  Promise!PromiseNext
<1>1. pc[w] = "apply" /\ Remaining(w) # {} /\ UNCHANGED log
  BY DEF Apply
<1>2. w \in Workers /\ work[w] \in Ops /\ Outcome(work[w]) = "open"
  BY <1>1, AtWork, OpenAtWork DEF InApply
<1>3. NextMutation(w) \in Indices(work[w])
  BY <1>1, <1>2, ApplyContext
<1>4. effects' = [effects EXCEPT ![work[w]] = @ \cup {NextMutation(w)}]
  BY DEF Apply, Mutate, Succeeds
<1>5. QED
  BY <1>1, <1>2, <1>3, <1>4, Changed

LEMMA UndoTakesBack ==
    ASSUME setting.serial, setting.serial', Typed, Tidy, NEW w \in Loners, Undo(w)
    PROVE  Promise!PromiseNext \/ UNCHANGED Promise!promiseVars
<1>1. pc[w] = "undoing" /\ UNCHANGED log
  BY DEF Undo, Undone
<1>2. w \in Workers /\ work[w] \in Ops /\ Outcome(work[w]) = "open"
  BY <1>1, AtWork, OpenAtWork DEF InApply
<1>3. Max(todo[w]) \in Indices(work[w])
  BY <1>1, <1>2, UndoContext
<1>4. effects' = effects \/ effects' = [effects EXCEPT ![work[w]] = @ \ {Max(todo[w])}]
  BY DEF Undo, Compensate
<1>5. QED
  BY <1>1, <1>2, <1>3, <1>4, Changed, PromiseSame

LEMMA PromiseStep ==
    ASSUME SerialIsCalm, setting.serial, setting.serial', Typed, Tidy, Accounts, [Next]_vars
    PROVE  Promise!PromiseNext \/ UNCHANGED Promise!promiseVars
<1>1. CASE UNCHANGED vars
  BY <1>1, PromiseSame DEF vars, storeVars
<1>2. ASSUME NEW d \in Direct,
             Stage(d) \/ StartDirect(d) \/ WriteDirect(d) \/ DirectTimeout(d) \/ Crash(d)
      PROVE  UNCHANGED Promise!promiseVars
  <2>1. UNCHANGED log /\ UNCHANGED effects
    BY <1>2 DEF Stage, StartDirect, WriteDirect, DirectTimeout, Crash, storeVars
  <2>2. QED
    BY <2>1, PromiseSame
<1>3. ASSUME NEW w \in Loners, SerialStep(w)
      PROVE  Promise!PromiseNext \/ UNCHANGED Promise!promiseVars
  <2>1. CASE w \in Ops /\ Create(w)
    BY <2>1, CreateOpens
  <2>2. CASE Save(w)
    BY <2>2, SaveDecides
  <2>3. CASE Apply(w)
    BY <2>3, ApplyCarries
  <2>4. CASE Undo(w)
    BY <2>4, UndoTakesBack
  <2>5. CASE \/ Stage(w) \/ RecoverStep(w) \/ SaveLoad(w) \/ ApplyRefused(w) \/ Finish(w)
             \/ UndoLook(w) \/ UndoFinish(w) \/ Crash(w)
    <3>1. UNCHANGED log /\ UNCHANGED effects
      BY <2>5 DEF Stage, RecoverStep, Recover, Scan, Take, Recovered, SaveLoad, ApplyRefused,
            BeginUndo, Finish, UndoLook, UndoFinish, Crash, storeVars
    <3>2. QED
      BY <3>1, PromiseSame
  <2>6. QED
    BY <1>3, <2>1, <2>2, <2>3, <2>4, <2>5 DEF SerialStep
<1>4. QED
  BY <1>1, <1>2, <1>3, SerialSteps

LEMMA PromiseBegins == Init => Promise!PromiseInit
BY DEF Init, Promise!PromiseInit, Phase, NoRecord

\* Where units and recoveries come one after another, documents are only
\* replaced and no lock is waited for in vain, a unit implements
\* OperationPromise: it is committed only when every participant is done, and
\* after it is decided nothing is done or undone, however often its owner and
\* its recoveries are killed between two store calls and whatever single writes
\* are made beside them.
THEOREM UnitsKeepTheirPromise ==
    ASSUME OnlyReplaced, SerialIsCalm
    PROVE  Spec => KeepsPromise
<1> DEFINE Clean == setting.serial => Tidy /\ Accounts
<1>1. Init => Typed /\ Versions /\ Clean
  BY TypedInit, VersionsInit, TidyInit, AccountsInit
<1>2. Typed /\ Versions /\ Clean /\ [Next]_vars =>
          /\ Typed' /\ Versions' /\ Clean'
          /\ [Promise!PromiseNext]_Promise!promiseVars
  <2> SUFFICES ASSUME Typed, Versions, Clean, [Next]_vars
               PROVE  /\ Typed' /\ Versions' /\ Clean'
                      /\ Promise!PromiseNext \/ UNCHANGED Promise!promiseVars
    OBVIOUS
  <2>1. setting' = setting
    BY DEF Next, CommitStep, RecoverStep, Work, Crash, CrashInSave, CrashInApply, CrashInUndo,
           DieHolding, Die, ClearLock, vars
  <2>2. CASE setting.serial
    BY <2>1, <2>2, TypedStep, VersionsStep, TidyStep, AccountsStep, PromiseStep
  <2>3. CASE ~setting.serial
    <3>1. UNCHANGED Promise!promiseVars
      BY <2>1, <2>3 DEF Promise!promiseVars
    <3>2. QED
      BY <2>1, <2>3, <3>1, TypedStep, VersionsStep
  <2>4. QED
    BY <2>2, <2>3
<1>3. Init => Promise!PromiseInit
  BY PromiseBegins
<1>4. QED
  BY <1>1, <1>2, <1>3, PTL DEF Spec, KeepsPromise, Promise!PromiseSpec

=============================================================================
