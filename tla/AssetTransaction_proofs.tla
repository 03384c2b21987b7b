----------------------- MODULE AssetTransaction_proofs -----------------------
(***************************************************************************)
(* What holds of the asset transaction for any template, any target, any   *)
(* number of errors, kills and writes of the user; and, at the end, what   *)
(* holds of the plans it commits, for any policy as host-assets.json has   *)
(* one, any project, any number of releases, commands and edits, and of    *)
(* the machine-level plugins the same package installs.                    *)
(***************************************************************************)
EXTENDS AssetTransaction, ProjectAssets, HostPlugin, SequenceTheorems, TLAPS

LEMMA OrderType ==
    /\ Len(Order) \in Nat /\ Len(Order) >= 1
    /\ DOMAIN Order = 1..Len(Order)
    /\ \A k \in 1..Len(Order) : Order[k] \in Paths
    /\ \A p \in Paths : \E k \in 1..Len(Order) : p = Order[k]
    /\ \A j, k \in 1..Len(Order) : Order[j] = Order[k] => j = k
<1> DEFINE A == {Assets[k] : k \in DOMAIN Assets}
           B == {Obsolete[k] : k \in DOMAIN Obsolete}
           S == A \cup B \cup {Version}
<1>1. Assets \in Seq(S) /\ Obsolete \in Seq(S)
  BY PathAssumption
<1>2. Assets \o Obsolete \in Seq(S)
  BY <1>1
<1>3. Order \in Seq(S) /\ Len(Order) = Len(Assets \o Obsolete) + 1
  BY <1>2, AppendProperties DEF Order
<1>4. DOMAIN Order = 1..Len(Order) /\ Len(Assets \o Obsolete) \in Nat
  BY <1>2, <1>3, LenProperties
<1>5. \A k \in DOMAIN Order : Order[k] \in Paths
  BY DEF Paths
<1>6. \A p \in Paths : \E k \in DOMAIN Order : p = Order[k]
  BY DEF Paths
<1>7. \A j, k \in DOMAIN Order : Order[j] = Order[k] => j = k
  BY PathAssumption
<1>8. QED
  BY <1>3, <1>4, <1>5, <1>6, <1>7

-----------------------------------------------------------------------------
(* Types.                                                                   *)

Stages == {"save", "stage", "staged", "commit", "move"}

\* A run is inside its own transaction, up to its end or its rollback.
Live == pc \in Stages

\* What a run that writes its metadata goes on with.
Ahead == IF pc = "save" THEN after ELSE pc

\* What the metadata is when a run works on a transaction, and where its
\* cursor is.
Typed ==
    /\ TypeOK
    /\ setting \in Settings
    /\ faults \in Nat /\ crashes \in Nat /\ edits \in Nat
    /\ origin \in [Files -> Contents] /\ goal \in [Files -> Contents]
    /\ Live \/ pc \in {"undo", "purge"} => there /\ mem \in Metadata
    /\ Live => own /\ after \in {"stage", "staged", "commit", "move", "undo", "purge", "idle"}
    /\ Live /\ Ahead \in {"stage", "staged", "commit", "move"} => cursor >= 1
    /\ Live /\ Ahead = "move" => cursor <= Len(Order)
    /\ Ahead = "undo" => cursor <= Len(Order)
    /\ Live /\ Ahead = "undo" => cursor = Len(Order)

LEMMA SettingType ==
    ASSUME Typed
    PROVE  /\ setting.edits \in Nat /\ setting.faults \in Nat /\ setting.crashes \in Nat
           /\ setting.start.files \in [Files -> Contents]
BY SettingAssumption DEF Typed, Setting

LEMMA TypedInit == Init => Typed
<1> SUFFICES ASSUME Init PROVE Typed
  OBVIOUS
<1>1. setting \in Setting
  BY SettingAssumption DEF Init
<1>2. /\ setting.edits \in Nat /\ setting.faults \in Nat /\ setting.crashes \in Nat
      /\ setting.start.files \in [Files -> Contents] /\ setting.start.dir \in BOOLEAN
  BY <1>1 DEF Setting
<1>3. dir = FALSE => \A f \in Files : target[f] = "none"
  BY SettingAssumption DEF Init
<1>4. /\ plan \in [Paths -> {"create", "update", "delete", "keep"}]
      /\ staged \in [Paths -> {"none", "new"}] /\ backup \in [Paths -> Contents]
  BY DEF Init, NoMetadata, Unreadable, NoFiles, Contents
<1>5. TypeOK
  <2>1. /\ dir \in BOOLEAN /\ there \in BOOLEAN /\ touched \in BOOLEAN /\ own \in BOOLEAN
        /\ outdated \in BOOLEAN /\ target \in [Files -> Contents]
    BY <1>2 DEF Init
  <2>2. /\ meta \in Metadata \cup {NoMetadata, Unreadable("torn")}
        /\ mem \in Metadata \cup {NoMetadata}
        /\ staged = NoFiles /\ backup = NoFiles
    BY DEF Init
  <2>3. /\ pc = "idle" /\ after = "idle" /\ cursor \in 0..Len(Order) + 1
        /\ faults <= setting.faults /\ crashes <= setting.crashes /\ edits <= setting.edits
    BY <1>2, OrderType DEF Init
  <2>4. QED
    BY <1>3, <1>4, <2>1, <2>2, <2>3 DEF TypeOK
<1>6. ~Live /\ pc \notin {"undo", "purge"} /\ Ahead = "idle"
  BY DEF Init, Live, Stages, Ahead
<1>7. faults \in Nat /\ crashes \in Nat /\ edits \in Nat
  BY DEF Init
<1>8. QED
  BY <1>2, <1>5, <1>6, <1>7 DEF Init, Typed

LEMMA NewPlanType ==
    ASSUME NEW kind
    PROVE  NewPlan(kind) \in [Paths -> {"create", "update", "delete", "keep"}]
<1>1. ASSUME NEW p \in Paths PROVE SyncAction(p) \in {"create", "update", "delete", "keep"}
  BY Zenon DEF SyncAction
<1>2. QED
  BY <1>1 DEF NewPlan, InitAction

\* Metadata whose status or whose record of committed paths changes is still metadata.
Statuses == {"staging", "staged", "committing", "rolling-back", "rollback-failed", "committed"}

LEMMA StatusChanges ==
    ASSUME NEW m \in Metadata, NEW s \in Statuses
    PROVE  LET n == [m EXCEPT !.status = s]
           IN /\ n \in Metadata /\ n.status = s /\ n.action = m.action
              /\ n.dirExisted = m.dirExisted /\ n.committed = m.committed
BY DEF Metadata, Statuses

LEMMA CommittedChanges ==
    ASSUME NEW m \in Metadata, NEW p \in Paths
    PROVE  LET n == [m EXCEPT !.committed = @ \cup {p}]
           IN /\ n \in Metadata /\ n.status = m.status /\ n.action = m.action
              /\ n.dirExisted = m.dirExisted /\ n.committed = m.committed \cup {p}
BY DEF Metadata

\* What an error does: it ends the run, or goes on with the rollback of the run's
\* own transaction or with its last record.
LEMMA FailEffect ==
    ASSUME Fail, own /\ pc # "recover" => mem \in Metadata
    PROVE  \/ pc' = "idle" /\ mem' = mem /\ cursor' = cursor
           \/ /\ own /\ pc # "recover" /\ pc' = "save"
              /\ \/ after' = "idle" /\ cursor' = cursor
                 \/ after' = "undo" /\ cursor' = Len(Order)
              /\ mem' \in Metadata /\ mem'.status \in {"rolling-back", "rollback-failed"}
              /\ mem'.action = mem.action /\ mem'.committed = mem.committed
              /\ mem'.dirExisted = mem.dirExisted
<1>1. ASSUME own, pc # "recover", NEW s \in {"rolling-back", "rollback-failed"},
             mem' = [mem EXCEPT !.status = s]
      PROVE  /\ mem' \in Metadata /\ mem'.status \in {"rolling-back", "rollback-failed"}
             /\ mem'.action = mem.action /\ mem'.committed = mem.committed
             /\ mem'.dirExisted = mem.dirExisted
  <2>1. mem \in Metadata /\ s \in Statuses
    BY <1>1 DEF Statuses
  <2>2. QED
    BY <1>1, <2>1, StatusChanges
<1>2. CASE pc' = "idle" /\ mem' = mem /\ cursor' = cursor
  BY <1>2
<1>3. CASE /\ own /\ pc # "recover" /\ pc' = "save" /\ after' = "idle" /\ cursor' = cursor
           /\ mem' = [mem EXCEPT !.status = "rollback-failed"]
  BY <1>1, <1>3
<1>4. CASE /\ own /\ pc # "recover" /\ pc' = "save" /\ after' = "undo" /\ cursor' = Len(Order)
           /\ mem' = [mem EXCEPT !.status = "rolling-back"]
  BY <1>1, <1>4
<1>5. QED
  BY <1>2, <1>3, <1>4 DEF Fail, Goto, Save

LEMMA ReadableIsMetadata ==
    ASSUME NEW m \in Metadata \cup {NoMetadata, Unreadable("torn")},
           m.status \notin {"missing", "torn"}
    PROVE  m \in Metadata
BY DEF NoMetadata, Unreadable

\* Typed, in parts.
FilesTyped ==
    /\ dir \in BOOLEAN /\ outdated \in BOOLEAN
    /\ target \in [Files -> Contents]
    /\ origin \in [Files -> Contents] /\ goal \in [Files -> Contents]
    /\ plan \in [Paths -> {"create", "update", "delete", "keep"}]
    /\ ~dir => \A f \in Files : target[f] = "none"

CopiesTyped ==
    /\ there \in BOOLEAN
    /\ staged \in [Paths -> {"none", "new"}] /\ backup \in [Paths -> Contents]
    /\ ~there => staged = NoFiles /\ backup = NoFiles
    /\ Live \/ pc \in {"undo", "purge"} => there

MetadataTyped ==
    /\ meta \in Metadata \cup {NoMetadata, Unreadable("torn")}
    /\ mem \in Metadata \cup {NoMetadata}
    /\ Live \/ pc \in {"undo", "purge"} => mem \in Metadata

FlowTyped ==
    /\ touched \in BOOLEAN /\ own \in BOOLEAN
    /\ {pc, after} \subseteq {"idle", "recover", "save", "stage", "staged", "commit",
                              "move", "undo", "purge"}
    /\ cursor \in 0..Len(Order) + 1
    /\ Live => own /\ after \in {"stage", "staged", "commit", "move", "undo", "purge", "idle"}
    /\ Live /\ Ahead \in {"stage", "staged", "commit", "move"} => cursor >= 1
    /\ Live /\ Ahead = "move" => cursor <= Len(Order)
    /\ Ahead = "undo" => cursor <= Len(Order)
    /\ Live /\ Ahead = "undo" => cursor = Len(Order)

BoundsTyped ==
    /\ setting \in Settings
    /\ faults \in Nat /\ crashes \in Nat /\ edits \in Nat
    /\ faults <= setting.faults /\ crashes <= setting.crashes /\ edits <= setting.edits

LEMMA TypedParts ==
    Typed <=> FilesTyped /\ CopiesTyped /\ MetadataTyped /\ FlowTyped /\ BoundsTyped
BY OrderType DEF Typed, TypeOK, FilesTyped, CopiesTyped, MetadataTyped, FlowTyped, BoundsTyped,
                 Live, Stages, Ahead

\* No error and no kill is counted while no command runs.
LEMMA InterruptedRuns ==
    ASSUME Typed, MayInterrupt
    PROVE  pc # "idle"
<1>1. setting \in Setting
  BY SettingAssumption DEF Typed
<1>2. setting.interrupts \subseteq {"open", "stage", "commit", "write", "rollback-start",
                                    "rollback", "purge"}
  BY <1>1 DEF Setting
<1>3. "nothing" \notin setting.interrupts
  BY <1>2
<1>4. pc = "idle" => Interruptible = "nothing"
  BY Zenon DEF Interruptible
<1>5. QED
  BY <1>3, <1>4 DEF MayInterrupt

LEMMA FilesStep == Typed /\ [Next]_vars => FilesTyped'
<1> SUFFICES ASSUME Typed, [Next]_vars PROVE FilesTyped'
  OBVIOUS
<1> USE TypedParts, OrderType DEF FilesTyped, Goto, Save
<1>1. ASSUME NEW kind, Plan(kind) PROVE FilesTyped'
  BY <1>1, NewPlanType DEF Plan, disk, history, bounds
<1>2. CASE RecoverLook
  BY <1>2 DEF RecoverLook, disk, history, bounds
<1>3. CASE Open
  <2>1. \A f \in Files : goal'[f] \in Contents
    BY <1>3 DEF Open, Contents
  <2>2. goal' \in [Files -> Contents]
    BY <1>3, <2>1 DEF Open
  <2>3. QED
    BY <1>3, <2>2 DEF Open, bounds
<1>4. CASE Write
  BY <1>4 DEF Write, history, bounds
<1>5. CASE Stage
  BY <1>5 DEF Stage, history, bounds
<1>6. CASE Staged
  BY <1>6 DEF Staged, disk, history, bounds
<1>7. CASE StartCommit
  BY <1>7 DEF StartCommit, disk, history, bounds
<1>8. CASE Skip
  BY <1>8 DEF Skip, disk, history, bounds
<1>9. CASE Backup
  <2>1. Order[cursor] \in Files /\ (Live /\ Ahead = "commit")
    BY <1>9 DEF Backup, Files, Live, Stages, Ahead, FlowTyped
  <2>2. target' = target \/ target' = [target EXCEPT ![Order[cursor]] = "none"]
    BY <1>9 DEF Backup
  <2>3. target' \in [Files -> Contents] /\ (~dir => \A f \in Files : target'[f] = "none")
    BY <2>1, <2>2 DEF Contents
  <2>4. QED
    BY <1>9, <2>3 DEF Backup, history, bounds
<1>10. CASE Move
  <2>1. Order[cursor] \in Paths /\ Order[cursor] \in Files
    BY <1>10 DEF Move, Files, Live, Stages, Ahead, FlowTyped
  <2>2. staged[Order[cursor]] \in Contents
    BY <2>1 DEF CopiesTyped, Contents
  <2>3. target' \in [Files -> Contents] /\ dir' \in BOOLEAN
    BY <1>10, <2>1, <2>2 DEF Move
  <2>4. ~dir' => \A f \in Files : target'[f] = "none"
    BY <1>10, <2>1 DEF Move
  <2>5. QED
    BY <1>10, <2>3, <2>4 DEF Move, bounds
<1>11. CASE Commit
  BY <1>11 DEF Commit, disk, history, bounds
<1>12. CASE Refuse
  BY <1>12 DEF Refuse, Fail, disk, history, bounds
<1>13. CASE Undo
  <2>1. Order[cursor] \in Paths /\ Order[cursor] \in Files
    BY <1>13 DEF Undo, Files, Ahead, FlowTyped
  <2>2. backup[Order[cursor]] \in Contents /\ "none" \in Contents
    BY <2>1 DEF CopiesTyped, Contents
  <2>3. CASE backup[Order[cursor]] # "none"
    BY <1>13, <2>1, <2>2, <2>3 DEF Undo, history, bounds
  <2>4. CASE backup[Order[cursor]] = "none"
    <3>1. target' = target \/ target' = [target EXCEPT ![Order[cursor]] = "none"]
      BY <1>13, <2>4 DEF Undo
    <3>2. target' \in [Files -> Contents] /\ (~dir => \A f \in Files : target'[f] = "none")
      BY <2>1, <2>2, <3>1
    <3>3. QED
      BY <1>13, <2>4, <3>2 DEF Undo, history, bounds
  <2>5. QED
    BY <2>3, <2>4
<1>14. CASE Undone
  <2>1. target' \in [Files -> Contents] /\ dir' \in BOOLEAN
    BY <1>14 DEF Undone, Contents
  <2>2. ~dir' => \A f \in Files : target'[f] = "none"
    BY <1>14 DEF Undone
  <2>3. QED
    BY <1>14, <2>1, <2>2 DEF Undone, history, bounds
<1>15. CASE Purge
  BY <1>15 DEF Purge, memory, history, bounds
<1>16. CASE Purged
  BY <1>16 DEF Purged, history, bounds
<1>17. CASE Fault
  BY <1>17 DEF Fault, Fail, Torn, history
<1>18. CASE Crash
  BY <1>18 DEF Crash, Torn, history
<1>19. ASSUME NEW f \in Files, Edit(f) PROVE FilesTyped'
  <2>1. target' \in [Files -> Contents]
    BY <1>19 DEF Edit, Contents
  <2>2. QED
    BY <1>19, <2>1 DEF Edit, memory, history
<1>20. CASE UNCHANGED vars
  BY <1>20 DEF vars, disk, memory, history, bounds
<1>21. QED
  BY <1>1, <1>2, <1>3, <1>4, <1>5, <1>6, <1>7, <1>8, <1>9, <1>10, <1>11, <1>12, <1>13, <1>14, <1>15, <1>16, <1>17, <1>18, <1>19, <1>20 DEF Next, Run, Apply

LEMMA CopiesStep == Typed /\ [Next]_vars => CopiesTyped'
<1> SUFFICES ASSUME Typed, [Next]_vars PROVE CopiesTyped'
  OBVIOUS
<1> USE TypedParts, OrderType DEF CopiesTyped, Live, Stages, Goto, Save
<1>1. ASSUME NEW kind, Plan(kind) PROVE CopiesTyped'
  BY <1>1 DEF Plan, disk, history, bounds
<1>2. CASE RecoverLook
  BY <1>2 DEF RecoverLook, disk, history, bounds
<1>3. CASE Open
  BY <1>3 DEF Open, bounds
<1>4. CASE Write
  BY <1>4 DEF Write, history, bounds
<1>5. CASE Stage
  BY <1>5 DEF Stage, history, bounds
<1>6. CASE Staged
  BY <1>6 DEF Staged, disk, history, bounds
<1>7. CASE StartCommit
  BY <1>7 DEF StartCommit, disk, history, bounds
<1>8. CASE Skip
  BY <1>8 DEF Skip, disk, history, bounds
<1>9. CASE Backup
  <2>1. Order[cursor] \in Files
    BY <1>9 DEF Backup, Files, Ahead, FlowTyped
  <2>2. target[Order[cursor]] \in Contents
    BY <2>1 DEF FilesTyped
  <2>3. backup' \in [Paths -> Contents] /\ pc' \in Stages
    BY <1>9, <2>2 DEF Backup
  <2>4. QED
    BY <1>9, <2>3 DEF Backup, history, bounds
<1>10. CASE Move
  BY <1>10 DEF Move, bounds
<1>11. CASE Commit
  BY <1>11 DEF Commit, disk, history, bounds
<1>12. CASE Refuse
  BY <1>12 DEF Refuse, Fail, disk, history, bounds
<1>13. CASE Undo
  <2>1. backup' \in [Paths -> Contents]
    BY <1>13 DEF Undo, Contents
  <2>2. there /\ pc' = "undo"
    BY <1>13 DEF Undo
  <2>3. QED
    BY <1>13, <2>1, <2>2 DEF Undo, history, bounds
<1>14. CASE Undone
  BY <1>14 DEF Undone, history, bounds
<1>15. CASE Purge
  <2>1. staged' \in [Paths -> {"none", "new"}] /\ backup' \in [Paths -> Contents]
    BY <1>15 DEF Purge, Contents
  <2>2. there /\ there' /\ pc' = "purge"
    BY <1>15 DEF Purge, memory
  <2>3. QED
    BY <1>15, <2>1, <2>2 DEF Purge, memory, history, bounds
<1>16. CASE Purged
  BY <1>16 DEF Purged, history, bounds
<1>17. CASE Fault
  <2>1. pc # "idle"
    BY <1>17, InterruptedRuns DEF Fault
  <2>2. own /\ pc # "recover" => there
    BY <2>1 DEF FlowTyped
  <2>3. pc' = "save" => own /\ pc # "recover"
    BY <1>17 DEF Fault, Fail
  <2>4. pc' \in {"idle", "save"} /\ there' = there /\ staged' = staged /\ backup' = backup
    BY <1>17 DEF Fault, Fail
  <2>5. QED
    BY <2>2, <2>3, <2>4
<1>18. CASE Crash
  BY <1>18 DEF Crash, Torn, history
<1>19. ASSUME NEW f \in Files, Edit(f) PROVE CopiesTyped'
  BY <1>19 DEF Edit, memory, history
<1>20. CASE UNCHANGED vars
  BY <1>20 DEF vars, disk, memory, history, bounds
<1>21. QED
  BY <1>1, <1>2, <1>3, <1>4, <1>5, <1>6, <1>7, <1>8, <1>9, <1>10, <1>11, <1>12, <1>13, <1>14, <1>15, <1>16, <1>17, <1>18, <1>19, <1>20 DEF Next, Run, Apply

LEMMA MetadataStep == Typed /\ [Next]_vars => MetadataTyped'
<1> SUFFICES ASSUME Typed, [Next]_vars PROVE MetadataTyped'
  OBVIOUS
<1> USE TypedParts, OrderType DEF MetadataTyped, Live, Stages, Goto, Save
<1>1. ASSUME NEW kind, Plan(kind) PROVE MetadataTyped'
  BY <1>1 DEF Plan, disk, history, bounds
<1>2. CASE RecoverLook
  <2>1. meta.status \notin {"missing", "torn"} => meta \in Metadata
    BY ReadableIsMetadata
  <2>2. QED
    BY <1>2, <2>1 DEF RecoverLook, disk, history, bounds
<1>3. CASE Open
  <2>1. mem' \in Metadata
    BY <1>3 DEF Open, Metadata, FilesTyped
  <2>2. QED
    BY <1>3, <2>1 DEF Open, bounds
<1>4. CASE Write
  BY <1>4 DEF Write, history, bounds
<1>5. CASE Stage
  BY <1>5 DEF Stage, history, bounds
<1>6. CASE Staged
  <2>1. mem \in Metadata
    BY <1>6 DEF Staged
  <2>2. mem' \in Metadata
    BY <1>6, <2>1, StatusChanges DEF Staged, Statuses
  <2>3. QED
    BY <1>6, <2>2 DEF Staged, disk, history, bounds
<1>7. CASE StartCommit
  <2>1. mem \in Metadata
    BY <1>7 DEF StartCommit
  <2>2. mem' \in Metadata
    BY <1>7, <2>1, StatusChanges DEF StartCommit, Statuses
  <2>3. QED
    BY <1>7, <2>2 DEF StartCommit, disk, history, bounds
<1>8. CASE Skip
  BY <1>8 DEF Skip, disk, history, bounds
<1>9. CASE Backup
  BY <1>9 DEF Backup, history, bounds
<1>10. CASE Move
  <2>1. mem \in Metadata /\ Order[cursor] \in Paths
    BY <1>10 DEF Move, FlowTyped, Ahead
  <2>2. mem' \in Metadata
    BY <1>10, <2>1, CommittedChanges DEF Move
  <2>3. QED
    BY <1>10, <2>2 DEF Move, bounds
<1>11. CASE Commit
  <2>1. mem \in Metadata
    BY <1>11 DEF Commit
  <2>2. mem' \in Metadata
    BY <1>11, <2>1, StatusChanges DEF Commit, Statuses
  <2>3. QED
    BY <1>11, <2>2 DEF Commit, disk, history, bounds
<1>12. CASE Refuse
  <2>1. pc # "idle"
    BY <1>12 DEF Refuse
  <2>2. own /\ pc # "recover" => mem \in Metadata
    BY <2>1 DEF FlowTyped
  <2>3. \/ pc' = "idle" /\ mem' = mem
        \/ pc' = "save" /\ mem' \in Metadata
    BY <1>12, <2>2, FailEffect DEF Refuse
  <2>4. meta' \in {meta, Unreadable("torn")}
    BY <1>12 DEF Refuse, disk, Torn
  <2>5. QED
    BY <2>3, <2>4
<1>13. CASE Undo
  BY <1>13 DEF Undo, history, bounds
<1>14. CASE Undone
  BY <1>14 DEF Undone, history, bounds
<1>15. CASE Purge
  BY <1>15 DEF Purge, memory, history, bounds
<1>16. CASE Purged
  BY <1>16 DEF Purged, history, bounds
<1>17. CASE Fault
  <2>1. pc # "idle"
    BY <1>17, InterruptedRuns DEF Fault
  <2>2. own /\ pc # "recover" => mem \in Metadata
    BY <2>1 DEF FlowTyped
  <2>3. \/ pc' = "idle" /\ mem' = mem
        \/ pc' = "save" /\ mem' \in Metadata
    BY <1>17, <2>2, FailEffect DEF Fault
  <2>4. meta' \in {meta, Unreadable("torn")}
    BY <1>17 DEF Fault, disk, Torn
  <2>5. QED
    BY <2>3, <2>4
<1>18. CASE Crash
  BY <1>18 DEF Crash, Torn, history
<1>19. ASSUME NEW f \in Files, Edit(f) PROVE MetadataTyped'
  BY <1>19 DEF Edit, memory, history
<1>20. CASE UNCHANGED vars
  BY <1>20 DEF vars, disk, memory, history, bounds
<1>21. QED
  BY <1>1, <1>2, <1>3, <1>4, <1>5, <1>6, <1>7, <1>8, <1>9, <1>10, <1>11, <1>12, <1>13, <1>14, <1>15, <1>16, <1>17, <1>18, <1>19, <1>20 DEF Next, Run, Apply

LEMMA FlowStep == Typed /\ [Next]_vars => FlowTyped'
<1> SUFFICES ASSUME Typed, [Next]_vars PROVE FlowTyped'
  OBVIOUS
<1> USE TypedParts, OrderType DEF FlowTyped, Live, Stages, Ahead, Goto, Save
<1>1. ASSUME NEW kind, Plan(kind) PROVE FlowTyped'
  BY <1>1 DEF Plan, disk, history, bounds
<1>2. CASE RecoverLook
  <2>1. /\ after' = after /\ own' \in BOOLEAN /\ touched' \in BOOLEAN
        /\ \/ pc' = "idle" /\ cursor' = cursor
           \/ pc' \in {"purge", "undo"} /\ cursor' = Len(Order)
    BY <1>2 DEF RecoverLook
  <2>2. QED
    BY <2>1
<1>3. CASE Open
  BY <1>3 DEF Open, bounds
<1>4. CASE Write
  BY <1>4 DEF Write, history, bounds
<1>5. CASE Stage
  BY <1>5 DEF Stage, history, bounds
<1>6. CASE Staged
  BY <1>6 DEF Staged, disk, history, bounds
<1>7. CASE StartCommit
  BY <1>7 DEF StartCommit, disk, history, bounds
<1>8. CASE Skip
  BY <1>8 DEF Skip, disk, history, bounds
<1>9. CASE Backup
  BY <1>9 DEF Backup, history, bounds
<1>10. CASE Move
  BY <1>10 DEF Move, bounds
<1>11. CASE Commit
  BY <1>11 DEF Commit, disk, history, bounds
<1>12. CASE Refuse
  <2>1. /\ own' = own /\ touched' \in BOOLEAN
        /\ \/ pc' = "idle" /\ after' = after /\ cursor' = cursor
           \/ own /\ pc' = "save" /\ after' = "idle" /\ cursor' = cursor
           \/ own /\ pc' = "save" /\ after' = "undo" /\ cursor' = Len(Order)
    BY <1>12 DEF Refuse, Fail
  <2>2. QED
    BY <2>1
<1>13. CASE Undo
  <2>1. /\ own' = own /\ touched' \in BOOLEAN /\ pc' = "undo" /\ pc = "undo" /\ after' = after
        /\ cursor >= 1 /\ cursor' = cursor - 1
    BY <1>13 DEF Undo
  <2>2. QED
    BY <2>1
<1>14. CASE Undone
  BY <1>14 DEF Undone, history, bounds
<1>15. CASE Purge
  BY <1>15 DEF Purge, memory, history, bounds
<1>16. CASE Purged
  BY <1>16 DEF Purged, history, bounds
<1>17. CASE Fault
  <2>1. /\ own' = own /\ touched' \in BOOLEAN
        /\ \/ pc' = "idle" /\ after' = after /\ cursor' = cursor
           \/ own /\ pc' = "save" /\ after' = "idle" /\ cursor' = cursor
           \/ own /\ pc' = "save" /\ after' = "undo" /\ cursor' = Len(Order)
    BY <1>17 DEF Fault, Fail
  <2>2. QED
    BY <2>1
<1>18. CASE Crash
  BY <1>18 DEF Crash, Torn, history
<1>19. ASSUME NEW f \in Files, Edit(f) PROVE FlowTyped'
  BY <1>19 DEF Edit, memory, history
<1>20. CASE UNCHANGED vars
  BY <1>20 DEF vars, disk, memory, history, bounds
<1>21. QED
  BY <1>1, <1>2, <1>3, <1>4, <1>5, <1>6, <1>7, <1>8, <1>9, <1>10, <1>11, <1>12, <1>13, <1>14, <1>15, <1>16, <1>17, <1>18, <1>19, <1>20 DEF Next, Run, Apply

LEMMA BoundsStep == Typed /\ [Next]_vars => BoundsTyped'
<1> SUFFICES ASSUME Typed, [Next]_vars PROVE BoundsTyped'
  OBVIOUS
<1> USE TypedParts, OrderType DEF BoundsTyped, BoundsTyped
<1>1. ASSUME NEW kind, Plan(kind) PROVE BoundsTyped'
  BY <1>1 DEF Plan, disk, history, bounds
<1>2. CASE RecoverLook
  BY <1>2 DEF RecoverLook, disk, history, bounds
<1>3. CASE Open
  BY <1>3 DEF Open, bounds
<1>4. CASE Write
  BY <1>4 DEF Write, history, bounds
<1>5. CASE Stage
  BY <1>5 DEF Stage, history, bounds
<1>6. CASE Staged
  BY <1>6 DEF Staged, disk, history, bounds
<1>7. CASE StartCommit
  BY <1>7 DEF StartCommit, disk, history, bounds
<1>8. CASE Skip
  BY <1>8 DEF Skip, disk, history, bounds
<1>9. CASE Backup
  BY <1>9 DEF Backup, history, bounds
<1>10. CASE Move
  BY <1>10 DEF Move, bounds
<1>11. CASE Commit
  BY <1>11 DEF Commit, disk, history, bounds
<1>12. CASE Refuse
  BY <1>12 DEF Refuse, Fail, disk, history, bounds
<1>13. CASE Undo
  BY <1>13 DEF Undo, history, bounds
<1>14. CASE Undone
  BY <1>14 DEF Undone, history, bounds
<1>15. CASE Purge
  BY <1>15 DEF Purge, memory, history, bounds
<1>16. CASE Purged
  BY <1>16 DEF Purged, history, bounds
<1>17. CASE Fault
  BY <1>17, SettingType DEF Fault, Fail, Torn, history
<1>18. CASE Crash
  BY <1>18, SettingType DEF Crash, Torn, history
<1>19. ASSUME NEW f \in Files, Edit(f) PROVE BoundsTyped'
  BY <1>19, SettingType DEF Edit, memory, history
<1>20. CASE UNCHANGED vars
  BY <1>20 DEF vars, disk, memory, history, bounds
<1>21. QED
  BY <1>1, <1>2, <1>3, <1>4, <1>5, <1>6, <1>7, <1>8, <1>9, <1>10, <1>11, <1>12, <1>13, <1>14, <1>15, <1>16, <1>17, <1>18, <1>19, <1>20 DEF Next, Run, Apply

LEMMA TypedHolds == Spec => []Typed
<1>1. Typed /\ [Next]_vars => Typed'
  <2>1. Typed' <=> FilesTyped' /\ CopiesTyped' /\ MetadataTyped' /\ FlowTyped' /\ BoundsTyped'
    BY TypedParts, PTL
  <2>2. QED
    BY <2>1, FilesStep, CopiesStep, MetadataStep, FlowStep, BoundsStep
<1>2. QED
  BY <1>1, TypedInit, PTL DEF Spec

\* The files and the memory of a run keep their types; a transaction directory
\* that is gone leaves nothing, and a target directory that is not there has no files.
THEOREM TypeCorrect == Spec => []TypeOK
<1>1. Typed => TypeOK
  BY DEF Typed
<1>2. QED
  BY <1>1, TypedHolds, PTL

-----------------------------------------------------------------------------
(* All or nothing.                                                          *)

Readable(m) == m.status \notin {"missing", "torn"}

\* m is the plan of the transaction that was opened last.
Fits(m) ==
    /\ \A p \in Paths :
          /\ m.action[p] = "create" => origin[p] = "none"
          /\ m.action[p] \in {"create", "update"} => goal[p] = "new"
          /\ m.action[p] = "delete" => goal[p] = "none"
          /\ m.action[p] = "keep" => goal[p] = origin[p]
    /\ ~m.dirExisted => \A f \in Files : origin[f] = "none"

\* A rollback that goes by m makes of p what it was.
Restores(m, p) ==
    IF backup[p] # "none" THEN backup[p] = origin[p]
    ELSE IF p \in m.committed \/ (m.action[p] = "create" /\ staged[p] = "none")
         THEN origin[p] = "none"
         ELSE target[p] = origin[p]

Restorable(m) == Fits(m) /\ \A p \in Paths : Restores(m, p)

\* The files the template does not have are never touched.
Apart == \A f \in Files \ Paths : target[f] = origin[f] /\ goal[f] = origin[f]

\* No transaction is in the middle of the target.
Whole == ~there \/ pc = "purge" => target \in {origin, goal}

\* The rollback has touched nothing yet.
Untouched == pc = "undo" => cursor = Len(Order)

\* What a later run finds is enough to finish the transaction or to undo it.
Recoverable ==
    there /\ pc # "purge" /\ Untouched /\ Readable(meta) =>
        IF meta.status = "committed" THEN ~Live /\ target = goal ELSE Restorable(meta)

\* The run knows as much itself, and what it wrote is of the same plan.
Own ==
    Live \/ (pc = "undo" /\ own) =>
        /\ Readable(meta) => meta.action = mem.action /\ meta.status # "committed"
        /\ ~(Live /\ Ahead = "purge") => mem.status # "committed"

Knows == Live => Restorable(mem)

\* The paths above the cursor are as they were.
RollsBack ==
    pc = "undo" =>
        /\ Fits(mem)
        /\ \A k \in 1..Len(Order) :
              IF k <= cursor THEN Restores(mem, Order[k])
              ELSE target[Order[k]] = origin[Order[k]]

Before(k) == target[Order[k]] = origin[Order[k]] /\ backup[Order[k]] = "none"

Ready(k) == mem.action[Order[k]] \in {"create", "update"} => staged[Order[k]] = "new"

\* How far a commit has come.
Advancing ==
    Live =>
        /\ Ahead = "stage" =>
              \A k \in 1..Len(Order) : Before(k) /\ (k < cursor => Ready(k))
        /\ Ahead = "staged" => cursor = 1
        /\ Ahead \in {"staged", "commit", "move"} =>
              \A k \in 1..Len(Order) :
                 /\ k < cursor => target[Order[k]] = goal[Order[k]]
                 /\ k > cursor \/ (Ahead # "move" /\ k = cursor) => Before(k) /\ Ready(k)
        /\ Ahead = "move" =>
              /\ Ready(cursor) /\ target[Order[cursor]] = "none"
              /\ mem.action[Order[cursor]] # "keep"
              /\ backup[Order[cursor]] = "none" => mem.action[Order[cursor]] = "create"
        /\ Ahead = "purge" => target = goal

Calm == setting.edits = 0 /\ ~outdated

Core ==
    Calm => /\ Apart /\ Whole /\ Recoverable /\ Own /\ Knows /\ RollsBack /\ Advancing

\* No run is interrupted in a rollback that has touched the target, and none in
\* the removal of a transaction directory.
RollbacksRun == \A s \in Settings : s.interrupts \cap {"rollback", "purge"} = {}

LEMMA CoreInit == Init => Core
BY DEF Init, Core, Apart, Whole, Recoverable, Own, Knows, RollsBack, Advancing, Live, Stages

LEMMA StaysCalm == ASSUME Typed, [Next]_vars, Calm' PROVE Calm
BY DEF Calm, Next, Run, Apply, Plan, RecoverLook, Open, Write, Stage, Staged, StartCommit, Skip,
       Backup, Move, Commit, Refuse, Undo, Undone, Purge, Purged, Fault, Crash, Edit, history, bounds, vars,
       Typed, TypeOK

LEMMA CalmParts ==
    ASSUME Calm, Core
    PROVE  Apart /\ Whole /\ Recoverable /\ Own /\ Knows /\ RollsBack /\ Advancing
BY DEF Core

LEMMA PlanCore == ASSUME Typed, Calm, Core, NEW kind, Plan(kind) PROVE Core'
<1> USE CalmParts DEF Plan, Goto, disk, history, bounds, Live, Stages
<1>1. Apart' /\ Whole'
  BY DEF Apart, Whole
<1>2. Recoverable'
  BY DEF Recoverable, Restorable, Fits, Restores, Untouched
<1>3. QED
  BY <1>1, <1>2 DEF Core, Own, Knows, RollsBack, Advancing

LEMMA RecoverLookCore == ASSUME Typed, Calm, Core, RecoverLook PROVE Core'
<1> USE CalmParts DEF RecoverLook, Goto, disk, history, bounds, Live, Stages
<1>1. Apart'
  BY DEF Apart
<1>2. Readable(meta) => IF meta.status = "committed" THEN target = goal ELSE Restorable(meta)
  BY DEF Recoverable, Untouched
<1>3. Whole'
  BY <1>2 DEF Whole, Readable
<1>4. Recoverable'
  BY DEF Recoverable, Restorable, Fits, Restores, Untouched
<1>5. RollsBack'
  BY <1>2, OrderType DEF RollsBack, Restorable, Fits, Restores, Readable
<1>6. QED
  BY <1>1, <1>3, <1>4, <1>5 DEF Core, Own, Knows, Advancing

LEMMA OpenCore == ASSUME Typed, Typed', Calm, Calm', Core, Open PROVE Core'
<1> USE CalmParts DEF Open, Goto, Save, bounds, Live, Stages, Ahead
<1>1. PICK kind \in setting.kinds : plan = NewPlan(kind)
  BY DEF Calm
<1>2. kind \in {"init", "sync"}
  BY SettingAssumption DEF Typed, Setting
<1>3. \A p \in Paths : plan[p] = "create" => target[p] = "none"
  <2>1. \A p \in Paths : SyncAction(p) = "create" => target[p] = "none"
    BY Zenon DEF SyncAction
  <2>2. \A p \in Paths : InitAction(p) = "create" => target[p] = "none"
    BY DEF InitAction
  <2>3. QED
    BY <1>1, <2>1, <2>2 DEF NewPlan
<1>4. Apart'
  BY DEF Apart, Typed, TypeOK
<1>5. Fits(mem)'
  BY <1>3 DEF Fits, Typed, TypeOK, Files
<1>6. \A p \in Paths : Restores(mem, p)'
  BY <1>3 DEF Restores, NoFiles
<1>7. Advancing'
  BY OrderType DEF Advancing, Before, NoFiles, Ready, Files
<1>8. QED
  BY <1>4, <1>5, <1>6, <1>7
  DEF Core, Whole, Recoverable, Readable, NoMetadata, Unreadable, Own, Knows, Restorable, RollsBack

LEMMA WriteCore == ASSUME Typed, Typed', Calm, Core, Write PROVE Core'
<1> USE CalmParts DEF Write, Goto, Live, Stages, Ahead, history, bounds
<1>1. Apart'
  BY DEF Apart
<1>2. Whole'
  BY DEF Whole, Advancing, Typed, TypeOK
<1>3. Restorable(mem)'
  BY DEF Knows, Restorable, Fits, Restores
<1>4. Recoverable'
  BY <1>3 DEF Recoverable, Own, Untouched, Restorable, Fits, Restores
<1>5. Own' /\ Knows'
  BY <1>3 DEF Own, Knows
<1>6. RollsBack'
  BY <1>3, OrderType DEF RollsBack, Restorable, Typed
<1>7. Advancing'
  BY DEF Advancing, Before, Ready
<1>8. QED
  BY <1>1, <1>2, <1>4, <1>5, <1>6, <1>7 DEF Core

LEMMA StageCore == ASSUME Typed, Typed', Calm, Core, Stage PROVE Core'
<1> USE CalmParts DEF Stage, Live, Stages, Ahead, history, bounds
<1>1. cursor \in 1..Len(Order) /\ Order[cursor] \in Paths
  BY OrderType DEF Typed, TypeOK
<1>2. \A p \in Paths : p # Order[cursor] => staged'[p] = staged[p]
  BY DEF Typed, TypeOK
<1>3. \A p \in Paths : staged'[p] = "none" => staged[p] = "none"
  BY DEF Typed, TypeOK
<1>4. \A k \in 1..Len(Order) : target[Order[k]] = origin[Order[k]] /\ backup[Order[k]] = "none"
  BY DEF Advancing, Before
<1>5. \A p \in Paths : target[p] = origin[p] /\ backup[p] = "none"
  BY <1>4, OrderType
<1>6. Knows'
  BY <1>2, <1>3, <1>5 DEF Knows, Restorable, Fits, Restores
<1>7. Recoverable'
  BY <1>3, <1>5 DEF Recoverable, Own, Untouched, Restorable, Fits, Restores
<1>8. Advancing'
  <2>1. staged'[Order[cursor]] = "new" \/ mem.action[Order[cursor]] \notin {"create", "update"}
    BY <1>1 DEF Typed, TypeOK
  <2>2. \A k \in 1..Len(Order) : k < cursor' => Ready(k)'
    BY <1>1, <1>2, <2>1, OrderType DEF Advancing, Ready, Typed, TypeOK
  <2>3. QED
    BY <2>2 DEF Advancing, Before
<1>9. QED
  BY <1>6, <1>7, <1>8 DEF Core, Apart, Whole, Own, RollsBack

\* A run that changes only the status of its metadata and its cursor.
LEMMA SaveCore ==
    ASSUME Typed, Typed', Calm, Core, UNCHANGED <<disk, history, bounds>>,
           Live, Live', ~(pc = "save" /\ after = "purge"),
           mem' \in Metadata, mem'.action = mem.action, mem'.committed = mem.committed,
           mem'.dirExisted = mem.dirExisted
    PROVE  Apart' /\ Whole' /\ Recoverable' /\ Knows' /\ RollsBack'
<1> USE CalmParts DEF Live, Stages, history, bounds, disk
<1>1. Knows'
  BY DEF Knows, Restorable, Fits, Restores
<1>2. Recoverable'
  BY DEF Recoverable, Own, Untouched, Restorable, Fits, Restores
<1>3. QED
  BY <1>1, <1>2 DEF Apart, Whole, RollsBack

LEMMA StagedCore == ASSUME Typed, Typed', Calm, Core, Staged PROVE Core'
<1>1. mem \in Metadata
  BY DEF Staged, Typed, Live, Stages
<1>2. /\ mem' \in Metadata /\ mem'.action = mem.action /\ mem'.committed = mem.committed
      /\ mem'.dirExisted = mem.dirExisted /\ mem'.status = "staged"
  BY <1>1, StatusChanges DEF Staged, Statuses
<1>3. UNCHANGED <<disk, history, bounds>> /\ Live /\ Live' /\ pc = "stage"
  BY DEF Staged, Live, Stages, Save, Goto
<1>4. Apart' /\ Whole' /\ Recoverable' /\ Knows' /\ RollsBack'
  BY <1>2, <1>3, SaveCore
<1>5. Own'
  BY <1>2, CalmParts DEF Own, Staged, Live, Stages, Ahead, Save, Goto, disk
<1>6. Advancing'
  BY <1>2, CalmParts, OrderType
  DEF Advancing, Staged, Live, Stages, Ahead, Save, Goto, disk, history, Before, Ready, Typed, TypeOK
<1>7. QED
  BY <1>4, <1>5, <1>6 DEF Core

LEMMA StartCommitCore == ASSUME Typed, Typed', Calm, Core, StartCommit PROVE Core'
<1>1. mem \in Metadata
  BY DEF StartCommit, Typed, Live, Stages
<1>2. /\ mem' \in Metadata /\ mem'.action = mem.action /\ mem'.committed = mem.committed
      /\ mem'.dirExisted = mem.dirExisted /\ mem'.status = "committing"
  BY <1>1, StatusChanges DEF StartCommit, Statuses
<1>3. UNCHANGED <<disk, history, bounds>> /\ Live /\ Live' /\ pc = "staged"
  BY DEF StartCommit, Live, Stages, Save, Goto
<1>4. Apart' /\ Whole' /\ Recoverable' /\ Knows' /\ RollsBack'
  BY <1>2, <1>3, SaveCore
<1>5. Own'
  BY <1>2, CalmParts DEF Own, StartCommit, Live, Stages, Ahead, Save, Goto, disk
<1>6. Advancing'
  BY <1>2, CalmParts, OrderType
  DEF Advancing, StartCommit, Live, Stages, Ahead, Save, Goto, disk, history, Before, Ready, Typed, TypeOK
<1>7. QED
  BY <1>4, <1>5, <1>6 DEF Core

LEMMA SkipCore == ASSUME Typed, Typed', Calm, Core, Skip PROVE Core'
<1>1. UNCHANGED <<disk, history, bounds, mem, pc, after, own>> /\ Live /\ Live' /\ pc = "commit"
  BY DEF Skip, Live, Stages
<1>2. cursor \in 1..Len(Order) /\ Order[cursor] \in Paths
  BY OrderType DEF Skip, Typed, TypeOK, Live, Stages, Ahead
<1>3. Apart' /\ Whole' /\ Recoverable' /\ Knows' /\ RollsBack'
  BY <1>1, SaveCore DEF Typed
<1>4. Own'
  BY <1>1, CalmParts DEF Own, Live, Stages, Ahead, disk
<1>5. Advancing'
  <2>1. target[Order[cursor]] = goal[Order[cursor]]
    BY <1>1, <1>2, CalmParts DEF Advancing, Live, Stages, Ahead, Before, Knows, Restorable, Fits, Skip
  <2>2. QED
    BY <1>1, <1>2, <2>1, CalmParts, OrderType
    DEF Advancing, Skip, Live, Stages, Ahead, disk, history, Before, Ready, Typed, TypeOK
<1>6. QED
  BY <1>3, <1>4, <1>5 DEF Core

LEMMA BackupCore == ASSUME Typed, Typed', Calm, Core, Backup PROVE Core'
<1> DEFINE p == Order[cursor]
<1>1. /\ cursor \in 1..Len(Order) /\ p \in Paths /\ p \in Files
      /\ pc = "commit" /\ Live /\ Live' /\ Ahead = "commit" /\ Ahead' = "move" /\ own' = own
      /\ UNCHANGED <<there, meta, staged, mem, cursor, history, bounds>>
  <2>1. Live /\ Ahead = "commit" /\ cursor <= Len(Order)
    BY DEF Backup, Live, Stages, Ahead
  <2>2. cursor \in 1..Len(Order)
    BY <2>1, OrderType DEF Typed, TypeOK
  <2>3. Live' /\ Ahead' = "move" /\ pc = "commit"
    BY DEF Backup, Live, Stages, Ahead, Goto, Save
  <2>4. own' = own /\ UNCHANGED <<there, meta, staged, mem, cursor, history, bounds>>
    BY DEF Backup
  <2>5. QED
    BY <2>1, <2>2, <2>3, <2>4, OrderType DEF Files
<1>2. /\ target[p] = origin[p] /\ backup[p] = "none" /\ Ready(cursor)
      /\ mem.action[p] # "keep" /\ TargetAsPlanned(p)
  BY <1>1, CalmParts DEF Advancing, Before, Backup
<1>3. /\ \A q \in Files : target'[q] = IF q = p THEN "none" ELSE target[q]
      /\ \A q \in Paths : backup'[q] = IF q = p THEN origin[p] ELSE backup[q]
  BY <1>1, <1>2 DEF Backup, Typed, TypeOK
<1>4. origin[p] = "none" => mem.action[p] = "create"
  BY <1>1, <1>2 DEF TargetAsPlanned, Typed, Metadata, Live
<1>5. Apart'
  BY <1>1, <1>3, CalmParts DEF Apart, history
<1>6. ASSUME NEW m, Restorable(m), m' = m PROVE Restorable(m)'
  BY <1>1, <1>2, <1>3, <1>6 DEF Restorable, Fits, Restores, history, Files
<1>7. Recoverable'
  <2>1. CASE Readable(meta)
    <3>1. Restorable(meta)
      BY <1>1, <2>1, CalmParts DEF Recoverable, Own, Untouched, Typed, Live
    <3>2. QED
      BY <1>1, <1>6, <3>1, CalmParts DEF Recoverable, Own
  <2>2. CASE ~Readable(meta)
    BY <1>1, <2>2 DEF Recoverable, Readable
  <2>3. QED
    BY <2>1, <2>2
<1>8. Knows'
  BY <1>1, <1>6, CalmParts DEF Knows
<1>9. Advancing'
  <2>1. \A k \in 1..Len(Order) : k # cursor => Order[k] # p /\ Order[k] \in Paths /\ Order[k] \in Files
    BY <1>1, OrderType DEF Files
  <2>2. \A k \in 1..Len(Order) : k < cursor => target'[Order[k]] = goal[Order[k]]
    BY <1>1, <1>3, <2>1, CalmParts DEF Advancing
  <2>3. \A k \in 1..Len(Order) : k > cursor => Before(k)' /\ Ready(k)'
    BY <1>1, <1>3, <2>1, CalmParts DEF Advancing, Before, Ready, history
  <2>4. /\ Ready(cursor)' /\ target'[p] = "none"
        /\ backup'[p] = "none" => mem.action[p] = "create"
    BY <1>1, <1>2, <1>3, <1>4 DEF Ready
  <2>5. QED
    BY <1>1, <1>2, <2>2, <2>3, <2>4 DEF Advancing, history
<1>10. Whole' /\ Own' /\ RollsBack'
  BY <1>1, CalmParts DEF Whole, Own, RollsBack, Live, Stages, Typed
<1>11. QED
  BY <1>5, <1>7, <1>8, <1>9, <1>10 DEF Core

LEMMA MoveCore == ASSUME Typed, Typed', Calm, Core, Move PROVE Core'
<1> DEFINE p == Order[cursor]
           act == mem.action[p]
<1>1. /\ cursor \in 1..Len(Order) /\ p \in Paths /\ p \in Files /\ cursor' = cursor + 1
      /\ pc = "move" /\ Live /\ Live' /\ Ahead = "move" /\ Ahead' = "commit" /\ own' = own
      /\ UNCHANGED <<there, meta, backup, origin, goal, setting>> /\ mem \in Metadata
  BY OrderType DEF Move, Typed, TypeOK, Live, Stages, Ahead, Goto, Save, Files, bounds
<1>2. /\ mem' \in Metadata /\ mem'.action = mem.action /\ mem'.committed = mem.committed \cup {p}
      /\ mem'.dirExisted = mem.dirExisted /\ mem'.status = mem.status
  BY <1>1, CommittedChanges DEF Move
<1>3. /\ act \in {"create", "update", "delete"} /\ Ready(cursor) /\ target[p] = "none"
      /\ backup[p] = "none" => act = "create"
  BY <1>1, CalmParts DEF Advancing, Metadata
<1>4. /\ \A q \in Files : target'[q] = IF q = p /\ act # "delete" THEN "new" ELSE target[q]
      /\ \A q \in Paths : staged'[q] = IF q = p /\ act # "delete" THEN "none" ELSE staged[q]
  BY <1>1, <1>3 DEF Move, Ready, Typed, TypeOK
<1>5. Fits(mem) /\ (backup[p] = "none" => origin[p] = "none") /\ (backup[p] # "none" => backup[p] = origin[p])
  BY <1>1, <1>3, CalmParts DEF Knows, Restorable, Restores, Fits
<1>6. target'[p] = goal[p]
  BY <1>1, <1>3, <1>4, <1>5 DEF Fits
<1>7. Apart'
  BY <1>1, <1>4, CalmParts DEF Apart
<1>8. Recoverable'
  <2>1. CASE Readable(meta)
    <3>1. Restorable(meta) /\ meta.action = mem.action
      BY <1>1, <2>1, CalmParts DEF Recoverable, Own, Untouched, Typed, Live
    <3>2. \A q \in Paths : Restores(meta, q)'
      BY <1>1, <1>3, <1>4, <1>5, <3>1 DEF Restorable, Restores, Files
    <3>3. Restorable(meta)'
      BY <1>1, <3>1, <3>2 DEF Restorable, Fits
    <3>4. QED
      BY <1>1, <3>3, CalmParts DEF Recoverable, Own
  <2>2. CASE ~Readable(meta)
    BY <1>1, <2>2 DEF Recoverable, Readable
  <2>3. QED
    BY <2>1, <2>2
<1>9. Knows'
  <2>1. \A q \in Paths : Restores(mem, q)
    BY <1>1, CalmParts DEF Knows, Restorable
  <2>2. \A q \in Paths : Restores(mem, q)'
    BY <1>1, <1>2, <1>3, <1>4, <1>5, <2>1 DEF Restores, Files
  <2>3. QED
    BY <1>1, <1>2, <1>5, <2>2 DEF Knows, Restorable, Fits
<1>10. Advancing'
  <2>1. \A k \in 1..Len(Order) : k # cursor => Order[k] # p /\ Order[k] \in Paths /\ Order[k] \in Files
    BY <1>1, OrderType DEF Files
  <2>2. \A k \in 1..Len(Order) : k < cursor' => target'[Order[k]] = goal[Order[k]]
    BY <1>1, <1>4, <1>6, <2>1, CalmParts DEF Advancing
  <2>3. \A k \in 1..Len(Order) : k >= cursor' => Before(k)' /\ Ready(k)'
    BY <1>1, <1>2, <1>4, <2>1, CalmParts DEF Advancing, Before, Ready
  <2>4. QED
    BY <1>1, <2>2, <2>3 DEF Advancing
<1>11. Whole' /\ Own' /\ RollsBack'
  BY <1>1, <1>2, CalmParts DEF Whole, Own, RollsBack, Live, Stages, Typed
<1>12. QED
  BY <1>7, <1>8, <1>9, <1>10, <1>11 DEF Core

LEMMA CommitCore == ASSUME Typed, Typed', Calm, Core, Commit PROVE Core'
<1>1. mem \in Metadata /\ Live /\ Live' /\ pc = "commit" /\ Ahead' = "purge"
  BY DEF Commit, Typed, Live, Stages, Ahead, Save, Goto
<1>2. /\ mem' \in Metadata /\ mem'.action = mem.action /\ mem'.committed = mem.committed
      /\ mem'.dirExisted = mem.dirExisted
  BY <1>1, StatusChanges DEF Commit, Statuses
<1>3. UNCHANGED <<disk, history, bounds>>
  BY DEF Commit
<1>4. Apart' /\ Whole' /\ Recoverable' /\ Knows' /\ RollsBack'
  BY <1>1, <1>2, <1>3, SaveCore
<1>5. Own'
  BY <1>1, <1>2, CalmParts DEF Own, Commit, disk
<1>6. target = goal
  <2>1. \A k \in 1..Len(Order) : target[Order[k]] = goal[Order[k]]
    BY <1>1, CalmParts, OrderType DEF Advancing, Commit, Ahead, Typed, TypeOK
  <2>2. \A f \in Files : target[f] = goal[f]
    BY <2>1, CalmParts, OrderType DEF Apart
  <2>3. QED
    BY <2>2 DEF Typed, TypeOK
<1>7. Advancing'
  BY <1>1, <1>3, <1>6 DEF Advancing, disk, history
<1>8. QED
  BY <1>4, <1>5, <1>7 DEF Core

\* An error inside the transaction, before or at the start of its rollback.
LEMMA FailCore ==
    ASSUME Typed, Typed', Calm, Core, Fail, pc # "idle", pc # "purge", Untouched,
           UNCHANGED <<dir, target, there, staged, backup, own, history, setting>>,
           meta' = meta \/ ~Readable(meta')
    PROVE  Core'
<1> USE CalmParts DEF Live, Stages, Ahead, history
<1>1. own /\ pc # "recover" => mem \in Metadata /\ Restorable(mem)
  <2>1. CASE Live
    BY <2>1 DEF Typed, Knows
  <2>2. CASE pc = "undo"
    <3>1. \A p \in Paths : Restores(mem, p)
      BY <2>2, OrderType DEF RollsBack, Untouched
    <3>2. QED
      BY <2>2, <3>1 DEF Typed, RollsBack, Restorable
  <2>3. QED
    BY <2>1, <2>2 DEF Typed, TypeOK
<1>2. Apart'
  BY DEF Apart
<1>3. Recoverable'
  <2>1. there' /\ pc' # "purge" /\ Readable(meta') =>
           /\ meta' = meta
           /\ IF meta.status = "committed" THEN ~Live /\ target = goal ELSE Restorable(meta)
    BY DEF Recoverable, Readable
  <2>2. meta.status = "committed" /\ meta' = meta => ~Live'
    BY FailEffect, <1>1, <2>1 DEF Own, Readable, Typed, TypeOK
  <2>3. QED
    BY <2>1, <2>2 DEF Recoverable, Restorable, Fits, Restores
<1>4. Knows'
  BY FailEffect, <1>1 DEF Knows, Restorable, Fits, Restores
<1>5. Own'
  BY FailEffect, <1>1 DEF Own, Typed, TypeOK
<1>6. Whole' /\ RollsBack' /\ Advancing'
  BY FailEffect, <1>1 DEF Whole, RollsBack, Advancing
<1>7. QED
  BY <1>2, <1>3, <1>4, <1>5, <1>6 DEF Core

LEMMA CursorType ==
    ASSUME Typed
    PROVE  /\ cursor \in 0..Len(Order) + 1
           /\ pc = "undo" => cursor <= Len(Order)
<1>1. cursor \in 0..Len(Order) + 1
  BY Zenon DEF Typed, TypeOK
<1>2. Ahead = "undo" => cursor <= Len(Order)
  BY Zenon DEF Typed
<1>3. QED
  BY <1>1, <1>2 DEF Ahead

LEMMA UndoCore == ASSUME Typed, Typed', Calm, Core, Undo PROVE Core'
<1> DEFINE p == Order[cursor]
<1>1. /\ cursor \in 1..Len(Order) /\ p \in Paths /\ p \in Files /\ cursor' = cursor - 1
      /\ pc = "undo" /\ pc' = "undo" /\ own' = own
      /\ UNCHANGED <<there, meta, staged, mem, history, bounds>>
  <2>1. pc = "undo" /\ Ahead = "undo" /\ cursor >= 1
    BY DEF Undo, Ahead
  <2>2. cursor \in 1..Len(Order)
    BY <2>1, OrderType, CursorType
  <2>3. pc' = "undo" /\ own' = own /\ cursor' = cursor - 1
    BY DEF Undo
  <2>4. UNCHANGED <<there, meta, staged, mem, history, bounds>>
    BY DEF Undo
  <2>5. QED
    BY <2>1, <2>2, <2>3, <2>4, OrderType DEF Files
<1>2. Restores(mem, p) /\ Fits(mem)
  BY <1>1, CalmParts DEF RollsBack
<1>3. /\ \A q \in Files : q # p => target'[q] = target[q]
      /\ \A q \in Paths : q # p => backup'[q] = backup[q]
      /\ target'[p] = origin[p]
  BY <1>1, <1>2 DEF Undo, Restores, Removes, Typed, TypeOK
<1>4. Apart'
  BY <1>1, <1>3, CalmParts DEF Apart, history
<1>5. RollsBack'
  <2>1. \A k \in 1..Len(Order) : k # cursor => Order[k] # p /\ Order[k] \in Paths /\ Order[k] \in Files
    BY <1>1, OrderType DEF Files
  <2>2. \A k \in 1..Len(Order) : k <= cursor' => Restores(mem, Order[k])'
    BY <1>1, <1>3, <2>1, CalmParts DEF RollsBack, Restores, history
  <2>3. \A k \in 1..Len(Order) : k > cursor' => target'[Order[k]] = origin[Order[k]]
    BY <1>1, <1>3, <2>1, CalmParts DEF RollsBack
  <2>4. QED
    BY <1>1, <1>2, <2>2, <2>3 DEF RollsBack, Fits, history
<1>6. Recoverable'
  BY <1>1, OrderType DEF Recoverable, Untouched
<1>7. Whole'
  BY <1>1 DEF Whole, Typed
<1>8. Own' /\ Knows' /\ Advancing'
  BY <1>1, CalmParts DEF Own, Knows, Advancing, Live, Stages
<1>9. QED
  BY <1>4, <1>5, <1>6, <1>7, <1>8 DEF Core

LEMMA UndoneCore == ASSUME Typed, Typed', Calm, Core, Undone PROVE Core'
<1>1. \A f \in Files : target[f] = origin[f]
  BY CalmParts, OrderType DEF Undone, RollsBack, Apart
<1>2. target = origin
  BY <1>1 DEF Typed, TypeOK
<1>3. target' = origin
  <2>1. CASE target' = target
    BY <1>2, <2>1
  <2>2. CASE ~mem.dirExisted /\ target' = [f \in Files |-> "none"]
    BY <2>2, CalmParts DEF Undone, RollsBack, Fits, Typed
  <2>3. QED
    BY <2>1, <2>2 DEF Undone
<1>4. QED
  BY <1>3, CalmParts
  DEF Undone, Core, Apart, Whole, Recoverable, Own, Knows, RollsBack, Advancing, Live, Stages,
      Goto, history

LEMMA PurgeCore == ASSUME Typed, Typed', Calm, Core, Purge PROVE Core'
BY CalmParts
DEF Purge, Core, Apart, Whole, Recoverable, Own, Knows, RollsBack, Advancing, Live, Stages,
    history, memory

LEMMA PurgedCore == ASSUME Typed, Typed', Calm, Core, Purged PROVE Core'
BY CalmParts
DEF Purged, Core, Apart, Whole, Recoverable, Own, Knows, RollsBack, Advancing, Live, Stages,
    history, Goto

\* Where the runs are interrupted, nothing is half removed or half rolled back.
LEMMA InterruptedEarly ==
    ASSUME RollbacksRun, Typed, MayInterrupt
    PROVE  pc # "idle" /\ pc # "purge" /\ Untouched
<1>1. "purge" \notin setting.interrupts /\ "rollback" \notin setting.interrupts
  BY DEF RollbacksRun, Typed
<1>2. ASSUME pc = "purge" PROVE Interruptible = "purge"
  <2>1. pc \in {"purge", "stage"} /\ pc # "idle" /\ pc # "undo" /\ pc # "save"
    BY <1>2
  <2>2. QED
    BY <1>2, <2>1, Zenon DEF Interruptible
<1>3. ASSUME pc = "undo", cursor < Len(Order) PROVE Interruptible = "rollback"
  <2>1. pc \notin {"purge", "stage"} /\ pc # "idle" /\ pc # "save" /\ cursor # Len(Order)
    BY <1>3, OrderType, CursorType
  <2>2. QED
    BY <1>3, <2>1, Zenon DEF Interruptible
<1>4. pc = "undo" => cursor \in 0..Len(Order)
  BY OrderType, CursorType
<1>5. QED
  BY <1>1, <1>2, <1>3, <1>4, InterruptedRuns, OrderType DEF MayInterrupt, Untouched

LEMMA CrashCore == ASSUME RollbacksRun, Typed, Typed', Calm, Core, Crash PROVE Core'
<1>1. pc # "idle" /\ pc # "purge" /\ Untouched
  BY InterruptedEarly DEF Crash
<1>2. meta' = meta \/ ~Readable(meta')
  BY DEF Crash, Torn, Readable, Unreadable
<1>3. Recoverable'
  BY <1>1, <1>2, CalmParts
  DEF Recoverable, Crash, Readable, Restorable, Fits, Restores, Untouched, Goto, Live, Stages, history
<1>4. QED
  BY <1>1, <1>3, CalmParts
  DEF Crash, Core, Apart, Whole, Own, Knows, RollsBack, Advancing, Live, Stages, history, Goto

LEMMA CoreStep ==
    ASSUME RollbacksRun, Typed, Typed', Core, [Next]_vars
    PROVE  Core'
<1> SUFFICES ASSUME Calm' PROVE Core'
  BY DEF Core
<1>1. Calm
  BY StaysCalm
<1>2. CASE Refuse
  <2>1. Live /\ UNCHANGED <<disk, own, history, setting>> /\ Fail
    BY <1>2 DEF Refuse, Live, Stages, bounds
  <2>2. QED
    BY <1>1, <2>1, FailCore DEF Untouched, Live, Stages, disk
<1>3. CASE Fault
  <2>1. pc # "idle" /\ pc # "purge" /\ Untouched
    BY <1>3, InterruptedEarly DEF Fault
  <2>2. meta' = meta \/ ~Readable(meta')
    BY <1>3 DEF Fault, Torn, Readable, Unreadable
  <2>3. QED
    BY <1>1, <1>3, <2>1, <2>2, FailCore DEF Fault
<1>4. CASE Crash
  BY <1>1, <1>4, CrashCore
<1>5. ASSUME NEW f \in Files, Edit(f) PROVE FALSE
  BY <1>1, <1>5, SettingType DEF Edit, Calm, Typed
<1>6. CASE UNCHANGED vars
  BY <1>6
  DEF Core, Calm, Apart, Whole, Recoverable, Own, Knows, RollsBack, Advancing, Live, Stages, Ahead,
      Untouched, Restorable, Fits, Restores, Before, Ready, vars, disk, memory, history, bounds
<1>7. CASE \E kind \in setting.kinds : Plan(kind)
  BY <1>1, <1>7, PlanCore
<1>8. CASE Apply
  BY <1>1, <1>2, <1>8, RecoverLookCore, OpenCore, WriteCore, StageCore, StagedCore,
     StartCommitCore, SkipCore, BackupCore, MoveCore, CommitCore, UndoCore, UndoneCore,
     PurgeCore, PurgedCore
  DEF Apply
<1>9. QED
  BY <1>3, <1>4, <1>5, <1>6, <1>7, <1>8 DEF Next, Run

\* When no transaction is left over, the last one has done all it was to do or
\* nothing, whatever was interrupted up to the start of its rollback, where the
\* user leaves the target alone.
THEOREM AllIsDoneOrNothing ==
    ASSUME RollbacksRun
    PROVE  Spec => []AllOrNothing
<1>1. Core => AllOrNothing
  BY DEF Core, Calm, Whole, AllOrNothing
<1>2. Typed /\ Typed' /\ Core /\ [Next]_vars => Core'
  BY CoreStep
<1>3. QED
  BY <1>1, <1>2, CoreInit, TypedHolds, PTL DEF Spec

-----------------------------------------------------------------------------
(* The version file.                                                        *)

IsObsolete(p) == p \in {Obsolete[k] : k \in DOMAIN Obsolete}

\* A target without a version file has nothing of a release.
Versioned(fs) == fs[Version] = "none" => \A p \in Paths : fs[p] = "none"

\* The release is complete where the last transaction is to lead.
Complete ==
    \A p \in Paths :
        IF IsObsolete(p) THEN goal[p] = "none"
        ELSE goal[p] = "new" \/ (p \in Protected /\ goal[p] # "none")

\* A plan that writes the version file writes all the rest, and writes it
\* where it does not name this release already.
Announces(m) ==
    IF m.action[Version] = "keep" THEN backup[Version] = "none"
    ELSE origin[Version] # "new" /\ Complete

VersionInv ==
    Calm => /\ Versioned(origin) /\ Versioned(goal)
            /\ Live \/ pc = "undo" => Announces(mem)
            /\ there /\ Readable(meta) => Announces(meta)

\* The runs begin with a release and its version file, or with neither: the
\* version file is the last that a transaction puts into place.
StartsVersioned == \A s \in Settings : s.edits = 0 => Versioned(s.start.files)


LEMMA VersionIsLast ==
    /\ Order[Len(Order)] = Version
    /\ Version \in Paths /\ Version \in Files
    /\ ~IsObsolete(Version)
<1> DEFINE S == {Assets[k] : k \in DOMAIN Assets} \cup {Obsolete[k] : k \in DOMAIN Obsolete}
                    \cup {Version}
<1>1. Assets \in Seq(S) /\ Obsolete \in Seq(S)
  BY PathAssumption
<1>2. /\ Assets \o Obsolete \in Seq(S) /\ Len(Assets \o Obsolete) = Len(Assets) + Len(Obsolete)
      /\ \A k \in 1..Len(Obsolete) : (Assets \o Obsolete)[Len(Assets) + k] = Obsolete[k]
  BY <1>1
<1>3. /\ Len(Order) = Len(Assets \o Obsolete) + 1 /\ Order[Len(Order)] = Version
      /\ \A k \in 1..Len(Assets \o Obsolete) : Order[k] = (Assets \o Obsolete)[k]
  BY <1>2, AppendProperties DEF Order
<1>4. ASSUME NEW k \in DOMAIN Obsolete PROVE Obsolete[k] # Version
  <2>1. k \in 1..Len(Obsolete) /\ Len(Assets) \in Nat /\ Len(Obsolete) \in Nat
    BY <1>1, <1>4
  <2>2. /\ Len(Assets) + k \in 1..Len(Order) /\ Len(Assets) + k # Len(Order)
        /\ Order[Len(Assets) + k] = Obsolete[k]
    BY <1>2, <1>3, <2>1
  <2>3. QED
    BY <1>3, <2>1, <2>2, OrderType
<1>5. QED
  BY <1>3, <1>4, OrderType DEF Files, IsObsolete

\* What sync plans for the version file, for what is obsolete and for the rest.
LEMMA SyncPlans ==
    ASSUME NEW p \in Paths
    PROVE  /\ p = Version => SyncAction(p) = IF target[p] = "new" THEN "keep" ELSE "update"
           /\ IsObsolete(p) => SyncAction(p) = IF target[p] = "none" THEN "keep" ELSE "delete"
           /\ p # Version /\ ~IsObsolete(p) =>
                 SyncAction(p) = IF target[p] = "none" THEN "create"
                                 ELSE IF target[p] = "new" \/ p \in Protected THEN "keep"
                                 ELSE "update"
<1>1. IsObsolete(p) => p # Version
  BY VersionIsLast
<1>2. ASSUME p = Version, ~IsObsolete(p)
      PROVE  SyncAction(p) = IF target[p] = "new" THEN "keep" ELSE "update"
  BY <1>2, Zenon DEF SyncAction, IsObsolete
<1>3. ASSUME p # Version, IsObsolete(p)
      PROVE  SyncAction(p) = IF target[p] = "none" THEN "keep" ELSE "delete"
  BY <1>3, Zenon DEF SyncAction, IsObsolete
<1>4. ASSUME p # Version, ~IsObsolete(p)
      PROVE  SyncAction(p) = IF target[p] = "none" THEN "create"
                             ELSE IF target[p] = "new" \/ p \in Protected THEN "keep"
                             ELSE "update"
  BY <1>4, Zenon DEF SyncAction, IsObsolete
<1>5. QED
  BY <1>1, <1>2, <1>3, <1>4

LEMMA VersionInit == ASSUME StartsVersioned, Init PROVE VersionInv
BY DEF StartsVersioned, Init, VersionInv, Calm, Live, Stages, Readable

LEMMA OpenVersion ==
    ASSUME Typed, Core, VersionInv, Calm, Calm', Open
    PROVE  VersionInv'
<1> USE VersionIsLast
<1>1. PICK kind \in setting.kinds : plan = NewPlan(kind)
  BY DEF Calm, Open
<1>2. kind \in {"init", "sync"}
  BY SettingAssumption DEF Typed, Setting
<1>3. Versioned(target)
  BY CalmParts DEF Whole, Open, VersionInv
<1>4. /\ origin' = target /\ backup' = NoFiles /\ mem'.action = plan
      /\ target \in [Files -> Contents] /\ Paths \subseteq Files
      /\ \A p \in Paths : goal'[p] = IF plan[p] \in {"create", "update"} THEN "new"
                                     ELSE IF plan[p] = "delete" THEN "none" ELSE target[p]
  BY DEF Open, Typed, TypeOK, Files
<1>5. CASE kind = "init"
  <2>1. \A p \in Paths : plan[p] = IF target[p] = "none" /\ ~IsObsolete(p) THEN "create" ELSE "keep"
    BY <1>1, <1>5 DEF NewPlan, InitAction, IsObsolete
  <2>2. goal'[Version] # "none"
    BY <1>4, <2>1
  <2>3. plan[Version] # "keep" => origin'[Version] # "new" /\ Complete'
    BY <1>3, <1>4, <2>1 DEF Versioned, Complete
  <2>4. QED
    BY <1>3, <1>4, <2>2, <2>3
    DEF VersionInv, Versioned, Announces, NoFiles, Open, Readable, NoMetadata, Unreadable
<1>6. CASE kind = "sync"
  <2>1. \A p \in Paths : plan[p] = SyncAction(p)
    BY <1>1, <1>6 DEF NewPlan
  <2>2. goal'[Version] # "none"
    BY <1>4, <2>1, SyncPlans
  <2>3. plan[Version] # "keep" => origin'[Version] # "new"
    BY <1>4, <2>1, SyncPlans
  <2>4. ASSUME plan[Version] # "keep", NEW p \in Paths
        PROVE  IF IsObsolete(p) THEN goal'[p] = "none"
               ELSE goal'[p] = "new" \/ (p \in Protected /\ goal'[p] # "none")
    BY <1>4, <2>1, <2>4, SyncPlans
  <2>5. plan[Version] # "keep" => Complete'
    BY <2>4 DEF Complete
  <2>6. QED
    BY <1>3, <1>4, <2>2, <2>3, <2>5
    DEF VersionInv, Versioned, Announces, NoFiles, Open, Readable, NoMetadata, Unreadable
<1>7. QED
  BY <1>2, <1>5, <1>6

\* No other step changes a plan, or what the transaction is to lead to.
LEMMA PlansStay ==
    ASSUME RollbacksRun, Typed, [Next]_vars, ~Open
    PROVE  /\ UNCHANGED <<origin, goal>>
           /\ meta' = meta \/ ~Readable(meta') \/ (Write /\ meta' = mem)
           /\ mem'.action = mem.action \/ (RecoverLook /\ there /\ Readable(meta) /\ mem' = meta)
           /\ there' => there
           /\ ~(Live \/ pc = "undo") /\ (Live \/ pc = "undo")' => RecoverLook
<1> USE DEF Goto, Save, Live, Stages, history
<1>1. ASSUME NEW kind, Plan(kind) PROVE UNCHANGED <<origin, goal, meta, mem, there>> /\ ~(Live \/ pc = "undo")'
  BY <1>1 DEF Plan, disk
<1>2. CASE RecoverLook
  BY <1>2 DEF RecoverLook, disk, Readable
<1>3. CASE Write
  BY <1>3 DEF Write
<1>4. CASE Move \/ Staged \/ StartCommit \/ Commit
  <2>1. mem \in Metadata
    BY <1>4 DEF Move, Staged, StartCommit, Commit, Typed
  <2>2. mem'.action = mem.action
    BY <1>4, <2>1 DEF Move, Staged, StartCommit, Commit, Metadata
  <2>3. QED
    BY <1>4, <2>2 DEF Move, Staged, StartCommit, Commit, disk
<1>5. CASE Stage \/ Skip \/ Backup \/ Undo \/ Undone
  BY <1>5 DEF Stage, Skip, Backup, Undo, Undone, disk
<1>6. CASE Purge
  BY <1>6 DEF Purge, memory, Readable, NoMetadata, Unreadable
<1>7. CASE Purged
  BY <1>7 DEF Purged
<1>8. CASE Refuse \/ Fault
  <2>1. Fail /\ pc # "idle" /\ pc # "purge"
    BY <1>8, InterruptedEarly DEF Refuse, Fault
  <2>2. mem'.action = mem.action
    BY <2>1 DEF Fail, Typed, TypeOK, Metadata, NoMetadata, Unreadable
  <2>3. meta' = meta \/ ~Readable(meta')
    BY <1>8 DEF Refuse, Fault, Torn, disk, Readable, Unreadable
  <2>4. pc # "recover" => Live \/ pc = "undo"
    BY <2>1 DEF Typed, TypeOK
  <2>5. (Live \/ pc = "undo")' => Live \/ pc = "undo"
    BY <2>1, <2>4 DEF Fail
  <2>6. UNCHANGED <<origin, goal, there>>
    BY <1>8 DEF Refuse, Fault, disk
  <2>7. QED
    BY <2>2, <2>3, <2>5, <2>6
<1>9. CASE Crash
  BY <1>9 DEF Crash, Torn, Readable, Unreadable
<1>10. ASSUME NEW f \in Files, Edit(f) PROVE UNCHANGED <<origin, goal, meta, mem, there, pc>>
  BY <1>10 DEF Edit, memory
<1>11. CASE UNCHANGED vars
  BY <1>11 DEF vars, disk, memory
<1>12. QED
  BY <1>1, <1>2, <1>3, <1>4, <1>5, <1>6, <1>7, <1>8, <1>9, <1>10, <1>11 DEF Next, Run, Apply


\* A backup of the version file is made only by a plan that writes it.
LEMMA BackupStays ==
    ASSUME Typed, [Next]_vars, ~Open
    PROVE  backup'[Version] \in {backup[Version], "none"} \/ (Backup /\ Order[cursor] = Version)
<1> USE VersionIsLast DEF NoFiles
<1>1. CASE Backup
  BY <1>1 DEF Backup, Typed, TypeOK
<1>2. CASE Undo
  BY <1>2 DEF Undo, Typed, TypeOK
<1>3. CASE Purge
  BY <1>3 DEF Purge, Typed, TypeOK
<1>4. CASE ~Backup /\ ~Undo /\ ~Purge
  <2>1. backup' = backup
    BY <1>4 DEF Next, Run, Apply, Plan, RecoverLook, Write, Stage, Staged, StartCommit, Skip, Move,
       Commit, Refuse, Undone, Purged, Fault, Crash, Edit, vars, disk
  <2>2. QED
    BY <2>1
<1>5. QED
  BY <1>1, <1>2, <1>3, <1>4

LEMMA VersionStep ==
    ASSUME RollbacksRun, Typed, Core, VersionInv, [Next]_vars
    PROVE  VersionInv'
<1> SUFFICES ASSUME Calm' PROVE VersionInv'
  BY DEF VersionInv
<1>1. Calm
  BY StaysCalm
<1>2. CASE Open
  BY <1>1, <1>2, OpenVersion
<1>3. CASE ~Open
  <2>1. UNCHANGED <<origin, goal>> /\ (Complete' <=> Complete)
    BY <1>3, PlansStay DEF Complete
  <2>2. ASSUME NEW m, Announces(m), Backup /\ Order[cursor] = Version => m.action[Version] # "keep"
        PROVE  /\ m.action[Version] = "keep" => backup'[Version] = "none"
               /\ m.action[Version] # "keep" => origin'[Version] # "new" /\ Complete'
    BY <1>3, <2>1, <2>2, BackupStays DEF Announces
  <2>3. /\ Backup => Live /\ mem.action[Order[cursor]] # "keep" /\ pc # "undo" /\ meta' = meta
        /\ Backup /\ Readable(meta) => meta.action = mem.action
    BY <1>1, CalmParts DEF Backup, Live, Stages, Own
  <2>4. Live \/ pc = "undo" => Announces(mem)
    BY <1>1 DEF VersionInv
  <2>5. there /\ Readable(meta) => Announces(meta)
    BY <1>1 DEF VersionInv
  <2>6. Write => Live /\ there
    BY DEF Write, Live, Stages, Typed
  <2>7. (Live \/ pc = "undo")' => Announces(mem)'
    <3>1. CASE mem'.action = mem.action /\ (Live \/ pc = "undo")
      BY <2>2, <2>3, <2>4, <3>1 DEF Announces
    <3>2. CASE RecoverLook /\ there /\ Readable(meta) /\ mem' = meta
      BY <2>2, <2>3, <2>5, <3>2 DEF Announces
    <3>3. CASE RecoverLook /\ (Live \/ pc = "undo")' /\ mem'.action = mem.action
      <4>1. there /\ Readable(meta) /\ mem' = meta
        BY <3>3 DEF RecoverLook, Readable, Goto, Live, Stages
      <4>2. QED
        BY <3>3, <4>1, <3>2
    <3>4. QED
      BY <1>3, <3>1, <3>2, <3>3, PlansStay
  <2>8. (there /\ Readable(meta))' => Announces(meta)'
    <3>1. CASE meta' = meta
      BY <1>3, <2>2, <2>3, <2>5, <3>1, PlansStay DEF Announces, Readable
    <3>2. CASE Write /\ meta' = mem
      BY <1>3, <2>2, <2>3, <2>4, <2>6, <3>2, PlansStay DEF Announces, Write
    <3>3. QED
      BY <1>3, <3>1, <3>2, PlansStay DEF Readable
  <2>9. Versioned(origin)' /\ Versioned(goal)'
    BY <1>1, <2>1 DEF VersionInv, Versioned
  <2>10. QED
    BY <2>7, <2>8, <2>9 DEF VersionInv
<1>4. QED
  BY <1>2, <1>3

\* The version file comes to name this release only when it is moved into place.
LEMMA VersionMoves ==
    ASSUME Typed, Calm, Core, VersionInv, [Next]_vars, ~NamesRelease, NamesRelease'
    PROVE  Move /\ Order[cursor] = Version /\ mem.action[Version] # "keep"
<1> USE VersionIsLast DEF NamesRelease
<1>1. target'[Version] # target[Version]
  OBVIOUS
<1>2. CASE Backup
  BY <1>1, <1>2 DEF Backup, Typed, TypeOK
<1>3. CASE Move
  <2>1. cursor \in 1..Len(Order) /\ Live /\ Ahead = "move"
    BY <1>3, OrderType DEF Move, Typed, TypeOK, Live, Stages, Ahead
  <2>2. Order[cursor] = Version
    BY <1>1, <1>3, <2>1 DEF Move, Typed, TypeOK
  <2>3. QED
    BY <1>3, <2>1, <2>2, CalmParts DEF Advancing
<1>4. CASE Undo
  <2>1. cursor \in 1..Len(Order)
    BY <1>4, OrderType, CursorType DEF Undo
  <2>2. Order[cursor] = Version /\ backup[Version] = "new"
    BY <1>1, <1>4, <2>1 DEF Undo, Typed, TypeOK
  <2>3. Restores(mem, Version) /\ Announces(mem)
    BY <1>4, <2>1, <2>2, CalmParts DEF RollsBack, VersionInv, Undo
  <2>4. QED
    BY <2>2, <2>3 DEF Restores, Announces
<1>5. CASE Undone
  BY <1>1, <1>5 DEF Undone
<1>6. ASSUME NEW f \in Files, Edit(f) PROVE FALSE
  BY <1>6, SettingType DEF Edit, Calm, Typed
<1>7. CASE ~Backup /\ ~Move /\ ~Undo /\ ~Undone /\ ~\E f \in Files : Edit(f)
  <2>1. target' = target
    BY <1>7 DEF Next, Run, Apply, Plan, RecoverLook, Open, Write, Stage, Staged, StartCommit, Skip,
       Commit, Refuse, Purge, Purged, Fault, Crash, vars, disk
  <2>2. QED
    BY <1>1, <2>1
<1>8. QED
  BY <1>2, <1>3, <1>4, <1>5, <1>6, <1>7

\* When the version file comes to name this release, every asset is of this
\* release and nothing obsolete is left, if targets without a version file have
\* nothing of a release, and rollbacks run to their end.
THEOREM VersionIsTrue ==
    ASSUME RollbacksRun, StartsVersioned
    PROVE  Spec => VersionTells
<1> DEFINE Told == setting.edits = 0 /\ ~NamesRelease /\ NamesRelease' /\ ~outdated => AllNew'
<1>1. ASSUME Typed, Typed', Core, Core', VersionInv, [Next]_vars PROVE [Told]_vars
  <2> SUFFICES ASSUME Calm, ~NamesRelease, NamesRelease' PROVE AllNew'
    BY DEF Calm
  <2>1. Move /\ Order[cursor] = Version /\ mem.action[Version] # "keep"
    BY <1>1, VersionMoves
  <2>2. /\ cursor \in 1..Len(Order) /\ Live /\ Live' /\ Ahead' = "commit" /\ Calm'
        /\ cursor' = cursor + 1 /\ goal' = goal
    BY <1>1, <2>1, OrderType
    DEF Move, Typed, TypeOK, Live, Stages, Ahead, Goto, Save, Calm, bounds
  <2>3. cursor = Len(Order)
    <3>1. Order[cursor] = Order[Len(Order)]
      BY <2>1, VersionIsLast
    <3>2. Len(Order) \in 1..Len(Order)
      BY OrderType
    <3>3. QED
      BY <2>2, <3>1, <3>2, OrderType
  <2>4. Advancing'
    BY <1>1, <2>2, CalmParts DEF Core
  <2>5. \A k \in 1..Len(Order) : target'[Order[k]] = goal[Order[k]]
    BY <2>2, <2>3, <2>4, OrderType DEF Advancing
  <2>6. \A p \in Paths : target'[p] = goal[p]
    BY <2>5, OrderType
  <2>7. Complete
    BY <1>1, <2>1, <2>2 DEF VersionInv, Announces
  <2>8. QED
    BY <2>6, <2>7 DEF AllNew, Complete, IsObsolete
<1>2. Typed /\ Typed' /\ Core /\ [Next]_vars => Core'
  BY CoreStep
<1>3. Typed /\ Core /\ VersionInv /\ [Next]_vars => VersionInv'
  BY VersionStep
<1>4. Init => VersionInv
  BY VersionInit
<1>5. QED
  BY <1>1, <1>2, <1>3, <1>4, CoreInit, TypedHolds, PTL DEF Spec, VersionTells

-----------------------------------------------------------------------------
(* The user's files.                                                        *)

\* Only commits are interrupted.
InCommit == setting.interrupts = {"commit"}

\* What a rollback that goes by m removes is what the transaction has put there.
Accounted(m, p) ==
    backup[p] = "none" /\ (p \in m.committed \/ (m.action[p] = "create" /\ staged[p] = "none"))
        => p \in moved

Staging == Live /\ Ahead = "stage"

\* The target directory was there before.
Settled == dir /\ mem.dirExisted /\ meta.dirExisted

\* No file has been moved while the new ones are being staged.
NothingYet ==
    Staging =>
        /\ mem.status = "staging" /\ mem.committed = {}
        /\ \A k \in 1..Len(Order) : k < cursor => Ready(k)

\* What is on disk is what the run has in memory, or one record behind.
Behind ==
    Live /\ Readable(meta) => meta.action = mem.action /\ meta.committed \subseteq mem.committed

\* A file that is about to be deleted is in the backup.
Saved == Live /\ Ahead = "move" /\ mem.action[Order[cursor]] = "delete" =>
             backup[Order[cursor]] # "none"

AllAccounted ==
    /\ Live /\ ~Staging => \A p \in Paths : Accounted(mem, p)
    /\ pc = "undo" => \A k \in 1..Len(Order) : k <= cursor => Accounted(mem, Order[k])
    /\ there /\ pc \notin {"undo", "purge"} /\ ~Staging /\ Readable(meta) =>
          \A p \in Paths : Accounted(meta, p)

UserInv == InCommit => Settled /\ NothingYet /\ Behind /\ Saved /\ AllAccounted

\* Where the runs are interrupted in their commits and users write files, the
\* target directory was there before: the rollback of a first init removes it.
StartsSettled == \A s \in Settings : s.interrupts = {"commit"} => s.start.dir

LEMMA UserInit == ASSUME StartsSettled, Init PROVE UserInv
BY DEF StartsSettled, Init, UserInv, InCommit, Settled, NoMetadata, Unreadable, NothingYet, Behind,
       Saved, AllAccounted, Staging, Live, Stages, Readable

\* Nothing but a commit is interrupted: no staging, rollback or removal.
LEMMA InterruptedInCommit ==
    ASSUME Typed, UserInv, InCommit, MayInterrupt
    PROVE  pc \notin {"idle", "purge", "undo"} /\ ~Staging
<1>1. Interruptible = "commit"
  BY DEF InCommit, MayInterrupt
<1>2. pc # "idle"
  BY InterruptedRuns
<1>3. ASSUME pc \in {"purge", "stage"} PROVE FALSE
  <2>1. pc # "idle"
    BY <1>3
  <2>2. Interruptible \in {"purge", "stage"}
    BY <1>3, <2>1, Zenon DEF Interruptible
  <2>3. QED
    BY <1>1, <2>2
<1>4. ASSUME pc = "undo" PROVE FALSE
  <2>1. cursor < Len(Order) \/ cursor = Len(Order)
    BY <1>4, OrderType, CursorType
  <2>2. /\ pc # "idle" /\ pc \notin {"purge", "stage"} /\ pc # "save"
        /\ cursor < Len(Order) => cursor # Len(Order)
    BY <1>4, OrderType, CursorType
  <2>3. Interruptible \in {"rollback", "rollback-start"}
    BY <1>4, <2>1, <2>2, Zenon DEF Interruptible
  <2>4. QED
    BY <1>1, <2>3
<1>5. ASSUME pc = "save", Staging PROVE FALSE
  <2>1. mem.status = "staging"
    BY <1>5 DEF UserInv, NothingYet
  <2>2. pc # "idle" /\ pc \notin {"purge", "stage"} /\ pc # "undo" /\
        mem.status \notin {"rolling-back", "rollback-failed"}
    BY <1>5, <2>1
  <2>3. Interruptible = "open"
    BY <1>5, <2>1, <2>2, Zenon DEF Interruptible
  <2>4. QED
    BY <1>1, <2>3
<1>6. QED
  BY <1>2, <1>3, <1>4, <1>5 DEF Staging, Live, Stages, Ahead

LEMMA UserParts ==
    ASSUME UserInv, InCommit
    PROVE  Settled /\ NothingYet /\ Behind /\ Saved /\ AllAccounted
BY DEF UserInv

\* A run's own metadata, on disk, tells no more than what the run has in memory.
LEMMA BehindAccounted ==
    ASSUME NEW m, NEW n, NEW p \in Paths, Accounted(m, p),
           n.action = m.action, n.committed \subseteq m.committed
    PROVE  Accounted(n, p)
BY DEF Accounted

LEMMA RecoverLookUser == ASSUME Typed, UserInv, InCommit, RecoverLook PROVE UserInv'
BY UserParts, OrderType
DEF RecoverLook, UserInv, Settled, NothingYet, Behind, Saved, AllAccounted, Staging, Live, Stages,
    Readable, Accounted, Goto, disk, history, bounds, Ahead

LEMMA OpenUser == ASSUME Typed, UserInv, InCommit, Open PROVE UserInv'
BY UserParts, OrderType
DEF Open, UserInv, Settled, NothingYet, Behind, Saved, AllAccounted, Staging, Live, Stages, Ahead,
    Readable, Goto, Save, NoMetadata, Unreadable, Typed, TypeOK

LEMMA WriteUser == ASSUME Typed, Typed', UserInv, InCommit, Write PROVE UserInv'
<1> USE UserParts DEF Write, Goto, Live, Stages, Ahead, Staging
<1>1. Settled' /\ NothingYet' /\ Behind' /\ Saved'
  BY DEF Settled, NothingYet, Behind, Saved, Ready
<1>2. AllAccounted'
  <2>1. ~Staging => \A p \in Paths : Accounted(mem, p)' /\ Accounted(meta, p)'
    BY DEF AllAccounted, Accounted, history
  <2>2. QED
    BY <2>1, OrderType DEF AllAccounted, Typed
<1>3. QED
  BY <1>1, <1>2 DEF UserInv

LEMMA StageUser == ASSUME Typed, Typed', UserInv, InCommit, Stage PROVE UserInv'
<1> USE UserParts DEF Stage, Live, Stages, Ahead, Staging
<1>1. Settled' /\ Behind' /\ Saved' /\ AllAccounted'
  BY DEF Settled, Behind, Saved, AllAccounted, Accounted, bounds
<1>2. cursor \in 1..Len(Order)
  BY OrderType DEF Typed, TypeOK
<1>3. \A k \in 1..Len(Order) : k < cursor' => Ready(k)'
  BY <1>2, OrderType DEF NothingYet, Ready, Typed, TypeOK
<1>4. QED
  BY <1>1, <1>3 DEF UserInv, NothingYet

LEMMA StagedUser == ASSUME Typed, Typed', UserInv, InCommit, Staged PROVE UserInv'
<1> USE UserParts DEF Staged, Live, Stages, Ahead, Staging, Goto, Save, disk, history
<1>1. /\ mem \in Metadata /\ mem.committed = {} /\ \A k \in 1..Len(Order) : Ready(k)
  BY OrderType DEF NothingYet, Typed, TypeOK
<1>2. /\ mem'.action = mem.action /\ mem'.committed = {} /\ mem'.dirExisted = mem.dirExisted
  BY <1>1, StatusChanges DEF Statuses
<1>3. Settled' /\ NothingYet' /\ Behind' /\ Saved'
  BY <1>2 DEF Settled, NothingYet, Behind, Saved, bounds, Readable
<1>4. \A p \in Paths : Accounted(mem, p)'
  BY <1>1, <1>2, OrderType DEF Ready, Accounted
<1>5. Readable(meta) => \A p \in Paths : Accounted(meta, p)'
  BY <1>2, <1>4 DEF Behind, Accounted
<1>6. QED
  BY <1>3, <1>4, <1>5 DEF UserInv, AllAccounted, Readable

\* The next status is written.
LEMMA StatusUser ==
    ASSUME Typed, Typed', UserInv, InCommit, Live, ~Staging, StartCommit \/ Skip \/ Commit
    PROVE  UserInv'
<1> USE UserParts DEF Live, Stages, Ahead, Staging, Goto, Save, disk, history
<1>1. /\ mem'.action = mem.action /\ mem'.committed = mem.committed
      /\ mem'.dirExisted = mem.dirExisted
  <2>1. mem \in Metadata
    BY DEF Typed
  <2>2. \/ mem' = mem
        \/ mem' = [mem EXCEPT !.status = "committing"]
        \/ mem' = [mem EXCEPT !.status = "committed"]
    BY DEF StartCommit, Skip, Commit
  <2>3. "committing" \in Statuses /\ "committed" \in Statuses
    BY DEF Statuses
  <2>4. CASE mem' = [mem EXCEPT !.status = "committing"]
    BY <2>1, <2>3, <2>4, StatusChanges
  <2>5. CASE mem' = [mem EXCEPT !.status = "committed"]
    BY <2>1, <2>3, <2>5, StatusChanges
  <2>6. QED
    BY <2>2, <2>4, <2>5
<1>2. /\ Live' /\ ~Staging' /\ pc' # "undo" /\ Ahead' # "move"
      /\ UNCHANGED <<disk, history, own, setting>>
  BY DEF StartCommit, Skip, Commit, bounds
<1>3. Settled' /\ NothingYet' /\ Behind' /\ Saved'
  BY <1>1, <1>2 DEF Settled, NothingYet, Behind, Saved, Readable
<1>4. AllAccounted'
  BY <1>1, <1>2 DEF AllAccounted, Accounted, Readable
<1>5. QED
  BY <1>3, <1>4 DEF UserInv

LEMMA BackupUser == ASSUME Typed, Typed', UserInv, InCommit, Backup PROVE UserInv'
<1> DEFINE p == Order[cursor]
<1> USE UserParts DEF Live, Stages, Ahead, Staging, Goto, Save
<1>1. /\ cursor \in 1..Len(Order) /\ p \in Paths /\ p \in Files
      /\ pc = "commit" /\ Live' /\ ~Staging' /\ Ahead' = "move"
      /\ UNCHANGED <<dir, there, meta, staged, mem, cursor, own, history, setting>>
  <2>1. pc = "commit" /\ cursor <= Len(Order) /\ Live' /\ ~Staging' /\ Ahead' = "move"
    BY DEF Backup
  <2>2. cursor \in 1..Len(Order)
    BY <2>1, OrderType, CursorType DEF Typed
  <2>3. UNCHANGED <<dir, there, meta, staged, mem, cursor, own, history, setting>>
    BY DEF Backup, bounds
  <2>4. QED
    BY <2>1, <2>2, <2>3, OrderType DEF Files
<1>2. \A q \in Paths : backup'[q] = "none" => backup[q] = "none"
  BY <1>1 DEF Backup, Typed, TypeOK
<1>3. mem.action[p] = "delete" => backup'[p] # "none"
  BY <1>1 DEF Backup, TargetAsPlanned, Typed, TypeOK
<1>4. Settled' /\ NothingYet' /\ Behind' /\ Saved'
  BY <1>1, <1>3 DEF Settled, NothingYet, Behind, Saved, Readable
<1>5. AllAccounted'
  BY <1>1, <1>2 DEF AllAccounted, Accounted, Readable, history
<1>6. QED
  BY <1>4, <1>5 DEF UserInv

LEMMA MoveUser == ASSUME Typed, Typed', UserInv, InCommit, Move PROVE UserInv'
<1> DEFINE p == Order[cursor]
<1> USE UserParts DEF Live, Stages, Ahead, Staging, Goto, Save
<1>1. /\ cursor \in 1..Len(Order) /\ p \in Paths
      /\ pc = "move" /\ Live' /\ ~Staging' /\ Ahead' = "commit"
      /\ UNCHANGED <<there, meta, backup, own, setting>> /\ mem \in Metadata
  BY OrderType DEF Move, Typed, TypeOK, bounds
<1>2. /\ mem'.action = mem.action /\ mem'.committed = mem.committed \cup {p}
      /\ mem'.dirExisted = mem.dirExisted /\ mem'.status = mem.status
  BY <1>1, CommittedChanges DEF Move
<1>3. /\ moved \subseteq moved' /\ (p \in moved' \/ backup[p] # "none")
      /\ \A q \in Paths : q # p => staged'[q] = staged[q]
  BY <1>1 DEF Move, Saved, Typed, TypeOK
<1>4. dir' /\ Settled'
  <2>1. dir' = dir \/ dir' = TRUE
    BY DEF Move
  <2>2. dir /\ mem.dirExisted /\ meta.dirExisted
    BY DEF Settled
  <2>3. QED
    BY <1>1, <1>2, <2>1, <2>2 DEF Settled
<1>5. \A q \in Paths : Accounted(mem, q)'
  BY <1>1, <1>2, <1>3 DEF AllAccounted, Accounted
<1>6. Readable(meta) => meta.action = mem.action /\ meta.committed \subseteq mem.committed
  BY <1>1 DEF Behind
<1>7. NothingYet' /\ Behind' /\ Saved'
  BY <1>1, <1>2, <1>6 DEF NothingYet, Behind, Saved, Readable
<1>8. AllAccounted'
  BY <1>1, <1>2, <1>5, <1>6 DEF AllAccounted, Accounted, Readable
<1>9. QED
  BY <1>4, <1>7, <1>8 DEF UserInv

LEMMA FailUser ==
    ASSUME Typed, Typed', UserInv, InCommit, Fail, pc \notin {"idle", "purge", "undo"}, ~Staging,
           UNCHANGED <<dir, there, staged, meta, backup, own, history, setting>>
    PROVE  UserInv'
<1> USE UserParts DEF Live, Stages, Ahead, Staging, history
<1>1. Live \/ pc = "recover"
  BY DEF Typed, TypeOK
<1>2. /\ pc' = "idle" /\ mem' = mem
      \/ /\ Live /\ pc' = "save" /\ after' \in {"idle", "undo"}
         /\ mem'.action = mem.action /\ mem'.committed = mem.committed
         /\ mem'.dirExisted = mem.dirExisted
  BY <1>1, FailEffect DEF Typed
<1>3. Settled' /\ NothingYet' /\ Behind' /\ Saved'
  BY <1>2 DEF Settled, NothingYet, Behind, Saved, Readable
<1>4. AllAccounted'
  BY <1>2 DEF AllAccounted, Accounted, Readable
<1>5. QED
  BY <1>3, <1>4 DEF UserInv

LEMMA UndoUser == ASSUME Typed, Typed', UserInv, InCommit, Undo PROVE UserInv'
<1> USE UserParts DEF Live, Stages, Ahead, Staging, history
<1>1. /\ cursor \in 1..Len(Order) /\ cursor' = cursor - 1 /\ pc = "undo" /\ pc' = "undo"
      /\ UNCHANGED <<there, meta, staged, mem, moved, setting>> /\ dir' = dir
      /\ \A q \in Paths : q # Order[cursor] => backup'[q] = backup[q]
  <2>1. cursor \in 1..Len(Order) /\ cursor' = cursor - 1 /\ pc = "undo" /\ pc' = "undo"
    BY OrderType, CursorType DEF Undo
  <2>2. UNCHANGED <<there, meta, staged, mem, moved, setting>>
    BY DEF Undo, bounds
  <2>3. dir' = dir \/ dir' = TRUE
    BY DEF Undo
  <2>4. dir' = dir
    BY <2>3 DEF Settled
  <2>5. \A q \in Paths : q # Order[cursor] => backup'[q] = backup[q]
    BY DEF Undo, Typed, TypeOK
  <2>6. QED
    BY <2>1, <2>2, <2>4, <2>5
<1>2. \A k \in 1..Len(Order) : k <= cursor' => Order[k] # Order[cursor] /\ Order[k] \in Paths
  BY <1>1, OrderType
<1>3. AllAccounted'
  BY <1>1, <1>2, OrderType DEF AllAccounted, Accounted
<1>4. QED
  BY <1>1, <1>3 DEF UserInv, Settled, NothingYet, Behind, Saved

LEMMA EndUser ==
    ASSUME Typed, Typed', UserInv, InCommit, Undone \/ Purge \/ Purged
    PROVE  UserInv'
<1> USE UserParts DEF Live, Stages, Ahead, Staging, Goto
<1>1. /\ pc \in {"undo", "purge"} /\ ~Live' /\ ~Staging' /\ pc' # "undo"
      /\ there' /\ pc' # "purge" => FALSE
      /\ mem' = mem /\ (meta' = meta \/ meta' = NoMetadata) /\ dir' = dir
  BY DEF Undone, Purge, Purged, memory, Settled
<1>2. Settled'
  BY <1>1 DEF Settled, NoMetadata, Unreadable
<1>3. QED
  BY <1>1, <1>2 DEF UserInv, NothingYet, Behind, Saved, AllAccounted

LEMMA UserStep ==
    ASSUME Typed, Typed', UserInv, [Next]_vars
    PROVE  UserInv'
<1> SUFFICES ASSUME InCommit' PROVE UserInv'
  BY DEF UserInv
<1>1. InCommit
  BY DEF InCommit, Next, Run, Apply, Plan, RecoverLook, Open, Write, Stage, Staged, StartCommit,
     Skip, Backup, Move, Commit, Refuse, Undo, Undone, Purge, Purged, Fault, Crash, Edit, bounds, vars
<1> USE <1>1
<1>2. CASE Refuse
  <2>1. pc = "commit" /\ Fail /\ UNCHANGED <<disk, own, history, setting>>
    BY <1>2 DEF Refuse, bounds
  <2>2. QED
    BY <2>1, FailUser DEF disk, Staging, Ahead
<1>3. CASE Fault
  <2>1. meta' = meta
    BY <1>3 DEF Fault, Torn, InCommit
  <2>2. QED
    BY <1>3, <2>1, InterruptedInCommit, FailUser DEF Fault
<1>4. CASE Crash
  <2>1. meta' = meta
    BY <1>4 DEF Crash, Torn, InCommit
  <2>2. pc \notin {"idle", "purge", "undo"} /\ ~Staging
    BY <1>4, InterruptedInCommit DEF Crash
  <2>3. QED
    BY <1>4, <2>1, <2>2, UserParts
    DEF Crash, UserInv, Settled, NothingYet, Behind, Saved, AllAccounted, Accounted, Staging, Live,
        Stages, Ahead, Readable, Goto, history
<1>5. ASSUME NEW f \in Files, Edit(f) PROVE UserInv'
  BY <1>5, UserParts
  DEF Edit, UserInv, Settled, NothingYet, Behind, Saved, AllAccounted, Accounted, Staging, Live,
      Stages, Ahead, Readable, Ready, memory, history
<1>6. ASSUME NEW kind, Plan(kind) PROVE UserInv'
  BY <1>6, UserParts
  DEF Plan, UserInv, Settled, NothingYet, Behind, Saved, AllAccounted, Accounted, Staging, Live,
      Stages, Ahead, Readable, Goto, disk, history
<1>7. CASE StartCommit \/ Skip \/ Commit
  <2>1. Live /\ ~Staging
    BY <1>7 DEF StartCommit, Skip, Commit, Live, Stages, Staging, Ahead
  <2>2. QED
    BY <1>7, <2>1, StatusUser
<1>8. CASE UNCHANGED vars
  BY <1>8, UserParts
  DEF UserInv, Settled, NothingYet, Behind, Saved, AllAccounted, Accounted, Staging, Live, Stages,
      Ahead, Readable, Ready, vars, disk, memory, history
<1>9. QED
  BY <1>2, <1>3, <1>4, <1>5, <1>6, <1>7, <1>8, RecoverLookUser, OpenUser, WriteUser, StageUser,
     StagedUser, BackupUser, MoveUser, UndoUser, EndUser
  DEF Next, Run, Apply

\* A rollback of an interrupted commit removes no file that the user wrote but
\* where the transaction has put one of its own or restores the one that was
\* there, if the target directory was there before the first run.
THEOREM UserFilesAreKept ==
    ASSUME StartsSettled
    PROVE  Spec => RollbackKeepsUserFiles
<1> DEFINE Kept ==
        pc = "undo" /\ setting.interrupts = {"commit"} =>
          \A f \in Files : target[f] = "user" /\ target'[f] # "user" =>
                              f \in moved \/ (f \in Paths /\ backup[f] # "none")
<1>1. ASSUME Typed, UserInv, [Next]_vars PROVE Kept
  <2> SUFFICES ASSUME pc = "undo", InCommit, NEW f \in Files, target[f] = "user", target'[f] # "user"
               PROVE  f \in moved \/ (f \in Paths /\ backup[f] # "none")
    BY DEF InCommit
  <2>1. CASE Undo
    <3>1. cursor \in 1..Len(Order) /\ Order[cursor] \in Paths
      BY <1>1, <2>1, OrderType, CursorType DEF Undo
    <3>2. f = Order[cursor] /\ (backup[f] # "none" \/ Removes(f))
      BY <1>1, <2>1 DEF Undo, Typed, TypeOK
    <3>3. Accounted(mem, f)
      BY <1>1, <3>1, <3>2, UserParts DEF AllAccounted
    <3>4. QED
      BY <3>1, <3>2, <3>3 DEF Accounted, Removes
  <2>2. CASE Undone
    BY <1>1, <2>2, UserParts DEF Undone, Settled
  <2>3. ASSUME NEW g \in Files, Edit(g) PROVE FALSE
    BY <1>1, <2>3 DEF Edit, Typed, TypeOK
  <2>4. CASE ~Undo /\ ~Undone /\ ~\E g \in Files : Edit(g)
    <3>1. target' = target
      BY <1>1, <2>4 DEF Next, Run, Apply, Plan, RecoverLook, Open, Write, Stage, Staged, StartCommit,
         Skip, Backup, Move, Commit, Refuse, Purge, Purged, Fault, Crash, vars, disk
    <3>2. QED
      BY <3>1
  <2>5. QED
    BY <2>1, <2>2, <2>3, <2>4
<1>2. Typed /\ Typed' /\ UserInv /\ [Next]_vars => UserInv'
  BY UserStep
<1>3. Init => UserInv
  BY UserInit
<1>4. QED
  BY <1>1, <1>2, <1>3, TypedHolds, PTL DEF Spec, RollbackKeepsUserFiles

-----------------------------------------------------------------------------
(* The plans that are committed: ProjectAssets, whose commands take a      *)
(* transaction for one step.  The two modules share nothing here: each has *)
(* its own constants, variables and specification.                         *)

Texts == [rel : Nat, own : BOOLEAN,
          word : {"none", "zh", "en", "bad", "named", "nameless", "placeholder"}]

Signatures == {"none", "named", "nameless", "placeholder"}

Languages == {"zh", "en"}

\* A project as the commands and the user leave it.
IsProject(fs) == fs \in [AssetClasses -> Texts] /\ fs[Developer].word \in Signatures

Detects(h, fs) == \E a \in Marker[h] : fs[a] # Nothing

\* What any planned action may be.
Sensible(r, a, fs, hosts) ==
    /\ r.do \in {"create", "update", "delete", "skip", "protected", "none"}
    /\ r.to \in Texts /\ (a = Developer => r.to.word \in Signatures)
    /\ r.do = "delete" => r.to = Nothing
    /\ r.do \in {"create", "update"} =>
          \A h \in Hosts : a \in Marker[h] => h \in hosts \/ fs[a] # Nothing

\* An action fits what it finds, but for those a command is known to fail with.
Timely(kind, r, a, fs) ==
    /\ r.do = "create" =>
          \/ fs[a] = Nothing
          \/ kind = "init" /\ a = Developer /\ fs[a].word \in {"none", "nameless"}
    /\ r.do \in {"update", "delete"} => fs[a] # Nothing \/ (kind = "sync" /\ a = VersionFile)

\* An action that loses text of the user's has a reason to.
Careful(kind, force, r, a, fs) ==
    r.do \in {"update", "delete"} /\ ~r.to.own /\ a \in ProjectOwned =>
        \/ a \in ManagedPaths \cup RetiredSkills /\ ~fs[a].own
        \/ force /\ a \notin ForceProtectedPaths \cup RetiredSkills
        \/ kind = "refresh" /\ a \in RuntimePaths \ {Config, Developer}

Fine(kind, force, r, a, fs, hosts) ==
    Sensible(r, a, fs, hosts) /\ Timely(kind, r, a, fs) /\ Careful(kind, force, r, a, fs)

LEMMA Classes ==
    /\ Config \in Template /\ Developer \in Template /\ Config # Developer
    /\ {Config, Developer} \subseteq AssetClasses
    /\ \A a \in AssetClasses :
          \/ /\ a \in Template
             /\ a \notin SkillCopies \cup RetiredSkills \cup RetiredFiles \cup {VersionFile}
          \/ /\ a \in SkillCopies
             /\ a \notin Template \cup RetiredSkills \cup RetiredFiles \cup {VersionFile}
          \/ /\ a \in RetiredSkills
             /\ a \notin Template \cup SkillCopies \cup RetiredFiles \cup {VersionFile}
          \/ /\ a \in RetiredFiles
             /\ a \notin Template \cup SkillCopies \cup RetiredSkills \cup {VersionFile}
          \/ /\ a = VersionFile
             /\ a \notin Template \cup SkillCopies \cup RetiredSkills \cup RetiredFiles
    /\ AssetClasses = Template \cup SkillCopies \cup RetiredSkills \cup RetiredFiles
                   \cup {VersionFile}
  BY PolicyAssumption DEF Policy, AssetClasses

\* The package has text for each asset.
LEMMA ShippedIs ==
    ASSUME NEW a, NEW rel \in Nat \ {0}, NEW lang \in Languages
    PROVE  /\ Shipped(a, rel, lang) \in Texts
           /\ Shipped(a, rel, lang).rel # 0 /\ ~Shipped(a, rel, lang).own
           /\ Shipped(a, rel, lang) # Nothing
           /\ a = Developer => Shipped(a, rel, lang).word \in Signatures
           /\ a \notin Localized => Shipped(a, rel, lang) = Shipped(a, rel, "zh")
           /\ Shipped(a, rel, lang).rel = Shipped(a, rel, "zh").rel
  <1> DEFINE new(l) == Shipped(a, rel, l)
  <1>1. /\ Config # Developer /\ Config \notin Localized /\ Developer \notin Localized
    BY PolicyAssumption DEF Policy
  <1>2. \A l \in Languages :
          /\ new(l) = [rel |-> IF a \in Unchanging THEN 1 ELSE rel, own |-> FALSE,
                       word |-> new(l).word]
          /\ new(l).word = IF a \in Localized THEN l
                           ELSE IF a = Config THEN "zh"
                           ELSE IF a = Developer THEN "placeholder" ELSE "none"
    BY DEF Shipped
  <1>3. lang \in Languages /\ "zh" \in Languages
    BY DEF Languages
  <1> HIDE DEF new
  <1>4. \A l \in Languages : new(l).word \in {"none", "zh", "en", "placeholder"}
    BY <1>2 DEF Languages
  <1>5. ASSUME NEW l \in Languages PROVE new(l) \in Texts /\ new(l).rel # 0 /\ ~new(l).own
    <2> DEFINE word == new(l).word
               n == IF a \in Unchanging THEN 1 ELSE rel
    <2>1. new(l) = [rel |-> n, own |-> FALSE, word |-> word]
      BY <1>2
    <2>2. word \in {"none", "zh", "en", "placeholder"} /\ n \in Nat \ {0}
      BY <1>4
    <2> HIDE DEF word, n
    <2> QED
      BY <2>1, <2>2 DEF Texts
  <1>6. \A l \in Languages : new(l) # Nothing
    BY <1>5 DEF Nothing
  <1>7. a = Developer => new(lang).word = "placeholder"
    BY <1>1, <1>2, <1>3
  <1>8. new(lang).rel = new("zh").rel /\ (a \notin Localized => new(lang).word = new("zh").word)
    <2>1. \A l \in Languages : new(l).rel = IF a \in Unchanging THEN 1 ELSE rel
      BY <1>2
    <2>2. a \notin Localized => \A l \in Languages :
            new(l).word = IF a = Config THEN "zh"
                          ELSE IF a = Developer THEN "placeholder" ELSE "none"
      BY <1>2
    <2> QED
      BY <1>3, <2>1, <2>2
  <1>9. a \notin Localized => new(lang) = new("zh")
    BY <1>2, <1>3, <1>8
  <1> QED
    BY <1>3, <1>5, <1>6, <1>7, <1>8, <1>9 DEF new, Signatures

LEMMA LanguageIs == ASSUME NEW fs PROVE LanguageOf(fs) \in Languages
  BY DEF LanguageOf, Languages

LEMMA DetectedIs ==
    ASSUME NEW fs PROVE Detected(fs) = {h \in Hosts : Detects(h, fs)}
  BY DEF Detected, Detects

\* What is left alone.
LEMMA LeaveIs ==
    ASSUME NEW fs, IsProject(fs), NEW a \in AssetClasses, NEW hosts,
           NEW do \in {"skip", "protected", "none"}
    PROVE  /\ Sensible(Leave(fs, a, do), a, fs, hosts)
           /\ Leave(fs, a, do).do = do /\ Leave(fs, a, do).to = fs[a]
           /\ ~Leave(fs, a, do).copied
  BY DEF Leave, Act, Sensible, IsProject

LEMMA WriteIs ==
    ASSUME NEW fs, NEW a, NEW hosts, NEW r, r.do \in {"create", "update"}, r.to \in Texts,
           a = Developer => r.to.word \in Signatures,
           \A h \in Hosts : a \in Marker[h] => h \in hosts \/ fs[a] # Nothing
    PROVE  Sensible(r, a, fs, hosts)
  BY DEF Sensible

LEMMA LeaveIsFine ==
    ASSUME NEW fs, IsProject(fs), NEW a \in AssetClasses, NEW hosts, NEW kind, NEW force,
           NEW do \in {"skip", "protected", "none"}, NEW r, r = Leave(fs, a, do)
    PROVE  Fine(kind, force, r, a, fs, hosts) /\ r.do \notin {"create", "update", "delete"}
  BY LeaveIs DEF Fine, Timely, Careful

\* What is written is owned by a host in use, or was there.
Placed(r, fs, a, hosts, rel) == r = SkillAct(fs, a, hosts, rel, FALSE)
Synced(r, fs, a, hosts, rel) == r = SkillAct(fs, a, hosts, rel, TRUE)

LEMMA SkillActIs ==
    ASSUME NEW fs, IsProject(fs), NEW a \in SkillCopies, NEW hosts \in SUBSET Hosts,
           NEW rel \in Nat \ {0}, NEW kind \in {"init", "sync"}, NEW r,
           kind = "init" => Placed(r, fs, a, hosts, rel),
           kind = "sync" => Synced(r, fs, a, hosts, rel)
    PROVE  /\ Sensible(r, a, fs, hosts)
           /\ r.do # "delete" /\ (r.do = "create" => fs[a] = Nothing)
           /\ r.do = "update" => kind = "sync" /\ fs[a] # Nothing
           /\ kind = "sync" /\ ReadRoot[a] \cap hosts # {} =>
                 IF r.do \in {"create", "update"} THEN r.to = Shipped(a, rel, "zh")
                 ELSE fs[a] = Shipped(a, rel, "zh")
  <1> DEFINE new == Shipped(a, rel, "zh")
  <1>1. a \in AssetClasses /\ a # Developer
    BY Classes DEF AssetClasses
  <1>2. new \in Texts
    BY ShippedIs DEF Languages
  <1>3. \A h \in Hosts : a \in Marker[h] => ReadRoot[a] = {h}
    BY PolicyAssumption DEF Policy
  <1>8. r = IF ReadRoot[a] \cap hosts = {} THEN Leave(fs, a, "none")
            ELSE IF fs[a] = Nothing THEN Act("create", new, TRUE)
            ELSE IF kind = "sync" /\ fs[a] # new THEN Act("update", new, TRUE)
            ELSE Leave(fs, a, "skip")
    BY DEF SkillAct, Placed, Synced
  <1> HIDE DEF new
  <1>4. CASE ReadRoot[a] \cap hosts = {}
    <2>1. r = Leave(fs, a, "none")
      BY <1>4, <1>8
    <2> QED
      BY <1>1, <1>4, <2>1, LeaveIs
  <1>5. CASE ReadRoot[a] \cap hosts # {} /\ fs[a] = Nothing
    <2>1. r.do = "create" /\ r.to = new
      BY <1>5, <1>8 DEF Act
    <2>2. Sensible(r, a, fs, hosts)
      BY <1>1, <1>2, <1>3, <1>5, <2>1, WriteIs
    <2> QED
      BY <1>5, <2>1, <2>2 DEF new
  <1>6. CASE ReadRoot[a] \cap hosts # {} /\ fs[a] # Nothing /\ kind = "sync" /\ fs[a] # new
    <2>0. r = Act("update", new, TRUE)
      BY <1>6, <1>8
    <2>1. r.do = "update" /\ r.to = new
      BY <2>0 DEF Act
    <2>3. fs[a] # Nothing
      BY <1>6
    <2>2. Sensible(r, a, fs, hosts)
      BY <1>1, <1>2, <2>1, <2>3, WriteIs
    <2> QED
      BY <1>6, <2>1, <2>2 DEF new
  <1>7. CASE ReadRoot[a] \cap hosts # {} /\ fs[a] # Nothing /\ ~(kind = "sync" /\ fs[a] # new)
    <2>1. r = Leave(fs, a, "skip")
      BY <1>7, <1>8
    <2> QED
      BY <1>1, <1>7, <2>1, LeaveIs DEF new
  <1> QED
    BY <1>4, <1>5, <1>6, <1>7

\* A file of the template that is wanted may be written.
LEMMA WantedIs ==
    ASSUME NEW a \in Template \cup {VersionFile}, NEW hosts \in SUBSET Hosts,
           a = VersionFile \/ ShouldInclude(a, hosts)
    PROVE  \A h \in Hosts : a \in Marker[h] => h \in hosts
  <1>1. \A h \in Hosts : a \in Marker[h] => Owners[a] = {h} /\ a # VersionFile
    BY PolicyAssumption DEF Policy
  <1> QED
    BY <1>1 DEF ShouldInclude

\* What init does.
LEMMA InitActIs ==
    ASSUME NEW fs, IsProject(fs), NEW a \in AssetClasses, NEW hosts \in SUBSET Hosts,
           NEW force \in BOOLEAN, NEW rel \in Nat \ {0}, NEW lang \in Languages,
           NEW r, r = InitAct(fs, a, hosts, force, rel, lang)
    PROVE  Fine("init", force, r, a, fs, hosts)
  <1> DEFINE new == Shipped(a, rel, lang)
             other == [new EXCEPT !.word = lang]
             named == [new EXCEPT !.word = "named"]
  <1>1. new \in Texts /\ (a = Developer => new.word \in Signatures)
    BY ShippedIs
  <1>2. other \in Texts /\ named \in Texts /\ named.word = "named"
    BY <1>1 DEF Texts, Languages
  <1>3. r = IF a \in SkillCopies THEN SkillAct(fs, a, hosts, rel, FALSE)
            ELSE IF a = Config /\ fs[a] = Nothing THEN Act("create", other, FALSE)
            ELSE IF a = Developer /\ DeveloperMissing(fs) THEN Act("create", named, FALSE)
            ELSE IF a \notin Template \cup {VersionFile} THEN Leave(fs, a, "none")
            ELSE IF a # VersionFile /\ ~ShouldInclude(a, hosts) THEN Leave(fs, a, "none")
            ELSE IF fs[a] = Nothing THEN Act("create", new, a # VersionFile)
            ELSE IF a \in ForceProtectedPaths THEN Leave(fs, a, "protected")
            ELSE IF force /\ a # Developer THEN Act("update", new, a # VersionFile)
            ELSE Leave(fs, a, "skip")
    BY DEF InitAct
  <1>4. Config # Developer /\ \A h \in Hosts : Config \notin Marker[h] /\ Developer \notin Marker[h]
    BY PolicyAssumption DEF Policy
  <1> HIDE DEF new, other, named
  <1>5. CASE a \in SkillCopies
    <2>1. Placed(r, fs, a, hosts, rel)
      BY <1>3, <1>5 DEF Placed
    <2>2. /\ Sensible(r, a, fs, hosts)
          /\ r.do # "delete" /\ (r.do = "create" => fs[a] = Nothing)
          /\ r.do # "update"
      <3> DEFINE kind == "init"
      <3>1. kind \in {"init", "sync"} /\ kind # "sync"
        OBVIOUS
      <3> HIDE DEF kind
      <3> QED
        BY <1>5, <2>1, <3>1, SkillActIs
    <2> QED
      BY <2>1, <2>2 DEF Fine, Timely, Careful
  <1>6. CASE a \notin SkillCopies /\ a = Config /\ fs[a] = Nothing
    <2>1. r.do = "create" /\ r.to = other
      BY <1>3, <1>6 DEF Act
    <2> QED
      BY <1>2, <1>4, <1>6, <2>1 DEF Fine, Sensible, Timely, Careful
  <1>7. CASE a \notin SkillCopies /\ a = Developer /\ DeveloperMissing(fs)
    <2>1. r.do = "create" /\ r.to = named
      BY <1>3, <1>4, <1>7 DEF Act
    <2>2. fs[a].word \in {"none", "nameless"}
      BY <1>7 DEF DeveloperMissing, IsProject, Signatures
    <2> QED
      BY <1>2, <1>4, <1>7, <2>1, <2>2 DEF Fine, Sensible, Timely, Careful, Signatures
  <1> DEFINE Plain == /\ a \notin SkillCopies /\ ~(a = Config /\ fs[a] = Nothing)
                      /\ ~(a = Developer /\ DeveloperMissing(fs))
             Wanted == a \in Template \cup {VersionFile} /\ (a = VersionFile \/ ShouldInclude(a, hosts))
  <1>8. CASE Plain /\ ~Wanted
    <2>1. r = Leave(fs, a, "none")
      BY <1>3, <1>8
    <2> QED
      BY <2>1, LeaveIsFine
  <1>9. CASE Plain /\ Wanted /\ fs[a] = Nothing
    <2>1. r.do = "create" /\ r.to = new
      BY <1>3, <1>9 DEF Act
    <2>2. \A h \in Hosts : a \in Marker[h] => h \in hosts
      BY <1>9, WantedIs
    <2> QED
      BY <1>1, <1>9, <2>1, <2>2 DEF Fine, Sensible, Timely, Careful
  <1>10. CASE Plain /\ Wanted /\ fs[a] # Nothing /\ a \in ForceProtectedPaths
    <2>1. r = Leave(fs, a, "protected")
      BY <1>3, <1>10
    <2> QED
      BY <2>1, LeaveIsFine
  <1>11. CASE Plain /\ Wanted /\ fs[a] # Nothing /\ a \notin ForceProtectedPaths
                /\ force /\ a # Developer
    <2>0. r = Act("update", new, a # VersionFile)
      BY <1>3, <1>11
    <2>1. r.do = "update" /\ r.to = new
      BY <2>0 DEF Act
    <2>2. a \notin RetiredSkills
      BY <1>11, Classes
    <2>3. Careful("init", force, r, a, fs)
      BY <1>11, <2>2 DEF Careful
    <2>4. fs[a] # Nothing /\ a # Developer
      BY <1>11
    <2> QED
      BY <1>1, <2>1, <2>3, <2>4 DEF Fine, Sensible, Timely
  <1>12. CASE Plain /\ Wanted /\ fs[a] # Nothing /\ a \notin ForceProtectedPaths
                /\ ~(force /\ a # Developer)
    <2>1. r = Leave(fs, a, "skip")
      BY <1>3, <1>12
    <2> QED
      BY <2>1, LeaveIsFine
  <1> QED
    BY <1>5, <1>6, <1>7, <1>8, <1>9, <1>10, <1>11, <1>12

\* What a path has after the action.
Left(r, a, fs) == IF r.do \in {"create", "update", "delete"} THEN r.to ELSE fs[a]

UsedBy(a, hosts) ==
    IF a \in SkillCopies THEN ReadRoot[a] \cap hosts # {}
    ELSE a = VersionFile \/ (a \in Template /\ ShouldInclude(a, hosts))

\* What a sync is to make of a path.
Reached(t, a, fs, hosts, rel, lang) ==
    /\ UsedBy(a, hosts) /\ a \notin ProtectedPaths \cup ManagedPaths => t = Shipped(a, rel, lang)
    /\ UsedBy(a, hosts) /\ a \in ManagedPaths => t.rel \in {0, Shipped(a, rel, "zh").rel}
    /\ a \in RetiredFiles => t = Nothing
    /\ a \in WithOriginal /\ t # Nothing => t # Shipped(a, rel, "zh")
    /\ a = Config => t = fs[a] \/ (fs[a] = Nothing /\ t.word = "zh")

\* A managed block is replaced, or the whole file by --force.
LEMMA ManagedActIs ==
    ASSUME NEW fs, IsProject(fs), NEW a \in ManagedPaths, NEW hosts \in SUBSET Hosts,
           ShouldInclude(a, hosts),
           NEW force \in BOOLEAN, NEW rel \in Nat \ {0}, NEW lang \in Languages,
           NEW r, r = ManagedAct(fs, a, force, Shipped(a, rel, lang))
    PROVE  Fine("sync", force, r, a, fs, hosts) /\ Reached(Left(r, a, fs), a, fs, hosts, rel, lang)
  <1> DEFINE new == Shipped(a, rel, lang)
             merged == [new EXCEPT !.own = fs[a].own]
  <1>1. /\ new \in Texts /\ (a = Developer => new.word \in Signatures)
        /\ new.rel = Shipped(a, rel, "zh").rel
    BY ShippedIs
  <1>2. /\ a \in Template /\ a \notin ForceProtectedPaths \cup ProtectedPaths /\ a # Config
        /\ a \notin SkillCopies \cup RetiredFiles \cup RetiredSkills \cup WithOriginal
        /\ a \in AssetClasses
    BY PolicyAssumption DEF Policy, AssetClasses
  <1>3. fs[a] \in Texts
    BY <1>2 DEF IsProject
  <1>4. /\ merged \in Texts /\ (a = Developer => merged.word \in Signatures)
        /\ merged.own = fs[a].own /\ merged.rel = new.rel
    BY <1>1, <1>3 DEF Texts
  <1>5. r = IF fs[a] = Nothing THEN Act("create", new, TRUE)
            ELSE IF force THEN Act("update", new, TRUE)
            ELSE IF fs[a].rel = 0 THEN Leave(fs, a, "protected")
            ELSE IF merged = fs[a] THEN Leave(fs, a, "skip")
            ELSE Act("update", merged, FALSE)
    BY DEF ManagedAct
  <1> HIDE DEF new, merged
  <1>6. \A h \in Hosts : a \in Marker[h] => h \in hosts
    BY <1>2, WantedIs
  <1>7. Left(r, a, fs).rel \in {0, Shipped(a, rel, "zh").rel} =>
            Reached(Left(r, a, fs), a, fs, hosts, rel, lang)
    BY <1>2 DEF Reached
  <1>8. CASE fs[a] = Nothing
    <2>1. r.do = "create" /\ r.to = new
      BY <1>5, <1>8 DEF Act
    <2>2. Fine("sync", force, r, a, fs, hosts)
      BY <1>1, <1>6, <1>8, <2>1 DEF Fine, Sensible, Timely, Careful
    <2> QED
      BY <1>1, <1>7, <2>1, <2>2 DEF Left
  <1>9. CASE fs[a] # Nothing /\ force
    <2>0. r = Act("update", new, TRUE)
      BY <1>5, <1>9
    <2>1. r.do = "update" /\ r.to = new
      BY <2>0 DEF Act
    <2>2. Careful("sync", force, r, a, fs)
      BY <1>2, <1>9 DEF Careful
    <2>3. Sensible(r, a, fs, hosts) /\ Timely("sync", r, a, fs)
      <3>1. fs[a] # Nothing
        BY <1>9
      <3> QED
        BY <1>1, <1>6, <2>1, <3>1 DEF Sensible, Timely
    <2> QED
      BY <1>1, <1>7, <2>1, <2>2, <2>3 DEF Left, Fine
  <1>10. CASE fs[a] # Nothing /\ ~force /\ fs[a].rel = 0
    <2>1. r = Leave(fs, a, "protected")
      BY <1>5, <1>10
    <2>2. Fine("sync", force, r, a, fs, hosts) /\ Left(r, a, fs) = fs[a]
      BY <1>2, <2>1, LeaveIsFine DEF Left
    <2> QED
      BY <1>7, <1>10, <2>2
  <1>11. CASE fs[a] # Nothing /\ ~force /\ fs[a].rel # 0 /\ merged = fs[a]
    <2>1. r = Leave(fs, a, "skip")
      BY <1>5, <1>11
    <2>2. Fine("sync", force, r, a, fs, hosts) /\ Left(r, a, fs) = fs[a]
      BY <1>2, <2>1, LeaveIsFine DEF Left
    <2> QED
      BY <1>1, <1>4, <1>7, <1>11, <2>2
  <1>12. CASE fs[a] # Nothing /\ ~force /\ fs[a].rel # 0 /\ merged # fs[a]
    <2>1. r.do = "update" /\ r.to = merged
      BY <1>5, <1>12 DEF Act
    <2>2. Fine("sync", force, r, a, fs, hosts)
      BY <1>4, <1>6, <1>12, <2>1 DEF Fine, Sensible, Timely, Careful
    <2> QED
      BY <1>1, <1>4, <1>7, <2>1, <2>2 DEF Left
  <1> QED
    BY <1>8, <1>9, <1>10, <1>11, <1>12

\* Another file of the template is replaced, or protected.
LEMMA FileActIs ==
    ASSUME NEW fs, IsProject(fs), NEW a \in Template \ ManagedPaths,
           NEW hosts \in SUBSET Hosts, ShouldInclude(a, hosts),
           NEW force \in BOOLEAN, NEW rel \in Nat \ {0}, NEW lang \in Languages,
           NEW r, r = FileAct(fs, a, force, Shipped(a, rel, lang))
    PROVE  Fine("sync", force, r, a, fs, hosts) /\ Reached(Left(r, a, fs), a, fs, hosts, rel, lang)
  <1> DEFINE new == Shipped(a, rel, lang)
             Kept == \/ a \in ForceProtectedPaths
                     \/ IsProtectedSyncFile(a) /\ ~force
                     \/ ~IsSafeSyncFile(a) /\ ~force
  <1>1. new \in Texts /\ (a = Developer => new.word \in Signatures)
    BY ShippedIs
  <1>2. /\ a \notin SkillCopies \cup RetiredFiles \cup RetiredSkills \cup WithOriginal
        /\ a \in AssetClasses
        /\ a \notin ProtectedPaths => IsSafeSyncFile(a)
        /\ ForceProtectedPaths \subseteq ProtectedPaths /\ Config \in ForceProtectedPaths
    BY PolicyAssumption DEF Policy, AssetClasses, IsSafeSyncFile
  <1>3. a = Config => new.word = "zh"
    BY PolicyAssumption DEF Policy, Shipped
  <1>4. r = IF fs[a] = Nothing THEN Act("create", new, TRUE)
            ELSE IF Kept THEN Leave(fs, a, "protected")
            ELSE IF fs[a] = new THEN Leave(fs, a, "skip")
            ELSE Act("update", new, TRUE)
    BY DEF FileAct
  <1>5. \A h \in Hosts : a \in Marker[h] => h \in hosts
    BY WantedIs
  <1>6. ASSUME NEW t, t = new, a = Config => fs[a] = Nothing
        PROVE  Reached(t, a, fs, hosts, rel, lang)
    BY <1>2, <1>3, <1>6 DEF Reached
  <1> HIDE DEF new
  <1>7. CASE fs[a] = Nothing
    <2>1. r.do = "create" /\ r.to = new
      BY <1>4, <1>7 DEF Act
    <2>2. Fine("sync", force, r, a, fs, hosts)
      BY <1>1, <1>5, <1>7, <2>1 DEF Fine, Sensible, Timely, Careful
    <2>3. Left(r, a, fs) = new
      BY <2>1 DEF Left
    <2> QED
      BY <1>6, <1>7, <2>2, <2>3
  <1>8. CASE fs[a] # Nothing /\ Kept
    <2>1. r = Leave(fs, a, "protected")
      BY <1>4, <1>8
    <2>2. Fine("sync", force, r, a, fs, hosts) /\ Left(r, a, fs) = fs[a]
      BY <1>2, <2>1, LeaveIsFine DEF Left
    <2>3. a \in ProtectedPaths
      BY <1>2, <1>8 DEF IsProtectedSyncFile
    <2> QED
      BY <1>2, <2>2, <2>3 DEF Reached
  <1>9. CASE fs[a] # Nothing /\ ~Kept /\ fs[a] = new
    <2>1. r = Leave(fs, a, "skip")
      BY <1>4, <1>9
    <2>2. Fine("sync", force, r, a, fs, hosts) /\ Left(r, a, fs) = fs[a]
      BY <1>2, <2>1, LeaveIsFine DEF Left
    <2> QED
      BY <1>2, <1>6, <1>9, <2>2
  <1>10. CASE fs[a] # Nothing /\ ~Kept /\ fs[a] # new
    <2>1. r.do = "update" /\ r.to = new
      BY <1>4, <1>10 DEF Act
    <2>2. a \in ProtectedPaths => force
      BY <1>10 DEF IsProtectedSyncFile
    <2>3. a \notin ForceProtectedPaths /\ fs[a] # Nothing
      BY <1>10
    <2>4. Careful("sync", force, r, a, fs)
      BY <1>2, <2>2, <2>3 DEF Careful, ProjectOwned
    <2>5. Sensible(r, a, fs, hosts) /\ Timely("sync", r, a, fs)
      BY <1>1, <1>5, <2>1, <2>3 DEF Sensible, Timely
    <2>6. Left(r, a, fs) = new
      BY <2>1 DEF Left
    <2> QED
      BY <1>2, <1>6, <2>3, <2>4, <2>5, <2>6 DEF Fine
  <1> QED
    BY <1>7, <1>8, <1>9, <1>10

LEMMA NothingIs == Nothing \in Texts /\ ~Nothing.own /\ Nothing.word = "none"
  BY DEF Nothing, Texts

\* What is retired goes, or is a Skill that is not the package's any longer.
LEMMA RetiredActIs ==
    ASSUME NEW fs, IsProject(fs), NEW a \in RetiredSkills \cup RetiredFiles,
           NEW hosts \in SUBSET Hosts, NEW kind, NEW force, NEW rel \in Nat \ {0}, NEW lang,
           NEW r, r = RetiredAct(fs, a, rel)
    PROVE  Fine(kind, force, r, a, fs, hosts) /\ Reached(Left(r, a, fs), a, fs, hosts, rel, lang)
  <1> DEFINE Kept == IF a \in RetiredSkills
                     THEN a \notin WithOriginal \/ fs[a] # Shipped(a, rel, "zh")
                     ELSE IsProtectedSyncFile(a)
  <1>1. /\ a \notin SkillCopies \cup Template \cup {VersionFile} /\ a \in AssetClasses
        /\ a \in RetiredFiles => a \notin ProtectedPaths \cup ManagedPaths \cup RetiredSkills
        /\ a # Config /\ a # Developer /\ WithOriginal \subseteq RetiredSkills
        /\ RetiredFiles \cap RetiredSkills = {}
    BY PolicyAssumption DEF Policy, AssetClasses
  <1>2. ASSUME NEW t, a \in RetiredFiles => t = Nothing,
               a \in WithOriginal /\ t # Nothing => t # Shipped(a, rel, "zh")
        PROVE  Reached(t, a, fs, hosts, rel, lang)
    BY <1>1, <1>2 DEF Reached, UsedBy
  <1>3. CASE fs[a] = Nothing \/ Kept
    <2>1. r = Leave(fs, a, "none")
      BY <1>3 DEF RetiredAct
    <2>2. Fine(kind, force, r, a, fs, hosts) /\ Left(r, a, fs) = fs[a]
      BY <1>1, <2>1, LeaveIsFine DEF Left
    <2>3. /\ a \in RetiredFiles => fs[a] = Nothing
          /\ a \in WithOriginal /\ fs[a] # Nothing => fs[a] # Shipped(a, rel, "zh")
      BY <1>1, <1>3 DEF IsProtectedSyncFile
    <2> QED
      BY <1>2, <2>2, <2>3
  <1>4. CASE ~(fs[a] = Nothing \/ Kept)
    <2>1. r.do = "delete" /\ r.to = Nothing
      BY <1>4 DEF RetiredAct, Act
    <2>2. a \in RetiredSkills => ~fs[a].own
      BY <1>4, ShippedIs DEF Languages
    <2>3. Careful(kind, force, r, a, fs)
      BY <1>1, <2>2 DEF Careful, ProjectOwned
    <2>4. fs[a] # Nothing
      BY <1>4
    <2>5. Fine(kind, force, r, a, fs, hosts)
      BY <1>1, <2>1, <2>3, <2>4, NothingIs DEF Fine, Sensible, Timely
    <2>6. Left(r, a, fs) = Nothing
      BY <2>1 DEF Left
    <2> QED
      BY <1>2, <2>5, <2>6
  <1> QED
    BY <1>3, <1>4

\* The version file becomes that of the release.
LEMMA SyncVersionIs ==
    ASSUME NEW fs, IsProject(fs), NEW hosts \in SUBSET Hosts, NEW force,
           NEW rel \in Nat \ {0}, NEW lang \in Languages,
           NEW r, r = SyncVersionAct(fs, rel)
    PROVE  /\ Fine("sync", force, r, VersionFile, fs, hosts)
           /\ Reached(Left(r, VersionFile, fs), VersionFile, fs, hosts, rel, lang)
  <1> DEFINE new == Shipped(VersionFile, rel, "zh")
  <1>1. /\ VersionFile \in AssetClasses /\ VersionFile # Developer /\ VersionFile # Config
        /\ VersionFile \notin ProjectOwned /\ VersionFile \notin Localized
        /\ VersionFile \notin ManagedPaths \cup RetiredFiles \cup WithOriginal
        /\ \A h \in Hosts : VersionFile \notin Marker[h]
    BY PolicyAssumption DEF Policy, AssetClasses, ProjectOwned
  <1>2. new \in Texts /\ new = Shipped(VersionFile, rel, lang)
    BY <1>1, ShippedIs DEF Languages
  <1>3. Reached(new, VersionFile, fs, hosts, rel, lang)
    BY <1>1, <1>2 DEF Reached
  <1>4. r = IF fs[VersionFile] = new THEN Leave(fs, VersionFile, "skip") ELSE Act("update", new, FALSE)
    BY DEF SyncVersionAct
  <1> HIDE DEF new
  <1>5. CASE fs[VersionFile] = new
    <2>1. Fine("sync", force, r, VersionFile, fs, hosts) /\ Left(r, VersionFile, fs) = fs[VersionFile]
      BY <1>1, <1>4, <1>5, LeaveIsFine DEF Left
    <2> QED
      BY <1>3, <1>5, <2>1
  <1>6. CASE fs[VersionFile] # new
    <2>1. r.do = "update" /\ r.to = new
      BY <1>4, <1>6 DEF Act
    <2>2. Fine("sync", force, r, VersionFile, fs, hosts)
      BY <1>1, <1>2, <2>1 DEF Fine, Sensible, Timely, Careful
    <2> QED
      BY <1>3, <2>1, <2>2 DEF Left
  <1> QED
    BY <1>5, <1>6

\* A Skill copy of a host in use becomes the package's.
LEMMA SyncSkillIs ==
    ASSUME NEW fs, IsProject(fs), NEW a \in SkillCopies, NEW hosts \in SUBSET Hosts,
           NEW kind, NEW force, NEW rel \in Nat \ {0}, NEW lang \in Languages,
           NEW r, Synced(r, fs, a, hosts, rel)
    PROVE  Fine(kind, force, r, a, fs, hosts) /\ Reached(Left(r, a, fs), a, fs, hosts, rel, lang)
  <1> DEFINE mode == "sync"
  <1>1. mode \in {"init", "sync"} /\ mode # "init" /\ mode = "sync"
    OBVIOUS
  <1> HIDE DEF mode
  <1>2. /\ Sensible(r, a, fs, hosts)
        /\ r.do # "delete" /\ (r.do = "create" => fs[a] = Nothing)
        /\ r.do = "update" => fs[a] # Nothing
        /\ ReadRoot[a] \cap hosts # {} =>
              IF r.do \in {"create", "update"} THEN r.to = Shipped(a, rel, "zh")
              ELSE fs[a] = Shipped(a, rel, "zh")
    BY <1>1, SkillActIs
  <1>3. /\ a \notin ProjectOwned /\ a \notin Localized /\ a # Config
        /\ a \notin RetiredFiles \cup WithOriginal \cup ManagedPaths
    BY PolicyAssumption DEF Policy, ProjectOwned
  <1>4. Shipped(a, rel, "zh") = Shipped(a, rel, lang)
    BY <1>3, ShippedIs
  <1>5. Fine(kind, force, r, a, fs, hosts)
    BY <1>2, <1>3 DEF Fine, Timely, Careful
  <1>6. ReadRoot[a] \cap hosts # {} => Left(r, a, fs) = Shipped(a, rel, lang)
    BY <1>2, <1>4 DEF Left
  <1> QED
    BY <1>3, <1>5, <1>6 DEF Reached, UsedBy

\* What sync does.
LEMMA SyncActIs ==
    ASSUME NEW fs, IsProject(fs), NEW a \in AssetClasses, NEW hosts \in SUBSET Hosts,
           NEW force \in BOOLEAN, NEW rel \in Nat \ {0}, NEW lang \in Languages,
           NEW r, r = SyncPlan(fs, hosts, force, rel, lang)[a]
    PROVE  Fine("sync", force, r, a, fs, hosts) /\ Reached(Left(r, a, fs), a, fs, hosts, rel, lang)
  <1> DEFINE new == Shipped(a, rel, lang)
  <1>1. r = IF a = VersionFile THEN SyncVersionAct(fs, rel)
            ELSE IF a \in RetiredSkills \cup RetiredFiles THEN RetiredAct(fs, a, rel)
            ELSE IF a \in SkillCopies THEN SkillAct(fs, a, hosts, rel, TRUE)
            ELSE IF ~ShouldInclude(a, hosts) THEN Leave(fs, a, "none")
            ELSE IF a \in ManagedPaths THEN ManagedAct(fs, a, force, new)
            ELSE FileAct(fs, a, force, new)
    BY DEF SyncPlan
  <1>2. CASE a = VersionFile
    BY <1>1, <1>2, SyncVersionIs
  <1>3. CASE a \in RetiredSkills \cup RetiredFiles
    <2>1. a # VersionFile
      BY <1>3, Classes
    <2>2. r = RetiredAct(fs, a, rel)
      BY <1>1, <1>3, <2>1
    <2> QED
      BY <1>3, <2>2, RetiredActIs
  <1>4. CASE a \in SkillCopies
    <2>1. a # VersionFile /\ a \notin RetiredSkills \cup RetiredFiles
      BY <1>4, Classes
    <2>2. Synced(r, fs, a, hosts, rel)
      BY <1>1, <1>4, <2>1 DEF Synced
    <2> QED
      BY <1>4, <2>2, SyncSkillIs
  <1>5. CASE a \in Template /\ ~ShouldInclude(a, hosts)
    <2>1. a \notin {VersionFile} \cup RetiredSkills \cup RetiredFiles \cup SkillCopies \cup WithOriginal
      BY PolicyAssumption, <1>5, Classes DEF Policy
    <2>2. r = Leave(fs, a, "none")
      BY <1>1, <1>5, <2>1
    <2>3. Fine("sync", force, r, a, fs, hosts) /\ Left(r, a, fs) = fs[a]
      BY <2>2, LeaveIsFine DEF Left
    <2> QED
      BY <1>5, <2>1, <2>3 DEF Reached, UsedBy
  <1>6. CASE a \in Template /\ ShouldInclude(a, hosts)
    <2>1. a \notin {VersionFile} \cup RetiredSkills \cup RetiredFiles \cup SkillCopies
      BY <1>6, Classes
    <2>2. CASE a \in ManagedPaths
      <3>1. r = ManagedAct(fs, a, force, new)
        BY <1>1, <1>6, <2>1, <2>2
      <3> QED
        BY <1>6, <2>2, <3>1, ManagedActIs
    <2>3. CASE a \notin ManagedPaths
      <3>1. r = FileAct(fs, a, force, new)
        BY <1>1, <1>6, <2>1, <2>3
      <3> QED
        BY <1>6, <2>3, <3>1, FileActIs
    <2> QED
      BY <2>2, <2>3
  <1> QED
    BY <1>2, <1>3, <1>4, <1>5, <1>6, Classes

\* What a refresh of the source checkout does.
LEMMA RefreshActIs ==
    ASSUME NEW fs, IsProject(fs), NEW a \in AssetClasses, NEW force,
           NEW rel \in Nat \ {0}, NEW lang \in Languages,
           NEW r, r = RefreshPlan(fs, rel, lang)[a]
    PROVE  Fine("refresh", force, r, a, fs, Hosts)
  <1> DEFINE new == Shipped(a, rel, lang)
             Left0 == a \notin RuntimePaths \/ IsSourceCheckoutProtected(a)
  <1>1. new \in Texts /\ (a = Developer => new.word \in Signatures)
    BY ShippedIs
  <1>2. r = IF a \in RetiredSkills \cup RetiredFiles THEN RetiredAct(fs, a, rel)
            ELSE IF a \in SkillCopies THEN SkillAct(fs, a, Hosts, rel, TRUE)
            ELSE IF Left0 THEN Leave(fs, a, "none")
            ELSE IF fs[a] = Nothing THEN Act("create", new, a # VersionFile)
            ELSE IF fs[a] = new THEN Leave(fs, a, "skip")
            ELSE Act("update", new, a # VersionFile)
    BY DEF RefreshPlan
  <1>3. Hosts \in SUBSET Hosts
    OBVIOUS
  <1> HIDE DEF new
  <1>4. CASE a \in RetiredSkills \cup RetiredFiles
    BY <1>2, <1>3, <1>4, RetiredActIs
  <1>5. CASE a \in SkillCopies
    <2>1. a \notin RetiredSkills \cup RetiredFiles
      BY <1>5, Classes
    <2>2. Synced(r, fs, a, Hosts, rel)
      BY <1>2, <1>5, <2>1 DEF Synced
    <2> QED
      BY <1>3, <1>5, <2>2, SyncSkillIs
  <1> DEFINE Plain == a \notin RetiredSkills \cup RetiredFiles \cup SkillCopies
  <1>6. CASE Plain /\ (Left0 \/ (fs[a] # Nothing /\ fs[a] = new))
    <2>1. r = Leave(fs, a, "none") \/ r = Leave(fs, a, "skip")
      BY <1>2, <1>6
    <2> QED
      BY <2>1, LeaveIsFine
  <1>7. CASE Plain /\ ~Left0 /\ fs[a] = Nothing
    <2>1. r = Act("create", new, a # VersionFile)
      BY <1>2, <1>7
    <2>2. r.do = "create" /\ r.to = new
      BY <2>1 DEF Act
    <2>3. Sensible(r, a, fs, Hosts)
      BY <1>1, <2>2 DEF Sensible
    <2>4. Timely("refresh", r, a, fs)
      BY <1>7, <2>2 DEF Timely
    <2>5. Careful("refresh", force, r, a, fs)
      BY <2>2 DEF Careful
    <2> QED
      BY <2>3, <2>4, <2>5 DEF Fine
  <1>8. CASE Plain /\ ~Left0 /\ fs[a] # Nothing /\ fs[a] # new
    <2>1. r = Act("update", new, a # VersionFile)
      BY <1>2, <1>8
    <2>2. r.do = "update" /\ r.to = new
      BY <2>1 DEF Act
    <2>3. a \in RuntimePaths \ {Config, Developer}
      BY <1>8 DEF IsSourceCheckoutProtected
    <2>4. Sensible(r, a, fs, Hosts)
      BY <1>1, <2>2 DEF Sensible
    <2>5. Timely("refresh", r, a, fs)
      BY <1>8, <2>2 DEF Timely
    <2>6. Careful("refresh", force, r, a, fs)
      BY <2>2, <2>3 DEF Careful
    <2> QED
      BY <2>4, <2>5, <2>6 DEF Fine
  <1> QED
    BY <1>4, <1>5, <1>6, <1>7, <1>8

\* The running command has its plan from the project fs, which the user has
\* changed since only where rewritten says so.
Planned(fs, hosts, lang) ==
    /\ cmd.kind \in {"init", "sync", "refresh"} /\ cmd.force \in BOOLEAN /\ cmd.rel \in Nat \ {0}
    /\ IsProject(fs) /\ \A a \in AssetClasses \ rewritten : fs[a] = files[a]
    /\ hosts \subseteq chosen /\ Detected(fs) \subseteq chosen
    /\ cmd.kind = "init" =>
          cmd.plan = [a \in AssetClasses |-> InitAct(fs, a, hosts, cmd.force, cmd.rel, lang)]
    /\ cmd.kind = "sync" =>
          /\ hosts = Detected(fs) /\ lang = LanguageOf(fs)
          /\ cmd.plan = SyncPlan(fs, hosts, cmd.force, cmd.rel, lang)
    /\ cmd.kind = "refresh" =>
          hosts = Hosts /\ ~cmd.force /\ cmd.plan = RefreshPlan(fs, cmd.rel, lang)

ProjectInv ==
    /\ IsProject(files) /\ release \in Nat \ {0} /\ chosen \subseteq Hosts
    /\ cmd # Idle => \E fs \in [AssetClasses -> Texts], hosts \in SUBSET Hosts, lang \in Languages :
                          Planned(fs, hosts, lang)
    /\ HostsHaveACause
    /\ SyncReaches

LEMMA PlanIsFine ==
    ASSUME NEW fs, NEW hosts \in SUBSET Hosts, NEW lang \in Languages,
           Planned(fs, hosts, lang), NEW a \in AssetClasses
    PROVE  Fine(cmd.kind, cmd.force, cmd.plan[a], a, fs, hosts)
  <1> DEFINE r == cmd.plan[a]
  <1>1. IsProject(fs) /\ cmd.force \in BOOLEAN /\ cmd.rel \in Nat \ {0}
    BY DEF Planned
  <1>2. CASE cmd.kind = "init"
    <2>1. r = InitAct(fs, a, hosts, cmd.force, cmd.rel, lang)
      BY <1>2 DEF Planned
    <2> QED
      BY <1>1, <1>2, <2>1, InitActIs
  <1>3. CASE cmd.kind = "sync"
    <2>1. r = SyncPlan(fs, hosts, cmd.force, cmd.rel, lang)[a]
      BY <1>3 DEF Planned
    <2> QED
      BY <1>1, <1>3, <2>1, SyncActIs
  <1>4. CASE cmd.kind = "refresh"
    <2>1. r = RefreshPlan(fs, cmd.rel, lang)[a] /\ hosts = Hosts
      BY <1>4 DEF Planned
    <2> QED
      BY <1>1, <1>4, <2>1, RefreshActIs
  <1> QED
    BY <1>2, <1>3, <1>4 DEF Planned

\* What the plan would make of fs.
LEMMA OutcomeIs ==
    ASSUME NEW made, NEW fs, NEW a \in AssetClasses
    PROVE  Outcome(made, fs)[a] = Left(made[a], a, fs)
  BY DEF Outcome, Left

\* What the carrying out of a plan leaves, wherever the user has been since.
LEMMA AppliedIs ==
    ASSUME ProjectInv, NEW fs, NEW hosts \in SUBSET Hosts, NEW lang \in Languages,
           Planned(fs, hosts, lang), NEW new, new = Outcome(cmd.plan, files)
    PROVE  IsProject(new) /\ Detected(new) \subseteq chosen
  <1> DEFINE r(a) == cmd.plan[a]
  <1>1. new = [a \in AssetClasses |-> Left(r(a), a, files)]
    BY DEF Outcome, Left
  <1>2. IsProject(files) /\ IsProject(fs) /\ hosts \subseteq chosen
    BY DEF ProjectInv, Planned
  <1>3. Detected(files) \subseteq chosen /\ Detected(fs) \subseteq chosen
    BY DEF ProjectInv, HostsHaveACause, Planned
  <1>4. \A a \in AssetClasses : Sensible(r(a), a, fs, hosts)
    BY PlanIsFine DEF Fine
  <1>5. Developer \in AssetClasses /\ \A h \in Hosts : Marker[h] \subseteq AssetClasses
    BY PolicyAssumption, Classes DEF Policy
  <1> HIDE DEF r
  <1>6. ASSUME NEW a \in AssetClasses
        PROVE  Left(r(a), a, files) \in Texts /\
               (a = Developer => Left(r(a), a, files).word \in Signatures)
    <2>1. Sensible(r(a), a, fs, hosts)
      BY <1>4
    <2>2. files[a] \in Texts /\ (a = Developer => files[a].word \in Signatures)
      BY <1>2 DEF IsProject
    <2> QED
      BY <2>1, <2>2 DEF Sensible, Left
  <1>7. IsProject(new)
    BY <1>1, <1>5, <1>6 DEF IsProject
  <1>8. ASSUME NEW h \in Hosts, NEW a \in Marker[h], new[a] # Nothing PROVE h \in chosen
    <2>1. a \in AssetClasses
      BY <1>5
    <2>2. Left(r(a), a, files) # Nothing
      BY <1>1, <1>8, <2>1
    <2>3. Sensible(r(a), a, fs, hosts)
      BY <1>4, <2>1
    <2>4. CASE files[a] # Nothing
      BY <1>3, <2>4, DetectedIs DEF Detects
    <2>5. CASE fs[a] # Nothing
      BY <1>3, <2>5, DetectedIs DEF Detects
    <2>6. CASE files[a] = Nothing /\ fs[a] = Nothing
      <3>1. r(a).do \in {"create", "update"}
        BY <2>2, <2>3, <2>6 DEF Left, Sensible
      <3> QED
        BY <1>2, <2>3, <2>6, <3>1 DEF Sensible
    <2> QED
      BY <2>4, <2>5, <2>6
  <1> QED
    BY <1>7, <1>8, DetectedIs DEF Detects

\* What a sync is to reach, of the hosts that the project then has.
LEMMA SyncIs ==
    ASSUME NEW fs, IsProject(fs), NEW hosts, hosts = Detected(fs),
           NEW lang, lang = LanguageOf(fs), NEW force \in BOOLEAN, NEW rel \in Nat \ {0},
           NEW new, new = Outcome(SyncPlan(fs, hosts, force, rel, lang), fs)
    PROVE  /\ LanguageOf(new) = lang
           /\ Detected(new) \subseteq hosts
           /\ \A a \in AssetClasses : Reached(new[a], a, fs, hosts, rel, lang)
  <1> DEFINE r(a) == SyncPlan(fs, hosts, force, rel, lang)[a]
  <1>1. hosts \in SUBSET Hosts /\ lang \in Languages
    BY LanguageIs, DetectedIs
  <1>2. \A a \in AssetClasses : new[a] = Left(r(a), a, fs)
    BY OutcomeIs
  <1>3. \A a \in AssetClasses :
          Sensible(r(a), a, fs, hosts) /\ Reached(Left(r(a), a, fs), a, fs, hosts, rel, lang)
    BY <1>1, SyncActIs DEF Fine
  <1> HIDE DEF r
  <1>4. \A a \in AssetClasses : Reached(new[a], a, fs, hosts, rel, lang)
    BY <1>2, <1>3
  <1>5. LanguageOf(new) = lang
    <2>1. Config \in AssetClasses
      BY Classes
    <2>2. new[Config] = fs[Config] \/ (fs[Config] = Nothing /\ new[Config].word = "zh")
      BY <1>4, <2>1 DEF Reached
    <2> QED
      BY <2>2, NothingIs DEF LanguageOf
  <1>6. ASSUME NEW h \in Hosts, NEW a \in Marker[h], new[a] # Nothing PROVE h \in hosts
    <2>1. a \in AssetClasses
      BY PolicyAssumption DEF Policy
    <2>2. Left(r(a), a, fs) # Nothing /\ Sensible(r(a), a, fs, hosts)
      BY <1>2, <1>3, <1>6, <2>1
    <2>3. h \in hosts \/ fs[a] # Nothing
      BY <2>2 DEF Left, Sensible
    <2> QED
      BY <2>3, DetectedIs DEF Detects
  <1> QED
    BY <1>4, <1>5, <1>6, DetectedIs DEF Detects

LEMMA UsedFewer ==
    ASSUME NEW hosts, NEW fewer \in SUBSET hosts, NEW a, UsedBy(a, fewer)
    PROVE  UsedBy(a, hosts)
  BY DEF UsedBy, ShouldInclude

\* What SyncReaches says of a project.
InSync(fs, rel) ==
    \A a \in AssetClasses : Reached(fs[a], a, fs, Detected(fs), rel, LanguageOf(fs))

LEMMA SyncReachesIs == SyncReaches <=> (settled => InSync(files, release))
  <1>1. \A a : Used(a) <=> UsedBy(a, Detected(files))
    BY DEF Used, UsedBy
  <1> QED
    BY <1>1 DEF SyncReaches, InSync, Reached, Exists

LEMMA SyncLeavesInSync ==
    ASSUME NEW fs, IsProject(fs), NEW force \in BOOLEAN, NEW rel \in Nat \ {0}, NEW new,
           new = Outcome(SyncPlan(fs, Detected(fs), force, rel, LanguageOf(fs)), fs)
    PROVE  InSync(new, rel)
  <1> DEFINE hosts == Detected(fs)
             lang == LanguageOf(fs)
             fewer == Detected(new)
  <1>1. /\ LanguageOf(new) = lang
        /\ fewer \subseteq hosts
        /\ \A a \in AssetClasses : Reached(new[a], a, fs, hosts, rel, lang)
    BY SyncIs
  <1>2. \A a : UsedBy(a, fewer) => UsedBy(a, hosts)
    BY <1>1, UsedFewer
  <1> HIDE DEF hosts, lang, fewer
  <1>3. ASSUME NEW a \in AssetClasses PROVE Reached(new[a], a, new, fewer, rel, lang)
    <2>1. Reached(new[a], a, fs, hosts, rel, lang)
      BY <1>1
    <2> QED
      BY <1>2, <2>1 DEF Reached
  <1> QED
    BY <1>1, <1>3 DEF InSync, fewer

LEMMA ProjectInvInit == ProjectInit => ProjectInv
  <1> SUFFICES ASSUME ProjectInit PROVE ProjectInv
    OBVIOUS
  <1>1. files \in [AssetClasses -> FileTexts] /\ files[Developer].word \in Signatures
    BY PolicyAssumption DEF ProjectInit, Policy, Signatures
  <1>2. ASSUME NEW t \in FileTexts PROVE t \in Texts
    <2>1. {0} \cup Releases \subseteq Nat
      BY PolicyAssumption DEF Policy
    <2> HIDE DEF Policy
    <2> QED
      BY <2>1 DEF FileTexts, Texts
  <1>3. IsProject(files)
    BY <1>1, <1>2 DEF IsProject
  <1>4. chosen = Detected(files) /\ chosen \subseteq Hosts
    BY DetectedIs DEF ProjectInit
  <1> QED
    BY <1>3, <1>4, SyncReachesIs DEF ProjectInv, ProjectInit, HostsHaveACause

\* A step that leaves the project and the package as they are.
LEMMA SyncReachesStays ==
    ASSUME SyncReaches, UNCHANGED <<files, release, settled>> PROVE SyncReaches'
  BY DEF SyncReaches, Used, Exists, ShouldInclude, Shipped, LanguageOf, Detected

\* A command has its plan from the project it found.
LEMMA BeginStep ==
    ASSUME ProjectInv, NEW hosts \in SUBSET Hosts, NEW lang \in Languages,
           NEW kind \in {"init", "sync", "refresh"}, NEW force \in BOOLEAN, NEW made,
           Begin(kind, force, made), chosen \cup hosts \subseteq chosen', chosen' \subseteq Hosts,
           kind = "init" =>
              made = [a \in AssetClasses |-> InitAct(files, a, hosts, force, release, lang)],
           kind = "sync" =>
              /\ hosts = Detected(files) /\ lang = LanguageOf(files)
              /\ made = SyncPlan(files, hosts, force, release, lang),
           kind = "refresh" =>
              hosts = Hosts /\ ~force /\ made = RefreshPlan(files, release, lang)
    PROVE  ProjectInv'
  <1> PICK fs : fs = files
    OBVIOUS
  <1> PICK rel : rel = release
    OBVIOUS
  <1>1. cmd' = [kind |-> kind, force |-> force, rel |-> rel, plan |-> made]
    BY DEF Begin
  <1>2. files' = fs /\ release' = rel /\ settled' = settled
    BY DEF Begin
  <1>3. IsProject(fs) /\ rel \in Nat \ {0} /\ Detected(fs) \subseteq chosen
    BY DEF ProjectInv, HostsHaveACause
  <1>4. /\ cmd'.kind = kind /\ cmd'.force = force /\ cmd'.rel = rel /\ cmd'.plan = made
    BY <1>1
  <1>5. Planned(fs, hosts, lang)'
    BY <1>2, <1>3, <1>4 DEF Planned
  <1>6. fs \in [AssetClasses -> Texts]
    BY <1>3 DEF IsProject
  <1>7. HostsHaveACause'
    BY <1>2, <1>3 DEF HostsHaveACause, Detected
  <1>8. SyncReaches'
    BY <1>2, SyncReachesStays DEF ProjectInv
  <1> QED
    BY <1>2, <1>3, <1>5, <1>6, <1>7, <1>8 DEF ProjectInv

LEMMA BeginsStep ==
    ASSUME ProjectInv, BeginInit \/ BeginSync \/ BeginRefresh
    PROVE  ProjectInv'
  <1>1. Detected(files) \subseteq chosen /\ chosen \subseteq Hosts
    BY DEF ProjectInv, HostsHaveACause
  <1>2. CASE BeginInit
    <2>1. PICK named \in Selections, force \in BOOLEAN, lang \in {"zh", "en"} :
            /\ Begin("init", force,
                       InitPlan(files, InitHosts(named), force, release, lang))
            /\ chosen' = chosen \cup InitHosts(named)
      BY <1>2 DEF BeginInit
    <2> PICK hosts : hosts = InitHosts(named)
      OBVIOUS
    <2> PICK spoken : spoken = InitLanguage(files, lang)
      OBVIOUS
    <2>2. hosts \in SUBSET Hosts
      BY <1>1 DEF InitHosts, Selections
    <2>3. spoken \in Languages
      BY LanguageIs DEF InitLanguage, Languages
    <2> PICK made : made = InitPlan(files, hosts, force, release, lang)
      OBVIOUS
    <2>4. made = [a \in AssetClasses |-> InitAct(files, a, hosts, force, release, spoken)]
      BY DEF InitPlan
    <2>5. Begin("init", force, made)
      BY <2>1
    <2> QED
      BY <1>1, <2>1, <2>2, <2>3, <2>4, <2>5, BeginStep
  <1>3. CASE BeginSync
    <2> PICK hosts : hosts = Detected(files)
      OBVIOUS
    <2> PICK lang : lang = LanguageOf(files)
      OBVIOUS
    <2>1. PICK force \in BOOLEAN :
            Begin("sync", force, SyncPlan(files, hosts, force, release, lang))
            /\ chosen' = chosen
      BY <1>3 DEF BeginSync
    <2> PICK made : made = SyncPlan(files, hosts, force, release, lang)
      OBVIOUS
    <2>2. hosts \in SUBSET Hosts /\ lang \in Languages
      BY <1>1, LanguageIs
    <2>3. Begin("sync", force, made)
      BY <2>1
    <2> QED
      BY <1>1, <2>1, <2>2, <2>3, BeginStep
  <1>4. CASE BeginRefresh
    <2> PICK lang : lang = LanguageOf(files)
      OBVIOUS
    <2> PICK made : made = RefreshPlan(files, release, lang)
      OBVIOUS
    <2> PICK force \in BOOLEAN : ~force
      OBVIOUS
    <2>1. Begin("refresh", force, made) /\ chosen' = Hosts
      BY <1>4 DEF BeginRefresh
    <2>2. lang \in Languages
      BY LanguageIs
    <2> QED
      BY <1>1, <2>1, <2>2, BeginStep
  <1> QED
    BY <1>2, <1>3, <1>4

LEMMA ApplyStep == ASSUME ProjectInv, ApplyPlan PROVE ProjectInv'
  <1>1. PICK fs \in [AssetClasses -> Texts], hosts \in SUBSET Hosts, lang \in Languages :
          Planned(fs, hosts, lang)
    BY DEF ProjectInv, ApplyPlan
  <1> PICK new : new = Outcome(cmd.plan, files)
    OBVIOUS
  <1>2. IsProject(new) /\ Detected(new) \subseteq chosen
    BY <1>1, AppliedIs
  <1>3. /\ files' = new /\ release' = release /\ chosen' = chosen /\ cmd' = Idle
        /\ settled' = (cmd.kind = "sync" /\ rewritten = {} /\ release = cmd.rel)
    BY DEF ApplyPlan
  <1>4. ASSUME settled' PROVE InSync(new, release)
    <2>1. cmd.kind = "sync" /\ rewritten = {} /\ release = cmd.rel
      BY <1>3, <1>4
    <2>2. fs = files
      BY <1>1, <2>1 DEF Planned, ProjectInv, IsProject
    <2>3. /\ cmd.plan = SyncPlan(fs, Detected(fs), cmd.force, cmd.rel, LanguageOf(fs))
          /\ IsProject(fs) /\ cmd.force \in BOOLEAN /\ cmd.rel \in Nat \ {0}
      BY <1>1, <2>1 DEF Planned
    <2> QED
      BY <2>1, <2>2, <2>3, SyncLeavesInSync
  <1>5. SyncReaches'
    <2> PICK rel : rel = release
      OBVIOUS
    <2>1. files' = new /\ release' = rel /\ (settled' => InSync(new, rel))
      BY <1>3, <1>4
    <2> QED
      BY <2>1 DEF SyncReaches, Used, Exists, InSync, Reached, UsedBy
  <1>6. HostsHaveACause'
    BY <1>2, <1>3 DEF HostsHaveACause, Detected
  <1> QED
    BY <1>2, <1>3, <1>5, <1>6 DEF ProjectInv

\* A plan stays what it is whatever the user writes.
LEMMA PlannedStays ==
    ASSUME NEW fs, NEW hosts, NEW lang, Planned(fs, hosts, lang), cmd' = cmd,
           chosen \subseteq chosen', rewritten \subseteq rewritten',
           \A a \in AssetClasses \ rewritten' : files'[a] = files[a]
    PROVE  Planned(fs, hosts, lang)'
  BY DEF Planned

LEMMA PutStep ==
    ASSUME ProjectInv, NEW a \in AssetClasses, NEW content \in Texts,
           a = Developer => content.word \in Signatures, Put(a, content)
    PROVE  ProjectInv'
  <1> PICK new : new = [files EXCEPT ![a] = content]
    OBVIOUS
  <1>1. /\ files' = new /\ rewritten' = rewritten \cup {a} /\ cmd' = cmd /\ release' = release
        /\ chosen' = chosen \cup Detected(new) /\ ~settled'
    BY DEF Put, Detected
  <1>2. IsProject(new) /\ \A b \in AssetClasses \ {a} : new[b] = files[b]
    BY DEF ProjectInv, IsProject
  <1>3. chosen' \subseteq Hosts
    BY <1>1, DetectedIs DEF ProjectInv
  <1>4. HostsHaveACause'
    BY <1>1 DEF HostsHaveACause, Detected
  <1>5. SyncReaches'
    BY <1>1 DEF SyncReaches
  <1>6. ASSUME NEW fs, NEW hosts, NEW lang, Planned(fs, hosts, lang)
        PROVE  Planned(fs, hosts, lang)'
    BY <1>1, <1>2, <1>6, PlannedStays
  <1> QED
    BY <1>1, <1>2, <1>3, <1>4, <1>5, <1>6 DEF ProjectInv

LEMMA ProjectUserStep ==
    ASSUME ProjectInv, EditFile \/ SetLanguage \/ DropBlock \/ Delete
    PROVE  ProjectInv'
  <1>1. /\ \A a \in AssetClasses : files[a] \in Texts
        /\ files[Developer].word \in Signatures
    BY DEF ProjectInv, IsProject
  <1>2. /\ Config \in AssetClasses /\ Config # Developer
        /\ Editable \subseteq AssetClasses /\ Deletable \subseteq AssetClasses
    BY PolicyAssumption, Classes DEF Policy
  <1>3. CASE EditFile
    <2>1. PICK a \in Editable :
            Put(a, [files[a] EXCEPT !.own = TRUE,
                        !.word = IF a = Developer /\ ~Exists(a) THEN "nameless" ELSE @])
      BY <1>3 DEF EditFile
    <2> PICK word : word = IF a = Developer /\ ~Exists(a) THEN "nameless" ELSE files[a].word
      OBVIOUS
    <2> PICK content : content = [files[a] EXCEPT !.own = TRUE, !.word = word]
      OBVIOUS
    <2>2. Put(a, content)
      BY <2>1
    <2>3. files[a] \in Texts /\ a \in AssetClasses
      BY <1>1, <1>2
    <2>4. content \in Texts /\ content.word = word
      BY <2>3 DEF Texts
    <2>5. a = Developer => word \in Signatures
      BY <1>1 DEF Signatures
    <2> QED
      BY <2>2, <2>3, <2>4, <2>5, PutStep
  <1>4. CASE SetLanguage
    <2>1. PICK w \in {"zh", "en", "bad"} :
            Put(Config, [files[Config] EXCEPT !.word = w, !.own = TRUE])
      BY <1>4 DEF SetLanguage
    <2> PICK content : content = [files[Config] EXCEPT !.word = w, !.own = TRUE]
      OBVIOUS
    <2>2. Put(Config, content)
      BY <2>1
    <2>3. content \in Texts
      BY <1>1, <1>2 DEF Texts
    <2> QED
      BY <1>2, <2>2, <2>3, PutStep
  <1>5. CASE DropBlock
    <2>1. PICK a \in ManagedPaths \cap Editable : Put(a, [Nothing EXCEPT !.own = TRUE])
      BY <1>5 DEF DropBlock
    <2> PICK content : content = [Nothing EXCEPT !.own = TRUE]
      OBVIOUS
    <2>2. Put(a, content) /\ a \in AssetClasses
      BY <1>2, <2>1
    <2>3. content \in Texts /\ content.word \in Signatures
      BY DEF Nothing, Texts, Signatures
    <2> QED
      BY <2>2, <2>3, PutStep
  <1>6. CASE Delete
    <2>1. PICK a \in Deletable : Put(a, Nothing)
      BY <1>6 DEF Delete
    <2>2. Nothing.word \in Signatures
      BY DEF Nothing, Signatures
    <2> QED
      BY <1>2, <2>1, <2>2, NothingIs, PutStep
  <1> QED
    BY <1>3, <1>4, <1>5, <1>6

LEMMA OtherStep ==
    ASSUME ProjectInv, Refused \/ SelfUpdate \/ UNCHANGED projectVars
    PROVE  ProjectInv'
  <1>1. files' = files /\ chosen' = chosen /\ rewritten' = rewritten
    BY DEF Refused, SelfUpdate, projectVars
  <1>2. IsProject(files') /\ release' \in Nat \ {0} /\ chosen' \subseteq Hosts
    BY PolicyAssumption DEF ProjectInv, Refused, SelfUpdate, projectVars, Policy
  <1>3. HostsHaveACause'
    BY <1>1 DEF ProjectInv, HostsHaveACause, Detected
  <1>4. SyncReaches'
    <2>1. CASE UNCHANGED <<release, settled>>
      BY <1>1, <2>1, SyncReachesStays DEF ProjectInv
    <2>2. CASE ~settled'
      BY <2>2 DEF SyncReaches
    <2> QED
      BY <2>1, <2>2 DEF Refused, SelfUpdate, projectVars
  <1>5. cmd' = cmd \/ cmd' = Idle
    BY DEF Refused, SelfUpdate, projectVars
  <1>6. ASSUME NEW fs, NEW hosts, NEW lang, Planned(fs, hosts, lang), cmd' = cmd
        PROVE  Planned(fs, hosts, lang)'
    BY <1>1, <1>6, PlannedStays
  <1> QED
    BY <1>2, <1>3, <1>4, <1>5, <1>6 DEF ProjectInv, Idle

LEMMA ProjectInvStep == ProjectInv /\ [ProjectNext]_projectVars => ProjectInv'
  BY BeginsStep, ApplyStep, ProjectUserStep, OtherStep DEF ProjectNext

\* One undisturbed cwf project sync is enough (buildSyncPlan), from any
\* project and whatever init, sync, refresh, edits and updates came before it:
\* what it makes of the files changes neither the language it went by nor the
\* hosts, but that it may retire the last mark of one.
THEOREM SyncsReach == ProjectSpec => []SyncReaches
  <1>1. ProjectInit => ProjectInv
    BY ProjectInvInit
  <1>2. ProjectInv /\ [ProjectNext]_projectVars => ProjectInv'
    BY ProjectInvStep
  <1>3. ProjectInv => SyncReaches
    BY DEF ProjectInv
  <1> QED
    BY <1>1, <1>2, <1>3, PTL DEF ProjectSpec

\* No file that init, sync or refresh writes makes a host look used
\* (platformDetector) that nobody has asked for, whenever its plan was made.
THEOREM HostsAreExplained == ProjectSpec => []HostsHaveACause
  <1>1. ProjectInit => ProjectInv
    BY ProjectInvInit
  <1>2. ProjectInv /\ [ProjectNext]_projectVars => ProjectInv'
    BY ProjectInvStep
  <1>3. ProjectInv => HostsHaveACause
    BY DEF ProjectInv
  <1> QED
    BY <1>1, <1>2, <1>3, PTL DEF ProjectSpec

\* buildInitPlan, buildSyncPlan and dev refresh plan to remove text of the
\* user's only from the framework's own files, by --force, or in a checkout of
\* the package; what is planned and then edited is lost only where a plan
\* replaces or retires it.
THEOREM OwnTextIsKept == ProjectSpec => OwnTextKept
  <1> DEFINE Kept ==
         cmd # Idle /\ cmd' = Idle =>
           \A a \in AssetClasses : files[a].own /\ ~files'[a].own =>
              \/ a \notin ProjectOwned
              \/ cmd.force /\ a \notin ForceProtectedPaths \cup RetiredSkills
              \/ cmd.kind = "refresh" /\ a \in RuntimePaths \ {Config, Developer}
              \/ a \in rewritten /\ a \in ManagedPaths \cup RetiredSkills
  <1>1. ProjectInit => ProjectInv
    BY ProjectInvInit
  <1>2. ProjectInv /\ [ProjectNext]_projectVars => ProjectInv'
    BY ProjectInvStep
  <1>3. ASSUME ProjectInv, [ProjectNext]_projectVars PROVE Kept
    <2> SUFFICES ASSUME cmd # Idle, cmd' = Idle, NEW a \in AssetClasses,
                        files[a].own, ~files'[a].own, a \in ProjectOwned
                 PROVE  \/ cmd.force /\ a \notin ForceProtectedPaths \cup RetiredSkills
                        \/ cmd.kind = "refresh" /\ a \in RuntimePaths \ {Config, Developer}
                        \/ a \in rewritten /\ a \in ManagedPaths \cup RetiredSkills
      OBVIOUS
    <2>1. ApplyPlan
      BY <1>3 DEF ProjectNext, BeginInit, BeginSync, BeginRefresh, Begin, Refused, EditFile,
         SetLanguage, DropBlock, Delete, Put, SelfUpdate, projectVars
    <2>2. PICK fs \in [AssetClasses -> Texts], hosts \in SUBSET Hosts, lang \in Languages :
            Planned(fs, hosts, lang)
      BY <1>3 DEF ProjectInv
    <2> PICK r : r = cmd.plan[a]
      OBVIOUS
    <2>3. Fine(cmd.kind, cmd.force, r, a, fs, hosts)
      BY <2>2, PlanIsFine
    <2>4. files'[a] = Left(r, a, files)
      BY <2>1, OutcomeIs DEF ApplyPlan
    <2>5. r.do \in {"create", "update", "delete"} /\ ~r.to.own
      BY <2>4 DEF Left
    <2>6. files[a] # Nothing
      BY NothingIs
    <2>7. r.do # "create"
      BY <2>1, <2>6 DEF ApplyPlan, Fails, TargetChanged, Exists
    <2>8. a \notin rewritten => fs[a] = files[a]
      BY <2>2 DEF Planned
    <2>9. Careful(cmd.kind, cmd.force, r, a, fs)
      BY <2>3 DEF Fine
    <2> QED
      BY <2>5, <2>7, <2>8, <2>9 DEF Careful
  <1> QED
    BY <1>1, <1>2, <1>3, PTL DEF ProjectSpec, OwnTextKept

\* A plan fits the project it was made of (validateTargetState), but for the
\* update of a missing .version and the creation of a nameless .developer: a
\* rollback has one of these for a cause, or an edit or update in between.
THEOREM FailuresAreExplained == ProjectSpec => FailureHasACause
  <1> DEFINE Explained ==
         Refused =>
            \/ rewritten # {} \/ release # cmd.rel
            \/ cmd.kind = "sync" /\ ~Exists(VersionFile)
            \/ cmd.kind = "init" /\ files[Developer].word \in {"none", "nameless"}
               /\ Exists(Developer)
  <1>1. ProjectInit => ProjectInv
    BY ProjectInvInit
  <1>2. ProjectInv /\ [ProjectNext]_projectVars => ProjectInv'
    BY ProjectInvStep
  <1>3. ASSUME ProjectInv PROVE Explained
    <2> SUFFICES ASSUME Refused, rewritten = {}, release = cmd.rel
                 PROVE  \/ cmd.kind = "sync" /\ ~Exists(VersionFile)
                        \/ cmd.kind = "init" /\ files[Developer].word \in {"none", "nameless"}
                           /\ Exists(Developer)
      OBVIOUS
    <2>1. PICK fs \in [AssetClasses -> Texts], hosts \in SUBSET Hosts, lang \in Languages :
            Planned(fs, hosts, lang)
      BY <1>3 DEF ProjectInv, Refused
    <2>2. PICK a \in AssetClasses : TargetChanged(a)
      BY DEF Refused, Fails, StagedHashDiffers
    <2>3. fs[a] = files[a]
      BY <2>1 DEF Planned
    <2> PICK r : r = cmd.plan[a]
      OBVIOUS
    <2>4. Timely(cmd.kind, r, a, files)
      BY <2>1, <2>3, PlanIsFine DEF Fine, Timely
    <2> QED
      BY <2>2, <2>4 DEF Timely, TargetChanged, Exists
  <1> QED
    BY <1>1, <1>2, <1>3, PTL DEF ProjectSpec, FailureHasACause

-----------------------------------------------------------------------------
(***************************************************************************)
(* The plugin of one host (HostPlugin), for any hosts, any number of       *)
(* releases, commands, kills, errors, and acts of the user and of others.  *)
(* Where a command is in its script is told by how many steps are left     *)
(* (StepsLeft); what the steps behind it have left, and what others may    *)
(* have done to that since, is said per host.                              *)
(***************************************************************************)

Kinds5 == {"zcode", "qoder", "kimi-code", "claude-code", "codex"}

\* The steps of a command, of which the last are left.
Script(op, full, rel) ==
    CASE host = "zcode" /\ op = "add" ->
            <<Step("wipe", rel), Step("copy", rel), Step("stamp", rel), Do("market"),
              Do("active"), Do("known"), Do("legacy"), Do("prune")>>
      [] host = "qoder" /\ op = "add" /\ full ->
            <<Step("wipe", rel), Step("copy", rel), Step("stamp", rel), Do("agents"),
              Step("strip", rel), Do("register"), Do("enable")>>
      [] host = "qoder" /\ op = "add" /\ ~full -> <<Do("agents"), Step("strip", rel)>>
      [] host = "kimi-code" /\ op = "add" ->
            <<Step("guard", 0), Step("wipe", 0), Step("copy", 0), Step("stamp", 0),
              Step("guard", 1), Step("wipe", 1), Step("copy", 1), Step("stamp", 1), Do("record")>>
      [] host = "claude-code" /\ op = "add" ->
            <<Step("guard", 1), Step("wipe", 1), Step("copy", 1), Step("stamp", 1)>>
      [] host = "codex" /\ op = "add" ->
            <<Step("wipe", 1), Step("copy", 1), Step("stamp", 1), Do("source"), Do("cli"),
              Do("plug")>>
      [] OTHER -> RemoveSteps

StepsLeft == Len(job.todo)

\* What the command has yet to do is the end of its script.
Follows ==
    LET script == Script(job.op, job.full, job.rel) IN
    /\ StepsLeft \in 1 .. Len(script)
    /\ \A i \in 1 .. StepsLeft : job.todo[i] = script[Len(script) - StepsLeft + i]

StepNames == {"guard", "wipe", "copy", "stamp", "agents", "strip", "register", "enable",
              "unregister", "disable", "market", "active", "known", "legacy", "prune", "forget",
              "rmcache", "rmmarket", "rmactive", "rmagents", "record", "unrecord", "source", "cli",
              "plug", "unplug", "rmroot"}
Steps == [do : StepNames, at : 0 .. LastRelease]

Jobs == [op : {"none", "add", "remove"}, force : BOOLEAN, prune : BOOLEAN,
         rel : 0 .. LastRelease, full : BOOLEAN, todo : Seq(Steps),
         view : [active : 0 .. LastRelease, others : SUBSET Others]]

\* Types; a command works for the release it found and has read every entry
\* of others that was not added meanwhile.
PluginTyped ==
    /\ host \in Kinds5 /\ packaged \in 1 .. LastRelease
    /\ payload \in [0 .. LastRelease -> [part : Parts, rel : 0 .. LastRelease]]
    /\ rec \in [active : 0 .. LastRelease, market : 0 .. LastRelease, known : {"none", "ours"},
                switch : {"none", "on", "off"}, cached : 0 .. LastRelease]
    /\ legacy \in BOOLEAN /\ acts \in Nat
    /\ shared \in {"ok", "broken"} /\ agents \in {"none", "managed", "user"}
    /\ others \subseteq Others
    /\ job \in Jobs
    /\ Busy => /\ job.rel = packaged /\ Follows
               /\ others \subseteq job.view.others \cup meanwhile

\* The parts the invariants of the hosts are made of.
Adding == Busy /\ job.op = "add"
Removing == Busy /\ job.op = "remove"
DirReady(p) == payload[p] = [part |-> "whole", rel |-> packaged]
NotForeign(p) == payload[p].part # "foreign" \/ job.force
Emptied == \A p \in 0 .. LastRelease : payload[p].part = "none"
OnlyAt(places) == \A p \in 0 .. LastRelease \ places : payload[p].part = "none"
NothingForeign == \A p \in 0 .. LastRelease : payload[p].part # "foreign"

\* An edition is complete, or an earlier command stopped at its release.
Editions ==
    \A r \in 1 .. LastRelease :
       \/ payload[r].part = "none" \/ r \in cut \/ (Adding /\ job.full /\ r = packaged)
       \/ payload[r] = [part |-> "whole", rel |-> r]

\* zcode: the edition comes before the entries that point to it, and an
\* edition that is reused unread is complete or one a command stopped at.
ZcodeAdding ==
    /\ StepsLeft > 5 => job.full
    /\ StepsLeft = 6 => payload[packaged].part = "whole"
    /\ StepsLeft <= 5 => DirReady(packaged) \/ (~job.full /\ packaged \in cut)
    /\ StepsLeft <= 3 => rec.active = packaged
    /\ StepsLeft <= 2 => rec.known = "ours"
    /\ StepsLeft <= 1 => ~legacy

ZcodeRemoving ==
    /\ StepsLeft <= 3 => rec.known = "none" \/ shared = "broken" \/ "shared" \in meanwhile
    /\ StepsLeft <= 2 => Emptied
    /\ StepsLeft <= 1 => rec.market = 0

ZcodeInv ==
    /\ agents # "managed" /\ rec.switch = "none" /\ rec.cached = 0
    /\ NothingForeign /\ Editions
    /\ Adding => ZcodeAdding
    /\ Removing => ~job.full /\ ZcodeRemoving

\* qoder: an edition is bundled until it is stripped, which is the step
\* before it is registered; the registry points to this release unless its
\* edition is not there, was left half done, or is being made.
QoderAdding ==
    /\ StepsLeft = 5 => payload[packaged].part = "bundled"
    /\ StepsLeft \in {3, 4} => payload[packaged] = [part |-> "bundled", rel |-> packaged]
    /\ StepsLeft <= 2 => DirReady(packaged)
    /\ StepsLeft <= 1 => rec.active = packaged

QoderReusing ==
    /\ packaged \in cut \/ (DirReady(packaged) /\ rec.active = packaged)
    /\ rec.switch = "on" \/ "switch" \in meanwhile

QoderRemoving ==
    /\ StepsLeft = 4 => rec.active = job.view.active
    /\ StepsLeft <= 3 => rec.active = 0
    /\ StepsLeft <= 2 => rec.switch = "none"
    /\ StepsLeft <= 1 => Emptied

QoderRecorded ==
    \/ payload[packaged].part = "none" \/ packaged \in cut \/ (Adding /\ job.full)
    \/ rec.active \in {0, packaged}

QoderInv ==
    /\ rec.market = 0 /\ rec.known = "none" /\ rec.cached = 0
    /\ NothingForeign /\ Editions /\ OnlyAt(1 .. packaged)
    /\ QoderRecorded
    /\ Adding /\ job.full => QoderAdding
    /\ Adding /\ ~job.full => QoderReusing
    /\ Removing => ~job.full /\ QoderRemoving

\* kimi-code: two copies, each behind its own guard.
KimiAdding ==
    /\ StepsLeft <= 8 => NotForeign(0)
    /\ StepsLeft <= 4 => NotForeign(1)
    /\ StepsLeft = 2 => payload[1].part = "whole"
    /\ StepsLeft <= 1 => DirReady(1)

KimiRemoving ==
    /\ StepsLeft <= 4 => NotForeign(1)
    /\ StepsLeft <= 3 => payload[1].part = "none"
    /\ StepsLeft <= 2 => NotForeign(0)
    /\ StepsLeft <= 1 => payload[0].part = "none"

KimiInv ==
    /\ agents # "managed" /\ OnlyAt({0, 1})
    /\ Adding => job.full /\ KimiAdding
    /\ Removing => KimiRemoving

\* claude-code: a directory of this release is complete or an earlier command
\* stopped at it, which is what the reuse of one without --force relies on.
ClaudeAdding ==
    /\ StepsLeft <= 3 => NotForeign(1)
    /\ StepsLeft <= 1 => payload[1].part = "whole"

ClaudeWhole ==
    ~Named(1) \/ payload[1].rel # packaged \/ packaged \in cut \/ payload[1].part = "whole"

ClaudeInv ==
    /\ agents # "managed" /\ rec = NoRecord /\ OnlyAt({1}) /\ payload[1].rel <= packaged
    /\ ClaudeWhole
    /\ Adding => job.full /\ ClaudeAdding
    /\ Removing /\ StepsLeft <= 1 => NotForeign(1)

\* codex: the files come before the registration its CLI keeps.
CodexAdds ==
    /\ StepsLeft = 4 => payload[1].part = "whole"
    /\ StepsLeft <= 3 => DirReady(1)
    /\ StepsLeft <= 1 => rec.known = "ours"

CodexInv ==
    /\ agents # "managed" /\ rec.active = 0 /\ OnlyAt({1}) /\ NothingForeign
    /\ Adding => job.full /\ CodexAdds
    /\ Removing /\ StepsLeft <= 1 => rec.known = "none" /\ rec.switch = "none" /\ rec.cached = 0

\* The inductive invariant.
PluginInv ==
    /\ PluginTyped
    /\ host = "zcode" => ZcodeInv
    /\ host = "qoder" => QoderInv
    /\ host = "kimi-code" => KimiInv
    /\ host = "claude-code" => ClaudeInv
    /\ host = "codex" => CodexInv

-----------------------------------------------------------------------------
\* Which step comes next: the scripts, by how many steps are left.

\* The head and the tail of a sequence that is not empty.
LEMMA TailIs ==
    ASSUME NEW S, NEW s \in Seq(S), Len(s) >= 1
    PROVE  /\ Len(s) \in Nat \ {0} /\ s # <<>> /\ Head(s) = s[1]
           /\ Tail(s) \in Seq(S) /\ Len(Tail(s)) = Len(s) - 1
           /\ (Tail(s) = <<>>) <=> (Len(s) = 1)
           /\ \A i \in 1 .. Len(s) - 1 : Tail(s)[i] = s[i + 1]
  <1>1. s # <<>> /\ Len(s) \in Nat
    OBVIOUS
  <1>2. Tail(s) \in Seq(S) /\ Len(Tail(s)) = Len(s) - 1
    BY <1>1
  <1>3. (Tail(s) = <<>>) <=> (Len(Tail(s)) = 0)
    BY <1>2, EmptySeq
  <1> QED
    BY <1>1, <1>2, <1>3

\* What is left of a command that runs.
LEMMA TodoIs ==
    ASSUME PluginTyped, Busy
    PROVE  /\ StepsLeft \in Nat \ {0} /\ job.todo \in Seq(Steps)
           /\ Head(job.todo) = job.todo[1] /\ Tail(job.todo) \in Seq(Steps)
           /\ (Tail(job.todo) = <<>>) <=> (StepsLeft = 1)
           /\ Len(Tail(job.todo)) = StepsLeft - 1
           /\ \A i \in 1 .. StepsLeft - 1 : Tail(job.todo)[i] = job.todo[i + 1]
  <1>2. job.todo \in Seq(Steps) /\ Follows
    BY DEF PluginTyped, Jobs
  <1>3. StepsLeft >= 1
    BY <1>2 DEF Follows
  <1> QED
    BY <1>2, <1>3, TailIs DEF StepsLeft

\* One lemma per script: the step a command is at when so many are left.
LEMMA ZcodeAdd ==
    ASSUME PluginTyped, Busy, host = "zcode" /\ job.op = "add"
    PROVE  /\ StepsLeft \in 1 .. 8
           /\ StepsLeft = 8 => Head(job.todo) = Step("wipe", packaged)
           /\ StepsLeft = 7 => Head(job.todo) = Step("copy", packaged)
           /\ StepsLeft = 6 => Head(job.todo) = Step("stamp", packaged)
           /\ StepsLeft = 5 => Head(job.todo) = Do("market")
           /\ StepsLeft = 4 => Head(job.todo) = Do("active")
           /\ StepsLeft = 3 => Head(job.todo) = Do("known")
           /\ StepsLeft = 2 => Head(job.todo) = Do("legacy")
           /\ StepsLeft = 1 => Head(job.todo) = Do("prune")
  <1> DEFINE s == <<Step("wipe", packaged), Step("copy", packaged), Step("stamp", packaged),
                 Do("market"), Do("active"), Do("known"), Do("legacy"), Do("prune")>>
  <1>1. job.rel = packaged /\ Follows
    BY DEF PluginTyped
  <1>2. s = Script(job.op, job.full, job.rel)
    BY <1>1 DEF Script, RemoveSteps
  <1>3. Len(s) = 8
    OBVIOUS
  <1>4. /\ s[1] = Step("wipe", packaged)
        /\ s[2] = Step("copy", packaged)
        /\ s[3] = Step("stamp", packaged)
        /\ s[4] = Do("market")
        /\ s[5] = Do("active")
        /\ s[6] = Do("known")
        /\ s[7] = Do("legacy")
        /\ s[8] = Do("prune")
    OBVIOUS
  <1> HIDE DEF s
  <1>5. StepsLeft \in 1 .. Len(s) /\ \A i \in 1 .. StepsLeft : job.todo[i] = s[Len(s) - StepsLeft + i]
    BY <1>1, <1>2 DEF Follows
  <1>6. StepsLeft \in 1 .. 8 /\ job.todo[1] = s[8 - StepsLeft + 1]
    BY <1>3, <1>5
  <1>7. Head(job.todo) = job.todo[1]
    BY TodoIs
  <1> QED
    BY <1>4, <1>6, <1>7

LEMMA QoderAdd ==
    ASSUME PluginTyped, Busy, host = "qoder" /\ job.op = "add" /\ job.full
    PROVE  /\ StepsLeft \in 1 .. 7
           /\ StepsLeft = 7 => Head(job.todo) = Step("wipe", packaged)
           /\ StepsLeft = 6 => Head(job.todo) = Step("copy", packaged)
           /\ StepsLeft = 5 => Head(job.todo) = Step("stamp", packaged)
           /\ StepsLeft = 4 => Head(job.todo) = Do("agents")
           /\ StepsLeft = 3 => Head(job.todo) = Step("strip", packaged)
           /\ StepsLeft = 2 => Head(job.todo) = Do("register")
           /\ StepsLeft = 1 => Head(job.todo) = Do("enable")
  <1> DEFINE s == <<Step("wipe", packaged), Step("copy", packaged), Step("stamp", packaged),
                 Do("agents"), Step("strip", packaged), Do("register"), Do("enable")>>
  <1>1. job.rel = packaged /\ Follows
    BY DEF PluginTyped
  <1>2. s = Script(job.op, job.full, job.rel)
    BY <1>1 DEF Script, RemoveSteps
  <1>3. Len(s) = 7
    OBVIOUS
  <1>4. /\ s[1] = Step("wipe", packaged)
        /\ s[2] = Step("copy", packaged)
        /\ s[3] = Step("stamp", packaged)
        /\ s[4] = Do("agents")
        /\ s[5] = Step("strip", packaged)
        /\ s[6] = Do("register")
        /\ s[7] = Do("enable")
    OBVIOUS
  <1> HIDE DEF s
  <1>5. StepsLeft \in 1 .. Len(s) /\ \A i \in 1 .. StepsLeft : job.todo[i] = s[Len(s) - StepsLeft + i]
    BY <1>1, <1>2 DEF Follows
  <1>6. StepsLeft \in 1 .. 7 /\ job.todo[1] = s[7 - StepsLeft + 1]
    BY <1>3, <1>5
  <1>7. Head(job.todo) = job.todo[1]
    BY TodoIs
  <1> QED
    BY <1>4, <1>6, <1>7

LEMMA QoderHealthy ==
    ASSUME PluginTyped, Busy, host = "qoder" /\ job.op = "add" /\ ~job.full
    PROVE  /\ StepsLeft \in 1 .. 2
           /\ StepsLeft = 2 => Head(job.todo) = Do("agents")
           /\ StepsLeft = 1 => Head(job.todo) = Step("strip", packaged)
  <1> DEFINE s == <<Do("agents"), Step("strip", packaged)>>
  <1>1. job.rel = packaged /\ Follows
    BY DEF PluginTyped
  <1>2. s = Script(job.op, job.full, job.rel)
    BY <1>1 DEF Script, RemoveSteps
  <1>3. Len(s) = 2
    OBVIOUS
  <1>4. /\ s[1] = Do("agents")
        /\ s[2] = Step("strip", packaged)
    OBVIOUS
  <1> HIDE DEF s
  <1>5. StepsLeft \in 1 .. Len(s) /\ \A i \in 1 .. StepsLeft : job.todo[i] = s[Len(s) - StepsLeft + i]
    BY <1>1, <1>2 DEF Follows
  <1>6. StepsLeft \in 1 .. 2 /\ job.todo[1] = s[2 - StepsLeft + 1]
    BY <1>3, <1>5
  <1>7. Head(job.todo) = job.todo[1]
    BY TodoIs
  <1> QED
    BY <1>4, <1>6, <1>7

LEMMA KimiAdd ==
    ASSUME PluginTyped, Busy, host = "kimi-code" /\ job.op = "add"
    PROVE  /\ StepsLeft \in 1 .. 9
           /\ StepsLeft = 9 => Head(job.todo) = Step("guard", 0)
           /\ StepsLeft = 8 => Head(job.todo) = Step("wipe", 0)
           /\ StepsLeft = 7 => Head(job.todo) = Step("copy", 0)
           /\ StepsLeft = 6 => Head(job.todo) = Step("stamp", 0)
           /\ StepsLeft = 5 => Head(job.todo) = Step("guard", 1)
           /\ StepsLeft = 4 => Head(job.todo) = Step("wipe", 1)
           /\ StepsLeft = 3 => Head(job.todo) = Step("copy", 1)
           /\ StepsLeft = 2 => Head(job.todo) = Step("stamp", 1)
           /\ StepsLeft = 1 => Head(job.todo) = Do("record")
  <1> DEFINE s == <<Step("guard", 0), Step("wipe", 0), Step("copy", 0), Step("stamp", 0),
                 Step("guard", 1), Step("wipe", 1), Step("copy", 1), Step("stamp", 1),
                 Do("record")>>
  <1>1. job.rel = packaged /\ Follows
    BY DEF PluginTyped
  <1>2. s = Script(job.op, job.full, job.rel)
    BY <1>1 DEF Script, RemoveSteps
  <1>3. Len(s) = 9
    OBVIOUS
  <1>4. /\ s[1] = Step("guard", 0)
        /\ s[2] = Step("wipe", 0)
        /\ s[3] = Step("copy", 0)
        /\ s[4] = Step("stamp", 0)
        /\ s[5] = Step("guard", 1)
        /\ s[6] = Step("wipe", 1)
        /\ s[7] = Step("copy", 1)
        /\ s[8] = Step("stamp", 1)
        /\ s[9] = Do("record")
    OBVIOUS
  <1> HIDE DEF s
  <1>5. StepsLeft \in 1 .. Len(s) /\ \A i \in 1 .. StepsLeft : job.todo[i] = s[Len(s) - StepsLeft + i]
    BY <1>1, <1>2 DEF Follows
  <1>6. StepsLeft \in 1 .. 9 /\ job.todo[1] = s[9 - StepsLeft + 1]
    BY <1>3, <1>5
  <1>7. Head(job.todo) = job.todo[1]
    BY TodoIs
  <1> QED
    BY <1>4, <1>6, <1>7

LEMMA ClaudeAdd ==
    ASSUME PluginTyped, Busy, host = "claude-code" /\ job.op = "add"
    PROVE  /\ StepsLeft \in 1 .. 4
           /\ StepsLeft = 4 => Head(job.todo) = Step("guard", 1)
           /\ StepsLeft = 3 => Head(job.todo) = Step("wipe", 1)
           /\ StepsLeft = 2 => Head(job.todo) = Step("copy", 1)
           /\ StepsLeft = 1 => Head(job.todo) = Step("stamp", 1)
  <1> DEFINE s == <<Step("guard", 1), Step("wipe", 1), Step("copy", 1), Step("stamp", 1)>>
  <1>1. job.rel = packaged /\ Follows
    BY DEF PluginTyped
  <1>2. s = Script(job.op, job.full, job.rel)
    BY <1>1 DEF Script, RemoveSteps
  <1>3. Len(s) = 4
    OBVIOUS
  <1>4. /\ s[1] = Step("guard", 1)
        /\ s[2] = Step("wipe", 1)
        /\ s[3] = Step("copy", 1)
        /\ s[4] = Step("stamp", 1)
    OBVIOUS
  <1> HIDE DEF s
  <1>5. StepsLeft \in 1 .. Len(s) /\ \A i \in 1 .. StepsLeft : job.todo[i] = s[Len(s) - StepsLeft + i]
    BY <1>1, <1>2 DEF Follows
  <1>6. StepsLeft \in 1 .. 4 /\ job.todo[1] = s[4 - StepsLeft + 1]
    BY <1>3, <1>5
  <1>7. Head(job.todo) = job.todo[1]
    BY TodoIs
  <1> QED
    BY <1>4, <1>6, <1>7

LEMMA CodexAdding ==
    ASSUME PluginTyped, Busy, host = "codex" /\ job.op = "add"
    PROVE  /\ StepsLeft \in 1 .. 6
           /\ StepsLeft = 6 => Head(job.todo) = Step("wipe", 1)
           /\ StepsLeft = 5 => Head(job.todo) = Step("copy", 1)
           /\ StepsLeft = 4 => Head(job.todo) = Step("stamp", 1)
           /\ StepsLeft = 3 => Head(job.todo) = Do("source")
           /\ StepsLeft = 2 => Head(job.todo) = Do("cli")
           /\ StepsLeft = 1 => Head(job.todo) = Do("plug")
  <1> DEFINE s == <<Step("wipe", 1), Step("copy", 1), Step("stamp", 1), Do("source"),
                 Do("cli"), Do("plug")>>
  <1>1. job.rel = packaged /\ Follows
    BY DEF PluginTyped
  <1>2. s = Script(job.op, job.full, job.rel)
    BY <1>1 DEF Script, RemoveSteps
  <1>3. Len(s) = 6
    OBVIOUS
  <1>4. /\ s[1] = Step("wipe", 1)
        /\ s[2] = Step("copy", 1)
        /\ s[3] = Step("stamp", 1)
        /\ s[4] = Do("source")
        /\ s[5] = Do("cli")
        /\ s[6] = Do("plug")
    OBVIOUS
  <1> HIDE DEF s
  <1>5. StepsLeft \in 1 .. Len(s) /\ \A i \in 1 .. StepsLeft : job.todo[i] = s[Len(s) - StepsLeft + i]
    BY <1>1, <1>2 DEF Follows
  <1>6. StepsLeft \in 1 .. 6 /\ job.todo[1] = s[6 - StepsLeft + 1]
    BY <1>3, <1>5
  <1>7. Head(job.todo) = job.todo[1]
    BY TodoIs
  <1> QED
    BY <1>4, <1>6, <1>7

LEMMA ZcodeRemove ==
    ASSUME PluginTyped, Busy, host = "zcode" /\ job.op = "remove"
    PROVE  /\ StepsLeft \in 1 .. 4
           /\ StepsLeft = 4 => Head(job.todo) = Do("forget")
           /\ StepsLeft = 3 => Head(job.todo) = Do("rmcache")
           /\ StepsLeft = 2 => Head(job.todo) = Do("rmmarket")
           /\ StepsLeft = 1 => Head(job.todo) = Do("rmactive")
  <1> DEFINE s == <<Do("forget"), Do("rmcache"), Do("rmmarket"), Do("rmactive")>>
  <1>1. job.rel = packaged /\ Follows
    BY DEF PluginTyped
  <1>2. s = Script(job.op, job.full, job.rel)
    BY <1>1 DEF Script, RemoveSteps
  <1>3. Len(s) = 4
    OBVIOUS
  <1>4. /\ s[1] = Do("forget")
        /\ s[2] = Do("rmcache")
        /\ s[3] = Do("rmmarket")
        /\ s[4] = Do("rmactive")
    OBVIOUS
  <1> HIDE DEF s
  <1>5. StepsLeft \in 1 .. Len(s) /\ \A i \in 1 .. StepsLeft : job.todo[i] = s[Len(s) - StepsLeft + i]
    BY <1>1, <1>2 DEF Follows
  <1>6. StepsLeft \in 1 .. 4 /\ job.todo[1] = s[4 - StepsLeft + 1]
    BY <1>3, <1>5
  <1>7. Head(job.todo) = job.todo[1]
    BY TodoIs
  <1> QED
    BY <1>4, <1>6, <1>7

LEMMA QoderRemove ==
    ASSUME PluginTyped, Busy, host = "qoder" /\ job.op = "remove"
    PROVE  /\ StepsLeft \in 1 .. 4
           /\ StepsLeft = 4 => Head(job.todo) = Do("unregister")
           /\ StepsLeft = 3 => Head(job.todo) = Do("disable")
           /\ StepsLeft = 2 => Head(job.todo) = Do("rmcache")
           /\ StepsLeft = 1 => Head(job.todo) = Do("rmagents")
  <1> DEFINE s == <<Do("unregister"), Do("disable"), Do("rmcache"), Do("rmagents")>>
  <1>1. job.rel = packaged /\ Follows
    BY DEF PluginTyped
  <1>2. s = Script(job.op, job.full, job.rel)
    BY <1>1 DEF Script, RemoveSteps
  <1>3. Len(s) = 4
    OBVIOUS
  <1>4. /\ s[1] = Do("unregister")
        /\ s[2] = Do("disable")
        /\ s[3] = Do("rmcache")
        /\ s[4] = Do("rmagents")
    OBVIOUS
  <1> HIDE DEF s
  <1>5. StepsLeft \in 1 .. Len(s) /\ \A i \in 1 .. StepsLeft : job.todo[i] = s[Len(s) - StepsLeft + i]
    BY <1>1, <1>2 DEF Follows
  <1>6. StepsLeft \in 1 .. 4 /\ job.todo[1] = s[4 - StepsLeft + 1]
    BY <1>3, <1>5
  <1>7. Head(job.todo) = job.todo[1]
    BY TodoIs
  <1> QED
    BY <1>4, <1>6, <1>7

LEMMA KimiRemove ==
    ASSUME PluginTyped, Busy, host = "kimi-code" /\ job.op = "remove"
    PROVE  /\ StepsLeft \in 1 .. 5
           /\ StepsLeft = 5 => Head(job.todo) = Step("guard", 1)
           /\ StepsLeft = 4 => Head(job.todo) = Step("wipe", 1)
           /\ StepsLeft = 3 => Head(job.todo) = Step("guard", 0)
           /\ StepsLeft = 2 => Head(job.todo) = Step("wipe", 0)
           /\ StepsLeft = 1 => Head(job.todo) = Do("unrecord")
  <1> DEFINE s == <<Step("guard", 1), Step("wipe", 1), Step("guard", 0), Step("wipe", 0),
                 Do("unrecord")>>
  <1>1. job.rel = packaged /\ Follows
    BY DEF PluginTyped
  <1>2. s = Script(job.op, job.full, job.rel)
    BY <1>1 DEF Script, RemoveSteps
  <1>3. Len(s) = 5
    OBVIOUS
  <1>4. /\ s[1] = Step("guard", 1)
        /\ s[2] = Step("wipe", 1)
        /\ s[3] = Step("guard", 0)
        /\ s[4] = Step("wipe", 0)
        /\ s[5] = Do("unrecord")
    OBVIOUS
  <1> HIDE DEF s
  <1>5. StepsLeft \in 1 .. Len(s) /\ \A i \in 1 .. StepsLeft : job.todo[i] = s[Len(s) - StepsLeft + i]
    BY <1>1, <1>2 DEF Follows
  <1>6. StepsLeft \in 1 .. 5 /\ job.todo[1] = s[5 - StepsLeft + 1]
    BY <1>3, <1>5
  <1>7. Head(job.todo) = job.todo[1]
    BY TodoIs
  <1> QED
    BY <1>4, <1>6, <1>7

LEMMA ClaudeRemove ==
    ASSUME PluginTyped, Busy, host = "claude-code" /\ job.op = "remove"
    PROVE  /\ StepsLeft \in 1 .. 2
           /\ StepsLeft = 2 => Head(job.todo) = Step("guard", 1)
           /\ StepsLeft = 1 => Head(job.todo) = Step("wipe", 1)
  <1> DEFINE s == <<Step("guard", 1), Step("wipe", 1)>>
  <1>1. job.rel = packaged /\ Follows
    BY DEF PluginTyped
  <1>2. s = Script(job.op, job.full, job.rel)
    BY <1>1 DEF Script, RemoveSteps
  <1>3. Len(s) = 2
    OBVIOUS
  <1>4. /\ s[1] = Step("guard", 1)
        /\ s[2] = Step("wipe", 1)
    OBVIOUS
  <1> HIDE DEF s
  <1>5. StepsLeft \in 1 .. Len(s) /\ \A i \in 1 .. StepsLeft : job.todo[i] = s[Len(s) - StepsLeft + i]
    BY <1>1, <1>2 DEF Follows
  <1>6. StepsLeft \in 1 .. 2 /\ job.todo[1] = s[2 - StepsLeft + 1]
    BY <1>3, <1>5
  <1>7. Head(job.todo) = job.todo[1]
    BY TodoIs
  <1> QED
    BY <1>4, <1>6, <1>7

LEMMA CodexRemoving ==
    ASSUME PluginTyped, Busy, host = "codex" /\ job.op = "remove"
    PROVE  /\ StepsLeft \in 1 .. 2
           /\ StepsLeft = 2 => Head(job.todo) = Do("unplug")
           /\ StepsLeft = 1 => Head(job.todo) = Do("rmroot")
  <1> DEFINE s == <<Do("unplug"), Do("rmroot")>>
  <1>1. job.rel = packaged /\ Follows
    BY DEF PluginTyped
  <1>2. s = Script(job.op, job.full, job.rel)
    BY <1>1 DEF Script, RemoveSteps
  <1>3. Len(s) = 2
    OBVIOUS
  <1>4. /\ s[1] = Do("unplug")
        /\ s[2] = Do("rmroot")
    OBVIOUS
  <1> HIDE DEF s
  <1>5. StepsLeft \in 1 .. Len(s) /\ \A i \in 1 .. StepsLeft : job.todo[i] = s[Len(s) - StepsLeft + i]
    BY <1>1, <1>2 DEF Follows
  <1>6. StepsLeft \in 1 .. 2 /\ job.todo[1] = s[2 - StepsLeft + 1]
    BY <1>3, <1>5
  <1>7. Head(job.todo) = job.todo[1]
    BY TodoIs
  <1> QED
    BY <1>4, <1>6, <1>7

-----------------------------------------------------------------------------
\* Concatenation, for the lengths the scripts are put together from.
LEMMA JoinBy ==
    ASSUME NEW S, NEW s \in Seq(S), NEW t \in Seq(S), NEW w \in Seq(S),
           Len(w) = Len(s) + Len(t),
           \A i \in 1 .. Len(w) : w[i] = IF i <= Len(s) THEN s[i] ELSE t[i - Len(s)]
    PROVE  s \o t = w
  <1>1. s \o t \in Seq(S) /\ Len(s \o t) = Len(s) + Len(t)
    OBVIOUS
  <1>2. \A i \in 1 .. Len(s) + Len(t) : (s \o t)[i] = IF i <= Len(s) THEN s[i] ELSE t[i - Len(s)]
    OBVIOUS
  <1>3. \A i \in 1 .. Len(s \o t) : (s \o t)[i] = w[i]
    BY <1>1, <1>2
  <1> QED
    BY <1>1, <1>3, SeqEqual

LEMMA Join35 ==
    ASSUME NEW S, NEW x1 \in S, NEW x2 \in S, NEW x3 \in S, NEW y1 \in S, NEW y2 \in S,
           NEW y3 \in S, NEW y4 \in S, NEW y5 \in S
    PROVE  <<x1, x2, x3>> \o <<y1, y2, y3, y4, y5>> = <<x1, x2, x3, y1, y2, y3, y4, y5>>
  <1> DEFINE s == <<x1, x2, x3>>
             t == <<y1, y2, y3, y4, y5>>
             w == <<x1, x2, x3, y1, y2, y3, y4, y5>>
  <1>1. s \in Seq(S) /\ Len(s) = 3 /\ t \in Seq(S) /\ Len(t) = 5
    OBVIOUS
  <1>2. w \in Seq(S) /\ Len(w) = 8
    OBVIOUS
  <1>3. \A i \in 1 .. 8 : w[i] = IF i <= 3 THEN s[i] ELSE t[i - 3]
    OBVIOUS
  <1> HIDE DEF s, t, w
  <1>4. Len(w) = Len(s) + Len(t)
    BY <1>1, <1>2
  <1>5. \A i \in 1 .. Len(w) : w[i] = IF i <= Len(s) THEN s[i] ELSE t[i - Len(s)]
    BY <1>1, <1>2, <1>3
  <1>6. s \in Seq(S) /\ t \in Seq(S) /\ w \in Seq(S)
    BY <1>1, <1>2
  <1>7. s \o t = w
    BY <1>4, <1>5, <1>6, JoinBy
  <1> QED
    BY <1>7 DEF s, t, w

LEMMA Join34 ==
    ASSUME NEW S, NEW x1 \in S, NEW x2 \in S, NEW x3 \in S, NEW y1 \in S, NEW y2 \in S,
           NEW y3 \in S, NEW y4 \in S
    PROVE  <<x1, x2, x3>> \o <<y1, y2, y3, y4>> = <<x1, x2, x3, y1, y2, y3, y4>>
  <1> DEFINE s == <<x1, x2, x3>>
             t == <<y1, y2, y3, y4>>
             w == <<x1, x2, x3, y1, y2, y3, y4>>
  <1>1. s \in Seq(S) /\ Len(s) = 3 /\ t \in Seq(S) /\ Len(t) = 4
    OBVIOUS
  <1>2. w \in Seq(S) /\ Len(w) = 7
    OBVIOUS
  <1>3. \A i \in 1 .. 7 : w[i] = IF i <= 3 THEN s[i] ELSE t[i - 3]
    OBVIOUS
  <1> HIDE DEF s, t, w
  <1>4. Len(w) = Len(s) + Len(t)
    BY <1>1, <1>2
  <1>5. \A i \in 1 .. Len(w) : w[i] = IF i <= Len(s) THEN s[i] ELSE t[i - Len(s)]
    BY <1>1, <1>2, <1>3
  <1>6. s \in Seq(S) /\ t \in Seq(S) /\ w \in Seq(S)
    BY <1>1, <1>2
  <1>7. s \o t = w
    BY <1>4, <1>5, <1>6, JoinBy
  <1> QED
    BY <1>7 DEF s, t, w

LEMMA Join33 ==
    ASSUME NEW S, NEW x1 \in S, NEW x2 \in S, NEW x3 \in S, NEW y1 \in S, NEW y2 \in S,
           NEW y3 \in S
    PROVE  <<x1, x2, x3>> \o <<y1, y2, y3>> = <<x1, x2, x3, y1, y2, y3>>
  <1> DEFINE s == <<x1, x2, x3>>
             t == <<y1, y2, y3>>
             w == <<x1, x2, x3, y1, y2, y3>>
  <1>1. s \in Seq(S) /\ Len(s) = 3 /\ t \in Seq(S) /\ Len(t) = 3
    OBVIOUS
  <1>2. w \in Seq(S) /\ Len(w) = 6
    OBVIOUS
  <1>3. \A i \in 1 .. 6 : w[i] = IF i <= 3 THEN s[i] ELSE t[i - 3]
    OBVIOUS
  <1> HIDE DEF s, t, w
  <1>4. Len(w) = Len(s) + Len(t)
    BY <1>1, <1>2
  <1>5. \A i \in 1 .. Len(w) : w[i] = IF i <= Len(s) THEN s[i] ELSE t[i - Len(s)]
    BY <1>1, <1>2, <1>3
  <1>6. s \in Seq(S) /\ t \in Seq(S) /\ w \in Seq(S)
    BY <1>1, <1>2
  <1>7. s \o t = w
    BY <1>4, <1>5, <1>6, JoinBy
  <1> QED
    BY <1>7 DEF s, t, w

LEMMA Join13 ==
    ASSUME NEW S, NEW x1 \in S, NEW y1 \in S, NEW y2 \in S, NEW y3 \in S
    PROVE  <<x1>> \o <<y1, y2, y3>> = <<x1, y1, y2, y3>>
  <1> DEFINE s == <<x1>>
             t == <<y1, y2, y3>>
             w == <<x1, y1, y2, y3>>
  <1>1. s \in Seq(S) /\ Len(s) = 1 /\ t \in Seq(S) /\ Len(t) = 3
    OBVIOUS
  <1>2. w \in Seq(S) /\ Len(w) = 4
    OBVIOUS
  <1>3. \A i \in 1 .. 4 : w[i] = IF i <= 1 THEN s[i] ELSE t[i - 1]
    OBVIOUS
  <1> HIDE DEF s, t, w
  <1>4. Len(w) = Len(s) + Len(t)
    BY <1>1, <1>2
  <1>5. \A i \in 1 .. Len(w) : w[i] = IF i <= Len(s) THEN s[i] ELSE t[i - Len(s)]
    BY <1>1, <1>2, <1>3
  <1>6. s \in Seq(S) /\ t \in Seq(S) /\ w \in Seq(S)
    BY <1>1, <1>2
  <1>7. s \o t = w
    BY <1>4, <1>5, <1>6, JoinBy
  <1> QED
    BY <1>7 DEF s, t, w

LEMMA Join41 ==
    ASSUME NEW S, NEW x1 \in S, NEW x2 \in S, NEW x3 \in S, NEW x4 \in S, NEW y1 \in S
    PROVE  <<x1, x2, x3, x4>> \o <<y1>> = <<x1, x2, x3, x4, y1>>
  <1> DEFINE s == <<x1, x2, x3, x4>>
             t == <<y1>>
             w == <<x1, x2, x3, x4, y1>>
  <1>1. s \in Seq(S) /\ Len(s) = 4 /\ t \in Seq(S) /\ Len(t) = 1
    OBVIOUS
  <1>2. w \in Seq(S) /\ Len(w) = 5
    OBVIOUS
  <1>3. \A i \in 1 .. 5 : w[i] = IF i <= 4 THEN s[i] ELSE t[i - 4]
    OBVIOUS
  <1> HIDE DEF s, t, w
  <1>4. Len(w) = Len(s) + Len(t)
    BY <1>1, <1>2
  <1>5. \A i \in 1 .. Len(w) : w[i] = IF i <= Len(s) THEN s[i] ELSE t[i - Len(s)]
    BY <1>1, <1>2, <1>3
  <1>6. s \in Seq(S) /\ t \in Seq(S) /\ w \in Seq(S)
    BY <1>1, <1>2
  <1>7. s \o t = w
    BY <1>4, <1>5, <1>6, JoinBy
  <1> QED
    BY <1>7 DEF s, t, w

LEMMA Join53 ==
    ASSUME NEW S, NEW x1 \in S, NEW x2 \in S, NEW x3 \in S, NEW x4 \in S, NEW x5 \in S,
           NEW y1 \in S, NEW y2 \in S, NEW y3 \in S
    PROVE  <<x1, x2, x3, x4, x5>> \o <<y1, y2, y3>> = <<x1, x2, x3, x4, x5, y1, y2, y3>>
  <1> DEFINE s == <<x1, x2, x3, x4, x5>>
             t == <<y1, y2, y3>>
             w == <<x1, x2, x3, x4, x5, y1, y2, y3>>
  <1>1. s \in Seq(S) /\ Len(s) = 5 /\ t \in Seq(S) /\ Len(t) = 3
    OBVIOUS
  <1>2. w \in Seq(S) /\ Len(w) = 8
    OBVIOUS
  <1>3. \A i \in 1 .. 8 : w[i] = IF i <= 5 THEN s[i] ELSE t[i - 5]
    OBVIOUS
  <1> HIDE DEF s, t, w
  <1>4. Len(w) = Len(s) + Len(t)
    BY <1>1, <1>2
  <1>5. \A i \in 1 .. Len(w) : w[i] = IF i <= Len(s) THEN s[i] ELSE t[i - Len(s)]
    BY <1>1, <1>2, <1>3
  <1>6. s \in Seq(S) /\ t \in Seq(S) /\ w \in Seq(S)
    BY <1>1, <1>2
  <1>7. s \o t = w
    BY <1>4, <1>5, <1>6, JoinBy
  <1> QED
    BY <1>7 DEF s, t, w

-----------------------------------------------------------------------------
\* What a step does to the command: go on, end, fail, or keep what is there.

\* A step of a command that runs.
CmdStep == \/ Guard \/ Wipe \/ Copy \/ Stamp \/ SyncAgents \/ StripBundled \/ QoderRecords
           \/ ZcodeRecords \/ Prune \/ RemoveCache \/ RemoveAgents \/ KimiRecord
           \/ CodexAdd \/ CodexRemove

\* The step at the head of the script says which action it is.
LEMMA CommandAt ==
    ASSUME CmdStep, NEW d, Head(job.todo).do = d
    PROVE  /\ Working
           /\ d = "guard" => Guard
           /\ d = "wipe" => Wipe
           /\ d = "copy" => Copy
           /\ d = "stamp" => Stamp
           /\ d = "agents" => SyncAgents
           /\ d = "strip" => StripBundled
           /\ d \in {"register", "enable", "unregister", "disable"} => QoderRecords
           /\ d \in {"market", "active", "known", "legacy", "forget", "rmmarket", "rmactive"}
                 => ZcodeRecords
           /\ d = "prune" => Prune
           /\ d = "rmcache" => RemoveCache
           /\ d = "rmagents" => RemoveAgents
           /\ d \in {"record", "unrecord"} => KimiRecord
           /\ d \in {"source", "cli", "plug"} => CodexAdd
           /\ d \in {"unplug", "rmroot"} => CodexRemove
  <1>1. Guard => d = "guard" /\ Working
    BY DEF Guard, At
  <1>2. Wipe => d = "wipe" /\ Working
    BY DEF Wipe, At
  <1>3. Copy => d = "copy" /\ Working
    BY DEF Copy, At
  <1>4. Stamp => d = "stamp" /\ Working
    BY DEF Stamp, At
  <1>5. SyncAgents => d = "agents" /\ Working
    BY DEF SyncAgents, At
  <1>6. StripBundled => d = "strip" /\ Working
    BY DEF StripBundled, At
  <1>7. QoderRecords => d \in {"register", "enable", "unregister", "disable"} /\ Working
    BY DEF QoderRecords, At
  <1>8. ZcodeRecords => Working
          /\ d \in {"market", "active", "known", "legacy", "forget", "rmmarket", "rmactive"}
    BY DEF ZcodeRecords, At
  <1>9. Prune => d = "prune" /\ Working
    BY DEF Prune, At
  <1>10. RemoveCache => d = "rmcache" /\ Working
    BY DEF RemoveCache, At
  <1>11. RemoveAgents => d = "rmagents" /\ Working
    BY DEF RemoveAgents, At
  <1>12. KimiRecord => d \in {"record", "unrecord"} /\ Working
    BY DEF KimiRecord, At
  <1>13. CodexAdd => d \in {"source", "cli", "plug"} /\ Working
    BY DEF CodexAdd, At
  <1>14. CodexRemove => d \in {"unplug", "rmroot"} /\ Working
    BY DEF CodexRemove, At
  <1> QED
    BY <1>1, <1>2, <1>3, <1>4, <1>5, <1>6, <1>7, <1>8, <1>9, <1>10, <1>11, <1>12, <1>13, <1>14
       DEF CmdStep

\* The command is the same but for what is left of it; it is over.
Same == job'.op = job.op /\ job'.force = job.force /\ job'.prune = job.prune
        /\ job'.rel = job.rel /\ job'.full = job.full /\ job'.view = job.view

Ends == job' = NoCommand /\ ~Busy' /\ ~Adding' /\ ~Removing' /\ job' \in Jobs /\ job'.op = "none"

LEMMA IdleTyped == NoCommand \in Jobs
  <1>1. <<>> \in Seq(Steps)
    OBVIOUS
  <1> QED
    BY <1>1, HostAssumption DEF NoCommand, Jobs, Others

LEMMA IdleIs == Ends <=> job' = NoCommand
  <1>2. NoCommand.op = "none"
    BY DEF NoCommand
  <1> QED
    BY <1>2, IdleTyped DEF Ends, Busy, Adding, Removing

\* GoOn takes one step off the script, or reports success after the last.
LEMMA GoOnIs ==
    ASSUME PluginTyped, Busy, GoOn(Rest), UNCHANGED <<host, packaged>>
    PROVE  \/ /\ StepsLeft > 1 /\ StepsLeft' = StepsLeft - 1 /\ Busy' /\ Same /\ Follows' /\ job' \in Jobs
              /\ UNCHANGED <<result, cut>> /\ (Adding' <=> Adding) /\ (Removing' <=> Removing)
           \/ /\ StepsLeft = 1 /\ Ends /\ result' = "done"
              /\ cut' = IF job.full THEN cut \ {job.rel} ELSE cut
  <1>1. CASE StepsLeft = 1
    <2>1. Rest = <<>>
      BY <1>1, TodoIs DEF Rest
    <2> QED
      BY <1>1, <2>1, IdleIs DEF GoOn
  <1>2. CASE StepsLeft # 1
    <2>1. Rest # <<>> /\ StepsLeft > 1
      BY <1>2, TodoIs DEF Rest
    <2>2. job' = [job EXCEPT !.todo = Rest] /\ UNCHANGED <<result, cut>>
      BY <2>1 DEF GoOn
    <2>3. job \in Jobs /\ Rest \in Seq(Steps)
      BY TodoIs DEF PluginTyped, Rest
    <2>4. Same /\ job'.todo = Rest /\ job' \in Jobs
      BY <2>2, <2>3 DEF Same, Jobs
    <2>5. StepsLeft' = StepsLeft - 1 /\ \A i \in 1 .. StepsLeft - 1 : job'.todo[i] = job.todo[i + 1]
      BY <2>4, TodoIs DEF StepsLeft, Rest
    <2>6. Busy' /\ (Adding' <=> Adding) /\ (Removing' <=> Removing)
      BY <2>4 DEF Busy, Same, Adding, Removing
    <2>7. Follows'
      <3> DEFINE s == Script(job.op, job.full, job.rel)
      <3>1. s' = s
        BY <2>4 DEF Same, Script, RemoveSteps, Step, Do
      <3>2. StepsLeft \in 1 .. Len(s) /\ \A i \in 1 .. StepsLeft : job.todo[i] = s[Len(s) - StepsLeft + i]
        BY DEF PluginTyped, Follows
      <3> HIDE DEF s
      <3>3. StepsLeft' \in 1 .. Len(s) /\ \A i \in 1 .. StepsLeft' : job'.todo[i] = s[Len(s) - StepsLeft' + i]
        <4>1. Len(s) - StepsLeft' = Len(s) - StepsLeft + 1 /\ StepsLeft \in Nat /\ Len(s) \in Int
          BY <2>5, <3>2, TodoIs
        <4>2. StepsLeft' \in 1 .. Len(s)
          BY <2>1, <2>5, <3>2, <4>1
        <4>3. ASSUME NEW i \in 1 .. StepsLeft'
              PROVE  job'.todo[i] = s[Len(s) - StepsLeft' + i]
          <5>1. i \in 1 .. StepsLeft - 1 /\ i + 1 \in 1 .. StepsLeft
            BY <2>5, <4>1
          <5>2. job'.todo[i] = s[Len(s) - StepsLeft + (i + 1)]
            BY <2>5, <3>2, <5>1
          <5>3. Len(s) - StepsLeft + (i + 1) = Len(s) - StepsLeft' + i
            BY <4>1, <5>1
          <5> QED
            BY <5>2, <5>3
        <4> QED
          BY <4>2, <4>3
      <3> QED
        BY <3>1, <3>3 DEF Follows, s
    <2> QED
      BY <2>1, <2>2, <2>4, <2>5, <2>6, <2>7
  <1> QED
    BY <1>1, <1>2

\* Stop gives up and notes which releases may be left half done.
LEMMA StopIs ==
    ASSUME Stop
    PROVE  /\ Ends /\ result' = "failed"
           /\ cut \subseteq cut'
           /\ cut' = cut \cup (IF job.op = "add" THEN {job.rel} ELSE PluginReleases)
  BY IdleIs DEF Stop

-----------------------------------------------------------------------------
\* What a command takes up when it starts is a whole script.

\* The steps of a command that is to start, whether they replace a copy, and
\* that they are the end of a script.
Todo(op, force) == IF op = "add" THEN AddSteps(force) ELSE RemoveSteps
Wipes(todo) == \E i \in DOMAIN todo : todo[i].do = "wipe"
Begun(op, force) ==
    LET todo == Todo(op, force)
        script == Script(op, Wipes(todo), packaged)
    IN  /\ todo \in Seq(Steps) /\ Len(todo) \in 1 .. Len(script)
        /\ \A i \in 1 .. Len(todo) : todo[i] = script[Len(script) - Len(todo) + i]

LEMMA StepTypes ==
    ASSUME packaged \in 1 .. LastRelease
    PROVE  /\ \A d \in StepNames : Do(d) \in Steps /\ Step(d, 1) \in Steps
              /\ Step(d, 0) \in Steps /\ Step(d, packaged) \in Steps
           /\ \A d, p : Step(d, p).do = d /\ Step(d, p).at = p
           /\ \A d : Do(d).do = d /\ Do(d).at = 0
  BY HostAssumption DEF Do, Step, Steps

\* A script begun at its first step.
LEMMA WholeScript ==
    ASSUME NEW op, NEW force, NEW s \in Seq(Steps), Len(s) >= 1, Todo(op, force) = s,
           Script(op, Wipes(s), packaged) = s
    PROVE  Begun(op, force)
  <1>1. Len(s) \in Nat /\ Len(s) \in 1 .. Len(s)
    OBVIOUS
  <1>2. \A i \in 1 .. Len(s) : s[i] = s[Len(s) - Len(s) + i]
    OBVIOUS
  <1> QED
    BY <1>1, <1>2 DEF Begun

\* Adds, by host; ...Reuses are those that keep the copy that is there.
LEMMA ZcodeBegins ==
    ASSUME packaged \in 1 .. LastRelease, NEW force \in BOOLEAN, host = "zcode",
           force \/ payload[packaged].part = "none"
    PROVE  /\ Begun("add", force) /\ Len(Todo("add", force)) = 8
           /\ Wipes(Todo("add", force))
  <1> DEFINE s == <<Step("wipe", packaged), Step("copy", packaged), Step("stamp", packaged),
                   Do("market"), Do("active"), Do("known"), Do("legacy"), Do("prune")>>
  <1>0. /\ Step("wipe", packaged) \in Steps
        /\ Step("copy", packaged) \in Steps
        /\ Step("stamp", packaged) \in Steps
        /\ Do("market") \in Steps
        /\ Do("active") \in Steps
        /\ Do("known") \in Steps
        /\ Do("legacy") \in Steps
        /\ Do("prune") \in Steps
    BY HostAssumption DEF Do, Step, Steps, StepNames
  <1>1. s \in Seq(Steps)
    BY <1>0
  <1>6. Len(s) = 8
    OBVIOUS
  <1>2. Todo("add", force) = s
    BY <1>0, Join35 DEF Todo, AddSteps, Materialize
  <1>3. 1 \in DOMAIN s /\ s[1].do = "wipe"
    BY StepTypes
  <1>4. Wipes(s)
    BY <1>3 DEF Wipes
  <1>5. Script("add", Wipes(s), packaged) = s
    BY <1>4 DEF Script
  <1> HIDE DEF s
  <1>7. Len(s) >= 1
    BY <1>6
  <1>8. Begun("add", force)
    BY <1>1, <1>2, <1>5, <1>7, WholeScript
  <1> QED
    BY <1>2, <1>4, <1>6, <1>8

LEMMA QoderBegins ==
    ASSUME packaged \in 1 .. LastRelease, NEW force \in BOOLEAN, host = "qoder",
           force \/ ~Healthy
    PROVE  /\ Begun("add", force) /\ Len(Todo("add", force)) = 7
           /\ Wipes(Todo("add", force))
  <1> DEFINE s == <<Step("wipe", packaged), Step("copy", packaged), Step("stamp", packaged),
                   Do("agents"), Step("strip", packaged), Do("register"), Do("enable")>>
  <1>0. /\ Step("wipe", packaged) \in Steps
        /\ Step("copy", packaged) \in Steps
        /\ Step("stamp", packaged) \in Steps
        /\ Do("agents") \in Steps
        /\ Step("strip", packaged) \in Steps
        /\ Do("register") \in Steps
        /\ Do("enable") \in Steps
    BY HostAssumption DEF Do, Step, Steps, StepNames
  <1>1. s \in Seq(Steps)
    BY <1>0
  <1>6. Len(s) = 7
    OBVIOUS
  <1>2. Todo("add", force) = s
    BY <1>0, Join34 DEF Todo, AddSteps, Materialize
  <1>3. 1 \in DOMAIN s /\ s[1].do = "wipe"
    BY StepTypes
  <1>4. Wipes(s)
    BY <1>3 DEF Wipes
  <1>5. Script("add", Wipes(s), packaged) = s
    BY <1>4 DEF Script
  <1> HIDE DEF s
  <1>7. Len(s) >= 1
    BY <1>6
  <1>8. Begun("add", force)
    BY <1>1, <1>2, <1>5, <1>7, WholeScript
  <1> QED
    BY <1>2, <1>4, <1>6, <1>8

LEMMA KimiBegins ==
    ASSUME packaged \in 1 .. LastRelease, NEW force \in BOOLEAN, host = "kimi-code"
    PROVE  /\ Begun("add", force) /\ Len(Todo("add", force)) = 9
           /\ Wipes(Todo("add", force))
  <1> DEFINE s == <<Step("guard", 0), Step("wipe", 0), Step("copy", 0), Step("stamp", 0),
                   Step("guard", 1), Step("wipe", 1), Step("copy", 1), Step("stamp", 1),
                   Do("record")>>
  <1>0. /\ Step("guard", 0) \in Steps
        /\ Step("wipe", 0) \in Steps
        /\ Step("copy", 0) \in Steps
        /\ Step("stamp", 0) \in Steps
        /\ Step("guard", 1) \in Steps
        /\ Step("wipe", 1) \in Steps
        /\ Step("copy", 1) \in Steps
        /\ Step("stamp", 1) \in Steps
        /\ Do("record") \in Steps
    BY HostAssumption DEF Do, Step, Steps, StepNames
  <1>1. s \in Seq(Steps)
    BY <1>0
  <1>6. Len(s) = 9
    OBVIOUS
  <1>2. Todo("add", force) = s
    <2> DEFINE a == <<Step("guard", 0), Step("wipe", 0), Step("copy", 0), Step("stamp", 0)>>
               b == <<Step("guard", 0), Step("wipe", 0), Step("copy", 0), Step("stamp", 0),
                      Step("guard", 1)>>
               c == <<Step("guard", 0), Step("wipe", 0), Step("copy", 0), Step("stamp", 0),
                      Step("guard", 1), Step("wipe", 1), Step("copy", 1), Step("stamp", 1)>>
    <2>1. a = <<Step("guard", 0)>> \o Materialize(0)
      BY <1>0, Join13 DEF Materialize
    <2>2. b = a \o <<Step("guard", 1)>>
      BY <1>0, Join41
    <2>3. c = b \o Materialize(1)
      BY <1>0, Join53 DEF Materialize
    <2>4. s = c \o <<Do("record")>>
      <3> DEFINE t == <<Do("record")>>
      <3>1. c \in Seq(Steps)
        BY <1>0
      <3>2. Len(c) = 8 /\ Len(t) = 1
        OBVIOUS
      <3>3. t \in Seq(Steps)
        BY <1>0
      <3>4. \A i \in 1 .. 9 : s[i] = IF i <= 8 THEN c[i] ELSE t[i - 8]
        OBVIOUS
      <3> HIDE DEF s, c, t
      <3>5. Len(s) = Len(c) + Len(t)
        BY <1>6, <3>2
      <3>6. \A i \in 1 .. Len(s) : s[i] = IF i <= Len(c) THEN c[i] ELSE t[i - Len(c)]
        BY <1>6, <3>2, <3>4
      <3>7. s = c \o t
        BY <1>1, <3>1, <3>3, <3>5, <3>6, JoinBy
      <3> QED
        BY <3>7 DEF t
    <2> HIDE DEF a, b, c, s
    <2> QED
      BY <2>1, <2>2, <2>3, <2>4 DEF Todo, AddSteps
  <1>3. 2 \in DOMAIN s /\ s[2].do = "wipe"
    BY StepTypes
  <1>4. Wipes(s)
    BY <1>3 DEF Wipes
  <1>5. Script("add", Wipes(s), packaged) = s
    BY <1>4 DEF Script
  <1> HIDE DEF s
  <1>7. Len(s) >= 1
    BY <1>6
  <1>8. Begun("add", force)
    BY <1>1, <1>2, <1>5, <1>7, WholeScript
  <1> QED
    BY <1>2, <1>4, <1>6, <1>8

LEMMA ClaudeBegins ==
    ASSUME packaged \in 1 .. LastRelease, NEW force \in BOOLEAN, host = "claude-code"
    PROVE  /\ Begun("add", force) /\ Len(Todo("add", force)) = 4
           /\ Wipes(Todo("add", force))
  <1> DEFINE s == <<Step("guard", 1), Step("wipe", 1), Step("copy", 1), Step("stamp", 1)>>
  <1>0. /\ Step("guard", 1) \in Steps
        /\ Step("wipe", 1) \in Steps
        /\ Step("copy", 1) \in Steps
        /\ Step("stamp", 1) \in Steps
    BY HostAssumption DEF Do, Step, Steps, StepNames
  <1>1. s \in Seq(Steps)
    BY <1>0
  <1>6. Len(s) = 4
    OBVIOUS
  <1>2. Todo("add", force) = s
    BY <1>0, Join13 DEF Todo, AddSteps, Materialize
  <1>3. 2 \in DOMAIN s /\ s[2].do = "wipe"
    BY StepTypes
  <1>4. Wipes(s)
    BY <1>3 DEF Wipes
  <1>5. Script("add", Wipes(s), packaged) = s
    BY <1>4 DEF Script
  <1> HIDE DEF s
  <1>7. Len(s) >= 1
    BY <1>6
  <1>8. Begun("add", force)
    BY <1>1, <1>2, <1>5, <1>7, WholeScript
  <1> QED
    BY <1>2, <1>4, <1>6, <1>8

LEMMA CodexBegins ==
    ASSUME packaged \in 1 .. LastRelease, NEW force \in BOOLEAN, host = "codex"
    PROVE  /\ Begun("add", force) /\ Len(Todo("add", force)) = 6
           /\ Wipes(Todo("add", force))
  <1> DEFINE s == <<Step("wipe", 1), Step("copy", 1), Step("stamp", 1), Do("source"),
                   Do("cli"), Do("plug")>>
  <1>0. /\ Step("wipe", 1) \in Steps
        /\ Step("copy", 1) \in Steps
        /\ Step("stamp", 1) \in Steps
        /\ Do("source") \in Steps
        /\ Do("cli") \in Steps
        /\ Do("plug") \in Steps
    BY HostAssumption DEF Do, Step, Steps, StepNames
  <1>1. s \in Seq(Steps)
    BY <1>0
  <1>6. Len(s) = 6
    OBVIOUS
  <1>2. Todo("add", force) = s
    BY <1>0, Join33 DEF Todo, AddSteps, Materialize
  <1>3. 1 \in DOMAIN s /\ s[1].do = "wipe"
    BY StepTypes
  <1>4. Wipes(s)
    BY <1>3 DEF Wipes
  <1>5. Script("add", Wipes(s), packaged) = s
    BY <1>4 DEF Script
  <1> HIDE DEF s
  <1>7. Len(s) >= 1
    BY <1>6
  <1>8. Begun("add", force)
    BY <1>1, <1>2, <1>5, <1>7, WholeScript
  <1> QED
    BY <1>2, <1>4, <1>6, <1>8

\* Removes, by host.
LEMMA ZcodeEnds ==
    ASSUME packaged \in 1 .. LastRelease, NEW force \in BOOLEAN, host = "zcode"
    PROVE  /\ Begun("remove", force) /\ Len(Todo("remove", force)) = 4
           /\ ~Wipes(Todo("remove", force))
  <1> DEFINE s == <<Do("forget"), Do("rmcache"), Do("rmmarket"), Do("rmactive")>>
  <1>0. /\ Do("forget") \in Steps
        /\ Do("rmcache") \in Steps
        /\ Do("rmmarket") \in Steps
        /\ Do("rmactive") \in Steps
    BY HostAssumption DEF Do, Step, Steps, StepNames
  <1>1. s \in Seq(Steps)
    BY <1>0
  <1>6. Len(s) = 4
    OBVIOUS
  <1>2. Todo("remove", force) = s
    BY <1>0 DEF Todo, RemoveSteps
  <1>3. \A i \in DOMAIN s : s[i].do # "wipe"
    BY StepTypes
  <1>4. ~Wipes(s)
    BY <1>3 DEF Wipes
  <1>5. Script("remove", Wipes(s), packaged) = s
    BY <1>4 DEF Script, RemoveSteps
  <1> HIDE DEF s
  <1>7. Len(s) >= 1
    BY <1>6
  <1>8. Begun("remove", force)
    BY <1>1, <1>2, <1>5, <1>7, WholeScript
  <1> QED
    BY <1>2, <1>4, <1>6, <1>8

LEMMA QoderEnds ==
    ASSUME packaged \in 1 .. LastRelease, NEW force \in BOOLEAN, host = "qoder"
    PROVE  /\ Begun("remove", force) /\ Len(Todo("remove", force)) = 4
           /\ ~Wipes(Todo("remove", force))
  <1> DEFINE s == <<Do("unregister"), Do("disable"), Do("rmcache"), Do("rmagents")>>
  <1>0. /\ Do("unregister") \in Steps
        /\ Do("disable") \in Steps
        /\ Do("rmcache") \in Steps
        /\ Do("rmagents") \in Steps
    BY HostAssumption DEF Do, Step, Steps, StepNames
  <1>1. s \in Seq(Steps)
    BY <1>0
  <1>6. Len(s) = 4
    OBVIOUS
  <1>2. Todo("remove", force) = s
    BY <1>0 DEF Todo, RemoveSteps
  <1>3. \A i \in DOMAIN s : s[i].do # "wipe"
    BY StepTypes
  <1>4. ~Wipes(s)
    BY <1>3 DEF Wipes
  <1>5. Script("remove", Wipes(s), packaged) = s
    BY <1>4 DEF Script, RemoveSteps
  <1> HIDE DEF s
  <1>7. Len(s) >= 1
    BY <1>6
  <1>8. Begun("remove", force)
    BY <1>1, <1>2, <1>5, <1>7, WholeScript
  <1> QED
    BY <1>2, <1>4, <1>6, <1>8

LEMMA KimiEnds ==
    ASSUME packaged \in 1 .. LastRelease, NEW force \in BOOLEAN, host = "kimi-code"
    PROVE  /\ Begun("remove", force) /\ Len(Todo("remove", force)) = 5
           /\ Wipes(Todo("remove", force))
  <1> DEFINE s == <<Step("guard", 1), Step("wipe", 1), Step("guard", 0), Step("wipe", 0),
                   Do("unrecord")>>
  <1>0. /\ Step("guard", 1) \in Steps
        /\ Step("wipe", 1) \in Steps
        /\ Step("guard", 0) \in Steps
        /\ Step("wipe", 0) \in Steps
        /\ Do("unrecord") \in Steps
    BY HostAssumption DEF Do, Step, Steps, StepNames
  <1>1. s \in Seq(Steps)
    BY <1>0
  <1>6. Len(s) = 5
    OBVIOUS
  <1>2. Todo("remove", force) = s
    BY <1>0 DEF Todo, RemoveSteps
  <1>3. 2 \in DOMAIN s /\ s[2].do = "wipe"
    BY StepTypes
  <1>4. Wipes(s)
    BY <1>3 DEF Wipes
  <1>5. Script("remove", Wipes(s), packaged) = s
    BY <1>4 DEF Script, RemoveSteps
  <1> HIDE DEF s
  <1>7. Len(s) >= 1
    BY <1>6
  <1>8. Begun("remove", force)
    BY <1>1, <1>2, <1>5, <1>7, WholeScript
  <1> QED
    BY <1>2, <1>4, <1>6, <1>8

LEMMA ClaudeEnds ==
    ASSUME packaged \in 1 .. LastRelease, NEW force \in BOOLEAN, host = "claude-code"
    PROVE  /\ Begun("remove", force) /\ Len(Todo("remove", force)) = 2
           /\ Wipes(Todo("remove", force))
  <1> DEFINE s == <<Step("guard", 1), Step("wipe", 1)>>
  <1>0. /\ Step("guard", 1) \in Steps
        /\ Step("wipe", 1) \in Steps
    BY HostAssumption DEF Do, Step, Steps, StepNames
  <1>1. s \in Seq(Steps)
    BY <1>0
  <1>6. Len(s) = 2
    OBVIOUS
  <1>2. Todo("remove", force) = s
    BY <1>0 DEF Todo, RemoveSteps
  <1>3. 2 \in DOMAIN s /\ s[2].do = "wipe"
    BY StepTypes
  <1>4. Wipes(s)
    BY <1>3 DEF Wipes
  <1>5. Script("remove", Wipes(s), packaged) = s
    BY <1>4 DEF Script, RemoveSteps
  <1> HIDE DEF s
  <1>7. Len(s) >= 1
    BY <1>6
  <1>8. Begun("remove", force)
    BY <1>1, <1>2, <1>5, <1>7, WholeScript
  <1> QED
    BY <1>2, <1>4, <1>6, <1>8

LEMMA CodexEnds ==
    ASSUME packaged \in 1 .. LastRelease, NEW force \in BOOLEAN, host = "codex"
    PROVE  /\ Begun("remove", force) /\ Len(Todo("remove", force)) = 2
           /\ ~Wipes(Todo("remove", force))
  <1> DEFINE s == <<Do("unplug"), Do("rmroot")>>
  <1>0. /\ Do("unplug") \in Steps
        /\ Do("rmroot") \in Steps
    BY HostAssumption DEF Do, Step, Steps, StepNames
  <1>1. s \in Seq(Steps)
    BY <1>0
  <1>6. Len(s) = 2
    OBVIOUS
  <1>2. Todo("remove", force) = s
    BY <1>0 DEF Todo, RemoveSteps
  <1>3. \A i \in DOMAIN s : s[i].do # "wipe"
    BY StepTypes
  <1>4. ~Wipes(s)
    BY <1>3 DEF Wipes
  <1>5. Script("remove", Wipes(s), packaged) = s
    BY <1>4 DEF Script, RemoveSteps
  <1> HIDE DEF s
  <1>7. Len(s) >= 1
    BY <1>6
  <1>8. Begun("remove", force)
    BY <1>1, <1>2, <1>5, <1>7, WholeScript
  <1> QED
    BY <1>2, <1>4, <1>6, <1>8

LEMMA ZcodeReuses ==
    ASSUME packaged \in 1 .. LastRelease, host = "zcode", payload[packaged].part # "none",
           NEW force, ~force
    PROVE  /\ Begun("add", force) /\ Len(Todo("add", force)) = 5
           /\ ~Wipes(Todo("add", force))
  <1> DEFINE t == <<Do("market"), Do("active"), Do("known"), Do("legacy"), Do("prune")>>
             s == <<Step("wipe", packaged), Step("copy", packaged), Step("stamp", packaged),
                    Do("market"), Do("active"), Do("known"), Do("legacy"), Do("prune")>>
  <1>0. /\ Do("market") \in Steps
        /\ Do("active") \in Steps
        /\ Do("known") \in Steps
        /\ Do("legacy") \in Steps
        /\ Do("prune") \in Steps
    BY HostAssumption DEF Do, Step, Steps, StepNames
  <1>1. t \in Seq(Steps)
    BY <1>0
  <1>9. Len(t) = 5
    OBVIOUS
  <1>2. Todo("add", force) = t
    <2>1. Todo("add", force) = <<>> \o t
      BY DEF Todo, AddSteps
    <2> HIDE DEF t
    <2> QED
      BY <1>1, <2>1
  <1>3. \A i \in DOMAIN t : t[i].do # "wipe"
    BY StepTypes
  <1>4. ~Wipes(t)
    BY <1>3 DEF Wipes
  <1>5. Script("add", Wipes(t), packaged) = s
    BY DEF Script
  <1>6. Len(s) = 8
    OBVIOUS
  <1>7. /\ s[4] = t[1] /\ s[5] = t[2] /\ s[6] = t[3] /\ s[7] = t[4] /\ s[8] = t[5]
    OBVIOUS
  <1> HIDE DEF s, t
  <1>8. \A i \in 1 .. 5 : t[i] = s[8 - 5 + i]
    BY <1>7
  <1>11. Len(t) \in 1 .. Len(s) /\ \A i \in 1 .. Len(t) : t[i] = s[Len(s) - Len(t) + i]
    BY <1>6, <1>8, <1>9
  <1>10. Begun("add", force)
    BY <1>1, <1>2, <1>5, <1>11 DEF Begun
  <1> QED
    BY <1>2, <1>4, <1>9, <1>10

LEMMA QoderReuses ==
    ASSUME packaged \in 1 .. LastRelease, host = "qoder", Healthy, NEW force, ~force
    PROVE  /\ Begun("add", force) /\ Len(Todo("add", force)) = 2
           /\ ~Wipes(Todo("add", force))
  <1> DEFINE s == <<Do("agents"), Step("strip", packaged)>>
  <1>0. Do("agents") \in Steps /\ Step("strip", packaged) \in Steps
    BY HostAssumption DEF Do, Step, Steps, StepNames
  <1>1. s \in Seq(Steps)
    BY <1>0
  <1>6. Len(s) = 2
    OBVIOUS
  <1>2. Todo("add", force) = s
    BY DEF Todo, AddSteps
  <1>3. \A i \in DOMAIN s : s[i].do # "wipe"
    BY StepTypes
  <1>4. ~Wipes(s)
    BY <1>3 DEF Wipes
  <1>5. Script("add", Wipes(s), packaged) = s
    BY <1>4 DEF Script
  <1> HIDE DEF s
  <1>7. Len(s) >= 1
    BY <1>6
  <1>8. Begun("add", force)
    BY <1>1, <1>2, <1>5, <1>7, WholeScript
  <1> QED
    BY <1>2, <1>4, <1>6, <1>8

\* Whatever it finds, a command starts somewhere on a script.
LEMMA BegunIs ==
    ASSUME PluginTyped, NEW op \in {"add", "remove"}, NEW force \in BOOLEAN
    PROVE  Begun(op, force)
  <1>0. packaged \in 1 .. LastRelease /\ host \in Kinds5
    BY DEF PluginTyped
  <1>1. CASE op = "add"
    <2>1. CASE host = "zcode"
      <3>1. CASE force \/ payload[packaged].part = "none"
        BY <1>0, <1>1, <2>1, <3>1, ZcodeBegins
      <3>2. CASE ~(force \/ payload[packaged].part = "none")
        BY <1>0, <1>1, <2>1, <3>2, ZcodeReuses
      <3> QED
        BY <3>1, <3>2
    <2>2. CASE host = "qoder"
      <3>1. CASE force \/ ~Healthy
        BY <1>0, <1>1, <2>2, <3>1, QoderBegins
      <3>2. CASE ~(force \/ ~Healthy)
        BY <1>0, <1>1, <2>2, <3>2, QoderReuses
      <3> QED
        BY <3>1, <3>2
    <2>3. CASE host = "kimi-code"
      BY <1>0, <1>1, <2>3, KimiBegins
    <2>4. CASE host = "claude-code"
      BY <1>0, <1>1, <2>4, ClaudeBegins
    <2>5. CASE host = "codex"
      BY <1>0, <1>1, <2>5, CodexBegins
    <2> QED
      BY <1>0, <2>1, <2>2, <2>3, <2>4, <2>5 DEF Kinds5
  <1>2. CASE op = "remove"
    <2>1. CASE host = "zcode"
      BY <1>0, <1>2, <2>1, ZcodeEnds
    <2>2. CASE host = "qoder"
      BY <1>0, <1>2, <2>2, QoderEnds
    <2>3. CASE host = "kimi-code"
      BY <1>0, <1>2, <2>3, KimiEnds
    <2>4. CASE host = "claude-code"
      BY <1>0, <1>2, <2>4, ClaudeEnds
    <2>5. CASE host = "codex"
      BY <1>0, <1>2, <2>5, CodexEnds
    <2> QED
      BY <1>0, <2>1, <2>2, <2>3, <2>4, <2>5 DEF Kinds5
  <1> QED
    BY <1>1, <1>2

\* The command that starts, if its files can be read.
Runs(op, force) ==
    /\ ~RecordUnreadable /\ Busy' /\ (Adding' <=> op = "add") /\ (Removing' <=> op = "remove")
    /\ job'.op = op /\ job'.force = force /\ job'.rel = packaged
    /\ job'.view.active = rec.active /\ job'.view.others = others
    /\ (job'.full <=> Wipes(Todo(op, force))) /\ StepsLeft' = Len(Todo(op, force))
    /\ job' \in Jobs /\ Follows' /\ result' = "running"

StayIdle == job' = job /\ ~Busy' /\ ~Adding' /\ ~Removing'

\* What starting a command does.
LEMMA StartIs ==
    ASSUME PluginTyped, NEW op \in {"add", "remove"}, NEW force \in BOOLEAN,
           NEW prune \in BOOLEAN,
           Start(op, force, prune)
    PROVE  /\ ~Busy /\ ~Adding /\ ~Removing /\ meanwhile' = {}
           /\ UNCHANGED <<host, packaged, payload, rec, legacy, shared, others, agents, cut, acts>>
           /\ StayIdle \/ Runs(op, force)
  <1>1. ~Busy /\ ~Adding /\ ~Removing /\ meanwhile' = {}
        /\ UNCHANGED <<host, packaged, payload, rec, legacy, shared, others, agents, cut, acts>>
    BY DEF Start, Adding, Removing, pluginFiles
  <1>2. CASE RecordUnreadable
    <2>1. job' = job
      BY <1>2 DEF Start
    <2> QED
      BY <1>1, <2>1 DEF StayIdle, Busy, Adding, Removing
  <1>3. CASE ~RecordUnreadable
    <2> DEFINE todo == Todo(op, force)
    <2>1. job' = [op |-> op, force |-> force, prune |-> prune, rel |-> packaged,
                  full |-> \E i \in DOMAIN todo : todo[i].do = "wipe", todo |-> todo,
                  view |-> [active |-> rec.active, others |-> others]]
          /\ result' = "running"
      BY <1>3 DEF Start, Todo
    <2> HIDE DEF todo
    <2>2. job'.full <=> Wipes(todo)
      BY <2>1 DEF Wipes
    <2>3. job'.op = op /\ job'.force = force /\ job'.rel = packaged /\ job'.todo = todo
          /\ job'.view.active = rec.active /\ job'.view.others = others
      BY <2>1
    <2>4. Begun(op, force)
      BY BegunIs
    <2>5. todo \in Seq(Steps) /\ StepsLeft' = Len(todo)
      BY <2>3, <2>4 DEF Begun, todo, StepsLeft
    <2>6. job' \in Jobs
      <3>1. packaged \in 0 .. LastRelease /\ rec.active \in 0 .. LastRelease /\ others \subseteq Others
        BY HostAssumption DEF PluginTyped
      <3>2. (\E i \in DOMAIN todo : todo[i].do = "wipe") \in BOOLEAN
        OBVIOUS
      <3> QED
        BY <2>1, <2>5, <3>1, <3>2 DEF Jobs
    <2>7. Busy' /\ (Adding' <=> op = "add") /\ (Removing' <=> op = "remove")
      BY <2>3 DEF Busy, Adding, Removing
    <2>8. Follows'
      <3> DEFINE script == Script(op, Wipes(todo), packaged)
      <3>1. Script(job.op, job.full, job.rel)' = script
        <4>1. job'.full \in BOOLEAN /\ Wipes(todo) \in BOOLEAN
          BY <2>6 DEF Jobs, Wipes
        <4>2. job'.full = Wipes(todo)
          BY <2>2, <4>1
        <4> QED
          BY <1>1, <2>3, <4>2 DEF Script, RemoveSteps, Step, Do
      <3>2. Len(todo) \in 1 .. Len(script)
            /\ \A i \in 1 .. Len(todo) : todo[i] = script[Len(script) - Len(todo) + i]
        BY <2>4 DEF Begun, todo
      <3> HIDE DEF script
      <3> QED
        BY <2>3, <2>5, <3>1, <3>2 DEF Follows
    <2> QED
      BY <1>1, <1>3, <2>1, <2>2, <2>3, <2>5, <2>6, <2>7, <2>8 DEF Runs, todo
  <1> QED
    BY <1>1, <1>2, <1>3

-----------------------------------------------------------------------------
\* The four outcomes of a step: on to the next, done, failed, or kept as is.
Goes == /\ StepsLeft > 1 /\ StepsLeft' = StepsLeft - 1 /\ Busy' /\ Same /\ Follows' /\ job' \in Jobs
        /\ UNCHANGED <<result, cut>> /\ (Adding' <=> Adding) /\ (Removing' <=> Removing)
Done == /\ StepsLeft = 1 /\ Ends /\ result' = "done"
        /\ cut' = IF job.full THEN cut \ {job.rel} ELSE cut
StepFails == /\ Ends /\ result' = "failed" /\ cut \subseteq cut'
             /\ cut' = cut \cup (IF job.op = "add" THEN {job.rel} ELSE PluginReleases)
Skips == Ends /\ KeptAsIs /\ result' = "done" /\ UNCHANGED cut /\ At("guard")
         /\ (Named(Here) \/ job.force) /\ payload[Here].part # "none"
         /\ UNCHANGED <<payload, rec, legacy, shared, others, agents>>

\* The place a step works at is one there is.
LEMMA HereIs ==
    ASSUME PluginTyped, Busy
    PROVE  Here \in 0 .. LastRelease /\ Here = job.todo[1].at
  <1>1. StepsLeft \in Nat \ {0} /\ job.todo \in Seq(Steps) /\ Here = job.todo[1].at
    BY TodoIs DEF Here
  <1>2. job.todo[1] \in Steps
    BY <1>1 DEF StepsLeft
  <1> QED
    BY <1>1, <1>2 DEF Steps

\* Every step of a command has one of the four outcomes.
LEMMA CommandGoes ==
    ASSUME PluginTyped, CmdStep
    PROVE  /\ Busy /\ UNCHANGED <<host, packaged, meanwhile, hostCommands, stops, acts>>
           /\ Goes \/ Done \/ StepFails \/ Skips
           /\ (GoOn(Rest) => Goes \/ Done) /\ (Stop => StepFails)
  <1> DEFINE d == Head(job.todo).do
  <1>1. Working
    BY CommandAt
  <1>2. Busy /\ UNCHANGED <<host, packaged, meanwhile, hostCommands, stops, acts>>
    BY <1>1 DEF Working, counters
  <1>3. GoOn(Rest) => Goes \/ Done
    BY <1>2, GoOnIs DEF Goes, Done
  <1>4. Stop => StepFails
    BY StopIs DEF StepFails
  <1>5. ASSUME Guard PROVE GoOn(Rest) \/ Stop \/ Skips
    <2>1. At("guard") /\ UNCHANGED <<payload, rec, legacy, shared, others, agents>>
      BY <1>5 DEF Guard, pluginFiles
    <2>2. CASE /\ payload[Here].part # "none" /\ (Named(Here) \/ job.force) /\ KeptAsIs
      <3>1. job' = NoCommand /\ result' = "done" /\ UNCHANGED cut
        BY <1>5, <2>2 DEF Guard
      <3> QED
        BY <2>1, <2>2, <3>1, IdleIs DEF Skips
    <2>3. CASE ~(payload[Here].part # "none" /\ (Named(Here) \/ job.force) /\ KeptAsIs)
      BY <1>5, <2>3 DEF Guard
    <2> QED
      BY <2>2, <2>3
  <1>6. Wipe \/ Copy \/ StripBundled \/ QoderRecords \/ ZcodeRecords \/ Prune \/ RemoveCache
          \/ RemoveAgents => GoOn(Rest)
    BY
       DEF Wipe, Copy, StripBundled, QoderRecords, ZcodeRecords, Prune, RemoveCache, RemoveAgents
  <1>7. Stamp \/ SyncAgents \/ KimiRecord => GoOn(Rest) \/ Stop
    BY DEF Stamp, SyncAgents, KimiRecord
  <1>8. CodexAdd \/ CodexRemove => GoOn(Rest) \/ Stop
    BY DEF CodexAdd, CodexRemove
  <1>9. GoOn(Rest) \/ Stop \/ Skips
    BY <1>5, <1>6, <1>7, <1>8 DEF CmdStep
  <1> QED
    BY <1>2, <1>3, <1>4, <1>9

\* A command that goes on is still the one it was.
LEMMA JobStays ==
    ASSUME PluginTyped, CmdStep
    PROVE  /\ job' \in Jobs
           /\ Busy' => job'.rel = packaged' /\ Follows' /\ job'.view = job.view
  BY CommandGoes DEF Goes, Done, StepFails, Skips, Ends, Same, PluginTyped

\* The types of the files.
Filed ==
    /\ payload \in [0 .. LastRelease -> [part : Parts, rel : 0 .. LastRelease]]
    /\ rec \in [active : 0 .. LastRelease, market : 0 .. LastRelease, known : {"none", "ours"},
                switch : {"none", "on", "off"}, cached : 0 .. LastRelease]
    /\ legacy \in BOOLEAN
    /\ shared \in {"ok", "broken"} /\ agents \in {"none", "managed", "user"}
    /\ others \subseteq Others

\* A step leaves the files well typed, and no entry of others unread.
LEMMA FilesStay ==
    ASSUME PluginTyped, CmdStep
    PROVE  Filed' /\ others' \subseteq job.view.others \cup meanwhile
  <1>0. Busy /\ Here \in 0 .. LastRelease /\ job.rel \in 0 .. LastRelease /\ packaged \in 1 .. LastRelease
        /\ job.view.others \subseteq Others /\ others \subseteq job.view.others \cup meanwhile /\ Filed
        /\ host \in Kinds5 /\ 1 \in 0 .. LastRelease /\ 0 \in 0 .. LastRelease
        /\ job.view.active \in 0 .. LastRelease
    <2>1. Busy /\ Here \in 0 .. LastRelease
      BY CommandGoes, HereIs
    <2>2. job \in Jobs /\ others \subseteq job.view.others \cup meanwhile /\ Filed
      BY <2>1 DEF PluginTyped, Filed
    <2>3. packaged \in 1 .. LastRelease /\ host \in Kinds5 /\ 1 \in 0 .. LastRelease
          /\ 0 \in 0 .. LastRelease
      BY HostAssumption DEF PluginTyped
    <2>4. job.rel \in 0 .. LastRelease /\ job.view.others \subseteq Others
          /\ job.view.active \in 0 .. LastRelease
      BY <2>2 DEF Jobs
    <2> QED
      BY <2>1, <2>2, <2>3, <2>4
  <1>1. CASE Guard
    BY <1>0, <1>1 DEF Guard, pluginFiles, Filed
  <1>2. CASE Wipe
    BY <1>0, <1>2 DEF Wipe, Filed, NoPayload, Parts
  <1>3. CASE Copy
    BY <1>0, <1>3 DEF Copy, Filed, Parts
  <1>4. CASE Stamp
    BY <1>0, <1>4 DEF Stamp, Filed
  <1>5. CASE SyncAgents
    BY <1>0, <1>5 DEF SyncAgents, Filed
  <1>6. CASE StripBundled
    BY <1>0, <1>6 DEF StripBundled, Filed, Parts
  <1>7. CASE QoderRecords
    BY <1>0, <1>7 DEF QoderRecords, WriteRegistry, WriteSettings, Filed
  <1>8. CASE ZcodeRecords
    BY <1>0, <1>8 DEF ZcodeRecords, Filed
  <1>9. CASE Prune
    BY <1>0, <1>9 DEF Prune, Filed, NoPayload, Parts
  <1>10. CASE RemoveCache
    BY <1>0, <1>10 DEF RemoveCache, Filed, NoPayload, Parts
  <1>11. CASE RemoveAgents
    BY <1>0, <1>11 DEF RemoveAgents, Filed
  <1>12. CASE KimiRecord
    <2>1. UNCHANGED <<payload, legacy, shared, others, agents>>
      BY <1>12 DEF KimiRecord
    <2>2. rec' \in {rec, NoRecord, [rec EXCEPT !.active = 1, !.switch = IF @ = "none" THEN "on" ELSE @]}
      BY <1>12 DEF KimiRecord
    <2>3. rec' \in [active : 0 .. LastRelease, market : 0 .. LastRelease, known : {"none", "ours"},
                    switch : {"none", "on", "off"}, cached : 0 .. LastRelease]
      <3>1. CASE rec' = rec
        BY <1>0, <3>1 DEF Filed
      <3>2. CASE rec' = NoRecord
        BY <3>2, HostAssumption DEF NoRecord
      <3>3. CASE rec' = [rec EXCEPT !.active = 1, !.switch = IF @ = "none" THEN "on" ELSE @]
        BY <1>0, <3>3 DEF Filed
      <3> QED
        BY <2>2, <3>1, <3>2, <3>3
    <2> QED
      BY <1>0, <2>1, <2>3 DEF Filed
  <1>13. CASE CodexAdd
    BY <1>0, <1>13 DEF CodexAdd, Filed
  <1>14. CASE CodexRemove
    <2>1. UNCHANGED <<legacy, shared, others, agents>>
      BY <1>14 DEF CodexRemove
    <2>2. payload' \in {payload, [payload EXCEPT ![1] = NoPayload]}
      BY <1>14 DEF CodexRemove
    <2>3. payload' \in [0 .. LastRelease -> [part : Parts, rel : 0 .. LastRelease]]
      BY <1>0, <2>2 DEF Filed, NoPayload, Parts
    <2>4. \/ rec' = [rec EXCEPT !.market = 0]
          \/ \E plugin, marketplace \in BOOLEAN :
                rec' = [rec EXCEPT !.known = IF marketplace THEN "none" ELSE @,
                                   !.switch = IF plugin THEN "none" ELSE @,
                                   !.cached = IF plugin THEN 0 ELSE @]
      BY <1>14 DEF CodexRemove
    <2>5. rec' \in [active : 0 .. LastRelease, market : 0 .. LastRelease, known : {"none", "ours"},
                    switch : {"none", "on", "off"}, cached : 0 .. LastRelease]
      BY <1>0, <2>4 DEF Filed
    <2> QED
      BY <1>0, <2>1, <2>3, <2>5 DEF Filed
  <1> QED
    BY <1>1, <1>2, <1>3, <1>4, <1>5, <1>6, <1>7, <1>8, <1>9, <1>10, <1>11, <1>12, <1>13, <1>14
       DEF CmdStep

\* A kill or an error ends the command and changes only a payload.
LEMMA InterruptedIs ==
    ASSUME PluginTyped, Interrupted
    PROVE  /\ Busy /\ StepFails /\ Filed'
           /\ UNCHANGED <<host, packaged, rec, legacy, shared, others, agents, meanwhile, acts>>
  <1>1. Busy /\ StepFails
        /\ UNCHANGED <<host, packaged, rec, legacy, shared, others, agents, meanwhile, acts>>
    BY StopIs DEF Interrupted, StepFails
  <1>2. Here \in 0 .. LastRelease /\ job.rel \in 0 .. LastRelease /\ Filed /\ 0 \in 0 .. LastRelease
    <2>1. job \in Jobs /\ Filed /\ 0 \in 0 .. LastRelease
      BY HostAssumption DEF PluginTyped, Filed
    <2>2. job.rel \in 0 .. LastRelease
      BY <2>1 DEF Jobs
    <2> QED
      BY <1>1, <2>1, <2>2, HereIs
  <1>3. \A part \in Parts : Shrunk(part) \subseteq Parts
    BY DEF Shrunk, Parts, Partial
  <1>4. payload' \in [0 .. LastRelease -> [part : Parts, rel : 0 .. LastRelease]]
    <2>0. \A p \in 0 .. LastRelease : Shrunk(payload[p].part) \subseteq Parts
      BY <1>2, <1>3 DEF Filed
    <2>1. CASE UNCHANGED payload
      BY <1>2, <2>1 DEF Filed
    <2>2. CASE \E part \in Shrunk(payload[Here].part) : payload' = [payload EXCEPT ![Here].part = part]
      BY <1>2, <2>0, <2>2 DEF Filed
    <2>3. CASE \E p \in DOMAIN payload : \E part \in Shrunk(payload[p].part) :
                  payload' = [payload EXCEPT ![p].part = part]
      BY <1>2, <2>0, <2>3 DEF Filed
    <2>4. CASE \E part \in Partial, r \in {0, job.rel} :
                  payload' = [payload EXCEPT ![Here] = [part |-> part, rel |-> r]]
      BY <1>2, <2>4 DEF Filed, Partial, Parts
    <2> QED
      BY <2>1, <2>2, <2>3, <2>4 DEF Interrupted
  <1> QED
    BY <1>1, <1>2, <1>4 DEF Filed

\* Others leave the command alone, and take no entry of theirs away.
LEMMA OutsideIs ==
    ASSUME PluginTyped, Outside
    PROVE  /\ UNCHANGED <<host, job, result, cut, hostCommands, stops>> /\ Filed'
           /\ others \subseteq others' /\ others' \subseteq others \cup meanwhile'
           /\ meanwhile \subseteq meanwhile' /\ packaged' \in 1 .. LastRelease
           /\ (Busy' <=> Busy) /\ (Adding' <=> Adding) /\ (Removing' <=> Removing) /\ StepsLeft' = StepsLeft
           /\ packaged' # packaged => ~Busy /\ packaged' = packaged + 1 /\ UNCHANGED pluginFiles
           /\ acts' = acts + 1
  <1>1. UNCHANGED <<host, job, result, cut, hostCommands, stops>>
    BY DEF Outside, OtherRegisters, Garbled, TurnedOff, UserAgent, ForeignDirectory,
           PackageUpdated, OutsideAct
  <1>2. (Busy' <=> Busy) /\ (Adding' <=> Adding) /\ (Removing' <=> Removing) /\ StepsLeft' = StepsLeft
    BY <1>1 DEF Busy, Adding, Removing, StepsLeft
  <1>3. Filed /\ packaged \in 1 .. LastRelease
    BY DEF PluginTyped, Filed
  <1>4. ASSUME OtherRegisters
        PROVE  UNCHANGED <<packaged, payload, rec, legacy, shared, agents>> /\ others \subseteq others'
               /\ others' \subseteq others \cup meanwhile' /\ meanwhile \subseteq meanwhile'
               /\ others' \subseteq Others
    BY <1>3, <1>4 DEF OtherRegisters, Filed
  <1>5. ASSUME Garbled
        PROVE  UNCHANGED <<packaged, payload, rec, legacy, others, agents>> /\ meanwhile \subseteq meanwhile'
               /\ shared' \in {"ok", "broken"}
    BY <1>5 DEF Garbled
  <1>6. ASSUME TurnedOff
        PROVE  UNCHANGED <<packaged, payload, legacy, shared, others, agents>> /\ meanwhile \subseteq meanwhile'
               /\ rec' = [rec EXCEPT !.switch = "off"]
    BY <1>6 DEF TurnedOff
  <1>7. ASSUME UserAgent
        PROVE  UNCHANGED <<packaged, payload, rec, legacy, shared, others, meanwhile>>
               /\ agents' \in {"none", "user"}
    BY <1>7 DEF UserAgent
  <1>8. ASSUME ForeignDirectory
        PROVE  UNCHANGED <<packaged, rec, legacy, shared, others, agents, meanwhile>>
               /\ \E p \in {0, 1} : payload' = [payload EXCEPT ![p].part = "foreign"]
    BY <1>8 DEF ForeignDirectory
  <1>9. ASSUME PackageUpdated
        PROVE  /\ UNCHANGED <<payload, rec, legacy, shared, others, agents, meanwhile>>
               /\ packaged' = packaged + 1 /\ packaged < LastRelease /\ ~Busy
    BY <1>9 DEF PackageUpdated, pluginFiles
  <1>10. acts' = acts + 1
    BY DEF Outside, OtherRegisters, Garbled, TurnedOff, UserAgent, ForeignDirectory,
           PackageUpdated, OutsideAct
  <1>11. Filed'
    <2>1. 0 \in 0 .. LastRelease /\ 1 \in 0 .. LastRelease
      BY HostAssumption
    <2>2. CASE OtherRegisters
      BY <1>3, <1>4, <2>2 DEF Filed
    <2>3. CASE Garbled
      BY <1>3, <1>5, <2>3 DEF Filed
    <2>4. CASE TurnedOff
      BY <1>3, <1>6, <2>4 DEF Filed
    <2>5. CASE UserAgent
      BY <1>3, <1>7, <2>5 DEF Filed
    <2>6. CASE ForeignDirectory
      BY <1>3, <1>8, <2>1, <2>6 DEF Filed, Parts
    <2>7. CASE PackageUpdated
      BY <1>3, <1>9, <2>7 DEF Filed
    <2> QED
      BY <2>2, <2>3, <2>4, <2>5, <2>6, <2>7 DEF Outside
  <1>12. /\ others \subseteq others' /\ others' \subseteq others \cup meanwhile'
         /\ meanwhile \subseteq meanwhile'
    BY <1>4, <1>5, <1>6, <1>7, <1>8, <1>9 DEF Outside
  <1>13. packaged' = packaged \/ PackageUpdated
    BY <1>4, <1>5, <1>6, <1>7, <1>8 DEF Outside
  <1>14. packaged' \in 1 .. LastRelease
         /\ (packaged' # packaged => ~Busy /\ packaged' = packaged + 1 /\ UNCHANGED pluginFiles)
    BY <1>3, <1>9, <1>13, HostAssumption DEF pluginFiles
  <1> QED
    BY <1>1, <1>2, <1>10, <1>11, <1>12, <1>14

\* Types are kept.
LEMMA TypedStep ==
    ASSUME PluginTyped, [PluginNext]_pluginVars
    PROVE  PluginTyped'
  <1>1. CASE CmdStep
    <2>1. Filed' /\ others' \subseteq job.view.others \cup meanwhile
      BY <1>1, FilesStay
    <2>2. job' \in Jobs /\ (Busy' => job'.rel = packaged' /\ Follows' /\ job'.view = job.view)
      BY <1>1, JobStays
    <2>3. UNCHANGED <<host, packaged, meanwhile, acts>>
      BY <1>1, CommandGoes
    <2> QED
      BY <2>1, <2>2, <2>3 DEF PluginTyped, Filed
  <1>2. ASSUME NEW op \in {"add", "remove"}, NEW force \in BOOLEAN, NEW prune \in BOOLEAN,
               Start(op, force, prune)
        PROVE  PluginTyped'
    <2>1. /\ meanwhile' = {} /\ ~Busy
          /\ UNCHANGED <<host, packaged, payload, rec, legacy, shared, others, agents, acts>>
          /\ StayIdle \/ Runs(op, force)
      BY <1>2, StartIs
    <2>2. job' \in Jobs /\ (Busy' => job'.rel = packaged' /\ Follows' /\ job'.view.others = others)
      BY <2>1 DEF StayIdle, Runs, PluginTyped
    <2> QED
      BY <2>1, <2>2 DEF PluginTyped
  <1>3. CASE Interrupted
    <2>1. /\ Filed' /\ Ends /\ UNCHANGED <<host, packaged, acts>>
      BY <1>3, InterruptedIs DEF StepFails
    <2> QED
      BY <2>1 DEF PluginTyped, Filed, Ends
  <1>4. CASE Outside
    <2>1. /\ Filed' /\ UNCHANGED <<host, job>> /\ packaged' \in 1 .. LastRelease /\ (Busy' <=> Busy)
          /\ others' \subseteq others \cup meanwhile' /\ meanwhile \subseteq meanwhile'
          /\ Busy => packaged' = packaged
          /\ acts' = acts + 1
      BY <1>4, OutsideIs
    <2>2. Busy => Follows'
      <3>1. Script(job.op, job.full, job.rel)' = Script(job.op, job.full, job.rel)
        BY <2>1 DEF Script, RemoveSteps, Step, Do
      <3> QED
        BY <2>1, <3>1 DEF PluginTyped, Follows, StepsLeft
    <2>3. Busy => others' \subseteq job'.view.others \cup meanwhile'
      BY <2>1 DEF PluginTyped
    <2> QED
      BY <2>1, <2>2, <2>3 DEF PluginTyped, Filed
  <1>5. CASE UNCHANGED pluginVars
    <2>1. UNCHANGED <<host, packaged, payload, rec, legacy, shared, others, agents, job, meanwhile,
                    acts>>
      BY <1>5 DEF pluginVars
    <2>2. Script(job.op, job.full, job.rel)' = Script(job.op, job.full, job.rel)
      BY <2>1 DEF Script, RemoveSteps, Step, Do
    <2>3. (Busy' <=> Busy) /\ (Follows <=> Follows')
      BY <2>1, <2>2 DEF Busy, Follows, StepsLeft
    <2> QED
      BY <2>1, <2>3 DEF PluginTyped
  <1> QED
    BY <1>1, <1>2, <1>3, <1>4, <1>5 DEF PluginNext, Command, CmdStep

-----------------------------------------------------------------------------
\* The action a command of a host takes when so many steps are left, and where.
LEMMA ZcodeAddTurn ==
    ASSUME PluginTyped, Busy, CmdStep, host = "zcode" /\ job.op = "add"
    PROVE  /\ StepsLeft \in 1 .. 8
           /\ StepsLeft = 8 => Head(job.todo).do = "wipe" /\ Wipe /\ Here = packaged
           /\ StepsLeft = 7 => Head(job.todo).do = "copy" /\ Copy /\ Here = packaged
           /\ StepsLeft = 6 => Head(job.todo).do = "stamp" /\ Stamp /\ Here = packaged
           /\ StepsLeft = 5 => Head(job.todo).do = "market" /\ ZcodeRecords
           /\ StepsLeft = 4 => Head(job.todo).do = "active" /\ ZcodeRecords
           /\ StepsLeft = 3 => Head(job.todo).do = "known" /\ ZcodeRecords
           /\ StepsLeft = 2 => Head(job.todo).do = "legacy" /\ ZcodeRecords
           /\ StepsLeft = 1 => Head(job.todo).do = "prune" /\ Prune
  <1>1. StepsLeft \in 1 .. 8
    BY ZcodeAdd
  <1>2. ASSUME StepsLeft = 8 PROVE Head(job.todo).do = "wipe" /\ Wipe /\ Here = packaged
    <2>1. Head(job.todo) = Step("wipe", packaged)
      BY <1>2, ZcodeAdd
    <2> QED
      BY <2>1, CommandAt DEF Step, Do, Here
  <1>3. ASSUME StepsLeft = 7 PROVE Head(job.todo).do = "copy" /\ Copy /\ Here = packaged
    <2>1. Head(job.todo) = Step("copy", packaged)
      BY <1>3, ZcodeAdd
    <2> QED
      BY <2>1, CommandAt DEF Step, Do, Here
  <1>4. ASSUME StepsLeft = 6 PROVE Head(job.todo).do = "stamp" /\ Stamp /\ Here = packaged
    <2>1. Head(job.todo) = Step("stamp", packaged)
      BY <1>4, ZcodeAdd
    <2> QED
      BY <2>1, CommandAt DEF Step, Do, Here
  <1>5. ASSUME StepsLeft = 5 PROVE Head(job.todo).do = "market" /\ ZcodeRecords
    <2>1. Head(job.todo) = Do("market")
      BY <1>5, ZcodeAdd
    <2> QED
      BY <2>1, CommandAt DEF Step, Do, Here
  <1>6. ASSUME StepsLeft = 4 PROVE Head(job.todo).do = "active" /\ ZcodeRecords
    <2>1. Head(job.todo) = Do("active")
      BY <1>6, ZcodeAdd
    <2> QED
      BY <2>1, CommandAt DEF Step, Do, Here
  <1>7. ASSUME StepsLeft = 3 PROVE Head(job.todo).do = "known" /\ ZcodeRecords
    <2>1. Head(job.todo) = Do("known")
      BY <1>7, ZcodeAdd
    <2> QED
      BY <2>1, CommandAt DEF Step, Do, Here
  <1>8. ASSUME StepsLeft = 2 PROVE Head(job.todo).do = "legacy" /\ ZcodeRecords
    <2>1. Head(job.todo) = Do("legacy")
      BY <1>8, ZcodeAdd
    <2> QED
      BY <2>1, CommandAt DEF Step, Do, Here
  <1>9. ASSUME StepsLeft = 1 PROVE Head(job.todo).do = "prune" /\ Prune
    <2>1. Head(job.todo) = Do("prune")
      BY <1>9, ZcodeAdd
    <2> QED
      BY <2>1, CommandAt DEF Step, Do, Here
  <1> QED
    BY <1>1, <1>2, <1>3, <1>4, <1>5, <1>6, <1>7, <1>8, <1>9

LEMMA QoderAddTurn ==
    ASSUME PluginTyped, Busy, CmdStep, host = "qoder" /\ job.op = "add" /\ job.full
    PROVE  /\ StepsLeft \in 1 .. 7
           /\ StepsLeft = 7 => Head(job.todo).do = "wipe" /\ Wipe /\ Here = packaged
           /\ StepsLeft = 6 => Head(job.todo).do = "copy" /\ Copy /\ Here = packaged
           /\ StepsLeft = 5 => Head(job.todo).do = "stamp" /\ Stamp /\ Here = packaged
           /\ StepsLeft = 4 => Head(job.todo).do = "agents" /\ SyncAgents
           /\ StepsLeft = 3 => Head(job.todo).do = "strip" /\ StripBundled /\ Here = packaged
           /\ StepsLeft = 2 => Head(job.todo).do = "register" /\ QoderRecords
           /\ StepsLeft = 1 => Head(job.todo).do = "enable" /\ QoderRecords
  <1>1. StepsLeft \in 1 .. 7
    BY QoderAdd
  <1>2. ASSUME StepsLeft = 7 PROVE Head(job.todo).do = "wipe" /\ Wipe /\ Here = packaged
    <2>1. Head(job.todo) = Step("wipe", packaged)
      BY <1>2, QoderAdd
    <2> QED
      BY <2>1, CommandAt DEF Step, Do, Here
  <1>3. ASSUME StepsLeft = 6 PROVE Head(job.todo).do = "copy" /\ Copy /\ Here = packaged
    <2>1. Head(job.todo) = Step("copy", packaged)
      BY <1>3, QoderAdd
    <2> QED
      BY <2>1, CommandAt DEF Step, Do, Here
  <1>4. ASSUME StepsLeft = 5 PROVE Head(job.todo).do = "stamp" /\ Stamp /\ Here = packaged
    <2>1. Head(job.todo) = Step("stamp", packaged)
      BY <1>4, QoderAdd
    <2> QED
      BY <2>1, CommandAt DEF Step, Do, Here
  <1>5. ASSUME StepsLeft = 4 PROVE Head(job.todo).do = "agents" /\ SyncAgents
    <2>1. Head(job.todo) = Do("agents")
      BY <1>5, QoderAdd
    <2> QED
      BY <2>1, CommandAt DEF Step, Do, Here
  <1>6. ASSUME StepsLeft = 3 PROVE Head(job.todo).do = "strip" /\ StripBundled /\ Here = packaged
    <2>1. Head(job.todo) = Step("strip", packaged)
      BY <1>6, QoderAdd
    <2> QED
      BY <2>1, CommandAt DEF Step, Do, Here
  <1>7. ASSUME StepsLeft = 2 PROVE Head(job.todo).do = "register" /\ QoderRecords
    <2>1. Head(job.todo) = Do("register")
      BY <1>7, QoderAdd
    <2> QED
      BY <2>1, CommandAt DEF Step, Do, Here
  <1>8. ASSUME StepsLeft = 1 PROVE Head(job.todo).do = "enable" /\ QoderRecords
    <2>1. Head(job.todo) = Do("enable")
      BY <1>8, QoderAdd
    <2> QED
      BY <2>1, CommandAt DEF Step, Do, Here
  <1> QED
    BY <1>1, <1>2, <1>3, <1>4, <1>5, <1>6, <1>7, <1>8

LEMMA QoderReuseTurn ==
    ASSUME PluginTyped, Busy, CmdStep, host = "qoder" /\ job.op = "add" /\ ~job.full
    PROVE  /\ StepsLeft \in 1 .. 2
           /\ StepsLeft = 2 => Head(job.todo).do = "agents" /\ SyncAgents
           /\ StepsLeft = 1 => Head(job.todo).do = "strip" /\ StripBundled /\ Here = packaged
  <1>1. StepsLeft \in 1 .. 2
    BY QoderHealthy
  <1>2. ASSUME StepsLeft = 2 PROVE Head(job.todo).do = "agents" /\ SyncAgents
    <2>1. Head(job.todo) = Do("agents")
      BY <1>2, QoderHealthy
    <2> QED
      BY <2>1, CommandAt DEF Step, Do, Here
  <1>3. ASSUME StepsLeft = 1 PROVE Head(job.todo).do = "strip" /\ StripBundled /\ Here = packaged
    <2>1. Head(job.todo) = Step("strip", packaged)
      BY <1>3, QoderHealthy
    <2> QED
      BY <2>1, CommandAt DEF Step, Do, Here
  <1> QED
    BY <1>1, <1>2, <1>3

LEMMA KimiAddTurn ==
    ASSUME PluginTyped, Busy, CmdStep, host = "kimi-code" /\ job.op = "add"
    PROVE  /\ StepsLeft \in 1 .. 9
           /\ StepsLeft = 9 => Head(job.todo).do = "guard" /\ Guard /\ Here = 0
           /\ StepsLeft = 8 => Head(job.todo).do = "wipe" /\ Wipe /\ Here = 0
           /\ StepsLeft = 7 => Head(job.todo).do = "copy" /\ Copy /\ Here = 0
           /\ StepsLeft = 6 => Head(job.todo).do = "stamp" /\ Stamp /\ Here = 0
           /\ StepsLeft = 5 => Head(job.todo).do = "guard" /\ Guard /\ Here = 1
           /\ StepsLeft = 4 => Head(job.todo).do = "wipe" /\ Wipe /\ Here = 1
           /\ StepsLeft = 3 => Head(job.todo).do = "copy" /\ Copy /\ Here = 1
           /\ StepsLeft = 2 => Head(job.todo).do = "stamp" /\ Stamp /\ Here = 1
           /\ StepsLeft = 1 => Head(job.todo).do = "record" /\ KimiRecord
  <1>1. StepsLeft \in 1 .. 9
    BY KimiAdd
  <1>2. ASSUME StepsLeft = 9 PROVE Head(job.todo).do = "guard" /\ Guard /\ Here = 0
    <2>1. Head(job.todo) = Step("guard", 0)
      BY <1>2, KimiAdd
    <2> QED
      BY <2>1, CommandAt DEF Step, Do, Here
  <1>3. ASSUME StepsLeft = 8 PROVE Head(job.todo).do = "wipe" /\ Wipe /\ Here = 0
    <2>1. Head(job.todo) = Step("wipe", 0)
      BY <1>3, KimiAdd
    <2> QED
      BY <2>1, CommandAt DEF Step, Do, Here
  <1>4. ASSUME StepsLeft = 7 PROVE Head(job.todo).do = "copy" /\ Copy /\ Here = 0
    <2>1. Head(job.todo) = Step("copy", 0)
      BY <1>4, KimiAdd
    <2> QED
      BY <2>1, CommandAt DEF Step, Do, Here
  <1>5. ASSUME StepsLeft = 6 PROVE Head(job.todo).do = "stamp" /\ Stamp /\ Here = 0
    <2>1. Head(job.todo) = Step("stamp", 0)
      BY <1>5, KimiAdd
    <2> QED
      BY <2>1, CommandAt DEF Step, Do, Here
  <1>6. ASSUME StepsLeft = 5 PROVE Head(job.todo).do = "guard" /\ Guard /\ Here = 1
    <2>1. Head(job.todo) = Step("guard", 1)
      BY <1>6, KimiAdd
    <2> QED
      BY <2>1, CommandAt DEF Step, Do, Here
  <1>7. ASSUME StepsLeft = 4 PROVE Head(job.todo).do = "wipe" /\ Wipe /\ Here = 1
    <2>1. Head(job.todo) = Step("wipe", 1)
      BY <1>7, KimiAdd
    <2> QED
      BY <2>1, CommandAt DEF Step, Do, Here
  <1>8. ASSUME StepsLeft = 3 PROVE Head(job.todo).do = "copy" /\ Copy /\ Here = 1
    <2>1. Head(job.todo) = Step("copy", 1)
      BY <1>8, KimiAdd
    <2> QED
      BY <2>1, CommandAt DEF Step, Do, Here
  <1>9. ASSUME StepsLeft = 2 PROVE Head(job.todo).do = "stamp" /\ Stamp /\ Here = 1
    <2>1. Head(job.todo) = Step("stamp", 1)
      BY <1>9, KimiAdd
    <2> QED
      BY <2>1, CommandAt DEF Step, Do, Here
  <1>10. ASSUME StepsLeft = 1 PROVE Head(job.todo).do = "record" /\ KimiRecord
    <2>1. Head(job.todo) = Do("record")
      BY <1>10, KimiAdd
    <2> QED
      BY <2>1, CommandAt DEF Step, Do, Here
  <1> QED
    BY <1>1, <1>2, <1>3, <1>4, <1>5, <1>6, <1>7, <1>8, <1>9, <1>10

LEMMA ClaudeAddTurn ==
    ASSUME PluginTyped, Busy, CmdStep, host = "claude-code" /\ job.op = "add"
    PROVE  /\ StepsLeft \in 1 .. 4
           /\ StepsLeft = 4 => Head(job.todo).do = "guard" /\ Guard /\ Here = 1
           /\ StepsLeft = 3 => Head(job.todo).do = "wipe" /\ Wipe /\ Here = 1
           /\ StepsLeft = 2 => Head(job.todo).do = "copy" /\ Copy /\ Here = 1
           /\ StepsLeft = 1 => Head(job.todo).do = "stamp" /\ Stamp /\ Here = 1
  <1>1. StepsLeft \in 1 .. 4
    BY ClaudeAdd
  <1>2. ASSUME StepsLeft = 4 PROVE Head(job.todo).do = "guard" /\ Guard /\ Here = 1
    <2>1. Head(job.todo) = Step("guard", 1)
      BY <1>2, ClaudeAdd
    <2> QED
      BY <2>1, CommandAt DEF Step, Do, Here
  <1>3. ASSUME StepsLeft = 3 PROVE Head(job.todo).do = "wipe" /\ Wipe /\ Here = 1
    <2>1. Head(job.todo) = Step("wipe", 1)
      BY <1>3, ClaudeAdd
    <2> QED
      BY <2>1, CommandAt DEF Step, Do, Here
  <1>4. ASSUME StepsLeft = 2 PROVE Head(job.todo).do = "copy" /\ Copy /\ Here = 1
    <2>1. Head(job.todo) = Step("copy", 1)
      BY <1>4, ClaudeAdd
    <2> QED
      BY <2>1, CommandAt DEF Step, Do, Here
  <1>5. ASSUME StepsLeft = 1 PROVE Head(job.todo).do = "stamp" /\ Stamp /\ Here = 1
    <2>1. Head(job.todo) = Step("stamp", 1)
      BY <1>5, ClaudeAdd
    <2> QED
      BY <2>1, CommandAt DEF Step, Do, Here
  <1> QED
    BY <1>1, <1>2, <1>3, <1>4, <1>5

LEMMA CodexAddTurn ==
    ASSUME PluginTyped, Busy, CmdStep, host = "codex" /\ job.op = "add"
    PROVE  /\ StepsLeft \in 1 .. 6
           /\ StepsLeft = 6 => Head(job.todo).do = "wipe" /\ Wipe /\ Here = 1
           /\ StepsLeft = 5 => Head(job.todo).do = "copy" /\ Copy /\ Here = 1
           /\ StepsLeft = 4 => Head(job.todo).do = "stamp" /\ Stamp /\ Here = 1
           /\ StepsLeft = 3 => Head(job.todo).do = "source" /\ CodexAdd
           /\ StepsLeft = 2 => Head(job.todo).do = "cli" /\ CodexAdd
           /\ StepsLeft = 1 => Head(job.todo).do = "plug" /\ CodexAdd
  <1>1. StepsLeft \in 1 .. 6
    BY CodexAdding
  <1>2. ASSUME StepsLeft = 6 PROVE Head(job.todo).do = "wipe" /\ Wipe /\ Here = 1
    <2>1. Head(job.todo) = Step("wipe", 1)
      BY <1>2, CodexAdding
    <2> QED
      BY <2>1, CommandAt DEF Step, Do, Here
  <1>3. ASSUME StepsLeft = 5 PROVE Head(job.todo).do = "copy" /\ Copy /\ Here = 1
    <2>1. Head(job.todo) = Step("copy", 1)
      BY <1>3, CodexAdding
    <2> QED
      BY <2>1, CommandAt DEF Step, Do, Here
  <1>4. ASSUME StepsLeft = 4 PROVE Head(job.todo).do = "stamp" /\ Stamp /\ Here = 1
    <2>1. Head(job.todo) = Step("stamp", 1)
      BY <1>4, CodexAdding
    <2> QED
      BY <2>1, CommandAt DEF Step, Do, Here
  <1>5. ASSUME StepsLeft = 3 PROVE Head(job.todo).do = "source" /\ CodexAdd
    <2>1. Head(job.todo) = Do("source")
      BY <1>5, CodexAdding
    <2> QED
      BY <2>1, CommandAt DEF Step, Do, Here
  <1>6. ASSUME StepsLeft = 2 PROVE Head(job.todo).do = "cli" /\ CodexAdd
    <2>1. Head(job.todo) = Do("cli")
      BY <1>6, CodexAdding
    <2> QED
      BY <2>1, CommandAt DEF Step, Do, Here
  <1>7. ASSUME StepsLeft = 1 PROVE Head(job.todo).do = "plug" /\ CodexAdd
    <2>1. Head(job.todo) = Do("plug")
      BY <1>7, CodexAdding
    <2> QED
      BY <2>1, CommandAt DEF Step, Do, Here
  <1> QED
    BY <1>1, <1>2, <1>3, <1>4, <1>5, <1>6, <1>7

LEMMA ZcodeRemoveTurn ==
    ASSUME PluginTyped, Busy, CmdStep, host = "zcode" /\ job.op = "remove"
    PROVE  /\ StepsLeft \in 1 .. 4
           /\ StepsLeft = 4 => Head(job.todo).do = "forget" /\ ZcodeRecords
           /\ StepsLeft = 3 => Head(job.todo).do = "rmcache" /\ RemoveCache
           /\ StepsLeft = 2 => Head(job.todo).do = "rmmarket" /\ ZcodeRecords
           /\ StepsLeft = 1 => Head(job.todo).do = "rmactive" /\ ZcodeRecords
  <1>1. StepsLeft \in 1 .. 4
    BY ZcodeRemove
  <1>2. ASSUME StepsLeft = 4 PROVE Head(job.todo).do = "forget" /\ ZcodeRecords
    <2>1. Head(job.todo) = Do("forget")
      BY <1>2, ZcodeRemove
    <2> QED
      BY <2>1, CommandAt DEF Step, Do, Here
  <1>3. ASSUME StepsLeft = 3 PROVE Head(job.todo).do = "rmcache" /\ RemoveCache
    <2>1. Head(job.todo) = Do("rmcache")
      BY <1>3, ZcodeRemove
    <2> QED
      BY <2>1, CommandAt DEF Step, Do, Here
  <1>4. ASSUME StepsLeft = 2 PROVE Head(job.todo).do = "rmmarket" /\ ZcodeRecords
    <2>1. Head(job.todo) = Do("rmmarket")
      BY <1>4, ZcodeRemove
    <2> QED
      BY <2>1, CommandAt DEF Step, Do, Here
  <1>5. ASSUME StepsLeft = 1 PROVE Head(job.todo).do = "rmactive" /\ ZcodeRecords
    <2>1. Head(job.todo) = Do("rmactive")
      BY <1>5, ZcodeRemove
    <2> QED
      BY <2>1, CommandAt DEF Step, Do, Here
  <1> QED
    BY <1>1, <1>2, <1>3, <1>4, <1>5

LEMMA QoderRemoveTurn ==
    ASSUME PluginTyped, Busy, CmdStep, host = "qoder" /\ job.op = "remove"
    PROVE  /\ StepsLeft \in 1 .. 4
           /\ StepsLeft = 4 => Head(job.todo).do = "unregister" /\ QoderRecords
           /\ StepsLeft = 3 => Head(job.todo).do = "disable" /\ QoderRecords
           /\ StepsLeft = 2 => Head(job.todo).do = "rmcache" /\ RemoveCache
           /\ StepsLeft = 1 => Head(job.todo).do = "rmagents" /\ RemoveAgents
  <1>1. StepsLeft \in 1 .. 4
    BY QoderRemove
  <1>2. ASSUME StepsLeft = 4 PROVE Head(job.todo).do = "unregister" /\ QoderRecords
    <2>1. Head(job.todo) = Do("unregister")
      BY <1>2, QoderRemove
    <2> QED
      BY <2>1, CommandAt DEF Step, Do, Here
  <1>3. ASSUME StepsLeft = 3 PROVE Head(job.todo).do = "disable" /\ QoderRecords
    <2>1. Head(job.todo) = Do("disable")
      BY <1>3, QoderRemove
    <2> QED
      BY <2>1, CommandAt DEF Step, Do, Here
  <1>4. ASSUME StepsLeft = 2 PROVE Head(job.todo).do = "rmcache" /\ RemoveCache
    <2>1. Head(job.todo) = Do("rmcache")
      BY <1>4, QoderRemove
    <2> QED
      BY <2>1, CommandAt DEF Step, Do, Here
  <1>5. ASSUME StepsLeft = 1 PROVE Head(job.todo).do = "rmagents" /\ RemoveAgents
    <2>1. Head(job.todo) = Do("rmagents")
      BY <1>5, QoderRemove
    <2> QED
      BY <2>1, CommandAt DEF Step, Do, Here
  <1> QED
    BY <1>1, <1>2, <1>3, <1>4, <1>5

LEMMA KimiRemoveTurn ==
    ASSUME PluginTyped, Busy, CmdStep, host = "kimi-code" /\ job.op = "remove"
    PROVE  /\ StepsLeft \in 1 .. 5
           /\ StepsLeft = 5 => Head(job.todo).do = "guard" /\ Guard /\ Here = 1
           /\ StepsLeft = 4 => Head(job.todo).do = "wipe" /\ Wipe /\ Here = 1
           /\ StepsLeft = 3 => Head(job.todo).do = "guard" /\ Guard /\ Here = 0
           /\ StepsLeft = 2 => Head(job.todo).do = "wipe" /\ Wipe /\ Here = 0
           /\ StepsLeft = 1 => Head(job.todo).do = "unrecord" /\ KimiRecord
  <1>1. StepsLeft \in 1 .. 5
    BY KimiRemove
  <1>2. ASSUME StepsLeft = 5 PROVE Head(job.todo).do = "guard" /\ Guard /\ Here = 1
    <2>1. Head(job.todo) = Step("guard", 1)
      BY <1>2, KimiRemove
    <2> QED
      BY <2>1, CommandAt DEF Step, Do, Here
  <1>3. ASSUME StepsLeft = 4 PROVE Head(job.todo).do = "wipe" /\ Wipe /\ Here = 1
    <2>1. Head(job.todo) = Step("wipe", 1)
      BY <1>3, KimiRemove
    <2> QED
      BY <2>1, CommandAt DEF Step, Do, Here
  <1>4. ASSUME StepsLeft = 3 PROVE Head(job.todo).do = "guard" /\ Guard /\ Here = 0
    <2>1. Head(job.todo) = Step("guard", 0)
      BY <1>4, KimiRemove
    <2> QED
      BY <2>1, CommandAt DEF Step, Do, Here
  <1>5. ASSUME StepsLeft = 2 PROVE Head(job.todo).do = "wipe" /\ Wipe /\ Here = 0
    <2>1. Head(job.todo) = Step("wipe", 0)
      BY <1>5, KimiRemove
    <2> QED
      BY <2>1, CommandAt DEF Step, Do, Here
  <1>6. ASSUME StepsLeft = 1 PROVE Head(job.todo).do = "unrecord" /\ KimiRecord
    <2>1. Head(job.todo) = Do("unrecord")
      BY <1>6, KimiRemove
    <2> QED
      BY <2>1, CommandAt DEF Step, Do, Here
  <1> QED
    BY <1>1, <1>2, <1>3, <1>4, <1>5, <1>6

LEMMA ClaudeRemoveTurn ==
    ASSUME PluginTyped, Busy, CmdStep, host = "claude-code" /\ job.op = "remove"
    PROVE  /\ StepsLeft \in 1 .. 2
           /\ StepsLeft = 2 => Head(job.todo).do = "guard" /\ Guard /\ Here = 1
           /\ StepsLeft = 1 => Head(job.todo).do = "wipe" /\ Wipe /\ Here = 1
  <1>1. StepsLeft \in 1 .. 2
    BY ClaudeRemove
  <1>2. ASSUME StepsLeft = 2 PROVE Head(job.todo).do = "guard" /\ Guard /\ Here = 1
    <2>1. Head(job.todo) = Step("guard", 1)
      BY <1>2, ClaudeRemove
    <2> QED
      BY <2>1, CommandAt DEF Step, Do, Here
  <1>3. ASSUME StepsLeft = 1 PROVE Head(job.todo).do = "wipe" /\ Wipe /\ Here = 1
    <2>1. Head(job.todo) = Step("wipe", 1)
      BY <1>3, ClaudeRemove
    <2> QED
      BY <2>1, CommandAt DEF Step, Do, Here
  <1> QED
    BY <1>1, <1>2, <1>3

LEMMA CodexRemoveTurn ==
    ASSUME PluginTyped, Busy, CmdStep, host = "codex" /\ job.op = "remove"
    PROVE  /\ StepsLeft \in 1 .. 2
           /\ StepsLeft = 2 => Head(job.todo).do = "unplug" /\ CodexRemove
           /\ StepsLeft = 1 => Head(job.todo).do = "rmroot" /\ CodexRemove
  <1>1. StepsLeft \in 1 .. 2
    BY CodexRemoving
  <1>2. ASSUME StepsLeft = 2 PROVE Head(job.todo).do = "unplug" /\ CodexRemove
    <2>1. Head(job.todo) = Do("unplug")
      BY <1>2, CodexRemoving
    <2> QED
      BY <2>1, CommandAt DEF Step, Do, Here
  <1>3. ASSUME StepsLeft = 1 PROVE Head(job.todo).do = "rmroot" /\ CodexRemove
    <2>1. Head(job.todo) = Do("rmroot")
      BY <1>3, CodexRemoving
    <2> QED
      BY <2>1, CommandAt DEF Step, Do, Here
  <1> QED
    BY <1>1, <1>2, <1>3

-----------------------------------------------------------------------------
\* The steps of a command keep the invariant of its host.

\* What the steps below need of the types.
LEMMA Running ==
    ASSUME PluginTyped, CmdStep
    PROVE  /\ Busy /\ UNCHANGED <<host, packaged, meanwhile>> /\ job.full \in BOOLEAN
           /\ job.rel = packaged /\ packaged \in 1 .. LastRelease
           /\ payload \in [0 .. LastRelease -> [part : Parts, rel : 0 .. LastRelease]]
           /\ rec \in [active : 0 .. LastRelease, market : 0 .. LastRelease, known : {"none", "ours"},
                       switch : {"none", "on", "off"}, cached : 0 .. LastRelease]
           /\ 0 \in 0 .. LastRelease /\ 1 \in 0 .. LastRelease /\ packaged \in 0 .. LastRelease
  <1>1. Busy /\ UNCHANGED <<host, packaged, meanwhile>>
    BY CommandGoes
  <1>2. job \in Jobs /\ job.rel = packaged /\ packaged \in 1 .. LastRelease
    BY <1>1 DEF PluginTyped
  <1>3. job.full \in BOOLEAN
    BY <1>2 DEF Jobs
  <1>4. 0 \in 0 .. LastRelease /\ 1 \in 0 .. LastRelease /\ packaged \in 0 .. LastRelease
    BY <1>2, HostAssumption
  <1> QED
    BY <1>1, <1>2, <1>3, <1>4 DEF PluginTyped

\* An edition stays complete or accounted for by a step at this release, by
\* the last step of a command, by the removal of all, and by no change.
LEMMA EditionsGo ==
    ASSUME Editions, Goes, packaged' = packaged,
           \A q \in 0 .. LastRelease : q = packaged \/ payload'[q] = payload[q],
           \/ payload'[packaged].part = "none" \/ packaged \in cut \/ (Adding /\ job.full)
           \/ payload'[packaged] = [part |-> "whole", rel |-> packaged]
    PROVE  Editions'
  <1>1. cut' = cut /\ (Adding' <=> Adding) /\ job'.full = job.full
    BY DEF Goes, Same
  <1>2. ASSUME NEW r \in 1 .. LastRelease
        PROVE  \/ payload'[r].part = "none" \/ r \in cut' \/ (Adding' /\ job'.full /\ r = packaged')
               \/ payload'[r] = [part |-> "whole", rel |-> r]
    <2>1. CASE r = packaged
      BY <1>1, <2>1
    <2>2. CASE r # packaged
      <3>1. r \in 0 .. LastRelease
        OBVIOUS
      <3>2. payload'[r] = payload[r]
        BY <2>2, <3>1
      <3> QED
        BY <1>1, <2>2, <3>2 DEF Editions
    <2> QED
      BY <2>1, <2>2
  <1> QED
    BY <1>2 DEF Editions

LEMMA EditionsDone ==
    ASSUME Editions, Done, packaged' = packaged, job.rel = packaged,
           \A q \in 0 .. LastRelease :
              q = packaged \/ payload'[q] = payload[q] \/ payload'[q].part = "none",
           \/ payload'[packaged].part = "none"
           \/ payload'[packaged] = [part |-> "whole", rel |-> packaged] \/ (~job.full /\ packaged \in cut)
    PROVE  Editions'
  <1>1. cut' = (IF job.full THEN cut \ {packaged} ELSE cut) /\ ~Adding'
    BY DEF Done, Ends
  <1>2. ASSUME NEW r \in 1 .. LastRelease
        PROVE  \/ payload'[r].part = "none" \/ r \in cut'
               \/ payload'[r] = [part |-> "whole", rel |-> r]
    <2>1. CASE r = packaged
      BY <1>1, <2>1
    <2>2. CASE r # packaged
      <3>1. r \in 0 .. LastRelease
        OBVIOUS
      <3>2. payload'[r] = payload[r] \/ payload'[r].part = "none"
        BY <2>2, <3>1
      <3> QED
        BY <1>1, <2>2, <3>2 DEF Editions
    <2> QED
      BY <2>1, <2>2
  <1> QED
    BY <1>1, <1>2 DEF Editions

LEMMA EditionsGone ==
    ASSUME \A q \in 0 .. LastRelease : payload'[q] = NoPayload
    PROVE  Editions'
  BY DEF Editions, NoPayload

LEMMA EditionsSame ==
    ASSUME Editions, Goes, UNCHANGED <<packaged, payload>>
    PROVE  Editions'
  BY DEF Editions, Goes, Same

\* Behind the ownership guard nothing foreign is at the place, but with --force.
LEMMA GuardIs ==
    ASSUME PluginTyped, Guard
    PROVE  /\ UNCHANGED <<payload, rec, legacy, shared, others, agents>>
           /\ \/ Stop
              \/ GoOn(Rest) /\ NotForeign(Here)
              \/ Skips
  <1>1. UNCHANGED <<payload, rec, legacy, shared, others, agents>> /\ At("guard")
    BY DEF Guard, pluginFiles
  <1>2. CASE payload[Here].part # "none" /\ (Named(Here) \/ job.force) /\ KeptAsIs
    <2>1. job' = NoCommand /\ result' = "done" /\ UNCHANGED cut
      BY <1>2 DEF Guard
    <2> QED
      BY <1>1, <1>2, <2>1, IdleIs DEF Skips
  <1>3. CASE ~(payload[Here].part # "none" /\ (Named(Here) \/ job.force) /\ KeptAsIs)
    BY <1>1, <1>3 DEF Guard, NotForeign, Named
  <1> QED
    BY <1>1, <1>2, <1>3

\* zcode: a step that fails, then an add and a remove, step by step.
LEMMA ZcodeStops ==
    ASSUME PluginTyped, ZcodeInv, StepFails, UNCHANGED <<host, packaged, rec, agents>>,
           \A p \in 0 .. LastRelease : payload'[p].part = "foreign" => payload[p].part = "foreign",
           \A r \in 1 .. LastRelease : payload'[r] = payload[r] \/ r \in cut',
           Adding => job.rel = packaged
    PROVE  ZcodeInv'
  <1>1. NothingForeign'
    BY DEF ZcodeInv, NothingForeign
  <1>2. Editions'
    BY DEF ZcodeInv, Editions, StepFails, Adding
  <1> QED
    BY <1>1, <1>2 DEF ZcodeInv, StepFails, Ends

LEMMA ZcodeAddStep ==
    ASSUME PluginTyped, ZcodeInv, host = "zcode", CmdStep, Adding
    PROVE  ZcodeInv'
  <1>0. /\ Busy /\ job.op = "add" /\ job.rel = packaged /\ packaged \in 1 .. LastRelease
        /\ Adding /\ ~Removing
        /\ payload \in [0 .. LastRelease -> [part : Parts, rel : 0 .. LastRelease]]
        /\ rec \in [active : 0 .. LastRelease, market : 0 .. LastRelease, known : {"none", "ours"},
                     switch : {"none", "on", "off"}, cached : 0 .. LastRelease]
        /\ StepsLeft \in 1 .. 8 /\ UNCHANGED <<host, packaged, meanwhile>>
        /\ job.full \in BOOLEAN /\ 0 \in 0 .. LastRelease /\ 1 \in 0 .. LastRelease
        /\ packaged \in 0 .. LastRelease
    BY ZcodeAddTurn, Running DEF Adding, Removing
  <1>8. CASE StepsLeft = 8
    <2>1. Wipe /\ Here = packaged /\ Head(job.todo).do = "wipe"
      BY <1>0, <1>8, ZcodeAddTurn
    <2>2. Goes \/ Done => Goes
      BY <1>8 DEF Goes, Done
    <2>3. /\ payload' = [payload EXCEPT ![packaged] = NoPayload]
          /\ UNCHANGED <<rec, legacy, shared, others, agents>>
          /\ Goes
      BY <1>0, <2>1, <2>2, CommandGoes DEF Wipe, At
    <2>4. /\ \A q \in 0 .. LastRelease : q = packaged \/ payload'[q] = payload[q]
         /\ payload'[packaged] = NoPayload
      BY <1>0, <2>3
    <2>5. NothingForeign'
      BY <1>0, <1>8, <2>3, <2>4 DEF ZcodeInv, NothingForeign, NoPayload, Goes, Same
    <2>6. Editions'
      BY <1>0, <1>8, <2>3, <2>4, EditionsGo DEF ZcodeInv, ZcodeAdding, DirReady, NoPayload
    <2>7. ZcodeAdding'
      BY <1>0, <1>8, <2>3, <2>4 DEF ZcodeInv, ZcodeAdding, DirReady, NoPayload, Goes, Same
    <2> QED
      BY <1>0, <1>8, <2>3, <2>4, <2>5, <2>6, <2>7 DEF ZcodeInv, Goes, Same
  <1>7. CASE StepsLeft = 7
    <2>1. Copy /\ Here = packaged /\ Head(job.todo).do = "copy"
      BY <1>0, <1>7, ZcodeAddTurn
    <2>2. Goes \/ Done => Goes
      BY <1>7 DEF Goes, Done
    <2>3. /\ \E r \in {0, packaged} : payload' =
             [payload EXCEPT ![packaged] = [part |-> "whole", rel |-> r]]
          /\ UNCHANGED <<rec, legacy, shared, others, agents>>
          /\ Goes
      BY <1>0, <2>1, <2>2, CommandGoes DEF Copy, At
    <2>4. /\ \A q \in 0 .. LastRelease : q = packaged \/ payload'[q] = payload[q]
         /\ payload'[packaged].part = "whole" /\ payload'[packaged].rel \in {0, packaged}
      BY <1>0, <2>3
    <2>5. NothingForeign'
      BY <1>0, <1>7, <2>3, <2>4 DEF ZcodeInv, NothingForeign, NoPayload, Goes, Same
    <2>6. Editions'
      BY <1>0, <1>7, <2>3, <2>4, EditionsGo DEF ZcodeInv, ZcodeAdding, DirReady, NoPayload
    <2>7. ZcodeAdding'
      BY <1>0, <1>7, <2>3, <2>4 DEF ZcodeInv, ZcodeAdding, DirReady, NoPayload, Goes, Same
    <2> QED
      BY <1>0, <1>7, <2>3, <2>4, <2>5, <2>6, <2>7 DEF ZcodeInv, Goes, Same
  <1>6. CASE StepsLeft = 6
    <2>1. Stamp /\ Here = packaged /\ Head(job.todo).do = "stamp"
      BY <1>0, <1>6, ZcodeAddTurn
    <2>2. Goes \/ Done => Goes
      BY <1>6 DEF Goes, Done
    <2>3. \/ /\ payload' = [payload EXCEPT ![packaged].rel = packaged]
             /\ UNCHANGED <<rec, legacy, shared, others, agents>>
             /\ Goes
          \/ UNCHANGED <<payload, rec, agents>> /\ StepFails
      BY <1>0, <2>1, <2>2, CommandGoes DEF Stamp, At
    <2>4. CASE UNCHANGED <<payload, rec, agents>> /\ StepFails
      BY <1>0, <2>4, ZcodeStops DEF ZcodeInv, NothingForeign
    <2>5. CASE /\ payload' = [payload EXCEPT ![packaged].rel = packaged]
               /\ UNCHANGED <<rec, legacy, shared, others, agents>>
               /\ Goes
      <3>1. /\ \A q \in 0 .. LastRelease : q = packaged \/ payload'[q] = payload[q]
           /\ payload'[packaged] = [part |-> payload[packaged].part, rel |-> packaged]
        BY <1>0, <2>5
      <3>2. NothingForeign'
        BY <1>0, <1>6, <2>5, <3>1 DEF ZcodeInv, NothingForeign, NoPayload, Goes, Same
      <3>3. Editions'
        BY <1>0, <1>6, <2>5, <3>1, EditionsGo DEF ZcodeInv, ZcodeAdding, DirReady, NoPayload
      <3>4. ZcodeAdding'
        BY <1>0, <1>6, <2>5, <3>1 DEF ZcodeInv, ZcodeAdding, DirReady, NoPayload, Goes, Same
      <3> QED
        BY <1>0, <1>6, <2>5, <3>1, <3>2, <3>3, <3>4 DEF ZcodeInv, Goes, Same
    <2> QED
      BY <2>3, <2>4, <2>5
  <1>5. CASE StepsLeft = 5
    <2>1. ZcodeRecords /\ Head(job.todo).do = "market"
      BY <1>0, <1>5, ZcodeAddTurn
    <2>2. Goes \/ Done => Goes
      BY <1>5 DEF Goes, Done
    <2>3. /\ UNCHANGED payload
          /\ rec' = [rec EXCEPT !.market = packaged]
          /\ UNCHANGED <<legacy, shared, others, agents>>
          /\ Goes
      BY <1>0, <2>1, <2>2, CommandGoes DEF ZcodeRecords, At
    <2>4. NothingForeign'
      BY <1>0, <1>5, <2>3 DEF ZcodeInv, NothingForeign, NoPayload, Goes, Same
    <2>5. Editions'
      BY <1>0, <1>5, <2>3, EditionsSame DEF ZcodeInv, ZcodeAdding, DirReady, NoPayload
    <2>6. ZcodeAdding'
      BY <1>0, <1>5, <2>3 DEF ZcodeInv, ZcodeAdding, DirReady, NoPayload, Goes, Same
    <2> QED
      BY <1>0, <1>5, <2>3, <2>4, <2>5, <2>6 DEF ZcodeInv, Goes, Same
  <1>4. CASE StepsLeft = 4
    <2>1. ZcodeRecords /\ Head(job.todo).do = "active"
      BY <1>0, <1>4, ZcodeAddTurn
    <2>2. Goes \/ Done => Goes
      BY <1>4 DEF Goes, Done
    <2>3. /\ UNCHANGED payload
          /\ rec' = [rec EXCEPT !.active = packaged]
          /\ UNCHANGED <<legacy, shared, others, agents>>
          /\ Goes
      BY <1>0, <2>1, <2>2, CommandGoes DEF ZcodeRecords, At
    <2>4. NothingForeign'
      BY <1>0, <1>4, <2>3 DEF ZcodeInv, NothingForeign, NoPayload, Goes, Same
    <2>5. Editions'
      BY <1>0, <1>4, <2>3, EditionsSame DEF ZcodeInv, ZcodeAdding, DirReady, NoPayload
    <2>6. ZcodeAdding'
      BY <1>0, <1>4, <2>3 DEF ZcodeInv, ZcodeAdding, DirReady, NoPayload, Goes, Same
    <2> QED
      BY <1>0, <1>4, <2>3, <2>4, <2>5, <2>6 DEF ZcodeInv, Goes, Same
  <1>3. CASE StepsLeft = 3
    <2>1. ZcodeRecords /\ Head(job.todo).do = "known"
      BY <1>0, <1>3, ZcodeAddTurn
    <2>2. Goes \/ Done => Goes
      BY <1>3 DEF Goes, Done
    <2>3. /\ UNCHANGED payload
          /\ rec' = [rec EXCEPT !.known = "ours"]
          /\ UNCHANGED <<legacy, agents>>
          /\ Goes
      BY <1>0, <2>1, <2>2, CommandGoes DEF ZcodeRecords, At
    <2>4. NothingForeign'
      BY <1>0, <1>3, <2>3 DEF ZcodeInv, NothingForeign, NoPayload, Goes, Same
    <2>5. Editions'
      BY <1>0, <1>3, <2>3, EditionsSame DEF ZcodeInv, ZcodeAdding, DirReady, NoPayload
    <2>6. ZcodeAdding'
      BY <1>0, <1>3, <2>3 DEF ZcodeInv, ZcodeAdding, DirReady, NoPayload, Goes, Same
    <2> QED
      BY <1>0, <1>3, <2>3, <2>4, <2>5, <2>6 DEF ZcodeInv, Goes, Same
  <1>2. CASE StepsLeft = 2
    <2>1. ZcodeRecords /\ Head(job.todo).do = "legacy"
      BY <1>0, <1>2, ZcodeAddTurn
    <2>2. Goes \/ Done => Goes
      BY <1>2 DEF Goes, Done
    <2>3. /\ UNCHANGED payload
          /\ legacy' = FALSE
          /\ UNCHANGED <<rec, shared, others, agents>>
          /\ Goes
      BY <1>0, <2>1, <2>2, CommandGoes DEF ZcodeRecords, At
    <2>4. NothingForeign'
      BY <1>0, <1>2, <2>3 DEF ZcodeInv, NothingForeign, NoPayload, Goes, Same
    <2>5. Editions'
      BY <1>0, <1>2, <2>3, EditionsSame DEF ZcodeInv, ZcodeAdding, DirReady, NoPayload
    <2>6. ZcodeAdding'
      BY <1>0, <1>2, <2>3 DEF ZcodeInv, ZcodeAdding, DirReady, NoPayload, Goes, Same
    <2> QED
      BY <1>0, <1>2, <2>3, <2>4, <2>5, <2>6 DEF ZcodeInv, Goes, Same
  <1>1. CASE StepsLeft = 1
    <2>1. Prune /\ Head(job.todo).do = "prune"
      BY <1>0, <1>1, ZcodeAddTurn
    <2>2. Goes \/ Done => Done
      BY <1>1 DEF Goes, Done
    <2>3. /\ \A q \in 0 .. LastRelease : payload'[q] = payload[q]
                \/ (q # packaged /\ payload'[q] = NoPayload)
          /\ UNCHANGED <<rec, legacy, shared, others, agents>>
          /\ Done
      BY <1>0, <2>1, <2>2, CommandGoes DEF Prune, At
    <2>4. NothingForeign'
      BY <1>0, <1>1, <2>3 DEF ZcodeInv, NothingForeign, NoPayload, Done, Ends
    <2>5. Editions'
      BY <1>0, <1>1, <2>3, EditionsDone DEF ZcodeInv, ZcodeAdding, DirReady, NoPayload
    <2> QED
      BY <1>0, <1>1, <2>3, <2>4, <2>5 DEF ZcodeInv, Done, Ends
  <1> QED
    BY <1>0, <1>8, <1>7, <1>6, <1>5, <1>4, <1>3, <1>2, <1>1

LEMMA ZcodeRemoveStep ==
    ASSUME PluginTyped, ZcodeInv, host = "zcode", CmdStep, Removing
    PROVE  ZcodeInv'
  <1>0. /\ Busy /\ job.op = "remove" /\ job.rel = packaged /\ packaged \in 1 .. LastRelease
        /\ Removing /\ ~Adding
        /\ payload \in [0 .. LastRelease -> [part : Parts, rel : 0 .. LastRelease]]
        /\ rec \in [active : 0 .. LastRelease, market : 0 .. LastRelease, known : {"none", "ours"},
                     switch : {"none", "on", "off"}, cached : 0 .. LastRelease]
        /\ StepsLeft \in 1 .. 4 /\ UNCHANGED <<host, packaged, meanwhile>>
        /\ job.full \in BOOLEAN /\ 0 \in 0 .. LastRelease /\ 1 \in 0 .. LastRelease
        /\ packaged \in 0 .. LastRelease
    BY ZcodeRemoveTurn, Running DEF Adding, Removing
  <1>4. CASE StepsLeft = 4
    <2>1. ZcodeRecords /\ Head(job.todo).do = "forget"
      BY <1>0, <1>4, ZcodeRemoveTurn
    <2>2. Goes \/ Done => Goes
      BY <1>4 DEF Goes, Done
    <2>3. /\ UNCHANGED payload
          /\ rec' = IF shared = "broken" THEN rec ELSE [rec EXCEPT !.known = "none"]
          /\ UNCHANGED <<legacy, shared, others, agents>>
          /\ Goes
      BY <1>0, <2>1, <2>2, CommandGoes DEF ZcodeRecords, At
    <2>4. NothingForeign'
      BY <1>0, <1>4, <2>3 DEF ZcodeInv, NothingForeign, NoPayload, Goes, Same
    <2>5. Editions'
      BY <1>0, <1>4, <2>3, EditionsSame DEF ZcodeInv, ZcodeRemoving, NoPayload
    <2>6. ZcodeRemoving'
      BY <1>0, <1>4, <2>3 DEF ZcodeInv, ZcodeRemoving, Emptied, NoPayload, Goes, Same
    <2> QED
      BY <1>0, <1>4, <2>3, <2>4, <2>5, <2>6 DEF ZcodeInv, Goes, Same
  <1>3. CASE StepsLeft = 3
    <2>1. RemoveCache /\ Head(job.todo).do = "rmcache"
      BY <1>0, <1>3, ZcodeRemoveTurn
    <2>2. Goes \/ Done => Goes
      BY <1>3 DEF Goes, Done
    <2>3. /\ payload' = [q \in DOMAIN payload |-> NoPayload]
          /\ UNCHANGED <<rec, legacy, shared, others, agents>>
          /\ Goes
      BY <1>0, <2>1, <2>2, CommandGoes DEF RemoveCache, At
    <2>4. \A q \in 0 .. LastRelease : payload'[q] = NoPayload
      BY <1>0, <2>3
    <2>5. NothingForeign'
      BY <1>0, <1>3, <2>3, <2>4 DEF ZcodeInv, NothingForeign, NoPayload, Goes, Same
    <2>6. Editions'
      BY <1>0, <1>3, <2>3, <2>4, EditionsGone DEF ZcodeInv, ZcodeRemoving, NoPayload
    <2>7. ZcodeRemoving'
      BY <1>0, <1>3, <2>3, <2>4 DEF ZcodeInv, ZcodeRemoving, Emptied, NoPayload, Goes, Same
    <2> QED
      BY <1>0, <1>3, <2>3, <2>4, <2>5, <2>6, <2>7 DEF ZcodeInv, Goes, Same
  <1>2. CASE StepsLeft = 2
    <2>1. ZcodeRecords /\ Head(job.todo).do = "rmmarket"
      BY <1>0, <1>2, ZcodeRemoveTurn
    <2>2. Goes \/ Done => Goes
      BY <1>2 DEF Goes, Done
    <2>3. /\ UNCHANGED payload
          /\ rec' = [rec EXCEPT !.market = 0]
          /\ UNCHANGED <<legacy, shared, others, agents>>
          /\ Goes
      BY <1>0, <2>1, <2>2, CommandGoes DEF ZcodeRecords, At
    <2>4. NothingForeign'
      BY <1>0, <1>2, <2>3 DEF ZcodeInv, NothingForeign, NoPayload, Goes, Same
    <2>5. Editions'
      BY <1>0, <1>2, <2>3, EditionsSame DEF ZcodeInv, ZcodeRemoving, NoPayload
    <2>6. ZcodeRemoving'
      BY <1>0, <1>2, <2>3 DEF ZcodeInv, ZcodeRemoving, Emptied, NoPayload, Goes, Same
    <2> QED
      BY <1>0, <1>2, <2>3, <2>4, <2>5, <2>6 DEF ZcodeInv, Goes, Same
  <1>1. CASE StepsLeft = 1
    <2>1. ZcodeRecords /\ Head(job.todo).do = "rmactive"
      BY <1>0, <1>1, ZcodeRemoveTurn
    <2>2. Goes \/ Done => Done
      BY <1>1 DEF Goes, Done
    <2>3. /\ UNCHANGED payload
          /\ rec' = [rec EXCEPT !.active = 0]
          /\ UNCHANGED <<legacy, shared, others, agents>>
          /\ Done
      BY <1>0, <2>1, <2>2, CommandGoes DEF ZcodeRecords, At
    <2>4. NothingForeign'
      BY <1>0, <1>1, <2>3 DEF ZcodeInv, NothingForeign, NoPayload, Done, Ends
    <2>5. Editions'
      BY <1>0, <1>1, <2>3, EditionsDone DEF ZcodeInv, ZcodeRemoving, Emptied, NoPayload
    <2> QED
      BY <1>0, <1>1, <2>3, <2>4, <2>5 DEF ZcodeInv, Done, Ends
  <1> QED
    BY <1>0, <1>4, <1>3, <1>2, <1>1

\* qoder: a step that fails, an add, one that reuses the edition, a remove.
LEMMA QoderStops ==
    ASSUME PluginTyped, QoderInv, StepFails, UNCHANGED <<host, packaged, rec>>,
           \A p \in 0 .. LastRelease : payload'[p].part = "foreign" => payload[p].part = "foreign",
           \A r \in 1 .. LastRelease : payload'[r] = payload[r] \/ r \in cut',
           OnlyAt(1 .. packaged)', Adding => job.rel = packaged
    PROVE  QoderInv'
  <1>1. NothingForeign'
    BY DEF QoderInv, NothingForeign
  <1>2. Editions'
    BY DEF QoderInv, Editions, StepFails, Adding
  <1>3. QoderRecorded'
    <2>1. packaged \in 1 .. LastRelease
      BY DEF PluginTyped
    <2>2. payload'[packaged] = payload[packaged] \/ packaged \in cut'
      BY <2>1
    <2> QED
      BY <2>2 DEF QoderInv, QoderRecorded, StepFails, Adding
  <1> QED
    BY <1>1, <1>2, <1>3 DEF QoderInv, StepFails, Ends

LEMMA QoderAddStep ==
    ASSUME PluginTyped, QoderInv, host = "qoder", CmdStep, Adding, job.full
    PROVE  QoderInv'
  <1>0. /\ Busy /\ job.op = "add" /\ job.rel = packaged /\ packaged \in 1 .. LastRelease
        /\ Adding /\ ~Removing
        /\ payload \in [0 .. LastRelease -> [part : Parts, rel : 0 .. LastRelease]]
        /\ rec \in [active : 0 .. LastRelease, market : 0 .. LastRelease, known : {"none", "ours"},
                     switch : {"none", "on", "off"}, cached : 0 .. LastRelease]
        /\ StepsLeft \in 1 .. 7 /\ UNCHANGED <<host, packaged, meanwhile>>
        /\ job.full \in BOOLEAN /\ 0 \in 0 .. LastRelease /\ 1 \in 0 .. LastRelease
        /\ packaged \in 0 .. LastRelease
    BY QoderAddTurn, Running DEF Adding, Removing
  <1>7. CASE StepsLeft = 7
    <2>1. Wipe /\ Here = packaged /\ Head(job.todo).do = "wipe"
      BY <1>0, <1>7, QoderAddTurn
    <2>2. Goes \/ Done => Goes
      BY <1>7 DEF Goes, Done
    <2>3. /\ payload' = [payload EXCEPT ![packaged] = NoPayload]
          /\ UNCHANGED <<rec, legacy, shared, others, agents>>
          /\ Goes
      BY <1>0, <2>1, <2>2, CommandGoes DEF Wipe, At
    <2>4. /\ \A q \in 0 .. LastRelease : q = packaged \/ payload'[q] = payload[q]
         /\ payload'[packaged] = NoPayload
      BY <1>0, <2>3
    <2>5. NothingForeign'
      BY <1>0, <1>7, <2>3, <2>4 DEF QoderInv, NothingForeign, NoPayload, Goes, Same
    <2>6. Editions'
      BY <1>0, <1>7, <2>3, <2>4, EditionsGo DEF QoderInv, QoderAdding, DirReady, NoPayload
    <2>7. OnlyAt(1 .. packaged)'
      BY <1>0, <1>7, <2>3, <2>4 DEF QoderInv, OnlyAt, NoPayload, Goes, Same
    <2>8. QoderRecorded'
      BY <1>0, <1>7, <2>3, <2>4
         DEF QoderInv, QoderRecorded, QoderAdding, DirReady, NoPayload, Goes, Same
    <2>9. QoderAdding'
      BY <1>0, <1>7, <2>3, <2>4 DEF QoderInv, QoderAdding, DirReady, NoPayload, Goes, Same
    <2> QED
      BY <1>0, <1>7, <2>3, <2>4, <2>5, <2>6, <2>7, <2>8, <2>9 DEF QoderInv, Goes, Same
  <1>6. CASE StepsLeft = 6
    <2>1. Copy /\ Here = packaged /\ Head(job.todo).do = "copy"
      BY <1>0, <1>6, QoderAddTurn
    <2>2. Goes \/ Done => Goes
      BY <1>6 DEF Goes, Done
    <2>3. /\ \E r \in {0, packaged} : payload' =
             [payload EXCEPT ![packaged] = [part |-> "bundled", rel |-> r]]
          /\ UNCHANGED <<rec, legacy, shared, others, agents>>
          /\ Goes
      BY <1>0, <2>1, <2>2, CommandGoes DEF Copy, At
    <2>4. /\ \A q \in 0 .. LastRelease : q = packaged \/ payload'[q] = payload[q]
         /\ payload'[packaged].part = "bundled" /\ payload'[packaged].rel \in {0, packaged}
      BY <1>0, <2>3
    <2>5. NothingForeign'
      BY <1>0, <1>6, <2>3, <2>4 DEF QoderInv, NothingForeign, NoPayload, Goes, Same
    <2>6. Editions'
      BY <1>0, <1>6, <2>3, <2>4, EditionsGo DEF QoderInv, QoderAdding, DirReady, NoPayload
    <2>7. OnlyAt(1 .. packaged)'
      BY <1>0, <1>6, <2>3, <2>4 DEF QoderInv, OnlyAt, NoPayload, Goes, Same
    <2>8. QoderRecorded'
      BY <1>0, <1>6, <2>3, <2>4
         DEF QoderInv, QoderRecorded, QoderAdding, DirReady, NoPayload, Goes, Same
    <2>9. QoderAdding'
      BY <1>0, <1>6, <2>3, <2>4 DEF QoderInv, QoderAdding, DirReady, NoPayload, Goes, Same
    <2> QED
      BY <1>0, <1>6, <2>3, <2>4, <2>5, <2>6, <2>7, <2>8, <2>9 DEF QoderInv, Goes, Same
  <1>5. CASE StepsLeft = 5
    <2>1. Stamp /\ Here = packaged /\ Head(job.todo).do = "stamp"
      BY <1>0, <1>5, QoderAddTurn
    <2>2. Goes \/ Done => Goes
      BY <1>5 DEF Goes, Done
    <2>3. \/ /\ payload' = [payload EXCEPT ![packaged].rel = packaged]
             /\ UNCHANGED <<rec, legacy, shared, others, agents>>
             /\ Goes
          \/ UNCHANGED <<payload, rec, agents>> /\ StepFails
      BY <1>0, <2>1, <2>2, CommandGoes DEF Stamp, At
    <2>4. CASE UNCHANGED <<payload, rec, agents>> /\ StepFails
      BY <1>0, <2>4, QoderStops DEF QoderInv, OnlyAt
    <2>5. CASE /\ payload' = [payload EXCEPT ![packaged].rel = packaged]
               /\ UNCHANGED <<rec, legacy, shared, others, agents>>
               /\ Goes
      <3>1. /\ \A q \in 0 .. LastRelease : q = packaged \/ payload'[q] = payload[q]
           /\ payload'[packaged] = [part |-> payload[packaged].part, rel |-> packaged]
        BY <1>0, <2>5
      <3>2. NothingForeign'
        BY <1>0, <1>5, <2>5, <3>1 DEF QoderInv, NothingForeign, NoPayload, Goes, Same
      <3>3. Editions'
        BY <1>0, <1>5, <2>5, <3>1, EditionsGo DEF QoderInv, QoderAdding, DirReady, NoPayload
      <3>4. OnlyAt(1 .. packaged)'
        BY <1>0, <1>5, <2>5, <3>1 DEF QoderInv, OnlyAt, NoPayload, Goes, Same
      <3>5. QoderRecorded'
        BY <1>0, <1>5, <2>5, <3>1
           DEF QoderInv, QoderRecorded, QoderAdding, DirReady, NoPayload, Goes, Same
      <3>6. QoderAdding'
        BY <1>0, <1>5, <2>5, <3>1 DEF QoderInv, QoderAdding, DirReady, NoPayload, Goes, Same
      <3> QED
        BY <1>0, <1>5, <2>5, <3>1, <3>2, <3>3, <3>4, <3>5, <3>6 DEF QoderInv, Goes, Same
    <2> QED
      BY <2>3, <2>4, <2>5
  <1>4. CASE StepsLeft = 4
    <2>1. SyncAgents /\ Head(job.todo).do = "agents"
      BY <1>0, <1>4, QoderAddTurn
    <2>2. Goes \/ Done => Goes
      BY <1>4 DEF Goes, Done
    <2>3. \/ /\ UNCHANGED payload
             /\ UNCHANGED <<rec, legacy, shared, others>>
             /\ Goes
          \/ UNCHANGED <<payload, rec, agents>> /\ StepFails
      BY <1>0, <2>1, <2>2, CommandGoes DEF SyncAgents, At
    <2>4. CASE UNCHANGED <<payload, rec, agents>> /\ StepFails
      BY <1>0, <2>4, QoderStops DEF QoderInv, OnlyAt
    <2>5. CASE /\ UNCHANGED payload
               /\ UNCHANGED <<rec, legacy, shared, others>>
               /\ Goes
      <3>1. NothingForeign'
        BY <1>0, <1>4, <2>5 DEF QoderInv, NothingForeign, NoPayload, Goes, Same
      <3>2. Editions'
        BY <1>0, <1>4, <2>5, EditionsSame DEF QoderInv, QoderAdding, DirReady, NoPayload
      <3>3. OnlyAt(1 .. packaged)'
        BY <1>0, <1>4, <2>5 DEF QoderInv, OnlyAt, NoPayload, Goes, Same
      <3>4. QoderRecorded'
        BY <1>0, <1>4, <2>5
           DEF QoderInv, QoderRecorded, QoderAdding, DirReady, NoPayload, Goes, Same
      <3>5. QoderAdding'
        BY <1>0, <1>4, <2>5 DEF QoderInv, QoderAdding, DirReady, NoPayload, Goes, Same
      <3> QED
        BY <1>0, <1>4, <2>5, <3>1, <3>2, <3>3, <3>4, <3>5 DEF QoderInv, Goes, Same
    <2> QED
      BY <2>3, <2>4, <2>5
  <1>3. CASE StepsLeft = 3
    <2>1. StripBundled /\ Here = packaged /\ Head(job.todo).do = "strip"
      BY <1>0, <1>3, QoderAddTurn
    <2>2. Goes \/ Done => Goes
      BY <1>3 DEF Goes, Done
    <2>3. /\ payload' = [payload EXCEPT ![packaged].part = IF @ = "bundled" THEN "whole" ELSE @]
          /\ UNCHANGED <<rec, legacy, shared, others, agents>>
          /\ Goes
      BY <1>0, <2>1, <2>2, CommandGoes DEF StripBundled, At
    <2>4. /\ \A q \in 0 .. LastRelease : q = packaged \/ payload'[q] = payload[q]
         /\ payload'[packaged] = [part |-> IF payload[packaged].part = "bundled" THEN "whole"
                                            ELSE payload[packaged].part,
                           rel |-> payload[packaged].rel]
      BY <1>0, <2>3
    <2>5. NothingForeign'
      BY <1>0, <1>3, <2>3, <2>4 DEF QoderInv, NothingForeign, NoPayload, Goes, Same
    <2>6. Editions'
      BY <1>0, <1>3, <2>3, <2>4, EditionsGo DEF QoderInv, QoderAdding, DirReady, NoPayload
    <2>7. OnlyAt(1 .. packaged)'
      BY <1>0, <1>3, <2>3, <2>4 DEF QoderInv, OnlyAt, NoPayload, Goes, Same
    <2>8. QoderRecorded'
      BY <1>0, <1>3, <2>3, <2>4
         DEF QoderInv, QoderRecorded, QoderAdding, DirReady, NoPayload, Goes, Same
    <2>9. QoderAdding'
      BY <1>0, <1>3, <2>3, <2>4 DEF QoderInv, QoderAdding, DirReady, NoPayload, Goes, Same
    <2> QED
      BY <1>0, <1>3, <2>3, <2>4, <2>5, <2>6, <2>7, <2>8, <2>9 DEF QoderInv, Goes, Same
  <1>2. CASE StepsLeft = 2
    <2>1. QoderRecords /\ Head(job.todo).do = "register"
      BY <1>0, <1>2, QoderAddTurn
    <2>2. Goes \/ Done => Goes
      BY <1>2 DEF Goes, Done
    <2>3. /\ UNCHANGED payload
          /\ rec' = [rec EXCEPT !.active = packaged]
          /\ UNCHANGED <<legacy, agents>>
          /\ Goes
      BY <1>0, <2>1, <2>2, CommandGoes DEF QoderRecords, At, WriteRegistry, WriteSettings
    <2>4. NothingForeign'
      BY <1>0, <1>2, <2>3 DEF QoderInv, NothingForeign, NoPayload, Goes, Same
    <2>5. Editions'
      BY <1>0, <1>2, <2>3, EditionsSame DEF QoderInv, QoderAdding, DirReady, NoPayload
    <2>6. OnlyAt(1 .. packaged)'
      BY <1>0, <1>2, <2>3 DEF QoderInv, OnlyAt, NoPayload, Goes, Same
    <2>7. QoderRecorded'
      BY <1>0, <1>2, <2>3
         DEF QoderInv, QoderRecorded, QoderAdding, DirReady, NoPayload, Goes, Same
    <2>8. QoderAdding'
      BY <1>0, <1>2, <2>3 DEF QoderInv, QoderAdding, DirReady, NoPayload, Goes, Same
    <2> QED
      BY <1>0, <1>2, <2>3, <2>4, <2>5, <2>6, <2>7, <2>8 DEF QoderInv, Goes, Same
  <1>1. CASE StepsLeft = 1
    <2>1. QoderRecords /\ Head(job.todo).do = "enable"
      BY <1>0, <1>1, QoderAddTurn
    <2>2. Goes \/ Done => Done
      BY <1>1 DEF Goes, Done
    <2>3. /\ UNCHANGED payload
          /\ rec' = [rec EXCEPT !.switch = "on"]
          /\ UNCHANGED <<legacy, agents>>
          /\ Done
      BY <1>0, <2>1, <2>2, CommandGoes DEF QoderRecords, At, WriteRegistry, WriteSettings
    <2>4. NothingForeign'
      BY <1>0, <1>1, <2>3 DEF QoderInv, NothingForeign, NoPayload, Done, Ends
    <2>5. Editions'
      BY <1>0, <1>1, <2>3, EditionsDone DEF QoderInv, QoderAdding, DirReady, NoPayload
    <2>6. OnlyAt(1 .. packaged)'
      BY <1>0, <1>1, <2>3 DEF QoderInv, OnlyAt, NoPayload, Done, Ends
    <2>7. QoderRecorded'
      BY <1>0, <1>1, <2>3
         DEF QoderInv, QoderRecorded, QoderAdding, DirReady, NoPayload, Done, Ends
    <2> QED
      BY <1>0, <1>1, <2>3, <2>4, <2>5, <2>6, <2>7 DEF QoderInv, Done, Ends
  <1> QED
    BY <1>0, <1>7, <1>6, <1>5, <1>4, <1>3, <1>2, <1>1

LEMMA QoderReuseStep ==
    ASSUME PluginTyped, QoderInv, host = "qoder", CmdStep, Adding, ~job.full
    PROVE  QoderInv'
  <1>0. /\ Busy /\ job.op = "add" /\ job.rel = packaged /\ packaged \in 1 .. LastRelease
        /\ Adding /\ ~Removing
        /\ payload \in [0 .. LastRelease -> [part : Parts, rel : 0 .. LastRelease]]
        /\ rec \in [active : 0 .. LastRelease, market : 0 .. LastRelease, known : {"none", "ours"},
                     switch : {"none", "on", "off"}, cached : 0 .. LastRelease]
        /\ StepsLeft \in 1 .. 2 /\ UNCHANGED <<host, packaged, meanwhile>>
        /\ job.full \in BOOLEAN /\ 0 \in 0 .. LastRelease /\ 1 \in 0 .. LastRelease
        /\ packaged \in 0 .. LastRelease
    BY QoderReuseTurn, Running DEF Adding, Removing
  <1>2. CASE StepsLeft = 2
    <2>1. SyncAgents /\ Head(job.todo).do = "agents"
      BY <1>0, <1>2, QoderReuseTurn
    <2>2. Goes \/ Done => Goes
      BY <1>2 DEF Goes, Done
    <2>3. \/ /\ UNCHANGED payload
             /\ UNCHANGED <<rec, legacy, shared, others>>
             /\ Goes
          \/ UNCHANGED <<payload, rec, agents>> /\ StepFails
      BY <1>0, <2>1, <2>2, CommandGoes DEF SyncAgents, At
    <2>4. CASE UNCHANGED <<payload, rec, agents>> /\ StepFails
      BY <1>0, <2>4, QoderStops DEF QoderInv, OnlyAt
    <2>5. CASE /\ UNCHANGED payload
               /\ UNCHANGED <<rec, legacy, shared, others>>
               /\ Goes
      <3>1. NothingForeign'
        BY <1>0, <1>2, <2>5 DEF QoderInv, NothingForeign, NoPayload, Goes, Same
      <3>2. Editions'
        BY <1>0, <1>2, <2>5, EditionsSame DEF QoderInv, QoderReusing, DirReady, NoPayload
      <3>3. OnlyAt(1 .. packaged)'
        BY <1>0, <1>2, <2>5 DEF QoderInv, OnlyAt, NoPayload, Goes, Same
      <3>4. QoderRecorded'
        BY <1>0, <1>2, <2>5
           DEF QoderInv, QoderRecorded, QoderReusing, DirReady, NoPayload, Goes, Same
      <3>5. QoderReusing'
        BY <1>0, <1>2, <2>5 DEF QoderInv, QoderReusing, DirReady, NoPayload, Goes, Same
      <3> QED
        BY <1>0, <1>2, <2>5, <3>1, <3>2, <3>3, <3>4, <3>5 DEF QoderInv, Goes, Same
    <2> QED
      BY <2>3, <2>4, <2>5
  <1>1. CASE StepsLeft = 1
    <2>1. StripBundled /\ Here = packaged /\ Head(job.todo).do = "strip"
      BY <1>0, <1>1, QoderReuseTurn
    <2>2. Goes \/ Done => Done
      BY <1>1 DEF Goes, Done
    <2>3. /\ payload' = [payload EXCEPT ![packaged].part = IF @ = "bundled" THEN "whole" ELSE @]
          /\ UNCHANGED <<rec, legacy, shared, others, agents>>
          /\ Done
      BY <1>0, <2>1, <2>2, CommandGoes DEF StripBundled, At
    <2>4. /\ \A q \in 0 .. LastRelease : q = packaged \/ payload'[q] = payload[q]
         /\ payload'[packaged] = [part |-> IF payload[packaged].part = "bundled" THEN "whole"
                                            ELSE payload[packaged].part,
                           rel |-> payload[packaged].rel]
      BY <1>0, <2>3
    <2>5. NothingForeign'
      BY <1>0, <1>1, <2>3, <2>4 DEF QoderInv, NothingForeign, NoPayload, Done, Ends
    <2>6. Editions'
      BY <1>0, <1>1, <2>3, <2>4, EditionsDone DEF QoderInv, QoderReusing, DirReady, NoPayload
    <2>7. OnlyAt(1 .. packaged)'
      BY <1>0, <1>1, <2>3, <2>4 DEF QoderInv, OnlyAt, NoPayload, Done, Ends
    <2>8. QoderRecorded'
      BY <1>0, <1>1, <2>3, <2>4
         DEF QoderInv, QoderRecorded, QoderReusing, DirReady, NoPayload, Done, Ends
    <2> QED
      BY <1>0, <1>1, <2>3, <2>4, <2>5, <2>6, <2>7, <2>8 DEF QoderInv, Done, Ends
  <1> QED
    BY <1>0, <1>2, <1>1

LEMMA QoderRemoveStep ==
    ASSUME PluginTyped, QoderInv, host = "qoder", CmdStep, Removing
    PROVE  QoderInv'
  <1>0. /\ Busy /\ job.op = "remove" /\ job.rel = packaged /\ packaged \in 1 .. LastRelease
        /\ Removing /\ ~Adding
        /\ payload \in [0 .. LastRelease -> [part : Parts, rel : 0 .. LastRelease]]
        /\ rec \in [active : 0 .. LastRelease, market : 0 .. LastRelease, known : {"none", "ours"},
                     switch : {"none", "on", "off"}, cached : 0 .. LastRelease]
        /\ StepsLeft \in 1 .. 4 /\ UNCHANGED <<host, packaged, meanwhile>>
        /\ job.full \in BOOLEAN /\ 0 \in 0 .. LastRelease /\ 1 \in 0 .. LastRelease
        /\ packaged \in 0 .. LastRelease
    BY QoderRemoveTurn, Running DEF Adding, Removing
  <1>4. CASE StepsLeft = 4
    <2>1. QoderRecords /\ Head(job.todo).do = "unregister"
      BY <1>0, <1>4, QoderRemoveTurn
    <2>2. Goes \/ Done => Goes
      BY <1>4 DEF Goes, Done
    <2>3. /\ UNCHANGED payload
          /\ rec' = IF job.view.active # 0 THEN [rec EXCEPT !.active = 0] ELSE rec
          /\ UNCHANGED <<legacy, agents>>
          /\ Goes
      BY <1>0, <2>1, <2>2, CommandGoes DEF QoderRecords, At, WriteRegistry, WriteSettings
    <2>4. NothingForeign'
      BY <1>0, <1>4, <2>3 DEF QoderInv, NothingForeign, NoPayload, Goes, Same
    <2>5. Editions'
      BY <1>0, <1>4, <2>3, EditionsSame DEF QoderInv, QoderRemoving, Emptied, NoPayload
    <2>6. OnlyAt(1 .. packaged)'
      BY <1>0, <1>4, <2>3 DEF QoderInv, OnlyAt, NoPayload, Goes, Same
    <2>7. QoderRecorded'
      BY <1>0, <1>4, <2>3
         DEF QoderInv, QoderRecorded, QoderRemoving, Emptied, NoPayload, Goes, Same
    <2>8. QoderRemoving'
      BY <1>0, <1>4, <2>3 DEF QoderInv, QoderRemoving, Emptied, NoPayload, Goes, Same
    <2> QED
      BY <1>0, <1>4, <2>3, <2>4, <2>5, <2>6, <2>7, <2>8 DEF QoderInv, Goes, Same
  <1>3. CASE StepsLeft = 3
    <2>1. QoderRecords /\ Head(job.todo).do = "disable"
      BY <1>0, <1>3, QoderRemoveTurn
    <2>2. Goes \/ Done => Goes
      BY <1>3 DEF Goes, Done
    <2>3. /\ UNCHANGED payload
          /\ rec' = IF rec.switch # "none" THEN [rec EXCEPT !.switch = "none"] ELSE rec
          /\ UNCHANGED <<legacy, agents>>
          /\ Goes
      BY <1>0, <2>1, <2>2, CommandGoes DEF QoderRecords, At, WriteRegistry, WriteSettings
    <2>4. NothingForeign'
      BY <1>0, <1>3, <2>3 DEF QoderInv, NothingForeign, NoPayload, Goes, Same
    <2>5. Editions'
      BY <1>0, <1>3, <2>3, EditionsSame DEF QoderInv, QoderRemoving, Emptied, NoPayload
    <2>6. OnlyAt(1 .. packaged)'
      BY <1>0, <1>3, <2>3 DEF QoderInv, OnlyAt, NoPayload, Goes, Same
    <2>7. QoderRecorded'
      BY <1>0, <1>3, <2>3
         DEF QoderInv, QoderRecorded, QoderRemoving, Emptied, NoPayload, Goes, Same
    <2>8. QoderRemoving'
      BY <1>0, <1>3, <2>3 DEF QoderInv, QoderRemoving, Emptied, NoPayload, Goes, Same
    <2> QED
      BY <1>0, <1>3, <2>3, <2>4, <2>5, <2>6, <2>7, <2>8 DEF QoderInv, Goes, Same
  <1>2. CASE StepsLeft = 2
    <2>1. RemoveCache /\ Head(job.todo).do = "rmcache"
      BY <1>0, <1>2, QoderRemoveTurn
    <2>2. Goes \/ Done => Goes
      BY <1>2 DEF Goes, Done
    <2>3. /\ payload' = [q \in DOMAIN payload |-> NoPayload]
          /\ UNCHANGED <<rec, legacy, shared, others, agents>>
          /\ Goes
      BY <1>0, <2>1, <2>2, CommandGoes DEF RemoveCache, At
    <2>4. \A q \in 0 .. LastRelease : payload'[q] = NoPayload
      BY <1>0, <2>3
    <2>5. NothingForeign'
      BY <1>0, <1>2, <2>3, <2>4 DEF QoderInv, NothingForeign, NoPayload, Goes, Same
    <2>6. Editions'
      BY <1>0, <1>2, <2>3, <2>4, EditionsGone DEF QoderInv, QoderRemoving, Emptied, NoPayload
    <2>7. OnlyAt(1 .. packaged)'
      BY <1>0, <1>2, <2>3, <2>4 DEF QoderInv, OnlyAt, NoPayload, Goes, Same
    <2>8. QoderRecorded'
      BY <1>0, <1>2, <2>3, <2>4
         DEF QoderInv, QoderRecorded, QoderRemoving, Emptied, NoPayload, Goes, Same
    <2>9. QoderRemoving'
      BY <1>0, <1>2, <2>3, <2>4 DEF QoderInv, QoderRemoving, Emptied, NoPayload, Goes, Same
    <2> QED
      BY <1>0, <1>2, <2>3, <2>4, <2>5, <2>6, <2>7, <2>8, <2>9 DEF QoderInv, Goes, Same
  <1>1. CASE StepsLeft = 1
    <2>1. RemoveAgents /\ Head(job.todo).do = "rmagents"
      BY <1>0, <1>1, QoderRemoveTurn
    <2>2. Goes \/ Done => Done
      BY <1>1 DEF Goes, Done
    <2>3. /\ UNCHANGED payload
          /\ agents' = IF agents = "managed" THEN "none" ELSE agents
          /\ UNCHANGED <<rec, legacy, shared, others>>
          /\ Done
      BY <1>0, <2>1, <2>2, CommandGoes DEF RemoveAgents, At
    <2>4. NothingForeign'
      BY <1>0, <1>1, <2>3 DEF QoderInv, NothingForeign, NoPayload, Done, Ends
    <2>5. Editions'
      BY <1>0, <1>1, <2>3, EditionsDone DEF QoderInv, QoderRemoving, Emptied, NoPayload
    <2>6. OnlyAt(1 .. packaged)'
      BY <1>0, <1>1, <2>3 DEF QoderInv, OnlyAt, NoPayload, Done, Ends
    <2>7. QoderRecorded'
      BY <1>0, <1>1, <2>3
         DEF QoderInv, QoderRecorded, QoderRemoving, Emptied, NoPayload, Done, Ends
    <2> QED
      BY <1>0, <1>1, <2>3, <2>4, <2>5, <2>6, <2>7 DEF QoderInv, Done, Ends
  <1> QED
    BY <1>0, <1>4, <1>3, <1>2, <1>1

\* kimi-code.
LEMMA KimiStops ==
    ASSUME KimiInv, StepFails, UNCHANGED <<host, agents>>, OnlyAt({0, 1})'
    PROVE  KimiInv'
  BY DEF KimiInv, StepFails, Ends

LEMMA KimiAddStep ==
    ASSUME PluginTyped, KimiInv, host = "kimi-code", CmdStep, Adding
    PROVE  KimiInv'
  <1>0. /\ Busy /\ job.op = "add" /\ job.rel = packaged /\ packaged \in 1 .. LastRelease
        /\ Adding /\ ~Removing
        /\ payload \in [0 .. LastRelease -> [part : Parts, rel : 0 .. LastRelease]]
        /\ rec \in [active : 0 .. LastRelease, market : 0 .. LastRelease, known : {"none", "ours"},
                     switch : {"none", "on", "off"}, cached : 0 .. LastRelease]
        /\ StepsLeft \in 1 .. 9 /\ UNCHANGED <<host, packaged, meanwhile>>
        /\ job.full \in BOOLEAN /\ 0 \in 0 .. LastRelease /\ 1 \in 0 .. LastRelease
        /\ packaged \in 0 .. LastRelease
    BY KimiAddTurn, Running DEF Adding, Removing
  <1>9. CASE StepsLeft = 9
    <2>1. Guard /\ Here = 0 /\ Head(job.todo).do = "guard"
      BY <1>0, <1>9, KimiAddTurn
    <2>2. Goes \/ Done => Goes
      BY <1>9 DEF Goes, Done
    <2>3. \/ /\ UNCHANGED payload
             /\ UNCHANGED <<rec, legacy, shared, others, agents>>
             /\ NotForeign(0)
             /\ Goes
          \/ UNCHANGED <<payload, rec, agents>> /\ StepFails
      BY <1>0, <2>1, <2>2, CommandGoes, GuardIs
         DEF Guard, NotForeign, Named, KeptAsIs, pluginFiles
    <2>4. CASE UNCHANGED <<payload, rec, agents>> /\ StepFails
      BY <1>0, <2>4, KimiStops DEF KimiInv, OnlyAt
    <2>5. CASE /\ UNCHANGED payload
               /\ UNCHANGED <<rec, legacy, shared, others, agents>>
               /\ NotForeign(0)
               /\ Goes
      <3>1. OnlyAt({0, 1})'
        BY <1>0, <1>9, <2>5 DEF KimiInv, OnlyAt, NoPayload, Goes, Same
      <3>2. KimiAdding'
        BY <1>0, <1>9, <2>5 DEF KimiInv, KimiAdding, DirReady, NotForeign, NoPayload, Goes, Same
      <3> QED
        BY <1>0, <1>9, <2>5, <3>1, <3>2 DEF KimiInv, Goes, Same
    <2> QED
      BY <2>3, <2>4, <2>5
  <1>8. CASE StepsLeft = 8
    <2>1. Wipe /\ Here = 0 /\ Head(job.todo).do = "wipe"
      BY <1>0, <1>8, KimiAddTurn
    <2>2. Goes \/ Done => Goes
      BY <1>8 DEF Goes, Done
    <2>3. /\ payload' = [payload EXCEPT ![0] = NoPayload]
          /\ UNCHANGED <<rec, legacy, shared, others, agents>>
          /\ Goes
      BY <1>0, <2>1, <2>2, CommandGoes DEF Wipe, At
    <2>4. /\ \A q \in 0 .. LastRelease : q = 0 \/ payload'[q] = payload[q]
         /\ payload'[0] = NoPayload
      BY <1>0, <2>3
    <2>5. OnlyAt({0, 1})'
      BY <1>0, <1>8, <2>3, <2>4 DEF KimiInv, OnlyAt, NoPayload, Goes, Same
    <2>6. KimiAdding'
      BY <1>0, <1>8, <2>3, <2>4
         DEF KimiInv, KimiAdding, DirReady, NotForeign, NoPayload, Goes, Same
    <2> QED
      BY <1>0, <1>8, <2>3, <2>4, <2>5, <2>6 DEF KimiInv, Goes, Same
  <1>7. CASE StepsLeft = 7
    <2>1. Copy /\ Here = 0 /\ Head(job.todo).do = "copy"
      BY <1>0, <1>7, KimiAddTurn
    <2>2. Goes \/ Done => Goes
      BY <1>7 DEF Goes, Done
    <2>3. /\ \E r \in {0, packaged} : payload' =
             [payload EXCEPT ![0] = [part |-> "whole", rel |-> r]]
          /\ UNCHANGED <<rec, legacy, shared, others, agents>>
          /\ Goes
      BY <1>0, <2>1, <2>2, CommandGoes DEF Copy, At
    <2>4. /\ \A q \in 0 .. LastRelease : q = 0 \/ payload'[q] = payload[q]
         /\ payload'[0].part = "whole" /\ payload'[0].rel \in {0, packaged}
      BY <1>0, <2>3
    <2>5. OnlyAt({0, 1})'
      BY <1>0, <1>7, <2>3, <2>4 DEF KimiInv, OnlyAt, NoPayload, Goes, Same
    <2>6. KimiAdding'
      BY <1>0, <1>7, <2>3, <2>4
         DEF KimiInv, KimiAdding, DirReady, NotForeign, NoPayload, Goes, Same
    <2> QED
      BY <1>0, <1>7, <2>3, <2>4, <2>5, <2>6 DEF KimiInv, Goes, Same
  <1>6. CASE StepsLeft = 6
    <2>1. Stamp /\ Here = 0 /\ Head(job.todo).do = "stamp"
      BY <1>0, <1>6, KimiAddTurn
    <2>2. Goes \/ Done => Goes
      BY <1>6 DEF Goes, Done
    <2>3. \/ /\ payload' = [payload EXCEPT ![0].rel = packaged]
             /\ UNCHANGED <<rec, legacy, shared, others, agents>>
             /\ Goes
          \/ UNCHANGED <<payload, rec, agents>> /\ StepFails
      BY <1>0, <2>1, <2>2, CommandGoes DEF Stamp, At
    <2>4. CASE UNCHANGED <<payload, rec, agents>> /\ StepFails
      BY <1>0, <2>4, KimiStops DEF KimiInv, OnlyAt
    <2>5. CASE /\ payload' = [payload EXCEPT ![0].rel = packaged]
               /\ UNCHANGED <<rec, legacy, shared, others, agents>>
               /\ Goes
      <3>1. /\ \A q \in 0 .. LastRelease : q = 0 \/ payload'[q] = payload[q]
           /\ payload'[0] = [part |-> payload[0].part, rel |-> packaged]
        BY <1>0, <2>5
      <3>2. OnlyAt({0, 1})'
        BY <1>0, <1>6, <2>5, <3>1 DEF KimiInv, OnlyAt, NoPayload, Goes, Same
      <3>3. KimiAdding'
        BY <1>0, <1>6, <2>5, <3>1
           DEF KimiInv, KimiAdding, DirReady, NotForeign, NoPayload, Goes, Same
      <3> QED
        BY <1>0, <1>6, <2>5, <3>1, <3>2, <3>3 DEF KimiInv, Goes, Same
    <2> QED
      BY <2>3, <2>4, <2>5
  <1>5. CASE StepsLeft = 5
    <2>1. Guard /\ Here = 1 /\ Head(job.todo).do = "guard"
      BY <1>0, <1>5, KimiAddTurn
    <2>2. Goes \/ Done => Goes
      BY <1>5 DEF Goes, Done
    <2>3. \/ /\ UNCHANGED payload
             /\ UNCHANGED <<rec, legacy, shared, others, agents>>
             /\ NotForeign(1)
             /\ Goes
          \/ UNCHANGED <<payload, rec, agents>> /\ StepFails
      BY <1>0, <2>1, <2>2, CommandGoes, GuardIs
         DEF Guard, NotForeign, Named, KeptAsIs, pluginFiles
    <2>4. CASE UNCHANGED <<payload, rec, agents>> /\ StepFails
      BY <1>0, <2>4, KimiStops DEF KimiInv, OnlyAt
    <2>5. CASE /\ UNCHANGED payload
               /\ UNCHANGED <<rec, legacy, shared, others, agents>>
               /\ NotForeign(1)
               /\ Goes
      <3>1. OnlyAt({0, 1})'
        BY <1>0, <1>5, <2>5 DEF KimiInv, OnlyAt, NoPayload, Goes, Same
      <3>2. KimiAdding'
        BY <1>0, <1>5, <2>5 DEF KimiInv, KimiAdding, DirReady, NotForeign, NoPayload, Goes, Same
      <3> QED
        BY <1>0, <1>5, <2>5, <3>1, <3>2 DEF KimiInv, Goes, Same
    <2> QED
      BY <2>3, <2>4, <2>5
  <1>4. CASE StepsLeft = 4
    <2>1. Wipe /\ Here = 1 /\ Head(job.todo).do = "wipe"
      BY <1>0, <1>4, KimiAddTurn
    <2>2. Goes \/ Done => Goes
      BY <1>4 DEF Goes, Done
    <2>3. /\ payload' = [payload EXCEPT ![1] = NoPayload]
          /\ UNCHANGED <<rec, legacy, shared, others, agents>>
          /\ Goes
      BY <1>0, <2>1, <2>2, CommandGoes DEF Wipe, At
    <2>4. /\ \A q \in 0 .. LastRelease : q = 1 \/ payload'[q] = payload[q]
         /\ payload'[1] = NoPayload
      BY <1>0, <2>3
    <2>5. OnlyAt({0, 1})'
      BY <1>0, <1>4, <2>3, <2>4 DEF KimiInv, OnlyAt, NoPayload, Goes, Same
    <2>6. KimiAdding'
      BY <1>0, <1>4, <2>3, <2>4
         DEF KimiInv, KimiAdding, DirReady, NotForeign, NoPayload, Goes, Same
    <2> QED
      BY <1>0, <1>4, <2>3, <2>4, <2>5, <2>6 DEF KimiInv, Goes, Same
  <1>3. CASE StepsLeft = 3
    <2>1. Copy /\ Here = 1 /\ Head(job.todo).do = "copy"
      BY <1>0, <1>3, KimiAddTurn
    <2>2. Goes \/ Done => Goes
      BY <1>3 DEF Goes, Done
    <2>3. /\ \E r \in {0, packaged} : payload' =
             [payload EXCEPT ![1] = [part |-> "whole", rel |-> r]]
          /\ UNCHANGED <<rec, legacy, shared, others, agents>>
          /\ Goes
      BY <1>0, <2>1, <2>2, CommandGoes DEF Copy, At
    <2>4. /\ \A q \in 0 .. LastRelease : q = 1 \/ payload'[q] = payload[q]
         /\ payload'[1].part = "whole" /\ payload'[1].rel \in {0, packaged}
      BY <1>0, <2>3
    <2>5. OnlyAt({0, 1})'
      BY <1>0, <1>3, <2>3, <2>4 DEF KimiInv, OnlyAt, NoPayload, Goes, Same
    <2>6. KimiAdding'
      BY <1>0, <1>3, <2>3, <2>4
         DEF KimiInv, KimiAdding, DirReady, NotForeign, NoPayload, Goes, Same
    <2> QED
      BY <1>0, <1>3, <2>3, <2>4, <2>5, <2>6 DEF KimiInv, Goes, Same
  <1>2. CASE StepsLeft = 2
    <2>1. Stamp /\ Here = 1 /\ Head(job.todo).do = "stamp"
      BY <1>0, <1>2, KimiAddTurn
    <2>2. Goes \/ Done => Goes
      BY <1>2 DEF Goes, Done
    <2>3. \/ /\ payload' = [payload EXCEPT ![1].rel = packaged]
             /\ UNCHANGED <<rec, legacy, shared, others, agents>>
             /\ Goes
          \/ UNCHANGED <<payload, rec, agents>> /\ StepFails
      BY <1>0, <2>1, <2>2, CommandGoes DEF Stamp, At
    <2>4. CASE UNCHANGED <<payload, rec, agents>> /\ StepFails
      BY <1>0, <2>4, KimiStops DEF KimiInv, OnlyAt
    <2>5. CASE /\ payload' = [payload EXCEPT ![1].rel = packaged]
               /\ UNCHANGED <<rec, legacy, shared, others, agents>>
               /\ Goes
      <3>1. /\ \A q \in 0 .. LastRelease : q = 1 \/ payload'[q] = payload[q]
           /\ payload'[1] = [part |-> payload[1].part, rel |-> packaged]
        BY <1>0, <2>5
      <3>2. OnlyAt({0, 1})'
        BY <1>0, <1>2, <2>5, <3>1 DEF KimiInv, OnlyAt, NoPayload, Goes, Same
      <3>3. KimiAdding'
        BY <1>0, <1>2, <2>5, <3>1
           DEF KimiInv, KimiAdding, DirReady, NotForeign, NoPayload, Goes, Same
      <3> QED
        BY <1>0, <1>2, <2>5, <3>1, <3>2, <3>3 DEF KimiInv, Goes, Same
    <2> QED
      BY <2>3, <2>4, <2>5
  <1>1. CASE StepsLeft = 1
    <2>1. KimiRecord /\ Head(job.todo).do = "record"
      BY <1>0, <1>1, KimiAddTurn
    <2>2. Goes \/ Done => Done
      BY <1>1 DEF Goes, Done
    <2>3. \/ /\ UNCHANGED payload
             /\ UNCHANGED <<legacy, shared, others, agents>>
             /\ Done
          \/ UNCHANGED <<payload, rec, agents>> /\ StepFails
      BY <1>0, <2>1, <2>2, CommandGoes DEF KimiRecord, At
    <2>4. CASE UNCHANGED <<payload, rec, agents>> /\ StepFails
      BY <1>0, <2>4, KimiStops DEF KimiInv, OnlyAt
    <2>5. CASE /\ UNCHANGED payload
               /\ UNCHANGED <<legacy, shared, others, agents>>
               /\ Done
      <3>1. OnlyAt({0, 1})'
        BY <1>0, <1>1, <2>5 DEF KimiInv, OnlyAt, NoPayload, Done, Ends
      <3> QED
        BY <1>0, <1>1, <2>5, <3>1 DEF KimiInv, Done, Ends
    <2> QED
      BY <2>3, <2>4, <2>5
  <1> QED
    BY <1>0, <1>9, <1>8, <1>7, <1>6, <1>5, <1>4, <1>3, <1>2, <1>1

LEMMA KimiRemoveStep ==
    ASSUME PluginTyped, KimiInv, host = "kimi-code", CmdStep, Removing
    PROVE  KimiInv'
  <1>0. /\ Busy /\ job.op = "remove" /\ job.rel = packaged /\ packaged \in 1 .. LastRelease
        /\ Removing /\ ~Adding
        /\ payload \in [0 .. LastRelease -> [part : Parts, rel : 0 .. LastRelease]]
        /\ rec \in [active : 0 .. LastRelease, market : 0 .. LastRelease, known : {"none", "ours"},
                     switch : {"none", "on", "off"}, cached : 0 .. LastRelease]
        /\ StepsLeft \in 1 .. 5 /\ UNCHANGED <<host, packaged, meanwhile>>
        /\ job.full \in BOOLEAN /\ 0 \in 0 .. LastRelease /\ 1 \in 0 .. LastRelease
        /\ packaged \in 0 .. LastRelease
    BY KimiRemoveTurn, Running DEF Adding, Removing
  <1>5. CASE StepsLeft = 5
    <2>1. Guard /\ Here = 1 /\ Head(job.todo).do = "guard"
      BY <1>0, <1>5, KimiRemoveTurn
    <2>2. Goes \/ Done => Goes
      BY <1>5 DEF Goes, Done
    <2>3. \/ /\ UNCHANGED payload
             /\ UNCHANGED <<rec, legacy, shared, others, agents>>
             /\ NotForeign(1)
             /\ Goes
          \/ UNCHANGED <<payload, rec, agents>> /\ StepFails
      BY <1>0, <2>1, <2>2, CommandGoes, GuardIs
         DEF Guard, NotForeign, Named, KeptAsIs, pluginFiles
    <2>4. CASE UNCHANGED <<payload, rec, agents>> /\ StepFails
      BY <1>0, <2>4, KimiStops DEF KimiInv, OnlyAt
    <2>5. CASE /\ UNCHANGED payload
               /\ UNCHANGED <<rec, legacy, shared, others, agents>>
               /\ NotForeign(1)
               /\ Goes
      <3>1. OnlyAt({0, 1})'
        BY <1>0, <1>5, <2>5 DEF KimiInv, OnlyAt, NoPayload, Goes, Same
      <3>2. KimiRemoving'
        BY <1>0, <1>5, <2>5 DEF KimiInv, KimiRemoving, NotForeign, NoPayload, Goes, Same
      <3> QED
        BY <1>0, <1>5, <2>5, <3>1, <3>2 DEF KimiInv, Goes, Same
    <2> QED
      BY <2>3, <2>4, <2>5
  <1>4. CASE StepsLeft = 4
    <2>1. Wipe /\ Here = 1 /\ Head(job.todo).do = "wipe"
      BY <1>0, <1>4, KimiRemoveTurn
    <2>2. Goes \/ Done => Goes
      BY <1>4 DEF Goes, Done
    <2>3. /\ payload' = [payload EXCEPT ![1] = NoPayload]
          /\ UNCHANGED <<rec, legacy, shared, others, agents>>
          /\ Goes
      BY <1>0, <2>1, <2>2, CommandGoes DEF Wipe, At
    <2>4. /\ \A q \in 0 .. LastRelease : q = 1 \/ payload'[q] = payload[q]
         /\ payload'[1] = NoPayload
      BY <1>0, <2>3
    <2>5. OnlyAt({0, 1})'
      BY <1>0, <1>4, <2>3, <2>4 DEF KimiInv, OnlyAt, NoPayload, Goes, Same
    <2>6. KimiRemoving'
      BY <1>0, <1>4, <2>3, <2>4 DEF KimiInv, KimiRemoving, NotForeign, NoPayload, Goes, Same
    <2> QED
      BY <1>0, <1>4, <2>3, <2>4, <2>5, <2>6 DEF KimiInv, Goes, Same
  <1>3. CASE StepsLeft = 3
    <2>1. Guard /\ Here = 0 /\ Head(job.todo).do = "guard"
      BY <1>0, <1>3, KimiRemoveTurn
    <2>2. Goes \/ Done => Goes
      BY <1>3 DEF Goes, Done
    <2>3. \/ /\ UNCHANGED payload
             /\ UNCHANGED <<rec, legacy, shared, others, agents>>
             /\ NotForeign(0)
             /\ Goes
          \/ UNCHANGED <<payload, rec, agents>> /\ StepFails
      BY <1>0, <2>1, <2>2, CommandGoes, GuardIs
         DEF Guard, NotForeign, Named, KeptAsIs, pluginFiles
    <2>4. CASE UNCHANGED <<payload, rec, agents>> /\ StepFails
      BY <1>0, <2>4, KimiStops DEF KimiInv, OnlyAt
    <2>5. CASE /\ UNCHANGED payload
               /\ UNCHANGED <<rec, legacy, shared, others, agents>>
               /\ NotForeign(0)
               /\ Goes
      <3>1. OnlyAt({0, 1})'
        BY <1>0, <1>3, <2>5 DEF KimiInv, OnlyAt, NoPayload, Goes, Same
      <3>2. KimiRemoving'
        BY <1>0, <1>3, <2>5 DEF KimiInv, KimiRemoving, NotForeign, NoPayload, Goes, Same
      <3> QED
        BY <1>0, <1>3, <2>5, <3>1, <3>2 DEF KimiInv, Goes, Same
    <2> QED
      BY <2>3, <2>4, <2>5
  <1>2. CASE StepsLeft = 2
    <2>1. Wipe /\ Here = 0 /\ Head(job.todo).do = "wipe"
      BY <1>0, <1>2, KimiRemoveTurn
    <2>2. Goes \/ Done => Goes
      BY <1>2 DEF Goes, Done
    <2>3. /\ payload' = [payload EXCEPT ![0] = NoPayload]
          /\ UNCHANGED <<rec, legacy, shared, others, agents>>
          /\ Goes
      BY <1>0, <2>1, <2>2, CommandGoes DEF Wipe, At
    <2>4. /\ \A q \in 0 .. LastRelease : q = 0 \/ payload'[q] = payload[q]
         /\ payload'[0] = NoPayload
      BY <1>0, <2>3
    <2>5. OnlyAt({0, 1})'
      BY <1>0, <1>2, <2>3, <2>4 DEF KimiInv, OnlyAt, NoPayload, Goes, Same
    <2>6. KimiRemoving'
      BY <1>0, <1>2, <2>3, <2>4 DEF KimiInv, KimiRemoving, NotForeign, NoPayload, Goes, Same
    <2> QED
      BY <1>0, <1>2, <2>3, <2>4, <2>5, <2>6 DEF KimiInv, Goes, Same
  <1>1. CASE StepsLeft = 1
    <2>1. KimiRecord /\ Head(job.todo).do = "unrecord"
      BY <1>0, <1>1, KimiRemoveTurn
    <2>2. Goes \/ Done => Done
      BY <1>1 DEF Goes, Done
    <2>3. \/ /\ UNCHANGED payload
             /\ UNCHANGED <<legacy, shared, others, agents>>
             /\ Done
          \/ UNCHANGED <<payload, rec, agents>> /\ StepFails
      BY <1>0, <2>1, <2>2, CommandGoes DEF KimiRecord, At
    <2>4. CASE UNCHANGED <<payload, rec, agents>> /\ StepFails
      BY <1>0, <2>4, KimiStops DEF KimiInv, OnlyAt
    <2>5. CASE /\ UNCHANGED payload
               /\ UNCHANGED <<legacy, shared, others, agents>>
               /\ Done
      <3>1. OnlyAt({0, 1})'
        BY <1>0, <1>1, <2>5 DEF KimiInv, OnlyAt, NoPayload, Done, Ends
      <3> QED
        BY <1>0, <1>1, <2>5, <3>1 DEF KimiInv, Done, Ends
    <2> QED
      BY <2>3, <2>4, <2>5
  <1> QED
    BY <1>0, <1>5, <1>4, <1>3, <1>2, <1>1

\* claude-code.
LEMMA ClaudeStops ==
    ASSUME PluginTyped, ClaudeInv, StepFails, UNCHANGED <<host, packaged, rec, agents>>,
           OnlyAt({1})',
           payload'[1].rel <= packaged, payload'[1] = payload[1] \/ packaged \in cut'
    PROVE  ClaudeInv'
  BY DEF ClaudeInv, ClaudeWhole, Named, StepFails, Ends

LEMMA ClaudeAddStep ==
    ASSUME PluginTyped, ClaudeInv, host = "claude-code", CmdStep, Adding
    PROVE  ClaudeInv'
  <1>0. /\ Busy /\ job.op = "add" /\ job.rel = packaged /\ packaged \in 1 .. LastRelease
        /\ Adding /\ ~Removing
        /\ payload \in [0 .. LastRelease -> [part : Parts, rel : 0 .. LastRelease]]
        /\ rec \in [active : 0 .. LastRelease, market : 0 .. LastRelease, known : {"none", "ours"},
                     switch : {"none", "on", "off"}, cached : 0 .. LastRelease]
        /\ StepsLeft \in 1 .. 4 /\ UNCHANGED <<host, packaged, meanwhile>>
        /\ job.full \in BOOLEAN /\ 0 \in 0 .. LastRelease /\ 1 \in 0 .. LastRelease
        /\ packaged \in 0 .. LastRelease
    BY ClaudeAddTurn, Running DEF Adding, Removing
  <1>4. CASE StepsLeft = 4
    <2>1. Guard /\ Here = 1 /\ Head(job.todo).do = "guard"
      BY <1>0, <1>4, ClaudeAddTurn
    <2>2. Goes \/ Done => Goes
      BY <1>4 DEF Goes, Done
    <2>3. \/ /\ UNCHANGED payload
             /\ UNCHANGED <<rec, legacy, shared, others, agents>>
             /\ NotForeign(1)
             /\ Goes
          \/ UNCHANGED <<payload, rec, agents>> /\ StepFails
          \/ UNCHANGED <<payload, rec, agents>> /\ Skips
      BY <1>0, <2>1, <2>2, CommandGoes, GuardIs
         DEF Guard, NotForeign, Named, KeptAsIs, pluginFiles
    <2>4. CASE UNCHANGED <<payload, rec, agents>> /\ StepFails
      BY <1>0, <2>4, ClaudeStops DEF ClaudeInv, OnlyAt
    <2>5. CASE /\ UNCHANGED payload
               /\ UNCHANGED <<rec, legacy, shared, others, agents>>
               /\ NotForeign(1)
               /\ Goes
      <3>1. OnlyAt({1})'
        BY <1>0, <1>4, <2>5 DEF ClaudeInv, OnlyAt, NoPayload, Goes, Same
      <3>2. (payload[1].rel <= packaged)'
        BY <1>0, <1>4, <2>5 DEF ClaudeInv, ClaudeInv, NoPayload, Goes, Same
      <3>3. ClaudeWhole'
        BY <1>0, <1>4, <2>5
           DEF ClaudeInv, ClaudeWhole, Named, ClaudeAdding, NoPayload, Goes, Same
      <3>4. ClaudeAdding'
        BY <1>0, <1>4, <2>5 DEF ClaudeInv, ClaudeAdding, NotForeign, NoPayload, Goes, Same
      <3> QED
        BY <1>0, <1>4, <2>5, <3>1, <3>2, <3>3, <3>4 DEF ClaudeInv, Goes, Same
    <2>6. CASE UNCHANGED <<payload, rec, agents>> /\ Skips
      BY <1>0, <2>6 DEF ClaudeInv, Skips, Ends, OnlyAt, ClaudeWhole, Named
    <2> QED
      BY <2>3, <2>4, <2>5, <2>6
  <1>3. CASE StepsLeft = 3
    <2>1. Wipe /\ Here = 1 /\ Head(job.todo).do = "wipe"
      BY <1>0, <1>3, ClaudeAddTurn
    <2>2. Goes \/ Done => Goes
      BY <1>3 DEF Goes, Done
    <2>3. /\ payload' = [payload EXCEPT ![1] = NoPayload]
          /\ UNCHANGED <<rec, legacy, shared, others, agents>>
          /\ Goes
      BY <1>0, <2>1, <2>2, CommandGoes DEF Wipe, At
    <2>4. /\ \A q \in 0 .. LastRelease : q = 1 \/ payload'[q] = payload[q]
         /\ payload'[1] = NoPayload
      BY <1>0, <2>3
    <2>5. OnlyAt({1})'
      BY <1>0, <1>3, <2>3, <2>4 DEF ClaudeInv, OnlyAt, NoPayload, Goes, Same
    <2>6. (payload[1].rel <= packaged)'
      BY <1>0, <1>3, <2>3, <2>4 DEF ClaudeInv, ClaudeInv, NoPayload, Goes, Same
    <2>7. ClaudeWhole'
      BY <1>0, <1>3, <2>3, <2>4
         DEF ClaudeInv, ClaudeWhole, Named, ClaudeAdding, NoPayload, Goes, Same
    <2>8. ClaudeAdding'
      BY <1>0, <1>3, <2>3, <2>4 DEF ClaudeInv, ClaudeAdding, NotForeign, NoPayload, Goes, Same
    <2> QED
      BY <1>0, <1>3, <2>3, <2>4, <2>5, <2>6, <2>7, <2>8 DEF ClaudeInv, Goes, Same
  <1>2. CASE StepsLeft = 2
    <2>1. Copy /\ Here = 1 /\ Head(job.todo).do = "copy"
      BY <1>0, <1>2, ClaudeAddTurn
    <2>2. Goes \/ Done => Goes
      BY <1>2 DEF Goes, Done
    <2>3. /\ \E r \in {0, packaged} : payload' =
             [payload EXCEPT ![1] = [part |-> "whole", rel |-> r]]
          /\ UNCHANGED <<rec, legacy, shared, others, agents>>
          /\ Goes
      BY <1>0, <2>1, <2>2, CommandGoes DEF Copy, At
    <2>4. /\ \A q \in 0 .. LastRelease : q = 1 \/ payload'[q] = payload[q]
         /\ payload'[1].part = "whole" /\ payload'[1].rel \in {0, packaged}
      BY <1>0, <2>3
    <2>5. OnlyAt({1})'
      BY <1>0, <1>2, <2>3, <2>4 DEF ClaudeInv, OnlyAt, NoPayload, Goes, Same
    <2>6. (payload[1].rel <= packaged)'
      BY <1>0, <1>2, <2>3, <2>4 DEF ClaudeInv, ClaudeInv, NoPayload, Goes, Same
    <2>7. ClaudeWhole'
      BY <1>0, <1>2, <2>3, <2>4
         DEF ClaudeInv, ClaudeWhole, Named, ClaudeAdding, NoPayload, Goes, Same
    <2>8. ClaudeAdding'
      BY <1>0, <1>2, <2>3, <2>4 DEF ClaudeInv, ClaudeAdding, NotForeign, NoPayload, Goes, Same
    <2> QED
      BY <1>0, <1>2, <2>3, <2>4, <2>5, <2>6, <2>7, <2>8 DEF ClaudeInv, Goes, Same
  <1>1. CASE StepsLeft = 1
    <2>1. Stamp /\ Here = 1 /\ Head(job.todo).do = "stamp"
      BY <1>0, <1>1, ClaudeAddTurn
    <2>2. Goes \/ Done => Done
      BY <1>1 DEF Goes, Done
    <2>3. \/ /\ payload' = [payload EXCEPT ![1].rel = packaged]
             /\ UNCHANGED <<rec, legacy, shared, others, agents>>
             /\ Done
          \/ UNCHANGED <<payload, rec, agents>> /\ StepFails
      BY <1>0, <2>1, <2>2, CommandGoes DEF Stamp, At
    <2>4. CASE UNCHANGED <<payload, rec, agents>> /\ StepFails
      BY <1>0, <2>4, ClaudeStops DEF ClaudeInv, OnlyAt
    <2>5. CASE /\ payload' = [payload EXCEPT ![1].rel = packaged]
               /\ UNCHANGED <<rec, legacy, shared, others, agents>>
               /\ Done
      <3>1. /\ \A q \in 0 .. LastRelease : q = 1 \/ payload'[q] = payload[q]
           /\ payload'[1] = [part |-> payload[1].part, rel |-> packaged]
        BY <1>0, <2>5
      <3>2. OnlyAt({1})'
        BY <1>0, <1>1, <2>5, <3>1 DEF ClaudeInv, OnlyAt, NoPayload, Done, Ends
      <3>3. (payload[1].rel <= packaged)'
        BY <1>0, <1>1, <2>5, <3>1 DEF ClaudeInv, ClaudeInv, NoPayload, Done, Ends
      <3>4. ClaudeWhole'
        BY <1>0, <1>1, <2>5, <3>1
           DEF ClaudeInv, ClaudeWhole, Named, ClaudeAdding, NoPayload, Done, Ends
      <3> QED
        BY <1>0, <1>1, <2>5, <3>1, <3>2, <3>3, <3>4 DEF ClaudeInv, Done, Ends
    <2> QED
      BY <2>3, <2>4, <2>5
  <1> QED
    BY <1>0, <1>4, <1>3, <1>2, <1>1

LEMMA ClaudeRemoveStep ==
    ASSUME PluginTyped, ClaudeInv, host = "claude-code", CmdStep, Removing
    PROVE  ClaudeInv'
  <1>0. /\ Busy /\ job.op = "remove" /\ job.rel = packaged /\ packaged \in 1 .. LastRelease
        /\ Removing /\ ~Adding
        /\ payload \in [0 .. LastRelease -> [part : Parts, rel : 0 .. LastRelease]]
        /\ rec \in [active : 0 .. LastRelease, market : 0 .. LastRelease, known : {"none", "ours"},
                     switch : {"none", "on", "off"}, cached : 0 .. LastRelease]
        /\ StepsLeft \in 1 .. 2 /\ UNCHANGED <<host, packaged, meanwhile>>
        /\ job.full \in BOOLEAN /\ 0 \in 0 .. LastRelease /\ 1 \in 0 .. LastRelease
        /\ packaged \in 0 .. LastRelease
    BY ClaudeRemoveTurn, Running DEF Adding, Removing
  <1>2. CASE StepsLeft = 2
    <2>1. Guard /\ Here = 1 /\ Head(job.todo).do = "guard"
      BY <1>0, <1>2, ClaudeRemoveTurn
    <2>2. Goes \/ Done => Goes
      BY <1>2 DEF Goes, Done
    <2>3. \/ /\ UNCHANGED payload
             /\ UNCHANGED <<rec, legacy, shared, others, agents>>
             /\ NotForeign(1)
             /\ Goes
          \/ UNCHANGED <<payload, rec, agents>> /\ StepFails
      BY <1>0, <2>1, <2>2, CommandGoes, GuardIs
         DEF Guard, NotForeign, Named, KeptAsIs, pluginFiles
    <2>4. CASE UNCHANGED <<payload, rec, agents>> /\ StepFails
      BY <1>0, <2>4, ClaudeStops DEF ClaudeInv, OnlyAt
    <2>5. CASE /\ UNCHANGED payload
               /\ UNCHANGED <<rec, legacy, shared, others, agents>>
               /\ NotForeign(1)
               /\ Goes
      <3>1. OnlyAt({1})'
        BY <1>0, <1>2, <2>5 DEF ClaudeInv, OnlyAt, NoPayload, Goes, Same
      <3>2. (payload[1].rel <= packaged)'
        BY <1>0, <1>2, <2>5 DEF ClaudeInv, ClaudeInv, NoPayload, Goes, Same
      <3>3. ClaudeWhole'
        BY <1>0, <1>2, <2>5
           DEF ClaudeInv, ClaudeWhole, Named, ClaudeAdding, NoPayload, Goes, Same
      <3>4. (StepsLeft <= 1 => NotForeign(1))'
        BY <1>0, <1>2, <2>5 DEF ClaudeInv, NotForeign, NoPayload, Goes, Same
      <3> QED
        BY <1>0, <1>2, <2>5, <3>1, <3>2, <3>3, <3>4 DEF ClaudeInv, Goes, Same
    <2> QED
      BY <2>3, <2>4, <2>5
  <1>1. CASE StepsLeft = 1
    <2>1. Wipe /\ Here = 1 /\ Head(job.todo).do = "wipe"
      BY <1>0, <1>1, ClaudeRemoveTurn
    <2>2. Goes \/ Done => Done
      BY <1>1 DEF Goes, Done
    <2>3. /\ payload' = [payload EXCEPT ![1] = NoPayload]
          /\ UNCHANGED <<rec, legacy, shared, others, agents>>
          /\ Done
      BY <1>0, <2>1, <2>2, CommandGoes DEF Wipe, At
    <2>4. /\ \A q \in 0 .. LastRelease : q = 1 \/ payload'[q] = payload[q]
         /\ payload'[1] = NoPayload
      BY <1>0, <2>3
    <2>5. OnlyAt({1})'
      BY <1>0, <1>1, <2>3, <2>4 DEF ClaudeInv, OnlyAt, NoPayload, Done, Ends
    <2>6. (payload[1].rel <= packaged)'
      BY <1>0, <1>1, <2>3, <2>4 DEF ClaudeInv, ClaudeInv, NoPayload, Done, Ends
    <2>7. ClaudeWhole'
      BY <1>0, <1>1, <2>3, <2>4
         DEF ClaudeInv, ClaudeWhole, Named, ClaudeAdding, NoPayload, Done, Ends
    <2> QED
      BY <1>0, <1>1, <2>3, <2>4, <2>5, <2>6, <2>7 DEF ClaudeInv, Done, Ends
  <1> QED
    BY <1>0, <1>2, <1>1

\* codex.
LEMMA CodexStops ==
    ASSUME CodexInv, StepFails, UNCHANGED <<host, agents>>, rec'.active = 0, OnlyAt({1})',
           NothingForeign'
    PROVE  CodexInv'
  BY DEF CodexInv, StepFails, Ends

LEMMA CodexAddStep ==
    ASSUME PluginTyped, CodexInv, host = "codex", CmdStep, Adding
    PROVE  CodexInv'
  <1>0. /\ Busy /\ job.op = "add" /\ job.rel = packaged /\ packaged \in 1 .. LastRelease
        /\ Adding /\ ~Removing
        /\ payload \in [0 .. LastRelease -> [part : Parts, rel : 0 .. LastRelease]]
        /\ rec \in [active : 0 .. LastRelease, market : 0 .. LastRelease, known : {"none", "ours"},
                     switch : {"none", "on", "off"}, cached : 0 .. LastRelease]
        /\ StepsLeft \in 1 .. 6 /\ UNCHANGED <<host, packaged, meanwhile>>
        /\ job.full \in BOOLEAN /\ 0 \in 0 .. LastRelease /\ 1 \in 0 .. LastRelease
        /\ packaged \in 0 .. LastRelease
    BY CodexAddTurn, Running DEF Adding, Removing
  <1>6. CASE StepsLeft = 6
    <2>1. Wipe /\ Here = 1 /\ Head(job.todo).do = "wipe"
      BY <1>0, <1>6, CodexAddTurn
    <2>2. Goes \/ Done => Goes
      BY <1>6 DEF Goes, Done
    <2>3. /\ payload' = [payload EXCEPT ![1] = NoPayload]
          /\ UNCHANGED <<rec, legacy, shared, others, agents>>
          /\ Goes
      BY <1>0, <2>1, <2>2, CommandGoes DEF Wipe, At
    <2>4. /\ \A q \in 0 .. LastRelease : q = 1 \/ payload'[q] = payload[q]
         /\ payload'[1] = NoPayload
      BY <1>0, <2>3
    <2>5. OnlyAt({1})'
      BY <1>0, <1>6, <2>3, <2>4 DEF CodexInv, OnlyAt, NoPayload, Goes, Same
    <2>6. NothingForeign'
      BY <1>0, <1>6, <2>3, <2>4 DEF CodexInv, NothingForeign, NoPayload, Goes, Same
    <2>7. CodexAdds'
      BY <1>0, <1>6, <2>3, <2>4 DEF CodexInv, CodexAdds, DirReady, NoPayload, Goes, Same
    <2> QED
      BY <1>0, <1>6, <2>3, <2>4, <2>5, <2>6, <2>7 DEF CodexInv, Goes, Same
  <1>5. CASE StepsLeft = 5
    <2>1. Copy /\ Here = 1 /\ Head(job.todo).do = "copy"
      BY <1>0, <1>5, CodexAddTurn
    <2>2. Goes \/ Done => Goes
      BY <1>5 DEF Goes, Done
    <2>3. /\ \E r \in {0, packaged} : payload' =
             [payload EXCEPT ![1] = [part |-> "whole", rel |-> r]]
          /\ UNCHANGED <<rec, legacy, shared, others, agents>>
          /\ Goes
      BY <1>0, <2>1, <2>2, CommandGoes DEF Copy, At
    <2>4. /\ \A q \in 0 .. LastRelease : q = 1 \/ payload'[q] = payload[q]
         /\ payload'[1].part = "whole" /\ payload'[1].rel \in {0, packaged}
      BY <1>0, <2>3
    <2>5. OnlyAt({1})'
      BY <1>0, <1>5, <2>3, <2>4 DEF CodexInv, OnlyAt, NoPayload, Goes, Same
    <2>6. NothingForeign'
      BY <1>0, <1>5, <2>3, <2>4 DEF CodexInv, NothingForeign, NoPayload, Goes, Same
    <2>7. CodexAdds'
      BY <1>0, <1>5, <2>3, <2>4 DEF CodexInv, CodexAdds, DirReady, NoPayload, Goes, Same
    <2> QED
      BY <1>0, <1>5, <2>3, <2>4, <2>5, <2>6, <2>7 DEF CodexInv, Goes, Same
  <1>4. CASE StepsLeft = 4
    <2>1. Stamp /\ Here = 1 /\ Head(job.todo).do = "stamp"
      BY <1>0, <1>4, CodexAddTurn
    <2>2. Goes \/ Done => Goes
      BY <1>4 DEF Goes, Done
    <2>3. \/ /\ payload' = [payload EXCEPT ![1].rel = packaged]
             /\ UNCHANGED <<rec, legacy, shared, others, agents>>
             /\ Goes
          \/ UNCHANGED <<payload, rec, agents>> /\ StepFails
      BY <1>0, <2>1, <2>2, CommandGoes DEF Stamp, At
    <2>4. CASE UNCHANGED <<payload, rec, agents>> /\ StepFails
      BY <1>0, <2>4, CodexStops DEF CodexInv, OnlyAt, NothingForeign
    <2>5. CASE /\ payload' = [payload EXCEPT ![1].rel = packaged]
               /\ UNCHANGED <<rec, legacy, shared, others, agents>>
               /\ Goes
      <3>1. /\ \A q \in 0 .. LastRelease : q = 1 \/ payload'[q] = payload[q]
           /\ payload'[1] = [part |-> payload[1].part, rel |-> packaged]
        BY <1>0, <2>5
      <3>2. OnlyAt({1})'
        BY <1>0, <1>4, <2>5, <3>1 DEF CodexInv, OnlyAt, NoPayload, Goes, Same
      <3>3. NothingForeign'
        BY <1>0, <1>4, <2>5, <3>1 DEF CodexInv, NothingForeign, NoPayload, Goes, Same
      <3>4. CodexAdds'
        BY <1>0, <1>4, <2>5, <3>1 DEF CodexInv, CodexAdds, DirReady, NoPayload, Goes, Same
      <3> QED
        BY <1>0, <1>4, <2>5, <3>1, <3>2, <3>3, <3>4 DEF CodexInv, Goes, Same
    <2> QED
      BY <2>3, <2>4, <2>5
  <1>3. CASE StepsLeft = 3
    <2>1. CodexAdd /\ Head(job.todo).do = "source"
      BY <1>0, <1>3, CodexAddTurn
    <2>2. Goes \/ Done => Goes
      BY <1>3 DEF Goes, Done
    <2>3. /\ UNCHANGED payload
          /\ rec' = [rec EXCEPT !.market = packaged]
          /\ UNCHANGED <<legacy, shared, others, agents>>
          /\ Goes
      BY <1>0, <2>1, <2>2, CommandGoes DEF CodexAdd, At
    <2>4. OnlyAt({1})'
      BY <1>0, <1>3, <2>3 DEF CodexInv, OnlyAt, NoPayload, Goes, Same
    <2>5. NothingForeign'
      BY <1>0, <1>3, <2>3 DEF CodexInv, NothingForeign, NoPayload, Goes, Same
    <2>6. CodexAdds'
      BY <1>0, <1>3, <2>3 DEF CodexInv, CodexAdds, DirReady, NoPayload, Goes, Same
    <2> QED
      BY <1>0, <1>3, <2>3, <2>4, <2>5, <2>6 DEF CodexInv, Goes, Same
  <1>2. CASE StepsLeft = 2
    <2>1. CodexAdd /\ Head(job.todo).do = "cli"
      BY <1>0, <1>2, CodexAddTurn
    <2>2. Goes \/ Done => Goes
      BY <1>2 DEF Goes, Done
    <2>3. \/ /\ UNCHANGED payload
             /\ rec' = [rec EXCEPT !.known = "ours"]
             /\ UNCHANGED <<legacy, shared, others, agents>>
             /\ Goes
          \/ UNCHANGED <<payload, rec, agents>> /\ StepFails
      BY <1>0, <2>1, <2>2, CommandGoes DEF CodexAdd, At
    <2>4. CASE UNCHANGED <<payload, rec, agents>> /\ StepFails
      BY <1>0, <2>4, CodexStops DEF CodexInv, OnlyAt, NothingForeign
    <2>5. CASE /\ UNCHANGED payload
               /\ rec' = [rec EXCEPT !.known = "ours"]
               /\ UNCHANGED <<legacy, shared, others, agents>>
               /\ Goes
      <3>1. OnlyAt({1})'
        BY <1>0, <1>2, <2>5 DEF CodexInv, OnlyAt, NoPayload, Goes, Same
      <3>2. NothingForeign'
        BY <1>0, <1>2, <2>5 DEF CodexInv, NothingForeign, NoPayload, Goes, Same
      <3>3. CodexAdds'
        BY <1>0, <1>2, <2>5 DEF CodexInv, CodexAdds, DirReady, NoPayload, Goes, Same
      <3> QED
        BY <1>0, <1>2, <2>5, <3>1, <3>2, <3>3 DEF CodexInv, Goes, Same
    <2> QED
      BY <2>3, <2>4, <2>5
  <1>1. CASE StepsLeft = 1
    <2>1. CodexAdd /\ Head(job.todo).do = "plug"
      BY <1>0, <1>1, CodexAddTurn
    <2>2. Goes \/ Done => Done
      BY <1>1 DEF Goes, Done
    <2>3. \/ /\ UNCHANGED payload
             /\ rec' = rec \/ rec' = [rec EXCEPT !.cached = payload[1].rel, !.switch = "on"]
             /\ UNCHANGED <<legacy, shared, others, agents>>
             /\ Done
          \/ UNCHANGED <<payload, rec, agents>> /\ StepFails
      BY <1>0, <2>1, <2>2, CommandGoes DEF CodexAdd, At
    <2>4. CASE UNCHANGED <<payload, rec, agents>> /\ StepFails
      BY <1>0, <2>4, CodexStops DEF CodexInv, OnlyAt, NothingForeign
    <2>5. CASE /\ UNCHANGED payload
               /\ rec' = rec \/ rec' = [rec EXCEPT !.cached = payload[1].rel, !.switch = "on"]
               /\ UNCHANGED <<legacy, shared, others, agents>>
               /\ Done
      <3>1. OnlyAt({1})'
        BY <1>0, <1>1, <2>5 DEF CodexInv, OnlyAt, NoPayload, Done, Ends
      <3>2. NothingForeign'
        BY <1>0, <1>1, <2>5 DEF CodexInv, NothingForeign, NoPayload, Done, Ends
      <3> QED
        BY <1>0, <1>1, <2>5, <3>1, <3>2 DEF CodexInv, Done, Ends
    <2> QED
      BY <2>3, <2>4, <2>5
  <1> QED
    BY <1>0, <1>6, <1>5, <1>4, <1>3, <1>2, <1>1

LEMMA CodexRemoveStep ==
    ASSUME PluginTyped, CodexInv, host = "codex", CmdStep, Removing
    PROVE  CodexInv'
  <1>0. /\ Busy /\ job.op = "remove" /\ job.rel = packaged /\ packaged \in 1 .. LastRelease
        /\ Removing /\ ~Adding
        /\ payload \in [0 .. LastRelease -> [part : Parts, rel : 0 .. LastRelease]]
        /\ rec \in [active : 0 .. LastRelease, market : 0 .. LastRelease, known : {"none", "ours"},
                     switch : {"none", "on", "off"}, cached : 0 .. LastRelease]
        /\ StepsLeft \in 1 .. 2 /\ UNCHANGED <<host, packaged, meanwhile>>
        /\ job.full \in BOOLEAN /\ 0 \in 0 .. LastRelease /\ 1 \in 0 .. LastRelease
        /\ packaged \in 0 .. LastRelease
    BY CodexRemoveTurn, Running DEF Adding, Removing
  <1>2. CASE StepsLeft = 2
    <2>1. CodexRemove /\ Head(job.todo).do = "unplug"
      BY <1>0, <1>2, CodexRemoveTurn
    <2>2. Goes \/ Done => Goes
      BY <1>2 DEF Goes, Done
    <2>3. \/ /\ UNCHANGED <<payload, agents>> /\ Goes
             /\ rec' = [rec EXCEPT !.known = "none", !.switch = "none", !.cached = 0]
          \/ /\ UNCHANGED agents /\ StepFails
             /\ payload' = payload \/ payload' = [payload EXCEPT ![1] = NoPayload]
             /\ rec'.active = rec.active
      BY <1>0, <2>1, <2>2, CommandGoes DEF CodexRemove, At
    <2>4. CASE /\ UNCHANGED agents /\ StepFails
               /\ payload' = payload \/ payload' = [payload EXCEPT ![1] = NoPayload]
               /\ rec'.active = rec.active
      <3>1. \A q \in 0 .. LastRelease : payload'[q] = payload[q] \/ (q = 1 /\ payload'[q] = NoPayload)
        BY <1>0, <2>4
      <3> QED
        BY <1>0, <2>4, <3>1, CodexStops DEF CodexInv, OnlyAt, NothingForeign, NoPayload
    <2>5. CASE /\ UNCHANGED <<payload, agents>> /\ Goes
               /\ rec' = [rec EXCEPT !.known = "none", !.switch = "none", !.cached = 0]
      BY <1>0, <2>5 DEF CodexInv, OnlyAt, NothingForeign, Goes
    <2> QED
      BY <2>3, <2>4, <2>5
  <1>1. CASE StepsLeft = 1
    <2>1. CodexRemove /\ Head(job.todo).do = "rmroot"
      BY <1>0, <1>1, CodexRemoveTurn
    <2>2. Goes \/ Done => Done
      BY <1>1 DEF Goes, Done
    <2>3. /\ payload' = [payload EXCEPT ![1] = NoPayload]
          /\ rec' = [rec EXCEPT !.market = 0]
          /\ UNCHANGED <<legacy, shared, others, agents>>
          /\ Done
      BY <1>0, <2>1, <2>2, CommandGoes DEF CodexRemove, At
    <2>4. /\ \A q \in 0 .. LastRelease : q = 1 \/ payload'[q] = payload[q]
         /\ payload'[1] = NoPayload
      BY <1>0, <2>3
    <2>5. OnlyAt({1})'
      BY <1>0, <1>1, <2>3, <2>4 DEF CodexInv, OnlyAt, NoPayload, Done, Ends
    <2>6. NothingForeign'
      BY <1>0, <1>1, <2>3, <2>4 DEF CodexInv, NothingForeign, NoPayload, Done, Ends
    <2> QED
      BY <1>0, <1>1, <2>3, <2>4, <2>5, <2>6 DEF CodexInv, Done, Ends
  <1> QED
    BY <1>0, <1>2, <1>1

-----------------------------------------------------------------------------
\* A command that starts.

LEMMA EditionsStart ==
    ASSUME Editions, UNCHANGED <<packaged, payload, cut>>, ~Adding
    PROVE  Editions'
  BY DEF Editions

LEMMA ZcodeStart ==
    ASSUME PluginTyped, ZcodeInv, host = "zcode", NEW op \in {"add", "remove"},
           NEW force \in BOOLEAN,
           NEW prune \in BOOLEAN, Start(op, force, prune)
    PROVE  ZcodeInv'
  <1>0. /\ UNCHANGED <<host, packaged, payload, rec, legacy, shared, agents, cut>> /\ ~Adding
        /\ StayIdle \/ Runs(op, force)
    BY StartIs
  <1>1. NothingForeign' /\ Editions'
    BY <1>0, EditionsStart DEF ZcodeInv, NothingForeign
  <1>2. CASE StayIdle
    BY <1>0, <1>1, <1>2 DEF ZcodeInv, StayIdle
  <1>3. CASE Runs(op, force)
    <2>1. packaged \in 1 .. LastRelease /\ payload[packaged] = payload[packaged]
      BY DEF PluginTyped
    <2>2. ASSUME op = "add" PROVE ZcodeAdding'
      <3>1. CASE force \/ payload[packaged].part = "none"
        <4>1. StepsLeft' = 8 /\ job'.full
          BY <1>3, <2>1, <2>2, <3>1, ZcodeBegins DEF Runs
        <4> QED
          BY <4>1 DEF ZcodeAdding
      <3>2. CASE ~force /\ payload[packaged].part # "none"
        <4>1. StepsLeft' = 5 /\ ~job'.full
          BY <1>3, <2>1, <2>2, <3>2, ZcodeReuses DEF Runs
        <4>2. DirReady(packaged) \/ packaged \in cut
          BY <1>0, <2>1, <3>2 DEF ZcodeInv, Editions, DirReady
        <4>3. DirReady(packaged)' \/ packaged' \in cut'
          BY <1>0, <4>2 DEF DirReady
        <4> QED
          BY <4>1, <4>3 DEF ZcodeAdding
      <3> QED
        BY <3>1, <3>2
    <2>3. ASSUME op = "remove" PROVE ~job'.full /\ ZcodeRemoving'
      <3>1. StepsLeft' = 4 /\ ~job'.full
        BY <1>3, <2>1, <2>3, ZcodeEnds DEF Runs
      <3> QED
        BY <3>1 DEF ZcodeRemoving
    <2> QED
      BY <1>0, <1>1, <1>3, <2>2, <2>3 DEF ZcodeInv, Runs
  <1> QED
    BY <1>0, <1>2, <1>3

LEMMA QoderStart ==
    ASSUME PluginTyped, QoderInv, host = "qoder", NEW op \in {"add", "remove"},
           NEW force \in BOOLEAN,
           NEW prune \in BOOLEAN, Start(op, force, prune)
    PROVE  QoderInv'
  <1>0. /\ UNCHANGED <<host, packaged, payload, rec, legacy, shared, agents, cut>> /\ ~Adding
        /\ StayIdle \/ Runs(op, force)
    BY StartIs
  <1>1. NothingForeign' /\ Editions' /\ OnlyAt(1 .. packaged)' /\ QoderRecorded'
    BY <1>0, EditionsStart DEF QoderInv, NothingForeign, OnlyAt, QoderRecorded
  <1>2. CASE StayIdle
    BY <1>0, <1>1, <1>2 DEF QoderInv, StayIdle
  <1>3. CASE Runs(op, force)
    <2>1. packaged \in 1 .. LastRelease
      BY DEF PluginTyped
    <2>2. ASSUME op = "add" PROVE IF job'.full THEN QoderAdding' ELSE QoderReusing'
      <3>1. CASE force \/ ~Healthy
        <4>1. StepsLeft' = 7 /\ job'.full
          BY <1>0, <1>3, <2>1, <2>2, <3>1, QoderBegins DEF Runs
        <4> QED
          BY <4>1 DEF QoderAdding
      <3>2. CASE ~force /\ Healthy
        <4>1. ~job'.full
          BY <1>3, <2>1, <2>2, <3>2, QoderReuses DEF Runs
        <4>2. packaged \in cut \/ (DirReady(packaged) /\ rec.active = packaged)
          BY <1>0, <2>1, <3>2 DEF QoderInv, QoderRecorded, Editions, DirReady, Healthy
        <4>3. rec.switch = "on"
          BY <3>2 DEF Healthy
        <4>4. QoderReusing'
          BY <1>0, <4>2, <4>3 DEF DirReady, QoderReusing
        <4> QED
          BY <4>1, <4>4
      <3> QED
        BY <3>1, <3>2
    <2>3. ASSUME op = "remove" PROVE ~job'.full /\ QoderRemoving'
      <3>1. StepsLeft' = 4 /\ ~job'.full /\ job'.view.active = rec.active
        BY <1>3, <2>1, <2>3, QoderEnds DEF Runs
      <3> QED
        BY <1>0, <3>1 DEF QoderRemoving
    <2> QED
      BY <1>0, <1>1, <1>3, <2>2, <2>3 DEF QoderInv, Runs
  <1> QED
    BY <1>0, <1>2, <1>3

LEMMA KimiStart ==
    ASSUME PluginTyped, KimiInv, host = "kimi-code", NEW op \in {"add", "remove"},
           NEW force \in BOOLEAN,
           NEW prune \in BOOLEAN, Start(op, force, prune)
    PROVE  KimiInv'
  <1>0. /\ UNCHANGED <<host, packaged, payload, rec, legacy, shared, agents, cut>>
        /\ StayIdle \/ Runs(op, force)
    BY StartIs
  <1>1. OnlyAt({0, 1})'
    BY <1>0 DEF KimiInv, OnlyAt
  <1>2. CASE StayIdle
    BY <1>0, <1>1, <1>2 DEF KimiInv, StayIdle
  <1>3. CASE Runs(op, force)
    <2>1. packaged \in 1 .. LastRelease
      BY DEF PluginTyped
    <2>2. ASSUME op = "add" PROVE job'.full /\ KimiAdding'
      <3>1. StepsLeft' = 9 /\ job'.full
        BY <1>3, <2>1, <2>2, KimiBegins DEF Runs
      <3> QED
        BY <3>1 DEF KimiAdding
    <2>3. ASSUME op = "remove" PROVE KimiRemoving'
      <3>1. StepsLeft' = 5
        BY <1>3, <2>1, <2>3, KimiEnds DEF Runs
      <3> QED
        BY <3>1 DEF KimiRemoving
    <2> QED
      BY <1>0, <1>1, <1>3, <2>2, <2>3 DEF KimiInv, Runs
  <1> QED
    BY <1>0, <1>2, <1>3

LEMMA ClaudeStart ==
    ASSUME PluginTyped, ClaudeInv, host = "claude-code", NEW op \in {"add", "remove"},
           NEW force \in BOOLEAN, NEW prune \in BOOLEAN, Start(op, force, prune)
    PROVE  ClaudeInv'
  <1>0. /\ UNCHANGED <<host, packaged, payload, rec, legacy, shared, agents, cut>>
        /\ StayIdle \/ Runs(op, force)
    BY StartIs
  <1>1. OnlyAt({1})' /\ ClaudeWhole' /\ (payload[1].rel <= packaged)'
    BY <1>0 DEF ClaudeInv, OnlyAt, ClaudeWhole, Named
  <1>2. CASE StayIdle
    BY <1>0, <1>1, <1>2 DEF ClaudeInv, StayIdle
  <1>3. CASE Runs(op, force)
    <2>1. packaged \in 1 .. LastRelease
      BY DEF PluginTyped
    <2>2. ASSUME op = "add" PROVE job'.full /\ ClaudeAdding'
      <3>1. StepsLeft' = 4 /\ job'.full
        BY <1>3, <2>1, <2>2, ClaudeBegins DEF Runs
      <3> QED
        BY <3>1 DEF ClaudeAdding
    <2>3. ASSUME op = "remove" PROVE StepsLeft' = 2
      BY <1>3, <2>1, <2>3, ClaudeEnds DEF Runs
    <2>4. Adding' => job'.full /\ ClaudeAdding'
      BY <1>3, <2>2 DEF Runs
    <2>5. Removing' => StepsLeft' = 2
      BY <1>3, <2>3 DEF Runs
    <2>6. rec' = NoRecord /\ agents' # "managed"
      BY <1>0 DEF ClaudeInv
    <2> QED
      BY <1>1, <2>4, <2>5, <2>6 DEF ClaudeInv, NoRecord
  <1> QED
    BY <1>0, <1>2, <1>3

LEMMA CodexStart ==
    ASSUME PluginTyped, CodexInv, host = "codex", NEW op \in {"add", "remove"},
           NEW force \in BOOLEAN,
           NEW prune \in BOOLEAN, Start(op, force, prune)
    PROVE  CodexInv'
  <1>0. /\ UNCHANGED <<host, packaged, payload, rec, legacy, shared, agents, cut>>
        /\ StayIdle \/ Runs(op, force)
    BY StartIs
  <1>1. OnlyAt({1})' /\ NothingForeign'
    BY <1>0 DEF CodexInv, OnlyAt, NothingForeign
  <1>2. CASE StayIdle
    BY <1>0, <1>1, <1>2 DEF CodexInv, StayIdle
  <1>3. CASE Runs(op, force)
    <2>1. packaged \in 1 .. LastRelease
      BY DEF PluginTyped
    <2>2. ASSUME op = "add" PROVE job'.full /\ CodexAdds'
      <3>1. StepsLeft' = 6 /\ job'.full
        BY <1>3, <2>1, <2>2, CodexBegins DEF Runs
      <3> QED
        BY <3>1 DEF CodexAdds
    <2>3. ASSUME op = "remove" PROVE StepsLeft' = 2
      BY <1>3, <2>1, <2>3, CodexEnds DEF Runs
    <2> QED
      BY <1>0, <1>1, <1>3, <2>2, <2>3 DEF CodexInv, Runs
  <1> QED
    BY <1>0, <1>2, <1>3

-----------------------------------------------------------------------------
\* A command that is killed, or whose file system call fails.

\* The places a host's commands write at, and the steps it never takes.
LEMMA WhereItWrites ==
    ASSUME PluginTyped, Busy, NEW d, Head(job.todo).do = d
    PROVE  /\ host \in {"zcode", "qoder"} /\ d \in {"wipe", "copy"} => job.op = "add" /\ Here = packaged
           /\ d = "rmcache" => host \in {"zcode", "qoder"} /\ job.op = "remove"
           /\ host = "kimi-code" /\ d \in {"wipe", "copy"} => Here \in {0, 1}
           /\ host \in {"claude-code", "codex"} /\ d \in {"wipe", "copy"} => Here = 1
           /\ d \in {"register", "enable", "unregister", "disable"} => host = "qoder"
           /\ d \in {"known", "prune"} => host = "zcode"
           /\ d \in {"unplug", "rmroot"} => host = "codex"
  <1>0. host \in Kinds5 /\ job.op \in {"add", "remove"} /\ job.full \in BOOLEAN
    BY DEF PluginTyped, Jobs, Busy
  <1>1. CASE host = "zcode" /\ job.op = "add"
    BY <1>1, ZcodeAdd DEF Step, Do, Here
  <1>2. CASE host = "zcode" /\ job.op = "remove"
    BY <1>2, ZcodeRemove DEF Step, Do, Here
  <1>3. CASE host = "qoder" /\ job.op = "add" /\ job.full
    BY <1>3, QoderAdd DEF Step, Do, Here
  <1>4. CASE host = "qoder" /\ job.op = "add" /\ ~job.full
    BY <1>4, QoderHealthy DEF Step, Do, Here
  <1>5. CASE host = "qoder" /\ job.op = "remove"
    BY <1>5, QoderRemove DEF Step, Do, Here
  <1>6. CASE host = "kimi-code" /\ job.op = "add"
    BY <1>6, KimiAdd DEF Step, Do, Here
  <1>7. CASE host = "kimi-code" /\ job.op = "remove"
    BY <1>7, KimiRemove DEF Step, Do, Here
  <1>8. CASE host = "claude-code" /\ job.op = "add"
    BY <1>8, ClaudeAdd DEF Step, Do, Here
  <1>9. CASE host = "claude-code" /\ job.op = "remove"
    BY <1>9, ClaudeRemove DEF Step, Do, Here
  <1>10. CASE host = "codex" /\ job.op = "add"
    BY <1>10, CodexAdding DEF Step, Do, Here
  <1>11. CASE host = "codex" /\ job.op = "remove"
    BY <1>11, CodexRemoving DEF Step, Do, Here
  <1> QED
    BY <1>0, <1>1, <1>2, <1>3, <1>4, <1>5, <1>6, <1>7, <1>8, <1>9, <1>10, <1>11 DEF Kinds5

\* A directory whose removal stops is no more than it was, nor foreign.
LEMMA Shrinks ==
    /\ Shrunk("none") = {"none"}
    /\ \A part \in Parts : "foreign" \in Shrunk(part) => part = "foreign"
  BY DEF Shrunk, Parts, Partial

\* What is left of the payload, by the place the command was at.
LEMMA InterruptedLeaves ==
    ASSUME PluginTyped, Interrupted
    PROVE  /\ \A p \in 0 .. LastRelease :
                 /\ payload'[p].part = "foreign" => payload[p].part = "foreign"
                 /\ \/ payload'[p] = payload[p]
                    \/ /\ At("wipe") \/ At("copy")
                       /\ p = Here /\ payload'[p].rel \in {payload[p].rel, 0, job.rel}
                    \/ At("rmcache") /\ payload[p].part # "none"
  <1>0. /\ Busy /\ payload \in [0 .. LastRelease -> [part : Parts, rel : 0 .. LastRelease]]
        /\ Here \in 0 .. LastRelease
    BY InterruptedIs, HereIs DEF PluginTyped
  <1>1. CASE UNCHANGED payload
    BY <1>1
  <1>2. ASSUME At("wipe"), NEW part \in Shrunk(payload[Here].part),
               payload' = [payload EXCEPT ![Here].part = part]
        PROVE  \A p \in 0 .. LastRelease :
                 /\ payload'[p].part = "foreign" => payload[p].part = "foreign"
                 /\ \/ payload'[p] = payload[p]
                    \/ p = Here /\ payload'[p].rel = payload[p].rel
    BY <1>0, <1>2, Shrinks
  <1>3. ASSUME At("rmcache"), NEW p \in DOMAIN payload, NEW part \in Shrunk(payload[p].part),
               payload' = [payload EXCEPT ![p].part = part]
        PROVE  \A q \in 0 .. LastRelease :
                 /\ payload'[q].part = "foreign" => payload[q].part = "foreign"
                 /\ payload'[q] = payload[q] \/ payload[q].part # "none"
    <2>1. \A q \in 0 .. LastRelease : q # p => payload'[q] = payload[q]
      BY <1>0, <1>3
    <2>2. payload'[p] = [part |-> part, rel |-> payload[p].rel] /\ payload[p].part \in Parts
          /\ payload[p] = [part |-> payload[p].part, rel |-> payload[p].rel]
      BY <1>0, <1>3
    <2>3. payload[p].part = "none" => payload'[p] = payload[p]
      BY <2>2, Shrinks
    <2>4. payload'[p].part = "foreign" => payload[p].part = "foreign"
      BY <2>2, Shrinks
    <2> QED
      BY <2>1, <2>3, <2>4
  <1>4. ASSUME At("copy"), NEW part \in Partial, NEW r \in {0, job.rel},
               payload' = [payload EXCEPT ![Here] = [part |-> part, rel |-> r]]
        PROVE  \A p \in 0 .. LastRelease :
                 /\ payload'[p].part = "foreign" => payload[p].part = "foreign"
                 /\ \/ payload'[p] = payload[p]
                    \/ p = Here /\ payload'[p].rel \in {0, job.rel}
    BY <1>0, <1>4 DEF Partial
  <1> QED
    BY <1>1, <1>2, <1>3, <1>4 DEF Interrupted

\* A place the command was not at is as it was; its release is noted as cut.
LEMMA InterruptedPlaces ==
    ASSUME PluginTyped, Interrupted
    PROVE  /\ host \in {"zcode", "qoder"} =>
                 \A r \in 1 .. LastRelease : payload'[r] = payload[r] \/ r \in cut'
           /\ host = "qoder" /\ OnlyAt(1 .. packaged) => OnlyAt(1 .. packaged)'
           /\ host = "kimi-code" /\ OnlyAt({0, 1}) => OnlyAt({0, 1})'
           /\ host \in {"claude-code", "codex"} /\ OnlyAt({1}) => OnlyAt({1})'
  <1>0. /\ Busy /\ StepFails /\ UNCHANGED <<host, packaged>> /\ packaged \in 1 .. LastRelease
        /\ job.rel = packaged
    BY InterruptedIs DEF PluginTyped
  <1> DEFINE d == Head(job.todo).do
  <1>1. \A p \in 0 .. LastRelease :
           \/ payload'[p] = payload[p]
           \/ d \in {"wipe", "copy"} /\ p = Here
           \/ d = "rmcache" /\ payload[p].part # "none"
    BY InterruptedLeaves DEF At
  <1>2. /\ host \in {"zcode", "qoder"} /\ d \in {"wipe", "copy"} => job.op = "add" /\ Here = packaged
        /\ d = "rmcache" => host \in {"zcode", "qoder"} /\ job.op = "remove"
        /\ host = "kimi-code" /\ d \in {"wipe", "copy"} => Here \in {0, 1}
        /\ host \in {"claude-code", "codex"} /\ d \in {"wipe", "copy"} => Here = 1
    BY <1>0, WhereItWrites
  <1> HIDE DEF d
  <1>3. ASSUME host \in {"zcode", "qoder"}, NEW r \in 1 .. LastRelease
        PROVE  payload'[r] = payload[r] \/ r \in cut'
    <2>1. r \in 0 .. LastRelease /\ r \in PluginReleases
      BY DEF PluginReleases
    <2>2. payload'[r] = payload[r] \/ (job.op = "add" /\ r = packaged) \/ job.op = "remove"
      BY <1>1, <1>2, <1>3, <2>1
    <2> QED
      BY <1>0, <2>1, <2>2 DEF StepFails
  <1>4. ASSUME NEW places, d \in {"wipe", "copy"} => Here \in places, OnlyAt(places)
        PROVE  \A p \in 0 .. LastRelease \ places : payload'[p].part = "none"
    BY <1>1, <1>4 DEF OnlyAt
  <1>5. host = "qoder" /\ OnlyAt(1 .. packaged) => OnlyAt(1 .. packaged)'
    <2>1. host = "qoder" /\ d \in {"wipe", "copy"} => Here \in 1 .. packaged
      BY <1>0, <1>2
    <2> QED
      BY <1>0, <1>4, <2>1 DEF OnlyAt
  <1>6. host = "kimi-code" /\ OnlyAt({0, 1}) => OnlyAt({0, 1})'
    BY <1>2, <1>4 DEF OnlyAt
  <1>7. host \in {"claude-code", "codex"} /\ OnlyAt({1}) => OnlyAt({1})'
    BY <1>2, <1>4 DEF OnlyAt
  <1> QED
    BY <1>3, <1>5, <1>6, <1>7

\* So the invariant is kept: every place but those of the script is as it was.
LEMMA InterruptedStep ==
    ASSUME PluginInv, Interrupted
    PROVE  PluginInv'
  <1>0. PluginTyped /\ PluginTyped' /\ StepFails /\ Busy
        /\ UNCHANGED <<host, packaged, rec, legacy, shared, others, agents, meanwhile>>
    BY InterruptedIs, TypedStep DEF PluginInv, PluginNext
  <1>1. \A p \in 0 .. LastRelease : payload'[p].part = "foreign" => payload[p].part = "foreign"
    BY <1>0, InterruptedLeaves
  <1>2. packaged \in 1 .. LastRelease /\ job.rel = packaged /\ host \in Kinds5 /\ 1 \in 0 .. LastRelease
    BY <1>0, HostAssumption DEF PluginTyped
  <1>3. ASSUME host = "zcode" PROVE ZcodeInv'
    BY <1>0, <1>1, <1>2, <1>3, InterruptedPlaces, ZcodeStops DEF PluginInv
  <1>4. ASSUME host = "qoder" PROVE QoderInv'
    <2>1. QoderInv /\ OnlyAt(1 .. packaged)
      BY <1>4 DEF PluginInv, QoderInv
    <2>2. OnlyAt(1 .. packaged)' /\ \A r \in 1 .. LastRelease : payload'[r] = payload[r] \/ r \in cut'
      BY <1>0, <1>4, <2>1, InterruptedPlaces
    <2> QED
      BY <1>0, <1>1, <1>2, <2>1, <2>2, QoderStops
  <1>5. ASSUME host = "kimi-code" PROVE KimiInv'
    BY <1>0, <1>5, InterruptedPlaces, KimiStops DEF PluginInv, KimiInv
  <1>6. ASSUME host = "claude-code" PROVE ClaudeInv'
    <2>1. ClaudeInv /\ OnlyAt({1}) /\ payload[1].rel <= packaged
      BY <1>6 DEF PluginInv, ClaudeInv
    <2>2. OnlyAt({1})'
      BY <1>0, <1>6, <2>1, InterruptedPlaces
    <2>3. payload'[1] = payload[1] \/ payload'[1].rel \in {payload[1].rel, 0, packaged}
          \/ Head(job.todo).do = "rmcache"
      BY <1>0, <1>2, InterruptedLeaves DEF At
    <2>4. Head(job.todo).do # "rmcache"
      BY <1>0, <1>6, WhereItWrites
    <2>5. payload'[1].rel <= packaged
      BY <1>2, <2>1, <2>3, <2>4
    <2>6. payload'[1] = payload[1] \/ packaged \in cut'
      BY <1>0, <1>2 DEF StepFails, PluginReleases
    <2> QED
      BY <1>0, <2>1, <2>2, <2>5, <2>6, ClaudeStops
  <1>7. ASSUME host = "codex" PROVE CodexInv'
    <2>1. CodexInv /\ OnlyAt({1}) /\ NothingForeign /\ rec.active = 0
      BY <1>7 DEF PluginInv, CodexInv
    <2>2. OnlyAt({1})'
      BY <1>0, <1>7, <2>1, InterruptedPlaces
    <2>3. NothingForeign'
      BY <1>1, <2>1 DEF NothingForeign
    <2> QED
      BY <1>0, <2>1, <2>2, <2>3, CodexStops
  <1> QED
    BY <1>0, <1>3, <1>4, <1>5, <1>6, <1>7 DEF PluginInv

-----------------------------------------------------------------------------
\* Acts of the host and of the user.

\* What others do to a payload is to put a directory of theirs in its place.
LEMMA OutsideActs ==
    ASSUME PluginTyped, Outside
    PROVE  \/ /\ UNCHANGED <<packaged, payload, rec, legacy, agents>>
              /\ shared' = shared \/ "shared" \in meanwhile'
           \/ /\ rec.switch = "on" /\ rec' = [rec EXCEPT !.switch = "off"] /\ "switch" \in meanwhile'
              /\ UNCHANGED <<packaged, payload, legacy, shared, agents>>
           \/ host = "qoder" /\ agents' \in {"none", "user"}
              /\ UNCHANGED <<packaged, payload, rec, legacy, shared>>
           \/ \E p \in (IF host = "kimi-code" THEN {0, 1} ELSE {1}) :
                 /\ host \in {"kimi-code", "claude-code"} /\ ~Busy /\ payload[p] = NoPayload
                 /\ payload' = [payload EXCEPT ![p].part = "foreign"]
                 /\ UNCHANGED <<packaged, rec, legacy, shared, agents>>
           \/ ~Busy /\ packaged' = packaged + 1
              /\ UNCHANGED <<payload, rec, legacy, shared, agents>>
  BY
     DEF Outside, OtherRegisters, Garbled, TurnedOff, UserAgent, ForeignDirectory, PackageUpdated,
         pluginFiles

\* What the invariants say of entries others can change allows for the change.
LEMMA OutsideStep ==
    ASSUME PluginInv, Outside
    PROVE  PluginInv'
  <1>0. /\ PluginTyped /\ PluginTyped' /\ UNCHANGED <<host, job, cut>> /\ meanwhile \subseteq meanwhile'
        /\ (Adding' <=> Adding) /\ (Removing' <=> Removing) /\ StepsLeft' = StepsLeft
    BY OutsideIs, TypedStep DEF PluginInv, PluginNext
  <1>1. /\ packaged \in 1 .. LastRelease /\ host \in Kinds5 /\ 1 \in 0 .. LastRelease
        /\ 0 \in 0 .. LastRelease /\ packaged' \in 1 .. LastRelease
        /\ payload \in [0 .. LastRelease -> [part : Parts, rel : 0 .. LastRelease]]
        /\ rec \in [active : 0 .. LastRelease, market : 0 .. LastRelease, known : {"none", "ours"},
                    switch : {"none", "on", "off"}, cached : 0 .. LastRelease]
    <2>1. 0 \in 0 .. LastRelease /\ 1 \in 0 .. LastRelease
      BY HostAssumption
    <2> QED
      BY <1>0, <2>1 DEF PluginTyped
  <1>2. ~Busy => ~Adding /\ ~Removing
    BY DEF Adding, Removing
  <1>3. ASSUME host = "zcode" PROVE ZcodeInv'
    <2>1. ZcodeInv /\ rec.switch = "none"
      BY <1>3 DEF PluginInv, ZcodeInv
    <2>2. UNCHANGED <<payload, rec, legacy, agents>> /\ (shared' = shared \/ "shared" \in meanwhile')
          /\ (packaged' = packaged \/ ~Busy)
      BY <1>0, <1>3, <2>1, OutsideActs
    <2>3. NothingForeign' /\ Editions'
      BY <1>0, <1>2, <2>1, <2>2 DEF ZcodeInv, NothingForeign, Editions
    <2>4. Adding => ZcodeAdding'
      BY <1>0, <1>2, <2>1, <2>2 DEF ZcodeInv, ZcodeAdding, DirReady
    <2>5. Removing => ~job'.full /\ ZcodeRemoving'
      BY <1>0, <1>2, <2>1, <2>2 DEF ZcodeInv, ZcodeRemoving, Emptied
    <2> QED
      BY <1>0, <2>1, <2>2, <2>3, <2>4, <2>5 DEF ZcodeInv
  <1>4. ASSUME host = "qoder" PROVE QoderInv'
    <2>1. QoderInv
      BY <1>4 DEF PluginInv
    <2>2. /\ UNCHANGED payload
          /\ rec' = rec \/ (rec.switch = "on" /\ rec' = [rec EXCEPT !.switch = "off"] /\ "switch" \in meanwhile')
          /\ packaged' = packaged \/ (~Busy /\ packaged' = packaged + 1)
      BY <1>0, <1>4, OutsideActs
    <2>3. NothingForeign' /\ Editions' /\ OnlyAt(1 .. packaged)'
      BY <1>0, <1>1, <1>2, <2>1, <2>2 DEF QoderInv, NothingForeign, Editions, OnlyAt
    <2>4. QoderRecorded'
      <3>1. CASE packaged' = packaged
        BY <1>0, <1>1, <2>1, <2>2, <3>1 DEF QoderInv, QoderRecorded
      <3>2. CASE packaged' = packaged + 1
        <4>1. packaged' \in (0 .. LastRelease) \ (1 .. packaged)
          BY <1>1, <3>2
        <4>2. payload[packaged'].part = "none"
          BY <2>1, <4>1 DEF QoderInv, OnlyAt
        <4> QED
          BY <2>2, <4>2 DEF QoderRecorded
      <3> QED
        BY <2>2, <3>1, <3>2
    <2>5. Adding /\ job.full => QoderAdding'
      BY <1>0, <1>1, <1>2, <2>1, <2>2 DEF QoderInv, QoderAdding, DirReady
    <2>6. Adding /\ ~job.full => QoderReusing'
      BY <1>0, <1>1, <1>2, <2>1, <2>2 DEF QoderInv, QoderReusing, DirReady
    <2>7. Removing => ~job.full /\ QoderRemoving'
      BY <1>0, <1>1, <1>2, <2>1, <2>2 DEF QoderInv, QoderRemoving, Emptied
    <2> QED
      BY <1>0, <1>1, <2>1, <2>2, <2>3, <2>4, <2>5, <2>6, <2>7 DEF QoderInv
  <1>5. ASSUME host = "kimi-code" PROVE KimiInv'
    <2>1. KimiInv /\ agents # "managed" /\ OnlyAt({0, 1})
      BY <1>5 DEF PluginInv, KimiInv
    <2>2. /\ UNCHANGED agents
          /\ packaged' = packaged \/ ~Busy
          /\ \/ UNCHANGED payload
             \/ ~Busy /\ \E p \in {0, 1} : payload' = [payload EXCEPT ![p].part = "foreign"]
      BY <1>0, <1>5, OutsideActs
    <2>3. OnlyAt({0, 1})'
      BY <1>1, <2>1, <2>2 DEF OnlyAt
    <2>4. Adding => job.full /\ KimiAdding'
      BY <1>0, <1>2, <2>1, <2>2 DEF KimiInv, KimiAdding, DirReady, NotForeign
    <2>5. Removing => KimiRemoving'
      BY <1>0, <1>2, <2>1, <2>2 DEF KimiInv, KimiRemoving, NotForeign
    <2> QED
      BY <1>0, <2>1, <2>2, <2>3, <2>4, <2>5 DEF KimiInv
  <1>6. ASSUME host = "claude-code" PROVE ClaudeInv'
    <2>1. ClaudeInv /\ agents # "managed" /\ OnlyAt({1}) /\ rec = NoRecord /\ payload[1].rel <= packaged
      BY <1>6 DEF PluginInv, ClaudeInv
    <2>2. /\ UNCHANGED <<rec, agents>>
          /\ packaged' = packaged \/ (~Busy /\ packaged' = packaged + 1 /\ UNCHANGED payload)
          /\ UNCHANGED payload \/ (~Busy /\ payload' = [payload EXCEPT ![1].part = "foreign"])
      BY <1>0, <1>6, <2>1, OutsideActs DEF NoRecord
    <2>3. OnlyAt({1})' /\ payload'[1].rel <= packaged'
      <3>1. OnlyAt({1})'
        BY <1>1, <2>1, <2>2 DEF OnlyAt
      <3>2. payload'[1].rel = payload[1].rel
        <4>1. CASE UNCHANGED payload
          BY <4>1
        <4>2. CASE payload' = [payload EXCEPT ![1].part = "foreign"]
          BY <1>1, <4>2
        <4> QED
          BY <2>2, <4>1, <4>2
      <3>3. packaged <= packaged'
        BY <1>1, <2>2
      <3>4. payload[1].rel \in 0 .. LastRelease
        BY <1>1
      <3> QED
        BY <1>1, <2>1, <3>1, <3>2, <3>3, <3>4
    <2>4. ClaudeWhole'
      <3>1. CASE packaged' = packaged /\ UNCHANGED payload
        BY <1>0, <2>1, <3>1 DEF ClaudeInv, ClaudeWhole, Named
      <3>2. CASE packaged' = packaged + 1 /\ UNCHANGED payload
        <4>1. payload'[1].rel # packaged'
          BY <1>1, <2>1, <3>2
        <4> QED
          BY <4>1 DEF ClaudeWhole
      <3>3. CASE payload' = [payload EXCEPT ![1].part = "foreign"]
        <4>1. payload'[1].part = "foreign"
          BY <1>1, <3>3
        <4> QED
          BY <4>1 DEF ClaudeWhole, Named
      <3> QED
        BY <2>2, <3>1, <3>2, <3>3
    <2>5. Adding => job.full /\ ClaudeAdding'
      BY <1>0, <1>2, <2>1, <2>2 DEF ClaudeInv, ClaudeAdding, NotForeign
    <2>6. Removing /\ StepsLeft <= 1 => NotForeign(1)'
      BY <1>0, <1>2, <2>1, <2>2 DEF ClaudeInv, NotForeign
    <2> QED
      BY <1>0, <2>1, <2>2, <2>3, <2>4, <2>5, <2>6 DEF ClaudeInv, NoRecord
  <1>7. ASSUME host = "codex" PROVE CodexInv'
    <2>1. CodexInv /\ agents # "managed" /\ OnlyAt({1}) /\ NothingForeign /\ rec.active = 0
      BY <1>7 DEF PluginInv, CodexInv
    <2>2. /\ UNCHANGED <<payload, agents>>
          /\ rec' = rec \/ (rec.switch = "on" /\ rec' = [rec EXCEPT !.switch = "off"])
          /\ packaged' = packaged \/ ~Busy
      BY <1>0, <1>7, OutsideActs
    <2>3. OnlyAt({1})' /\ NothingForeign'
      BY <2>1, <2>2 DEF OnlyAt, NothingForeign
    <2>4. Adding => job.full /\ CodexAdds'
      BY <1>0, <1>1, <1>2, <2>1, <2>2 DEF CodexInv, CodexAdds, DirReady
    <2>5. Removing /\ StepsLeft <= 1 => (rec.known = "none" /\ rec.switch = "none" /\ rec.cached = 0)'
      BY <1>0, <1>1, <2>1, <2>2 DEF CodexInv
    <2>6. rec'.active = 0
      BY <1>1, <2>1, <2>2
    <2> QED
      BY <1>0, <2>1, <2>2, <2>3, <2>4, <2>5, <2>6 DEF CodexInv
  <1> QED
    BY <1>0, <1>3, <1>4, <1>5, <1>6, <1>7 DEF PluginInv

-----------------------------------------------------------------------------
\* Every step keeps the invariant.
LEMMA CommandStep ==
    ASSUME PluginInv, CmdStep
    PROVE  PluginInv'
  <1>0. PluginTyped /\ PluginTyped' /\ Busy /\ host' = host /\ host \in Kinds5
    BY CommandGoes, TypedStep DEF PluginInv, PluginNext, Command, CmdStep, PluginTyped
  <1>1. Adding \/ Removing
    BY <1>0 DEF PluginTyped, Jobs, Busy, Adding, Removing
  <1>2. ASSUME host = "zcode" PROVE ZcodeInv'
    BY <1>0, <1>1, <1>2, ZcodeAddStep, ZcodeRemoveStep DEF PluginInv
  <1>3. ASSUME host = "qoder" PROVE QoderInv'
    BY <1>0, <1>1, <1>3, QoderAddStep, QoderReuseStep, QoderRemoveStep DEF PluginInv
  <1>4. ASSUME host = "kimi-code" PROVE KimiInv'
    BY <1>0, <1>1, <1>4, KimiAddStep, KimiRemoveStep DEF PluginInv
  <1>5. ASSUME host = "claude-code" PROVE ClaudeInv'
    BY <1>0, <1>1, <1>5, ClaudeAddStep, ClaudeRemoveStep DEF PluginInv
  <1>6. ASSUME host = "codex" PROVE CodexInv'
    BY <1>0, <1>1, <1>6, CodexAddStep, CodexRemoveStep DEF PluginInv
  <1> QED
    BY <1>0, <1>2, <1>3, <1>4, <1>5, <1>6 DEF PluginInv

LEMMA StartStep ==
    ASSUME PluginInv, NEW op \in {"add", "remove"}, NEW force \in BOOLEAN,
           NEW prune \in BOOLEAN,
           Start(op, force, prune)
    PROVE  PluginInv'
  <1>0. PluginTyped /\ host' = host
    BY DEF PluginInv, Start
  <1>1. PluginTyped'
    BY <1>0, TypedStep DEF PluginNext, Command
  <1> QED
    BY <1>0, <1>1, ZcodeStart, QoderStart, KimiStart, ClaudeStart, CodexStart DEF PluginInv

LEMMA StutterStep ==
    ASSUME PluginInv, UNCHANGED pluginVars
    PROVE  PluginInv'
  <1>0. PluginTyped /\ PluginTyped'
    BY TypedStep DEF PluginInv
  <1>1. UNCHANGED <<host, packaged, payload, rec, legacy, shared, others, agents, job, cut, meanwhile>>
    BY DEF pluginVars
  <1>2. (Adding' <=> Adding) /\ (Removing' <=> Removing) /\ StepsLeft' = StepsLeft
    BY <1>1 DEF Adding, Removing, Busy, StepsLeft
  <1>3. NothingForeign' <=> NothingForeign
    BY <1>1 DEF NothingForeign
  <1>4. Editions' <=> Editions
    BY <1>1, <1>2 DEF Editions
  <1>5. ZcodeInv => ZcodeInv'
    BY <1>1, <1>2, <1>3, <1>4 DEF ZcodeInv, ZcodeAdding, ZcodeRemoving, DirReady, Emptied
  <1>6. QoderInv => QoderInv'
    BY <1>1, <1>2, <1>3, <1>4
       DEF QoderInv, QoderAdding, QoderReusing, QoderRemoving, QoderRecorded,
       DirReady, Emptied, OnlyAt
  <1>7. KimiInv => KimiInv'
    BY <1>1, <1>2 DEF KimiInv, KimiAdding, KimiRemoving, DirReady, OnlyAt, NotForeign
  <1>8. ClaudeInv => ClaudeInv'
    BY <1>1, <1>2 DEF ClaudeInv, ClaudeAdding, ClaudeWhole, Named, OnlyAt, NotForeign
  <1>9. CodexInv => CodexInv'
    BY <1>1, <1>2, <1>3 DEF CodexInv, CodexAdds, DirReady, OnlyAt
  <1> QED
    BY <1>0, <1>1, <1>5, <1>6, <1>7, <1>8, <1>9 DEF PluginInv

LEMMA PluginStep ==
    ASSUME PluginInv, [PluginNext]_pluginVars
    PROVE  PluginInv'
  BY CommandStep, StartStep, InterruptedStep, OutsideStep, StutterStep
     DEF PluginNext, Command, CmdStep

LEMMA PluginStarts ==
    ASSUME PluginInit
    PROVE  PluginInv
  <1>1. ~Busy /\ ~Adding /\ ~Removing
    BY DEF PluginInit, Busy, NoCommand, Adding, Removing
  <1>2. \A p \in 0 .. LastRelease : payload[p] = NoPayload
    BY DEF PluginInit
  <1>3. 0 \in 0 .. LastRelease /\ 1 \in 0 .. LastRelease /\ 1 \in 1 .. LastRelease
    BY HostAssumption
  <1>4. PluginTyped
    <2>1. job \in Jobs
      BY IdleTyped DEF PluginInit
    <2>2. payload \in [0 .. LastRelease -> [part : Parts, rel : 0 .. LastRelease]]
      BY <1>3 DEF PluginInit, NoPayload, Parts
    <2>3. rec \in [active : 0 .. LastRelease, market : 0 .. LastRelease, known : {"none", "ours"},
                   switch : {"none", "on", "off"}, cached : 0 .. LastRelease]
      BY <1>3 DEF PluginInit, NoRecord
    <2>4. legacy \in BOOLEAN /\ acts \in Nat /\ shared \in {"ok", "broken"} /\ others \subseteq Others
          /\ agents \in {"none", "managed", "user"} /\ packaged \in 1 .. LastRelease /\ host \in Kinds5
      BY <1>3, HostAssumption DEF PluginInit, Kinds5
    <2> QED
      BY <1>1, <2>1, <2>2, <2>3, <2>4 DEF PluginTyped
  <1>5. NothingForeign /\ Editions /\ OnlyAt(1 .. packaged) /\ OnlyAt({0, 1}) /\ OnlyAt({1})
    BY <1>2 DEF NothingForeign, Editions, OnlyAt, NoPayload
  <1>6. /\ agents # "managed" /\ rec = NoRecord /\ rec.switch = "none" /\ rec.cached = 0
        /\ rec.market = 0 /\ rec.known = "none" /\ rec.active = 0
    BY DEF PluginInit, NoRecord
  <1>7. payload[1].rel <= packaged /\ ~Named(1) /\ payload[packaged].part = "none"
    BY <1>2, <1>3, <1>4 DEF NoPayload, Named, PluginTyped
  <1> QED
    BY <1>1, <1>4, <1>5, <1>6, <1>7
       DEF PluginInv, ZcodeInv, QoderInv, QoderRecorded, KimiInv, ClaudeInv, ClaudeWhole, CodexInv

\* At every moment of a host add or remove, the steps it has taken have left
\* what the ones to come rely on: an edition is complete or known as cut, no
\* entry is written before its payload, no foreign directory is behind a guard.
THEOREM PluginHolds == PluginSpec => []PluginInv
  <1>1. PluginInit => PluginInv
    BY PluginStarts
  <1>2. PluginInv /\ [PluginNext]_pluginVars => PluginInv'
    BY PluginStep
  <1> QED
    BY <1>1, <1>2, PTL DEF PluginSpec

-----------------------------------------------------------------------------
\* A command that reports success.

\* A success is reported by the last step of a script, or by claude-code's reuse.
LEMMA Completes ==
    ASSUME PluginInv, [PluginNext]_pluginVars, NEW op \in {"add", "remove"}, Completed(op)
    PROVE  /\ CmdStep /\ Busy /\ job.op = op /\ (Done \/ Skips) /\ PluginTyped /\ PluginTyped'
           /\ packaged' = packaged /\ host' = host /\ meanwhile' = meanwhile /\ job.rel = packaged
  <1>1. PluginTyped /\ PluginTyped' /\ Busy /\ ~Busy' /\ result' = "done" /\ job.op = op /\ job' # job
    BY PluginStep DEF PluginInv, Completed, Busy
  <1>2. ~Interrupted
    BY <1>1, InterruptedIs DEF StepFails
  <1>3. ~Outside /\ ~UNCHANGED pluginVars
    BY <1>1, OutsideIs DEF pluginVars
  <1>4. CmdStep
    BY <1>1, <1>2, <1>3 DEF PluginNext, Command, CmdStep, Start
  <1>5. (Goes \/ Done \/ StepFails \/ Skips) /\ UNCHANGED <<host, packaged, meanwhile>> /\ job.rel = packaged
    BY <1>1, <1>4, CommandGoes, Running
  <1> QED
    BY <1>1, <1>4, <1>5 DEF Goes, StepFails

\* What a host's add has delivered when its last step is done.
LEMMA ZcodeDelivers ==
    ASSUME PluginTyped, ZcodeInv, host = "zcode", Adding, CmdStep, Done, NEW r, r = packaged
    PROVE  Delivered(r)' \/ (~job.full /\ packaged \in cut)
  <1>0. /\ Busy /\ job.op = "add" /\ StepsLeft = 1 /\ UNCHANGED <<host, packaged>>
        /\ packaged \in 0 .. LastRelease /\ packaged # 0 /\ job.rel = packaged
        /\ payload \in [0 .. LastRelease -> [part : Parts, rel : 0 .. LastRelease]]
    BY Running DEF Adding, Done
  <1>1. Prune
    BY <1>0, ZcodeAddTurn
  <1>2. payload'[packaged] = payload[packaged] /\ UNCHANGED <<rec, legacy>>
    BY <1>0, <1>1 DEF Prune
  <1>3. /\ DirReady(packaged) \/ (~job.full /\ packaged \in cut)
        /\ rec.active = packaged /\ rec.known = "ours" /\ ~legacy
    BY <1>0 DEF ZcodeInv, ZcodeAdding
  <1>4. ASSUME DirReady(packaged) PROVE Delivered(r)'
    <2>1. payload'[r] = [part |-> "whole", rel |-> r] /\ rec'.active = r
          /\ rec'.known = "ours" /\ ~legacy' /\ host' = "zcode" /\ r # 0
      BY <1>0, <1>2, <1>3, <1>4 DEF DirReady
    <2>2. Inspect' = Facts("installed", r)
      BY <2>1 DEF Inspect, ZcodeFacts, Named, Facts
    <2>3. Place(r)' = r
      BY <2>1 DEF Place, ByRelease
    <2> QED
      BY <2>1, <2>2, <2>3 DEF Delivered
  <1> QED
    BY <1>3, <1>4

LEMMA QoderDelivers ==
    ASSUME PluginTyped, QoderInv, host = "qoder", Adding, CmdStep, Done, NEW r, r = packaged
    PROVE  Delivered(r)' \/ (~job.full /\ packaged \in cut) \/ shared' = "broken"
           \/ agents' # "managed" \/ "switch" \in meanwhile
  <1>0. /\ Busy /\ job.op = "add" /\ StepsLeft = 1 /\ UNCHANGED <<host, packaged>>
        /\ packaged \in 0 .. LastRelease /\ packaged # 0 /\ job.rel = packaged
        /\ payload \in [0 .. LastRelease -> [part : Parts, rel : 0 .. LastRelease]]
        /\ rec \in [active : 0 .. LastRelease, market : 0 .. LastRelease, known : {"none", "ours"},
                    switch : {"none", "on", "off"}, cached : 0 .. LastRelease]
    BY Running DEF Adding, Done
  <1>1. \/ ~job.full /\ packaged \in cut
        \/ "switch" \in meanwhile
        \/ payload'[r] = [part |-> "whole", rel |-> r] /\ rec'.active = r /\ rec'.switch = "on"
    <2>1. CASE job.full
      <3>1. QoderRecords /\ Head(job.todo).do = "enable"
        BY <1>0, <2>1, QoderAddTurn
      <3>2. rec' = [rec EXCEPT !.switch = "on"] /\ UNCHANGED payload
        BY <3>1 DEF QoderRecords, WriteSettings, At
      <3>3. DirReady(packaged) /\ rec.active = packaged
        BY <1>0, <2>1 DEF QoderInv, QoderAdding
      <3> QED
        BY <1>0, <3>2, <3>3 DEF DirReady
    <2>2. CASE ~job.full
      <3>1. StripBundled /\ Here = packaged
        BY <1>0, <2>2, QoderReuseTurn
      <3>2. UNCHANGED rec /\ payload' =
              [payload EXCEPT ![packaged].part = IF @ = "bundled" THEN "whole" ELSE @]
        BY <3>1 DEF StripBundled
      <3>3. DirReady(packaged) => payload'[packaged] = [part |-> "whole", rel |-> packaged]
        BY <1>0, <3>2 DEF DirReady
      <3>4. QoderReusing
        BY <2>2 DEF QoderInv
      <3> QED
        BY <2>2, <3>2, <3>3, <3>4 DEF QoderReusing
    <2> QED
      BY <2>1, <2>2
  <1>2. ASSUME payload'[r] = [part |-> "whole", rel |-> r] /\ rec'.active = r /\ rec'.switch = "on",
               shared' # "broken", agents' = "managed"
        PROVE  Delivered(r)'
    <2>1. host' = "qoder" /\ r # 0
      BY <1>0
    <2>2. Inspect' = Facts("installed", r)
      BY <1>2, <2>1 DEF Inspect, QoderFacts, Facts
    <2>3. Place(r)' = r
      BY <2>1 DEF Place, ByRelease
    <2> QED
      BY <1>2, <2>1, <2>2, <2>3 DEF Delivered
  <1> QED
    BY <1>1, <1>2

LEMMA KimiDelivers ==
    ASSUME PluginTyped, KimiInv, host = "kimi-code", Adding, CmdStep, Done, NEW r, r = packaged
    PROVE  Delivered(r)'
  <1>0. /\ Busy /\ job.op = "add" /\ StepsLeft = 1 /\ UNCHANGED <<host, packaged>> /\ result' = "done"
        /\ rec \in [active : 0 .. LastRelease, market : 0 .. LastRelease, known : {"none", "ours"},
                    switch : {"none", "on", "off"}, cached : 0 .. LastRelease]
    BY Running DEF Adding, Done
  <1>1. KimiRecord /\ Head(job.todo).do = "record"
    BY <1>0, KimiAddTurn
  <1>2. shared # "broken"
    BY <1>0, <1>1, CommandGoes DEF KimiRecord, StepFails
  <1>3. rec'.active = 1 /\ UNCHANGED <<payload, shared>>
    BY <1>0, <1>1, <1>2 DEF KimiRecord, At
  <1>4. payload'[1] = [part |-> "whole", rel |-> r] /\ shared' # "broken" /\ host' = "kimi-code"
    BY <1>0, <1>2, <1>3 DEF KimiInv, KimiAdding, DirReady
  <1>5. Inspect' = Facts("installed", r)
    BY <1>3, <1>4 DEF Inspect, KimiFacts, Facts
  <1>6. Place(r)' = 1
    BY <1>4 DEF Place, ByRelease
  <1> QED
    BY <1>4, <1>5, <1>6 DEF Delivered

LEMMA ClaudeDelivers ==
    ASSUME PluginTyped, ClaudeInv, host = "claude-code", Adding, CmdStep, Done \/ Skips, NEW r,
           r = packaged
    PROVE  Delivered(r)' \/ (packaged \in cut /\ ~job.force)
  <1>0. /\ Busy /\ job.op = "add" /\ UNCHANGED <<host, packaged>> /\ job.rel = packaged
        /\ payload \in [0 .. LastRelease -> [part : Parts, rel : 0 .. LastRelease]]
        /\ 1 \in 0 .. LastRelease
    BY Running DEF Adding
  <1>1. ASSUME payload'[1] = [part |-> "whole", rel |-> r] PROVE Delivered(r)'
    <2>1. host' = "claude-code"
      BY <1>0
    <2>2. Inspect' = Facts("installed", r)
      BY <1>1, <2>1 DEF Inspect, ClaudeFacts, Facts, Named
    <2>3. Place(r)' = 1
      BY <2>1 DEF Place, ByRelease
    <2> QED
      BY <1>1, <2>1, <2>2, <2>3 DEF Delivered
  <1>2. CASE Done
    <2>1. StepsLeft = 1 /\ result' = "done"
      BY <1>2 DEF Done
    <2>2. Stamp /\ Here = 1
      BY <1>0, <2>1, ClaudeAddTurn
    <2>3. payload' = [payload EXCEPT ![1].rel = packaged]
      BY <1>0, <2>1, <2>2, CommandGoes DEF Stamp, StepFails
    <2>4. payload[1].part = "whole"
      BY <1>0, <2>1 DEF ClaudeInv, ClaudeAdding
    <2>5. payload'[1] = [part |-> payload[1].part, rel |-> packaged]
      BY <1>0, <2>3
    <2> QED
      BY <1>1, <2>4, <2>5
  <1>3. CASE Skips
    <2>1. /\ UNCHANGED payload /\ Head(job.todo).do = "guard" /\ ~job.force
          /\ payload[Here].rel = packaged /\ Named(Here)
      BY <1>0, <1>3 DEF Skips, KeptAsIs, At
    <2>2. Here = 1
      <3>1. Head(job.todo).at = 1
        BY <1>0, <2>1, ClaudeAdd DEF Step
      <3> QED
        BY <3>1 DEF Here
    <2>3. payload[1].part = "whole" \/ packaged \in cut
      BY <2>1, <2>2 DEF ClaudeInv, ClaudeWhole
    <2>4. payload[1].part = "whole" => payload[1] = [part |-> "whole", rel |-> r]
      BY <1>0, <2>1, <2>2
    <2> QED
      BY <1>1, <2>1, <2>3, <2>4
  <1> QED
    BY <1>2, <1>3

LEMMA CodexDelivers ==
    ASSUME PluginTyped, CodexInv, host = "codex", Adding, CmdStep, Done, NEW r, r = packaged
    PROVE  Delivered(r)'
  <1>0. /\ Busy /\ job.op = "add" /\ StepsLeft = 1 /\ UNCHANGED <<host, packaged>> /\ result' = "done"
        /\ rec \in [active : 0 .. LastRelease, market : 0 .. LastRelease, known : {"none", "ours"},
                    switch : {"none", "on", "off"}, cached : 0 .. LastRelease]
    BY Running DEF Adding, Done
  <1>1. CodexAdd /\ Head(job.todo).do = "plug"
    BY <1>0, CodexAddTurn
  <1>2. /\ UNCHANGED payload
        /\ rec' = rec \/ rec' = [rec EXCEPT !.cached = payload[1].rel, !.switch = "on"]
    BY <1>1 DEF CodexAdd, At
  <1>3. payload'[1] = [part |-> "whole", rel |-> r] /\ rec'.known = "ours" /\ host' = "codex"
    <2>1. payload[1] = [part |-> "whole", rel |-> packaged] /\ rec.known = "ours"
      BY <1>0 DEF CodexInv, CodexAdds, DirReady
    <2>2. rec'.known = rec.known
      BY <1>0, <1>2
    <2> QED
      BY <1>0, <1>2, <2>1, <2>2
  <1>4. Inspect' = Facts("installed", r)
    BY <1>3 DEF Inspect, CodexFacts, Facts, Named
  <1>5. Place(r)' = 1
    BY <1>3 DEF Place, ByRelease
  <1> QED
    BY <1>3, <1>4, <1>5 DEF Delivered

\* Only an add of claude-code keeps what is there and is done.
LEMMA Skipping ==
    ASSUME Skips
    PROVE  host = "claude-code" /\ job.op = "add"
  BY DEF Skips, KeptAsIs

\* A cwf host add that reports success has delivered a complete payload that
\* host inspect finds at the package's release, but for the reuses and the acts
\* of the user that AddDelivers names.
THEOREM AddsDeliver == PluginSpec => AddDelivers
  <1>1. ASSUME PluginInv, [PluginNext]_pluginVars, Completed("add")
        PROVE  \/ \E r \in {job.rel} : Delivered(r)'
               \/ ~job.full /\ job.rel \in cut
               \/ host = "claude-code" /\ job.rel \in cut /\ ~job.force
               \/ host = "qoder" /\ (shared' = "broken" \/ agents' # "managed" \/ "switch" \in meanwhile)
    <2>1. CmdStep /\ Busy /\ job.op = "add" /\ (Done \/ Skips) /\ PluginTyped /\ job.rel = packaged
      BY <1>1, Completes
    <2>2. Adding /\ host \in Kinds5
      BY <2>1 DEF Adding, PluginTyped
    <2>3. CASE host = "zcode"
      BY <1>1, <2>1, <2>2, <2>3, ZcodeDelivers, Skipping DEF PluginInv
    <2>4. CASE host = "qoder"
      BY <1>1, <2>1, <2>2, <2>4, QoderDelivers, Skipping DEF PluginInv
    <2>5. CASE host = "kimi-code"
      BY <1>1, <2>1, <2>2, <2>5, KimiDelivers, Skipping DEF PluginInv
    <2>6. CASE host = "claude-code"
      BY <1>1, <2>1, <2>2, <2>6, ClaudeDelivers DEF PluginInv
    <2>7. CASE host = "codex"
      BY <1>1, <2>1, <2>2, <2>7, CodexDelivers, Skipping DEF PluginInv
    <2> QED
      BY <2>2, <2>3, <2>4, <2>5, <2>6, <2>7 DEF Kinds5
  <1> QED
    BY <1>1, PluginHolds, PTL DEF PluginSpec, AddDelivers

-----------------------------------------------------------------------------
\* What a command leaves of what is not ours.

\* A command wipes or overwrites a place only behind its guard.
LEMMA WipesItsOwn ==
    ASSUME PluginInv, Busy, Head(job.todo).do \in {"wipe", "copy"}
    PROVE  NotForeign(Here)
  <1>0. PluginTyped /\ host \in Kinds5 /\ Here \in 0 .. LastRelease /\ job.op \in {"add", "remove"}
    BY HereIs DEF PluginInv, PluginTyped, Jobs, Busy
  <1>1. CASE host \in {"zcode", "qoder", "codex"}
    <2>1. NothingForeign
      BY <1>1 DEF PluginInv, ZcodeInv, QoderInv, CodexInv
    <2> QED
      BY <1>0, <2>1 DEF NothingForeign, NotForeign
  <1>2. CASE host = "kimi-code" /\ job.op = "add"
    <2>1. KimiAdding
      BY <1>2 DEF PluginInv, KimiInv, Adding
    <2>2. StepsLeft \in 1 .. 9
      BY <1>0, <1>2, KimiAdd
    <2>3. StepsLeft \in {3, 4, 7, 8}
      BY <1>0, <1>2, <2>2, KimiAdd DEF Step, Do
    <2>4. StepsLeft \in {7, 8} => Here = 0
      BY <1>0, <1>2, KimiAdd DEF Step, Here
    <2>5. StepsLeft \in {3, 4} => Here = 1
      BY <1>0, <1>2, KimiAdd DEF Step, Here
    <2> QED
      BY <2>1, <2>3, <2>4, <2>5 DEF KimiAdding
  <1>3. CASE host = "kimi-code" /\ job.op = "remove"
    <2>1. KimiRemoving
      BY <1>3 DEF PluginInv, KimiInv, Removing
    <2>2. StepsLeft \in 1 .. 5
      BY <1>0, <1>3, KimiRemove
    <2>3. StepsLeft \in {2, 4}
      BY <1>0, <1>3, <2>2, KimiRemove DEF Step, Do
    <2>4. (StepsLeft = 4 => Here = 1) /\ (StepsLeft = 2 => Here = 0)
      BY <1>0, <1>3, KimiRemove DEF Step, Here
    <2> QED
      BY <2>1, <2>3, <2>4 DEF KimiRemoving
  <1>4. CASE host = "claude-code" /\ job.op = "add"
    <2>1. ClaudeAdding
      BY <1>4 DEF PluginInv, ClaudeInv, Adding
    <2>2. StepsLeft \in 1 .. 4 /\ Here = 1 /\ StepsLeft \in {2, 3}
      BY <1>0, <1>4, ClaudeAdd DEF Step, Do, Here
    <2> QED
      BY <2>1, <2>2 DEF ClaudeAdding
  <1>5. CASE host = "claude-code" /\ job.op = "remove"
    <2>1. StepsLeft = 1 /\ Here = 1
      BY <1>0, <1>5, ClaudeRemove DEF Step, Do, Here
    <2> QED
      BY <1>5, <2>1 DEF PluginInv, ClaudeInv, Removing
  <1> QED
    BY <1>0, <1>1, <1>2, <1>3, <1>4, <1>5 DEF Kinds5

\* A directory of someone else goes.
LostForeign(p) == payload[p].part = "foreign" /\ payload'[p].part # "foreign"

\* No step of a command takes one without --force, and nobody else does.
LEMMA ForeignInCommand ==
    ASSUME PluginInv, CmdStep, NEW p \in DOMAIN payload, LostForeign(p)
    PROVE  job.force
  <1>0. /\ Busy /\ PluginTyped /\ payload \in [0 .. LastRelease -> [part : Parts, rel : 0 .. LastRelease]]
        /\ Here \in 0 .. LastRelease /\ p \in 0 .. LastRelease /\ 1 \in 0 .. LastRelease
    BY Running, HereIs DEF PluginInv
  <1>1. host \in {"zcode", "qoder", "codex"} => payload[p].part # "foreign"
    BY <1>0 DEF PluginInv, ZcodeInv, QoderInv, CodexInv, NothingForeign
  <1>2. host \in {"kimi-code", "claude-code"}
    BY <1>0, <1>1 DEF PluginTyped, Kinds5, LostForeign
  <1>3. ASSUME NEW d, Head(job.todo).do = d,
               d \in {"rmcache", "prune", "unplug", "rmroot"}
        PROVE  FALSE
    BY <1>0, <1>2, <1>3, WhereItWrites
  <1>4. ASSUME Wipe PROVE p = Here /\ Head(job.todo).do = "wipe"
    BY <1>0, <1>4 DEF Wipe, At, LostForeign
  <1>5. ASSUME Copy PROVE p = Here /\ Head(job.todo).do = "copy"
    BY <1>0, <1>5 DEF Copy, At, LostForeign
  <1>6. ~Stamp
    <2>1. Stamp => payload' = payload \/ payload' = [payload EXCEPT ![Here].rel = job.rel]
      BY DEF Stamp
    <2>2. payload' = [payload EXCEPT ![Here].rel = job.rel] => payload'[p].part = payload[p].part
      BY <1>0
    <2> QED
      BY <2>1, <2>2 DEF LostForeign
  <1>7. ~StripBundled
    BY <1>0 DEF StripBundled, LostForeign
  <1>8. ~Prune /\ ~RemoveCache /\ ~CodexRemove
    BY <1>3 DEF Prune, RemoveCache, CodexRemove, At
  <1>9. ~Guard /\ ~SyncAgents /\ ~QoderRecords /\ ~ZcodeRecords /\ ~RemoveAgents /\ ~KimiRecord
        /\ ~CodexAdd
    BY
       DEF Guard, pluginFiles, SyncAgents, QoderRecords, ZcodeRecords, RemoveAgents, KimiRecord, CodexAdd,
           LostForeign
  <1>10. p = Here /\ Head(job.todo).do \in {"wipe", "copy"}
    BY <1>4, <1>5, <1>6, <1>7, <1>8, <1>9 DEF CmdStep
  <1> QED
    BY <1>0, <1>10, WipesItsOwn DEF NotForeign, LostForeign

LEMMA ForeignInStep ==
    ASSUME PluginInv, [PluginNext]_pluginVars, NEW p \in DOMAIN payload, LostForeign(p)
    PROVE  job.force
  <1>0. /\ PluginTyped /\ payload \in [0 .. LastRelease -> [part : Parts, rel : 0 .. LastRelease]]
        /\ p \in 0 .. LastRelease
    BY DEF PluginInv, PluginTyped
  <1>1. CASE CmdStep
    BY <1>1, ForeignInCommand
  <1>2. CASE Interrupted
    <2>1. payload'[p] # payload[p] /\ Busy
      BY <1>2, InterruptedIs, <1>0 DEF LostForeign
    <2>2. ((At("wipe") \/ At("copy")) /\ p = Here) \/ At("rmcache")
      BY <1>0, <1>2, <2>1, InterruptedLeaves
    <2>3. CASE At("rmcache")
      <3>1. host \in {"zcode", "qoder"}
        BY <1>0, <2>1, <2>3, WhereItWrites DEF At
      <3> QED
        BY <1>0, <3>1 DEF PluginInv, ZcodeInv, QoderInv, NothingForeign, LostForeign
    <2>4. CASE (At("wipe") \/ At("copy")) /\ p = Here
      BY <2>1, <2>4, WipesItsOwn DEF At, NotForeign, LostForeign
    <2> QED
      BY <2>2, <2>3, <2>4
  <1>3. CASE Outside
    <2>1. \/ UNCHANGED payload
          \/ \E q : payload' = [payload EXCEPT ![q].part = "foreign"]
      BY <1>0, <1>3, OutsideActs
    <2> QED
      BY <1>0, <2>1 DEF LostForeign
  <1>4. payload' = payload => FALSE
    BY DEF LostForeign
  <1>5. ASSUME NEW op \in {"add", "remove"}, NEW force \in BOOLEAN, NEW prune \in BOOLEAN,
               Start(op, force, prune)
        PROVE  FALSE
    BY <1>4, <1>5 DEF Start, pluginFiles
  <1>6. CASE UNCHANGED pluginVars
    BY <1>4, <1>6 DEF pluginVars
  <1> QED
    BY <1>1, <1>2, <1>3, <1>5, <1>6 DEF PluginNext, Command, CmdStep

\* Entries of others stay, but for Qoder's stale write and zcode's unread list.
OthersSafe == \/ others \subseteq others'
              \/ host = "qoder" /\ others \ others' \subseteq meanwhile
              \/ host = "zcode" /\ shared = "broken"

LEMMA OthersInStep ==
    ASSUME PluginInv, [PluginNext]_pluginVars
    PROVE  OthersSafe
  <1>0. PluginTyped
    BY DEF PluginInv
  <1>1. CASE CmdStep
    <2>0. Busy /\ others \subseteq job.view.others \cup meanwhile
      BY <1>0, <1>1, CommandGoes DEF PluginTyped
    <2>1. ASSUME QoderRecords PROVE OthersSafe
      <3>1. host = "qoder"
        BY <1>0, <2>0, <2>1, WhereItWrites DEF QoderRecords, At
      <3>2. others \ others' \subseteq meanwhile
        BY <2>0, <2>1 DEF QoderRecords, WriteRegistry, WriteSettings
      <3> QED
        BY <3>1, <3>2 DEF OthersSafe
    <2>2. ASSUME ZcodeRecords PROVE OthersSafe
      <3>1. Head(job.todo).do = "known" => host = "zcode"
        BY <1>0, <2>0, WhereItWrites
      <3>2. others' = others \/ (Head(job.todo).do = "known" /\ shared = "broken")
        BY <2>2 DEF ZcodeRecords, At
      <3> QED
        BY <3>1, <3>2 DEF OthersSafe
    <2>3. ASSUME ~QoderRecords, ~ZcodeRecords PROVE others' = others
      BY <1>1, <2>3
         DEF CmdStep, Guard, pluginFiles, Wipe, Copy, Stamp, SyncAgents, StripBundled, Prune,
         RemoveCache, RemoveAgents, KimiRecord, CodexAdd, CodexRemove
    <2> QED
      BY <2>1, <2>2, <2>3 DEF OthersSafe
  <1>2. CASE Interrupted
    BY <1>0, <1>2, InterruptedIs DEF OthersSafe
  <1>3. CASE Outside
    BY <1>0, <1>3, OutsideIs DEF OthersSafe
  <1>4. ASSUME NEW op \in {"add", "remove"}, NEW force \in BOOLEAN, NEW prune \in BOOLEAN,
               Start(op, force, prune)
        PROVE  OthersSafe
    BY <1>4 DEF Start, pluginFiles, OthersSafe
  <1>5. CASE UNCHANGED pluginVars
    BY <1>5 DEF pluginVars, OthersSafe
  <1> QED
    BY <1>1, <1>2, <1>3, <1>4, <1>5 DEF PluginNext, Command, CmdStep

\* A command leaves an agent of the user alone.
LEMMA UserAgentsInStep ==
    ASSUME PluginInv, [PluginNext]_pluginVars, Busy, agents = "user"
    PROVE  agents' = "user" \/ acts' # acts
  <1>0. PluginTyped
    BY DEF PluginInv
  <1>1. CASE CmdStep
    BY <1>1 DEF CmdStep, Guard, pluginFiles, Wipe, Copy, Stamp, SyncAgents, StripBundled, Prune,
       RemoveCache, RemoveAgents, KimiRecord, CodexAdd, CodexRemove, QoderRecords, ZcodeRecords
  <1>2. CASE Interrupted
    BY <1>0, <1>2, InterruptedIs
  <1>3. CASE Outside
    <2>1. acts' = acts + 1 /\ acts \in Nat
      BY <1>0, <1>3, OutsideIs DEF PluginTyped
    <2> QED
      BY <2>1
  <1>4. ASSUME NEW op \in {"add", "remove"}, NEW force \in BOOLEAN, NEW prune \in BOOLEAN,
               Start(op, force, prune)
        PROVE  FALSE
    BY <1>4 DEF Start
  <1>5. CASE UNCHANGED pluginVars
    BY <1>5 DEF pluginVars
  <1> QED
    BY <1>1, <1>2, <1>3, <1>4, <1>5 DEF PluginNext, Command, CmdStep

\* What is not ours survives every command: entries of other plugins but for the
\* two writes ForeignKept names, foreign directories without --force, and the
\* user's own agents.
THEOREM ForeignIsKept == PluginSpec => ForeignKept
  <1>1. ASSUME PluginInv, [PluginNext]_pluginVars
        PROVE  /\ others \subseteq others' \/ (host = "qoder" /\ others \ others' \subseteq meanwhile)
                                           \/ (host = "zcode" /\ shared = "broken")
               /\ \A p \in DOMAIN payload :
                    payload[p].part = "foreign" /\ payload'[p].part # "foreign" => job.force
               /\ Busy /\ agents = "user" => agents' = "user" \/ acts' # acts
    BY <1>1, OthersInStep, ForeignInStep, UserAgentsInStep DEF OthersSafe, LostForeign
  <1> QED
    BY <1>1, PluginHolds, PTL DEF PluginSpec, ForeignKept

-----------------------------------------------------------------------------
\* What a remove leaves of ours.

\* What RemoveLeavesNothing asks for, of this step.
Gone == /\ \A p \in 0 .. LastRelease : payload'[p].part = "none"
        /\ agents' # "managed"
        /\ rec' = [NoRecord EXCEPT !.known = IF host = "zcode" THEN rec'.known ELSE "none"]
        /\ rec'.known = "none" \/ shared' = "broken" \/ "shared" \in meanwhile

\* A record without an entry of ours, field by field.
LEMMA RecordIs ==
    ASSUME PluginTyped', rec'.active = 0, rec'.market = 0, rec'.switch = "none",
           rec'.cached = 0,
           rec'.known = "none" \/ host = "zcode"
    PROVE  rec' = [NoRecord EXCEPT !.known = IF host = "zcode" THEN rec'.known ELSE "none"]
  BY DEF PluginTyped, NoRecord

\* What the last step of a host's remove leaves.
LEMMA ZcodeGone ==
    ASSUME PluginTyped, PluginTyped', ZcodeInv, host = "zcode", Removing, CmdStep, Done
    PROVE  Gone
  <1>0. /\ Busy /\ job.op = "remove" /\ StepsLeft = 1 /\ UNCHANGED meanwhile
        /\ rec \in [active : 0 .. LastRelease, market : 0 .. LastRelease, known : {"none", "ours"},
                    switch : {"none", "on", "off"}, cached : 0 .. LastRelease]
    BY Running DEF Removing, Done
  <1>1. ZcodeRecords /\ Head(job.todo).do = "rmactive"
    BY <1>0, ZcodeRemoveTurn
  <1>2. rec' = [rec EXCEPT !.active = 0] /\ UNCHANGED <<payload, agents, shared>>
    BY <1>1 DEF ZcodeRecords, At
  <1>3. /\ Emptied /\ rec.market = 0 /\ rec.switch = "none" /\ rec.cached = 0 /\ agents # "managed"
        /\ rec.known = "none" \/ shared = "broken" \/ "shared" \in meanwhile
    BY <1>0 DEF ZcodeInv, ZcodeRemoving
  <1>4. rec'.active = 0 /\ rec'.market = 0 /\ rec'.switch = "none" /\ rec'.cached = 0
        /\ rec'.known = rec.known
    BY <1>0, <1>2, <1>3
  <1> QED
    BY <1>0, <1>2, <1>3, <1>4, RecordIs DEF Gone, Emptied

LEMMA QoderGone ==
    ASSUME PluginTyped, PluginTyped', QoderInv, host = "qoder", Removing, CmdStep, Done
    PROVE  Gone
  <1>0. Busy /\ job.op = "remove" /\ StepsLeft = 1
    BY Running DEF Removing, Done
  <1>1. RemoveAgents
    BY <1>0, QoderRemoveTurn
  <1>2. agents' # "managed" /\ UNCHANGED <<payload, rec>>
    BY <1>1 DEF RemoveAgents
  <1>3. /\ Emptied /\ rec.active = 0 /\ rec.market = 0 /\ rec.switch = "none" /\ rec.cached = 0
        /\ rec.known = "none"
    BY <1>0 DEF QoderInv, QoderRemoving
  <1>4. rec' = [NoRecord EXCEPT !.known = IF host = "zcode" THEN rec'.known ELSE "none"]
    BY <1>2, <1>3, RecordIs
  <1> QED
    BY <1>2, <1>3, <1>4 DEF Gone, Emptied

LEMMA KimiGone ==
    ASSUME PluginTyped, PluginTyped', KimiInv, host = "kimi-code", Removing, CmdStep, Done
    PROVE  Gone
  <1>0. Busy /\ job.op = "remove" /\ StepsLeft = 1 /\ result' = "done"
    BY Running DEF Removing, Done
  <1>1. KimiRecord /\ Head(job.todo).do = "unrecord"
    BY <1>0, KimiRemoveTurn
  <1>2. shared # "broken"
    BY <1>0, <1>1, CommandGoes DEF KimiRecord, StepFails
  <1>3. rec' = NoRecord /\ UNCHANGED <<payload, agents>>
    BY <1>0, <1>1, <1>2 DEF KimiRecord, At
  <1>4. \A p \in 0 .. LastRelease : payload[p].part = "none"
    BY <1>0 DEF KimiInv, KimiRemoving, OnlyAt
  <1>5. rec'.active = 0 /\ rec'.market = 0 /\ rec'.switch = "none" /\ rec'.cached = 0
        /\ rec'.known = "none"
    BY <1>3 DEF NoRecord
  <1> QED
    BY <1>3, <1>4, <1>5, RecordIs DEF Gone, KimiInv

LEMMA ClaudeGone ==
    ASSUME PluginTyped, PluginTyped', ClaudeInv, host = "claude-code", Removing, CmdStep, Done
    PROVE  Gone
  <1>0. /\ Busy /\ job.op = "remove" /\ StepsLeft = 1
        /\ payload \in [0 .. LastRelease -> [part : Parts, rel : 0 .. LastRelease]]
    BY Running DEF Removing, Done
  <1>1. Wipe /\ Here = 1
    BY <1>0, ClaudeRemoveTurn
  <1>2. payload' = [payload EXCEPT ![1] = NoPayload] /\ UNCHANGED <<rec, agents>>
    BY <1>1 DEF Wipe
  <1>3. \A p \in 0 .. LastRelease : payload'[p].part = "none"
    BY <1>0, <1>2 DEF ClaudeInv, OnlyAt, NoPayload
  <1>4. rec'.active = 0 /\ rec'.market = 0 /\ rec'.switch = "none" /\ rec'.cached = 0
        /\ rec'.known = "none"
    BY <1>2 DEF ClaudeInv, NoRecord
  <1> QED
    BY <1>2, <1>3, <1>4, RecordIs DEF Gone, ClaudeInv

LEMMA CodexGone ==
    ASSUME PluginTyped, PluginTyped', CodexInv, host = "codex", Removing, CmdStep, Done
    PROVE  Gone
  <1>0. /\ Busy /\ job.op = "remove" /\ StepsLeft = 1
        /\ payload \in [0 .. LastRelease -> [part : Parts, rel : 0 .. LastRelease]]
        /\ rec \in [active : 0 .. LastRelease, market : 0 .. LastRelease, known : {"none", "ours"},
                    switch : {"none", "on", "off"}, cached : 0 .. LastRelease]
        /\ 0 \in 0 .. LastRelease
    BY Running DEF Removing, Done
  <1>1. CodexRemove /\ Head(job.todo).do = "rmroot"
    BY <1>0, CodexRemoveTurn
  <1>2. payload' = [payload EXCEPT ![1] = NoPayload] /\ UNCHANGED agents
        /\ rec' = [rec EXCEPT !.market = 0]
    BY <1>1 DEF CodexRemove, At
  <1>3. \A p \in 0 .. LastRelease : payload'[p].part = "none"
    BY <1>0, <1>2 DEF CodexInv, OnlyAt, NoPayload
  <1>4. rec.active = 0 /\ rec.switch = "none" /\ rec.cached = 0 /\ rec.known = "none"
    BY <1>0 DEF CodexInv
  <1>5. rec'.active = 0 /\ rec'.market = 0 /\ rec'.switch = "none" /\ rec'.cached = 0
        /\ rec'.known = "none"
    BY <1>0, <1>2, <1>4
  <1> QED
    BY <1>2, <1>3, <1>5, RecordIs DEF Gone, CodexInv

\* An entry in zcode's older marketplace: no step makes one, on no other host.
LegacyInv == legacy => host = "zcode"

LEMMA LegacyInStep ==
    ASSUME [PluginNext]_pluginVars
    PROVE  UNCHANGED host /\ (legacy' => legacy)
  <1>1. CASE CmdStep
    <2>1. CASE Guard
      BY <2>1 DEF Guard, Working, pluginFiles
    <2>2. CASE Wipe
      BY <2>2 DEF Wipe, Working
    <2>3. CASE Copy
      BY <2>3 DEF Copy, Working
    <2>4. CASE Stamp
      BY <2>4 DEF Stamp, Working
    <2>5. CASE SyncAgents \/ RemoveAgents
      BY <2>5 DEF SyncAgents, RemoveAgents, Working
    <2>6. CASE StripBundled
      BY <2>6 DEF StripBundled, Working
    <2>7. CASE QoderRecords \/ KimiRecord
      BY <2>7 DEF QoderRecords, KimiRecord, Working
    <2>8. CASE ZcodeRecords
      BY <2>8 DEF ZcodeRecords, Working
    <2>9. CASE Prune \/ RemoveCache
      BY <2>9 DEF Prune, RemoveCache, Working
    <2>10. CASE CodexAdd
      BY <2>10, Zenon DEF CodexAdd, Working
    <2>11. CASE CodexRemove
      BY <2>11, Zenon DEF CodexRemove, Working
    <2> QED
      BY <1>1, <2>1, <2>2, <2>3, <2>4, <2>5, <2>6, <2>7, <2>8, <2>9, <2>10, <2>11 DEF CmdStep
  <1>2. CASE Interrupted
    BY <1>2 DEF Interrupted
  <1>3. CASE Outside
    BY <1>3 DEF Outside, OutsideAct, OtherRegisters, Garbled, TurnedOff, UserAgent,
       ForeignDirectory, PackageUpdated, pluginFiles
  <1>4. ASSUME NEW op \in {"add", "remove"}, NEW force \in BOOLEAN, NEW prune \in BOOLEAN,
               Start(op, force, prune)
        PROVE  UNCHANGED host /\ (legacy' => legacy)
    BY <1>4 DEF Start, pluginFiles
  <1>5. CASE UNCHANGED pluginVars
    BY <1>5 DEF pluginVars
  <1> QED
    BY <1>1, <1>2, <1>3, <1>4, <1>5 DEF PluginNext, Command, CmdStep

LEMMA LegacyHolds == PluginSpec => []LegacyInv
  <1>1. PluginInit => LegacyInv
    BY DEF PluginInit, LegacyInv
  <1>2. LegacyInv /\ [PluginNext]_pluginVars => LegacyInv'
    BY LegacyInStep DEF LegacyInv
  <1> QED
    BY <1>1, <1>2, PTL DEF PluginSpec

\* A cwf host remove that reports success has left neither payload nor entry of
\* ours, but in a list of zcode's that could not be read and in zcode's older
\* marketplace, where it leaves the entry it found.
THEOREM RemovesLeaveNothing == PluginSpec => RemoveLeavesNothing
  <1>1. ASSUME PluginInv, LegacyInv, [PluginNext]_pluginVars, Completed("remove")
        PROVE  /\ \A p \in DOMAIN payload : payload'[p].part = "none"
               /\ agents' # "managed"
               /\ rec' = [NoRecord EXCEPT !.known = IF host = "zcode" THEN rec'.known ELSE "none"]
               /\ rec'.known = "none" \/ shared' = "broken" \/ "shared" \in meanwhile
               /\ legacy' => host = "zcode" /\ legacy
    <2>1. CmdStep /\ Busy /\ job.op = "remove" /\ Done /\ PluginTyped /\ PluginTyped'
      BY <1>1, Completes, Skipping
    <2>2. Removing /\ host \in Kinds5 /\ DOMAIN payload = 0 .. LastRelease
      BY <2>1 DEF Removing, PluginTyped
    <2>3. Gone
      BY <1>1, <2>1, <2>2, ZcodeGone, QoderGone, KimiGone, ClaudeGone, CodexGone
         DEF PluginInv, Kinds5
    <2> QED
      BY <1>1, <2>2, <2>3, LegacyInStep DEF Gone, LegacyInv
  <1> QED
    BY <1>1, PluginHolds, LegacyHolds, PTL DEF PluginSpec, RemoveLeavesNothing
=============================================================================
