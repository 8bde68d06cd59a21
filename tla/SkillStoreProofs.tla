-------------------------- MODULE SkillStoreProofs --------------------------
(***************************************************************************)
(* Proofs about the Skill store, for every set of processes, Skills,       *)
(* targets and commands and for every bound: first its types, then what it *)
(* must never do.  Layout and Progress of SkillStoreInv are inductive;     *)
(* every step but the commit and the user's writes leaves the recovered    *)
(* store alone (Unseen); and the commit puts the new lock document over    *)
(* files that already are what it records.  At the end, that the store     *)
(* implements AtomicStore.                                                 *)
(***************************************************************************)
EXTENDS SkillStoreInv, TLAPS

(* The document a missing lockfile reads as is a lock document.            *)
LEMMA InitialDocType == InitialDoc \in Docs
BY DEF InitialDoc, Docs, EntryOrNone

(* read_lock returns a lock document, whether or not the file exists.      *)
LEMMA ReadLockType ==
  ASSUME lockfile \in Docs \cup {None}
  PROVE  ReadLock \in Docs
BY InitialDocType DEF ReadLock

(* What a document records for a place is a value a place can have.        *)
LEMMA RecordedType ==
  ASSUME NEW doc \in Docs, NEW pl \in Places
  PROVE  Recorded(doc, pl) \in Values
<1>1. pl[1] \in Skills /\ pl[2] \in Roots \cup {Store}
  BY DEF Places
<1>2. doc.skills[pl[1]] \in Entries \cup {None}
  BY <1>1 DEF Docs, EntryOrNone
<1> QED
  BY <1>1, <1>2 DEF Recorded, Values, Trees, Entries

(* The document a command asks for is a lock document again.               *)
LEMMA RequestedType ==
  ASSUME NEW r \in Requests, NEW doc \in Docs, clock \in Nat
  PROVE  Requested(r, doc) \in Docs
<1>1. r \in RequestSpace
  BY RequestsAssumption
<1> QED
  BY <1>1 DEF Requested, Docs, RequestSpace

(* The types hold in the empty store.                                      *)
LEMMA TypeInit == Init => TypeOK
<1> SUFFICES ASSUME Init PROVE TypeOK
  OBVIOUS
<1>1. FilesTypeOK
  BY DEF Init, FilesTypeOK, Values, Trees
<1>2. RecordsTypeOK
  BY DEF Init, RecordsTypeOK
<1>3. CommandTypeOK
  BY InitialDocType DEF Init, CommandTypeOK
<1>4. BoundsOK
  BY BoundsAssumption DEF Init, BoundsOK
<1> QED
  BY <1>1, <1>2, <1>3, <1>4 DEF TypeOK

(* Every step of recover_locked keeps the types.                           *)
LEMMA RecoveryTypes == TypeOK /\ Recovery => TypeOK'
<1> SUFFICES ASSUME TypeOK, Recovery PROVE TypeOK'
  OBVIOUS
<1> USE DEF TypeOK, disk, locks, journals, command, bounds
<1>1. CASE CleanupOrphanJournalStages
  BY <1>1
    DEF CleanupOrphanJournalStages, FilesTypeOK, RecordsTypeOK, CommandTypeOK,
        BoundsOK
<1>2. CASE RecoverNothing
  BY <1>2
    DEF RecoverNothing, FilesTypeOK, RecordsTypeOK, CommandTypeOK, BoundsOK
<1>3. CASE RecoverUnreadable
  BY <1>3, InitialDocType
    DEF RecoverUnreadable, Release, FilesTypeOK, RecordsTypeOK, CommandTypeOK,
        BoundsOK
<1>4. CASE RecoverPending
  BY <1>4
    DEF RecoverPending, FilesTypeOK, RecordsTypeOK, CommandTypeOK, BoundsOK
<1>5. ASSUME NEW pl \in Places, RestoreRemoveStage(pl) PROVE TypeOK'
  BY <1>5
    DEF RestoreRemoveStage, Values, FilesTypeOK, RecordsTypeOK, CommandTypeOK,
        BoundsOK
<1>6. ASSUME NEW pl \in Places, RestoreRemoveDest(pl) PROVE TypeOK'
  BY <1>6
    DEF RestoreRemoveDest, Values, FilesTypeOK, RecordsTypeOK, CommandTypeOK,
        BoundsOK
<1>7. ASSUME NEW pl \in Places, RestoreBackup(pl) PROVE TypeOK'
  BY <1>7
    DEF RestoreBackup, FilesTypeOK, RecordsTypeOK, CommandTypeOK, BoundsOK
<1>8. CASE RestoreLockStage
  BY <1>8
    DEF RestoreLockStage, FilesTypeOK, RecordsTypeOK, CommandTypeOK, BoundsOK
<1>9. CASE RestoreLockBackup
  BY <1>9
    DEF RestoreLockBackup, FilesTypeOK, RecordsTypeOK, CommandTypeOK, BoundsOK
<1>10. ASSUME NEW pl \in Places, CleanupPlace(pl) PROVE TypeOK'
  BY <1>10
    DEF CleanupPlace, Values, FilesTypeOK, RecordsTypeOK, CommandTypeOK,
        BoundsOK
<1>11. CASE CleanupLock
  BY <1>11 DEF CleanupLock, FilesTypeOK, RecordsTypeOK, CommandTypeOK, BoundsOK
<1>12. CASE RemoveJournalAndGoOn
  BY <1>12
    DEF RemoveJournalAndGoOn, JournalDone, FilesTypeOK, RecordsTypeOK,
        CommandTypeOK, BoundsOK
<1>13. CASE RemoveJournalAndReport
  BY <1>13, InitialDocType
    DEF RemoveJournalAndReport, Release, FilesTypeOK, RecordsTypeOK,
        CommandTypeOK, BoundsOK
<1> QED
  BY <1>1, <1>2, <1>3, <1>4, <1>5, <1>6, <1>7, <1>8, <1>9, <1>10, <1>11, <1>12,
        <1>13
    DEF Recovery

(* write_journal puts a journal, never a half-built one, in place.         *)
LEMMA WriteJournalType == TypeOK /\ WriteJournal => journal' \in Journals
<1> SUFFICES ASSUME TypeOK, WriteJournal PROVE journal' \in Journals
  OBVIOUS
<1>1. /\ {pl \in TargetChanges(request, ReadLock, newLock) : dest[pl] # None} \in SUBSET Places
      /\ TargetChanges(request, ReadLock, newLock) \in SUBSET Places
  BY DEF TargetChanges
<1> QED
  BY <1>1 DEF WriteJournal, Journals, TypeOK, CommandTypeOK, Docs

(* Every step of install, batch and remove keeps the types.                *)
LEMMA TransactionTypes == TypeOK /\ Transaction => TypeOK'
<1> SUFFICES ASSUME TypeOK, Transaction PROVE TypeOK'
  OBVIOUS
<1> USE DEF TypeOK, disk, locks, journals, command, bounds
<1>0. ReadLock \in Docs
  BY ReadLockType DEF RecordsTypeOK
<1>1. CASE ReadStore
  BY <1>0, <1>1, InitialDocType
    DEF ReadStore, Release, FilesTypeOK, RecordsTypeOK, CommandTypeOK, BoundsOK
<1>2. CASE Refuse
  BY <1>2, InitialDocType
    DEF Refuse, Release, FilesTypeOK, RecordsTypeOK, CommandTypeOK, BoundsOK
<1>3. CASE StageJournal
  <2>1. request \in Requests
    BY <1>3 DEF StageJournal, CommandTypeOK
  <2>2. Requested(request, ReadLock) \in Docs
    BY <1>0, <2>1, RequestedType DEF BoundsOK
  <2> QED
    BY <1>3, <2>2
      DEF StageJournal, FilesTypeOK, RecordsTypeOK, CommandTypeOK, BoundsOK
<1>4. CASE WriteJournal
  BY <1>4, WriteJournalType
    DEF WriteJournal, FilesTypeOK, RecordsTypeOK, CommandTypeOK, BoundsOK
<1>5. ASSUME NEW pl \in Places, StageTarget(pl) PROVE TypeOK'
  BY <1>5, RecordedType
    DEF StageTarget, FilesTypeOK, RecordsTypeOK, CommandTypeOK, BoundsOK
<1>6. ASSUME NEW pl \in Places, SetAside(pl) PROVE TypeOK'
  BY <1>6 DEF SetAside, FilesTypeOK, RecordsTypeOK, CommandTypeOK, BoundsOK
<1>7. ASSUME NEW pl \in Places, Promote(pl) PROVE TypeOK'
  BY <1>7
    DEF Promote, Values, FilesTypeOK, RecordsTypeOK, CommandTypeOK, BoundsOK
<1>8. CASE VerifyStages
  BY <1>8
    DEF VerifyStages, StagesReady, FilesTypeOK, RecordsTypeOK, CommandTypeOK,
        BoundsOK
<1>9. CASE PassGate
  BY <1>9 DEF PassGate, FilesTypeOK, RecordsTypeOK, CommandTypeOK, BoundsOK
<1>10. CASE StageLock
  BY <1>10 DEF StageLock, FilesTypeOK, RecordsTypeOK, CommandTypeOK, BoundsOK
<1>11. CASE SetLockAside
  BY <1>11
    DEF SetLockAside, FilesTypeOK, RecordsTypeOK, CommandTypeOK, BoundsOK
<1>12. CASE CommitLock
  BY <1>12 DEF CommitLock, FilesTypeOK, RecordsTypeOK, CommandTypeOK, BoundsOK
<1> QED
  BY <1>1, <1>2, <1>3, <1>4, <1>5, <1>6, <1>7, <1>8, <1>9, <1>10, <1>11, <1>12
  DEF Transaction

(* Crashes, failing calls and the user's writes keep the types.            *)
LEMMA FaultTypes == TypeOK /\ Faults => TypeOK'
<1> SUFFICES ASSUME TypeOK, Faults PROVE TypeOK'
  OBVIOUS
<1> USE InitialDocType, BoundsAssumption
  DEF TypeOK, Release, Fault, disk, locks, journals, command, bounds
<1>1. CopyTears \/ RemovalTears \/ UNCHANGED disk => FilesTypeOK'
  <2>1. CASE CopyTears
    BY <2>1 DEF CopyTears, FilesTypeOK, Values, Trees
  <2>2. CASE RemovalTears
    <3>1. PICK pl \in Places :
            \/ stage' = [stage EXCEPT ![pl] = Torn] /\ UNCHANGED <<dest, backup>>
            \/ dest' = [dest EXCEPT ![pl] = Torn] /\ UNCHANGED <<stage, backup>>
            \/ backup' = [backup EXCEPT ![pl] = Torn] /\ UNCHANGED <<dest, stage>>
      BY <2>2 DEF RemovalTears
    <3> QED
      BY <3>1 DEF FilesTypeOK, Values, Trees
  <2>3. CASE UNCHANGED disk
    BY <2>3 DEF FilesTypeOK
  <2> QED
    BY <2>1, <2>2, <2>3
<1>2. CASE WriteJournalFails
  <2>1. BoundsOK'
    BY <1>2 DEF WriteJournalFails, BoundsOK
  <2> QED
    BY <1>2, <2>1
      DEF WriteJournalFails, FilesTypeOK, RecordsTypeOK, CommandTypeOK
<1>3. CASE HashStageFails
  BY <1>3
    DEF HashStageFails, FilesTypeOK, RecordsTypeOK, CommandTypeOK, BoundsOK
<1>4. CASE RemoveCallFails
  BY <1>4
    DEF RemoveCallFails, FilesTypeOK, RecordsTypeOK, CommandTypeOK, BoundsOK
<1>5. CASE Crash
  <2>1. FilesTypeOK'
    BY <1>1, <1>5 DEF Crash
  <2> QED
    BY <1>5, <2>1 DEF Crash, RecordsTypeOK, CommandTypeOK, BoundsOK
<1>6. CASE RollbackError
  <2>1. FilesTypeOK'
    BY <1>1, <1>6 DEF RollbackError
  <2> QED
    BY <1>6, <2>1 DEF RollbackError, RecordsTypeOK, CommandTypeOK, BoundsOK
<1>7. CASE RecoveryFails
  <2>1. FilesTypeOK'
    BY <1>1, <1>7 DEF RecoveryFails
  <2> QED
    BY <1>7, <2>1 DEF RecoveryFails, RecordsTypeOK, CommandTypeOK, BoundsOK
<1>8. CASE JournalRemovalStops
  BY <1>8
    DEF JournalRemovalStops, FilesTypeOK, RecordsTypeOK, CommandTypeOK,
        BoundsOK
<1> QED
  BY <1>2, <1>3, <1>4, <1>5, <1>6, <1>7, <1>8 DEF Faults

(* Every step keeps the types.                                             *)
LEMMA TypeStep == TypeOK /\ [Next]_vars => TypeOK'
<1> SUFFICES ASSUME TypeOK, [Next]_vars PROVE TypeOK'
  OBVIOUS
<1>1. ASSUME NEW p \in Procs, NEW r \in Requests, Acquire(p, r) PROVE TypeOK'
  BY <1>1, DistinctAssumption
    DEF Acquire, TypeOK, FilesTypeOK, RecordsTypeOK, CommandTypeOK, BoundsOK,
        disk, locks, journals, bounds
<1>2. ASSUME NEW pl \in Places, UserEdit(pl) PROVE TypeOK'
  <2>1. UserValues(pl) \subseteq Values
    BY DEF UserValues, Values, Trees
  <2>2. FilesTypeOK'
    BY <1>2, <2>1 DEF UserEdit, TypeOK, FilesTypeOK
  <2>3. BoundsOK'
    BY <1>2, BoundsAssumption DEF UserEdit, TypeOK, BoundsOK
  <2> QED
    BY <1>2, <2>2, <2>3
      DEF UserEdit, TypeOK, RecordsTypeOK, CommandTypeOK, locks, journals,
          command
<1>3. CASE UNCHANGED vars
  BY <1>3
    DEF vars, disk, locks, journals, command, bounds, TypeOK, FilesTypeOK,
        RecordsTypeOK, CommandTypeOK, BoundsOK
<1> QED
  BY <1>1, <1>2, <1>3, RecoveryTypes, TransactionTypes, FaultTypes DEF Next

(* The type invariant holds in every reachable state of the store. *)
THEOREM TypeCorrect == Spec => []TypeOK
BY TypeInit, TypeStep, PTL DEF Spec

-----------------------------------------------------------------------------
(* The default lock document has no transaction, a requested one the next. *)
LEMMA InitialDocTx == InitialDoc.tx = 0
BY DEF InitialDoc

(* A requested document carries the next transaction id.                   *)
LEMMA RequestedTx ==
  ASSUME NEW r, NEW doc PROVE Requested(r, doc).tx = clock + 1
BY DEF Requested

(* A transaction's slots, ids and direction agree with its journal: Layout *)
(* is inductive (local_store.rs, recover_locked and the three writers).    *)
LEMMA LayoutInit == Init => Layout
<1> SUFFICES ASSUME Init PROVE Layout
  OBVIOUS
<1> QED
  BY InitialDocTx, DistinctAssumption, DataAssumption
  DEF Init, Layout, Control, Ids, NoResidue, Slots, LockSlots, Direction, ReadLock, LogicalLock

(* Layout survives every step of recover_locked.                           *)
LEMMA LayoutRecovery == TypeOK /\ Layout /\ Recovery => Layout'
<1> SUFFICES ASSUME TypeOK, Layout, Recovery PROVE Layout'
  OBVIOUS
<1> USE
  DEF disk, locks, journals, command, bounds, Layout, Control, Ids, NoResidue,
      Slots, LockSlots, Direction, ReadLock, LogicalLock
<1>1. CASE CleanupOrphanJournalStages
  BY <1>1 DEF CleanupOrphanJournalStages
<1>2. CASE RecoverNothing
  BY <1>2, DistinctAssumption DEF RecoverNothing, TypeOK, CommandTypeOK
<1>3. CASE RecoverUnreadable
  BY <1>3, InitialDocTx DEF RecoverUnreadable, Release
<1>4. CASE RecoverPending
  BY <1>4 DEF RecoverPending, TypeOK, RecordsTypeOK
<1>5. ASSUME NEW pl \in Places, RestoreRemoveStage(pl) PROVE Layout'
  BY <1>5 DEF RestoreRemoveStage
<1>6. ASSUME NEW pl \in Places, RestoreRemoveDest(pl) PROVE Layout'
  BY <1>6 DEF RestoreRemoveDest
<1>7. ASSUME NEW pl \in Places, RestoreBackup(pl) PROVE Layout'
  BY <1>7 DEF RestoreBackup
<1>8. CASE RestoreLockStage
  BY <1>8 DEF RestoreLockStage
<1>9. CASE RestoreLockBackup
  BY <1>9 DEF RestoreLockBackup
<1>10. ASSUME NEW pl \in Places, CleanupPlace(pl) PROVE Layout'
  BY <1>10 DEF CleanupPlace
<1>11. CASE CleanupLock
  BY <1>11 DEF CleanupLock
<1>12. CASE RemoveJournalAndGoOn
  BY <1>12, DistinctAssumption
    DEF RemoveJournalAndGoOn, JournalDone, RolledBack
<1>13. CASE RemoveJournalAndReport
  BY <1>13, InitialDocTx, DistinctAssumption
    DEF RemoveJournalAndReport, JournalDone, RolledBack, Release
<1> QED
  BY <1>1, <1>2, <1>3, <1>4, <1>5, <1>6, <1>7, <1>8, <1>9, <1>10, <1>11, <1>12,
        <1>13
    DEF Recovery

(* Layout survives every step of install, batch and remove.                *)
LEMMA LayoutTransaction == TypeOK /\ Layout /\ Transaction => Layout'
<1> SUFFICES ASSUME TypeOK, Layout, Transaction PROVE Layout'
  OBVIOUS
<1> USE
  DEF disk, locks, journals, command, bounds, Layout, Control, Ids, NoResidue,
      Slots, LockSlots, Direction, ReadLock, LogicalLock
<1>1. CASE ReadStore
  BY <1>1, InitialDocTx DEF ReadStore, Release
<1>2. CASE Refuse
  BY <1>2, InitialDocTx DEF Refuse, Release
<1>3. CASE StageJournal
  BY <1>3, InitialDocTx, RequestedTx DEF StageJournal, TypeOK, BoundsOK
<1>4. CASE WriteJournal
  BY <1>4, InitialDocTx, WriteJournalType, DistinctAssumption
    DEF WriteJournal, Journals
<1>5. ASSUME NEW pl \in Places, StageTarget(pl) PROVE Layout'
  BY <1>5 DEF StageTarget, CopiesStage
<1>6. ASSUME NEW pl \in Places, SetAside(pl) PROVE Layout'
  BY <1>6 DEF SetAside, SwapTurn
<1>7. ASSUME NEW pl \in Places, Promote(pl) PROVE Layout'
  BY <1>7 DEF Promote
<1>8. CASE VerifyStages
  BY <1>8 DEF VerifyStages, StagesReady
<1>9. CASE PassGate
  BY <1>9 DEF PassGate, Swapped
<1>10. CASE StageLock
  BY <1>10 DEF StageLock
<1>11. CASE SetLockAside
  BY <1>11, InitialDocTx DEF SetLockAside
<1>12. CASE CommitLock
  BY <1>12 DEF CommitLock
<1> QED
  BY <1>1, <1>2, <1>3, <1>4, <1>5, <1>6, <1>7, <1>8, <1>9, <1>10, <1>11, <1>12
    DEF Transaction

(* Layout survives crashes, failing calls and the user's writes.           *)
LEMMA LayoutFaults == TypeOK /\ Layout /\ Faults => Layout'
<1> SUFFICES ASSUME TypeOK, Layout, Faults PROVE Layout'
  OBVIOUS
<1> USE
  DEF disk, locks, journals, command, bounds, Layout, Control, Ids, NoResidue,
      Slots, LockSlots, Direction, ReadLock, LogicalLock
<1>1. CASE WriteJournalFails
  BY <1>1, InitialDocTx DEF WriteJournalFails, Release
<1>2. CASE HashStageFails
  BY <1>2, InitialDocTx DEF HashStageFails, Release
<1>3. CASE RemoveCallFails
  BY <1>3, InitialDocTx DEF RemoveCallFails, Release
<1>4. CASE Crash
  BY <1>4, InitialDocTx
    DEF Crash, Release, CopyTears, RemovalTears, CopiesStage, RemovesStage,
        RemovesBackup, TypeOK, FilesTypeOK
<1>5. CASE RollbackError
  BY <1>5 DEF RollbackError, CopyTears, CopiesStage, TypeOK, FilesTypeOK
<1>6. CASE RecoveryFails
  BY <1>6, InitialDocTx
    DEF RecoveryFails, Release, RemovalTears, RemovesStage, RemovesBackup,
        TypeOK, FilesTypeOK
<1>7. CASE JournalRemovalStops
  BY <1>7, InitialDocTx, DistinctAssumption
    DEF JournalRemovalStops, Release, JournalDone, RolledBack
<1> QED
  BY <1>1, <1>2, <1>3, <1>4, <1>5, <1>6, <1>7 DEF Faults

(* Layout survives every step.                                             *)
LEMMA LayoutStep == TypeOK /\ Layout /\ [Next]_vars => Layout'
<1> SUFFICES ASSUME TypeOK, Layout, [Next]_vars PROVE Layout'
  OBVIOUS
<1> USE
  DEF disk, locks, journals, command, bounds, Layout, Control, Ids, NoResidue,
      Slots, LockSlots, Direction, ReadLock, LogicalLock
<1>1. ASSUME NEW p \in Procs, NEW r \in Requests, Acquire(p, r) PROVE Layout'
  BY <1>1 DEF Acquire, TypeOK, CommandTypeOK
<1>2. ASSUME NEW pl \in Places, UserEdit(pl) PROVE Layout'
  BY <1>2 DEF UserEdit
<1>3. CASE UNCHANGED vars
  BY <1>3 DEF vars
<1> QED
  BY <1>1, <1>2, <1>3, LayoutRecovery, LayoutTransaction, LayoutFaults DEF Next

(* A running transaction's stages and targets agree with the document it   *)
(* is going to write: Progress is inductive relative to Layout.            *)
LEMMA ProgressInit == Init => Progress
BY DEF Init, Progress, Planned, Staging, Swapping, Committing

(* Progress survives recovery, which ends before a document is planned.    *)
LEMMA ProgressRecovery == TypeOK /\ Layout /\ Progress /\ Recovery => Progress'
<1> SUFFICES ASSUME TypeOK, Layout, Progress, Recovery PROVE Progress'
  OBVIOUS
<1> USE
  DEF disk, locks, journals, command, bounds, Progress, Planned, Staging,
      Swapping, Committing
<1>1. CASE CleanupOrphanJournalStages
  BY <1>1 DEF CleanupOrphanJournalStages
<1>2. CASE RecoverNothing
  BY <1>2 DEF RecoverNothing
<1>3. CASE RecoverUnreadable
  BY <1>3 DEF RecoverUnreadable, Release
<1>4. CASE RecoverPending
  BY <1>4 DEF RecoverPending
<1>5. ASSUME NEW pl \in Places, RestoreRemoveStage(pl) PROVE Progress'
  BY <1>5 DEF RestoreRemoveStage, RemovesStage
<1>6. ASSUME NEW pl \in Places, RestoreRemoveDest(pl) PROVE Progress'
  BY <1>6 DEF RestoreRemoveDest, RemovesDest
<1>7. ASSUME NEW pl \in Places, RestoreBackup(pl) PROVE Progress'
  BY <1>7 DEF RestoreBackup
<1>8. CASE RestoreLockStage
  BY <1>8 DEF RestoreLockStage
<1>9. CASE RestoreLockBackup
  BY <1>9 DEF RestoreLockBackup
<1>10. ASSUME NEW pl \in Places, CleanupPlace(pl) PROVE Progress'
  BY <1>10 DEF CleanupPlace, RemovesBackup
<1>11. CASE CleanupLock
  BY <1>11 DEF CleanupLock
<1>12. CASE RemoveJournalAndGoOn
  BY <1>12 DEF RemoveJournalAndGoOn
<1>13. CASE RemoveJournalAndReport
  BY <1>13 DEF RemoveJournalAndReport, Release
<1> QED
  BY <1>1, <1>2, <1>3, <1>4, <1>5, <1>6, <1>7, <1>8, <1>9, <1>10, <1>11, <1>12,
        <1>13
    DEF Recovery

(* Progress survives staging, swapping and committing, place by place.     *)
LEMMA ProgressTransaction == TypeOK /\ Layout /\ Progress /\ Transaction => Progress'
<1> SUFFICES ASSUME TypeOK, Layout, Progress, Transaction PROVE Progress'
  OBVIOUS
<1> USE
  DEF disk, locks, journals, command, bounds, Progress, Planned, Staging,
      Swapping, Committing
<1>1. CASE ReadStore
  BY <1>1 DEF ReadStore, Release
<1>2. CASE Refuse
  BY <1>2 DEF Refuse, Release
<1>3. CASE StageJournal
  BY <1>3, DistinctAssumption
    DEF StageJournal, Layout, Control, NoResidue, ReadLock, LogicalLock,
        Replaces, Requested
<1>4. CASE WriteJournal
  <2>1. \A pl \in journal'.places :
          /\ pl \in Places /\ pl[1] \in request.names /\ pl[1] \in Skills
          /\ pl \in journal'.had <=> dest[pl] # None
    BY <1>4 DEF WriteJournal, TargetChanges, Places
  <2>2. \A pl \in Places : stage[pl] = None /\ backup[pl] = None
    BY <1>4, DistinctAssumption DEF WriteJournal, Layout, Control, NoResidue
  <2>3. step' = "swap" => \A pl \in journal'.places : Recorded(newLock, pl) = None
    <3> SUFFICES ASSUME step' = "swap", NEW pl \in journal'.places
                 PROVE  Recorded(newLock, pl) = None
      OBVIOUS
    <3>1. request.kind = "remove" /\ request \in Requests
      BY <1>4 DEF WriteJournal, TypeOK, CommandTypeOK
    <3>2. request.entries[pl[1]] = None
      BY <2>1, <3>1, RequestsAssumption DEF WellFormed
    <3>3. newLock.skills[pl[1]] = None
      BY <1>4, <2>1, <3>2 DEF WriteJournal, Replaces
    <3> QED
      BY <3>3 DEF Recorded
  <2>4. Planned' /\ Staging' /\ Committing'
    BY <1>4, <2>1, <2>2, DistinctAssumption
      DEF WriteJournal, Layout, Control, NoResidue, ReadLock, LogicalLock,
          Replaces
  <2>5. Swapping'
    BY <1>4, <2>1, <2>2, <2>3 DEF WriteJournal, Swapped
  <2> QED
    BY <2>4, <2>5
<1>5. ASSUME NEW pl \in Places, StageTarget(pl) PROVE Progress'
  BY <1>5 DEF StageTarget, ReadLock, LogicalLock, Swapped, Replaces
<1>6. ASSUME NEW pl \in Places, SetAside(pl) PROVE Progress'
  BY <1>6
    DEF SetAside, SwapTurn, TypeOK, FilesTypeOK, ReadLock, LogicalLock,
        Swapped, Replaces
<1>7. ASSUME NEW pl \in Places, Promote(pl) PROVE Progress'
  BY <1>7
    DEF Promote, SwapTurn, TypeOK, FilesTypeOK, ReadLock, LogicalLock, Swapped,
        Replaces
<1>8. CASE VerifyStages
  BY <1>8
    DEF VerifyStages, StagesReady, ReadLock, LogicalLock, Swapped, Replaces
<1>9. CASE PassGate
  BY <1>9
    DEF PassGate, Layout, LockSlots, NoResidue, ReadLock, LogicalLock, Replaces
<1>10. CASE StageLock
  BY <1>10 DEF StageLock, ReadLock, LogicalLock, Replaces
<1>11. CASE SetLockAside
  BY <1>11 DEF SetLockAside, ReadLock, LogicalLock, Replaces
<1>12. CASE CommitLock
  BY <1>12 DEF CommitLock
<1> QED
  BY <1>1, <1>2, <1>3, <1>4, <1>5, <1>6, <1>7, <1>8, <1>9, <1>10, <1>11, <1>12
    DEF Transaction

(* Progress survives faults, which leave the working steps.                *)
LEMMA ProgressFaults == TypeOK /\ Layout /\ Progress /\ Faults => Progress'
<1> SUFFICES ASSUME TypeOK, Layout, Progress, Faults PROVE Progress'
  OBVIOUS
<1> USE
  DEF disk, locks, journals, command, bounds, Progress, Planned, Staging,
      Swapping, Committing
<1>1. CASE WriteJournalFails
  BY <1>1 DEF WriteJournalFails, Release
<1>2. CASE HashStageFails
  BY <1>2 DEF HashStageFails, Release
<1>3. CASE RemoveCallFails
  BY <1>3 DEF RemoveCallFails, Release
<1>4. CASE Crash
  BY <1>4 DEF Crash, Release
<1>5. CASE RollbackError
  BY <1>5 DEF RollbackError
<1>6. CASE RecoveryFails
  BY <1>6 DEF RecoveryFails, Release
<1>7. CASE JournalRemovalStops
  BY <1>7 DEF JournalRemovalStops, Release
<1> QED
  BY <1>1, <1>2, <1>3, <1>4, <1>5, <1>6, <1>7 DEF Faults

(* Progress survives every step.                                           *)
LEMMA ProgressStep == TypeOK /\ Layout /\ Progress /\ [Next]_vars => Progress'
<1> SUFFICES ASSUME TypeOK, Layout, Progress, [Next]_vars PROVE Progress'
  OBVIOUS
<1> USE
  DEF disk, locks, journals, command, bounds, Progress, Planned, Staging,
      Swapping, Committing
<1>1. ASSUME NEW p \in Procs, NEW r \in Requests, Acquire(p, r) PROVE Progress'
  BY <1>1 DEF Acquire
<1>2. ASSUME NEW pl \in Places, UserEdit(pl) PROVE Progress'
  BY <1>2 DEF UserEdit, TypeOK, CommandTypeOK
<1>3. CASE UNCHANGED vars
  BY <1>3 DEF vars, Swapped, Replaces, ReadLock, LogicalLock
<1> QED
  BY <1>1, <1>2, <1>3, ProgressRecovery, ProgressTransaction, ProgressFaults
    DEF Next

(* Only the commit and the user's writes change what a recovery would      *)
(* restore: every other step, faults included, is unseen.                  *)
LEMMA UnseenRecovery == TypeOK /\ Layout /\ Recovery => Unseen
<1> SUFFICES ASSUME TypeOK, Layout, Recovery PROVE Unseen
  OBVIOUS
<1> USE
  DEF disk, locks, journals, command, bounds, Unseen, Recovered, Uncommitted,
      LogicalLock, ReadLock
<1>1. CASE CleanupOrphanJournalStages
  BY <1>1 DEF CleanupOrphanJournalStages
<1>2. CASE RecoverNothing
  BY <1>2 DEF RecoverNothing
<1>3. CASE RecoverUnreadable
  BY <1>3 DEF RecoverUnreadable
<1>4. CASE RecoverPending
  BY <1>4 DEF RecoverPending
<1>5. ASSUME NEW pl \in Places, RestoreRemoveStage(pl) PROVE Unseen
  BY <1>5 DEF RestoreRemoveStage
<1>6. ASSUME NEW pl \in Places, RestoreRemoveDest(pl) PROVE Unseen
  BY <1>6 DEF RestoreRemoveDest, RemovesDest, Layout, Control, Direction
<1>7. ASSUME NEW pl \in Places, RestoreBackup(pl) PROVE Unseen
  BY <1>7
    DEF RestoreBackup, TypeOK, Layout, FilesTypeOK, Slots, Direction, NoResidue
<1>8. CASE RestoreLockStage
  BY <1>8 DEF RestoreLockStage
<1>9. CASE RestoreLockBackup
  BY <1>9 DEF RestoreLockBackup, Layout, Direction, LockSlots, NoResidue
<1>10. ASSUME NEW pl \in Places, CleanupPlace(pl) PROVE Unseen
  BY <1>10 DEF CleanupPlace, RemovesBackup, Layout, Direction
<1>11. CASE CleanupLock
  BY <1>11, InitialDocTx DEF CleanupLock, Layout, Ids, Direction, NoResidue
<1>12. CASE RemoveJournalAndGoOn
  BY <1>12, DistinctAssumption
    DEF RemoveJournalAndGoOn, JournalDone, RolledBack, Layout, Direction
<1>13. CASE RemoveJournalAndReport
  BY <1>13, DistinctAssumption
    DEF RemoveJournalAndReport, JournalDone, RolledBack, Layout, Direction
<1> QED
  BY <1>1, <1>2, <1>3, <1>4, <1>5, <1>6, <1>7, <1>8, <1>9, <1>10, <1>11, <1>12,
        <1>13
    DEF Recovery

(* Of the steps of a transaction only the commit is seen.                  *)
LEMMA UnseenTransaction == TypeOK /\ Layout /\ Transaction /\ ~CommitLock => Unseen
<1> SUFFICES ASSUME TypeOK, Layout, Transaction, ~CommitLock PROVE Unseen
  OBVIOUS
<1> USE
  DEF disk, locks, journals, command, bounds, Unseen, Recovered, Uncommitted,
      LogicalLock, ReadLock
<1>1. CASE ReadStore
  BY <1>1 DEF ReadStore
<1>2. CASE Refuse
  BY <1>2 DEF Refuse
<1>3. CASE StageJournal
  BY <1>3 DEF StageJournal
<1>4. CASE WriteJournal
  BY <1>4, DistinctAssumption DEF WriteJournal, Layout, Control, NoResidue
<1>5. ASSUME NEW pl \in Places, StageTarget(pl) PROVE Unseen
  BY <1>5 DEF StageTarget
<1>6. ASSUME NEW pl \in Places, SetAside(pl) PROVE Unseen
  BY <1>6
    DEF SetAside, SwapTurn, TypeOK, Layout, Control, FilesTypeOK, Direction
<1>7. ASSUME NEW pl \in Places, Promote(pl) PROVE Unseen
  BY <1>7 DEF Promote, Layout, Slots, NoResidue
<1>8. CASE VerifyStages
  BY <1>8 DEF VerifyStages
<1>9. CASE PassGate
  BY <1>9 DEF PassGate
<1>10. CASE StageLock
  BY <1>10 DEF StageLock
<1>11. CASE SetLockAside
  BY <1>11, InitialDocTx DEF SetLockAside, Layout, Ids, LockSlots
<1> QED
  BY <1>1, <1>2, <1>3, <1>4, <1>5, <1>6, <1>7, <1>8, <1>9, <1>10, <1>11
    DEF Transaction

(* No fault is seen: recovery restores the same store either way.          *)
LEMMA UnseenFaults == TypeOK /\ Layout /\ Faults => Unseen
<1> SUFFICES ASSUME TypeOK, Layout, Faults PROVE Unseen
  OBVIOUS
<1> USE
  DEF disk, locks, journals, command, bounds, Unseen, Recovered, Uncommitted,
      LogicalLock, ReadLock
<1>1. CASE WriteJournalFails
  BY <1>1 DEF WriteJournalFails
<1>2. CASE HashStageFails
  BY <1>2 DEF HashStageFails
<1>3. CASE RemoveCallFails
  BY <1>3 DEF RemoveCallFails
<1>4. CASE Crash
  BY <1>4
    DEF Crash, CopyTears, RemovalTears, RemovesDest, RemovesBackup, TypeOK,
        Layout, Control, FilesTypeOK, Direction
<1>5. CASE RollbackError
  BY <1>5 DEF RollbackError, CopyTears
<1>6. CASE RecoveryFails
  BY <1>6
    DEF RecoveryFails, RemovalTears, RemovesDest, RemovesBackup, TypeOK,
        Layout, Control, FilesTypeOK, Direction
<1>7. CASE JournalRemovalStops
  BY <1>7, DistinctAssumption
    DEF JournalRemovalStops, JournalDone, RolledBack, Layout, Direction
<1> QED
  BY <1>1, <1>2, <1>3, <1>4, <1>5, <1>6, <1>7 DEF Faults

(* Taking the store lock is unseen.                                        *)
LEMMA UnseenAcquire ==
  ASSUME NEW p, NEW r, Acquire(p, r) PROVE Unseen
BY
  DEF Acquire, Unseen, LogicalLock, ReadLock, Recovered, Uncommitted, disk,
      locks, journals

(* CommitLock makes the document of the transaction the logical one, over  *)
(* targets that already hold what it records.                              *)
LEMMA CommitTakesEffect ==
  ASSUME TypeOK, Layout, Progress, CommitLock
  PROVE  /\ LogicalLock' = newLock
         /\ \A pl \in Places :
              IF pl \in journal.places
              THEN Recovered(pl)' = Recorded(newLock, pl)
              ELSE /\ Recovered(pl)' = Recovered(pl)
                   /\ Recorded(newLock, pl) = Recorded(LogicalLock, pl)
<1>1. /\ step = "lock" /\ journal \in Journals /\ journal' = journal
      /\ lockStage = newLock /\ newLock \in Docs
      /\ UNCHANGED <<disk, newLock, lockBackup, edits>>
      /\ lockfile' = newLock
  BY
    DEF CommitLock, Layout, Control, TypeOK, CommandTypeOK, Progress,
        Committing, journals, command, bounds
<1>2. LogicalLock' = newLock /\ ReadLock' = newLock
  BY <1>1, DataAssumption DEF LogicalLock, ReadLock
<1>3. newLock.tx = journal.tx /\ ~Uncommitted' /\ Uncommitted
  BY <1>1, <1>2 DEF Layout, Ids, Direction, Uncommitted
<1>4. ASSUME NEW pl \in Places, pl \in journal.places
      PROVE  Recovered(pl)' = Recorded(newLock, pl)
  BY <1>1, <1>3, <1>4 DEF Progress, Committing, Recovered, disk
<1>5. ASSUME NEW pl \in Places, pl \notin journal.places
      PROVE  /\ Recovered(pl)' = Recovered(pl)
             /\ Recorded(newLock, pl) = Recorded(LogicalLock, pl)
  <2>1. Recovered(pl)' = Recovered(pl)
    BY <1>1, <1>3, <1>5 DEF Recovered, disk
  <2>2. journal.places = TargetChanges(request, LogicalLock, newLock) /\ Replaces(LogicalLock)
    BY <1>1 DEF Progress, Planned
  <2>3. pl[1] \in Skills /\ pl[2] \in Roots \cup {Store}
    BY DEF Places
  <2>4. CASE pl[1] \in request.names
    BY <1>5, <2>1, <2>2, <2>4 DEF TargetChanges
  <2>5. CASE pl[1] \notin request.names
    BY <2>1, <2>2, <2>3, <2>5 DEF Replaces, Recorded
  <2> QED
    BY <2>1, <2>4, <2>5
<1> QED
  BY <1>2, <1>4, <1>5

(* In the empty store the files agree with the default document.           *)
LEMMA AgreementInit == Init => Agreement
<1> SUFFICES ASSUME Init, NEW pl \in Places
             PROVE  Recovered(pl) = None /\ Recorded(LogicalLock, pl) = None
  BY DEF Agreement
<1>1. pl[1] \in Skills
  BY DEF Places
<1> QED
  BY <1>1, DistinctAssumption
  DEF Init, Recovered, Uncommitted, Recorded, LogicalLock, ReadLock, InitialDoc

(* Agreement survives every step; only CommitLock changes the record.      *)
LEMMA AgreementStep ==
  TypeOK /\ Layout /\ Progress /\ Agreement /\ [Next]_vars => Agreement'
<1> SUFFICES ASSUME TypeOK, Layout, Progress, Agreement, [Next]_vars PROVE Agreement'
  OBVIOUS
<1>1. ASSUME Unseen, edits' = edits PROVE Agreement'
  BY <1>1 DEF Agreement, Unseen
<1>2. CASE CommitLock
  <2>1. edits' = edits
    BY <1>2 DEF CommitLock, bounds
  <2> SUFFICES ASSUME NEW pl \in Places
               PROVE  /\ Recovered(pl)' \in {Recorded(LogicalLock, pl)'} \cup UserValues(pl)
                      /\ edits' = 0 => Recovered(pl)' = Recorded(LogicalLock, pl)'
    BY DEF Agreement
  <2>2. Recorded(LogicalLock, pl)' = Recorded(newLock, pl)
    BY <1>2, CommitTakesEffect DEF Recorded
  <2>3. CASE pl \in journal.places
    <3>1. Recovered(pl)' = Recorded(newLock, pl)
      BY <1>2, <2>3, CommitTakesEffect
    <3> QED
      BY <2>2, <3>1
  <2>4. CASE pl \notin journal.places
    <3>1. /\ Recovered(pl)' = Recovered(pl)
          /\ Recorded(newLock, pl) = Recorded(LogicalLock, pl)
      BY <1>2, <2>4, CommitTakesEffect
    <3> QED
      BY <2>1, <2>2, <3>1 DEF Agreement
  <2> QED
    BY <2>3, <2>4
<1>3. ASSUME NEW pl \in Places, UserEdit(pl) PROVE Agreement'
  <2>1. PICK v \in UserValues(pl) : dest' = [dest EXCEPT ![pl] = v]
    BY <1>3 DEF UserEdit
  <2>2. edits' # 0 /\ UNCHANGED <<stage, backup, locks, journals>>
    BY <1>3 DEF UserEdit, TypeOK, BoundsOK
  <2>3. LogicalLock' = LogicalLock /\ (Uncommitted' <=> Uncommitted)
    BY <2>2 DEF LogicalLock, ReadLock, Uncommitted, locks, journals
  <2>4. ASSUME NEW other \in Places
        PROVE  Recovered(other)' \in {Recovered(other)} \cup UserValues(other)
    BY <2>1, <2>2, <2>3 DEF Recovered, journals
  <2> QED
    BY <2>2, <2>3, <2>4 DEF Agreement
<1>4. CASE UNCHANGED vars
  BY <1>4
    DEF vars, disk, locks, journals, bounds, Agreement, Recovered, Uncommitted,
        LogicalLock, ReadLock
<1>5. ASSUME NEW p \in Procs, NEW r \in Requests, Acquire(p, r) PROVE Agreement'
  BY <1>1, <1>5, UnseenAcquire DEF Acquire, bounds
<1>6. CASE Recovery
  <2>1. edits' = edits
    BY <1>6
      DEF Recovery, CleanupOrphanJournalStages, RecoverNothing,
          RecoverUnreadable, RecoverPending, RestoreRemoveStage,
          RestoreRemoveDest, RestoreBackup, RestoreLockStage,
          RestoreLockBackup, CleanupPlace, CleanupLock, RemoveJournalAndGoOn,
          RemoveJournalAndReport, bounds
  <2> QED
    BY <1>1, <1>6, <2>1, UnseenRecovery
<1>7. CASE Transaction /\ ~CommitLock
  <2>1. edits' = edits
    BY <1>7
      DEF Transaction, ReadStore, Refuse, StageJournal, WriteJournal,
          StageTarget, VerifyStages, SetAside, Promote, PassGate, StageLock,
          SetLockAside, bounds
  <2> QED
    BY <1>1, <1>7, <2>1, UnseenTransaction
<1>8. CASE Faults
  <2>1. edits' = edits
    BY <1>8
      DEF Faults, WriteJournalFails, HashStageFails, RemoveCallFails, Crash,
          RollbackError, RecoveryFails, JournalRemovalStops
  <2> QED
    BY <1>1, <1>8, <2>1, UnseenFaults
<1> QED
  BY <1>2, <1>3, <1>4, <1>5, <1>6, <1>7, <1>8 DEF Next

(* Recovering first is enough: with no journal left nothing of an older    *)
(* transaction is, and the files are the recorded ones.                    *)
LEMMA RecoveredStoreIsRecorded ==
  TypeOK /\ Layout /\ Agreement => DecidesOnRecoveredStore
<1> SUFFICES ASSUME TypeOK, Layout, Agreement, step \in {"begin", "journal"}
             PROVE  /\ journal = None
                    /\ LogicalLock = ReadLock
                    /\ \A pl \in Places :
                         dest[pl] \in {Recorded(ReadLock, pl)} \cup UserValues(pl)
  BY DEF DecidesOnRecoveredStore
<1>1. journal = None /\ journal \notin Journals
  BY DistinctAssumption DEF Layout, Control
<1>2. LogicalLock = ReadLock
  BY <1>1 DEF Layout, NoResidue, LogicalLock
<1>3. \A pl \in Places : Recovered(pl) = dest[pl]
  BY <1>1 DEF Recovered, Uncommitted
<1> QED
  BY <1>1, <1>2, <1>3 DEF Agreement

(* What a command reports is decided by where its transaction stands.      *)
LEMMA ResultsStep ==
  ASSUME TypeOK, Layout, [Next]_vars, holder # None, holder' = None
  PROVE  /\ outcome' = "failed" =>
              newLock.tx = 0 \/ LogicalLock'.tx # newLock.tx
         /\ outcome' \in {"ok", "pending"} /\ request.kind # "read" =>
              LogicalLock'.tx = newLock.tx
<1> USE DEF disk, locks, journals, command, bounds
<1> DEFINE Honest ==
  /\ outcome' = "failed" =>
       newLock.tx = 0 \/ LogicalLock'.tx # newLock.tx
  /\ outcome' \in {"ok", "pending"} /\ request.kind # "read" =>
       LogicalLock'.tx = newLock.tx
<1>1. UNCHANGED locks => LogicalLock' = LogicalLock
  BY DEF LogicalLock, ReadLock
<1>2. CASE Recovery
  <2>1. CASE RecoverUnreadable
    BY <2>1, <1>1, DistinctAssumption
      DEF RecoverUnreadable, Release, Layout, Control, Ids, TypeOK,
          CommandTypeOK
  <2>2. CASE RemoveJournalAndReport
    BY <2>2, <1>1
      DEF RemoveJournalAndReport, JournalDone, Release, Layout, Control, Ids,
          Direction, LogicalLock, TypeOK, CommandTypeOK
  <2> QED
    BY <1>2, <2>1, <2>2
      DEF Recovery, CleanupOrphanJournalStages, RecoverNothing, RecoverPending,
          RestoreRemoveStage, RestoreRemoveDest, RestoreBackup,
          RestoreLockStage, RestoreLockBackup, CleanupPlace, CleanupLock,
          RemoveJournalAndGoOn
<1>3. CASE Transaction
  <2>1. ReadStore \/ Refuse
    BY <1>3
      DEF Transaction, StageJournal, WriteJournal, StageTarget, SetAside,
          Promote, VerifyStages, PassGate, StageLock, SetLockAside, CommitLock
  <2> QED
    BY <2>1 DEF ReadStore, Refuse, Release, Layout, Ids
<1>4. CASE Faults
  <2>1. CASE WriteJournalFails
    BY <2>1, <1>1 DEF WriteJournalFails, Release, Layout, Ids, TypeOK, BoundsOK
  <2>2. CASE HashStageFails \/ RemoveCallFails
    BY <2>2, <1>1
      DEF HashStageFails, StagesReady, RemoveCallFails, Release, Layout,
          Control, Ids, Direction, LockSlots
  <2>3. CASE Crash
    BY <2>3 DEF Crash, Release
  <2>4. CASE RecoveryFails \/ JournalRemovalStops
    BY <2>4, <1>1, InitialDocTx
      DEF RecoveryFails, JournalRemovalStops, Release, Layout, Control, Ids,
          Direction, LockSlots, LogicalLock, ReadLock, TypeOK, CommandTypeOK
  <2> QED
    BY <1>4, <2>1, <2>2, <2>3, <2>4 DEF Faults, RollbackError
<1>5. CASE UNCHANGED vars
  BY <1>5 DEF vars
<1> QED
  BY <1>2, <1>3, <1>4, <1>5 DEF Next, Acquire, UserEdit

(* The inductive invariant of the Skill store. *)
THEOREM InvCorrect == Spec => [](TypeOK /\ Layout /\ Progress /\ Agreement)
<1>1. Init => TypeOK /\ Layout /\ Progress /\ Agreement
  BY TypeInit, LayoutInit, ProgressInit, AgreementInit
<1>2. TypeOK /\ Layout /\ Progress /\ Agreement /\ [Next]_vars
        => (TypeOK /\ Layout /\ Progress /\ Agreement)'
  BY TypeStep, LayoutStep, ProgressStep, AgreementStep
<1> QED
  BY <1>1, <1>2, PTL DEF Spec

(* No stage, backup or sibling of the lockfile outlives its journal, so    *)
(* recovery, which finds them by the journal alone, misses none.           *)
THEOREM ResidueFree == Spec => []NoResidue
<1>1. Layout => NoResidue
  BY DEF Layout
<1> QED
  BY <1>1, InvCorrect, PTL

(* However often commands, recoveries and rollbacks are interrupted, the   *)
(* recovered store is what its lockfile records, but for the user's edits. *)
THEOREM AgreementHolds == Spec => []Agreement
BY InvCorrect, PTL

(* Every command decides on a recovered store. *)
THEOREM DecisionsSound == Spec => []DecidesOnRecoveredStore
BY InvCorrect, RecoveredStoreIsRecorded, PTL

(* A failure means that the transaction has no effect, also not by a later *)
(* recovery; success, or a pending cleanup, means that it has.             *)
THEOREM ResultsHonest == Spec => HonestResults
<1>1. TypeOK /\ Layout /\ [Next]_vars =>
        [holder # None /\ holder' = None =>
           /\ outcome' = "failed" =>
                newLock.tx = 0 \/ LogicalLock'.tx # newLock.tx
           /\ outcome' \in {"ok", "pending"} /\ request.kind # "read" =>
                LogicalLock'.tx = newLock.tx]_vars
  BY ResultsStep
<1> QED
  BY <1>1, InvCorrect, PTL DEF HonestResults, Spec

-----------------------------------------------------------------------------
(* The Skill store implements AtomicStore: under the state that recovery   *)
(* would leave, a whole transaction is the one step of its commit, and     *)
(* every other step, recovery and crash is a stutter.  With it goes what a *)
(* commit rests on: that the checks of Accepts still hold when it comes.   *)

(* Every step but the user's writes and the commit is unseen, and only the *)
(* start of a transaction makes it a writing one.                          *)
LEMMA UnseenStep ==
  ASSUME TypeOK, Layout, [Next]_vars, ~CommitLock,
         ~ \E pl \in Places : UserEdit(pl)
  PROVE  Unseen
<1>1. CASE UNCHANGED vars
  BY <1>1
    DEF vars, disk, locks, journals, Unseen, Recovered, Uncommitted,
        LogicalLock, ReadLock
<1> QED
  BY <1>1, UnseenRecovery, UnseenTransaction, UnseenFaults, UnseenAcquire
    DEF Next

(* A transaction that is still to commit keeps its plan, its command and   *)
(* its process; it began on the step that staged its journal.              *)
LEMMA WritingStep ==
  ASSUME TypeOK, Layout, [Next]_vars, Writing'
  PROVE  \/ StageJournal
         \/ /\ Writing /\ ~CommitLock /\ ~ \E pl \in Places : UserEdit(pl)
            /\ UNCHANGED <<request, newLock, holder, seen>>
<1> USE DEF Writing, disk, locks, journals, command, bounds
<1>1. ASSUME NEW p \in Procs, NEW r \in Requests, Acquire(p, r) PROVE FALSE
  BY <1>1 DEF Acquire
<1>2. CASE Recovery
  BY <1>2
    DEF Recovery, CleanupOrphanJournalStages, RecoverNothing,
        RecoverUnreadable, RecoverPending, RestoreRemoveStage,
        RestoreRemoveDest, RestoreBackup, RestoreLockStage, RestoreLockBackup,
        CleanupPlace, CleanupLock, RemoveJournalAndGoOn,
        RemoveJournalAndReport, RemovesStage, RemovesDest, RemovesBackup,
        Release
<1>3. CASE Transaction
  BY <1>3
    DEF Transaction, ReadStore, Refuse, WriteJournal, StageTarget, CopiesStage,
        VerifyStages, StagesReady, SetAside, Promote, SwapTurn, PassGate,
        StageLock, SetLockAside, CommitLock, UserEdit, Release, TypeOK,
        CommandTypeOK
<1>4. CASE Faults
  BY <1>4
    DEF Faults, WriteJournalFails, HashStageFails, RemoveCallFails, Crash,
        RollbackError, RecoveryFails, JournalRemovalStops, Release
<1>5. ASSUME NEW pl \in Places, UserEdit(pl) PROVE FALSE
  BY <1>5 DEF UserEdit, TypeOK, CommandTypeOK
<1>6. CASE UNCHANGED vars
  BY <1>6
    DEF vars, CommitLock, UserEdit, TypeOK, CommandTypeOK
<1> QED
  BY <1>1, <1>2, <1>3, <1>4, <1>5, <1>6 DEF Next

(* At the start of a transaction nothing is pending: what stands in the    *)
(* places and in the lockfile is what recovery would leave.                *)
LEMMA RecoveredAtStart ==
  ASSUME TypeOK, Layout, step = "begin"
  PROVE  /\ journal = None /\ LogicalLock = ReadLock
         /\ \A pl \in Places : Recovered(pl) = dest[pl]
<1>1. journal = None /\ journal \notin Journals
  BY DistinctAssumption DEF Layout, Control
<1>2. LogicalLock = ReadLock
  BY <1>1 DEF Layout, NoResidue, LogicalLock
<1> QED
  BY <1>1, <1>2 DEF Recovered, Uncommitted

(* What a lock document records is never the user's. *)
LEMMA RecordedIsManaged ==
  ASSUME NEW doc \in Docs, NEW pl \in Places
  PROVE  Recorded(doc, pl) # Foreign /\ Recorded(doc, pl) \notin Aliases
<1>1. doc.skills[pl[1]] \in Entries \cup {None} /\ pl[2] \in Roots \cup {Store}
  BY DEF Docs, EntryOrNone, Places
<1>2. Recorded(doc, pl) \in Contents \cup {None, Link}
  BY <1>1 DEF Recorded, Entries
<1>3. Foreign \notin Contents \cup {None, Link} /\ Foreign \notin Contents
  BY DataAssumption DEF Trees
<1>4. \A v \in Contents \cup {None, Link} : v \notin Aliases
  BY DataAssumption DEF Trees
<1> QED
  BY <1>2, <1>3, <1>4

(* The checks of verify_managed_state and validate_target_changes: a       *)
(* target that the command is going to change is not the user's, whether   *)
(* it was recorded before or is only going to be, but for an adopted link. *)
LEMMA ChecksSpareTheUser ==
  ASSUME NEW r \in Requests, NEW doc \in Docs,
         VerifyManagedState(r, doc),
         ValidateTargetChanges(r, doc, Requested(r, doc)),
         NEW pl \in TargetChanges(r, doc, Requested(r, doc)), pl[2] # Store
  PROVE  SparesTheUser(dest[pl], r, pl)
<1>1. pl \in Places /\ pl[1] \in r.names
  BY DEF TargetChanges
<1>2. Foreign # None /\ None \notin Aliases
  BY DataAssumption DEF Trees
<1>3. CASE Recorded(doc, pl) # None
  BY <1>1, <1>2, <1>3, RecordedIsManaged DEF VerifyManagedState, SparesTheUser
<1>4. CASE Recorded(doc, pl) = None
  <2>1. dest[pl] = None \/ Adoptable(r, pl)
    BY <1>1, <1>4 DEF TargetChanges, ValidateTargetChanges
  <2>2. r.entries[pl[1]] # None /\ Adoptable(r, pl) => dest[pl] \in Aliases
    <3>1. r \in RequestSpace /\ pl[1] \in Skills
      BY <1>1, RequestsAssumption DEF Places
    <3> QED
      BY <3>1 DEF RequestSpace, EntryOrNone, Entries, Aliases, Adoptable
  <2>3. Recorded(Requested(r, doc), pl) # None
    BY <1>4, pl[2] # Store DEF TargetChanges
  <2>4. r.entries[pl[1]] # None
    BY <1>1, <2>3 DEF Requested, Recorded, Places
  <2>5. Foreign \notin Aliases
    BY DataAssumption DEF Trees
  <2> QED
    BY <1>2, <2>1, <2>2, <2>4, <2>5 DEF SparesTheUser, Adoptable
<1> QED
  BY <1>3, <1>4

(* Accepts establishes Admitted, and no step up to the commit disturbs it. *)
LEMMA AdmittedStep ==
  TypeOK /\ Layout /\ Snapshots /\ Admitted /\ [Next]_vars => Admitted'
<1> SUFFICES ASSUME TypeOK, Layout, Snapshots, Admitted, [Next]_vars, Writing'
             PROVE  Admitted'
  BY DEF Admitted
<1>1. CASE StageJournal
  <2> DEFINE new == Requested(request, ReadLock)
  <2>1. /\ step = "begin" /\ request.kind # "read" /\ newLock' = new
        /\ Accepts(holder, request, ReadLock)
        /\ UNCHANGED <<dest, request, seen, holder>>
    BY <1>1 DEF StageJournal, disk
  <2>2. holder \in Procs /\ request \in Requests
    BY <2>1 DEF TypeOK, CommandTypeOK
  <2>3. ReadLock \in Docs
    BY ReadLockType DEF TypeOK, RecordsTypeOK
  <2>4. LogicalLock = ReadLock /\ \A pl \in Places : Recovered(pl) = dest[pl]
    BY <2>1, RecoveredAtStart
  <2>5. Unseen
    BY <1>1, UnseenTransaction DEF Transaction, StageJournal, CommitLock
  <2>6. new.tx > ReadLock.tx
    BY <2>1, RequestedTx, InitialDocTx
      DEF Layout, Ids, ReadLock, TypeOK, BoundsOK, RecordsTypeOK, Docs
  <2>7. request.kind = "batch" =>
          LogicalLock.tx = seen[holder].tx /\ LogicalLock.skills = seen[holder].skills
    BY <2>1, <2>2, <2>4 DEF Accepts, Snapshots
  <2>8. ASSUME NEW pl \in TargetChanges(request, ReadLock, new), pl[2] # Store
        PROVE  SparesTheUser(Recovered(pl)', request, pl)
    <3>1. pl \in Places /\ SparesTheUser(dest[pl], request, pl)
      BY <2>1, <2>2, <2>3, <2>8, ChecksSpareTheUser DEF Accepts, TargetChanges
    <3> QED
      BY <2>4, <2>5, <3>1 DEF Unseen
  <2> QED
    BY <2>1, <2>4, <2>5, <2>6, <2>7, <2>8
      DEF Admitted, Accepts, Unseen, TargetChanges, Recorded, SparesTheUser
<1>2. CASE ~StageJournal
  <2>1. /\ Writing /\ UNCHANGED <<request, newLock, holder, seen>>
        /\ ~CommitLock /\ ~ \E pl \in Places : UserEdit(pl)
    BY <1>2, WritingStep
  <2>2. Unseen
    BY <2>1, UnseenStep
  <2>3. TargetChanges(request, LogicalLock, newLock)'
          = TargetChanges(request, LogicalLock, newLock)
    BY <2>1, <2>2 DEF Unseen, TargetChanges, Recorded
  <2>4. TargetChanges(request, LogicalLock, newLock) \subseteq Places
    BY DEF TargetChanges
  <2> QED
    BY <2>1, <2>2, <2>3, <2>4 DEF Admitted, Unseen, SparesTheUser
<1> QED
  BY <1>1, <1>2

(* A snapshot is of the recovered store, and only a commit, whose id is    *)
(* new, makes it an old one.                                               *)
LEMMA SnapshotsStep ==
  TypeOK /\ Layout /\ Progress /\ Snapshots /\ Admitted /\ [Next]_vars => Snapshots'
<1> SUFFICES ASSUME TypeOK, Layout, Progress, Snapshots, Admitted, [Next]_vars,
                    NEW p \in Procs
             PROVE  /\ seen'[p].tx <= LogicalLock'.tx
                    /\ seen'[p].tx = LogicalLock'.tx => seen'[p].skills = LogicalLock'.skills
  BY DEF Snapshots
<1>0. LogicalLock \in Docs /\ seen[p] \in Docs
  BY ReadLockType DEF LogicalLock, TypeOK, RecordsTypeOK, CommandTypeOK
<1>1. CASE CommitLock
  <2>1. LogicalLock' = newLock /\ seen' = seen
    BY <1>1, CommitTakesEffect DEF CommitLock, command
  <2>2. newLock.tx > LogicalLock.tx /\ newLock \in Docs
    BY <1>1 DEF Admitted, Writing, CommitLock, TypeOK, CommandTypeOK
  <2> QED
    BY <1>0, <2>1, <2>2 DEF Snapshots, Docs
<1>2. ASSUME NEW pl \in Places, UserEdit(pl)
      PROVE  LogicalLock' = LogicalLock /\ seen' = seen
  BY <1>2 DEF UserEdit, LogicalLock, ReadLock, locks, command
<1>3. CASE seen' # seen
  <2>1. ReadStore
    BY <1>3
      DEF Next, Recovery, Transaction, Faults, Acquire,
          CleanupOrphanJournalStages, RecoverNothing, RecoverUnreadable,
          RecoverPending, RestoreRemoveStage, RestoreRemoveDest, RestoreBackup,
          RestoreLockStage, RestoreLockBackup, CleanupPlace, CleanupLock,
          RemoveJournalAndGoOn, RemoveJournalAndReport, Refuse, StageJournal,
          WriteJournal, StageTarget, SetAside, Promote, VerifyStages, PassGate,
          StageLock, SetLockAside, CommitLock, WriteJournalFails,
          HashStageFails, RemoveCallFails, Crash, RollbackError, RecoveryFails,
          JournalRemovalStops, UserEdit, command, vars
  <2>2. seen' = [seen EXCEPT ![holder] = ReadLock] /\ step = "begin"
    BY <1>3, <2>1 DEF ReadStore
  <2>3. Unseen /\ LogicalLock = ReadLock
    BY <2>1, <2>2, UnseenTransaction, RecoveredAtStart
      DEF Transaction, ReadStore, CommitLock
  <2>4. seen'[p] \in {seen[p], LogicalLock}
    BY <2>2, <2>3 DEF TypeOK, CommandTypeOK
  <2> QED
    BY <1>0, <2>3, <2>4 DEF Snapshots, Unseen, Docs
<1>4. CASE ~CommitLock /\ seen' = seen /\ ~ \E pl \in Places : UserEdit(pl)
  BY <1>4, UnseenStep DEF Unseen, Snapshots
<1> QED
  BY <1>1, <1>2, <1>3, <1>4 DEF Snapshots

(* Nothing is seen, admitted or owned before the first command.            *)
LEMMA AdmittedInit == Init => Admitted /\ Snapshots /\ OwnsTargets
<1> SUFFICES ASSUME Init PROVE Admitted /\ Snapshots /\ OwnsTargets
  OBVIOUS
<1>1. Snapshots
  BY InitialDocTx DEF Init, Snapshots, LogicalLock, ReadLock
<1> QED
  BY <1>1, DistinctAssumption DEF Init, Admitted, Writing, OwnsTargets

(* The places of a transaction stay clear of what is the user's: they were *)
(* when it was admitted, what it puts there is recorded content, and a     *)
(* crash leaves a torn tree at most.  An adopted link goes to the backup   *)
(* in the swap and comes back by a rollback.                               *)
LEMMA OwnsTargetsStep ==
  TypeOK /\ Layout /\ Progress /\ Admitted /\ OwnsTargets /\ [Next]_vars => OwnsTargets'
<1> SUFFICES ASSUME TypeOK, Layout, Progress, Admitted, OwnsTargets, [Next]_vars,
                    ~EditsWhilePending
             PROVE  OwnsTargets'
  BY DEF OwnsTargets
<1> USE DEF disk, locks, journals, command, bounds
<1>1. CASE WriteJournal
  <2>1. /\ step = "journal" /\ UNCHANGED disk
        /\ journal'.places = TargetChanges(request, ReadLock, newLock)
    BY <1>1 DEF WriteJournal
  <2>2. journal = None /\ journal \notin Journals
    BY <2>1, DistinctAssumption DEF Layout, Control
  <2>3. /\ LogicalLock = ReadLock
        /\ \A pl \in Places :
             Recovered(pl) = dest[pl] /\ stage[pl] = None /\ backup[pl] = None
    BY <2>2 DEF Layout, NoResidue, LogicalLock, Recovered, Uncommitted
  <2>4. Foreign # None /\ None \notin Aliases /\ journal'.places \subseteq Places
    BY <2>1, DataAssumption DEF Trees, TargetChanges
  <2>5. journal'.had = {pl \in journal'.places : dest[pl] # None} /\ request' = request
    BY <1>1 DEF WriteJournal
  <2>6. ASSUME NEW pl \in journal'.places, pl[2] # Store
        PROVE  SparesTheUser(dest[pl], request, pl)
    BY <2>1, <2>3, <2>4, <2>6 DEF Admitted, Writing
  <2> QED
    BY <2>1, <2>3, <2>4, <2>5, <2>6 DEF OwnsTargets, SparesTheUser, Adoptable
<1>2. ASSUME NEW pl \in Places, StageTarget(pl) PROVE OwnsTargets'
  <2>1. Recorded(newLock, pl) # Foreign /\ Recorded(newLock, pl) \notin Aliases
    BY RecordedIsManaged DEF TypeOK, CommandTypeOK
  <2>2. /\ stage' = [stage EXCEPT ![pl] = Recorded(newLock, pl)]
        /\ UNCHANGED <<dest, backup, journal, request, step>>
    BY <1>2 DEF StageTarget
  <2>3. journal \in Journals => journal.places \subseteq Places
    BY DEF Journals
  <2>4. \A other \in Places :
          stage'[other] \in {stage[other], Recorded(newLock, pl)}
    BY <2>2 DEF TypeOK, FilesTypeOK
  <2> HIDE DEF disk, locks, journals, command, bounds
  <2> QED
    BY <2>1, <2>2, <2>3, <2>4 DEF OwnsTargets, Adoptable
<1>3. ASSUME NEW pl \in Places,
             \/ RestoreRemoveStage(pl) \/ RestoreRemoveDest(pl) \/ RestoreBackup(pl)
             \/ CleanupPlace(pl) \/ SetAside(pl) \/ Promote(pl)
      PROVE  OwnsTargets'
  <2>1. /\ Foreign # None /\ None \notin Aliases
        /\ pl \in journal.places /\ journal \in Journals
        /\ UNCHANGED <<journal, request, step>>
    BY <1>3, DataAssumption
      DEF Trees, RestoreRemoveStage, RemovesStage, RestoreRemoveDest,
          RemovesDest, RestoreBackup, CleanupPlace, RemovesBackup, SetAside,
          Promote, SwapTurn, Layout, Control
  <2>2. \A other \in Places :
          {dest'[other], stage'[other], backup'[other]}
            \subseteq {dest[other], stage[other], backup[other], None}
    BY <1>3
      DEF RestoreRemoveStage, RestoreRemoveDest, RestoreBackup, CleanupPlace,
          SetAside, Promote, TypeOK, FilesTypeOK
  <2>3. journal.places \subseteq Places
    BY <2>1 DEF Journals
  <2>4. \A other \in Places : stage'[other] \in {stage[other], None}
    BY <1>3
      DEF RestoreRemoveStage, RestoreRemoveDest, RestoreBackup, CleanupPlace,
          SetAside, Promote, TypeOK, FilesTypeOK
  <2>5. ASSUME NEW other \in journal.places, other[2] # Store, dest'[other] \in Aliases
        PROVE  /\ other \in journal.had /\ backup'[other] = None
               /\ step' \in {"stage", "swap"} => dest'[other] = dest[other]
    <3>1. other \in Places
      BY <2>3, <2>5
    <3>2. stage[other] \notin Aliases
      BY <2>1, <2>5 DEF OwnsTargets
    <3>3. dest'[other] = dest[other] =>
            /\ other \in journal.had /\ backup[other] = None
      BY <2>1, <2>5 DEF OwnsTargets
    <3>4. CASE RestoreBackup(pl)
      <4>1. /\ step' = "rollback" /\ step = "rollback"
            /\ dest' = [dest EXCEPT ![pl] = backup[pl]]
            /\ backup' = [backup EXCEPT ![pl] = None] /\ backup[pl] # None
        BY <2>1, <3>4 DEF RestoreBackup
      <4>2. pl \in journal.had
        BY <2>1, <4>1 DEF Layout, Direction, Slots
      <4> QED
        BY <3>1, <3>3, <4>1, <4>2 DEF TypeOK, FilesTypeOK
    <3>5. CASE Promote(pl)
      BY <2>1, <2>5, <3>1, <3>2, <3>3, <3>5 DEF Promote, TypeOK, FilesTypeOK
    <3>6. CASE RestoreRemoveStage(pl) \/ RestoreRemoveDest(pl) \/ CleanupPlace(pl) \/ SetAside(pl)
      BY <2>1, <2>5, <3>1, <3>3, <3>6
        DEF RestoreRemoveStage, RestoreRemoveDest, CleanupPlace, SetAside,
            TypeOK, FilesTypeOK
    <3> QED
      BY <1>3, <3>4, <3>5, <3>6
  <2> QED
    BY <2>1, <2>2, <2>3, <2>4, <2>5 DEF OwnsTargets, Adoptable
<1>4. CASE Faults
  <2>1. /\ Foreign # Torn /\ Torn \notin Aliases
        /\ journal' \in Journals => journal' = journal
        /\ step' \notin {"stage", "swap"}
    BY <1>4, DataAssumption, DistinctAssumption
      DEF Faults, WriteJournalFails, HashStageFails, RemoveCallFails, Crash,
          RollbackError, RecoveryFails, JournalRemovalStops, Release, Trees
  <2>2. \A other \in Places :
          /\ dest'[other] \in {dest[other], Torn}
          /\ stage'[other] \in {stage[other], Torn}
          /\ backup'[other] \in {backup[other], Torn}
    <3>1. CASE UNCHANGED disk
      BY <3>1
    <3>2. CASE CopyTears
      BY <3>2 DEF CopyTears, TypeOK, FilesTypeOK
    <3>3. CASE RemovalTears
      BY <3>3 DEF RemovalTears, TypeOK, FilesTypeOK
    <3> QED
      BY <1>4, <3>1, <3>2, <3>3
        DEF Faults, WriteJournalFails, HashStageFails, RemoveCallFails, Crash,
            RollbackError, RecoveryFails, JournalRemovalStops
  <2>3. journal \in Journals => journal.places \subseteq Places
    BY DEF Journals
  <2>4. \A other \in Places : backup[other] = None => backup'[other] = None
    <3>1. CASE UNCHANGED disk
      BY <3>1
    <3>2. CASE CopyTears
      BY <3>2 DEF CopyTears
    <3>3. CASE RemovalTears
      BY <3>3 DEF RemovalTears, RemovesBackup, TypeOK, FilesTypeOK
    <3> QED
      BY <1>4, <3>1, <3>2, <3>3
        DEF Faults, WriteJournalFails, HashStageFails, RemoveCallFails, Crash,
            RollbackError, RecoveryFails, JournalRemovalStops
  <2> QED
    BY <2>1, <2>2, <2>3, <2>4 DEF OwnsTargets
<1>5. ASSUME NEW pl \in Places, UserEdit(pl) PROVE OwnsTargets'
  BY <1>5, DistinctAssumption DEF UserEdit, OwnsTargets
<1>6. CASE /\ UNCHANGED disk /\ (journal' = journal \/ journal' \notin Journals)
           /\ step' \in {"stage", "swap"} =>
                step \in {"stage", "swap"} /\ request' = request
  BY <1>6 DEF OwnsTargets, Adoptable
<1>7. CASE Recovery
  BY <1>3, <1>6, <1>7, DistinctAssumption
    DEF Recovery, CleanupOrphanJournalStages, RecoverNothing,
        RecoverUnreadable, RecoverPending, RestoreLockStage, RestoreLockBackup,
        CleanupLock, RemoveJournalAndGoOn, RemoveJournalAndReport, Release
<1>8. CASE Transaction
  BY <1>1, <1>2, <1>3, <1>6, <1>8
    DEF Transaction, ReadStore, Refuse, StageJournal, VerifyStages, PassGate,
        StagesReady, StageLock, SetLockAside, CommitLock, Release
<1> QED
  BY <1>4, <1>5, <1>6, <1>7, <1>8 DEF Next, Acquire, vars

(* The strengthened invariant holds in every reachable state. *)
THEOREM StrongCorrect == Spec => []Strong
<1>1. Init => Strong
  BY TypeInit, LayoutInit, ProgressInit, AdmittedInit DEF Strong
<1>2. Strong /\ [Next]_vars => Strong'
  BY TypeStep, LayoutStep, ProgressStep, AdmittedStep, SnapshotsStep, OwnsTargetsStep
    DEF Strong
<1> QED
  BY <1>1, <1>2, PTL DEF Spec

(* The recorded document changes by a commit only, and then while the      *)
(* command that commits is still the one that was admitted.                *)
LEMMA CommitStep ==
  ASSUME TypeOK, Layout, [Next]_vars, LogicalLock' # LogicalLock
  PROVE  CommitLock
<1>1. ASSUME NEW pl \in Places, UserEdit(pl) PROVE FALSE
  BY <1>1 DEF UserEdit, LogicalLock, ReadLock, locks
<1> QED
  BY <1>1, UnseenStep DEF Unseen

(* No command's record is lost under another's: a batch commits only on    *)
(* the document its plan saw, compared once before the first write, and    *)
(* every command changes the entries of the Skills it names and no other,  *)
(* whatever recoveries and other commands ran since.                       *)
THEOREM NoUpdateIsLost == Spec => NoLostUpdate
<1>1. Strong /\ [Next]_vars =>
        [LogicalLock' # LogicalLock =>
           /\ request.kind = "batch" =>
                LogicalLock.tx = seen[holder].tx /\ LogicalLock.skills = seen[holder].skills
           /\ \A s \in Skills \ request.names :
                LogicalLock'.skills[s] = LogicalLock.skills[s]]_vars
  <2> SUFFICES ASSUME Strong, [Next]_vars, LogicalLock' # LogicalLock
               PROVE  /\ request.kind = "batch" =>
                           /\ LogicalLock.tx = seen[holder].tx
                           /\ LogicalLock.skills = seen[holder].skills
                      /\ \A s \in Skills \ request.names :
                           LogicalLock'.skills[s] = LogicalLock.skills[s]
    OBVIOUS
  <2>1. CommitLock /\ step = "lock"
    BY CommitStep DEF Strong, CommitLock
  <2>2. LogicalLock' = newLock
    BY <2>1, CommitTakesEffect DEF Strong
  <2> QED
    BY <2>1, <2>2 DEF Strong, Admitted, Writing, Progress, Planned, Replaces
<1> QED
  BY <1>1, StrongCorrect, PTL DEF NoLostUpdate, Spec

(* A step of the program changes only places that its journal names, and   *)
(* one that stood there before, not yet in a backup, in the swap only.     *)
LEMMA DestStep ==
  ASSUME TypeOK, Layout, [Next]_vars, NEW pl \in Places, dest'[pl] # dest[pl]
  PROVE  \/ edits' # edits
         \/ /\ journal \in Journals /\ pl \in journal.places
            /\ dest[pl] # None /\ backup[pl] = None /\ pl \in journal.had =>
                 step = "swap" /\ dest'[pl] = None
<1> USE DEF disk, locks, journals, command, bounds
<1>1. CASE Recovery
  BY <1>1
    DEF Recovery, CleanupOrphanJournalStages, RecoverNothing,
        RecoverUnreadable, RecoverPending, RestoreRemoveStage,
        RestoreRemoveDest, RemovesDest, RestoreBackup, RestoreLockStage,
        RestoreLockBackup, CleanupPlace, CleanupLock, RemoveJournalAndGoOn,
        RemoveJournalAndReport, Layout, Control, TypeOK, FilesTypeOK
<1>2. CASE Transaction
  BY <1>2
    DEF Transaction, ReadStore, Refuse, StageJournal, WriteJournal,
        StageTarget, SetAside, Promote, SwapTurn, VerifyStages, PassGate,
        StageLock, SetLockAside, CommitLock, Layout, Control, TypeOK,
        FilesTypeOK
<1>3. CASE Faults
  <2>1. CASE UNCHANGED disk
    BY <2>1
  <2>2. CASE CopyTears
    BY <2>2 DEF CopyTears
  <2>3. CASE RemovalTears
    BY <2>3
      DEF RemovalTears, RemovesDest, Layout, Control, TypeOK, FilesTypeOK
  <2> QED
    BY <1>3, <2>1, <2>2, <2>3
      DEF Faults, WriteJournalFails, HashStageFails, RemoveCallFails, Crash,
          RollbackError, RecoveryFails, JournalRemovalStops
<1>4. ASSUME NEW other \in Places, UserEdit(other) PROVE edits' # edits
  BY <1>4 DEF UserEdit, TypeOK, BoundsOK
<1> QED
  BY <1>1, <1>2, <1>3, <1>4 DEF Next, Acquire, vars

(* When the user writes to no place while a journal stands, what the user  *)
(* put into an Agent target, a directory or a link, goes away by the       *)
(* user's hand only, through every crash, rollback and recovery, but for a *)
(* link that a running command adopts.                                     *)
THEOREM UserTargetsAreKept ==
  ASSUME ~EditsWhilePending
  PROVE  Spec => UserTargetsKept
<1>1. Strong /\ [Next]_vars =>
        [\A pl \in Places :
           pl[2] # Store /\ dest[pl] \in {Foreign} \cup Aliases /\ dest'[pl] # dest[pl]
             => \/ edits' # edits
                \/ step = "swap" /\ dest'[pl] = None /\ Adoptable(request, pl)]_vars
  <2>1. None \notin Aliases
    BY DataAssumption DEF Trees
  <2> QED
    BY <2>1, DestStep DEF Strong, OwnsTargets
<1> QED
  BY <1>1, StrongCorrect, PTL DEF UserTargetsKept, Spec

-----------------------------------------------------------------------------
(* The abstract store reads lock documents as the detailed one does.       *)
LEMMA SameRecord ==
  ASSUME NEW doc, NEW pl PROVE Atomic!Recorded(doc, pl) = Recorded(doc, pl)
BY DEF Atomic!Recorded, Recorded

(* The empty store, recovered, is the empty atomic store.                  *)
LEMMA AtomicInit == Init => Atomic!Init
<1> SUFFICES ASSUME Init PROVE Atomic!Init
  OBVIOUS
<1>1. LogicalLock = InitialDoc
  BY DEF Init, LogicalLock, ReadLock
<1>2. \A pl \in Places : Recovered(pl) = None
  BY DistinctAssumption DEF Init, Recovered, Uncommitted
<1> QED
  BY <1>1, <1>2
    DEF Atomic!Init, Atomic!InitialDoc, Atomic!Places, InitialDoc, Places

(* A step that nobody who recovers first can see is a stutter.             *)
LEMMA UnseenStutters ==
  Unseen => UNCHANGED <<LogicalLock, [pl \in Places |-> Recovered(pl)]>>
BY DEF Unseen

(* The user's write to a place is that write on the atomic store, or is    *)
(* none when the place is a pending transaction's to restore.              *)
LEMMA UserEditMaps ==
  ASSUME TypeOK, NEW pl \in Places, UserEdit(pl)
  PROVE  \/ Atomic!UserEdit(pl)
         \/ UNCHANGED <<LogicalLock, [at \in Places |-> Recovered(at)]>>
<1>1. PICK v \in UserValues(pl) : dest' = [dest EXCEPT ![pl] = v]
  BY DEF UserEdit
<1>2. /\ UNCHANGED <<stage, backup, locks, journals>>
      /\ LogicalLock' = LogicalLock /\ (Uncommitted' <=> Uncommitted)
  BY DEF UserEdit, LogicalLock, ReadLock, Uncommitted, locks, journals
<1>3. \A other \in Places \ {pl} : Recovered(other)' = Recovered(other)
  BY <1>1, <1>2 DEF Recovered, journals, TypeOK, FilesTypeOK
<1>4. Recovered(pl)' \in {v, Recovered(pl)}
  BY <1>1, <1>2 DEF Recovered, journals, TypeOK, FilesTypeOK
<1>5. CASE Recovered(pl)' = v
  <2>1. [at \in Places |-> Recovered(at)]' = [[at \in Places |-> Recovered(at)] EXCEPT ![pl] = v]
    BY <1>3, <1>5
  <2>2. v \in Atomic!UserValues(pl)
    BY <1>1 DEF Atomic!UserValues, Atomic!Aliases, UserValues, Aliases
  <2> QED
    BY <1>2, <2>1, <2>2 DEF Atomic!UserEdit
<1>6. CASE Recovered(pl)' = Recovered(pl)
  BY <1>2, <1>3, <1>6
<1> QED
  BY <1>4, <1>5, <1>6

(* A place that a transaction changes is managed, before it or after it:   *)
(* the canonical place of a removed Skill is recorded, and that of an      *)
(* installed one is going to be.                                           *)
LEMMA ChangedIsManaged ==
  ASSUME TypeOK, Progress, Admitted, step = "lock", NEW pl \in Places
  PROVE  pl \in journal.places <=>
           /\ pl[1] \in request.names
           /\ Recorded(LogicalLock, pl) # None \/ Recorded(newLock, pl) # None
<1>1. /\ request.kind # "read" /\ request \in Requests
      /\ request.kind = "remove" => \A s \in request.names : LogicalLock.skills[s] # None
      /\ journal.places = TargetChanges(request, LogicalLock, newLock)
      /\ Replaces(LogicalLock)
  BY DistinctAssumption
    DEF Admitted, Writing, Progress, Planned, TypeOK, CommandTypeOK
<1>2. LogicalLock \in Docs /\ newLock \in Docs /\ request \in RequestSpace /\ WellFormed(request)
  BY <1>1, ReadLockType, RequestsAssumption
    DEF LogicalLock, TypeOK, RecordsTypeOK, CommandTypeOK
<1>3. pl[1] \in Skills
  BY DEF Places
<1>4. ASSUME NEW doc \in Docs, doc.skills[pl[1]] # None, pl[2] = Store
      PROVE  Recorded(doc, pl) # None
  <2>1. doc.skills[pl[1]] \in Entries
    BY <1>3, <1>4 DEF Docs, EntryOrNone
  <2> QED
    BY <1>4, <2>1, DataAssumption DEF Recorded, Entries, Trees
<1>5. ASSUME pl[1] \in request.names, pl[2] = Store
      PROVE  LogicalLock.skills[pl[1]] # None \/ newLock.skills[pl[1]] # None
  BY <1>1, <1>2, <1>3, <1>5 DEF WellFormed, Replaces, RequestSpace
<1> QED
  BY <1>1, <1>2, <1>4, <1>5 DEF TargetChanges

(* The last rename of write_lock_atomic is the whole command at once: the  *)
(* document and every file it records change together, no other Skill      *)
(* does, a required Skill stays, and so does every directory of the user's.*)
LEMMA CommitMaps ==
  ASSUME Strong, CommitLock
  PROVE  request.names # {} /\ request.names \subseteq Skills /\ Atomic!Commit(request.names)
<1> USE DEF Strong
<1>1. step = "lock" /\ journal \in Journals /\ Writing
  BY DEF CommitLock, Writing, Layout, Control
<1>2. /\ request \in RequestSpace /\ WellFormed(request)
      /\ request.kind # "read"
  BY <1>1, RequestsAssumption DEF Admitted, TypeOK, CommandTypeOK
<1>3. request.names # {} /\ request.names \subseteq Skills
  BY <1>2 DEF RequestSpace, WellFormed
<1>4. LogicalLock' = newLock
  BY CommitTakesEffect
<1>5. newLock \in Docs /\ newLock.tx > LogicalLock.tx /\ Replaces(LogicalLock)
  BY <1>1 DEF Admitted, Progress, Planned, TypeOK, CommandTypeOK
<1>6. newLock \in Atomic!Docs
  BY <1>5 DEF Docs, EntryOrNone, Entries, Atomic!Docs, Atomic!EntryOrNone, Atomic!Entries
<1>7. \A s \in Skills \ request.names : newLock.skills[s] = LogicalLock.skills[s]
  BY <1>5 DEF Replaces
<1>8. \A s \in request.names : newLock.skills[s] = None => s \notin LogicalLock.required
  <2> SUFFICES ASSUME NEW s \in request.names, newLock.skills[s] = None
               PROVE  s \notin LogicalLock.required
    OBVIOUS
  <2>1. request.entries[s] = None
    BY <1>3, <1>5 DEF Replaces
  <2>2. request.kind = "remove"
    BY <1>2, <2>1 DEF WellFormed, RequestSpace
  <2> QED
    BY <1>1, <2>2 DEF Admitted
<1>9. \A pl \in Places :
        Recovered(pl)' =
          IF /\ pl[1] \in request.names
             /\ Recorded(LogicalLock, pl) # None \/ Recorded(newLock, pl) # None
          THEN Recorded(newLock, pl) ELSE Recovered(pl)
  BY <1>1, CommitTakesEffect, ChangedIsManaged
<1>10. \A pl \in Places :
         Recovered(pl) = Foreign /\ pl[2] # Store => Recovered(pl)' = Foreign
  <2> SUFFICES ASSUME NEW pl \in Places, Recovered(pl) = Foreign, pl[2] # Store
               PROVE  pl \notin journal.places
    BY CommitTakesEffect
  <2>1. journal.places = TargetChanges(request, LogicalLock, newLock)
    BY <1>1 DEF Progress, Planned
  <2> QED
    BY <1>1, <2>1 DEF Admitted, SparesTheUser
<1> DEFINE files == [pl \in Places |-> Recovered(pl)]
<1>11. files' = [pl \in Atomic!Places |->
          IF /\ pl[1] \in request.names
             /\ Atomic!Managed(LogicalLock, pl) \/ Atomic!Managed(newLock, pl)
          THEN Atomic!Recorded(newLock, pl) ELSE files[pl]]
  <2>1. Atomic!Places = Places
    BY DEF Atomic!Places, Places
  <2>2. \A pl \in Places :
          /\ files'[pl] = Recovered(pl)' /\ files[pl] = Recovered(pl)
          /\ Atomic!Managed(LogicalLock, pl) <=> Recorded(LogicalLock, pl) # None
          /\ Atomic!Managed(newLock, pl) <=> Recorded(newLock, pl) # None
          /\ Atomic!Recorded(newLock, pl) = Recorded(newLock, pl)
    BY SameRecord DEF Atomic!Managed
  <2> QED
    BY <1>9, <2>1, <2>2
<1>12. \A pl \in Atomic!Places : files[pl] = Foreign /\ pl[2] # Store => files'[pl] = Foreign
  BY <1>10 DEF Atomic!Places, Places
<1> QED
  BY <1>3, <1>4, <1>5, <1>6, <1>7, <1>8, <1>11, <1>12 DEF Atomic!Commit

(* Every step of the store is a step of the atomic store, or a stutter.    *)
LEMMA AtomicStep ==
  Strong /\ [Next]_vars =>
    [Atomic!Next]_<<LogicalLock, [pl \in Places |-> Recovered(pl)]>>
<1> SUFFICES ASSUME Strong, [Next]_vars
             PROVE  \/ Atomic!Next
                    \/ UNCHANGED <<LogicalLock, [pl \in Places |-> Recovered(pl)]>>
  OBVIOUS
<1>1. CASE CommitLock
  BY <1>1, CommitMaps DEF Atomic!Next
<1>2. ASSUME NEW pl \in Places, UserEdit(pl)
      PROVE  \/ Atomic!Next
             \/ UNCHANGED <<LogicalLock, [at \in Places |-> Recovered(at)]>>
  <2>1. pl \in Atomic!Places
    BY DEF Atomic!Places, Places
  <2> QED
    BY <1>2, <2>1, UserEditMaps DEF Strong, Atomic!Next
<1>3. CASE ~CommitLock /\ ~ \E pl \in Places : UserEdit(pl)
  BY <1>3, UnseenStep, UnseenStutters DEF Strong
<1> QED
  BY <1>1, <1>2, <1>3

(* The Skill store implements the atomic store: however many Skills and    *)
(* targets a command touches and wherever it, its rollback or a recovery   *)
(* is interrupted, the recovered store changes by whole commands only.     *)
THEOREM StoreIsAtomic == Spec => AtomicSpec
BY AtomicInit, AtomicStep, StrongCorrect, PTL DEF Spec, AtomicSpec, Atomic!Spec

=============================================================================
