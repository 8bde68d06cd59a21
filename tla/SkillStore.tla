----------------------------- MODULE SkillStore -----------------------------
(***************************************************************************)
(* The Skill store of skilld (crates/skilld-command/src/local_store.rs):   *)
(* a directory of canonical Skills, a lockfile that records them, copies   *)
(* of or links to them in the Agent target roots, and the journalled       *)
(* transaction that changes all of these together.  Commands of several    *)
(* processes share the store; an exclusive file lock serialises them.      *)
(*                                                                         *)
(* One action is one file-system call of the source (or one that touches a *)
(* single tree), so a crash can fall between any two of them.  Where the   *)
(* source visits places in a fixed order the model visits them in any      *)
(* order that keeps a Skill's canonical directory before its targets.      *)
(*                                                                         *)
(* The names ".skilld-stage-<name>-<tx>" and ".skilld-backup-<name>-<tx>"  *)
(* carry the transaction; the model has one slot of each per place.  That  *)
(* is sound because no slot outlives its journal (NoResidue, checked and   *)
(* proved), so only one transaction ever owns slots.                       *)
(***************************************************************************)
EXTENDS SkillData

CONSTANTS
  Procs,          \* processes that run commands on the store
  Requests,       \* the commands that may be run (a subset of RequestSpace)
  Hollow,         \* a journal directory without its state.json
  MaxTx,          \* bound: transactions started
  MaxFaults,      \* bound: crashes and I/O errors
  MaxEdits,       \* bound: writes by the user
  JournalTears,   \* a crash may fall inside the removal of the journal
  EditsWhilePending \* the user may write while a transaction is pending

(* Journal: the Skills' places it will touch, and which existed before. *)
Journals == [tx: Nat, places: SUBSET Places, had: SUBSET Places]

(* A command: the entries it wants for the Skills it names (None removes). *)
RequestSpace ==
  [kind: {"read", "install", "batch", "remove"}, names: SUBSET Skills,
   entries: [Skills -> EntryOrNone], adopt: BOOLEAN,
   declares: BOOLEAN, required: SUBSET Skills]

WellFormed(r) ==
  /\ (r.kind = "read") <=> (r.names = {})
  /\ r.kind \in {"install", "remove"} => \E s \in Skills : r.names = {s}
  /\ r.kind = "remove" => \A s \in Skills : r.entries[s] = None
  /\ r.kind \in {"install", "batch"} => \A s \in r.names : r.entries[s] # None
  /\ r.kind # "batch" => ~r.adopt /\ ~r.declares

ASSUME BoundsAssumption ==
  /\ MaxTx \in Nat /\ MaxFaults \in Nat /\ MaxEdits \in Nat
  /\ JournalTears \in BOOLEAN /\ EditsWhilePending \in BOOLEAN

ASSUME DistinctAssumption ==
  /\ None \notin Procs /\ None \notin RequestSpace
  /\ None \notin Journals /\ Hollow \notin Journals /\ Hollow # None

ASSUME RequestsAssumption ==
  \A r \in Requests : r \in RequestSpace /\ WellFormed(r)

-----------------------------------------------------------------------------
VARIABLES
  dest, stage, backup,            \* per place: the file, its stage, its backup
  lockfile, lockStage, lockBackup,\* skilld-lock.yaml and its two siblings
  journal, journalStage,          \* .skilld-transaction and its staging directory
  holder, request, step, goal,    \* the process that holds the store lock
  newLock,                        \* the lock document it is going to write
  seen,                           \* per process: the last snapshot it took
  outcome,                        \* what the last command reported
  clock, faults, edits            \* transaction ids and the bounded counters

disk     == <<dest, stage, backup>>
locks    == <<lockfile, lockStage, lockBackup>>
journals == <<journal, journalStage>>
command  == <<holder, request, newLock, seen, outcome>>
bounds   == <<clock, faults, edits>>
vars == <<disk, locks, journals, command, step, goal, bounds>>

-----------------------------------------------------------------------------
(* read_lock: a missing lockfile reads as the default document. *)
ReadLock == IF lockfile = None THEN InitialDoc ELSE lockfile

Requested(r, doc) ==
  [tx |-> clock + 1,
   skills |-> [s \in Skills |->
                 IF s \in r.names THEN r.entries[s] ELSE doc.skills[s]],
   required |-> IF r.declares THEN r.required ELSE doc.required]

(* target_changes: a named Skill's canonical place, and its old and new targets. *)
TargetChanges(r, old, new) ==
  {pl \in Places :
     /\ pl[1] \in r.names
     /\ \/ pl[2] = Store
        \/ Recorded(old, pl) # None
        \/ Recorded(new, pl) # None}

(* verify_managed_state: a recorded place is missing or as recorded.  A    *)
(* link of the user's never is: hash_skill_tree refuses one at its root.   *)
VerifyManagedState(r, doc) ==
  \A pl \in Places :
    pl[1] \in r.names /\ Recorded(doc, pl) # None
      => dest[pl] = None \/ dest[pl] = Recorded(doc, pl)

(* Faulty variant: adoption does not look at what stands at the target. *)
AdoptsAnything(r, old, new) ==
  \A pl \in Places :
    pl[1] \in r.names /\ pl[2] # Store /\ Recorded(new, pl) # None
      => dest[pl] = None \/ Recorded(old, pl) # None \/ r.adopt

(* With --adopt, a link of the user's to the very bytes that are installed *)
(* gives way; only here the link is resolved before the digest is taken.   *)
Adoptable(r, pl) ==
  r.adopt /\ dest[pl] = [alias |-> r.entries[pl[1]].content]

(* validate_target_changes: only a managed or an adoptable target goes.    *)
ValidateTargetChanges(r, old, new) ==
  \A pl \in Places :
    pl[1] \in r.names /\ pl[2] # Store /\ Recorded(new, pl) # None
      => \/ dest[pl] = None
         \/ Recorded(old, pl) # None
         \/ Adoptable(r, pl)

(* Faulty variant: apply_batch without its comparison with the snapshot. *)
AcceptsStalePlans(p, r, doc) ==
  /\ r.kind = "remove" =>
       \A s \in r.names : doc.skills[s] # None /\ s \notin doc.required
  /\ VerifyManagedState(r, doc)
  /\ ValidateTargetChanges(r, doc, Requested(r, doc))

Accepts(p, r, doc) ==
  /\ r.kind = "remove" =>
       \A s \in r.names : doc.skills[s] # None /\ s \notin doc.required
  /\ r.kind = "batch" =>
       /\ doc.tx = seen[p].tx
       /\ \A s \in r.names : doc.skills[s] = seen[p].skills[s]
  /\ VerifyManagedState(r, doc)
  /\ ValidateTargetChanges(r, doc, Requested(r, doc))

-----------------------------------------------------------------------------
Init ==
  /\ dest = [pl \in Places |-> None]
  /\ stage = [pl \in Places |-> None]
  /\ backup = [pl \in Places |-> None]
  /\ lockfile = None /\ lockStage = None /\ lockBackup = None
  /\ journal = None /\ journalStage = FALSE
  /\ holder = None /\ request = None /\ step = "idle" /\ goal = "work"
  /\ newLock = InitialDoc
  /\ seen = [p \in Procs |-> InitialDoc]
  /\ outcome = "none"
  /\ clock = 0 /\ faults = 0 /\ edits = 0

(* The command ends or dies: the operating system frees its lock. *)
Release(result) ==
  /\ holder' = None /\ request' = None /\ newLock' = InitialDoc
  /\ step' = "idle" /\ goal' = "work"
  /\ outcome' = result

Fault == faults < MaxFaults /\ faults' = faults + 1

-----------------------------------------------------------------------------
(* acquire_store_lock, then recover_locked: every command starts here. *)
Acquire(p, r) ==
  /\ holder = None
  /\ r.kind # "read" => clock < MaxTx
  /\ holder' = p /\ request' = r
  /\ step' = "orphans" /\ outcome' = "none"
  /\ UNCHANGED <<disk, locks, journals, newLock, seen, goal, bounds>>

CleanupOrphanJournalStages ==
  /\ step = "orphans"
  /\ journalStage' = FALSE
  /\ step' = "recover"
  /\ UNCHANGED <<disk, locks, journal, command, goal, bounds>>

(* Faulty variant: a command starts over a pending journal. *)
IgnoreJournal ==
  /\ step = "recover" /\ step' = "begin"
  /\ UNCHANGED <<disk, locks, journals, command, goal, bounds>>

(* Faulty variant: a committed transaction is rolled back too. *)
AlwaysRollBack ==
  /\ step = "recover" /\ journal \notin {None, Hollow}
  /\ step' = "rollback"
  /\ UNCHANGED <<disk, locks, journals, command, goal, bounds>>

(* recover_locked: the lockfile's transaction id decides the direction. *)
RecoverNothing ==
  /\ step = "recover" /\ journal = None
  /\ step' = "begin"
  /\ UNCHANGED <<disk, locks, journals, command, goal, bounds>>

RecoverUnreadable ==
  /\ step = "recover" /\ journal = Hollow
  /\ Release("failed")
  /\ UNCHANGED <<disk, locks, journals, seen, bounds>>

RecoverPending ==
  /\ step = "recover" /\ journal \notin {None, Hollow}
  /\ step' = IF ReadLock.tx = journal.tx THEN "cleanup" ELSE "rollback"
  /\ UNCHANGED <<disk, locks, journals, command, goal, bounds>>

-----------------------------------------------------------------------------
(* restore_path, call by call.  Where it stands follows from the files. *)
RemovesStage(pl) ==
  step = "rollback" /\ pl \in journal.places /\ stage[pl] # None

RemovesDest(pl) ==
  /\ step = "rollback" /\ pl \in journal.places
  /\ stage[pl] = None /\ dest[pl] # None
  /\ backup[pl] # None \/ pl \notin journal.had

RestoreRemoveStage(pl) ==
  /\ RemovesStage(pl)
  /\ stage' = [stage EXCEPT ![pl] = None]
  /\ UNCHANGED <<dest, backup, locks, journals, command, step, goal, bounds>>

RestoreRemoveDest(pl) ==
  /\ RemovesDest(pl)
  /\ dest' = [dest EXCEPT ![pl] = None]
  /\ UNCHANGED <<stage, backup, locks, journals, command, step, goal, bounds>>

RestoreBackup(pl) ==
  /\ step = "rollback" /\ pl \in journal.places
  /\ stage[pl] = None /\ backup[pl] # None /\ dest[pl] = None
  /\ dest' = [dest EXCEPT ![pl] = backup[pl]]
  /\ backup' = [backup EXCEPT ![pl] = None]
  /\ UNCHANGED <<stage, locks, journals, command, step, goal, bounds>>

(* Faulty variant: what did not exist before the transaction may stay. *)
RolledBackToBackups ==
  \A pl \in journal.places : stage[pl] = None /\ backup[pl] = None

RolledBack ==
  \A pl \in journal.places :
    /\ stage[pl] = None /\ backup[pl] = None
    /\ pl \notin journal.had => dest[pl] = None

(* restore_lockfile, after every path.  A backup exists only while the     *)
(* lockfile is missing here, so its remove_path finds nothing.             *)
RestoreLockStage ==
  /\ step = "rollback" /\ RolledBack /\ lockStage # None
  /\ lockStage' = None
  /\ UNCHANGED <<disk, lockfile, lockBackup, journals, command, step, goal, bounds>>

RestoreLockBackup ==
  /\ step = "rollback" /\ RolledBack /\ lockStage = None /\ lockBackup # None
  /\ lockfile' = lockBackup /\ lockBackup' = None
  /\ UNCHANGED <<disk, lockStage, journals, command, step, goal, bounds>>

-----------------------------------------------------------------------------
(* cleanup_committed: stages were consumed by the swap, backups remain. *)
RemovesBackup(pl) ==
  step = "cleanup" /\ pl \in journal.places /\ backup[pl] # None

CleanupPlace(pl) ==
  /\ RemovesBackup(pl)
  /\ stage' = [stage EXCEPT ![pl] = None]
  /\ backup' = [backup EXCEPT ![pl] = None]
  /\ UNCHANGED <<dest, locks, journals, command, step, goal, bounds>>

CleanupLock ==
  /\ step = "cleanup" /\ lockBackup # None
  /\ \A pl \in journal.places : backup[pl] = None
  /\ lockStage' = None /\ lockBackup' = None
  /\ UNCHANGED <<disk, lockfile, journals, command, step, goal, bounds>>

(* Faulty variant: the journal goes before the lockfile's siblings. *)
JournalDoneEarly ==
  \/ step = "rollback" /\ RolledBack
  \/ step = "cleanup" /\ \A pl \in journal.places : backup[pl] = None

(* Both directions end with the removal of the journal directory, which    *)
(* unlinks state.json and then the directory.                              *)
JournalDone ==
  /\ \/ step = "rollback" /\ RolledBack
     \/ step = "cleanup" /\ \A pl \in journal.places : backup[pl] = None
  /\ lockStage = None /\ lockBackup = None

(* Faulty variant: recovery leaves the journal it has worked through. *)
GoOnKeepingJournal ==
  /\ JournalDone /\ goal = "work"
  /\ step' = "begin"
  /\ UNCHANGED <<disk, locks, journals, command, goal, bounds>>

RemoveJournalAndGoOn ==
  /\ JournalDone /\ goal = "work"
  /\ journal' = None /\ step' = "begin"
  /\ UNCHANGED <<disk, locks, journalStage, command, goal, bounds>>

RemoveJournalAndReport ==
  /\ JournalDone /\ goal # "work"
  /\ journal' = None
  /\ Release(IF goal = "done" THEN "ok" ELSE "failed")
  /\ UNCHANGED <<disk, locks, journalStage, seen, bounds>>

-----------------------------------------------------------------------------
(* Faulty variant: a missing lockfile is passed on. *)
ReadRawLock ==
  /\ step = "begin" /\ request.kind = "read"
  /\ seen' = [seen EXCEPT ![holder] = lockfile]
  /\ Release("ok")
  /\ UNCHANGED <<disk, locks, journals, bounds>>

(* snapshot, list, view, verify_content; the last two may fail to find the *)
(* Skill, or find it changed.                                              *)
ReadStore ==
  /\ step = "begin" /\ request.kind = "read"
  /\ \/ seen' = [seen EXCEPT ![holder] = ReadLock] /\ Release("ok")
     \/ UNCHANGED seen /\ Release("failed")
  /\ UNCHANGED <<disk, locks, journals, bounds>>

(* Faulty variant: a refused command tries again under its lock. *)
RetryRefused ==
  /\ step = "begin" /\ request.kind # "read"
  /\ ~Accepts(holder, request, ReadLock)
  /\ step' = "orphans"
  /\ UNCHANGED <<disk, locks, journals, command, goal, bounds>>

(* StalePlan, NotFound, RequiredSkill or Conflict: nothing was changed. *)
Refuse ==
  /\ step = "begin" /\ request.kind # "read"
  /\ ~Accepts(holder, request, ReadLock)
  /\ Release("failed")
  /\ UNCHANGED <<disk, locks, journals, seen, bounds>>

(* write_journal: build the directory aside, then rename it. *)
StageJournal ==
  /\ step = "begin" /\ request.kind # "read"
  /\ Accepts(holder, request, ReadLock)
  /\ clock' = clock + 1
  /\ newLock' = Requested(request, ReadLock)
  /\ journalStage' = TRUE
  /\ step' = "journal"
  /\ UNCHANGED <<disk, locks, journal, holder, request, seen, outcome, goal, faults, edits>>

WriteJournal ==
  /\ step = "journal"
  /\ LET changes == TargetChanges(request, ReadLock, newLock)
     IN  journal' = [tx |-> newLock.tx, places |-> changes,
                     had |-> {pl \in changes : dest[pl] # None}]
  /\ journalStage' = FALSE
  /\ step' = IF request.kind = "remove" THEN "swap" ELSE "stage"
  /\ UNCHANGED <<disk, locks, command, goal, bounds>>

WriteJournalFails ==
  /\ step = "journal" /\ Fault
  /\ journalStage' \in BOOLEAN
  /\ Release("failed")
  /\ UNCHANGED <<disk, locks, journal, seen, clock, edits>>

-----------------------------------------------------------------------------
(* copy_tree and stage_target, the canonical stage first. *)
CopiesStage(pl) ==
  /\ step = "stage" /\ pl \in journal.places
  /\ Recorded(newLock, pl) # None /\ stage[pl] = None
  /\ pl = Canonical(pl) \/ stage[Canonical(pl)] # None

StageTarget(pl) ==
  /\ CopiesStage(pl)
  /\ stage' = [stage EXCEPT ![pl] = Recorded(newLock, pl)]
  /\ UNCHANGED <<dest, backup, locks, journals, command, step, goal, bounds>>

StagesReady ==
  step = "stage" /\ \A pl \in journal.places : stage[pl] = Recorded(newLock, pl)

(* hash_skill_tree of the stage equals the digest taken at the start. *)
VerifyStages ==
  /\ StagesReady
  /\ step' = "swap"
  /\ UNCHANGED <<disk, locks, journals, command, goal, bounds>>

(* install_from returns that hash's I/O error with `?`: no rollback. *)
HashStageFails ==
  /\ StagesReady /\ request.kind = "install" /\ Fault
  /\ Release("failed")
  /\ UNCHANGED <<disk, locks, journals, seen, clock, edits>>

-----------------------------------------------------------------------------
Swapped(pl) ==
  /\ pl \in journal.had => backup[pl] # None
  /\ stage[pl] = None

(* The renames run one place after another, a canonical place first. *)
SwapTurn(pl) ==
  /\ step = "swap" /\ pl \in journal.places
  /\ pl = Canonical(pl) \/ Swapped(Canonical(pl))
  /\ \A other \in journal.places \ {pl} : backup[other] = None \/ stage[other] = None

SetAside(pl) ==
  /\ SwapTurn(pl) /\ pl \in journal.had /\ backup[pl] = None
  /\ backup' = [backup EXCEPT ![pl] = dest[pl]]
  /\ dest' = [dest EXCEPT ![pl] = None]
  /\ UNCHANGED <<stage, locks, journals, command, step, goal, bounds>>

Promote(pl) ==
  /\ SwapTurn(pl) /\ stage[pl] # None
  /\ pl \in journal.had => backup[pl] # None
  /\ dest' = [dest EXCEPT ![pl] = stage[pl]]
  /\ stage' = [stage EXCEPT ![pl] = None]
  /\ UNCHANGED <<backup, locks, journals, command, step, goal, bounds>>

PassGate ==
  /\ step = "swap" /\ \A pl \in journal.places : Swapped(pl)
  /\ step' = "lock"
  /\ UNCHANGED <<disk, locks, journals, command, goal, bounds>>

(* remove returns an error of its first rename, or of looking at a target, *)
(* with `?`: no rollback.                                                  *)
RemoveCallFails ==
  /\ step = "swap" /\ request.kind = "remove" /\ Fault
  /\ \E pl \in journal.had : backup[pl] = None
  /\ Release("failed")
  /\ UNCHANGED <<disk, locks, journals, seen, clock, edits>>

-----------------------------------------------------------------------------
(* write_lock_atomic; its last rename is the commit point. *)
StageLock ==
  /\ step = "lock" /\ lockStage = None
  /\ lockStage' = newLock
  /\ UNCHANGED <<disk, lockfile, lockBackup, journals, command, step, goal, bounds>>

SetLockAside ==
  /\ step = "lock" /\ lockStage # None /\ lockfile # None
  /\ lockBackup' = lockfile /\ lockfile' = None
  /\ UNCHANGED <<disk, lockStage, journals, command, step, goal, bounds>>

CommitLock ==
  /\ step = "lock" /\ lockStage # None /\ lockfile = None
  /\ lockfile' = lockStage /\ lockStage' = None
  /\ step' = "cleanup" /\ goal' = "done"
  /\ UNCHANGED <<disk, lockBackup, journals, command, bounds>>

-----------------------------------------------------------------------------
(* A call that copies or removes a tree can stop half way. *)
CopyTears ==
  \E pl \in Places :
    /\ CopiesStage(pl)
    /\ stage' = [stage EXCEPT ![pl] = Torn]
    /\ UNCHANGED <<dest, backup>>

RemovalTears ==
  \E pl \in Places :
    \/ /\ RemovesStage(pl) /\ stage[pl] \in Trees
       /\ stage' = [stage EXCEPT ![pl] = Torn]
       /\ UNCHANGED <<dest, backup>>
    \/ /\ RemovesDest(pl) /\ dest[pl] \in Trees
       /\ dest' = [dest EXCEPT ![pl] = Torn]
       /\ UNCHANGED <<stage, backup>>
    \/ /\ RemovesBackup(pl) /\ backup[pl] \in Trees
       /\ backup' = [backup EXCEPT ![pl] = Torn]
       /\ UNCHANGED <<dest, stage>>

(* The process dies at any point. *)
Crash ==
  /\ holder # None /\ Fault
  /\ UNCHANGED disk \/ CopyTears \/ RemovalTears
  /\ Release("crashed")
  /\ UNCHANGED <<locks, journals, seen, clock, edits>>

(* A call fails before the commit: rollback_error recovers under the lock. *)
RollbackError ==
  /\ step \in {"stage", "swap", "lock"} /\ Fault
  /\ request.kind = "remove" =>
       \A pl \in journal.had : pl = Canonical(pl) => backup[pl] # None
  /\ UNCHANGED disk \/ CopyTears
  /\ step' = "orphans" /\ goal' = "fail"
  /\ UNCHANGED <<locks, journals, command, clock, edits>>

(* Faulty variant: a cleanup that fails after the commit reports a failure. *)
CleanupFailureReported ==
  /\ step \in {"orphans", "recover", "rollback", "cleanup", "begin"} /\ Fault
  /\ UNCHANGED disk \/ RemovalTears
  /\ Release("failed")
  /\ UNCHANGED <<locks, journals, seen, clock, edits>>

(* A call of the recovery, of the checks after it or of the cleanup fails: *)
(* the command ends and a journal stays.                                   *)
RecoveryFails ==
  /\ step \in {"orphans", "recover", "rollback", "cleanup", "begin"} /\ Fault
  /\ UNCHANGED disk \/ RemovalTears
  /\ Release(IF goal = "done" THEN "pending" ELSE "failed")
  /\ UNCHANGED <<locks, journals, seen, clock, edits>>

(* The removal of the journal directory stops after state.json is gone. *)
JournalRemovalStops ==
  /\ JournalTears /\ JournalDone /\ Fault
  /\ journal' = Hollow
  /\ Release(IF goal = "done" THEN "pending" ELSE "failed")
  /\ UNCHANGED <<disk, locks, journalStage, seen, clock, edits>>

-----------------------------------------------------------------------------
(* The user or an Agent changes a place between commands. *)
UserEdit(pl) ==
  /\ holder = None /\ edits < MaxEdits /\ edits' = edits + 1
  /\ journal = None \/ EditsWhilePending
  /\ \E v \in UserValues(pl) :
       v # dest[pl] /\ dest' = [dest EXCEPT ![pl] = v]
  /\ UNCHANGED <<stage, backup, locks, journals, command, step, goal, clock, faults>>

-----------------------------------------------------------------------------
Recovery ==
  \/ CleanupOrphanJournalStages
  \/ RecoverNothing \/ RecoverUnreadable \/ RecoverPending
  \/ \E pl \in Places :
       RestoreRemoveStage(pl) \/ RestoreRemoveDest(pl) \/ RestoreBackup(pl)
  \/ RestoreLockStage \/ RestoreLockBackup
  \/ \E pl \in Places : CleanupPlace(pl)
  \/ CleanupLock
  \/ RemoveJournalAndGoOn \/ RemoveJournalAndReport

Transaction ==
  \/ ReadStore \/ Refuse \/ StageJournal \/ WriteJournal
  \/ \E pl \in Places : StageTarget(pl) \/ SetAside(pl) \/ Promote(pl)
  \/ VerifyStages \/ PassGate
  \/ StageLock \/ SetLockAside \/ CommitLock

Faults ==
  \/ WriteJournalFails \/ HashStageFails \/ RemoveCallFails
  \/ Crash \/ RollbackError \/ RecoveryFails \/ JournalRemovalStops

Next ==
  \/ \E p \in Procs, r \in Requests : Acquire(p, r)
  \/ Recovery \/ Transaction \/ Faults
  \/ \E pl \in Places : UserEdit(pl)

Spec == Init /\ [][Next]_vars

(* A running command keeps taking steps, and somebody keeps using the store. *)
Fairness ==
  /\ WF_vars(Recovery \/ Transaction)
  /\ WF_vars(\E p \in Procs, r \in Requests : r.kind = "read" /\ Acquire(p, r))

FairSpec == Spec /\ Fairness
=============================================================================
