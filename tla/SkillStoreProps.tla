--------------------------- MODULE SkillStoreProps ---------------------------
(***************************************************************************)
(* What the Skill store must never do, and what it must get done.          *)
(***************************************************************************)
EXTENDS SkillStore

FilesTypeOK ==
  /\ dest \in [Places -> Values]
  /\ stage \in [Places -> Values]
  /\ backup \in [Places -> Values]

RecordsTypeOK ==
  /\ lockfile \in Docs \cup {None}
  /\ lockStage \in Docs \cup {None}
  /\ lockBackup \in Docs \cup {None}
  /\ journal \in Journals \cup {None, Hollow}
  /\ journalStage \in BOOLEAN

CommandTypeOK ==
  /\ holder \in Procs \cup {None}
  /\ request \in Requests \cup {None}
  /\ step \in {"idle", "orphans", "recover", "rollback", "cleanup", "begin",
               "journal", "stage", "swap", "lock"}
  /\ goal \in {"work", "fail", "done"}
  /\ newLock \in Docs
  /\ seen \in [Procs -> Docs]
  /\ outcome \in {"none", "ok", "failed", "pending", "crashed"}
  /\ holder = None <=> step = "idle"
  /\ holder # None => request \in Requests

BoundsOK ==
  clock \in Nat /\ faults \in 0..MaxFaults /\ edits \in 0..MaxEdits

(* The type invariant of the store, its transaction and its commands. *)
TypeOK == FilesTypeOK /\ RecordsTypeOK /\ CommandTypeOK /\ BoundsOK

-----------------------------------------------------------------------------
(* The state as recovery would leave it, if it ran now. *)
LogicalLock ==
  IF lockfile = None /\ lockBackup # None THEN lockBackup ELSE ReadLock

Uncommitted == journal \in Journals /\ ReadLock.tx # journal.tx

Recovered(pl) ==
  IF ~(Uncommitted /\ pl \in journal.places) THEN dest[pl]
  ELSE IF backup[pl] # None THEN backup[pl]
  ELSE IF pl \in journal.had THEN dest[pl]
  ELSE None

(* At every instant, a recovery that starts now ends in a store whose      *)
(* canonical Skills and Agent targets are the ones its lockfile records;   *)
(* a place differs only by what the user left there.  This is the job of   *)
(* recover_locked, rollback and cleanup_committed together.                *)
Agreement ==
  \A pl \in Places :
    /\ Recovered(pl) \in {Recorded(LogicalLock, pl)} \cup UserValues(pl)
    /\ edits = 0 => Recovered(pl) = Recorded(LogicalLock, pl)

(* Nothing of a transaction outlives its journal: no stage, no backup and  *)
(* no sibling of the lockfile.  Later recoveries would never find them.    *)
NoResidue ==
  journal \notin Journals =>
    /\ \A pl \in Places : stage[pl] = None /\ backup[pl] = None
    /\ lockStage = None /\ lockBackup = None

(* A command decides, and a read answers, on a recovered store only: the   *)
(* lockfile it reads is the logical one and the files are the recorded     *)
(* ones, even when the command before it died half way (recover_locked     *)
(* runs first in snapshot, list, view, install_from, apply_batch, remove). *)
DecidesOnRecoveredStore ==
  step \in {"begin", "journal"} =>
    /\ journal = None
    /\ LogicalLock = ReadLock
    /\ \A pl \in Places :
         dest[pl] \in {Recorded(ReadLock, pl)} \cup UserValues(pl)

(* The detailed store implements the atomic one, under the state that      *)
(* recovery would leave.                                                   *)
Atomic == INSTANCE AtomicStore WITH
  doc <- LogicalLock, files <- [pl \in Places |-> Recovered(pl)]

AtomicSpec == Atomic!Spec

(* A reported result is true: an error other than COMMITTED_CLEANUP_PENDING *)
(* means the transaction will not take effect, not even by a later         *)
(* recovery, and success or a pending cleanup means it has.                *)
HonestResults ==
  [][holder # None /\ holder' = None =>
       /\ outcome' = "failed" =>
            newLock.tx = 0 \/ LogicalLock'.tx # newLock.tx
       /\ outcome' \in {"ok", "pending"} /\ request.kind # "read" =>
            LogicalLock'.tx = newLock.tx]_vars

(* No command's record is lost under another's: whatever recoveries and    *)
(* commands ran since its snapshot, a batch (update or sync) takes effect  *)
(* only on the store its plan saw, and a command of any kind changes the   *)
(* entries of the Skills it names and of no other (apply_batch, and the    *)
(* lock document that install_from and remove read under their lock).      *)
NoLostUpdate ==
  [][LogicalLock' # LogicalLock =>
       /\ request.kind = "batch" =>
            LogicalLock.tx = seen[holder].tx /\ LogicalLock.skills = seen[holder].skills
       /\ \A s \in Skills \ request.names :
            LogicalLock'.skills[s] = LogicalLock.skills[s]]_vars

(* What the user put into an Agent target, a directory or a link, goes     *)
(* away by the user's hand only: an unmanaged or changed target blocks the *)
(* command (validate_target_changes, verify_managed_state).  The one       *)
(* exception is a link that a running command adopts, set aside by the     *)
(* swap; no rollback, recovery, cleanup or crash takes such a link.        *)
UserTargetsKept ==
  [][\A pl \in Places :
       pl[2] # Store /\ dest[pl] \in {Foreign} \cup Aliases /\ dest'[pl] # dest[pl]
         => \/ edits' # edits
            \/ step = "swap" /\ dest'[pl] = None /\ Adoptable(request, pl)]_vars

(* Every command ends and frees the store lock. *)
CommandsFinish == holder # None ~> holder = None

(* An interrupted transaction is undone or finished by later commands. *)
InterruptedChangesRecover == journal # None ~> journal = None
=============================================================================
