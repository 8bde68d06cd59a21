---------------------------- MODULE SkillStoreInv ----------------------------
(***************************************************************************)
(* The inductive invariant behind the safety properties of the Skill       *)
(* store, in the layers in which it is proved.                             *)
(***************************************************************************)
EXTENDS SkillStoreProps

(* Which steps a command is in with which goal, and with which journal. *)
Control ==
  /\ step \in {"idle", "begin", "journal", "stage", "swap", "lock"} => goal = "work"
  /\ goal = "done" => step = "cleanup"
  /\ goal = "fail" => journal \in Journals
  /\ step \in {"begin", "journal"} => journal = None
  /\ step \in {"rollback", "cleanup", "stage", "swap", "lock"} => journal \in Journals

(* Transaction ids: a journal and a lock document never run ahead of the   *)
(* clock, and the id under way is not the recorded one before the commit.  *)
Ids ==
  /\ journal \in Journals => journal.tx \in 1..clock
  /\ lockfile # None => lockfile.tx \in 1..clock
  /\ lockBackup # None => lockBackup.tx \in 1..clock
  /\ lockStage # None => lockStage.tx = journal.tx
  /\ step = "journal" => newLock.tx = clock /\ LogicalLock.tx < clock
  /\ step \in {"stage", "swap", "lock"} => newLock.tx = journal.tx
  /\ goal = "done" => newLock.tx = journal.tx
  /\ step \in {"idle", "begin"} => newLock.tx = 0
  /\ goal = "work" /\ step \in {"orphans", "recover", "rollback", "cleanup"}
       => newLock.tx = 0

(* The slots belong to the journal; before the commit a backup exists only *)
(* where something existed, and after it no stage is left.                 *)
Slots ==
  journal \in Journals =>
    /\ journal.had \subseteq journal.places
    /\ \A pl \in Places \ journal.places : stage[pl] = None /\ backup[pl] = None
    /\ ReadLock.tx # journal.tx =>
         \A pl \in Places : backup[pl] # None => pl \in journal.had
    /\ ReadLock.tx = journal.tx \/ step = "lock" =>
         \A pl \in Places : stage[pl] = None

(* The lockfile's siblings: the stage goes at the commit, and before it    *)
(* the lockfile is either in place or in its backup, with another id.      *)
LockSlots ==
  journal \in Journals =>
    /\ ReadLock.tx # journal.tx =>
         /\ lockBackup # None => lockfile = None
         /\ LogicalLock.tx # journal.tx
    /\ ReadLock.tx = journal.tx => lockStage = None
    /\ lockStage # None => step \notin {"stage", "swap"}

(* recover_locked has taken the direction that the lockfile decides. *)
Direction ==
  /\ step \in {"rollback", "stage", "swap", "lock"} => ReadLock.tx # journal.tx
  /\ step = "cleanup" => ReadLock.tx = journal.tx
  /\ goal = "fail" => ReadLock.tx # journal.tx
  /\ goal = "fail" => newLock.tx = journal.tx

Layout == Control /\ Ids /\ NoResidue /\ Slots /\ LockSlots /\ Direction

-----------------------------------------------------------------------------
(* What the transaction under way changes, against the store it started on. *)
Replaces(old) ==
  \A s \in Skills : newLock.skills[s] =
    IF s \in request.names THEN request.entries[s] ELSE old.skills[s]

Planned ==
  /\ step \in {"journal", "stage", "swap", "lock"} => Replaces(LogicalLock)
  /\ step \in {"stage", "swap", "lock"} =>
       journal.places = TargetChanges(request, LogicalLock, newLock)

(* While staging, the places are untouched, and a stage is complete.       *)
Staging ==
  step = "stage" => \A pl \in journal.places :
    /\ backup[pl] = None
    /\ stage[pl] \in {None, Recorded(newLock, pl)}
    /\ pl \in journal.had <=> dest[pl] # None

(* While swapping, a place not yet set aside still has its stage, and a    *)
(* swapped one holds what will be recorded.                                *)
Swapping ==
  step = "swap" => \A pl \in journal.places :
    /\ stage[pl] \in {None, Recorded(newLock, pl)}
    /\ Swapped(pl) => dest[pl] = Recorded(newLock, pl)
    /\ pl \in journal.had /\ backup[pl] = None =>
         stage[pl] = Recorded(newLock, pl) /\ dest[pl] # None

(* A commit finds every place swapped, and commits the new document. *)
Committing ==
  step = "lock" =>
    /\ \A pl \in journal.places : dest[pl] = Recorded(newLock, pl)
    /\ lockStage # None => lockStage = newLock

Progress == Planned /\ Staging /\ Swapping /\ Committing

(* A step that nobody who recovers first can see. *)
Unseen ==
  /\ LogicalLock' = LogicalLock
  /\ \A pl \in Places : Recovered(pl)' = Recovered(pl)

-----------------------------------------------------------------------------
(* What a command may change: not the user's, but for a link it adopts. *)
SparesTheUser(value, r, pl) ==
  /\ value # Foreign
  /\ value \in Aliases => r.adopt /\ value = [alias |-> r.entries[pl[1]].content]

(* A transaction is under way, and its commit is still ahead. *)
Writing == step \in {"journal", "stage", "swap", "lock"}

(* What Accepts found stays true of the recovered store up to the commit:  *)
(* nobody else commits, and no step of the transaction is seen.            *)
Admitted ==
  Writing =>
    /\ request.kind # "read"
    /\ newLock.tx > LogicalLock.tx
    /\ request.kind = "remove" => \A s \in request.names :
         LogicalLock.skills[s] # None /\ s \notin LogicalLock.required
    /\ request.kind = "batch" =>
         LogicalLock.tx = seen[holder].tx /\ LogicalLock.skills = seen[holder].skills
    /\ \A pl \in TargetChanges(request, LogicalLock, newLock) :
         pl[2] # Store => SparesTheUser(Recovered(pl), request, pl)

(* A transaction id names one document: a snapshot with the id of the      *)
(* recorded document is of that document, and none is of a later one.      *)
Snapshots ==
  \A p \in Procs :
    /\ seen[p].tx <= LogicalLock.tx
    /\ seen[p].tx = LogicalLock.tx => seen[p].skills = LogicalLock.skills

(* A pending transaction owns its targets: when the user cannot write to   *)
(* them before it is recovered, none of their slots is the user's, but for *)
(* an adopted link, which stands in its place or in the backup and nowhere *)
(* in between.                                                             *)
OwnsTargets ==
  ~EditsWhilePending /\ journal \in Journals =>
    \A pl \in journal.places : pl[2] # Store =>
      /\ dest[pl] # Foreign /\ stage[pl] # Foreign /\ backup[pl] # Foreign
      /\ stage[pl] \notin Aliases
      /\ dest[pl] \in Aliases =>
           /\ pl \in journal.had /\ backup[pl] = None
           /\ step \in {"stage", "swap"} => Adoptable(request, pl)

(* The strengthened invariant of the store, in all its layers.             *)
Strong == TypeOK /\ Layout /\ Progress /\ Admitted /\ Snapshots /\ OwnsTargets
=============================================================================
