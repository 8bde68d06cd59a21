---------------------------- MODULE DoctorAction ----------------------------
(***************************************************************************)
(* "skilld doctor", the reviewed action on a Skill that skills.sh owns, or *)
(* that nobody owns (doctor_actions.rs): "migrate" moves every installed   *)
(* copy into a backup, installs the Skill into skilld's store and takes    *)
(* its record out of the lockfile of skills.sh; "remove" only backs up and *)
(* takes the record out.  The scan, the plan and the steps of the action   *)
(* are apart: users edit, link and add Skills, and skills.sh rewrites its  *)
(* lockfile between any two of them, and the process may be killed.        *)
(* Another skilld command may recover a transaction that the action left   *)
(* open in the store; it changes this Skill in no other way.               *)
(***************************************************************************)
EXTENDS Naturals, FiniteSets

CONSTANTS
  Paths,      \* the Agent targets of the Skill's name, 1..n, in the order of their paths
  Cases,      \* what a scan may have found: see DoctorAssumption
  Absent,
  MaxChanges  \* bound of what the user and skills.sh do

VARIABLES
  found,    \* the selected Skill of the report
  action,   \* "migrate" or "remove"
  here,     \* what each target holds: see Contents
  saved,    \* what the backup holds of each target
  receipt,  \* recovery.json is written
  foreign,  \* the lockfile of skills.sh: does it record the Skill, and its revision
  copied,   \* the backup's copy of that lockfile
  store,    \* the Skill is in skilld's store
  journal,  \* the store's transaction of the failed installation is open
  taken,    \* (history) where its recovery removed a copy that had been moved back
  plan,     \* what the user reviewed
  at,       \* the path to check, move or move back next
  pc,
  outcome,
  changes

transaction == <<journal, taken>>
disk == <<here, saved, receipt, foreign, copied, store, transaction>>
vars == <<found, action, disk, plan, at, pc, outcome, changes>>

\* "skill": the files or the link of the scan; "edited": changed since;
\* "ours": installed by this action; "touched": and changed since; "new": put there by others.
Contents == {"none", "skill", "edited", "ours", "touched", "new"}

DoctorAssumption ==
  /\ Cardinality(Paths) \in Nat /\ Paths = 1..Cardinality(Paths) /\ MaxChanges \in Nat
  /\ Absent \notin [entry : BOOLEAN, rev : Nat]
  /\ \A f \in Cases :
       /\ f.owner \in {"pnpm", "skilld", "skills.sh", "unknown"}
       /\ f.seen \subseteq f.copies /\ f.copies \subseteq Paths
       /\ {f.stored, f.subagents, f.differ, f.github, f.tree} \subseteq BOOLEAN
       /\ f.remote \in {"same", "changed", "renamed", "unreachable"}
       /\ {f.scope, f.agent} \subseteq [Paths -> Nat] /\ {f.named, f.standard} \subseteq [Paths -> BOOLEAN]

TypeOK ==
  /\ found \in Cases /\ action \in {"migrate", "remove"}
  /\ here \in [Paths -> Contents] /\ saved \in [Paths -> Contents]
  /\ receipt \in BOOLEAN /\ store \in BOOLEAN /\ foreign.entry \in BOOLEAN
  /\ journal \in BOOLEAN /\ taken \subseteq Paths
  /\ at \in 0..Cardinality(Paths) + 1 /\ changes \in 0..MaxChanges
  /\ pc \in {"plan", "review", "links", "files", "backup", "receipt", "copy", "move", "install", "verify",
             "check lock", "write lock", "undo install", "undo", "end"}
  /\ outcome \in {"none", "refused", "changed", "failed", "recover", "applied", "declined", "killed"}

Init ==
  /\ found \in Cases /\ action \in {"migrate", "remove"}
  /\ here = [p \in Paths |-> IF p \in found.copies THEN "skill" ELSE "none"]
  /\ saved = [p \in Paths |-> "none"] /\ receipt = FALSE
  /\ foreign = [entry |-> found.owner = "skills.sh", rev |-> 0] /\ copied = Absent
  /\ store = found.stored /\ journal = FALSE /\ taken = {} /\ plan = Absent
  /\ at = 1 /\ pc = "plan" /\ outcome = "none" /\ changes = 0

-----------------------------------------------------------------------------
End(o) == pc' = "end" /\ outcome' = o
Goto(step, p) == pc' = step /\ at' = p /\ UNCHANGED outcome
Static == UNCHANGED <<found, action, changes>>

Recorded == found.owner = "skills.sh"
Original(content) == content \in {"skill", "edited"}

\* The owner, the scope and the store forbid the action.
Owned ==
  \/ found.owner \in {"pnpm", "skilld"} \/ (found.owner = "unknown" /\ action = "migrate")
  \/ found.seen = {} \/ found.stored
  \/ \E p, q \in found.seen : found.scope[p] # found.scope[q]

\* A path that a migration could not give back to the same Agent.
Misplaced ==
  action = "migrate" /\
    \/ \E p \in found.seen : ~found.named[p] \/ ~found.standard[p]
    \/ \E p, q \in found.seen : found.agent[p] = found.agent[q] /\ p # q

\* What a target of the scope holds that the scan did not see.
Unseen == \E p \in Paths \ found.seen : here[p] # "none"

\* foreign_lock_without: the lockfile is the one the scan read.
LockUnchanged == foreign.entry /\ foreign.rev = 0

\* The copies differ, or the source is not what is installed.
Unmatched ==
  action = "migrate" /\
    \/ found.differ \/ ~found.github \/ found.remote \in {"unreachable", "renamed"}
    \/ found.remote = "changed" /\ ~found.tree

(* doctor_plan: nothing is written.                                        *)
Plan ==
  /\ pc = "plan"
  /\ IF Owned \/ Misplaced \/ Unseen \/ (Recorded /\ (~LockUnchanged \/ found.subagents)) \/ Unmatched
     THEN End("refused") /\ UNCHANGED <<plan, at>>
     ELSE plan' = [paths |-> found.seen, absent |-> Paths \ found.seen] /\ Goto("review", 1)
  /\ Static /\ UNCHANGED disk

Decline == pc = "review" /\ End("declined") /\ Static /\ UNCHANGED <<disk, plan, at>>

(* The user confirms: the targets that were absent still are.              *)
Confirm ==
  /\ pc = "review"
  /\ IF (\E p \in plan.absent : here[p] # "none") \/ store THEN End("changed") /\ UNCHANGED at ELSE Goto("links", 1)
  /\ Static /\ UNCHANGED <<disk, plan>>

(* Every target is still the reviewed link, then still has the reviewed    *)
(* files; one target at a time.                                            *)
CheckTarget(step, next) ==
  /\ pc = step
  /\ IF at \in plan.paths /\ here[at] # "skill" THEN End("changed") /\ UNCHANGED at
     ELSE IF at < Cardinality(Paths) THEN Goto(step, at + 1)
     ELSE IF next = "backup" /\ Recorded /\ ~LockUnchanged THEN End("changed") /\ UNCHANGED at
     ELSE Goto(next, 1)
  /\ Static /\ UNCHANGED <<disk, plan>>

CheckLinks == CheckTarget("links", "files")
CheckFiles == CheckTarget("files", "backup")

(* A faulty step, for a mutant: the receipt is left for later.            *)
MakeBackupOnly ==
  /\ pc = "backup"
  /\ \/ End("failed") /\ UNCHANGED at
     \/ Goto("copy", 1)
  /\ Static /\ UNCHANGED <<disk, plan>>

(* The backup directory, the receipt and the copy of the lockfile: each    *)
(* may fail before anything was moved.                                     *)
MakeBackup ==
  /\ pc = "backup"
  /\ \/ End("failed") /\ UNCHANGED at
     \/ Goto("receipt", 1)
  /\ Static /\ UNCHANGED <<disk, plan>>

WriteReceipt ==
  /\ pc = "receipt"
  /\ \/ End("failed") /\ UNCHANGED <<at, receipt>>
     \/ receipt' = TRUE /\ Goto("copy", 1)
  /\ Static /\ UNCHANGED <<here, saved, foreign, copied, store, transaction, plan>>

CopyLock ==
  /\ pc = "copy"
  /\ \/ Recorded /\ End("failed") /\ UNCHANGED <<at, copied>>
     \/ copied' = (IF Recorded THEN foreign ELSE Absent) /\ Goto("move", 1)
  /\ Static /\ UNCHANGED <<here, saved, receipt, foreign, store, transaction, plan>>

(* Each target is renamed into the backup; a failure moves back what was   *)
(* moved.  Whatever the user made of it since the check goes with it.      *)
Move ==
  /\ pc = "move"
  /\ IF at = Cardinality(Paths) + 1
     THEN Goto(IF action = "migrate" THEN "install" ELSE "check lock", 1) /\ UNCHANGED <<here, saved>>
     ELSE IF at \notin plan.paths THEN Goto("move", at + 1) /\ UNCHANGED <<here, saved>>
     ELSE \/ /\ here[at] # "none"
             /\ saved' = [saved EXCEPT ![at] = here[at]] /\ here' = [here EXCEPT ![at] = "none"] /\ Goto("move", at + 1)
          \/ Goto("undo", at - 1) /\ UNCHANGED <<here, saved>>
  /\ Static /\ UNCHANGED <<receipt, foreign, copied, store, transaction, plan>>

\* The targets that are named hold this, the others what they held.
Placed(paths, content) == here' = [p \in Paths |-> IF p \in paths THEN content ELSE here[p]]

(* The store refuses a target that holds files it does not manage, or      *)
(* fails and rolls back.  When it stops between its journal and the end of *)
(* its rollback, the transaction stays open, with some targets promoted:   *)
(* the action goes on as after any other error.  A failure after the       *)
(* commit, to clean up, still counts as installed.                         *)
Install ==
  /\ pc = "install"
  /\ \/ Goto("undo", Cardinality(Paths)) /\ UNCHANGED <<here, store, journal>>
     \/ /\ \A p \in plan.paths : here[p] = "none"
        /\ \/ /\ \E promoted \in SUBSET plan.paths : Placed(promoted, "ours")
              /\ journal' = TRUE /\ Goto("undo", Cardinality(Paths)) /\ UNCHANGED store
           \/ /\ Placed(plan.paths, "ours") /\ store' = TRUE /\ UNCHANGED journal
              /\ Goto("verify", 1) \/ Goto("undo install", 1)
  /\ Static /\ UNCHANGED <<saved, receipt, foreign, copied, taken, plan>>

Verify ==
  /\ pc = "verify"
  /\ IF \A p \in plan.paths : here[p] = "ours" THEN Goto("check lock", 1) ELSE Goto("undo install", 1)
  /\ Static /\ UNCHANGED <<disk, plan>>

UndoFrom == IF store THEN Goto("undo install", 1) ELSE Goto("undo", Cardinality(Paths))

(* The lockfile is compared once more and then replaced by the bytes that  *)
(* were made from the reviewed one.                                        *)
CheckLock ==
  /\ pc = "check lock"
  /\ IF ~Recorded THEN End("applied") /\ UNCHANGED at
     ELSE IF LockUnchanged THEN Goto("write lock", 1) ELSE UndoFrom
  /\ Static /\ UNCHANGED <<disk, plan>>

WriteLock ==
  /\ pc = "write lock"
  /\ \/ foreign' = [entry |-> FALSE, rev |-> 0] /\ End("applied") /\ UNCHANGED at
     \/ UndoFrom /\ UNCHANGED foreign
  /\ Static /\ UNCHANGED <<here, saved, receipt, copied, store, transaction, plan>>

(* The installed Skill is removed, unless it was changed; what cannot be   *)
(* undone stays in the backup, and the error names it.  A removal that     *)
(* stops half-way is undone by the next recovery: it changed nothing.      *)
UndoInstall ==
  /\ pc = "undo install"
  /\ \/ End("recover") /\ UNCHANGED <<at, here, store>>
     \/ /\ \A p \in plan.paths : here[p] = "ours"
        /\ Placed(plan.paths, "none") /\ store' = FALSE
        /\ \/ Goto("undo", Cardinality(Paths))
           \/ End("recover") /\ UNCHANGED at
  /\ Static /\ UNCHANGED <<saved, receipt, foreign, copied, transaction, plan>>

(* The moved targets go back, the last first.                              *)
Undo ==
  /\ pc = "undo"
  /\ IF at = 0 THEN End("failed") /\ UNCHANGED <<at, here, saved>>
     ELSE IF saved[at] = "none" THEN Goto("undo", at - 1) /\ UNCHANGED <<here, saved>>
     ELSE \/ End("recover") /\ UNCHANGED <<at, here, saved>>
          \/ /\ here[at] = "none"
             /\ here' = [here EXCEPT ![at] = saved[at]] /\ saved' = [saved EXCEPT ![at] = "none"]
             /\ Goto("undo", at - 1)
  /\ Static /\ UNCHANGED <<receipt, foreign, copied, store, transaction, plan>>

-----------------------------------------------------------------------------
(* Another skilld command rolls the open transaction back, or stops        *)
(* half-way: its journal says that the targets held nothing, and whatever  *)
(* is there now is removed.                                                *)
Recovered ==
  /\ journal
  /\ \E gone \in SUBSET plan.paths :
       /\ Placed(gone, "none") /\ journal' = (gone # plan.paths)
       /\ taken' = taken \cup {p \in gone : Original(here[p])}
  /\ Static /\ UNCHANGED <<saved, receipt, foreign, copied, store, plan, at, pc, outcome>>

Killed == pc \notin {"plan", "review", "end"} /\ End("killed") /\ Static /\ UNCHANGED <<disk, plan, at>>

Change ==
  /\ pc # "end" /\ changes < MaxChanges /\ changes' = changes + 1
  /\ UNCHANGED <<found, action, saved, receipt, copied, store, transaction, plan, at, pc, outcome>>

UserChanges(p) ==
  /\ Change /\ UNCHANGED foreign
  /\ here' = [here EXCEPT ![p] = CASE here[p] \in {"skill", "edited"} -> "edited"
                                   [] here[p] \in {"ours", "touched"} -> "touched"
                                   [] OTHER -> "new"]

SkillsShWrites == Change /\ foreign' = [foreign EXCEPT !.rev = @ + 1] /\ UNCHANGED here

Next ==
  \/ Plan \/ Decline \/ Confirm \/ CheckLinks \/ CheckFiles \/ MakeBackup \/ WriteReceipt \/ CopyLock
  \/ Move \/ Install \/ Verify \/ CheckLock \/ WriteLock \/ UndoInstall \/ Undo
  \/ Recovered \/ Killed \/ SkillsShWrites \/ \E p \in Paths : UserChanges(p)

Spec == Init /\ [][Next]_vars

-----------------------------------------------------------------------------
(* Whatever step fails or is the last before the process is killed, every  *)
(* copy of the Skill, with the user's edits, is in its place or in a       *)
(* backup whose receipt says where it was; nothing that others put at its  *)
(* place replaces or hides it.  Only a migration whose installation failed *)
(* and left its transaction open may lose a copy, to the recovery of that  *)
(* transaction, when it had been moved back.  The record of the Skill      *)
(* leaves the lockfile of skills.sh only when a copy of it, with the       *)
(* record, is in the backup.                                               *)
NothingIsLost ==
  /\ \A p \in found.copies : Original(here[p]) \/ (Original(saved[p]) /\ receipt) \/ p \in taken
  /\ taken # {} => action = "migrate" /\ ~store /\ outcome \in {"none", "failed", "recover", "killed"}
  /\ Recorded => foreign.entry \/ (copied # Absent /\ copied.entry)

(* The answer of the action is true: a failure that names no recovery left *)
(* everything as it was, but for the recovery above, and a success left no *)
(* copy behind, in the Agents' directories or in the records of skills.sh, *)
(* that skilld does not own.                                               *)
DoctorAnswers ==
  /\ outcome \in {"refused", "changed", "declined", "failed"} =>
       /\ \A p \in found.copies : Original(here[p]) \/ p \in taken
       /\ store = found.stored /\ foreign.entry = Recorded
  /\ outcome = "applied" =>
       /\ \A p \in Paths : ~Original(here[p]) /\ (p \in found.copies => Original(saved[p]))
       /\ ~foreign.entry /\ store = (action = "migrate")
=============================================================================
