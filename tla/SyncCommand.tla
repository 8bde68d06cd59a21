----------------------------- MODULE SyncCommand -----------------------------
(***************************************************************************)
(* "skilld sync": the Skills that a manifest declares, installed into all  *)
(* its Agents (sync.rs).  Several manifests share one store: the lockfile  *)
(* keeps what each of them declared, and no sync may take from another     *)
(* what it declared.  Syncs run beside each other, beside installs and     *)
(* removals, and beside a user who edits the files.  The Skills of one     *)
(* manifest come from one source here.                                     *)
(***************************************************************************)
EXTENDS Naturals, FiniteSets

CONSTANTS
  Skills, Agents,
  Declarations, \* the manifests, by their name
  Manifests,    \* Manifests[d]: what manifest d may say
  Absent,       \* not recorded, not declared
  MaxChanges    \* bound of what others change

VARIABLES
  manifest,     \* what each manifest says now
  local,        \* the content version of the local sources
  lock,         \* the lock record of each Skill: source, version, targets
  owned,        \* owned[d][s]: the source and targets that d declared, in the lockfile
  required,     \* the requirements that d declared, in the lockfile
  tid,          \* the transaction id of the lockfile
  canonical,    \* the store's copy of each Skill: "none", "managed" or "edited"
  files,        \* the Skill in each Agent's directory: "none", "managed", "edited",
                \* "link" (an unmanaged link to equal files) or "other"
  run,          \* the sync of each manifest: Absent or what it has read
  report,       \* the answer of its last sync
  changes

store == <<lock, owned, required, tid, canonical, files>>
vars == <<manifest, local, store, run, report, changes>>

Sources == [kind : {"remote", "local"}, at : Nat]

Modes == {"copy", "link"}

SyncAssumption ==
  /\ MaxChanges \in Nat
  /\ \A d \in Declarations : \A m \in Manifests[d] :
       /\ m.skills # {} /\ m.skills \subseteq Skills /\ m.agents # {} /\ m.agents \subseteq Agents
       /\ m.source \in Sources /\ m.mode \in Modes
  /\ \A agents \in SUBSET Agents :
       Absent \notin [source : Sources, version : Nat, targets : [agents -> Modes]]

NoTargets == [a \in {} |-> "copy"]
Version(source) == IF source.kind = "local" THEN local ELSE source.at

TypeOK ==
  /\ \A d \in Declarations : manifest[d] \in Manifests[d]
  /\ canonical \in [Skills -> {"none", "managed", "edited"}]
  /\ files \in [Skills -> [Agents -> {"none", "managed", "edited", "link", "other"}]]
  /\ \A s \in Skills : lock[s] # Absent => lock[s].source \in Sources /\ DOMAIN lock[s].targets \subseteq Agents
  /\ tid \in Nat /\ changes \in 0..MaxChanges

Init ==
  /\ manifest \in {m \in [Declarations -> UNION {Manifests[d] : d \in Declarations}] :
                     \A d \in Declarations : m[d] \in Manifests[d]}
  /\ local = 1 /\ lock = [s \in Skills |-> Absent]
  /\ owned = [d \in Declarations |-> Absent] /\ required = [d \in Declarations |-> Absent]
  /\ tid = 0 /\ canonical = [s \in Skills |-> "none"]
  /\ \E before \in {"none", "link", "other"}, a \in Agents :
       files = [s \in Skills |-> [b \in Agents |-> IF b = a THEN before ELSE "none"]]
  /\ run = [d \in Declarations |-> Absent] /\ report = [d \in Declarations |-> "none"] /\ changes = 0

-----------------------------------------------------------------------------
Snapshot == [lock |-> lock, owned |-> owned, required |-> required, tid |-> tid]

(* read_manifest and the store's snapshot.                                 *)
Begin(d, check, adopt) ==
  /\ run[d] = Absent
  /\ run' = [run EXCEPT ![d] = [m |-> manifest[d], snap |-> Snapshot, check |-> check, adopt |-> adopt, plan |-> Absent]]
  /\ report' = [report EXCEPT ![d] = "none"]
  /\ UNCHANGED <<manifest, local, store, changes>>

Own(m) == [a \in m.agents |-> m.mode]
Others(d, s, snap) ==
  {snap.owned[o][s] : o \in {o \in Declarations \ {d} : snap.owned[o] # Absent /\ s \in DOMAIN snap.owned[o]}}

(* Another declaration wants the Skill from another source, or in another  *)
(* mode for an Agent of this one.                                          *)
Conflicts(d, m, snap) ==
  \E s \in m.skills : \E o \in Others(d, s, snap) :
    o.source # m.source \/ \E a \in DOMAIN o.targets \cap m.agents : o.targets[a] # m.mode

(* Faulty targets, for a mutant: those of this manifest alone.             *)
OwnTargets(d, m, s, snap) == Own(m)

(* The targets of a Skill: this manifest's, and those the others declared. *)
Wanted(d, m, s, snap) ==
  LET agents == m.agents \cup UNION {DOMAIN o.targets : o \in Others(d, s, snap)} IN
  [a \in agents |-> IF a \in m.agents THEN m.mode
                    ELSE (CHOOSE o \in Others(d, s, snap) : a \in DOMAIN o.targets).targets[a]]

(* verify_content, now.                                                    *)
Edited(s) ==
  lock[s] # Absent /\ (canonical[s] = "edited" \/ \E a \in DOMAIN lock[s].targets : files[s][a] \in {"edited", "other"})

IntegrityChanged(s) == lock[s] = Absent \/ Edited(s) \/ canonical[s] = "none"
SourceChanged(m, s, snap) ==
  LET old == snap.lock[s] IN
  old # Absent => old.source # m.source \/ old.version # Version(m.source)
TargetsChanged(d, m, s, snap) ==
  LET old == snap.lock[s]  wanted == Wanted(d, m, s, snap) IN
  old # Absent => old.targets # wanted \/ \E a \in DOMAIN wanted : files[s][a] = "none"

Changed(d, m, snap) ==
  {s \in m.skills : IntegrityChanged(s) \/ SourceChanged(m, s, snap) \/ TargetsChanged(d, m, s, snap)}

(* What the declaration becomes.  A check leaves out a remote Skill that   *)
(* is not locked at its declared commit.                                   *)
Ownership(m, skills) == [s \in skills |-> [source |-> m.source, targets |-> Own(m)]]
Checked(m, snap) ==
  {s \in m.skills : m.source.kind = "local" \/ (snap.lock[s] # Absent /\ snap.lock[s].source = m.source)}

DeclarationsChanged(d, m, skills, snap) == snap.owned[d] # Ownership(m, skills)
RequirementsChanged(d, m, snap) == snap.required[d] # m.requires

IsCurrent(d, m, skills, snap) ==
  /\ Changed(d, m, snap) = {} /\ ~DeclarationsChanged(d, m, skills, snap) /\ ~RequirementsChanged(d, m, snap)

Answer(d, what) == report' = [report EXCEPT ![d] = what] /\ run' = [run EXCEPT ![d] = Absent]

(* Every Skill is compared and, if need be, fetched; a failure or the      *)
(* user's edit stops the sync before anything is written.                  *)
Plan(d) ==
  /\ run[d] # Absent /\ run[d].plan = Absent
  /\ LET m == run[d].m  snap == run[d].snap IN
     \/ Conflicts(d, m, snap) /\ Answer(d, "conflict")
     \/ /\ ~Conflicts(d, m, snap) /\ run[d].check
        /\ Answer(d, IF IsCurrent(d, m, Checked(m, snap), snap) THEN "current" ELSE "changes")
     \/ /\ ~Conflicts(d, m, snap) /\ ~run[d].check
        /\ \/ (\E s \in m.skills : Edited(s) \/ (lock[s] = Absent /\ snap.lock[s] # Absent)) /\ Answer(d, "edited")
           \/ (\E s \in m.skills : SourceChanged(m, s, snap)) /\ m.source.kind = "remote" /\ Answer(d, "fetch failed")
           \/ /\ \A s \in m.skills : ~Edited(s) /\ (lock[s] = Absent => snap.lock[s] = Absent)
              /\ IF IsCurrent(d, m, m.skills, snap) THEN Answer(d, "current")
                 ELSE /\ run' = [run EXCEPT ![d].plan =
                           [s \in m.skills |-> [source |-> m.source, version |-> Version(m.source),
                                                targets |-> Wanted(d, m, s, snap)]]]
                      /\ UNCHANGED report
  /\ UNCHANGED <<manifest, local, store, changes>>

(* apply_sync_batch: one transaction under the lock of the store, if the   *)
(* lockfile is still the snapshot and no managed file was edited.  A local *)
(* source is read again here.                                              *)
Unmanaged(s, a) == lock[s] # Absent => a \notin DOMAIN lock[s].targets
Blocked(d, s, a) == Unmanaged(s, a) /\ files[s][a] # "none" /\ ~(run[d].adopt /\ files[s][a] = "link")

MayCommit(d) ==
  /\ tid = run[d].snap.tid
  /\ \A s \in DOMAIN run[d].plan : ~Edited(s) /\ \A a \in DOMAIN run[d].plan[s].targets : ~Blocked(d, s, a)

Commit(d) ==
  /\ run[d] # Absent /\ run[d].plan # Absent
  /\ LET m == run[d].m  plan == run[d].plan IN
     \/ /\ MayCommit(d)
        /\ lock' = [s \in Skills |-> IF s \in m.skills THEN [plan[s] EXCEPT !.version = Version(m.source)] ELSE lock[s]]
        /\ canonical' = [s \in Skills |-> IF s \in m.skills THEN "managed" ELSE canonical[s]]
        /\ files' = [s \in Skills |-> [a \in Agents |->
             IF s \notin m.skills THEN files[s][a]
             ELSE IF a \in DOMAIN plan[s].targets THEN "managed"
             ELSE IF ~Unmanaged(s, a) THEN "none" ELSE files[s][a]]]
        /\ owned' = [owned EXCEPT ![d] = Ownership(m, m.skills)]
        /\ required' = [required EXCEPT ![d] = m.requires]
        /\ tid' = tid + 1 /\ Answer(d, "current")
     \/ ~MayCommit(d) /\ Answer(d, "refused") /\ UNCHANGED store
     \/ Answer(d, "store failed") /\ UNCHANGED store
  /\ UNCHANGED <<manifest, local, changes>>

-----------------------------------------------------------------------------
Change == changes < MaxChanges /\ changes' = changes + 1 /\ UNCHANGED <<run, report>>

ManifestChanges(d) ==
  /\ Change /\ \E m \in Manifests[d] : manifest' = [manifest EXCEPT ![d] = m]
  /\ UNCHANGED <<local, store>>

LocalSourceChanges == Change /\ local' = local + 1 /\ UNCHANGED <<manifest, store>>

(* An install of another version, and the removal of a Skill that no       *)
(* declaration requires: declarations stay.                                *)
Installs(s) ==
  /\ Change /\ ~Edited(s)
  /\ \E a \in Agents :
       /\ files[s][a] = "none" \/ ~Unmanaged(s, a)
       /\ lock' = [lock EXCEPT ![s] = [source |-> [kind |-> "remote", at |-> 9], version |-> 9, targets |-> [b \in {a} |-> "copy"]]]
       /\ files' = [files EXCEPT ![s] = [b \in Agents |-> IF b = a THEN "managed" ELSE IF Unmanaged(s, b) THEN @[b] ELSE "none"]]
  /\ canonical' = [canonical EXCEPT ![s] = "managed"] /\ tid' = tid + 1
  /\ UNCHANGED <<manifest, local, owned, required>>

Removes(s) ==
  /\ Change /\ lock[s] # Absent /\ ~Edited(s) /\ \A d \in Declarations : required[d] # TRUE
  /\ lock' = [lock EXCEPT ![s] = Absent] /\ canonical' = [canonical EXCEPT ![s] = "none"]
  /\ files' = [files EXCEPT ![s] = [b \in Agents |-> IF Unmanaged(s, b) THEN @[b] ELSE "none"]] /\ tid' = tid + 1
  /\ UNCHANGED <<manifest, local, owned, required>>

UserTouches(s) ==
  /\ Change /\ lock[s] # Absent
  /\ \/ canonical' = [canonical EXCEPT ![s] = "edited"] /\ UNCHANGED files
     \/ \E a \in DOMAIN lock[s].targets, to \in {"none", "edited"} :
          files' = [files EXCEPT ![s][a] = to] /\ UNCHANGED canonical
  /\ UNCHANGED <<manifest, local, lock, owned, required, tid>>

Next ==
  \/ \E d \in Declarations, check, adopt \in BOOLEAN : (check => ~adopt) /\ Begin(d, check, adopt)
  \/ \E d \in Declarations : Plan(d) \/ Commit(d) \/ ManifestChanges(d)
  \/ LocalSourceChanges
  \/ \E s \in Skills : Installs(s) \/ Removes(s) \/ UserTouches(s)

Spec == Init /\ [][Next]_vars

-----------------------------------------------------------------------------
CommitsPlan(d) == run[d] # Absent /\ run[d].plan # Absent /\ run'[d] = Absent /\ report'[d] = "current"

(* (These are actions, checked of every step.)                             *)
(* A sync that commits honours every declaration of its Skills: each one   *)
(* that the lockfile keeps, its own and the others', finds its source and  *)
(* all its targets in the lock record, whatever was synced, installed or   *)
(* edited in between.                                                      *)
DeclarationsHonoured ==
  \A d \in Declarations : CommitsPlan(d) =>
    \A s \in run[d].m.skills, o \in Declarations :
      (owned'[o] # Absent /\ s \in DOMAIN owned'[o]) =>
        /\ lock'[s] # Absent /\ owned'[o][s].source = lock'[s].source
        /\ \A a \in DOMAIN owned'[o][s].targets :
             a \in DOMAIN lock'[s].targets /\ lock'[s].targets[a] = owned'[o][s].targets[a]

(* A sync that commits is done: a check of the same manifest right after   *)
(* it finds nothing to change.                                             *)
SyncSettles ==
  \A d \in Declarations : CommitsPlan(d) =>
    \A m \in Manifests[d] : run[d].m = m => IsCurrent(d, m, Checked(m, Snapshot), Snapshot)'

(* No sync writes over the user's files: neither an edited copy, nor files *)
(* that skilld does not manage, unless --adopt was given and they are a    *)
(* link to the same bytes.                                                 *)
KeepsUserFiles ==
  \A d \in Declarations : run'[d] # run[d] =>
    \A s \in Skills :
      /\ canonical[s] = "edited" => canonical'[s] = "edited"
      /\ \A a \in Agents : files'[s][a] # files[s][a] =>
           files[s][a] \in {"none", "managed"} \/ (files[s][a] = "link" /\ run[d].adopt)
=============================================================================
