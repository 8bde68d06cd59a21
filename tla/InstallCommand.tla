---------------------------- MODULE InstallCommand ---------------------------
(***************************************************************************)
(* "skilld install" of one source, "skilld add" of the Skills that a       *)
(* Repository, curator or collection lists, and the restore of the         *)
(* lockfile (lib.rs).  Every Skill is fetched, held for the user's         *)
(* approval, written to the store and read back on its own, beside other   *)
(* processes that update and remove Skills.  A Skill's files are the ask   *)
(* behaviours of its commit.                                               *)
(***************************************************************************)
EXTENDS Naturals, Sequences, FiniteSets, SequencesExt, Sorting

CONSTANTS
  Skills,      \* a set of numbers, in the order of the names; a listing names each once
  Commits,
  Asks,        \* Asks[c]: the ask behaviours detected in the files of c
  AskRules,    \* the ids of all ask behaviours
  Allows,      \* what --allow may name
  Absent,      \* no Skill is recorded, no view or file is at hand
  MaxChanges   \* bound of what other processes commit meanwhile

VARIABLES
  lock,        \* the lock record of each Skill, or Absent
  upstream,    \* the commit each source names now
  changes,
  op,          \* the request: its source, the flags --direct, --all and --global, --allow, --mode
  listing, at, \* the Skills to install and the one at work
  view,        \* restore: the lock record that was read
  fetched,     \* the prepared Skill
  approved,    \* what the user approved for it
  failures, remaining, installed,
  recorded,    \* every commit that the lockfile named for a Skill
  pc, outcome

env == <<upstream, changes>>
report == <<failures, remaining, installed>>
request == <<op, listing>>
vars == <<lock, env, op, listing, at, view, fetched, approved, report, recorded, pc, outcome>>

Unpinned == 0
Record(commit, pin, status, mode) == [commit |-> commit, pin |-> pin, status |-> status, mode |-> mode]
LockRecords ==
  [commit : Commits, pin : Commits \cup {Unpinned}, status : {"verified", "unverified", "local"}, mode : {"copy", "link"}]

InstallAssumption ==
  /\ Skills \subseteq Nat /\ 1 \in Skills /\ IsFiniteSet(Skills) /\ MaxChanges \in Nat
  /\ {1, 2} \subseteq Commits /\ Absent \notin LockRecords
  /\ Asks \in [Commits -> SUBSET AskRules]

RequestedModes == {"copy", "unset"}

(* Repository, curator: the sources of add.  restore: install without one. *)
Operations ==
  [source : {"remote", "local", "bundled", "restore", "repository", "curator"}, direct : BOOLEAN, all : BOOLEAN,
   global : BOOLEAN, allow : Allows, mode : RequestedModes]

Adds == op.source \in {"repository", "curator"}
Restores == op.source = "restore"

TypeOK ==
  /\ op \in Operations /\ upstream \in [Skills -> Commits] /\ at \in 1..Len(listing) + 1
  /\ \A s \in Skills : lock[s] # Absent =>
       lock[s].commit \in Commits /\ lock[s].status \in {"verified", "unverified", "local"}
  /\ pc \in {"begin", "choose", "view", "fetch", "gate", "write", "read", "done"}

Init ==
  /\ \E first \in {Absent} \cup {Record(1, Unpinned, status, "link") : status \in {"verified", "unverified", "local"}} :
       lock \in [Skills -> {first, Absent, Record(1, Unpinned, "verified", "link")}] /\ lock[1] = first
  /\ upstream = [s \in Skills |-> 2] /\ changes = 0
  /\ op \in Operations /\ (op.source \notin {"repository", "curator"} => op.all)
  /\ (op.source # "bundled" => ~op.global) /\ (op.source # "restore" => op.mode = "unset")
  /\ listing = <<>> /\ at = 1 /\ view = Absent /\ fetched = Absent /\ approved = {}
  /\ failures = {} /\ remaining = 0 /\ installed = {}
  /\ recorded = [s \in Skills |-> IF lock[s] = Absent THEN {} ELSE {1}]
  /\ pc = "begin" /\ outcome = [kind |-> "running"]

-----------------------------------------------------------------------------
Done(result) == pc' = "done" /\ outcome' = result
Refuse(code) == Done([kind |-> "failed", code |-> code])
Go(to) == pc' = to /\ UNCHANGED outcome

(* What is refused before anything is read: approved_behaviors lets only   *)
(* ask behaviours through, so a typo is no approval.                       *)
Refusal ==
  IF ~(op.allow \subseteq AskRules) THEN "INVALID_ARGUMENT"
  ELSE IF Adds /\ op.direct /\ op.source # "repository" THEN "DIRECT_SOURCE_REQUIRED"
  ELSE IF \/ op.source \in {"local", "bundled"} /\ op.direct
          \/ Restores /\ op.allow # {}
          \/ op.source = "bundled" /\ ~op.global
       THEN "INVALID_ARGUMENT" ELSE "none"

Names == {s \in Skills : lock[s] # Absent}

Begin ==
  /\ pc = "begin"
  /\ \/ Refusal # "none" /\ Refuse(Refusal) /\ UNCHANGED listing
     \/ /\ Refusal = "none" /\ Restores
        /\ IF Names = {} THEN Refuse("LOCKFILE_NOT_FOUND") /\ UNCHANGED listing
           ELSE listing' = InOrder(Names) /\ Go("view")
     \/ /\ Refusal = "none" /\ Adds
        /\ \/ \E code \in {"SOURCE_NOT_FOUND", "SERVICE_UNAVAILABLE"} : Refuse(code) /\ UNCHANGED listing
           \/ listing' = InOrder(Skills) /\ Go(IF op.all THEN "fetch" ELSE "choose")
     \/ Refusal = "none" /\ ~Restores /\ ~Adds /\ listing' = <<1>> /\ Go("fetch")
  /\ UNCHANGED <<lock, env, op, at, view, fetched, approved, report, recorded>>

(* choose_skills: the user picks some or none of them; without a terminal  *)
(* there is nobody to ask.                                                 *)
Choose ==
  /\ pc = "choose"
  /\ \/ Refuse("SKILL_SELECTION_REQUIRED") /\ UNCHANGED listing
     \/ \E chosen \in SUBSET Skills :
          /\ listing' = InOrder(chosen)
          /\ IF chosen = {} THEN Done([kind |-> "ok", installed |-> {}]) ELSE Go("fetch")
  /\ UNCHANGED <<lock, env, op, at, view, fetched, approved, report, recorded>>

-----------------------------------------------------------------------------
Skill == listing[at]

(* The end of one Skill's installation.  In add it ends alone, unless the  *)
(* service limits the rate, which it would answer to every later Skill.    *)
Finished(bad, left, good) ==
  [kind |-> IF bad = {} /\ left = 0 THEN "ok" ELSE "incomplete", installed |-> good, failures |-> bad,
   remaining |-> left, count |-> Len(listing) - Cardinality(bad) - left]

NextSkill(bad, good) ==
  /\ failures' = bad /\ installed' = good /\ at' = at + 1 /\ UNCHANGED remaining
  /\ view' = Absent /\ fetched' = Absent /\ approved' = {}
  /\ IF at < Len(listing) THEN Go(IF Restores THEN "view" ELSE "fetch") ELSE Done(Finished(bad, 0, good))

SkillFails(code) ==
  IF ~Adds THEN Refuse(code) /\ UNCHANGED <<at, view, fetched, approved, report>>
  ELSE IF code = "RATE_LIMITED"
  THEN /\ remaining' = Len(listing) - at + 1
       /\ Done(Finished(failures, Len(listing) - at + 1, installed))
       /\ UNCHANGED <<at, view, fetched, approved, failures, installed>>
  ELSE NextSkill(failures \cup {Skill}, installed)

(* restore reads the lock record, without the lock that install takes; an  *)
(* unverified Skill is restored with --direct only.                        *)
View ==
  /\ pc = "view"
  /\ IF lock[Skill] = Absent THEN SkillFails("SKILL_NOT_INSTALLED")
     ELSE IF lock[Skill].status = "unverified" /\ ~op.direct THEN SkillFails("UNVERIFIED_SOURCE")
     ELSE view' = lock[Skill] /\ Go("fetch") /\ UNCHANGED <<at, fetched, approved, report>>
  /\ UNCHANGED <<lock, env, request, recorded>>

(* The lock record that the prepared Skill will have.  A restore prepares  *)
(* the locked commit through a selector that names it, and that selector   *)
(* becomes the recorded source; the copy or link mode stays the locked one *)
(* unless --mode was given.                                                *)
RestoredRecord(v) ==
  LET mode == IF op.mode = "unset" THEN v.mode ELSE op.mode IN
  IF v.status = "local" THEN Record(upstream[Skill], Unpinned, "local", mode)
  ELSE Record(v.commit, v.commit, v.status, mode)

NewRecord ==
  Record(upstream[Skill], Unpinned,
         IF op.source \in {"local", "bundled"} THEN "local" ELSE IF op.direct THEN "unverified" ELSE "verified",
         IF op.mode = "unset" THEN "copy" ELSE op.mode)

(* prepare, which is one or more requests, and materialize_remote.         *)
Fetch ==
  /\ pc = "fetch"
  /\ \/ \E code \in {"RATE_LIMITED", "SERVICE_UNAVAILABLE"} : SkillFails(code)
     \/ /\ fetched' = IF Restores THEN RestoredRecord(view) ELSE NewRecord
        /\ Go(IF Restores \/ fetched'.status = "local" THEN "write" ELSE "gate")
        /\ UNCHANGED <<at, view, approved, report>>
  /\ UNCHANGED <<lock, env, request, recorded>>

(* gate_new_behaviors: all ask behaviours of the new files that --allow    *)
(* does not name are held until the user approves them.  What an earlier   *)
(* version showed does not count.                                          *)
Held(commit) == Asks[commit] \ op.allow

Gate ==
  /\ pc = "gate"
  /\ \/ approved' = Held(fetched.commit) /\ Go("write") /\ UNCHANGED <<at, view, fetched, report>>
     \/ Held(fetched.commit) # {} /\ SkillFails("BEHAVIOR_CONFIRMATION_REQUIRED")
  /\ UNCHANGED <<lock, env, request, recorded>>

(* install_from: the record is replaced, whatever it is by now.            *)
Write ==
  /\ pc = "write"
  /\ \/ SkillFails("STORE_FAILED") /\ UNCHANGED <<lock, recorded>>
     \/ /\ lock' = [lock EXCEPT ![Skill] = fetched]
        /\ recorded' = [recorded EXCEPT ![Skill] = @ \cup {fetched.commit}]
        /\ Go("read") /\ UNCHANGED <<at, view, fetched, approved, report>>
  /\ UNCHANGED <<env, request>>

(* installed: the record is read again for the report, and a Skill that    *)
(* cannot be read is reported as failed.  If the source in the record      *)
(* cannot be read, add ends at once, with that error as its only answer.   *)
ReadBack ==
  /\ pc = "read"
  /\ \/ SkillFails("SKILL_NOT_INSTALLED")
     \/ lock[Skill] # Absent /\ Refuse("INVALID_LOCKFILE") /\ UNCHANGED <<at, view, fetched, approved, report>>
     \/ lock[Skill] # Absent /\ NextSkill(failures, installed \cup {Skill})
  /\ UNCHANGED <<lock, env, request, recorded>>

-----------------------------------------------------------------------------
(* Other processes update and remove Skills.                               *)
Others(s) ==
  /\ pc # "done" /\ changes < MaxChanges /\ changes' = changes + 1
  /\ \/ lock[s] # Absent /\ lock' = [lock EXCEPT ![s].commit = 2]
     \/ lock' = [lock EXCEPT ![s] = Absent]
  /\ recorded' = [recorded EXCEPT ![s] = IF lock'[s] = Absent THEN @ ELSE @ \cup {lock'[s].commit}]
  /\ UNCHANGED <<upstream, op, listing, at, view, fetched, approved, report, pc, outcome>>

Next == Begin \/ Choose \/ View \/ Fetch \/ Gate \/ Write \/ ReadBack \/ \E s \in Skills : Others(s)

Spec == Init /\ [][Next]_vars

-----------------------------------------------------------------------------
(* (An action, checked of every step, as RestoreKeepsSource.)              *)
(* What the command writes was approved: a new Skill shows no ask          *)
(* behaviour but those of --allow and those the user approved for it; a    *)
(* restored remote Skill is at a commit the lockfile has named, comes as   *)
(* it came before (a verified Skill is never delivered unverified), and an *)
(* unverified one was asked for with --direct.                             *)
OnlyApproved ==
  \A s \in Skills : pc' # pc /\ lock'[s] # lock[s] =>
    LET new == lock'[s] IN
    /\ s = Skill /\ new # Absent
    /\ new.status = "unverified" => op.direct
    /\ IF Restores
       THEN new.status = view.status /\ (new.status # "local" => new.commit \in recorded[s])
       ELSE new.status # "local" => Asks[new.commit] \subseteq op.allow \cup approved

(* The report of add accounts for every Skill that was chosen: it counts   *)
(* as installed the Skills that were written and read back, and names each *)
(* other one as failed or left for later.  "ok" leaves none of them out.   *)
ReportComplete ==
  pc = "done" /\ outcome.kind \in {"ok", "incomplete"} /\ listing # <<>> =>
    /\ outcome.count = Cardinality(outcome.installed)
    /\ outcome.installed \cap outcome.failures = {}
    /\ outcome.kind = "ok" <=> outcome.installed = ToSet(listing)
    /\ \A s \in outcome.installed : recorded[s] # {}

(* A restore leaves the recorded source of a Skill as it was.              *)
RestoreKeepsSource ==
  Restores => \A s \in Skills : lock[s] # Absent /\ lock'[s] # Absent => lock'[s].pin = lock[s].pin
=============================================================================
