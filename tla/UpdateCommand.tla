---------------------------- MODULE UpdateCommand ----------------------------
(***************************************************************************)
(* The commands that follow a Skill's source: "skilld update", the update  *)
(* of a reviewed selection, "skilld update --check" and "skilld verify"    *)
(* (lib.rs, core update.rs).  One command runs beside everything that can  *)
(* change under it: another process that updates or removes the Skills,    *)
(* the user who edits their files, and the Repositories, which move ahead, *)
(* back or to another branch.  Commits are the nodes of a history; a       *)
(* Skill's files are the ask behaviours that its commit shows.             *)
(***************************************************************************)
EXTENDS Naturals, Sequences, FiniteSets, SequencesExt, Sorting

CONSTANTS
  Skills,      \* a set of numbers, in the order of the names
  Commits,
  History,     \* History[c]: the commits reachable from c, c among them
  Asks,        \* Asks[c]: the ask behaviours detected in the files of c
  Allowed,     \* the behaviours of --allow
  Firsts,      \* the lock records that the first Skill may start with
  Absent,      \* no Skill is recorded
  MaxChanges   \* bound of what the others do during the command

VARIABLES
  lock,        \* the lock record of each Skill, or Absent
  tid,         \* the transaction id of the lockfile
  disk,        \* the ask behaviours in the canonical directory of each Skill
  edited,      \* the Skills whose files the user has changed
  upstream,    \* the commit that each source names
  changes,     \* what the others did so far
  command,     \* "update", "selected", "check" or "verify"
  selection,   \* the reviewed plan items of "selected", by Skill
  names, at,   \* the Skills that the command follows, and the one it looks at
  looking,     \* the Skill whose view is held while its source is asked, or Absent
  view,        \* that view: transaction id and lock record
  pending,     \* the Skills whose comparison is asked, with view and latest commit
  answers,     \* the results of compare_updates
  staged,      \* the prepared updates
  approved,    \* the behaviours the user has approved, by Skill
  items,       \* the items of the update plan
  pc, outcome

store == <<lock, tid, disk, edited>>
env == <<upstream, changes>>
plan == <<items, approved>>
work == <<command, selection, names, at, looking, view, pending, answers, staged>>
vars == <<store, env, plan, work, pc, outcome>>

Unknown == 0

LockRecords ==
  [source : {"remote", "local"}, commit : Commits, pin : Commits \cup {Unknown},
   status : {"verified", "unverified", "local"}, readable : BOOLEAN]

(* A remote source names a branch (pin Unknown) or one commit; a selector  *)
(* that a later skilld wrote may be unreadable.                            *)
Remote(commit, pin, status, readable) ==
  [source |-> "remote", commit |-> commit, pin |-> pin, status |-> status, readable |-> readable]
Pinned(r) == r.pin # Unknown

UpdateAssumption ==
  /\ Skills \subseteq Nat /\ IsFiniteSet(Skills) /\ MaxChanges \in Nat
  /\ IsFiniteSet(Commits) /\ {1, 2} \subseteq Commits
  /\ History \in [Commits -> SUBSET Commits] /\ \A c \in Commits : c \in History[c]
  /\ Firsts \subseteq LockRecords /\ Absent \notin LockRecords /\ Absent \notin Skills

(* What GitHub says of two commits: how far each is from the other.        *)
Ahead(base, head) == Cardinality(History[head] \ History[base])
Behind(base, head) == Cardinality(History[base] \ History[head])

Relation(ahead, behind) ==
  CASE ahead > 0 /\ behind = 0 -> "ahead"
    [] ahead = 0 /\ behind > 0 -> "behind"
    [] ahead > 0 /\ behind > 0 -> "diverged"
    [] OTHER                   -> "identical"

Ready(base, head) ==
  [kind |-> "ready", relation |-> Relation(Ahead(base, head), Behind(base, head)), ahead |-> Ahead(base, head),
   behind |-> Behind(base, head), total |-> Ahead(base, head), listed |-> Ahead(base, head)]

(* An answer may also be no comparison, or one that cannot be.             *)
Answer(how, base, head) ==
  CASE how = "true"       -> Ready(base, head)
    [] how = "wrong"      -> [Ready(base, head) EXCEPT !.relation = "identical"]
    [] how = "miscounted" -> [Ready(base, head) EXCEPT !.listed = @ + 1]
    [] OTHER              -> [kind |-> how]

(* classify_update_comparison with CommitHistory::compared.                *)
Classified(locked, latest, a) ==
  LET says == Relation(a.ahead, a.behind)
      fits == (locked = latest) = (says = "identical") /\ a.relation = says /\ a.listed <= a.total
  IN IF ~fits THEN "unavailable"
     ELSE [ahead |-> "available", behind |-> "behind", diverged |-> "diverged", identical |-> "current"][says]

Item(s, relation, locked, latest) == [name |-> s, relation |-> relation, locked |-> locked, latest |-> latest]

PlanItem(p, a) ==
  Item(p.name, IF a.kind = "ready" THEN Classified(p.view.record.commit, p.latest, a) ELSE "unavailable",
       p.view.record.commit, p.latest)

-----------------------------------------------------------------------------
TypeOK ==
  /\ tid \in Nat /\ edited \subseteq Skills /\ upstream \in [Skills -> Commits]
  /\ \A s \in Skills : lock[s] # Absent => lock[s].commit \in Commits
  /\ pc \in {"look", "judge", "gate", "apply", "done"}
  /\ Len(staged) + Len(pending) <= Cardinality(Skills)

Done(result) == pc' = "done" /\ outcome' = result
Fail(code) == Done([kind |-> "failed", code |-> code])
Succeed(updated) == Done([kind |-> "ok", updated |-> updated])
Going == UNCHANGED outcome

Followed(r) == r.source = "remote" /\ r.readable /\ ~Pinned(r) /\ r.status # "local"

(* The plan that was reviewed: what a check finds as the command starts.   *)
Reviewed(s) ==
  IF Followed(lock[s])
  THEN Item(s, Classified(lock[s].commit, upstream[s], Ready(lock[s].commit, upstream[s])), lock[s].commit, upstream[s])
  ELSE Item(s, "not_tracked", lock[s].commit, Unknown)

(* validate_update_selection: at least one Skill, each once, every one of  *)
(* them available.                                                         *)
ValidSelection(chosen) == chosen # {} /\ \A s \in chosen : selection[s].relation = "available"

Init ==
  /\ \E first \in Firsts, latest \in Commits :
       /\ lock = [s \in Skills |-> IF s = 1 THEN first ELSE Remote(1, Unknown, "verified", TRUE)]
       /\ upstream = [s \in Skills |-> IF s = 1 THEN latest ELSE 2]
  /\ disk = [s \in Skills |-> Asks[lock[s].commit]]
  /\ tid = 0 /\ edited = {} /\ changes = 0
  /\ command \in {"update", "selected", "check", "verify"}
  /\ selection = [s \in Skills |-> Reviewed(s)]
  /\ \E chosen \in SUBSET Skills :
       /\ names = InOrder(chosen) /\ at = 1
       /\ IF command = "selected" THEN ValidSelection(chosen) ELSE chosen = Skills \/ Cardinality(chosen) = 1
  /\ looking = Absent /\ view = Absent /\ pending = <<>> /\ answers = <<>> /\ staged = <<>>
  /\ approved = [s \in Skills |-> {}] /\ items = {}
  /\ pc = "look" /\ outcome = [kind |-> "running"]

-----------------------------------------------------------------------------
(* verify_content: the lock record and the lockfile's transaction id,      *)
(* after the Skill is found recorded and its files unchanged.              *)
ContentError(s) ==
  IF lock[s] = Absent THEN "SKILL_NOT_INSTALLED" ELSE IF s \in edited THEN "CONTENT_CHANGED" ELSE "none"

(* Why a command that follows a remote source stops at the Skill.          *)
LookError(s, r) ==
  CASE command = "check"  -> "none"
    [] command = "verify" -> IF r.status = "unverified" THEN "UNVERIFIED_SOURCE"
                             ELSE IF r.status = "verified" /\ ~r.readable THEN "INVALID_SELECTOR" ELSE "none"
    [] OTHER              -> IF r.status # "verified" THEN "UNVERIFIED_SOURCE"
                             ELSE IF ~r.readable THEN "INVALID_SELECTOR"
                             ELSE IF command = "selected" /\ (Pinned(r) \/ r.commit # selection[s].locked)
                                  THEN "STALE_UPDATE_PLAN" ELSE "none"

(* What becomes of the Skill without asking its source, or "ask".          *)
Settled(r) ==
  IF r.source # "remote" THEN "not_tracked"
  ELSE IF command = "verify" THEN IF r.status = "local" THEN "local" ELSE "ask"
  ELSE IF ~r.readable THEN "unavailable"
  ELSE IF Pinned(r) THEN IF r.pin = r.commit THEN "pinned" ELSE "unavailable"
  ELSE IF command = "check" /\ r.status = "local" THEN "unavailable" ELSE "ask"

Planned(new) == items' = IF command = "check" THEN items \cup {new} ELSE items

Look ==
  /\ pc = "look" /\ at <= Len(names) /\ looking = Absent
  /\ LET s == names[at]
         r == lock[s]
         error == IF ContentError(s) # "none" THEN ContentError(s)
                  ELSE IF r.source # "remote" THEN IF command = "selected" THEN "STALE_UPDATE_PLAN" ELSE "none"
                  ELSE LookError(s, r)
     IN \/ error # "none" /\ Fail(error) /\ UNCHANGED <<at, looking, view, items>>
        \/ /\ error = "none" /\ Settled(r) = "ask"
           /\ looking' = s /\ view' = [tid |-> tid, record |-> r]
           /\ UNCHANGED <<at, items, pc>> /\ Going
        \/ /\ error = "none" /\ Settled(r) # "ask"
           /\ Planned(Item(s, Settled(r), r.commit, r.pin))
           /\ at' = at + 1 /\ UNCHANGED <<looking, view, pc>> /\ Going
  /\ UNCHANGED <<store, env, command, selection, names, pending, answers, staged, approved>>

(* latest_commit (source_state for verify): the answer of the Repository,  *)
(* asked after the view was taken and without any lock.  A check notes a   *)
(* failure in the plan; the other commands stop.                           *)
AskSource ==
  /\ pc = "look" /\ looking # Absent
  /\ LET s == looking
         locked == view.record.commit
         latest == IF Pinned(view.record) THEN view.record.pin ELSE upstream[s]
         stale == command = "selected" /\ latest # selection[s].latest
         Next1 == at' = at + 1 /\ looking' = Absent /\ view' = Absent /\ UNCHANGED pc /\ Going
     IN \/ /\ \/ stale /\ Fail("STALE_UPDATE_PLAN")
              \/ command = "verify" /\ latest # locked /\ Fail("SOURCE_STALE")
              \/ command # "check" /\ Fail("SERVICE_UNAVAILABLE")
           /\ UNCHANGED <<at, looking, view, items, pending>>
        \/ command = "check" /\ Planned(Item(s, "unavailable", locked, Unknown)) /\ Next1 /\ UNCHANGED pending
        \/ ~stale /\ latest = locked /\ Planned(Item(s, "current", locked, latest)) /\ Next1 /\ UNCHANGED pending
        \/ /\ ~stale /\ latest # locked /\ command # "verify"
           /\ pending' = Append(pending, [name |-> s, view |-> view, latest |-> latest])
           /\ Next1 /\ UNCHANGED items
  /\ UNCHANGED <<store, env, command, selection, names, answers, staged, approved>>

Looked == pc = "look" /\ at > Len(names) /\ looking = Absent

(* compare_updates answers every comparison, in their order, or fails.     *)
Compare ==
  /\ Looked
  /\ \/ pending = <<>> /\ Succeed({}) /\ UNCHANGED <<answers, items>>
     \/ pending # <<>> /\ Fail("SERVICE_UNAVAILABLE") /\ UNCHANGED <<answers, items>>
     \/ /\ pending # <<>>
        /\ \E how \in [DOMAIN pending -> {"true", "wrong", "miscounted", "rate_limited", "not_found"}] :
             LET a == [i \in DOMAIN pending |-> Answer(how[i], pending[i].view.record.commit, pending[i].latest)] IN
             /\ answers' = a
             /\ IF command = "check"
                THEN items' = items \cup {PlanItem(pending[i], a[i]) : i \in DOMAIN pending} /\ Succeed({})
                ELSE pc' = "judge" /\ Going /\ UNCHANGED items
  /\ UNCHANGED <<store, env, command, selection, names, at, looking, view, pending, staged, approved>>

-----------------------------------------------------------------------------
(* A command without a screen goes forward only: Ahead, by at least one    *)
(* commit.  Behind and Diverged need the user.                             *)
Refusal(a) ==
  IF a.kind # "ready" THEN a.kind
  ELSE IF a.relation = "ahead" /\ a.total > 0 THEN "none"
  ELSE IF a.relation \in {"behind", "diverged"} THEN "UPDATE_CONFIRMATION_REQUIRED" ELSE "INVALID_RESPONSE"

(* prepare_exact and materialize_remote fetch the Skill at the commit; it  *)
(* may fail, or hold a Skill of another name.                              *)
Judge ==
  /\ pc = "judge"
  /\ LET refusal == Refusal(Head(answers)) IN
     IF refusal # "none" THEN Fail(refusal)
     ELSE \/ pc' = "gate" /\ Going
          \/ Fail("SERVICE_UNAVAILABLE") \/ Fail("SOURCE_MISMATCH")
  /\ UNCHANGED <<store, env, work, plan>>

(* gate_update_behaviors: an ask behaviour that the installed files do not *)
(* show now, and --allow does not name, needs the user.  The screen passes *)
(* no --allow.                                                             *)
Held(s, commit) == Asks[commit] \ (disk[s] \cup (IF command = "selected" THEN {} ELSE Allowed))

Gate ==
  /\ pc = "gate"
  /\ LET p == Head(pending)
         held == Held(p.name, p.latest)
     IN \/ /\ lock[p.name] # Absent
           /\ approved' = [approved EXCEPT ![p.name] = held]
           /\ staged' = Append(staged, p)
           /\ pending' = Tail(pending) /\ answers' = Tail(answers)
           /\ pc' = (IF Len(pending) > 1 THEN "judge" ELSE "apply") /\ Going
        \/ /\ lock[p.name] = Absent \/ held # {}
           /\ Fail(IF lock[p.name] = Absent THEN "SKILL_NOT_FOUND" ELSE "BEHAVIOR_CONFIRMATION_REQUIRED")
           /\ UNCHANGED <<approved, staged, pending, answers>>
  /\ UNCHANGED <<store, env, items, command, selection, names, at, looking, view>>

(* A faulty check, for a mutant: the files are not read again.             *)
StillRecorded(p) == p.view.tid = tid /\ p.view.record = lock[p.name]

(* The view of the Skill is of the lockfile that still is the store's, and *)
(* no file has changed.                                                    *)
StillReviewed(p) == p.view.tid = tid /\ p.view.record = lock[p.name] /\ p.name \notin edited

(* apply_update_batch, under the lock of the store: all or nothing.        *)
Apply ==
  /\ pc = "apply"
  /\ LET updated == {p.name : p \in ToSet(staged)}
         commit(s) == (CHOOSE p \in ToSet(staged) : p.name = s).latest
     IN \/ /\ \A p \in ToSet(staged) : StillReviewed(p)
           /\ lock' = [s \in Skills |-> IF s \in updated THEN [lock[s] EXCEPT !.commit = commit(s)] ELSE lock[s]]
           /\ disk' = [s \in Skills |-> IF s \in updated THEN Asks[commit(s)] ELSE disk[s]]
           /\ tid' = tid + 1 /\ UNCHANGED edited
           /\ Succeed(updated)
        \/ Fail("STORE_FAILED") /\ UNCHANGED store
  /\ UNCHANGED <<env, work, plan>>

-----------------------------------------------------------------------------
(* What the others do meanwhile.  An edit is not taken back byte by byte.  *)
Others == pc # "done" /\ changes < MaxChanges /\ changes' = changes + 1 /\ UNCHANGED <<plan, work, pc, outcome>>

OtherCommit(s) ==
  /\ Others /\ lock[s] # Absent /\ s \notin edited
  /\ \/ \E c \in Commits : lock' = [lock EXCEPT ![s].commit = c] /\ disk' = [disk EXCEPT ![s] = Asks[c]]
     \/ lock' = [lock EXCEPT ![s] = Absent] /\ disk' = [disk EXCEPT ![s] = {}]
  /\ tid' = tid + 1 /\ UNCHANGED <<edited, upstream>>

UserEdits(s) ==
  /\ Others /\ lock[s] # Absent /\ edited' = edited \cup {s}
  /\ \E shown \in SUBSET UNION {Asks[c] : c \in Commits} : disk' = [disk EXCEPT ![s] = shown]
  /\ UNCHANGED <<lock, tid, upstream>>

SourceMoves(s) ==
  /\ Others /\ \E c \in Commits : upstream' = [upstream EXCEPT ![s] = c]
  /\ UNCHANGED store

Environment == \E s \in Skills : OtherCommit(s) \/ UserEdits(s) \/ SourceMoves(s)

Next == Look \/ AskSource \/ Compare \/ Judge \/ Gate \/ Apply \/ Environment

Spec == Init /\ [][Next]_vars

-----------------------------------------------------------------------------
(* (An action, checked of every step, as SaysWhatItDid.)                   *)
(* An update writes only what the user may expect of it: from the files    *)
(* that are installed at that moment, unedited, forward to a later commit  *)
(* of a verified source that is not pinned, with no ask behaviour that was *)
(* neither there nor approved; a check and a verification write nothing.   *)
ForwardOnly ==
  \A s \in Skills : pc' # pc /\ lock'[s] # lock[s] =>
    LET old == lock[s]  new == lock'[s] IN
    /\ command \in {"update", "selected"} /\ old # Absent /\ new # Absent /\ s \notin edited
    /\ old.status = "verified" /\ Followed(old)
    /\ new.commit # old.commit /\ History[old.commit] \subseteq History[new.commit]
    /\ Asks[new.commit] \subseteq Asks[old.commit] \cup approved[s] \cup (IF command = "update" THEN Allowed ELSE {})

(* What a plan says of a Skill is what the history of its source says.     *)
RelationIsTrue(i) ==
  i.relation \in {"current", "available", "behind", "diverged"} =>
    LET older == History[i.locked]  newer == History[i.latest] IN
    CASE i.relation = "current"   -> i.locked = i.latest
      [] i.relation = "available" -> i.locked # i.latest /\ older \subseteq newer
      [] i.relation = "behind"    -> i.locked # i.latest /\ newer \subseteq older
      [] OTHER                    -> ~(older \subseteq newer) /\ ~(newer \subseteq older)

(* The plan of a finished check names each Skill once and says of each     *)
(* what its history says.                                                  *)
PlanIsTrue ==
  pc = "done" /\ outcome.kind = "ok" /\ command = "check" =>
    /\ Cardinality(items) = Len(names) /\ {i.name : i \in items} = ToSet(names)
    /\ \A i \in items : RelationIsTrue(i)

(* A command that says it updated Skills wrote them as it ended, and one   *)
(* that failed wrote none, not even some of them.                          *)
SaysWhatItDid ==
  pc' = "done" /\ pc # "done" =>
    IF outcome'.kind = "ok" THEN \A s \in outcome'.updated : lock'[s] # lock[s] ELSE UNCHANGED store
=============================================================================
