--------------------------- MODULE HarnessPromotion ---------------------------
(***************************************************************************)
(* How the Harness puts a generated Skill at its destination               *)
(* (packages/harness/src/internal/output/promote.ts): a lock file, a       *)
(* staged directory, two renames and a rollback by hand.  Several runs     *)
(* have the same destination, the user writes there too, calls fail, and a *)
(* run may die at any step.                                                *)
(*                                                                         *)
(* A run's files are the run itself.  A Skill has at least a SKILL.md, so  *)
(* a rename over a directory that is there fails.                          *)
(***************************************************************************)
EXTENDS Naturals

CONSTANTS
  Runs,
  MaxFaults, MaxEdits,   \* bounds: failed calls and deaths; writes of the user
  Absent

Part == "part"                \* a directory that is not complete
Whole == Runs \cup {"old", "user"}
Trees == Whole \cup {Absent, Part}

PromotionAssumption ==
  /\ {Absent, Part, "old", "user"} \cap Runs = {} /\ Absent \notin {Part, "old", "user"}
  /\ {MaxFaults, MaxEdits} \subseteq Nat

VARIABLES
  root,      \* the output root is there
  target,    \* the Skill's directory
  lock,      \* .skilld-<name>.lock: the run that made it, or Absent
  next,      \* per run: its .skilld-<name>-<nonce>.next
  previous,  \* ... its .skilld-<name>-<nonce>.previous
  at,        \* ... where it stands
  saw,       \* ... targetStat: a Skill was there
  created,   \* ... createdRoot
  moved,     \* ... movedCurrent
  note,      \* ... what it says besides its result
  had,       \* history: there was a Skill, and the user did not remove it
  faults, edits

disk == <<root, target, lock, next, previous>>
vars == <<disk, at, saw, created, moved, note, had, faults, edits>>

Init ==
  /\ \/ root \in BOOLEAN /\ target = Absent
     \/ root = TRUE /\ target = "old"
  /\ had = (target # Absent) /\ lock = Absent
  /\ next = [r \in Runs |-> Absent] /\ previous = [r \in Runs |-> Absent]
  /\ at = [r \in Runs |-> "start"]
  /\ saw = [r \in Runs |-> FALSE] /\ created = [r \in Runs |-> FALSE] /\ moved = [r \in Runs |-> FALSE]
  /\ note = [r \in Runs |-> "none"]
  /\ faults = 0 /\ edits = 0

Goto(r, where) == at' = [at EXCEPT ![r] = where]
Empty == target = Absent /\ lock = Absent /\ \A q \in Runs : next[q] = Absent /\ previous[q] = Absent

(* The root is made when it is away, which another run may do first.       *)
FindRoot(r) ==
  /\ at[r] = "start"
  /\ Goto(r, IF root THEN "look" ELSE "make")
  /\ UNCHANGED <<disk, saw, created, moved, note, had, faults, edits>>

MakeRoot(r) ==
  /\ at[r] = "make"
  /\ root' = TRUE /\ created' = [created EXCEPT ![r] = ~root] /\ Goto(r, "look")
  /\ UNCHANGED <<target, lock, next, previous, saw, moved, note, had, faults, edits>>

(* A root that another run took away again is refused.                     *)
Inspect(r) ==
  /\ at[r] = "look"
  /\ Goto(r, IF root THEN "lock" ELSE "refused")
  /\ saw' = [saw EXCEPT ![r] = target # Absent]
  /\ UNCHANGED <<disk, created, moved, note, had, faults, edits>>

TakeLock(r) ==
  /\ at[r] = "lock"
  /\ IF root /\ lock = Absent
     THEN lock' = r /\ Goto(r, "stage")
     ELSE Goto(r, IF root THEN "busy" ELSE "refused") /\ UNCHANGED lock
  /\ UNCHANGED <<root, target, next, previous, saw, created, moved, note, had, faults, edits>>

MakeStage(r) ==
  /\ at[r] = "stage"
  /\ next' = [next EXCEPT ![r] = Part] /\ Goto(r, "fill")
  /\ UNCHANGED <<root, target, lock, previous, saw, created, moved, note, had, faults, edits>>

WriteFiles(r) ==
  /\ at[r] = "fill"
  /\ next' = [next EXCEPT ![r] = r]
  /\ Goto(r, IF saw[r] THEN "aside" ELSE "promote")
  /\ UNCHANGED <<root, target, lock, previous, saw, created, moved, note, had, faults, edits>>

(* The Skill that was there when the run looked is moved aside, or the one *)
(* that is there now.                                                      *)
SetAside(r) ==
  /\ at[r] = "aside"
  /\ IF target = Absent
     THEN Goto(r, "unlock") /\ UNCHANGED <<target, previous, moved>>
     ELSE /\ previous' = [previous EXCEPT ![r] = target] /\ target' = Absent
          /\ moved' = [moved EXCEPT ![r] = TRUE] /\ Goto(r, "promote")
  /\ UNCHANGED <<root, lock, next, saw, created, note, had, faults, edits>>

Promote(r) ==
  /\ at[r] = "promote"
  /\ IF target = Absent
     THEN /\ target' = next[r] /\ next' = [next EXCEPT ![r] = Absent] /\ had' = TRUE
          /\ Goto(r, "unlock promoted")
     ELSE Goto(r, IF moved[r] THEN "rollback" ELSE "unlock") /\ UNCHANGED <<target, next, had>>
  /\ UNCHANGED <<root, lock, previous, saw, created, moved, note, faults, edits>>

(* Faulty: the Skill that was set aside is forgotten.                      *)
GiveUp(r) ==
  /\ at[r] = "rollback"
  /\ Goto(r, "unlock")
  /\ UNCHANGED <<disk, saw, created, moved, note, had, faults, edits>>

(* A Skill that took the place meanwhile is left there.                    *)
RollBack(r) ==
  /\ at[r] = "rollback"
  /\ IF target = Absent
     THEN target' = previous[r] /\ previous' = [previous EXCEPT ![r] = Absent]
     ELSE UNCHANGED <<target, previous>>
  /\ Goto(r, "unlock")
  /\ UNCHANGED <<root, lock, next, saw, created, moved, note, had, faults, edits>>

Unlock(r) ==
  /\ at[r] \in {"unlock", "unlock promoted"}
  /\ lock' = Absent
  /\ Goto(r, IF at[r] = "unlock" THEN "clean" ELSE IF moved[r] THEN "drop" ELSE "ok")
  /\ UNCHANGED <<root, target, next, previous, saw, created, moved, note, had, faults, edits>>

DropPrevious(r) ==
  /\ at[r] = "drop"
  /\ previous' = [previous EXCEPT ![r] = Absent] /\ Goto(r, "ok")
  /\ UNCHANGED <<root, target, lock, next, saw, created, moved, note, had, faults, edits>>

(* rmdir takes the root away only when nothing is in it.                   *)
CleanUp(r) ==
  /\ at[r] = "clean"
  /\ next' = [next EXCEPT ![r] = Absent] /\ Goto(r, IF created[r] THEN "clean root" ELSE "failed")
  /\ UNCHANGED <<root, target, lock, previous, saw, created, moved, note, had, faults, edits>>

RemoveRoot(r) ==
  /\ at[r] = "clean root"
  /\ root' = (root /\ ~Empty) /\ Goto(r, "failed")
  /\ UNCHANGED <<target, lock, next, previous, saw, created, moved, note, had, faults, edits>>

(* Which step follows a call that fails; a failed cleanup is only told.    *)
AfterFailure(r) ==
  CASE at[r] \in {"stage", "fill", "aside"} -> "unlock"
    [] at[r] = "promote"         -> IF moved[r] THEN "rollback" ELSE "unlock"
    [] at[r] = "rollback"        -> "unlock"
    [] at[r] = "unlock"          -> "clean"
    [] at[r] = "unlock promoted" -> IF moved[r] THEN "drop" ELSE "ok"
    [] at[r] = "drop"            -> "ok"
    [] at[r] = "clean"           -> IF created[r] THEN "clean root" ELSE "failed"
    [] at[r] = "clean root"      -> "failed"
    [] OTHER                     -> "refused"

Ended == {"ok", "failed", "busy", "refused", "dead"}

CallFails(r) ==
  /\ at[r] \notin Ended /\ faults < MaxFaults
  /\ Goto(r, AfterFailure(r))
  /\ note' = [note EXCEPT ![r] = IF at[r] \in {"rollback", "drop"} THEN at[r] ELSE @]
  /\ previous' = IF at[r] = "drop" THEN [previous EXCEPT ![r] = Part] ELSE previous
  /\ faults' = faults + 1
  /\ UNCHANGED <<root, target, lock, next, saw, created, moved, had, edits>>

Dies(r) ==
  /\ at[r] \notin Ended /\ faults < MaxFaults
  /\ Goto(r, "dead") /\ faults' = faults + 1
  /\ UNCHANGED <<disk, saw, created, moved, note, had, edits>>

(* The user takes the Skill away, or puts one where there is none.         *)
UserWrites ==
  /\ root /\ edits < MaxEdits
  /\ target' = IF target = Absent THEN "user" ELSE Absent
  /\ had' = (target = Absent) /\ edits' = edits + 1
  /\ UNCHANGED <<root, lock, next, previous, at, saw, created, moved, note, faults>>

Step(r) ==
  \/ FindRoot(r) \/ MakeRoot(r) \/ Inspect(r) \/ TakeLock(r) \/ MakeStage(r) \/ WriteFiles(r) \/ SetAside(r)
  \/ Promote(r) \/ RollBack(r) \/ Unlock(r) \/ DropPrevious(r) \/ CleanUp(r) \/ RemoveRoot(r)
  \/ CallFails(r) \/ Dies(r)

Next == UserWrites \/ \E r \in Runs : Step(r)

Spec == Init /\ [][Next]_vars

-----------------------------------------------------------------------------
TypeOK ==
  /\ root \in BOOLEAN /\ target \in Trees /\ lock \in Runs \cup {Absent}
  /\ next \in [Runs -> Trees] /\ previous \in [Runs -> Trees]
  /\ at \in [Runs -> Ended \cup {"start", "make", "look", "lock", "stage", "fill", "aside", "promote", "rollback",
                                 "unlock", "unlock promoted", "drop", "clean", "clean root"}]
  /\ saw \in [Runs -> BOOLEAN] /\ created \in [Runs -> BOOLEAN] /\ moved \in [Runs -> BOOLEAN]
  /\ note \in [Runs -> {"none", "rollback", "drop"}]
  /\ had \in BOOLEAN /\ faults \in 0..MaxFaults /\ edits \in 0..MaxEdits

(* Whatever runs and the user do at once and whoever dies, the destination *)
(* never holds a part of a Skill; and when the Skill is away although      *)
(* nobody removed it, the whole of it lies in a run's .previous, of a run  *)
(* that is about to put one there, that died, or that says so.             *)
SkillKept ==
  /\ target # Part
  /\ had /\ target = Absent =>
       \E r \in Runs :
         /\ previous[r] \in Whole
         /\ at[r] \in {"promote", "rollback", "dead"} \/ note[r] = "rollback"

(* A run that answers with an error left its files nowhere; one that       *)
(* answers with a Skill keeps the Skill before it only if it warns so; and *)
(* one that failed keeps it aside only if it says so, or because the user  *)
(* put another in its place.                                               *)
PromotionAnswers ==
  \A r \in Runs :
    /\ at[r] \in {"failed", "busy", "refused"} => target # r /\ (\A q \in Runs : previous[q] # r)
    /\ at[r] = "ok" => previous[r] = Absent \/ note[r] = "drop"
    /\ at[r] = "failed" /\ previous[r] # Absent => note[r] = "rollback" \/ edits > 0

(* At most one run at a time is between the lock file and its removal.     *)
OneRunAtATime ==
  \A r \in Runs :
    at[r] \in {"stage", "fill", "aside", "promote", "rollback", "unlock", "unlock promoted"} => lock = r

=============================================================================
