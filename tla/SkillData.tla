----------------------------- MODULE SkillData -----------------------------
(***************************************************************************)
(* What the Skill store keeps: Skills, the places where they live, and the *)
(* lock document that records them (crates/skilld-core/src/lock.rs).       *)
(***************************************************************************)
EXTENDS Naturals

CONSTANTS
  Skills,    \* Skill names
  Roots,     \* Agent target roots, one per distinct path
  Contents,  \* digests a Skill tree can have
  Store,     \* the canonical site, next to the roots
  None,      \* no file, no entry, no holder, no declaration
  Link,      \* the managed link to the canonical Skill
  Foreign,   \* a directory the user made or changed
  Torn       \* a partial copy or a partly removed tree

(* A link the user made to a directory elsewhere, by that one's digest. *)
Aliases == [alias: Contents]

(* What a place can hold. *)
Trees  == Contents \cup {Foreign, Torn}
Values == Trees \cup Aliases \cup {None, Link}

(* A place is where one Skill lives at one site. *)
Places == Skills \X (Roots \cup {Store})
Canonical(pl) == <<pl[1], Store>>

(* What the user leaves at a place; only targets are linked by hand. *)
UserValues(pl) == {None, Foreign} \cup (IF pl[2] = Store THEN {} ELSE Aliases)

(* LockedSkill: the installed digest and a mode per Agent target. *)
Entries == [content: Contents, mode: [Roots -> {"off", "copy", "symlink"}]]
EntryOrNone == Entries \cup {None}

(* LockDocument, with the Skills its recorded requirements name. *)
Docs == [tx: Nat, skills: [Skills -> EntryOrNone], required: SUBSET Skills]

InitialDoc ==
  [tx |-> 0, skills |-> [s \in Skills |-> None], required |-> {}]

(* What a lock document records for a place. *)
Recorded(doc, pl) ==
  LET entry == doc.skills[pl[1]] IN
  IF entry = None THEN None
  ELSE IF pl[2] = Store \/ entry.mode[pl[2]] = "copy" THEN entry.content
  ELSE IF entry.mode[pl[2]] = "symlink" THEN Link
  ELSE None

ASSUME DataAssumption ==
  /\ Store \notin Roots
  /\ None \notin Trees \cup Aliases \cup Entries \cup Docs \cup {Link}
  /\ Link \notin Trees \cup Aliases
  /\ Trees \cap Aliases = {}
  /\ Foreign \notin Contents \cup {Torn} /\ Torn \notin Contents
=============================================================================
