---------------------------- MODULE MCSkillStore ----------------------------
(***************************************************************************)
(* Small sets of commands for TLC: two Skills, one or two Agent targets.   *)
(***************************************************************************)
EXTENDS SkillStoreInv, TLC

CONSTANTS p1, p2, s1, s2, r1, r2, c1, c2

(* Every target copied, or linked. *)
Copies(c) == [content |-> c, mode |-> [r \in Roots |-> "copy"]]
Links(c)  == [content |-> c, mode |-> [r \in Roots |-> "symlink"]]
Mixed(c)  == [content |-> c, mode |-> [r \in Roots |-> IF r = r1 THEN "copy" ELSE "symlink"]]
Bare(c)   == [content |-> c, mode |-> [r \in Roots |-> "off"]]

Read == [kind |-> "read", names |-> {}, entries |-> [s \in Skills |-> None],
         adopt |-> FALSE, declares |-> FALSE, required |-> {}]

Change(kind, names, entry) ==
  [Read EXCEPT !.kind = kind, !.names = names,
               !.entries = [s \in Skills |-> IF s \in names THEN entry ELSE None]]

Install(s, entry) == Change("install", {s}, entry)
Remove(s) == Change("remove", {s}, None)
Update(names, entry) == Change("batch", names, entry)
Sync(names, entry, required) ==
  [Update(names, entry) EXCEPT !.adopt = TRUE, !.declares = TRUE, !.required = required]

(* Commands on one Skill, with every kind of change to its target. *)
OneSkill ==
  {Read, Install(s1, Mixed(c1)), Install(s1, Links(c2)), Remove(s1),
   Update({s1}, Bare(c2)), Sync({s1}, Links(c1), {})}

(* Batches over two Skills, one of which the other requires. *)
TwoSkills ==
  {Read, Install(s1, Copies(c1)), Remove(s1),
   Update({s1, s2}, Copies(c2)), Sync({s1, s2}, Links(c1), {s1})}

Symmetry == Permutations(Procs)
=============================================================================
