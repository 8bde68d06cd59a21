------------------------------ MODULE MCScreens ------------------------------
(***************************************************************************)
(* The interactive screens on small instances: two Skills to update with   *)
(* two ranges of commits, reports of two duplicates, a list of three       *)
(* Skills to pick from.                                                    *)
(***************************************************************************)
EXTENDS Screens, TLC

CONSTANTS r1, r2

SmallPages == (r1 :> 2) @@ (r2 :> 0)

(* One that shows a single Skill on two lines, and one that is too small. *)
SmallSizes == {[width |-> 60, height |-> 8], [width |-> 19, height |-> 9]}

(* Two Skills, both duplicates; scope 0 is that of global targets. *)
Skill(path, owner, paths, duplicate) ==
  [path |-> path, owner |-> owner, paths |-> paths, duplicate |-> duplicate]
In(scope, linked) == [scope |-> scope, linked |-> linked]
a == Skill("a", "skills.sh", {In(0, FALSE), In(1, TRUE)}, TRUE)
b == Skill("b", "Unknown", {In(0, FALSE)}, TRUE)
SmallReports == {<<a, b>>, <<b>>}

SmallMatches == {{1, 3}, {3}, {}}
=============================================================================
