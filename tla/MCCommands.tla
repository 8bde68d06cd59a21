----------------------------- MODULE MCCommands -----------------------------
(***************************************************************************)
(* The commands on small instances: two Skills and four commits for what   *)
(* follows a source, two manifests, a Repository's three paths, and the    *)
(* account session of two processes or of one.                             *)
(***************************************************************************)
EXTENDS Commands, TLC

CONSTANTS p1, p2, p3, a1, a2, a3

(* Commit 3 follows 2, which follows 1; 4 is on another branch.            *)
SmallHistory == <<{1}, {1, 2}, {1, 2, 3}, {1, 4}>>

LockRecord(commit, pin, status) ==
  [source |-> "remote", commit |-> commit, pin |-> pin, status |-> status, readable |-> TRUE]
FirstRecords ==
  {LockRecord(1, 0, "verified"), LockRecord(3, 0, "verified"), LockRecord(1, 1, "verified"),
   LockRecord(1, 2, "verified"), LockRecord(1, 0, "unverified"), LockRecord(1, 0, "local"),
   [LockRecord(1, 0, "verified") EXCEPT !.readable = FALSE], [LockRecord(1, 0, "local") EXCEPT !.source = "local"]}

SmallAsks == <<{}, {"net"}, {"net"}, {}>>
TwoAsks == <<{}, {"net"}>>
SmallAllows == {{}, {"net"}, {"tyop"}}

SmallRequests ==
  [agents : {<<>>, <<"zed", "codex", "zed">>, <<"all">>, <<"all", "codexx">>}, configured : {<<>>, <<"pi">>}]

Manifest(kind, version, skills, agents, copies, requires) ==
  [source |-> [kind |-> kind, at |-> version], skills |-> skills, agents |-> agents, mode |-> copies,
   requires |-> requires]
SmallManifests ==
  [d \in {"d1", "d2"} |->
     IF d = "d1"
     THEN {Manifest("remote", 1, {1, 2}, {"a"}, "copy", FALSE), Manifest("remote", 2, {1}, {"a"}, "copy", TRUE),
           Manifest("local", 1, {1}, {"a", "b"}, "copy", FALSE)}
     ELSE {Manifest("remote", 1, {1}, {"b"}, "copy", FALSE), Manifest("local", 1, {1}, {"a"}, "link", FALSE)}]

(* Two Agents' copies of one Skill of a Repository, and one thing that     *)
(* differs from it.                                                        *)
Plain ==
  [owner |-> "skills.sh", copies |-> {1, 2}, seen |-> {1, 2}, scope |-> [p \in 1..3 |-> 1],
   agent |-> [p \in 1..3 |-> p], named |-> [p \in 1..3 |-> TRUE], standard |-> [p \in 1..3 |-> TRUE],
   stored |-> FALSE, subagents |-> FALSE, differ |-> FALSE, github |-> TRUE, tree |-> FALSE, remote |-> "same"]
SmallCases ==
  {Plain, [Plain EXCEPT !.owner = "pnpm"], [Plain EXCEPT !.owner = "unknown"], [Plain EXCEPT !.seen = {1}],
   [Plain EXCEPT !.scope[2] = 2], [Plain EXCEPT !.agent[2] = 1], [Plain EXCEPT !.named[2] = FALSE],
   [Plain EXCEPT !.standard[1] = FALSE], [Plain EXCEPT !.stored = TRUE], [Plain EXCEPT !.subagents = TRUE],
   [Plain EXCEPT !.differ = TRUE], [Plain EXCEPT !.github = FALSE], [Plain EXCEPT !.remote = "changed"],
   [Plain EXCEPT !.remote = "changed", !.tree = TRUE], [Plain EXCEPT !.remote = "renamed"]}

SmallKinds ==
  <<[p \in {"a"} |-> "text"], [p \in {"a", "b"} |-> IF p = "a" THEN "text" ELSE "executable"],
    [p \in {"a"} |-> "text"]>>

SessionAsks == <<{"net"}, {"net", "exec"}, {}>>

CommandNames == {"doctor", "sync", "search", "run", "add", "view", "update", "install", "browse", "config"}
SmallLines ==
  {l \in [name : CommandNames,
          args : {"fine", "help", "wrong", "removed", "unfit", "check", "interactive", "registry", "badref"},
          json : BOOLEAN, plain : BOOLEAN, terminal : BOOLEAN] :
     /\ l.args = "check" => l.name = "update"
     /\ l.args = "interactive" => l.name = "update" /\ ~l.json /\ ~l.plain
     /\ l.args \in {"registry", "badref"} => l.name = "view"}

SmallCrowd ==
  [procs |-> {p1, p2}, accounts |-> {a1, a2}, commands |-> {"login", "token", "logout"}, timeout |-> 1,
   lifetime |-> 1, redirects |-> 0, now |-> 1, sessions |-> 2, gen |-> 1, crashes |-> 0]
SmallSingle ==
  [procs |-> {p3}, accounts |-> {a3}, commands |-> {"login", "token", "status", "logout"}, timeout |-> 1,
   lifetime |-> 1, redirects |-> 3, now |-> 2, sessions |-> 2, gen |-> 1, crashes |-> 1]

Symmetry == Permutations({p1, p2}) \cup Permutations({a1, a2})
=============================================================================
