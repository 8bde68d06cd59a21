----------------------------- MODULE RunSession -----------------------------
(***************************************************************************)
(* A session of "skilld run" (run.rs and the run parts of lib.rs): an      *)
(* Agent loads a Skill without installing it.  A load that needs the       *)
(* user's approval prints the command to run after it was given; a load    *)
(* prints the commands that read its supporting files.  The branch behind  *)
(* the source moves between these commands, and local files change while   *)
(* they are read.                                                          *)
(***************************************************************************)
EXTENDS Naturals, FiniteSets

CONSTANTS
  Commits,   \* the commits of the Skill, 1..n
  Asks,      \* Asks[c]: the behaviors of commit c that need an approval
  Kinds,     \* Kinds[c]: the supporting files of commit c, each "text", "executable" or "binary"
  Absent,
  MaxMoves,  \* bound of the moves of the branch and of the changes of the local Skill
  MaxCalls   \* bound of the commands of a session

VARIABLES
  head,     \* the commit of the branch
  local,    \* the commit that the local copy equals
  offered,  \* the commands that skilld printed, with the commit they were printed for
  call,     \* the command that runs, or Absent
  got,      \* the commit whose files it prepared or reads, or Absent
  seen,     \* the commit that the local copy equalled when its files were listed, or Absent
  agreed,   \* the behaviors the user approved: of one commit, or of any (commit 0)
  printed,  \* what the Agent was given: [from, path, asked]
  said,     \* the answer of the last command
  moves, calls

vars == <<head, local, offered, call, got, seen, agreed, printed, said, moves, calls>>

Behaviors == UNION {Asks[c] : c \in Commits}
SkillPaths == UNION {DOMAIN Kinds[c] : c \in Commits}

\* A command: its source, "branch", "local", "bundled", "many" or a commit;
\* asked is the commit whose output told the Agent to run it.
Named(name) == [name |-> name, commit |-> 0]
Pinned(commit) == [name |-> "commit", commit |-> commit]
Sources == {Named(n) : n \in {"branch", "local", "bundled", "many"}} \cup {Pinned(c) : c \in Commits}
NewCommand(source, files, revision, allow, asked) ==
  [source |-> source, files |-> files, revision |-> revision, allow |-> allow, asked |-> asked]

RunAssumption ==
  /\ Commits = 1..Cardinality(Commits) /\ 1 \in Commits /\ Absent \notin Commits
  /\ {MaxMoves, MaxCalls} \subseteq Nat
  /\ \A c \in Commits : \A p \in DOMAIN Kinds[c] :
       p # "SKILL.md" /\ Kinds[c][p] \in {"text", "executable", "binary"}

TypeOK ==
  /\ {head, local} \subseteq Commits /\ got \in Commits \cup {Absent}
  /\ \A c \in offered : c.source \in Sources /\ c.allow \subseteq Behaviors
  /\ agreed \subseteq (Commits \cup {0}) \X Behaviors
  /\ \A p \in printed : p.from \in Commits /\ p.path \in SkillPaths \cup {"SKILL.md"}
  /\ said \in {"none", "loaded", "files", "listed", "usage", "retry", "failed", "approve first", "declined"}
  /\ moves \in 0..MaxMoves /\ calls \in 0..MaxCalls

Init ==
  /\ head = 1 /\ local = 1 /\ offered = {} /\ call = Absent /\ got = Absent /\ seen = Absent
  /\ agreed = {} /\ printed = {} /\ said = "none" /\ moves = 0 /\ calls = 0

-----------------------------------------------------------------------------
IsCommit(source) == source.name = "commit"
IsRemote(source) == source.name \in {"commit", "branch"}

\* The flags that the kind of the source forbids.
Refused(c) ==
  \/ c.source.name = "many" /\ (c.files # {} \/ c.revision # Absent \/ c.allow # {})
  \/ IsRemote(c.source) /\ c.files # {} /\ c.revision = Absent
  \/ ~IsRemote(c.source) /\ c.revision # Absent
  \/ c.revision # Absent /\ c.files = {}

\* A faulty argument, for a mutant: the source as the user typed it.
SourceAsTyped(source, commit) == source

\* source_argument: the commands that skilld prints name the exact commit.
SourceArgument(source, commit) == IF IsRemote(source) THEN Pinned(commit) ELSE source

\* read_argv: one command for each supporting file that can be read.
ReadArgv(c, commit) ==
  {NewCommand(SourceArgument(c.source, commit), {p}, IF IsRemote(c.source) THEN commit ELSE Absent, {}, commit)
     : p \in {p \in DOMAIN Kinds[commit] : Kinds[commit][p] = "text"}}

\* allow_argv: what was allowed, and what was shown.
AllowArgv(c, commit, held) ==
  NewCommand(SourceArgument(c.source, commit), {}, Absent, c.allow \cup held, commit)

Answer(what) == said' = what /\ call' = Absent /\ got' = Absent /\ seen' = Absent
Session == UNCHANGED <<head, local, agreed, moves, calls>>

(* The user's own commands, and those that skilld printed; the Agent gives *)
(* --allow only after the user approved what was shown.                    *)
Start(c) ==
  /\ call = Absent /\ calls < MaxCalls /\ calls' = calls + 1
  /\ \A b \in c.allow : <<0, b>> \in agreed \/ <<c.asked, b>> \in agreed
  /\ IF Refused(c) THEN Answer("usage")
     ELSE IF c.source.name = "many" THEN Answer("listed")
     ELSE call' = c /\ UNCHANGED <<got, seen, said>>
  /\ UNCHANGED <<head, local, offered, agreed, printed, moves>>

(* run_remote: the provider prepares the commit of the source, or the one  *)
(* that --revision names; another answer is refused.                       *)
Prepare ==
  /\ call # Absent /\ got = Absent /\ IsRemote(call.source)
  /\ \/ Answer("retry") \/ Answer("failed")
     \/ IsCommit(call.source) /\ call.revision # Absent /\ call.source.commit # call.revision /\ Answer("failed")
     \/ /\ IsCommit(call.source) /\ call.revision # Absent => call.source.commit = call.revision
        /\ \E c \in Commits :
             /\ call.revision = Absent => c = (IF IsCommit(call.source) THEN call.source.commit ELSE head)
             /\ IF call.revision # Absent /\ c # call.revision THEN Answer("failed")
                ELSE got' = c /\ UNCHANGED <<call, seen, said>>
  /\ Session /\ UNCHANGED <<offered, printed>>

(* read_local and run_bundled: the files are listed with their modes, then *)
(* read; a file whose size changed in between stops the run, and a mode    *)
(* that changed is not seen.                                               *)
ListLocal ==
  /\ call # Absent /\ got = Absent /\ ~IsRemote(call.source) /\ seen = Absent
  /\ \/ Answer("failed")
     \/ seen' = (IF call.source.name = "local" THEN local ELSE 1) /\ UNCHANGED <<call, got, said>>
  /\ Session /\ UNCHANGED <<offered, printed>>

Executables(commit) == {p \in DOMAIN Kinds[commit] : Kinds[commit][p] = "executable"}

ReadLocal ==
  /\ call # Absent /\ got = Absent /\ seen # Absent
  /\ LET now == IF call.source.name = "local" THEN local ELSE seen IN
     \/ now # seen /\ Answer("failed")
     \/ /\ DOMAIN Kinds[seen] \subseteq DOMAIN Kinds[now] /\ UNCHANGED <<call, seen, said>>
        /\ got' = IF DOMAIN Kinds[now] = DOMAIN Kinds[seen] /\ Executables(now) = Executables(seen) THEN now ELSE seen
  /\ Session /\ UNCHANGED <<offered, printed>>

(* pull_files: an unknown path fails the run; a file that is not text is   *)
(* named and withheld.                                                     *)
PullFiles ==
  /\ got # Absent /\ call.files # {}
  /\ IF call.files \subseteq DOMAIN Kinds[got]
     THEN /\ printed' = printed \cup {[from |-> got, path |-> p, asked |-> call.asked, remote |-> IsRemote(call.source)]
                                        : p \in {p \in call.files : Kinds[got][p] = "text"}}
          /\ Answer("files")
     ELSE Answer("failed") /\ UNCHANGED printed
  /\ Session /\ UNCHANGED offered

Held == IF IsRemote(call.source) THEN Asks[got] \ call.allow ELSE {}

Load ==
  /\ printed' = printed \cup {[from |-> got, path |-> "SKILL.md", asked |-> call.asked, remote |-> IsRemote(call.source)]}
  /\ offered' = offered \cup ReadArgv(call, got) /\ Answer("loaded")

(* gate_behaviors, then the instructions and the names of the other files. *)
Gate ==
  /\ got # Absent /\ call.files = {}
  /\ \/ Held = {} /\ Load /\ UNCHANGED agreed
     \/ Held # {} /\ Load /\ agreed' = agreed \cup {<<got, b>> : b \in Held}  \* approved at the terminal
     \/ Held # {} /\ Answer("declined") /\ UNCHANGED <<printed, offered, agreed>>
     \/ /\ Held # {} /\ Answer("approve first")
        /\ offered' = offered \cup {AllowArgv(call, got, Held)} /\ UNCHANGED <<printed, agreed>>
  /\ UNCHANGED <<head, local, moves, calls>>

-----------------------------------------------------------------------------
(* The user approves the behaviors that a printed command shows, or allows *)
(* one for whatever commit is loaded.                                      *)
Approves ==
  /\ call = Absent
  /\ \/ \E c \in offered : c.allow # {} /\ agreed' = agreed \cup {<<c.asked, b>> : b \in c.allow}
     \/ \E b \in Behaviors : agreed' = agreed \cup {<<0, b>>}
  /\ agreed' # agreed
  /\ UNCHANGED <<head, local, offered, call, got, seen, printed, said, moves, calls>>

Moves ==
  /\ moves < MaxMoves /\ moves' = moves + 1
  /\ \E c \in Commits : (head' = c /\ UNCHANGED local) \/ (local' = c /\ UNCHANGED head)
  /\ UNCHANGED <<offered, call, got, seen, agreed, printed, said, calls>>

Typed ==
  {NewCommand(s, {}, Absent, {}, 0) : s \in {Named("branch"), Named("local"), Named("bundled"), Named("many")}}
    \cup {NewCommand(Named("branch"), {p}, r, {}, IF r = Absent THEN 0 ELSE r) : p \in SkillPaths, r \in Commits \cup {Absent}}
    \cup {NewCommand(Pinned(c), {p}, 1, {}, 1) : c \in Commits, p \in SkillPaths}
    \cup {NewCommand(Named(s), {p}, r, {}, 0) : s \in {"local", "many"}, p \in SkillPaths, r \in {Absent, 1}}
    \cup {NewCommand(Named("branch"), {}, Absent, {b}, 0) : b \in Behaviors}

Next ==
  \/ \E c \in offered \cup Typed : Start(c)
  \/ Prepare \/ ListLocal \/ ReadLocal \/ PullFiles \/ Gate \/ Approves \/ Moves

Spec == Init /\ [][Next]_vars

-----------------------------------------------------------------------------
(* What an Agent is given was approved as it is: the instructions of a     *)
(* remote commit reach it only when the user approved each behavior of     *)
(* that very commit, or allowed it whatever the commit; and a file that a  *)
(* load named is of the commit of the instructions that named it, never    *)
(* a newer one, and never a file skilld does not print.                    *)
GivenAsApproved ==
  \A p \in printed :
    /\ (p.remote /\ p.path = "SKILL.md") => \A b \in Asks[p.from] : <<p.from, b>> \in agreed \/ <<0, b>> \in agreed
    /\ (p.remote /\ p.asked # 0) => p.from = p.asked
    /\ p.path # "SKILL.md" => Kinds[p.from][p.path] = "text"
=============================================================================
