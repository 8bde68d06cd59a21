--------------------------- MODULE DirectDownload ---------------------------
(***************************************************************************)
(* --direct: the Skills of one command, read from GitHub one after another *)
(* (command/src/remote.rs, direct and below).  A Repository is read once   *)
(* for all of them: one commit, one tree, one tarball.  The tarball is a   *)
(* shortcut: whatever is doubtful about it is read blob by blob.           *)
(*                                                                         *)
(* GitHub is external.  A file's bytes are named by their Git SHA, a path  *)
(* is the sequence of its parts; what the tarball carries is anything.     *)
(***************************************************************************)
EXTENDS Naturals, Sequences, FiniteSets, SequencesExt, Sorting

CONSTANTS
  Commits,
  Trees,         \* commit -> sequence of [path, kind, sha]; kind: blob, exec, tree or link
  Requests,      \* bound: sequences of [ref, path] that one command installs, path None if not a path
  Archives(_),   \* bound: what the tarball of a commit comes as: [entries, ended, sound]
  MaxTarballTree, \* MAX_DIRECT_TARBALL_TREE_BYTES, in files
  MaxFiles,      \* files of a direct Skill
  MaxTreeEntries, \* entries of a tree
  MaxPushes,     \* bound: pushes to the branch
  Unread, Unavailable,  \* TarballCache, beside an archive
  OtherBytes,    \* bytes of the size that was asked for, but others
  None

Refs == {"branch"} \cup Commits
Skills == UNION {ToSet(r) : r \in Requests}
TreeEntries == UNION {ToSet(Trees[c]) : c \in Commits}
AnyArchive == UNION {Archives(c) : c \in Commits}
Snapshots == [commit : Commits, tarball : AnyArchive \cup {Unread, Unavailable}]

DirectAssumption ==
  /\ Requests \subseteq Seq(Skills) \ {<<>>}
  /\ \A skill \in Skills : skill.ref \in Refs
  /\ \A c \in Commits : Trees[c] \in Seq(TreeEntries)
  /\ \A e \in TreeEntries :
       e.kind \in {"blob", "exec", "tree", "link"} /\ e = [path |-> e.path, kind |-> e.kind, sha |-> e.sha]
  /\ Unread \notin AnyArchive \cup {Unavailable} /\ None \notin Snapshots

VARIABLES
  head, pushes,  \* GitHub: the commit of the branch
  todo, pc,
  memo,          \* direct_snapshots: ref -> [commit, tarball], or None
  plan,          \* the files of the Skill, of the tree
  files,         \* those that were read
  installed,     \* the Skills that were prepared or refused, and the tarball there was then
  reads          \* history: <<what, ref>> -> requests for it

vars == <<head, pushes, todo, pc, memo, plan, files, installed, reads>>

Init ==
  /\ head \in Commits /\ pushes = 0
  /\ todo \in Requests /\ pc = "snapshot"
  /\ memo = [r \in Refs |-> None]
  /\ plan = <<>> /\ files = <<>> /\ installed = <<>>
  /\ reads = [r \in Refs |-> [snapshot |-> 0, tarball |-> 0]]

Skill == Head(todo)
Snapshot == memo[Skill.ref]

Finish(result) ==
  /\ installed' = Append(installed, result)
  /\ todo' = Tail(todo)
  /\ pc' = IF Len(todo) = 1 THEN "done" ELSE "snapshot"
  /\ plan' = <<>> /\ files' = <<>>
  /\ UNCHANGED <<head, pushes>>

Refuse(code) ==
  Finish([ref |-> Skill.ref, path |-> Skill.path, code |-> code, commit |-> None, tarball |-> None,
          files |-> <<>>])

-----------------------------------------------------------------------------
(* direct_skill_path: one path in one public Repository. *)
NeedsPath ==
  /\ pc = "snapshot" /\ Skill.path = None
  /\ Refuse("DIRECT_SOURCE_REQUIRED") /\ UNCHANGED <<memo, reads>>

Known == Snapshot # None

Recall ==
  /\ pc = "snapshot" /\ Skill.path # None /\ Known
  /\ pc' = "plan" /\ UNCHANGED <<head, pushes, todo, memo, plan, files, installed, reads>>

(* direct_commit and the tree: a branch is what it names now; a commit is  *)
(* refused when GitHub answers another one.                                *)
Resolve ==
  /\ pc = "snapshot" /\ Skill.path # None /\ ~Known
  /\ reads' = [reads EXCEPT ![Skill.ref].snapshot = @ + 1]
  /\ \/ \E c \in IF Skill.ref = "branch" THEN {head} ELSE Commits :
          IF Skill.ref \in {"branch", c}
          THEN IF Len(Trees[c]) > MaxTreeEntries
               THEN Refuse("DIRECT_SOURCE_TOO_LARGE") /\ UNCHANGED memo
               ELSE /\ memo' = [memo EXCEPT ![Skill.ref] = [commit |-> c, tarball |-> Unread]]
                    /\ pc' = "plan" /\ UNCHANGED <<head, pushes, todo, plan, files, installed>>
          ELSE Refuse("SOURCE_MISMATCH") /\ UNCHANGED memo
     \/ \E code \in {"DIRECT_PRIVATE_UNSUPPORTED", "SERVICE_UNAVAILABLE", "INVALID_RESPONSE"} :
          Refuse(code) /\ UNCHANGED memo

(* The entries below the path of the Skill; a link or a submodule there is *)
(* refused, and so are a path that is a file and a Skill that is too large.*)
Below(path, entry) == Len(entry.path) > Len(path) /\ IsPrefix(path, entry.path)
Wanted ==
  LET tree == Trees[Snapshot.commit]
  IN Picked(tree, {i \in DOMAIN tree : Below(Skill.path, tree[i]) /\ tree[i].kind # "tree"})

Plan ==
  /\ pc = "plan" /\ UNCHANGED <<memo, reads>>
  /\ IF \E e \in ToSet(Trees[Snapshot.commit]) : e.path = Skill.path /\ e.kind # "tree"
     THEN Refuse("INVALID_RESPONSE")
     ELSE IF \E e \in ToSet(Wanted) : e.kind = "link" THEN Refuse("DIRECT_SOURCE_UNSUPPORTED")
     ELSE IF Len(Wanted) > MaxFiles THEN Refuse("DIRECT_SOURCE_TOO_LARGE")
     ELSE /\ plan' = Wanted /\ pc' = "tarball"
          /\ UNCHANGED <<head, pushes, todo, files, installed>>

-----------------------------------------------------------------------------
(* read_tar_files.  An entry "x" or "L" names the next entry; "g" and "K"  *)
(* are read past; a file takes the name that is held, or that of its       *)
(* header, without the top directory.  The last file of a path counts.     *)
NameHeld(entries, i) ==
  LET before == {j \in 1..(i - 1) : entries[j].kind \notin {"g", "K"}}
      last == entries[Max(before)]
  IN IF before # {} /\ last.kind \in {"x", "L"} THEN last.path ELSE None

StripTop(path) == IF Len(path) > 1 THEN Tail(path) ELSE None
NameOf(entries, i) ==
  StripTop(IF NameHeld(entries, i) # None THEN NameHeld(entries, i) ELSE entries[i].path)

CarriedAs(entries, path) ==
  LET at == {i \in DOMAIN entries : entries[i].kind = "0" /\ NameOf(entries, i) = path}
  IN IF at = {} THEN None ELSE entries[Max(at)].sha

(* How Git writes a tree: each file once, its name in its header or in an  *)
(* entry right before it, and nothing more but a first comment and         *)
(* directories.                                                            *)
AsGitWrites(archive, tree) ==
  LET entries == archive.entries
      name(i) == StripTop(IF i > 1 /\ entries[i - 1].kind \in {"x", "L"}
                          THEN entries[i - 1].path ELSE entries[i].path)
      FileAt(i, e) == entries[i].kind = "0" /\ name(i) = e.path
  IN /\ archive.sound /\ archive.ended
     /\ entries \in Seq(ToSet(entries))
     /\ \A i \in DOMAIN entries :
          /\ entries[i].kind \in {"g", "x", "L", "5", "0"}
          /\ entries[i].kind = "g" => i = 1
          /\ entries[i].kind \in {"x", "L"} => entries[i].path # None
     /\ \A e \in ToSet(tree) : e.kind \in {"blob", "exec"} =>
          \E i \in DOMAIN entries :
            /\ FileAt(i, e) /\ entries[i].sha = e.sha
            /\ \A j \in DOMAIN entries : FileAt(j, e) => j = i

(* inflate_gzip fails for an archive that is not sound; one that stops     *)
(* without its end was cut short.                                          *)
Readable(archive) == archive.sound /\ archive.ended

HasFile(archive, entry) == CarriedAs(archive.entries, entry.path) = entry.sha
Serves(archive) == Readable(archive) /\ \A e \in ToSet(plan) : HasFile(archive, e)

InTarball(archive, entry) == [entry EXCEPT !.sha = CarriedAs(archive.entries, entry.path)]

Usable == plan # <<>> /\ Len(Trees[Snapshot.commit]) <= MaxTarballTree

(* The tarball is asked for once; after a failure every later Skill reads  *)
(* its blobs.                                                              *)
FetchTarball ==
  /\ pc = "tarball" /\ Usable /\ Snapshot.tarball = Unread
  /\ reads' = [reads EXCEPT ![Skill.ref].tarball = @ + 1]
  /\ \E archive \in Archives(Snapshot.commit) \cup {Unavailable} :
       memo' = [memo EXCEPT ![Skill.ref].tarball = archive]
  /\ UNCHANGED <<head, pushes, todo, pc, plan, files, installed>>

(* A Skill needs a SKILL.md, each path once (prepare_unverified_files). *)
Prepare(all) ==
  LET paths == {f.path : f \in ToSet(all)} IN
  IF Append(Skill.path, "SKILL.md") \notin paths \/ Cardinality(paths) < Len(all)
  THEN Refuse("INVALID_ARCHIVE")
  ELSE Finish([ref |-> Skill.ref, path |-> Skill.path, code |-> "ok", commit |-> Snapshot.commit,
               tarball |-> Snapshot.tarball, files |-> all])

ReadTarball ==
  /\ pc = "tarball" /\ Usable /\ Snapshot.tarball # Unread /\ Snapshot.tarball # Unavailable
  /\ Serves(Snapshot.tarball)
  /\ Prepare([k \in DOMAIN plan |-> InTarball(Snapshot.tarball, plan[k])])
  /\ UNCHANGED <<memo, reads>>

FallBack ==
  /\ pc = "tarball"
  /\ ~Usable \/ Snapshot.tarball = Unavailable
     \/ (Snapshot.tarball # Unread /\ Snapshot.tarball # Unavailable /\ ~Serves(Snapshot.tarball))
  /\ pc' = "blobs"
  /\ UNCHANGED <<head, pushes, todo, memo, plan, files, installed, reads>>

(* One request for each file, named by its SHA.  Of the answer only the    *)
(* encoding and the size are checked, so that other bytes of this size     *)
(* pass too.                                                               *)
WithBytes(entry, bytes) == [entry EXCEPT !.sha = bytes]

ReadBlob ==
  /\ pc = "blobs" /\ Len(files) < Len(plan) /\ UNCHANGED <<memo, reads>>
  /\ \/ /\ LET entry == plan[Len(files) + 1]
           IN \E bytes \in {entry.sha, OtherBytes} : files' = Append(files, WithBytes(entry, bytes))
        /\ UNCHANGED <<head, pushes, todo, pc, plan, installed>>
     \/ \E code \in {"SERVICE_UNAVAILABLE", "INVALID_RESPONSE"} : Refuse(code)

PrepareBlobs ==
  /\ pc = "blobs" /\ Len(files) = Len(plan)
  /\ Prepare(files) /\ UNCHANGED <<memo, reads>>

Push ==
  /\ pushes < MaxPushes /\ pc # "done" /\ pushes' = pushes + 1 /\ head' \in Commits \ {head}
  /\ UNCHANGED <<todo, pc, memo, plan, files, installed, reads>>

Client ==
  NeedsPath \/ Recall \/ Resolve \/ Plan \/ FetchTarball \/ ReadTarball \/ FallBack \/ ReadBlob \/ PrepareBlobs

Next == Client \/ Push

-----------------------------------------------------------------------------
Held(c, path) == {e \in ToSet(Trees[c]) : Below(path, e) /\ e.kind # "tree"}

(* The tarball that came could serve the Skill. *)
CouldServe(archive, c, path) ==
  /\ archive \notin {Unread, Unavailable} /\ Len(Trees[c]) <= MaxTarballTree
  /\ Readable(archive) /\ \A e \in Held(c, path) : HasFile(archive, e)

(* What is installed are the files that the tree of its commit holds below *)
(* its path, modes included and no other.  Their bytes are those of the    *)
(* tree whenever the tarball that came could serve them, and a tarball     *)
(* that lies changes none; of files read one by one GitHub is believed.    *)
OfTheTree(got) ==
  LET held == Held(got.commit, got.path)
  IN /\ \A e \in held : \E f \in ToSet(got.files) : f \in {e, WithBytes(e, OtherBytes)}
     /\ \A f \in ToSet(got.files) :
          f.kind \in {"blob", "exec"} /\ \E e \in held : f \in {e, WithBytes(e, OtherBytes)}
     /\ CouldServe(got.tarball, got.commit, got.path) => ToSet(got.files) = held

FilesAreTheTree == \A i \in DOMAIN installed : installed[i].code = "ok" => OfTheTree(installed[i])

(* The Skills of one command that name one branch come from one commit,    *)
(* though it moves meanwhile, and read one tarball.                        *)
OneCommitForAll ==
  /\ \A i, j \in DOMAIN installed :
       (installed[i].code = "ok" /\ installed[j].code = "ok" /\ installed[i].ref = installed[j].ref) =>
         installed[i].commit = installed[j].commit
  /\ \A r \in Refs : reads[r].tarball <= 1
=============================================================================
