------------------------------ MODULE Listings ------------------------------
(***************************************************************************)
(* list_skills (command/src/remote.rs): the Skills behind a Repository, a  *)
(* collection or a curator.  The registry is asked page by page for the    *)
(* Skills of an owner; a Repository without rows is read from its tree at  *)
(* GitHub; a listing asks for each Repository once.                        *)
(*                                                                         *)
(* Registry and GitHub are external: any request may fail.  Names compare  *)
(* without case: a name or a path stands for all its spellings, and a      *)
(* Skill keeps the one it was written in.  The order of a Repository's     *)
(* Skills, by name, is left out.                                           *)
(***************************************************************************)
EXTENDS Naturals, Sequences, FiniteSets, SequencesExt, Sorting

CONSTANTS
  Repositories,
  Rows,          \* the registry: a sequence of [repository, name, path, spelling, valid], path None if not known
  InTree,        \* Repository -> sequence of [name, path, spelling] of its SKILL.md files
  References,    \* bound: [kind, repository, collections]; a collection is a sequence of entries
  PageSize, MaxPages, MaxEntries, MaxDirectSkills,
  None

(* What a curator or a command names: [repository, name, reason, valid].   *)
Whole(r) == [repository |-> r, name |-> None, reason |-> None, valid |-> TRUE]
Entries ==
  (UNION {UNION {ToSet(collection) : collection \in ToSet(ref.collections)} : ref \in References})
  \cup {Whole(r) : r \in Repositories}

ListingAssumption ==
  /\ \A ref \in References :
       /\ ref.collections \in Seq(Seq(Entries))
       /\ ref.kind = "repository" => ref.repository \in Repositories /\ ref.collections = <<>>
  /\ \A entry \in Entries : entry.repository \in Repositories
  /\ Rows \in Seq(ToSet(Rows))
  /\ \A r \in Repositories :
       /\ InTree[r] \in Seq(ToSet(InTree[r])) /\ \A i \in DOMAIN InTree[r] : InTree[r][i].path # None
       /\ \A i, j \in DOMAIN InTree[r] :
            (InTree[r][i].path = InTree[r][j].path /\ InTree[r][i].spelling = InTree[r][j].spelling) => i = j
  /\ {PageSize, MaxPages, MaxEntries, MaxDirectSkills} \subseteq Nat /\ PageSize # 0

VARIABLES
  reference, pc,
  slugs,       \* collections still to read
  entries,     \* entries still to expand: [repository, name, reason], name None for all Skills
  page, pages, rows,  \* the registry pages of the owner
  memo,        \* Repository -> <<its Skills>>, or <<>> before it was looked up
  items,       \* the listing
  fetched,     \* history: Repository -> times it was looked up
  lost         \* history: Repositories whose lookup failed quietly

vars == <<reference, pc, slugs, entries, page, pages, rows, memo, items, fetched, lost>>

Min2(a, b) == IF a < b THEN a ELSE b
Firsts(s, n) == SubSeq(s, 1, Min2(Len(s), n))

Strict == reference.kind = "repository"

Init ==
  /\ reference \in References /\ pc = "read"
  /\ slugs = Firsts(reference.collections, MaxEntries)
  /\ entries = IF Strict THEN <<Whole(reference.repository)>> ELSE <<>>
  /\ page = 1 /\ pages = 1 /\ rows = <<>>
  /\ memo = [r \in Repositories |-> <<>>] /\ items = <<>>
  /\ fetched = [r \in Repositories |-> 0] /\ lost = {}

Fail ==
  /\ pc' = "failed"
  /\ UNCHANGED <<reference, slugs, entries, page, pages, rows, memo, items, fetched, lost>>

(* The entries of one collection after the other; one that fails fails the *)
(* listing (collection_entries, curator_slugs).                            *)
ReadCollection ==
  /\ pc = "read" /\ slugs # <<>>
  /\ \/ /\ slugs' = Tail(slugs)
        /\ entries' = entries \o Firsts(Head(slugs), MaxEntries)
        /\ UNCHANGED <<reference, pc, page, pages, rows, memo, items, fetched, lost>>
     \/ Fail

Expand == pc = "read" /\ slugs = <<>> /\ entries # <<>>
Entry == Head(entries)

LookUp ==
  /\ Expand /\ memo[Entry.repository] = <<>>
  /\ pc' = "registry" /\ page' = 1 /\ pages' = 1 /\ rows' = <<>>
  /\ fetched' = [fetched EXCEPT ![Entry.repository] = @ + 1]
  /\ UNCHANGED <<reference, slugs, entries, memo, items, lost>>

(* owner_skills: the first page tells how many there are; a page that is   *)
(* not full is the last one.                                               *)
RowsOf(p) == SubSeq(Rows, (p - 1) * PageSize + 1, Min2(p * PageSize, Len(Rows)))
PageCount == Min2((Len(Rows) + PageSize - 1) \div PageSize, MaxPages)

ReadRegistryPage ==
  /\ pc = "registry"
  /\ \/ /\ rows' = rows \o RowsOf(page)
        /\ pages' = IF page = 1 THEN PageCount ELSE pages
        /\ page' = page + 1
        /\ pc' = IF page >= pages' \/ (page > 1 /\ Len(RowsOf(page)) < PageSize) THEN "rows" ELSE "registry"
        /\ UNCHANGED <<reference, slugs, entries, memo, items, fetched, lost>>
     \/ Fail

(* skill_identity: the path where it is known, the name where it is not,   *)
(* whatever the case; selector keeps the case.                             *)
Identity(s) == <<s.repository, IF s.path # None THEN s.path ELSE s.name>>
Selector(s) == <<Identity(s), s.spelling>>
EachIdentity(s) == [k \in DOMAIN s |-> Identity(s[k])]
EachSelector(s) == [k \in DOMAIN s |-> Selector(s[k])]
Identities(s) == {Identity(s[k]) : k \in DOMAIN s}

(* Those of s whose key was not seen, each once. *)
NewOf(s, key, seen) ==
  Picked(s, {k \in DOMAIN s : key[k] \notin seen /\ \A j \in 1..(k - 1) : key[j] # key[k]})

(* listed_skill drops a row that no selector can name. *)
Listed(row) ==
  [repository |-> row.repository, name |-> row.name, path |-> row.path, spelling |-> row.spelling, reason |-> None]
ValidRows(s, r) == {k \in DOMAIN s : s[k].valid /\ s[k].repository = r}
InRepository(s, r) == LET valid == Picked(s, ValidRows(s, r)) IN [k \in DOMAIN valid |-> Listed(valid[k])]

Remember(skills) ==
  /\ memo' = [memo EXCEPT ![Entry.repository] = <<skills>>]
  /\ pc' = "read"
  /\ UNCHANGED <<reference, slugs, entries, page, pages, rows, items, fetched>>

UseRows ==
  /\ pc = "rows"
  /\ LET all == InRepository(rows, Entry.repository)
         found == NewOf(all, EachSelector(all), {}) IN
     IF found # <<>> THEN Remember(found) /\ UNCHANGED lost
     ELSE /\ pc' = "github"
          /\ UNCHANGED <<reference, slugs, entries, page, pages, rows, memo, items, fetched, lost>>

(* A Repository that is missing or private lists nothing; another failure  *)
(* fails a Repository that was asked for, and empties a collection entry.  *)
FromTree(r) ==
  [k \in DOMAIN InTree[r] |-> [repository |-> r, name |-> InTree[r][k].name, path |-> InTree[r][k].path,
                               spelling |-> InTree[r][k].spelling, reason |-> None]]

ReadGithub ==
  /\ pc = "github"
  /\ \/ /\ Len(FromTree(Entry.repository)) <= MaxDirectSkills
        /\ Remember(FromTree(Entry.repository)) /\ UNCHANGED lost
     \/ Remember(<<>>) /\ lost' = lost \cup {Entry.repository}
     \/ Strict /\ Fail

(* named_entry_skills: the Repository's row gives the path, the curator    *)
(* the reason; a Skill no row lists stays a hosted one, if a selector can  *)
(* name it, and is dropped if not.                                         *)
Named(entry, skills) ==
  LET matches == Picked(skills, {k \in DOMAIN skills : skills[k].name = entry.name /\ skills[k].path # None}) IN
  IF matches # <<>>
  THEN <<IF entry.reason # None THEN [Head(matches) EXCEPT !.reason = entry.reason] ELSE Head(matches)>>
  ELSE IF ~entry.valid THEN <<>>
  ELSE <<[repository |-> entry.repository, name |-> entry.name, path |-> None, spelling |-> None,
          reason |-> entry.reason]>>

Expanded(entry, skills) == IF entry.name = None THEN skills ELSE Named(entry, skills)

(* Only expand_entries compares by identity: the Skills of a Repository    *)
(* that was asked for are listed as they are.                              *)
Shown(skills) == IF Strict THEN skills ELSE NewOf(skills, EachIdentity(skills), Identities(items))

Add ==
  /\ Expand /\ memo[Entry.repository] # <<>>
  /\ items' = items \o Shown(Expanded(Entry, memo[Entry.repository][1]))
  /\ entries' = Tail(entries)
  /\ UNCHANGED <<reference, pc, slugs, page, pages, rows, memo, fetched, lost>>

Done ==
  /\ pc = "read" /\ slugs = <<>> /\ entries = <<>>
  /\ pc' = "listed"
  /\ UNCHANGED <<reference, slugs, entries, page, pages, rows, memo, items, fetched, lost>>

Next == ReadCollection \/ LookUp \/ ReadRegistryPage \/ UseRows \/ ReadGithub \/ Add \/ Done

-----------------------------------------------------------------------------
AllEntries ==
  IF Strict THEN {Whole(reference.repository)}
  ELSE UNION {ToSet(Firsts(c, MaxEntries)) : c \in ToSet(Firsts(reference.collections, MaxEntries))}

(* The Skills of a Repository, by the registry and by its tree.            *)
InRows(r) == {Listed(Rows[k]) : k \in ValidRows(Rows, r)}
OfTree(r) == ToSet(FromTree(r))
Stands(skill) == Identity(skill) \in Identities(items)

(* A Skill that several entries lead to is listed once, in whatever case   *)
(* they spell it; of one Repository that was asked for, each spelling once.*)
(* No entry is lost between the pages, the memo and the duplicates: a      *)
(* Skill that an entry names stands in the listing, unless no selector     *)
(* can name it, and so do all the Skills of a Repository, by the registry  *)
(* or, without rows there, by its tree, if its lookup did not fail.        *)
Same(s, t) == IF Strict THEN Selector(s) = Selector(t) ELSE Identity(s) = Identity(t)

EachSkillOnce ==
  /\ \A i, j \in DOMAIN items : Same(items[i], items[j]) => i = j
  /\ pc = "listed" =>
       \A e \in AllEntries :
         LET r == e.repository
         IN /\ (e.name # None /\ e.valid) =>
                 \/ <<r, e.name>> \in Identities(items)
                 \/ \E s \in InRows(r) \cup OfTree(r) : s.name = e.name /\ Stands(s)
            /\ (e.name = None /\ InRows(r) # {} /\ PageCount < MaxPages) => \A s \in InRows(r) : Stands(s)
            /\ (e.name = None /\ InRows(r) = {} /\ r \notin lost) => \A s \in OfTree(r) : Stands(s)

(* One listing looks a Repository up once, however many entries name it. *)
LookedUpOnce == \A r \in Repositories : fetched[r] <= 1
=============================================================================
