------------------------------- MODULE MCRemote ------------------------------
(***************************************************************************)
(* What the CLI asks of the service and of GitHub on small instances: two  *)
(* commits, two Skills of a Repository, answers that are good or mixed or  *)
(* damaged in one place, three comparisons, and two pages of a registry.   *)
(***************************************************************************)
EXTENDS Remote, SequencesExt

CONSTANTS c1, c2, w1, w2

-----------------------------------------------------------------------------
(* Direct access: two Skills of one Repository, which changes; tarballs as *)
(* Git writes them (names in the header or before it), and bad ones.       *)
At(skill, name, kind, sha) == [path |-> <<skill, name>>, kind |-> kind, sha |-> sha]
SmallTrees ==
  c1 :> <<At("a", "SKILL.md", "blob", 1), At("a", "run", "exec", 2), At("b", "SKILL.md", "blob", 3)>>
  @@ c2 :> <<At("a", "SKILL.md", "blob", 4), At("b", "SKILL.md", "blob", 3), At("b", "l", "link", 5)>>

Header(e) == [kind |-> "0", path |-> <<"top">> \o e.path, sha |-> e.sha]
Cut(e) == [kind |-> "0", path |-> <<"top", "cut">>, sha |-> e.sha]
Name(kind, e) == [kind |-> kind, path |-> <<"top">> \o e.path, sha |-> 0]
NoName == [kind |-> "x", path |-> None, sha |-> 0]
Short(tree) == [k \in DOMAIN tree |-> Header(tree[k])]
Long(kind, tree) == FlattenSeq([k \in DOMAIN tree |-> <<Name(kind, tree[k]), Cut(tree[k])>>])
Tar(s) == [entries |-> s, ended |-> TRUE, sound |-> TRUE]
Comment == [kind |-> "g", path |-> <<"pax_global_header">>, sha |-> 0]
SmallGitTarballs(c) ==
  {Tar(<<Comment>> \o Short(SmallTrees[c])), Tar(Long("x", SmallTrees[c])), Tar(Long("L", SmallTrees[c]))}
SmallTarballs(c) ==
  LET tree == SmallTrees[c] IN
  SmallGitTarballs(c) \cup
  {Tar(Short(Tail(tree))), Tar(Short(SmallTrees[c1])),
   Tar(Short([tree EXCEPT ![1].sha = 9])), Tar(Short(tree) \o <<[Header(tree[1]) EXCEPT !.sha = 9]>>),
   Tar(<<Name("L", tree[1]), NoName>> \o Short(tree)), Tar(<<Name("x", tree[2])>> \o Short(tree)),
   [Tar(Short(tree)) EXCEPT !.ended = FALSE], [Tar(Short(tree)) EXCEPT !.sound = FALSE]}
For(ref, path) == [ref |-> ref, path |-> path]
SmallRequests ==
  {<<For("branch", <<"a">>), For("branch", <<"b">>)>>, <<For(c1, <<"a">>), For("branch", <<"a">>)>>,
   <<For("branch", None), For("branch", <<"c">>)>>, <<For("branch", <<"a", "run">>)>>}

-----------------------------------------------------------------------------
(* Verification: a good answer, and answers mixed or damaged in one place. *)
Keys == {"root", "k1", "k2", "other"}
KeyOf(id, status, from, to, signer) ==
  LET s == [id |-> id, key |-> id, from |-> from, to |-> to, status |-> status, root |-> "root"]
  IN [id |-> id, key |-> id, from |-> from, to |-> to, status |-> status, statement |-> s,
      signature |-> [key |-> signer, domain |-> "trusted-key", over |-> s]]
K1 == KeyOf("k1", "overlapping", 1, 2, "root")
K2 == KeyOf("k2", "active", 2, 4, "root")
SmallRoots ==
  {[key |-> "root", keys |-> ks] :
     ks \in {<<K1, K2>>, <<K2>>, <<K1, K1>>, <<>>, <<KeyOf("k1", "retired", 1, 2, "root"), K2>>,
             <<KeyOf("k1", "revoked", 1, 2, "root")>>, <<KeyOf("k1", "active", 1, 2, "other")>>,
             <<[K1 EXCEPT !.to = 4]>>, <<[K1 EXCEPT !.signature.domain = "attestation"]>>}}
  \cup {[key |-> "other", keys |-> <<KeyOf("k1", "active", 1, 4, "other")>>]}

Block(kind, path, bytes) == [kind |-> kind, path |-> path, mode |-> 420, bytes |-> bytes]
Skill == Block("file", <<"SKILL.md">>, "s")
Extra == Block("file", <<"x">>, "x")
Zero == Block("zero", <<>>, None)
SmallTars ==
  {<<Skill, Extra, Zero, Zero>>, <<Extra, Block("directory", <<"d">>, None), Skill, Zero, Zero, Zero>>,
   <<Skill, Zero, Zero>>, <<Skill, Extra, Zero>>, <<Skill, Zero, Extra, Zero>>, <<Skill, Skill, Zero, Zero>>,
   <<Skill, Extra, Block("file", <<"X">>, "x"), Zero, Zero>>, <<Skill, Block("link", <<"x">>, "x"), Zero, Zero>>,
   <<Skill, [Extra EXCEPT !.mode = 493], Zero, Zero>>, <<Skill, [Extra EXCEPT !.bytes = "y"], Zero, Zero>>,
   <<Skill, Extra, Zero, Zero, Extra>>, <<Extra, Extra, Zero, Zero>>}

File(path, bytes) == [path |-> path, mode |-> 420, bytes |-> bytes, size |-> 1]
FieldsOf(tar, time, linkedFiles, outcome) ==
  [content |-> tar, created |-> time, linked |-> linkedFiles,
   files |-> <<File(<<"SKILL.md">>, "s"), File(<<"x">>, "x")>>,
   checks |-> <<[required |-> TRUE, outcome |-> outcome], [required |-> FALSE, outcome |-> "warn"]>>]
Signed(f) ==
  [fields |-> f, statement |-> f, wellFormed |-> TRUE,
   signature |-> [id |-> "k1", key |-> "k1", domain |-> "attestation", over |-> f]]
Good == FieldsOf([entries |-> <<Skill, Extra, Zero, Zero>>], 2, <<>>, "pass")
Links == {<<>>, <<File(<<"y">>, "y")>>, <<File(<<"X">>, "y")>>, <<File(<<"x", "z">>, "y")>>,
          <<File(<<"y">>, "y"), File(<<"z">>, "y")>>}
SmallAttestations ==
  {Signed(FieldsOf([entries |-> t], 2, <<>>, "pass")) : t \in SmallTars}
  \cup {Signed(FieldsOf(Good.content, time, <<>>, "pass")) : time \in 0..4}
  \cup {Signed(FieldsOf(Good.content, 2, links, "pass")) : links \in Links}
  \cup {Signed(FieldsOf(Good.content, 2, <<>>, "fail")), [Signed(Good) EXCEPT !.wellFormed = FALSE],
        [Signed(Good) EXCEPT !.signature.id = "k2"], [Signed(Good) EXCEPT !.signature.domain = "trusted-key"],
        [Signed(Good) EXCEPT !.signature.key = "other"],
        [Signed(Good) EXCEPT !.fields = FieldsOf([entries |-> <<Skill, Zero, Zero>>], 2, <<>>, "pass")],
        [Signed(Good) EXCEPT !.fields.linked = <<File(<<"y">>, "y")>>],
        [Signed(Good) EXCEPT !.fields.linked = <<File(<<"y">>, "y")>>, !.statement.linked = <<File(<<"y">>, "y")>>]}
SmallArchives == {[entries |-> t] : t \in SmallTars}
Lower(path) == IF path = <<"X">> THEN <<"x">> ELSE path
SmallServed == {[p \in {<<"y">>, <<"z">>} |-> "y"], [p \in {<<"y">>, <<"z">>} |-> "damaged"]}

-----------------------------------------------------------------------------
(* Comparisons: public ones of which only the last commits are shown, and  *)
(* hosted ones in two batches.                                             *)
Input(id, access, ahead, behind) ==
  [id |-> id, access |-> access, valid |-> id # "bad", ahead |-> ahead, behind |-> behind]
Hosted(id) == Input(id, "hosted", 0, 0)
SmallInputs ==
  {<<Hosted("a"), Input("b", "public", 6, 1), Hosted("c")>>, <<Hosted("a"), Hosted("b"), Hosted("c")>>,
   <<Input("a", "public", 5, 0), Input("b", "public", 0, 1)>>,
   <<Input("a", "public", 3, 0), Input("a", "public", 0, 0)>>, <<Hosted("bad")>>, <<>>}

-----------------------------------------------------------------------------
(* Listings: two Repositories of one owner in the registry, over four      *)
(* pages, and one that only GitHub knows, with a name in two places and a  *)
(* path in two spellings.                                                  *)
Row(repository, name, path) ==
  [repository |-> repository, name |-> name, path |-> path, spelling |-> "lower", valid |-> name # "bad"]
InCapitals(row) == [row EXCEPT !.spelling = "capitals"]
SmallRows ==
  <<Row("r", "vue", "skills/vue"), Row("s", "nuxt", None), Row("r", "bad", None),
    InCapitals(Row("r", "vue", "skills/vue")), Row("r", "pinia", None), Row("s", "nuxt", None), Row("r", "pinia", None)>>
Of(name) == [name |-> name, path |-> "skills/" \o name, spelling |-> "lower"]
SmallTreeSkills ==
  [r \in {"r", "s", "t"} |-> IF r = "t" THEN <<Of("zod"), InCapitals(Of("zod")), [Of("zod") EXCEPT !.path = "old/zod"]>> ELSE <<>>]
All(r) == [repository |-> r, name |-> None, reason |-> None, valid |-> TRUE]
One(r, name, reason) == [repository |-> r, name |-> name, reason |-> reason, valid |-> name # "bad"]
SmallReferences ==
  [kind : {"repository"}, repository : {"r", "t"}, collections : {<<>>}]
  \cup [kind : {"collection", "curator"}, repository : {None},
        collections : {<<<<One("r", "vue", "fast"), All("r"), One("r", "pinia", None)>>, <<All("t")>>>>,
                       <<<<All("t"), One("t", "zod", "typed"), One("s", "nuxt", "it")>>, <<One("s", "bad", "x")>>>>,
                       <<<<One("t", "gone", "old")>>, <<All("r")>>, <<All("t")>>>>,
                       <<<<All("r"), One("r", "pinia", "x"), All("s"), All("r")>>, <<>>>>}]

=============================================================================
