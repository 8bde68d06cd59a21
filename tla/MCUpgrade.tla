------------------------------ MODULE MCUpgrade -----------------------------
(***************************************************************************)
(* The upgrade, the configuration and the Harness's destination on small   *)
(* instances: two processes of each kind, three releases, and texts that   *)
(* differ in one part.                                                     *)
(***************************************************************************)
EXTENDS Upgrade, TLC

CONSTANTS c1, w1, w2, t1, t2, r1, r2

One == <<49>>
SmallCores == {<<One, One, One>>, <<One, One, <<50>>>>, <<One, One, <<49, 48>>>>, <<One, <<48, 49>>, One>>}
Words == {<<48, 49>>, <<48, 48, 50>>, <<49, 48, 48>>, <<50>>, <<65>>, <<97, 49>>}  \* 01, 002, 100, 2, A, a1
SmallPrereleases == {<<>>} \cup {<<w>> : w \in Words} \cup {<<One, One>>, <<One, <<97>>>>}

SmallSets ==
  {[key |-> "agent.targets", value |-> {"zed"}], [key |-> "agent.targets", value |-> {"?"}],
   [key |-> "install.mode", value |-> {"link"}], [key |-> "other", value |-> {}]}

Symmetry == Permutations({w1, w2}) \cup Permutations({t1, t2}) \cup Permutations({r1, r2})
=============================================================================
