------------------------- MODULE SourceCommandsProofs -------------------------
(***************************************************************************)
(* Proofs about the commands that write Skills from their sources:         *)
(* install, add and restore, and then update, update of chosen Skills,     *)
(* check and verify.  One command runs per behaviour, so each of the two   *)
(* sections has the invariant of one part of the program and says nothing  *)
(* of the other; CommandsProofs puts them together.                        *)
(***************************************************************************)
EXTENDS Commands, Sorting, SequenceTheorems, FiniteSetTheorems, TLAPS

-----------------------------------------------------------------------------
(* Finite sets, by induction on the number of their elements.  A family of *)
(* parts of a finite set has a member that is smallest.                    *)
LEMMA SmallestExists ==
  ASSUME NEW X, IsFiniteSet(X), NEW Bad \in SUBSET SUBSET X, Bad # {}
  PROVE  \E T \in Bad : \A x \in T : T \ {x} \notin Bad
<1>1. \A T \in SUBSET X : IsFiniteSet(T)  BY FS_Subset
<1>2. Bad \subseteq FiniteSubsetsOf(X)  BY <1>1 DEF FiniteSubsetsOf
<1>3. PICK T \in Bad : \A W \in Bad : <<W, T>> \notin StrictSubsetOrdering(X)
  BY <1>2, FS_StrictSubsetOrderingWellFounded, WFMin
<1>4. \A x \in T : T \ {x} \in Bad => <<T \ {x}, T>> \in StrictSubsetOrdering(X)
  BY DEF StrictSubsetOrdering
<1> QED  BY <1>3, <1>4

(* What the empty set has and one more element keeps, every finite set has.*)
LEMMA FiniteInduction ==
  ASSUME NEW X, IsFiniteSet(X), NEW Good, {} \in Good,
         \A T \in SUBSET X, x \in X : T \in Good => T \cup {x} \in Good
  PROVE  X \in Good
<1> SUFFICES ASSUME X \notin Good PROVE FALSE  OBVIOUS
<1> DEFINE Bad == {T \in SUBSET X : T \notin Good}
<1>1. Bad \in SUBSET SUBSET X /\ Bad # {}  OBVIOUS
<1>2. PICK T \in Bad : \A x \in T : T \ {x} \notin Bad
  <2> HIDE DEF Bad
  <2> QED  BY <1>1, SmallestExists
<1>3. PICK x \in T : TRUE  OBVIOUS
<1>4. (T \ {x}) \cup {x} = T /\ T \ {x} \in Good  BY <1>2, <1>3
<1> QED  BY <1>3, <1>4

LEMMA LargestExists ==
  ASSUME NEW X \in SUBSET Nat, IsFiniteSet(X), X # {}
  PROVE  \E n \in X : \A m \in X : m <= n
<1> DEFINE Good == {T \in SUBSET X : T = {} \/ \E n \in T : \A m \in T : m <= n}
<1>1. {} \in Good  OBVIOUS
<1>2. ASSUME NEW T \in SUBSET X, NEW x \in X, T \in Good PROVE T \cup {x} \in Good
  <2>1. CASE T = {}  BY <2>1
  <2>2. CASE T # {}
    <3>1. PICK n \in T : \A m \in T : m <= n  BY <1>2, <2>2
    <3>2. CASE x <= n  BY <3>1, <3>2
    <3>3. CASE n <= x  BY <3>1, <3>3
    <3> QED  BY <3>2, <3>3
  <2> QED  BY <2>1, <2>2
<1> HIDE DEF Good
<1>3. X \in Good  BY <1>1, <1>2, FiniteInduction
<1> QED  BY <1>3 DEF Good

Ordered(X, s) ==
  /\ s \in [1..Cardinality(X) -> X]
  /\ \A i, j \in DOMAIN s : i < j => s[i] < s[j]

(* A finite set of numbers can be sorted: all but the largest first.       *)
LEMMA OrderExists ==
  ASSUME NEW X \in SUBSET Nat, IsFiniteSet(X)
  PROVE  \E s : Ordered(X, s)
<1> SUFFICES ASSUME ~ \E s : Ordered(X, s) PROVE FALSE  OBVIOUS
<1> DEFINE Bad == {T \in SUBSET X : ~ \E s : Ordered(T, s)}
<1>1. PICK T \in Bad : \A x \in T : T \ {x} \notin Bad
  <2>1. Bad \in SUBSET SUBSET X /\ Bad # {}  OBVIOUS
  <2> HIDE DEF Bad
  <2> QED  BY <2>1, SmallestExists
<1>2. T \in SUBSET Nat /\ T \subseteq X /\ ~ \E s : Ordered(T, s)  OBVIOUS
<1>3. IsFiniteSet(T)  BY <1>2, FS_Subset
<1>4. T # {}
  <2>1. Ordered({}, [i \in {} |-> i])  BY FS_EmptySet DEF Ordered
  <2> QED  BY <1>2, <2>1
<1>5. PICK n \in T : \A m \in T : m <= n  BY <1>2, <1>3, <1>4, LargestExists
<1>6. PICK s : Ordered(T \ {n}, s)  BY <1>1, <1>2
<1>7. Cardinality(T) \in Nat /\ Cardinality(T) > 0 /\ Cardinality(T \ {n}) = Cardinality(T) - 1
  <2>1. Cardinality(T) \in Nat  BY <1>3, FS_CardinalityType
  <2>2. Cardinality(T) # 0  BY <1>3, <1>4, FS_EmptySet
  <2>3. Cardinality(T \ {n}) = Cardinality(T) - 1  BY <1>3, FS_RemoveElement
  <2> QED  BY <2>1, <2>2, <2>3
<1> DEFINE t == [i \in 1..Cardinality(T) |-> IF i = Cardinality(T) THEN n ELSE s[i]]
<1>8. \A i \in 1..Cardinality(T) : i # Cardinality(T) => i \in 1..(Cardinality(T) - 1)  BY <1>7
<1>9. t \in [1..Cardinality(T) -> T]  BY <1>6, <1>7, <1>8 DEF Ordered
<1>10. \A i, j \in DOMAIN t : i < j => t[i] < t[j]
  <2> SUFFICES ASSUME NEW i \in 1..Cardinality(T), NEW j \in 1..Cardinality(T), i < j
               PROVE  t[i] < t[j]
    OBVIOUS
  <2>1. i \in 1..(Cardinality(T) - 1) /\ t[i] = s[i]  BY <1>7
  <2>2. s[i] \in T /\ s[i] # n /\ s[i] \in Nat /\ n \in Nat  BY <2>1, <1>6, <1>7, <1>2 DEF Ordered
  <2>3. CASE j = Cardinality(T)
    <3>1. t[j] = n /\ s[i] <= n  BY <2>3, <2>2, <1>5
    <3> QED  BY <3>1, <2>1, <2>2
  <2>4. CASE j # Cardinality(T)
    <3>1. j \in 1..(Cardinality(T) - 1) /\ t[j] = s[j]  BY <2>4, <1>7
    <3> QED  BY <3>1, <2>1, <1>6, <1>7 DEF Ordered
  <2> QED  BY <2>3, <2>4
<1>11. Ordered(T, t)  BY <1>9, <1>10 DEF Ordered
<1> QED  BY <1>11, <1>2

(* InOrder does: as many elements as k are not greater than the k-th.      *)
LEMMA InOrderIsOrdered ==
  ASSUME NEW X \in SUBSET Nat, IsFiniteSet(X)
  PROVE  Ordered(X, InOrder(X))
<1>1. PICK s : Ordered(X, s)  BY OrderExists
<1> DEFINE n == Cardinality(X)
           upTo(x) == {m \in X : m <= x}
<1>2. n \in Nat  BY FS_CardinalityType
<1>3. s \in [1..n -> X] /\ \A i, j \in 1..n : i < j => s[i] < s[j]  BY <1>1 DEF Ordered
<1>4. \A i \in 1..n : s[i] \in Nat  BY <1>3
<1>5. \A i, j \in 1..n : s[i] <= s[j] => i <= j  BY <1>2, <1>3, <1>4
<1>6. \A i, j \in 1..n : s[i] = s[j] => i = j  BY <1>2, <1>4, <1>5
<1>7. \A x \in X : \E i \in 1..n : s[i] = x
  <2>1. s \in Injection(1..n, X)  BY <1>3, <1>6 DEF Injection, IsInjective
  <2>2. IsFiniteSet(1..n) /\ Cardinality(1..n) = n  BY <1>2, FS_Interval
  <2>3. s \in Surjection(1..n, X)  BY <2>1, <2>2, FS_Injection
  <2> QED  BY <2>3 DEF Surjection
<1>8. ASSUME NEW k \in 1..n PROVE Cardinality(upTo(s[k])) = k
  <2> DEFINE t == [i \in 1..k |-> s[i]]
  <2>1. \A i \in 1..k : i \in 1..n /\ s[i] <= s[k]  BY <1>2, <1>3, <1>4
  <2>2. t \in [1..k -> upTo(s[k])]  BY <1>3, <2>1
  <2>3. \A i, j \in 1..k : t[i] = t[j] => i = j  BY <1>6, <2>1
  <2>4. \A x \in upTo(s[k]) : \E i \in 1..k : t[i] = x
    <3> TAKE x \in upTo(s[k])
    <3>1. PICK i \in 1..n : s[i] = x  BY <1>7
    <3>2. i \in 1..k  BY <1>5, <3>1
    <3> QED  BY <3>1, <3>2
  <2> HIDE DEF t
  <2>5. t \in Bijection(1..k, upTo(s[k]))
    BY <2>2, <2>3, <2>4 DEF Bijection, Injection, IsInjective, Surjection
  <2>6. k \in Nat /\ IsFiniteSet(1..k) /\ Cardinality(1..k) = k  BY <1>2, FS_Interval
  <2> QED  BY <2>5, <2>6, FS_Bijection DEF ExistsBijection
<1>9. ASSUME NEW k \in 1..n PROVE InOrder(X)[k] = s[k]
  <2>1. InOrder(X)[k] \in X /\ Cardinality(upTo(InOrder(X)[k])) = k
    <3>1. \E x \in X : Cardinality(upTo(x)) = k  BY <1>3, <1>8
    <3> QED  BY <3>1 DEF InOrder
  <2>2. PICK j \in 1..n : s[j] = InOrder(X)[k]  BY <1>7, <2>1
  <2>3. j = k  BY <1>8, <2>1, <2>2
  <2> QED  BY <2>2, <2>3
<1>10. InOrder(X) = s  BY <1>3, <1>9 DEF InOrder
<1> QED  BY <1>1, <1>10

(* So InOrder lists every element of a finite set of numbers once.         *)
LEMMA InOrderLists ==
  ASSUME NEW X \in SUBSET Nat, IsFiniteSet(X)
  PROVE  /\ Cardinality(X) \in Nat
         /\ InOrder(X) \in Seq(X) /\ Len(InOrder(X)) = Cardinality(X)
         /\ \A x \in X : \E i \in 1..Cardinality(X) : InOrder(X)[i] = x
         /\ \A i \in 1..Cardinality(X) : InOrder(X)[i] \in X
         /\ \A i, j \in 1..Cardinality(X) : InOrder(X)[i] = InOrder(X)[j] => i = j
<1> DEFINE n == Cardinality(X)  s == InOrder(X)
<1>1. n \in Nat  BY FS_CardinalityType
<1>2. Ordered(X, s)  BY InOrderIsOrdered
<1>3. s \in [1..n -> X] /\ \A i, j \in 1..n : i < j => s[i] < s[j]  BY <1>2 DEF Ordered
<1>4. \A i, j \in 1..n : s[i] = s[j] => i = j
  <2> SUFFICES ASSUME NEW i \in 1..n, NEW j \in 1..n, s[i] = s[j], i # j PROVE FALSE  OBVIOUS
  <2>1. s[i] \in Nat  BY <1>3
  <2>2. i < j \/ j < i  BY <1>1
  <2> QED  BY <2>1, <2>2, <1>3
<1>5. s \in Injection(1..n, X)  BY <1>3, <1>4 DEF Injection, IsInjective
<1>6. IsFiniteSet(1..n) /\ Cardinality(1..n) = n  BY <1>1, FS_Interval
<1>7. s \in Surjection(1..n, X)  BY <1>5, <1>6, FS_Injection
<1>8. \A x \in X : \E i \in 1..n : s[i] = x  BY <1>7 DEF Surjection
<1>9. s \in Seq(X) /\ Len(s) = n
  <2> HIDE DEF n, s
  <2> QED  BY <1>1, <1>3
<1> QED  BY <1>1, <1>3, <1>4, <1>8, <1>9

-----------------------------------------------------------------------------
(* Install, add and restore.  One Skill after the other is at work; what   *)
(* the lockfile names has been recorded.                                   *)
Working == {"view", "fetch", "gate", "write", "read"}

InstallTypes ==
  /\ op \in Install!Operations /\ upstream \in [Skills -> Revisions]
  /\ lock \in [Skills -> Install!LockRecords \cup {None}]
  /\ recorded \in [Skills -> SUBSET Revisions]
  /\ \A s \in Skills : lock[s] # None => lock[s].commit \in recorded[s]
  /\ listing \in Seq(Skills) /\ at \in 1..Len(listing) + 1
  /\ \A i, j \in 1..Len(listing) : listing[i] = listing[j] => i = j
  /\ pc \in {"begin", "choose", "done"} \cup Working

(* Every Skill before the one at work is installed or has failed.          *)
Progress ==
  pc # "done" =>
    /\ pc \in Working => at <= Len(listing)
    /\ pc \notin Working => at = 1
    /\ remaining = 0
    /\ failures \cup installed = {listing[k] : k \in 1..at - 1} /\ failures \cap installed = {}
    /\ IsFiniteSet(failures) /\ IsFiniteSet(installed)
    /\ Cardinality(failures) + Cardinality(installed) = at - 1
    /\ \A s \in installed : recorded[s] # {}

(* What is about to be written is what was asked for and approved.         *)
Prepared ==
  /\ pc = "view" => Install!Restores
  /\ pc = "choose" => ~Install!Restores
  /\ pc = "fetch" /\ Install!Restores =>
       /\ view \in Install!LockRecords /\ view.commit \in recorded[Install!Skill]
       /\ view.status = "unverified" => op.direct
  /\ pc = "gate" => ~Install!Restores
  /\ pc \in {"gate", "write"} =>
       /\ fetched \in Install!LockRecords /\ (fetched.status = "unverified" => op.direct)
       /\ Install!Restores =>
            /\ fetched.status = view.status
            /\ fetched.status # "local" => fetched.commit \in recorded[Install!Skill]
  /\ pc = "write" /\ ~Install!Restores /\ fetched.status # "local" =>
       InstallAsks[fetched.commit] \subseteq op.allow \cup approved

InstallInv == InstallTypes /\ Progress /\ Prepared /\ Install!ReportComplete

(* Install counts and sorts as this module does.                           *)
LEMMA InstallCounts == \A S : Install!Cardinality(S) = Cardinality(S)
BY DEF Install!Cardinality, Cardinality

LEMMA InstallSorts ==
  ASSUME NEW S
  PROVE  Install!InOrder(S) = InOrder(S) /\ Install!IsFiniteSet(S) = IsFiniteSet(S)
<1>1. Install!InOrder(S) = InOrder(S)
  BY Zenon DEF Install!InOrder, InOrder, Install!Cardinality, Cardinality
<1>2. Install!IsFiniteSet(S) = IsFiniteSet(S)  BY Zenon DEF Install!IsFiniteSet, IsFiniteSet
<1> QED  BY <1>1, <1>2

(* What is assumed of install, and that a sorted listing has each Skill    *)
(* once.                                                                   *)
LEMMA InstallFacts ==
  /\ 1 \in Skills /\ {1, 2} \subseteq Revisions /\ None \notin Install!LockRecords
  /\ InstallAsks \in [Revisions -> SUBSET AskRules]
  /\ \A S \in SUBSET Skills :
       /\ Install!InOrder(S) \in Seq(Skills) /\ {Install!InOrder(S)[i] : i \in 1..Len(Install!InOrder(S))} = S
       /\ \A i, j \in 1..Len(Install!InOrder(S)) : Install!InOrder(S)[i] = Install!InOrder(S)[j] => i = j
<1>1. 1 \in Skills /\ {1, 2} \subseteq Revisions /\ None \notin Install!LockRecords
      /\ InstallAsks \in [Revisions -> SUBSET AskRules]
  BY InstallAssumption DEF Install!InstallAssumption
<1>2. Skills \subseteq Nat /\ IsFiniteSet(Skills)
  BY InstallAssumption, InstallSorts DEF Install!InstallAssumption
<1>3. ASSUME NEW S \in SUBSET Skills
      PROVE  /\ Install!InOrder(S) \in Seq(Skills)
             /\ {Install!InOrder(S)[i] : i \in 1..Len(Install!InOrder(S))} = S
             /\ \A i, j \in 1..Len(Install!InOrder(S)) : Install!InOrder(S)[i] = Install!InOrder(S)[j] => i = j
  <2> DEFINE sorted == InOrder(S)
  <2>1. S \in SUBSET Nat /\ IsFiniteSet(S)  BY <1>2, FS_Subset
  <2>2. /\ sorted \in Seq(S) /\ Len(sorted) = Cardinality(S)
        /\ \A x \in S : \E i \in 1..Cardinality(S) : sorted[i] = x
        /\ \A i \in 1..Cardinality(S) : sorted[i] \in S
        /\ \A i, j \in 1..Cardinality(S) : sorted[i] = sorted[j] => i = j
    BY <2>1, InOrderLists
  <2>3. Install!InOrder(S) = sorted  BY InstallSorts
  <2> HIDE DEF sorted
  <2>4. sorted \in Seq(Skills)  BY <2>2
  <2>5. {sorted[i] : i \in 1..Len(sorted)} = S  BY <2>2
  <2>6. \A i, j \in 1..Len(sorted) : sorted[i] = sorted[j] => i = j  BY <2>2
  <2> QED  BY <2>3, <2>4, <2>5, <2>6
<1> QED  BY <1>1, <1>3

(* Nothing has been listed when the command begins.                        *)
LEMMA InstallInit == Install!Init => InstallInv
<1> SUFFICES ASSUME Install!Init PROVE InstallInv  OBVIOUS
<1>1. PICK first \in {None} \cup {Install!Record(1, Install!Unpinned, status, "link") : status \in {"verified", "unverified", "local"}} :
        lock \in [Skills -> {first, None, Install!Record(1, Install!Unpinned, "verified", "link")}]
  BY DEF Install!Init
<1>2. \A status \in {"verified", "unverified", "local"} :
        LET r == Install!Record(1, Install!Unpinned, status, "link") IN r \in Install!LockRecords /\ r.commit = 1
  BY InstallFacts DEF Install!Record, Install!Unpinned, Install!LockRecords
<1>3. /\ lock \in [Skills -> Install!LockRecords \cup {None}]
      /\ \A s \in Skills : lock[s] # None => lock[s].commit = 1
  BY <1>1, <1>2
<1>4. /\ op \in Install!Operations /\ upstream = [s \in Skills |-> 2] /\ listing = <<>> /\ at = 1
      /\ failures = {} /\ remaining = 0 /\ installed = {}
      /\ recorded = [s \in Skills |-> IF lock[s] = None THEN {} ELSE {1}]
      /\ pc = "begin"
  BY DEF Install!Init
<1>5. InstallTypes  BY <1>3, <1>4, InstallFacts DEF InstallTypes
<1>6. Progress  BY <1>4, FS_EmptySet DEF Progress, Working
<1>7. Prepared /\ Install!ReportComplete  BY <1>4 DEF Prepared, Install!ReportComplete
<1> QED  BY <1>5, <1>6, <1>7 DEF InstallInv

(* Of the Skills, the first ones are done: some have failed, the others    *)
(* are installed.                                                          *)
Accounted(skills, done, bad, good) ==
  /\ skills \in Seq(Skills) /\ \A i, j \in 1..Len(skills) : skills[i] = skills[j] => i = j
  /\ done \in 0..Len(skills)
  /\ bad \cup good = {skills[k] : k \in 1..done} /\ bad \cap good = {}
  /\ IsFiniteSet(bad) /\ IsFiniteSet(good) /\ Cardinality(bad) + Cardinality(good) = done

(* The report of a command that has come to its end, or been stopped by    *)
(* the limit of the service, counts the Skills that were installed.        *)
LEMMA ReportAdds ==
  ASSUME NEW skills, NEW done, NEW bad, NEW good, Accounted(skills, done, bad, good)
  PROVE  /\ Len(skills) - Cardinality(bad) - (Len(skills) - done) = Cardinality(good)
         /\ (bad = {} /\ Len(skills) - done = 0) <=> (good = {skills[k] : k \in 1..Len(skills)})
<1> USE DEF Accounted
<1>1. Cardinality(bad) \in Nat /\ Cardinality(good) \in Nat  BY FS_CardinalityType
<1>2. Len(skills) \in Nat  OBVIOUS
<1>3. CASE done = Len(skills)  BY <1>1, <1>2, <1>3
<1>4. CASE done < Len(skills)
  <2>1. \A k \in 1..done : skills[k] # skills[done + 1]  BY <1>2, <1>4
  <2>2. skills[done + 1] \notin good  BY <2>1
  <2> QED  BY <1>1, <1>2, <1>4, <2>2
<1> QED  BY <1>2, <1>3, <1>4

(* A command that fails as a whole reports nothing.                        *)
LEMMA InstallRefuses ==
  ASSUME InstallInv, NEW code, Install!Refuse(code),
         UNCHANGED <<lock, upstream, op, recorded, listing, at, failures, installed, remaining>>
  PROVE  InstallInv'
<1>1. pc' = "done" /\ outcome'.kind = "failed"  BY DEF Install!Refuse, Install!Done
<1>2. InstallTypes'
  BY <1>1 DEF InstallInv, InstallTypes
<1> QED
  BY <1>1, <1>2 DEF InstallInv, Progress, Prepared, Working, Install!ReportComplete

(* One Skill is done: installed or not.                                    *)
LEMMA InstallGoesOn ==
  ASSUME InstallInv, pc \in Working, UNCHANGED <<lock, upstream, op, recorded, listing>>,
         NEW bad, NEW good, Install!NextSkill(bad, good),
         \/ bad = failures \cup {Install!Skill} /\ good = installed
         \/ bad = failures /\ good = installed \cup {Install!Skill} /\ recorded[Install!Skill] # {}
  PROVE  InstallInv'
<1> DEFINE skl == Install!Skill
<1>0. /\ listing \in Seq(Skills) /\ at \in 1..Len(listing) /\ skl = listing[at] /\ Len(listing) \in Nat
      /\ \A i, j \in 1..Len(listing) : listing[i] = listing[j] => i = j
      /\ failures \cup installed = {listing[k] : k \in 1..at - 1} /\ failures \cap installed = {}
      /\ IsFiniteSet(failures) /\ IsFiniteSet(installed)
      /\ Cardinality(failures) + Cardinality(installed) = at - 1
      /\ \A s \in installed : recorded[s] # {}
      /\ remaining = 0
  <2>1. pc \in Working
    BY DEF Working
  <2>2. InstallTypes /\ Progress  BY DEF InstallInv
  <2>3. /\ listing \in Seq(Skills) /\ at \in 1..Len(listing) + 1
        /\ \A i, j \in 1..Len(listing) : listing[i] = listing[j] => i = j
    BY <2>2 DEF InstallTypes
  <2>4. Len(listing) \in Nat  BY <2>3, LenProperties
  <2>5. pc # "done"  BY <2>1 DEF Working
  <2>6. at \in 1..Len(listing)  BY <2>1, <2>2, <2>3, <2>4, <2>5 DEF Progress
  <2>7. skl = listing[at]  BY DEF Install!Skill
  <2> QED  BY <2>2, <2>3, <2>4, <2>5, <2>6, <2>7 DEF Progress
<1>1. /\ failures' = bad /\ installed' = good /\ at' = at + 1 /\ UNCHANGED remaining
      /\ view' = None /\ fetched' = None /\ approved' = {}
      /\ IF at < Len(listing) THEN Install!Go(IF Install!Restores THEN "view" ELSE "fetch")
         ELSE Install!Done(Install!Finished(bad, 0, good))
  BY DEF Install!NextSkill
<1> HIDE DEF skl
<1>2. skl \notin failures \cup installed
  <2>1. \A k \in 1..at - 1 : listing[k] # listing[at]  BY <1>0
  <2> QED  BY <1>0, <2>1
<1>3. /\ bad \cup good = {listing[k] : k \in 1..at} /\ bad \cap good = {}
      /\ IsFiniteSet(bad) /\ IsFiniteSet(good)
      /\ Cardinality(bad) + Cardinality(good) = at
      /\ \A s \in good : recorded[s] # {}
  <2>1. {listing[k] : k \in 1..at} = {listing[k] : k \in 1..at - 1} \cup {skl}
    <3>1. 1..at = (1..at - 1) \cup {at}  BY <1>0
    <3> QED  BY <1>0, <3>1
  <2>2. Cardinality(failures) \in Nat /\ Cardinality(installed) \in Nat  BY <1>0, FS_CardinalityType
  <2>3. CASE bad = failures \cup {skl} /\ good = installed
    <3>1. IsFiniteSet(bad) /\ Cardinality(bad) = Cardinality(failures) + 1
      BY <1>0, <1>2, <2>3, FS_AddElement
    <3> QED  BY <1>0, <1>2, <2>1, <2>2, <2>3, <3>1
  <2>4. CASE bad = failures /\ good = installed \cup {skl} /\ recorded[skl] # {}
    <3>1. IsFiniteSet(good) /\ Cardinality(good) = Cardinality(installed) + 1
      BY <1>0, <1>2, <2>4, FS_AddElement
    <3>2. Cardinality(bad) + Cardinality(good) = at  BY <1>0, <2>2, <2>4, <3>1
    <3>3. bad \cup good = {listing[k] : k \in 1..at} /\ bad \cap good = {}  BY <1>0, <1>2, <2>1, <2>4
    <3>4. \A s \in good : recorded[s] # {}  BY <1>0, <2>4
    <3> QED  BY <1>0, <2>4, <3>1, <3>2, <3>3, <3>4
  <2> QED  BY <2>3, <2>4 DEF skl
<1>4. CASE at < Len(listing)
  <2>1. pc' = (IF Install!Restores THEN "view" ELSE "fetch")  BY <1>1, <1>4 DEF Install!Go
  <2>2. InstallTypes'  BY <1>0, <1>1, <1>4, <2>1 DEF InstallInv, InstallTypes, Working
  <2>3. Progress'
    <3>1. at' - 1 = at  BY <1>0, <1>1
    <3> QED  BY <1>0, <1>1, <1>3, <1>4, <2>1, <3>1 DEF Progress, Working
  <2>4. Prepared'  BY <2>1 DEF Prepared, Install!Restores
  <2>5. Install!ReportComplete'  BY <2>1 DEF Install!ReportComplete
  <2> QED  BY <2>2, <2>3, <2>4, <2>5 DEF InstallInv
<1>5. CASE at = Len(listing)
  <2>1. pc' = "done" /\ outcome' = Install!Finished(bad, 0, good)  BY <1>1, <1>5 DEF Install!Done
  <2>2. InstallTypes'  BY <1>0, <1>1, <1>5, <2>1 DEF InstallInv, InstallTypes
  <2>3. Progress' /\ Prepared'  BY <2>1 DEF Progress, Prepared
  <2>4. /\ Len(listing) - Cardinality(bad) - 0 = Cardinality(good)
        /\ bad = {} <=> good = {listing[k] : k \in 1..Len(listing)}
    <3>1. /\ Len(listing) - Cardinality(bad) - (Len(listing) - at) = Cardinality(good)
          /\ (bad = {} /\ Len(listing) - at = 0) <=> (good = {listing[k] : k \in 1..Len(listing)})
      <4>1. Accounted(listing, at, bad, good)  BY <1>0, <1>3 DEF Accounted
      <4> QED  BY <4>1, ReportAdds
    <3>2. Len(listing) - at = 0  BY <1>0, <1>5
    <3> QED  BY <3>1, <3>2
  <2>5. Install!ReportComplete'
    <3>1. Install!ToSet(listing) = {listing[k] : k \in 1..Len(listing)}  BY <1>0 DEF Install!ToSet
    <3>2. /\ outcome'.count = Len(listing) - Cardinality(bad) - 0 /\ outcome'.installed = good
          /\ outcome'.failures = bad /\ (outcome'.kind = "ok" <=> bad = {})
      BY <2>1, InstallCounts DEF Install!Finished
    <3> QED  BY <1>3, <2>1, <2>4, <3>1, <3>2, InstallCounts DEF Install!ReportComplete, Install!ToSet
  <2> QED  BY <2>2, <2>3, <2>5 DEF InstallInv
<1> QED  BY <1>0, <1>4, <1>5

(* One Skill fails: alone in add, and with the whole command otherwise.    *)
LEMMA InstallFails ==
  ASSUME InstallInv, pc \in Working, UNCHANGED <<lock, upstream, op, recorded, listing>>,
         NEW code, Install!SkillFails(code)
  PROVE  InstallInv'
<1>1. CASE ~Install!Adds
  <2>1. Install!Refuse(code) /\ UNCHANGED <<at, view, fetched, approved, failures, remaining, installed>>
    BY <1>1 DEF Install!SkillFails, Install!report
  <2> QED  BY <2>1, InstallRefuses
<1>2. CASE Install!Adds /\ code = "RATE_LIMITED"
  <2>1. /\ remaining' = Len(listing) - at + 1
        /\ Install!Done(Install!Finished(failures, Len(listing) - at + 1, installed))
        /\ UNCHANGED <<at, view, fetched, approved, failures, installed>>
    BY <1>2 DEF Install!SkillFails
  <2>2. /\ listing \in Seq(Skills) /\ at \in 1..Len(listing) /\ Len(listing) \in Nat
        /\ \A i, j \in 1..Len(listing) : listing[i] = listing[j] => i = j
        /\ failures \cup installed = {listing[k] : k \in 1..at - 1} /\ failures \cap installed = {}
        /\ IsFiniteSet(failures) /\ IsFiniteSet(installed)
        /\ Cardinality(failures) + Cardinality(installed) = at - 1
        /\ \A s \in installed : recorded[s] # {}
    BY DEF InstallInv, InstallTypes, Progress, Working
  <2>3. /\ Len(listing) - Cardinality(failures) - (Len(listing) - (at - 1)) = Cardinality(installed)
        /\ (failures = {} /\ Len(listing) - (at - 1) = 0) <=> (installed = {listing[k] : k \in 1..Len(listing)})
    <3>1. Accounted(listing, at - 1, failures, installed)  BY <2>2 DEF Accounted
    <3> QED  BY <3>1, ReportAdds
  <2>4. Len(listing) - (at - 1) = Len(listing) - at + 1 /\ Len(listing) - at + 1 # 0  BY <2>2
  <2>5. pc' = "done" /\ outcome' = Install!Finished(failures, Len(listing) - at + 1, installed)
    BY <2>1 DEF Install!Done
  <2>6. InstallTypes'  BY <2>1, <2>5 DEF InstallInv, InstallTypes
  <2>7. Progress' /\ Prepared'  BY <2>5 DEF Progress, Prepared
  <2>8. Install!ReportComplete'
    <3>1. Install!ToSet(listing) = {listing[k] : k \in 1..Len(listing)}  BY <2>2 DEF Install!ToSet
    <3>2. /\ outcome'.count = Len(listing) - Cardinality(failures) - (Len(listing) - at + 1)
          /\ outcome'.installed = installed /\ outcome'.failures = failures /\ outcome'.kind = "incomplete"
      BY <2>4, <2>5, InstallCounts DEF Install!Finished
    <3>3. installed # Install!ToSet(listing) /\ outcome'.count = Cardinality(installed)
      BY <2>3, <2>4, <3>1, <3>2
    <3> QED  BY <2>1, <2>2, <3>2, <3>3, InstallCounts DEF Install!ReportComplete, Install!ToSet
  <2> QED  BY <2>6, <2>7, <2>8 DEF InstallInv
<1>3. CASE Install!Adds /\ code # "RATE_LIMITED"
  <2>1. Install!NextSkill(failures \cup {Install!Skill}, installed)
    BY <1>3 DEF Install!SkillFails
  <2> QED  BY <2>1, InstallGoesOn
<1> QED  BY <1>1, <1>2, <1>3

(* What is listed to be installed: each Skill once.                        *)
LEMMA InstallLists ==
  ASSUME NEW chosen \in SUBSET Skills
  PROVE  LET sorted == Install!InOrder(chosen) IN
         /\ sorted \in Seq(Skills) /\ Len(sorted) \in Nat
         /\ \A i, j \in 1..Len(sorted) : sorted[i] = sorted[j] => i = j
         /\ chosen # {} => Len(sorted) >= 1
         /\ chosen = {} => sorted = <<>>
<1> DEFINE sorted == Install!InOrder(chosen)
<1>1. /\ sorted \in Seq(Skills) /\ {sorted[i] : i \in 1..Len(sorted)} = chosen
      /\ \A i, j \in 1..Len(sorted) : sorted[i] = sorted[j] => i = j
  BY InstallFacts
<1> HIDE DEF sorted
<1>2. Len(sorted) \in Nat  BY <1>1
<1>3. chosen # {} => Len(sorted) >= 1  BY <1>1, <1>2
<1>4. chosen = {} => Len(sorted) = 0  BY <1>1, <1>2
<1>5. chosen = {} => sorted = <<>>  BY <1>1, <1>4
<1> QED  BY <1>1, <1>2, <1>3, <1>5 DEF sorted

(* The command begins, and the user chooses the Skills.                    *)
LEMMA InstallChooses == InstallInv /\ (Install!Begin \/ Install!Choose) => InstallInv'
<1> SUFFICES ASSUME InstallInv, Install!Begin \/ Install!Choose PROVE InstallInv'  OBVIOUS
<1>1. /\ UNCHANGED <<lock, upstream, op, at, view, fetched, approved, failures, remaining, installed, recorded>>
      /\ pc \in {"begin", "choose"} /\ at = 1 /\ remaining = 0 /\ failures \cup installed = {}
      /\ failures = {} /\ installed = {}
  <2>1. /\ UNCHANGED <<lock, upstream, op, at, view, fetched, approved, failures, remaining, installed, recorded>>
        /\ pc \in {"begin", "choose"}
    BY DEF Install!Begin, Install!Choose, Install!env, Install!report
  <2>2. at = 1 /\ remaining = 0 /\ failures \cup installed = {listing[k] : k \in 1..at - 1}
    BY <2>1 DEF InstallInv, Progress, Working
  <2> QED  BY <2>1, <2>2
<1>2. ASSUME NEW chosen \in SUBSET Skills, listing' = Install!InOrder(chosen), chosen # {},
             NEW to \in {"view", "fetch", "choose"}, Install!Go(to), to = "view" <=> Install!Restores
      PROVE  InstallInv'
  <2>1. /\ listing' \in Seq(Skills) /\ Len(listing') \in Nat /\ Len(listing') >= 1
        /\ \A i, j \in 1..Len(listing') : listing'[i] = listing'[j] => i = j
    BY <1>2, InstallLists
  <2>2. pc' = to  BY <1>2 DEF Install!Go
  <2>3. InstallTypes'  BY <1>1, <1>2, <2>1, <2>2 DEF InstallInv, InstallTypes, Working
  <2>4. Progress'  BY <1>1, <1>2, <2>1, <2>2, FS_EmptySet DEF Progress, Working
  <2>5. Prepared'  BY <1>1, <1>2, <2>2 DEF Prepared, Install!Restores
  <2> QED  BY <1>2, <2>2, <2>3, <2>4, <2>5 DEF InstallInv, Install!ReportComplete
<1>3. CASE Install!Begin
  <2>1. CASE \E code : Install!Refuse(code) /\ UNCHANGED listing
    BY <1>1, <2>1, InstallRefuses
  <2>2. CASE Install!Restores /\ Install!Names # {} /\ listing' = Install!InOrder(Install!Names) /\ Install!Go("view")
    <3>1. Install!Names \in SUBSET Skills  BY DEF Install!Names
    <3> QED  BY <1>2, <2>2, <3>1
  <2>3. CASE Install!Adds /\ listing' = Install!InOrder(Skills) /\ Install!Go(IF op.all THEN "fetch" ELSE "choose")
    <3>1. Skills # {} /\ ~Install!Restores /\ Skills \in SUBSET Skills
      BY <2>3, InstallFacts DEF Install!Restores, Install!Adds
    <3>2. CASE op.all  BY <1>2, <2>3, <3>1, <3>2
    <3>3. CASE ~op.all  BY <1>2, <2>3, <3>1, <3>3
    <3> QED  BY <3>2, <3>3
  <2>4. CASE ~Install!Restores /\ ~Install!Adds /\ listing' = <<1>> /\ Install!Go("fetch")
    <3>1. pc' = "fetch"  BY <2>4 DEF Install!Go
    <3>2. listing' \in Seq(Skills) /\ Len(listing') = 1  BY <2>4, InstallFacts
    <3>3. InstallTypes'  BY <1>1, <3>1, <3>2 DEF InstallInv, InstallTypes, Working
    <3>4. Progress'  BY <1>1, <3>1, <3>2, FS_EmptySet DEF Progress, Working
    <3>5. Prepared'  BY <1>1, <2>4, <3>1 DEF Prepared, Install!Restores
    <3> QED  BY <3>1, <3>3, <3>4, <3>5 DEF InstallInv, Install!ReportComplete
  <2> QED  BY <1>3, <2>1, <2>2, <2>3, <2>4 DEF Install!Begin
<1>4. CASE Install!Choose
  <2>0. pc = "choose"  BY <1>4 DEF Install!Choose
  <2>1. CASE Install!Refuse("SKILL_SELECTION_REQUIRED") /\ UNCHANGED listing
    BY <1>1, <2>1, InstallRefuses
  <2>2. CASE \E chosen \in SUBSET Skills : chosen # {} /\ listing' = Install!InOrder(chosen) /\ Install!Go("fetch")
    <3>1. ~Install!Restores  BY <2>0 DEF InstallInv, Prepared
    <3> QED  BY <1>2, <2>2, <3>1
  <2>3. CASE \E end : listing' = Install!InOrder({}) /\ Install!Done(end)
    <3>1. pc' = "done" /\ listing' = <<>>  BY <2>3, InstallLists DEF Install!Done
    <3>2. InstallTypes'  BY <1>1, <3>1 DEF InstallInv, InstallTypes
    <3> QED  BY <3>1, <3>2 DEF InstallInv, Progress, Prepared, Install!ReportComplete
  <2> QED  BY <1>4, <2>1, <2>2, <2>3 DEF Install!Choose
<1> QED  BY <1>3, <1>4

(* A step that keeps the listing and the report is no end, and keeps what  *)
(* the lockfile named recorded.                                            *)
LEMMA InstallStays ==
  ASSUME InstallInv, UNCHANGED <<upstream, op, listing, at, failures, installed, remaining>>,
         lock' \in [Skills -> Install!LockRecords \cup {None}],
         recorded' \in [Skills -> SUBSET Revisions],
         \A s \in Skills : recorded[s] \subseteq recorded'[s] /\ (lock'[s] # None => lock'[s].commit \in recorded'[s]),
         pc # "done", pc' = pc \/ (pc \in Working /\ pc' \in Working), Prepared'
  PROVE  InstallInv'
<1>1. InstallTypes'  BY DEF InstallInv, InstallTypes
<1>2. installed \subseteq Skills
  <2>1. /\ listing \in Seq(Skills) /\ at \in 1..Len(listing) + 1 /\ Len(listing) \in Nat
        /\ installed \subseteq {listing[k] : k \in 1..at - 1}
    BY DEF InstallInv, InstallTypes, Progress
  <2>2. \A k \in 1..at - 1 : k \in 1..Len(listing)  BY <2>1
  <2>3. \A k \in 1..at - 1 : listing[k] \in Skills  BY <2>1, <2>2
  <2> QED  BY <2>1, <2>3
<1>3. \A s \in installed : recorded'[s] # {}
  BY <1>2 DEF InstallInv, Progress
<1>4. Progress'  BY <1>3 DEF InstallInv, Progress, Working
<1>5. pc' # "done"  BY DEF Working
<1> QED  BY <1>1, <1>4, <1>5 DEF InstallInv, Install!ReportComplete

(* The Skill at work is one, and its commit there is one.                  *)
LEMMA AtWork ==
  ASSUME InstallInv, pc \in Working
  PROVE  /\ Install!Skill \in Skills /\ upstream[Install!Skill] \in Revisions
         /\ lock[Install!Skill] \in Install!LockRecords \cup {None}
         /\ op.mode \in {"copy", "unset"} /\ op.direct \in BOOLEAN
<1>1. listing \in Seq(Skills) /\ at \in 1..Len(listing)
  BY DEF InstallInv, InstallTypes, Progress, Working
<1>2. Install!Skill \in Skills  BY <1>1 DEF Install!Skill
<1> QED  BY <1>2 DEF InstallInv, InstallTypes, Install!Operations, Install!RequestedModes

(* A lock record is read to be restored.                                   *)
LEMMA InstallViews == InstallInv /\ Install!View => InstallInv'
<1> SUFFICES ASSUME InstallInv, Install!View PROVE InstallInv'  OBVIOUS
<1>1. pc = "view" /\ UNCHANGED <<lock, upstream, op, listing, recorded>>
  BY DEF Install!View, Install!env, Install!request
<1>2. CASE \E code : Install!SkillFails(code)
  BY <1>1, <1>2, InstallFails DEF Working
<1>3. CASE ~(\E code : Install!SkillFails(code))
  <2>1. /\ lock[Install!Skill] # None /\ (lock[Install!Skill].status = "unverified" => op.direct)
        /\ view' = lock[Install!Skill] /\ Install!Go("fetch") /\ UNCHANGED <<at, failures, remaining, installed>>
    BY <1>3, Zenon DEF Install!View, Install!report
  <2>2. pc' = "fetch"  BY <2>1 DEF Install!Go
  <2>3. Install!Skill' = Install!Skill  BY <1>1, <2>1 DEF Install!Skill
  <2>4. Install!Skill \in Skills /\ lock[Install!Skill] \in Install!LockRecords
    BY <1>1, <2>1, AtWork DEF Working
  <2>5. lock[Install!Skill].commit \in recorded[Install!Skill]  BY <2>1, <2>4 DEF InstallInv, InstallTypes
  <2>6. Prepared'  BY <1>1, <2>1, <2>2, <2>3, <2>4, <2>5 DEF Prepared, Install!Restores
  <2> QED  BY <1>1, <2>1, <2>2, <2>6, InstallStays DEF InstallInv, InstallTypes, Working
<1> QED  BY <1>2, <1>3

(* The Skill is fetched: the locked commit, or what the source names now.  *)
LEMMA InstallFetches == InstallInv /\ Install!Fetch => InstallInv'
<1> SUFFICES ASSUME InstallInv, Install!Fetch PROVE InstallInv'  OBVIOUS
<1>1. pc = "fetch" /\ UNCHANGED <<lock, upstream, op, listing, recorded>>
  BY DEF Install!Fetch, Install!env, Install!request
<1>2. CASE \E code : Install!SkillFails(code)
  BY <1>1, <1>2, InstallFails DEF Working
<1>3. CASE ~(\E code : Install!SkillFails(code))
  <2>1. /\ fetched' = IF Install!Restores THEN Install!RestoredRecord(view) ELSE Install!NewRecord
        /\ Install!Go(IF Install!Restores \/ fetched'.status = "local" THEN "write" ELSE "gate")
        /\ UNCHANGED <<at, view, approved, failures, remaining, installed>>
    BY <1>3 DEF Install!Fetch, Install!report
  <2>2. pc' = IF Install!Restores \/ fetched'.status = "local" THEN "write" ELSE "gate"
    BY <2>1 DEF Install!Go
  <2>3. Install!Skill' = Install!Skill /\ Install!Restores' = Install!Restores
    BY <1>1, <2>1 DEF Install!Skill, Install!Restores
  <2>4. Install!Skill \in Skills /\ upstream[Install!Skill] \in Revisions /\ op.mode \in {"copy", "unset"}
    BY <1>1, AtWork DEF Working
  <2>5. CASE Install!Restores
    <3>1. /\ view \in Install!LockRecords /\ view.commit \in recorded[Install!Skill]
          /\ view.status = "unverified" => op.direct
      BY <1>1, <2>5 DEF InstallInv, Prepared
    <3> DEFINE kept == IF op.mode = "unset" THEN view.mode ELSE op.mode
    <3>2. kept \in {"copy", "link"}  BY <2>4, <3>1 DEF Install!LockRecords
    <3>3. fetched' = IF view.status = "local"
                     THEN [commit |-> upstream[Install!Skill], pin |-> 0, status |-> "local", mode |-> kept]
                     ELSE [commit |-> view.commit, pin |-> view.commit, status |-> view.status, mode |-> kept]
      BY <2>1, <2>5 DEF Install!RestoredRecord, Install!Record, Install!Unpinned
    <3> HIDE DEF kept
    <3>4. /\ fetched' \in Install!LockRecords /\ fetched'.status = view.status
          /\ fetched'.status # "local" => fetched'.commit = view.commit
      BY <2>4, <3>1, <3>2, <3>3 DEF Install!LockRecords, Install!Unpinned
    <3>5. pc' = "write"  BY <2>2, <2>5
    <3> QED
      <4>1. Prepared'  BY <1>1, <2>1, <2>3, <2>5, <3>1, <3>4, <3>5 DEF Prepared
      <4> QED  BY <1>1, <2>1, <3>5, <4>1, InstallStays DEF InstallInv, InstallTypes, Working
  <2>6. CASE ~Install!Restores
    <3>1. fetched' \in Install!LockRecords /\ (fetched'.status = "unverified" => op.direct)
      BY <2>1, <2>4, <2>6 DEF Install!NewRecord, Install!Record, Install!Unpinned, Install!LockRecords
    <3>2. pc' \in {"write", "gate"} /\ (pc' = "write" => fetched'.status = "local")  BY <2>2, <2>6
    <3>3. Prepared'  BY <1>1, <2>1, <2>3, <2>6, <3>1, <3>2 DEF Prepared
    <3> QED  BY <1>1, <2>1, <3>2, <3>3, InstallStays DEF InstallInv, InstallTypes, Working
  <2> QED  BY <2>5, <2>6
<1> QED  BY <1>2, <1>3

(* What the new files ask for is approved, or named by --allow.            *)
LEMMA InstallGates == InstallInv /\ Install!Gate => InstallInv'
<1> SUFFICES ASSUME InstallInv, Install!Gate PROVE InstallInv'  OBVIOUS
<1>1. pc = "gate" /\ UNCHANGED <<lock, upstream, op, listing, recorded>>
  BY DEF Install!Gate, Install!env, Install!request
<1>2. CASE \E code : Install!SkillFails(code)
  BY <1>1, <1>2, InstallFails DEF Working
<1>3. CASE ~(\E code : Install!SkillFails(code))
  <2>1. /\ approved' = InstallAsks[fetched.commit] \ op.allow /\ Install!Go("write")
        /\ UNCHANGED <<at, view, fetched, failures, remaining, installed>>
    BY <1>3 DEF Install!Gate, Install!report, Install!Held
  <2>2. pc' = "write"  BY <2>1 DEF Install!Go
  <2>3. Install!Skill' = Install!Skill /\ Install!Restores' = Install!Restores
    BY <1>1, <2>1 DEF Install!Skill, Install!Restores
  <2>4. Prepared'  BY <1>1, <2>1, <2>2, <2>3 DEF InstallInv, Prepared
  <2> QED  BY <1>1, <2>1, <2>2, <2>4, InstallStays DEF InstallInv, InstallTypes, Working
<1> QED  BY <1>2, <1>3

(* The Skill is written, and what is written is recorded.                  *)
LEMMA InstallWrites == InstallInv /\ Install!Write => InstallInv'
<1> SUFFICES ASSUME InstallInv, Install!Write PROVE InstallInv'  OBVIOUS
<1>1. pc = "write" /\ UNCHANGED <<upstream, op, listing>>
  BY DEF Install!Write, Install!env, Install!request
<1>2. CASE Install!SkillFails("STORE_FAILED") /\ UNCHANGED <<lock, recorded>>
  BY <1>1, <1>2, InstallFails DEF Working
<1>3. CASE ~(Install!SkillFails("STORE_FAILED") /\ UNCHANGED <<lock, recorded>>)
  <2>1. /\ lock' = [lock EXCEPT ![Install!Skill] = fetched]
        /\ recorded' = [recorded EXCEPT ![Install!Skill] = recorded[Install!Skill] \cup {fetched.commit}]
        /\ Install!Go("read") /\ UNCHANGED <<at, view, fetched, approved, failures, remaining, installed>>
    BY <1>3 DEF Install!Write, Install!report
  <2>2. pc' = "read"  BY <2>1 DEF Install!Go
  <2>3. Install!Skill \in Skills  BY <1>1, AtWork DEF Working
  <2>4. fetched \in Install!LockRecords  BY <1>1 DEF InstallInv, Prepared
  <2>5. fetched.commit \in Revisions  BY <2>4 DEF Install!LockRecords
  <2>6. /\ lock' \in [Skills -> Install!LockRecords \cup {None}]
        /\ recorded' \in [Skills -> SUBSET Revisions]
        /\ \A s \in Skills : recorded[s] \subseteq recorded'[s] /\ (lock'[s] # None => lock'[s].commit \in recorded'[s])
    BY <2>1, <2>3, <2>4, <2>5 DEF InstallInv, InstallTypes
  <2>7. Prepared'  BY <2>2 DEF Prepared
  <2> QED  BY <1>1, <2>1, <2>2, <2>6, <2>7, InstallStays DEF Working
<1> QED  BY <1>2, <1>3

(* The Skill is read back for the report.                                  *)
LEMMA InstallReads == InstallInv /\ Install!ReadBack => InstallInv'
<1> SUFFICES ASSUME InstallInv, Install!ReadBack PROVE InstallInv'  OBVIOUS
<1>1. pc = "read" /\ UNCHANGED <<lock, upstream, op, listing, recorded>>
  BY DEF Install!ReadBack, Install!env, Install!request
<1>2. CASE Install!SkillFails("SKILL_NOT_INSTALLED")
  BY <1>1, <1>2, InstallFails DEF Working
<1>3. CASE lock[Install!Skill] # None /\ Install!NextSkill(failures, installed \cup {Install!Skill})
  <2>1. recorded[Install!Skill] # {}
    BY <1>1, <1>3, AtWork DEF InstallInv, InstallTypes, Working
  <2> QED  BY <1>1, <1>3, <2>1, InstallGoesOn DEF Working
<1>4. CASE Install!Refuse("INVALID_LOCKFILE") /\ UNCHANGED <<at, view, fetched, approved, failures, remaining, installed>>
  BY <1>1, <1>4, InstallRefuses
<1> QED  BY <1>2, <1>3, <1>4 DEF Install!ReadBack, Install!report

(* Other processes update and remove Skills.                               *)
LEMMA InstallOthers ==
  ASSUME InstallInv, NEW s \in Skills, Install!Others(s)
  PROVE  InstallInv'
<1>1. /\ UNCHANGED <<upstream, op, listing, at, view, fetched, approved, failures, remaining, installed, pc>> /\ pc # "done"
      /\ \/ lock[s] # None /\ lock' = [lock EXCEPT ![s].commit = 2]
         \/ lock' = [lock EXCEPT ![s] = None]
      /\ recorded' = [recorded EXCEPT ![s] = IF lock'[s] = None THEN recorded[s] ELSE recorded[s] \cup {lock'[s].commit}]
  BY DEF Install!Others, Install!report
<1>2. lock \in [Skills -> Install!LockRecords \cup {None}] /\ recorded \in [Skills -> SUBSET Revisions]
  BY DEF InstallInv, InstallTypes
<1>3. /\ lock' \in [Skills -> Install!LockRecords \cup {None}]
      /\ lock'[s] # None => lock'[s].commit \in Revisions
      /\ \A t \in Skills \ {s} : lock'[t] = lock[t]
  <2>1. CASE lock[s] # None /\ lock' = [lock EXCEPT ![s].commit = 2]
    <3>1. lock[s] \in Install!LockRecords  BY <1>2, <2>1
    <3>2. [lock[s] EXCEPT !.commit = 2] \in Install!LockRecords /\ [lock[s] EXCEPT !.commit = 2].commit = 2
      BY <3>1, InstallFacts DEF Install!LockRecords
    <3>3. lock' = [lock EXCEPT ![s] = [lock[s] EXCEPT !.commit = 2]]  BY <2>1
    <3> QED  BY <1>2, <3>2, <3>3, InstallFacts
  <2>2. CASE lock' = [lock EXCEPT ![s] = None]
    BY <1>2, <2>2
  <2> QED  BY <1>1, <2>1, <2>2
<1>4. /\ recorded' \in [Skills -> SUBSET Revisions]
      /\ \A t \in Skills : recorded[t] \subseteq recorded'[t] /\ (lock'[t] # None => lock'[t].commit \in recorded'[t])
  BY <1>1, <1>2, <1>3 DEF InstallInv, InstallTypes
<1>5. Prepared'
  <2>1. Install!Skill' = Install!Skill /\ Install!Restores' = Install!Restores
    BY <1>1 DEF Install!Skill, Install!Restores
  <2>2. pc \in Working => recorded[Install!Skill] \subseteq recorded'[Install!Skill]
    BY <1>4, AtWork
  <2> QED  BY <1>1, <2>1, <2>2 DEF InstallInv, Prepared, Working
<1> QED  BY <1>1, <1>3, <1>4, <1>5, InstallStays

(* Every step of the command and of the processes beside it.               *)
LEMMA InstallStep == InstallInv /\ (Install!Next \/ UNCHANGED Install!vars) => InstallInv'
<1>1. InstallInv /\ Install!Next => InstallInv'
  BY InstallChooses, InstallViews, InstallFetches, InstallGates, InstallWrites, InstallReads, InstallOthers
  DEF Install!Next
<1>2. InstallInv /\ UNCHANGED Install!vars => InstallInv'
  <2> SUFFICES ASSUME InstallInv, UNCHANGED Install!vars PROVE InstallInv'  OBVIOUS
  <2>1. UNCHANGED <<lock, upstream, op, listing, at, view, fetched, approved, failures, remaining, installed, recorded, pc, outcome>>
    BY DEF Install!vars, Install!env, Install!report
  <2>2. Install!Skill' = Install!Skill /\ Install!Restores' = Install!Restores /\ Install!ReportComplete' = Install!ReportComplete
    BY <2>1 DEF Install!Skill, Install!Restores, Install!ReportComplete, Install!ToSet
  <2> QED  BY <2>1, <2>2 DEF InstallInv, InstallTypes, Progress, Prepared
<1> QED  BY <1>1, <1>2

(* What is written was approved.                                           *)
LEMMA InstallApproved ==
  ASSUME InstallInv, Install!Next \/ UNCHANGED Install!vars
  PROVE  Install!OnlyApproved
<1> SUFFICES ASSUME NEW s \in Skills, pc' # pc, lock'[s] # lock[s]
             PROVE  LET new == lock'[s] IN
                    /\ s = Install!Skill /\ new # None
                    /\ new.status = "unverified" => op.direct
                    /\ IF Install!Restores
                       THEN new.status = view.status /\ (new.status # "local" => new.commit \in recorded[s])
                       ELSE new.status # "local" => InstallAsks[new.commit] \subseteq op.allow \cup approved
  BY DEF Install!OnlyApproved
<1>1. Install!Write
  <2>1. ~UNCHANGED lock  OBVIOUS
  <2>2. ~UNCHANGED Install!vars  BY DEF Install!vars
  <2>3. \A t \in Skills : ~Install!Others(t)  BY DEF Install!Others
  <2>4. ~Install!Begin /\ ~Install!Choose /\ ~Install!View /\ ~Install!Fetch /\ ~Install!Gate /\ ~Install!ReadBack
    BY <2>1 DEF Install!Begin, Install!Choose, Install!View, Install!Fetch, Install!Gate, Install!ReadBack
  <2> QED  BY <2>2, <2>3, <2>4 DEF Install!Next
<1>2. pc = "write" /\ lock' = [lock EXCEPT ![Install!Skill] = fetched]
  BY <1>1 DEF Install!Write
<1>3. s = Install!Skill /\ lock'[s] = fetched
  BY <1>2 DEF InstallInv, InstallTypes
<1>4. fetched \in Install!LockRecords /\ fetched # None
  BY <1>2, InstallFacts DEF InstallInv, Prepared
<1> QED  BY <1>2, <1>3, <1>4 DEF InstallInv, Prepared

(* The types that the runs check.                                          *)
LEMMA InstallTyped == InstallInv => Install!TypeOK
<1> SUFFICES ASSUME InstallInv PROVE Install!TypeOK  OBVIOUS
<1>1. \A s \in Skills : lock[s] # None =>
        lock[s].commit \in Revisions /\ lock[s].status \in {"verified", "unverified", "local"}
  BY DEF InstallInv, InstallTypes, Install!LockRecords
<1> QED  BY <1>1 DEF InstallInv, InstallTypes, Working, Install!TypeOK

-----------------------------------------------------------------------------
(* The commands that follow a Skill's source.  A Skill that was looked at  *)
(* is settled, or its comparison is asked; one whose comparison says it is *)
(* ahead of the lockfile is staged, and all that are staged are written at *)
(* once.                                                                   *)
Shown == UNION {UpdateAsks[c] : c \in Commits}

Views == [tid : Nat, record : Update!LockRecords]
Compared == [name : Skills, view : Views, latest : Commits]

Hows == {"true", "wrong", "miscounted", "rate_limited", "not_found"}
Comparisons == {Update!Answer(how, base, tip) : how \in Hows, base \in Commits, tip \in Commits}

UpdateTypes ==
  /\ lock \in [Skills -> Update!LockRecords \cup {None}] /\ tid \in Nat /\ disk \in [Skills -> SUBSET Shown]
  /\ edited \subseteq Skills /\ upstream \in [Skills -> Commits] /\ approved \in [Skills -> SUBSET Shown]
  /\ command \in {"update", "selected", "check", "verify"}
  /\ names \in Seq(Skills) /\ at \in 1..Len(names) + 1
  /\ \A i, j \in 1..Len(names) : names[i] = names[j] => i = j
  /\ pending \in Seq(Compared) /\ staged \in Seq(Compared) /\ answers \in Seq(Comparisons)
  /\ pc \in {"look", "judge", "gate", "apply", "done"}

(* The files that nobody edited are those of the commit in the lockfile.   *)
Pristine == \A s \in Skills : lock[s] # None /\ s \notin edited => disk[s] = UpdateAsks[lock[s].commit]

(* A view that a source is asked about: no later than the lockfile is.     *)
Asked(v) ==
  /\ v.tid <= tid
  /\ command # "verify" => Update!Followed(v.record)
  /\ command \in {"update", "selected"} => v.record.status = "verified"

(* The view that is held while its source is asked.                        *)
Held ==
  looking # None /\ pc = "look" =>
    at <= Len(names) /\ looking = names[at] /\ view \in Views /\ Asked(view)

(* What was asked of a Skill is asked once, and of a commit that is not    *)
(* the lockfile's.                                                         *)
Differs(p) == Asked(p.view) /\ p.latest # p.view.record.commit

AskedOnce ==
  /\ \A i, j \in 1..Len(pending) : pending[i].name = pending[j].name => i = j
  /\ \A i, j \in 1..Len(staged) : staged[i].name = staged[j].name => i = j
  /\ \A i \in 1..Len(pending), j \in 1..Len(staged) : pending[i].name # staged[j].name
  /\ \A i \in 1..Len(pending) : Differs(pending[i]) /\ \E k \in 1..at - 1 : pending[i].name = names[k]
  /\ \A i \in 1..Len(staged) : Differs(staged[i])
  /\ Len(staged) + Len(pending) <= at - 1
  /\ pc = "look" => staged = <<>>
  /\ command = "verify" => pending = <<>>

(* An answer is about what was asked, and what passed is ahead.            *)
AnswersFit ==
  pc \in {"judge", "gate", "apply"} =>
    /\ command \in {"update", "selected"} /\ Len(answers) = Len(pending)
    /\ \A i \in 1..Len(pending) : \E how \in Hows :
         answers[i] = Update!Answer(how, pending[i].view.record.commit, pending[i].latest)
    /\ pc # "apply" => pending # <<>>
    /\ pc = "gate" => Update!Refusal(answers[1]) = "none"

(* What is staged goes forward, and asks for nothing new without approval. *)
Permitted == IF command = "update" THEN Allowed ELSE {}

Forward(p) ==
  /\ History[p.view.record.commit] \subseteq History[p.latest]
  /\ p.view.tid = tid /\ p.name \notin edited =>
       /\ lock[p.name] # None
       /\ UpdateAsks[p.latest] \subseteq UpdateAsks[lock[p.name].commit] \cup approved[p.name] \cup Permitted

(* The plan of a check has an item for each Skill that was looked at and   *)
(* is not asked about.                                                     *)
PlanSoFar ==
  command = "check" =>
    /\ IsFiniteSet(items) /\ \A x \in items : Update!RelationIsTrue(x)
    /\ pc = "look" =>
         /\ Cardinality(items) + Len(pending) = at - 1
         /\ {x.name : x \in items} \cup {pending[i].name : i \in 1..Len(pending)} = {names[k] : k \in 1..at - 1}
         /\ \A x \in items, i \in 1..Len(pending) : x.name # pending[i].name

UpdateInv ==
  /\ UpdateTypes /\ Pristine /\ Held /\ AskedOnce /\ AnswersFit
  /\ \A i \in 1..Len(staged) : Forward(staged[i])
  /\ PlanSoFar /\ Update!PlanIsTrue

(* What is assumed of update.                                              *)
LEMMA UpdateFacts ==
  /\ {1, 2} \subseteq Commits /\ None \notin Update!LockRecords /\ None \notin Skills
  /\ Firsts \subseteq Update!LockRecords
  /\ History \in [Commits -> SUBSET Commits]
  /\ IsFiniteSet(Skills) /\ \A c \in Commits : IsFiniteSet(History[c])
<1>1. /\ {1, 2} \subseteq Commits /\ None \notin Update!LockRecords /\ None \notin Skills
      /\ Firsts \subseteq Update!LockRecords
      /\ History \in [Commits -> SUBSET Commits]
  BY UpdateAssumption DEF Update!UpdateAssumption
<1>2. IsFiniteSet(Skills) /\ IsFiniteSet(Commits)
  BY UpdateAssumption DEF Update!UpdateAssumption, Update!IsFiniteSet, IsFiniteSet
<1>3. \A c \in Commits : IsFiniteSet(History[c])
  BY <1>1, <1>2, FS_Subset
<1> QED  BY <1>1, <1>2, <1>3

(* What is sorted holds each Skill once.                                   *)
LEMMA UpdateLists ==
  ASSUME NEW chosen \in SUBSET Skills
  PROVE  /\ Update!InOrder(chosen) \in Seq(Skills)
         /\ \A i, j \in 1..Len(Update!InOrder(chosen)) :
              Update!InOrder(chosen)[i] = Update!InOrder(chosen)[j] => i = j
<1> DEFINE sorted == InOrder(chosen)
<1>1. chosen \in SUBSET Nat /\ IsFiniteSet(chosen)
  BY UpdateFacts, UpdateAssumption, FS_Subset DEF Update!UpdateAssumption
<1>2. /\ sorted \in Seq(chosen) /\ Len(sorted) = Cardinality(chosen)
      /\ \A i, j \in 1..Cardinality(chosen) : sorted[i] = sorted[j] => i = j
  BY <1>1, InOrderLists
<1>3. Update!InOrder(chosen) = sorted
  BY Zenon DEF Update!InOrder, InOrder, Update!Cardinality, Cardinality
<1> HIDE DEF sorted
<1>4. sorted \in Seq(Skills)  BY <1>2
<1> QED  BY <1>2, <1>3, <1>4

(* A list that holds each Skill once is no longer than there are Skills.   *)
LEMMA EachOnce ==
  ASSUME NEW list \in Seq(Skills), \A i, j \in 1..Len(list) : list[i] = list[j] => i = j
  PROVE  Len(list) <= Cardinality(Skills) /\ Cardinality(Skills) \in Nat
<1>1. list \in Injection(1..Len(list), Skills)  BY DEF Injection, IsInjective
<1>2. Cardinality(1..Len(list)) <= Cardinality(Skills)  BY <1>1, UpdateFacts, FS_Injection
<1>3. Cardinality(1..Len(list)) = Len(list)
  <2>1. Len(list) \in Nat  OBVIOUS
  <2>2. Cardinality(1..Len(list)) = IF 1 > Len(list) THEN 0 ELSE Len(list) - 1 + 1
    BY <2>1, FS_Interval
  <2> QED  BY <2>1, <2>2
<1>4. Cardinality(Skills) \in Nat  BY UpdateFacts, FS_CardinalityType
<1> QED  BY <1>2, <1>3, <1>4

(* The cardinality of the update module is the one of the theorems.        *)
LEMMA UpdateCounts == \A S : Update!Cardinality(S) = Cardinality(S)
BY DEF Update!Cardinality, Cardinality

(* How far two commits are from one another.                               *)
LEMMA Distances ==
  ASSUME NEW base \in Commits, NEW tip \in Commits
  PROVE  /\ Update!Ahead(base, tip) \in Nat /\ Update!Behind(base, tip) \in Nat
         /\ Update!Ahead(base, tip) = 0 <=> History[tip] \subseteq History[base]
         /\ Update!Behind(base, tip) = 0 <=> History[base] \subseteq History[tip]
<1>1. IsFiniteSet(History[tip] \ History[base]) /\ IsFiniteSet(History[base] \ History[tip])
  BY UpdateFacts, FS_Subset, FS_Difference
<1>2. /\ Update!Ahead(base, tip) = Cardinality(History[tip] \ History[base])
      /\ Update!Behind(base, tip) = Cardinality(History[base] \ History[tip])
  BY UpdateCounts DEF Update!Ahead, Update!Behind
<1>3. /\ Cardinality(History[tip] \ History[base]) \in Nat
      /\ Cardinality(History[base] \ History[tip]) \in Nat
      /\ Cardinality(History[tip] \ History[base]) = 0 <=> History[tip] \ History[base] = {}
      /\ Cardinality(History[base] \ History[tip]) = 0 <=> History[base] \ History[tip] = {}
  BY <1>1, FS_CardinalityType, FS_EmptySet
<1> QED  BY <1>2, <1>3

(* The relation that GitHub would name.                                    *)
LEMMA Relations ==
  ASSUME NEW ahead \in Nat, NEW behind \in Nat
  PROVE  /\ Update!Relation(ahead, behind) \in {"ahead", "behind", "diverged", "identical"}
         /\ Update!Relation(ahead, behind) = "ahead" <=> ahead > 0 /\ behind = 0
         /\ Update!Relation(ahead, behind) = "behind" <=> ahead = 0 /\ behind > 0
         /\ Update!Relation(ahead, behind) = "diverged" <=> ahead > 0 /\ behind > 0
BY DEF Update!Relation

(* What an answer says.                                                    *)
LEMMA AnswerSays ==
  ASSUME NEW how \in Hows, NEW base \in Commits, NEW tip \in Commits
  PROVE  LET a == Update!Answer(how, base, tip) IN
         /\ a.kind = "ready" <=> how \in {"true", "wrong", "miscounted"}
         /\ a.kind = "ready" =>
              /\ a.ahead = Update!Ahead(base, tip) /\ a.behind = Update!Behind(base, tip)
              /\ a.relation = "identical" \/ a.relation = Update!Relation(a.ahead, a.behind)
<1> DEFINE ready == [kind |-> "ready", relation |-> Update!Relation(Update!Ahead(base, tip), Update!Behind(base, tip)),
                     ahead |-> Update!Ahead(base, tip), behind |-> Update!Behind(base, tip),
                     total |-> Update!Ahead(base, tip), listed |-> Update!Ahead(base, tip)]
<1>1. Update!Ready(base, tip) = ready  BY DEF Update!Ready
<1>2. CASE how = "true"  BY <1>1, <1>2 DEF Update!Answer
<1>3. CASE how = "wrong"
  <2>1. Update!Answer(how, base, tip) = [ready EXCEPT !.relation = "identical"]  BY <1>1, <1>3 DEF Update!Answer
  <2> QED  BY <1>3, <2>1
<1>4. CASE how = "miscounted"
  <2>1. Update!Answer(how, base, tip) = [ready EXCEPT !.listed = @ + 1]  BY <1>1, <1>4 DEF Update!Answer
  <2> QED  BY <1>4, <2>1
<1>5. CASE how \in {"rate_limited", "not_found"}
  <2>1. Update!Answer(how, base, tip) = [kind |-> how]  BY <1>5 DEF Update!Answer
  <2> QED  BY <1>5, <2>1
<1> QED  BY <1>2, <1>3, <1>4, <1>5 DEF Hows

(* A command that goes on goes forward.                                    *)
LEMMA NotRefused ==
  ASSUME NEW how \in Hows, NEW base \in Commits, NEW tip \in Commits,
         Update!Refusal(Update!Answer(how, base, tip)) = "none"
  PROVE  History[base] \subseteq History[tip]
<1> DEFINE a == Update!Answer(how, base, tip)
<1>1. /\ a.kind = "ready" <=> how \in {"true", "wrong", "miscounted"}
      /\ a.kind = "ready" =>
           /\ a.ahead = Update!Ahead(base, tip) /\ a.behind = Update!Behind(base, tip)
           /\ a.relation = "identical" \/ a.relation = Update!Relation(a.ahead, a.behind)
  BY AnswerSays
<1>2. a.kind \notin {"ready"} => a.kind = how
  BY <1>1 DEF Update!Answer, Hows
<1> HIDE DEF a
<1>3. a.kind = "ready" /\ a.relation = "ahead"
  <2>1. Update!Refusal(a) = "none"  BY DEF a
  <2>2. CASE a.kind # "ready"
    <3>1. Update!Refusal(a) = a.kind  BY <2>2 DEF Update!Refusal
    <3>2. a.kind = how /\ how # "none"  BY <1>2, <2>2 DEF Hows
    <3> QED  BY <2>1, <3>1, <3>2
  <2>3. CASE a.kind = "ready" /\ a.relation # "ahead"
    <3>1. Update!Refusal(a) \in {"UPDATE_CONFIRMATION_REQUIRED", "INVALID_RESPONSE"}  BY <2>3 DEF Update!Refusal
    <3> QED  BY <2>1, <3>1
  <2> QED  BY <2>2, <2>3
<1>4. Update!Relation(Update!Ahead(base, tip), Update!Behind(base, tip)) = "ahead"  BY <1>1, <1>3
<1>5. Update!Behind(base, tip) = 0  BY <1>4, Distances, Relations
<1> QED  BY <1>5, Distances

(* What becomes an item of the plan is true, whatever the answer was.      *)
LEMMA ItemIsTrue ==
  ASSUME NEW p \in Compared, NEW how \in Hows
  PROVE  LET item == Update!PlanItem(p, Update!Answer(how, p.view.record.commit, p.latest)) IN
         item.name = p.name /\ Update!RelationIsTrue(item)
<1> DEFINE base == p.view.record.commit
           tip == p.latest
           a == Update!Answer(how, base, tip)
           item == Update!PlanItem(p, a)
           rel == IF a.kind = "ready" THEN Update!Classified(base, tip, a) ELSE "unavailable"
<1>1. base \in Commits /\ tip \in Commits  BY DEF Compared, Views, Update!LockRecords
<1>2. item = [name |-> p.name, relation |-> rel, locked |-> base, latest |-> tip]
  BY DEF Update!PlanItem, Update!Item
<1>3. a.kind = "ready" => a.ahead = Update!Ahead(base, tip) /\ a.behind = Update!Behind(base, tip)
  BY <1>1, AnswerSays
<1> HIDE DEF a, base, tip
<1> DEFINE says == Update!Relation(Update!Ahead(base, tip), Update!Behind(base, tip))
<1>4. a.kind = "ready" =>
        Update!Classified(base, tip, a) =
          IF ~((base = tip) = (says = "identical") /\ a.relation = says /\ a.listed <= a.total)
          THEN "unavailable"
          ELSE [ahead |-> "available", behind |-> "behind", diverged |-> "diverged", identical |-> "current"][says]
  BY <1>3 DEF Update!Classified
<1>5. /\ says \in {"ahead", "behind", "diverged", "identical"}
      /\ says = "ahead" => History[base] \subseteq History[tip]
      /\ says = "behind" => History[tip] \subseteq History[base]
      /\ says = "diverged" => ~(History[base] \subseteq History[tip]) /\ ~(History[tip] \subseteq History[base])
  BY <1>1, Distances, Relations
<1> HIDE DEF says
<1>6. /\ rel = "current" => base = tip
      /\ rel = "available" => base # tip /\ History[base] \subseteq History[tip]
      /\ rel = "behind" => base # tip /\ History[tip] \subseteq History[base]
      /\ rel = "diverged" => ~(History[base] \subseteq History[tip]) /\ ~(History[tip] \subseteq History[base])
  <2>1. CASE a.kind # "ready"  BY <2>1
  <2>2. CASE a.kind = "ready" /\ rel # "unavailable"
    <3>1. /\ (base = tip) = (says = "identical")
          /\ rel = [ahead |-> "available", behind |-> "behind", diverged |-> "diverged", identical |-> "current"][says]
      BY <1>4, <2>2
    <3> QED  BY <1>5, <3>1
  <2> QED  BY <2>1, <2>2
<1> HIDE DEF rel
<1>7. item.name = p.name /\ Update!RelationIsTrue(item)
  <2> HIDE DEF item
  <2>1. item.relation = rel /\ item.locked = base /\ item.latest = tip /\ item.name = p.name  BY <1>2
  <2> QED  BY <1>6, <2>1 DEF Update!RelationIsTrue
<1> QED  BY <1>7 DEF item, a, base, tip

(* Nothing has been looked at when the command begins.                     *)
LEMMA UpdateInit == Update!Init => UpdateInv
<1> SUFFICES ASSUME Update!Init PROVE UpdateInv  OBVIOUS
<1>1. PICK first \in Firsts, latest \in Commits :
        /\ lock = [s \in Skills |-> IF s = 1 THEN first ELSE Update!Remote(1, Update!Unknown, "verified", TRUE)]
        /\ upstream = [s \in Skills |-> IF s = 1 THEN latest ELSE 2]
  BY DEF Update!Init
<1>2. PICK chosen \in SUBSET Skills : names = Update!InOrder(chosen)  BY DEF Update!Init
<1>3. /\ disk = [s \in Skills |-> UpdateAsks[lock[s].commit]] /\ tid = 0 /\ edited = {} /\ at = 1
      /\ command \in {"update", "selected", "check", "verify"}
      /\ looking = None /\ pending = <<>> /\ answers = <<>> /\ staged = <<>>
      /\ approved = [s \in Skills |-> {}] /\ items = {} /\ pc = "look"
  BY DEF Update!Init
<1>4. lock \in [Skills -> Update!LockRecords] /\ upstream \in [Skills -> Commits]
  <2>1. Update!Remote(1, Update!Unknown, "verified", TRUE) \in Update!LockRecords
    BY UpdateFacts DEF Update!Remote, Update!LockRecords
  <2> QED  BY <1>1, <2>1, UpdateFacts
<1>5. disk \in [Skills -> SUBSET Shown]
  <2>1. \A s \in Skills : lock[s].commit \in Commits  BY <1>4 DEF Update!LockRecords
  <2> QED  BY <1>3, <2>1 DEF Shown
<1>6. UpdateTypes
  <2>1. names \in Seq(Skills) /\ \A i, j \in 1..Len(names) : names[i] = names[j] => i = j
    BY <1>2, UpdateLists
  <2>2. at \in 1..Len(names) + 1  BY <1>3, <2>1
  <2> QED  BY <1>3, <1>4, <1>5, <2>1, <2>2 DEF UpdateTypes
<1>7. Pristine /\ Held /\ AnswersFit /\ Update!PlanIsTrue
  BY <1>3 DEF Pristine, Held, AnswersFit, Update!PlanIsTrue
<1>8. AskedOnce  BY <1>3 DEF AskedOnce
<1>9. PlanSoFar  BY <1>3, FS_EmptySet DEF PlanSoFar
<1> QED  BY <1>3, <1>6, <1>7, <1>8, <1>9 DEF UpdateInv

(* A command that fails leaves everything as it is.                        *)
LEMMA UpdateFails ==
  ASSUME UpdateInv, NEW code, Update!Fail(code),
         UNCHANGED <<lock, tid, disk, edited, upstream, approved, command, names, at, pending, answers, staged, items>>
  PROVE  UpdateInv'
<1>1. pc' = "done" /\ outcome'.kind = "failed"  BY DEF Update!Fail, Update!Done
<1>2. UpdateTypes' /\ Pristine'  BY <1>1 DEF UpdateInv, UpdateTypes, Pristine
<1>3. Held' /\ AnswersFit' /\ Update!PlanIsTrue'  BY <1>1 DEF Held, AnswersFit, Update!PlanIsTrue
<1>4. AskedOnce'  BY <1>1 DEF UpdateInv, AskedOnce, Differs, Asked
<1>5. (\A i \in 1..Len(staged) : Forward(staged[i]))'  BY DEF UpdateInv, Forward, Permitted
<1>6. PlanSoFar'  BY <1>1 DEF UpdateInv, PlanSoFar
<1> QED  BY <1>2, <1>3, <1>4, <1>5, <1>6 DEF UpdateInv

(* The names that a place in the list adds.                                *)
LEMMA OneMoreName ==
  ASSUME NEW list \in Seq(Skills), NEW place \in 1..Len(list),
         \A i, j \in 1..Len(list) : list[i] = list[j] => i = j
  PROVE  /\ {list[k] : k \in 1..place} = {list[k] : k \in 1..place - 1} \cup {list[place]}
         /\ list[place] \notin {list[k] : k \in 1..place - 1}
<1>1. 1..place = (1..place - 1) \cup {place}  OBVIOUS
<1>2. \A k \in 1..place - 1 : list[k] # list[place]  OBVIOUS
<1> QED  BY <1>1, <1>2

(* A Skill is settled without a comparison: a check notes it in its plan.  *)
LEMMA UpdateSettles ==
  ASSUME UpdateInv, pc = "look", at <= Len(names), at' = at + 1, looking' = None,
         UNCHANGED <<lock, tid, disk, edited, upstream, approved, command, names, pending, answers, staged, pc>>,
         NEW new, Update!RelationIsTrue(new), new.name = names[at], Update!Planned(new)
  PROVE  UpdateInv'
<1>0. /\ names \in Seq(Skills) /\ at \in 1..Len(names) /\ Len(names) \in Nat
      /\ \A i, j \in 1..Len(names) : names[i] = names[j] => i = j
      /\ pending \in Seq(Compared) /\ Len(pending) \in Nat /\ staged \in Seq(Compared) /\ Len(staged) \in Nat
  BY DEF UpdateInv, UpdateTypes
<1>1. UpdateTypes' /\ Pristine'  BY <1>0 DEF UpdateInv, UpdateTypes, Pristine
<1>2. Held' /\ AnswersFit' /\ Update!PlanIsTrue'  BY DEF Held, AnswersFit, Update!PlanIsTrue
<1>3. AskedOnce'
  <2>1. \A i \in 1..Len(pending) : Differs(pending[i])' <=> Differs(pending[i])  BY DEF Differs, Asked
  <2>2. \A i \in 1..Len(staged) : Differs(staged[i])' <=> Differs(staged[i])  BY DEF Differs, Asked
  <2>3. \A k \in 1..at - 1 : k \in 1..at' - 1  BY <1>0
  <2>4. Len(staged) + Len(pending) <= at' - 1  BY <1>0 DEF UpdateInv, AskedOnce
  <2> QED  BY <2>1, <2>2, <2>3, <2>4 DEF UpdateInv, AskedOnce
<1>4. (\A i \in 1..Len(staged) : Forward(staged[i]))'  BY DEF UpdateInv, Forward, Permitted
<1>5. PlanSoFar'
  <2> SUFFICES ASSUME command = "check" PROVE PlanSoFar'  BY DEF PlanSoFar
  <2>1. items' = items \cup {new}  BY DEF Update!Planned
  <2> DEFINE asked == {pending[i].name : i \in 1..Len(pending)}
  <2>2. /\ IsFiniteSet(items) /\ \A x \in items : Update!RelationIsTrue(x)
        /\ Cardinality(items) + Len(pending) = at - 1
        /\ {x.name : x \in items} \cup asked = {names[k] : k \in 1..at - 1}
        /\ \A x \in items, i \in 1..Len(pending) : x.name # pending[i].name
    BY DEF UpdateInv, PlanSoFar
  <2>3. /\ {names[k] : k \in 1..at} = {names[k] : k \in 1..at - 1} \cup {names[at]}
        /\ names[at] \notin {names[k] : k \in 1..at - 1}
    BY <1>0, OneMoreName
  <2>4. new \notin items /\ \A i \in 1..Len(pending) : new.name # pending[i].name  BY <2>2, <2>3
  <2>5. IsFiniteSet(items') /\ Cardinality(items') = Cardinality(items) + 1  BY <2>1, <2>2, <2>4, FS_AddElement
  <2>6. Cardinality(items) \in Nat  BY <2>2, FS_CardinalityType
  <2>7. Cardinality(items') + Len(pending) = at' - 1  BY <1>0, <2>2, <2>5, <2>6
  <2>8. {x.name : x \in items'} \cup asked = {names[k] : k \in 1..at' - 1}
    <3>1. {x.name : x \in items'} = {x.name : x \in items} \cup {new.name}  BY <2>1
    <3>2. at' - 1 = at  BY <1>0
    <3> QED  BY <2>2, <2>3, <3>1, <3>2
  <2>9. \A x \in items' : Update!RelationIsTrue(x)  BY <2>1, <2>2
  <2>10. \A x \in items', i \in 1..Len(pending) : x.name # pending[i].name  BY <2>1, <2>2, <2>4
  <2>11. {pending'[i].name : i \in 1..Len(pending')} = asked  OBVIOUS
  <2>12. {names'[k] : k \in 1..at' - 1} = {names[k] : k \in 1..at' - 1}  OBVIOUS
  <2> HIDE DEF asked
  <2> QED  BY <2>5, <2>7, <2>8, <2>9, <2>10, <2>11, <2>12 DEF PlanSoFar
<1> QED  BY <1>1, <1>2, <1>3, <1>4, <1>5 DEF UpdateInv

(* A Skill is looked at: it is settled, or its source is asked.            *)
LEMMA UpdateLooks == UpdateInv /\ Update!Look => UpdateInv'
<1> SUFFICES ASSUME UpdateInv, Update!Look PROVE UpdateInv'  OBVIOUS
<1> DEFINE skl == names[at]
           r == lock[skl]
           error == IF Update!ContentError(skl) # "none" THEN Update!ContentError(skl)
                    ELSE IF r.source # "remote" THEN IF command = "selected" THEN "STALE_UPDATE_PLAN" ELSE "none"
                    ELSE Update!LookError(skl, r)
<1>1. /\ pc = "look" /\ at <= Len(names) /\ looking = None
      /\ UNCHANGED <<lock, tid, disk, edited, upstream, approved, command, names, pending, answers, staged>>
  BY DEF Update!Look, Update!store, Update!env
<1>2. names \in Seq(Skills) /\ at \in 1..Len(names) /\ skl \in Skills
  BY <1>1 DEF UpdateInv, UpdateTypes
<1>3. \/ error # "none" /\ Update!Fail(error) /\ UNCHANGED <<at, looking, view, items>>
      \/ /\ error = "none" /\ Update!Settled(r) = "ask"
         /\ looking' = skl /\ view' = [tid |-> tid, record |-> r]
         /\ UNCHANGED <<at, items, pc>> /\ Update!Going
      \/ /\ error = "none" /\ Update!Settled(r) # "ask"
         /\ Update!Planned(Update!Item(skl, Update!Settled(r), r.commit, r.pin))
         /\ at' = at + 1 /\ UNCHANGED <<looking, view, pc>> /\ Update!Going
  BY DEF Update!Look
<1>4. error = "none" => r \in Update!LockRecords
  BY <1>2 DEF Update!ContentError, UpdateInv, UpdateTypes
<1>5. CASE error # "none" /\ Update!Fail(error) /\ UNCHANGED <<at, looking, view, items>>
  BY <1>1, <1>5, UpdateFails
<1>6. CASE /\ error = "none" /\ Update!Settled(r) = "ask"
           /\ looking' = skl /\ view' = [tid |-> tid, record |-> r]
           /\ UNCHANGED <<at, items, pc>>
  <2>1. Update!LookError(skl, r) = "none"  BY <1>6 DEF Update!Settled
  <2>2. command # "verify" => Update!Followed(r)
    BY <1>6, <2>1 DEF Update!Settled, Update!Followed, Update!LookError, UpdateInv, UpdateTypes
  <2>3. command \in {"update", "selected"} => r.status = "verified"
    BY <2>1 DEF Update!LookError
  <2>4. view' \in Views /\ view'.tid <= tid /\ view'.record = r
    BY <1>1, <1>4, <1>6 DEF Views, UpdateInv, UpdateTypes
  <2>5. Held'  BY <1>1, <1>6, <2>2, <2>3, <2>4 DEF Held, Asked
  <2>6. UpdateTypes' /\ Pristine'  BY <1>1, <1>6 DEF UpdateInv, UpdateTypes, Pristine
  <2>7. AnswersFit' /\ Update!PlanIsTrue'  BY <1>1, <1>6 DEF AnswersFit, Update!PlanIsTrue
  <2>8. AskedOnce'  BY <1>1, <1>6 DEF UpdateInv, AskedOnce, Differs, Asked
  <2>9. (\A i \in 1..Len(staged) : Forward(staged[i]))'  BY <1>1 DEF UpdateInv, Forward, Permitted
  <2>10. PlanSoFar'  BY <1>1, <1>6 DEF UpdateInv, PlanSoFar
  <2> QED  BY <2>5, <2>6, <2>7, <2>8, <2>9, <2>10 DEF UpdateInv
<1>7. CASE /\ error = "none" /\ Update!Settled(r) # "ask"
           /\ Update!Planned(Update!Item(skl, Update!Settled(r), r.commit, r.pin))
           /\ at' = at + 1 /\ UNCHANGED <<looking, view, pc>>
  <2> DEFINE new == Update!Item(skl, Update!Settled(r), r.commit, r.pin)
  <2>1. new.name = skl /\ new.relation = Update!Settled(r)  BY DEF Update!Item
  <2>2. Update!Settled(r) \in {"not_tracked", "local", "unavailable", "pinned"}  BY <1>7 DEF Update!Settled
  <2>3. Update!RelationIsTrue(new)  BY <2>1, <2>2 DEF Update!RelationIsTrue
  <2> HIDE DEF new
  <2> QED  BY <1>1, <1>2, <1>7, <2>1, <2>3, UpdateSettles DEF new
<1> QED  BY <1>3, <1>5, <1>6, <1>7

(* A source names another commit: the comparison will be asked.            *)
LEMMA UpdateAwaits ==
  ASSUME UpdateInv, pc = "look", looking # None, at' = at + 1, looking' = None, command # "verify",
         UNCHANGED <<lock, tid, disk, edited, upstream, approved, command, names, answers, staged, items, pc>>,
         NEW latest \in Commits, latest # view.record.commit,
         pending' = Append(pending, [name |-> looking, view |-> view, latest |-> latest])
  PROVE  UpdateInv'
<1> DEFINE p == [name |-> looking, view |-> view, latest |-> latest]
<1>0. /\ names \in Seq(Skills) /\ at \in 1..Len(names) /\ Len(names) \in Nat
      /\ \A i, j \in 1..Len(names) : names[i] = names[j] => i = j
      /\ pending \in Seq(Compared) /\ Len(pending) \in Nat /\ staged = <<>>
      /\ looking = names[at] /\ looking \in Skills /\ view \in Views /\ Asked(view)
  <2>1. UpdateTypes /\ Held /\ AskedOnce  BY DEF UpdateInv
  <2>2. at <= Len(names) /\ looking = names[at] /\ view \in Views /\ Asked(view)  BY <2>1 DEF Held
  <2>3. /\ names \in Seq(Skills) /\ at \in 1..Len(names) + 1 /\ pending \in Seq(Compared)
        /\ \A i, j \in 1..Len(names) : names[i] = names[j] => i = j
    BY <2>1 DEF UpdateTypes
  <2>4. at \in 1..Len(names) /\ names[at] \in Skills  BY <2>2, <2>3
  <2>5. staged = <<>>  BY <2>1 DEF AskedOnce
  <2> QED  BY <2>2, <2>3, <2>4, <2>5
<1>1. p \in Compared /\ p.name = looking /\ p.view = view /\ p.latest = latest  BY <1>0 DEF Compared
<1>2. Differs(p)  BY <1>0, <1>1 DEF Differs
<1> HIDE DEF p
<1>3. /\ pending' \in Seq(Compared) /\ Len(pending') = Len(pending) + 1
      /\ \A i \in 1..Len(pending) : pending'[i] = pending[i]
      /\ pending'[Len(pending) + 1] = p
  BY <1>0, <1>1 DEF p
<1>4. UpdateTypes' /\ Pristine'  BY <1>0, <1>3 DEF UpdateInv, UpdateTypes, Pristine
<1>5. Held' /\ AnswersFit' /\ Update!PlanIsTrue'  BY DEF Held, AnswersFit, Update!PlanIsTrue
<1> DEFINE asked == {pending[i].name : i \in 1..Len(pending)}
<1>6. /\ {names[k] : k \in 1..at} = {names[k] : k \in 1..at - 1} \cup {looking}
      /\ looking \notin {names[k] : k \in 1..at - 1}
  BY <1>0, OneMoreName
<1>7. \A i \in 1..Len(pending') : i \in 1..Len(pending) \/ i = Len(pending) + 1  BY <1>0, <1>3
<1>8. AskedOnce'
  <2>1. \A i \in 1..Len(pending) :
          pending[i].name # looking /\ Differs(pending[i]) /\ \E k \in 1..at' - 1 : pending[i].name = names[k]
    <3>1. \A i \in 1..Len(pending) : Differs(pending[i]) /\ \E k \in 1..at - 1 : pending[i].name = names[k]
      BY DEF UpdateInv, AskedOnce
    <3>2. \A k \in 1..at - 1 : k \in 1..at' - 1  BY <1>0
    <3> QED  BY <1>6, <3>1, <3>2
  <2>2. \A i \in 1..Len(pending') : Differs(pending'[i]) /\ \E k \in 1..at' - 1 : pending'[i].name = names[k]
    <3>1. at \in 1..at' - 1 /\ p.name = names[at]  BY <1>0, <1>1
    <3> QED  BY <1>2, <1>3, <1>7, <2>1, <3>1
  <2>3. \A i, j \in 1..Len(pending') : pending'[i].name = pending'[j].name => i = j
    <3>1. \A i, j \in 1..Len(pending) : pending[i].name = pending[j].name => i = j  BY DEF UpdateInv, AskedOnce
    <3> QED  BY <1>1, <1>3, <1>7, <2>1, <3>1
  <2>4. Len(staged) + Len(pending') <= at' - 1
    <3>1. Len(staged) + Len(pending) <= at - 1 /\ Len(staged) = 0  BY <1>0 DEF UpdateInv, AskedOnce
    <3> QED  BY <1>0, <1>3, <3>1
  <2>5. staged' = <<>> /\ Len(staged') = 0  BY <1>0
  <2> QED  BY <2>2, <2>3, <2>4, <2>5 DEF AskedOnce, Differs, Asked
<1>9. (\A i \in 1..Len(staged) : Forward(staged[i]))'  BY <1>0
<1>10. PlanSoFar'
  <2> SUFFICES ASSUME command = "check" PROVE PlanSoFar'  BY DEF PlanSoFar
  <2>1. /\ IsFiniteSet(items) /\ \A x \in items : Update!RelationIsTrue(x)
        /\ Cardinality(items) + Len(pending) = at - 1
        /\ {x.name : x \in items} \cup asked = {names[k] : k \in 1..at - 1}
        /\ \A x \in items, i \in 1..Len(pending) : x.name # pending[i].name
    BY DEF UpdateInv, PlanSoFar
  <2>2. Cardinality(items) \in Nat  BY <2>1, FS_CardinalityType
  <2>3. Cardinality(items) + Len(pending') = at' - 1  BY <1>0, <1>3, <2>1, <2>2
  <2>4. {pending'[i].name : i \in 1..Len(pending')} = asked \cup {looking}
    <3>1. 1..Len(pending') = 1..Len(pending) \cup {Len(pending) + 1}  BY <1>0, <1>3
    <3> QED  BY <1>1, <1>3, <3>1
  <2>5. {names'[k] : k \in 1..at' - 1} = {names[k] : k \in 1..at}
    <3>1. at' - 1 = at  BY <1>0
    <3> QED  BY <3>1
  <2>6. \A x \in items, i \in 1..Len(pending') : x.name # pending'[i].name
    <3>1. \A x \in items : x.name # looking  BY <1>6, <2>1
    <3> QED  BY <1>1, <1>3, <1>7, <2>1, <3>1
  <2>7. {x.name : x \in items} \cup {pending'[i].name : i \in 1..Len(pending')} = {names'[k] : k \in 1..at' - 1}
    BY <1>6, <2>1, <2>4, <2>5
  <2> HIDE DEF asked
  <2> QED  BY <2>1, <2>3, <2>6, <2>7 DEF PlanSoFar
<1> QED  BY <1>4, <1>5, <1>8, <1>9, <1>10 DEF UpdateInv

(* The source answers, or does not.                                        *)
LEMMA UpdateAsksSource == UpdateInv /\ Update!AskSource => UpdateInv'
<1> SUFFICES ASSUME UpdateInv, Update!AskSource PROVE UpdateInv'  OBVIOUS
<1> DEFINE locked == view.record.commit
           latest == IF Update!Pinned(view.record) THEN view.record.pin ELSE upstream[looking]
           stale == command = "selected" /\ latest # selection[looking].latest
           Goes == at' = at + 1 /\ looking' = None /\ UNCHANGED pc
<1>1. /\ pc = "look" /\ looking # None
      /\ UNCHANGED <<lock, tid, disk, edited, upstream, command, selection, names, answers, staged, approved>>
  BY DEF Update!AskSource, Update!store, Update!env
<1>2. \/ /\ \E code : Update!Fail(code)
         /\ UNCHANGED <<at, items, pending>>
      \/ /\ command = "check" /\ Update!Planned(Update!Item(looking, "unavailable", locked, Update!Unknown))
         /\ Goes /\ UNCHANGED pending
      \/ latest = locked /\ Update!Planned(Update!Item(looking, "current", locked, latest)) /\ Goes /\ UNCHANGED pending
      \/ /\ latest # locked /\ command # "verify"
         /\ pending' = Append(pending, [name |-> looking, view |-> view, latest |-> latest])
         /\ Goes /\ UNCHANGED items
  BY Zenon DEF Update!AskSource
<1>3. at <= Len(names) /\ looking = names[at] /\ looking \in Skills /\ Asked(view)
  BY <1>1 DEF UpdateInv, UpdateTypes, Held
<1>4. CASE (\E code : Update!Fail(code)) /\ UNCHANGED <<at, items, pending>>
  BY <1>1, <1>4, UpdateFails
<1>5. CASE /\ Update!Planned(Update!Item(looking, "unavailable", locked, Update!Unknown))
           /\ Goes /\ UNCHANGED pending
  <2> DEFINE new == Update!Item(looking, "unavailable", locked, Update!Unknown)
  <2>1. new.name = names[at] /\ new.relation = "unavailable"  BY <1>3 DEF Update!Item
  <2>2. Update!RelationIsTrue(new)  BY <2>1 DEF Update!RelationIsTrue
  <2> HIDE DEF new
  <2> QED  BY <1>1, <1>3, <1>5, <2>1, <2>2, UpdateSettles DEF new
<1>6. CASE latest = locked /\ Update!Planned(Update!Item(looking, "current", locked, latest)) /\ Goes /\ UNCHANGED pending
  <2> DEFINE new == Update!Item(looking, "current", locked, latest)
  <2> HIDE DEF latest
  <2>1. new.name = names[at] /\ new.relation = "current" /\ new.locked = new.latest
    BY <1>3, <1>6 DEF Update!Item
  <2>2. Update!RelationIsTrue(new)  BY <2>1 DEF Update!RelationIsTrue
  <2>3. Update!Planned(new)  BY <1>6
  <2> HIDE DEF new
  <2> QED  BY <1>1, <1>3, <1>6, <2>1, <2>2, <2>3, UpdateSettles
<1>7. CASE /\ latest # locked /\ command # "verify"
           /\ pending' = Append(pending, [name |-> looking, view |-> view, latest |-> latest])
           /\ Goes /\ UNCHANGED items
  <2>1. ~Update!Pinned(view.record)  BY <1>3, <1>7 DEF Asked, Update!Followed
  <2>2. latest \in Commits  BY <1>3, <2>1 DEF UpdateInv, UpdateTypes
  <2> HIDE DEF latest
  <2> QED  BY <1>1, <1>7, <2>2, UpdateAwaits
<1> QED  BY <1>2, <1>4, <1>5, <1>6, <1>7

(* The items of the comparisons are as many as the comparisons.            *)
LEMMA ManyItems ==
  ASSUME NEW n \in Nat, NEW f, \A i, j \in 1..n : f[i] = f[j] => i = j,
         NEW image, image = {f[i] : i \in 1..n}
  PROVE  IsFiniteSet(image) /\ Cardinality(image) = n
<1>1. IsFiniteSet(1..n) /\ Cardinality(1..n) = n
  <2>1. IsFiniteSet(1..n) /\ Cardinality(1..n) = IF 1 > n THEN 0 ELSE n - 1 + 1  BY FS_Interval
  <2> QED  BY <2>1
<1> DEFINE g == [i \in 1..n |-> f[i]]
<1>2. g \in Bijection(1..n, image)
  <2>1. g \in [1..n -> image] /\ \A i, j \in 1..n : g[i] = g[j] => i = j  OBVIOUS
  <2>2. \A x \in image : \E i \in 1..n : g[i] = x  OBVIOUS
  <2> HIDE DEF g
  <2> QED  BY <2>1, <2>2 DEF Bijection, Injection, Surjection, IsInjective
<1>3. ExistsBijection(1..n, image)
  <2> HIDE DEF g
  <2> QED  BY <1>2 DEF ExistsBijection
<1> QED  BY <1>1, <1>3, FS_Bijection

(* A check that ends has an item of each Skill, and each is true.          *)
LEMMA PlanIsComplete ==
  ASSUME UpdateInv, Update!Looked, command = "check",
         NEW how \in [DOMAIN pending -> Hows],
         LET a == [i \in DOMAIN pending |-> Update!Answer(how[i], pending[i].view.record.commit, pending[i].latest)]
         IN items' = items \cup {Update!PlanItem(pending[i], a[i]) : i \in DOMAIN pending},
         UNCHANGED <<names, command>>, pc' = "done"
  PROVE  PlanSoFar' /\ Update!PlanIsTrue'
<1> DEFINE a == [i \in DOMAIN pending |-> Update!Answer(how[i], pending[i].view.record.commit, pending[i].latest)]
           n == Len(pending)
           f == [i \in 1..n |-> Update!PlanItem(pending[i], a[i])]
           new == {f[i] : i \in 1..n}
<1>1. /\ pending \in Seq(Compared) /\ n \in Nat /\ DOMAIN pending = 1..n
      /\ names \in Seq(Skills) /\ Len(names) \in Nat /\ at = Len(names) + 1 /\ pc = "look"
      /\ DOMAIN names = 1..Len(names)
  BY DEF UpdateInv, UpdateTypes, Update!Looked
<1>2. \A i \in 1..n : f[i].name = pending[i].name /\ Update!RelationIsTrue(f[i])
  <2> SUFFICES ASSUME NEW i \in 1..n PROVE f[i].name = pending[i].name /\ Update!RelationIsTrue(f[i])  OBVIOUS
  <2>1. pending[i] \in Compared /\ how[i] \in Hows  BY <1>1
  <2>2. f[i] = Update!PlanItem(pending[i], Update!Answer(how[i], pending[i].view.record.commit, pending[i].latest))
    BY <1>1
  <2> HIDE DEF f, a
  <2> QED  BY <2>1, <2>2, ItemIsTrue
<1>3. items' = items \cup new  BY <1>1
<1> HIDE DEF f, a
<1>4. /\ IsFiniteSet(items) /\ \A x \in items : Update!RelationIsTrue(x)
      /\ Cardinality(items) + n = Len(names)
      /\ {x.name : x \in items} \cup {pending[i].name : i \in 1..n} = {names[k] : k \in 1..Len(names)}
      /\ \A x \in items, i \in 1..n : x.name # pending[i].name
      /\ \A i, j \in 1..n : pending[i].name = pending[j].name => i = j
  <2>1. at - 1 = Len(names)  BY <1>1
  <2>2. \A i, j \in 1..n : pending[i].name = pending[j].name => i = j  BY DEF UpdateInv, AskedOnce
  <2>3. PlanSoFar  BY DEF UpdateInv
  <2> HIDE DEF n
  <2>4. IsFiniteSet(items) /\ \A x \in items : Update!RelationIsTrue(x)  BY <2>3 DEF PlanSoFar
  <2>5. /\ Cardinality(items) + n = at - 1
        /\ {x.name : x \in items} \cup {pending[i].name : i \in 1..n} = {names[k] : k \in 1..at - 1}
        /\ \A x \in items, i \in 1..n : x.name # pending[i].name
    BY <1>1, <2>3 DEF PlanSoFar, n
  <2> QED  BY <2>1, <2>2, <2>4, <2>5
<1>5. IsFiniteSet(new) /\ Cardinality(new) = n
  <2>1. \A i, j \in 1..n : f[i] = f[j] => i = j  BY <1>2, <1>4
  <2>2. new = {f[i] : i \in 1..n}  OBVIOUS
  <2>3. n \in Nat  BY <1>1
  <2> HIDE DEF n, new
  <2> QED  BY <2>1, <2>2, <2>3, ManyItems
<1>6. items \cap new = {}  BY <1>2, <1>4
<1>7. IsFiniteSet(items') /\ Cardinality(items') = Len(names)
  <2>1. /\ IsFiniteSet(items \cup new)
        /\ Cardinality(items \cup new) = Cardinality(items) + Cardinality(new) - Cardinality(items \cap new)
    <3> HIDE DEF new
    <3> QED  BY <1>4, <1>5, FS_Union
  <2>2. Cardinality(items \cap new) = 0  BY <1>6, FS_EmptySet
  <2>3. Cardinality(items) \in Nat  BY <1>4, FS_CardinalityType
  <2> HIDE DEF new, n
  <2>4. Cardinality(items \cup new) = Cardinality(items) + n  BY <1>1, <1>5, <2>1, <2>2, <2>3
  <2> QED  BY <1>3, <1>4, <2>1, <2>4
<1>8. {x.name : x \in items'} = {names[k] : k \in 1..Len(names)}
  <2>1. {x.name : x \in new} = {pending[i].name : i \in 1..n}  BY <1>2
  <2>2. {x.name : x \in items'} = {x.name : x \in items} \cup {x.name : x \in new}  BY <1>3
  <2> QED  BY <1>4, <2>1, <2>2
<1>9. \A x \in items' : Update!RelationIsTrue(x)  BY <1>2, <1>3, <1>4
<1>10. Update!ToSet(names)' = {names[k] : k \in 1..Len(names)}  BY <1>1 DEF Update!ToSet
<1>11. Update!PlanIsTrue'
  <2>1. {i.name : i \in items'} = Update!ToSet(names)'  BY <1>8, <1>10
  <2> QED  BY <1>7, <1>9, <2>1, UpdateCounts DEF Update!PlanIsTrue
<1> QED  BY <1>7, <1>9, <1>11 DEF PlanSoFar

(* The comparisons are answered, or the command has nothing to compare.    *)
LEMMA UpdateCompares == UpdateInv /\ Update!Compare => UpdateInv'
<1> SUFFICES ASSUME UpdateInv, Update!Compare PROVE UpdateInv'  OBVIOUS
<1>1. /\ Update!Looked
      /\ UNCHANGED <<lock, tid, disk, edited, upstream, command, names, at, looking, view, pending, staged, approved>>
  BY DEF Update!Compare, Update!store, Update!env
<1>2. \/ pending = <<>> /\ Update!Succeed({}) /\ UNCHANGED <<answers, items>>
      \/ Update!Fail("SERVICE_UNAVAILABLE") /\ UNCHANGED <<answers, items>>
      \/ /\ pending # <<>>
         /\ \E how \in [DOMAIN pending -> {"true", "wrong", "miscounted", "rate_limited", "not_found"}] :
              LET a == [i \in DOMAIN pending |-> Update!Answer(how[i], pending[i].view.record.commit, pending[i].latest)] IN
              /\ answers' = a
              /\ IF command = "check"
                 THEN items' = items \cup {Update!PlanItem(pending[i], a[i]) : i \in DOMAIN pending} /\ Update!Succeed({})
                 ELSE pc' = "judge" /\ Update!Going /\ UNCHANGED items
  BY DEF Update!Compare
<1>3. /\ pending \in Seq(Compared) /\ DOMAIN pending = 1..Len(pending) /\ Len(pending) \in Nat
      /\ pc = "look" /\ at = Len(names) + 1 /\ names \in Seq(Skills) /\ DOMAIN names = 1..Len(names)
  BY <1>1 DEF UpdateInv, UpdateTypes, Update!Looked
<1>4. ASSUME pc' \in {"judge", "done"}, answers' \in Seq(Comparisons)
      PROVE  UpdateTypes' /\ Pristine' /\ Held' /\ AskedOnce' /\ (\A i \in 1..Len(staged) : Forward(staged[i]))'
  <2>1. UpdateTypes' /\ Pristine'  BY <1>1, <1>4 DEF UpdateInv, UpdateTypes, Pristine
  <2>2. Held'  BY <1>4 DEF Held
  <2>3. AskedOnce'  BY <1>1, <1>4 DEF UpdateInv, AskedOnce, Differs, Asked
  <2>4. (\A i \in 1..Len(staged) : Forward(staged[i]))'  BY <1>1 DEF UpdateInv, Forward, Permitted
  <2> QED  BY <2>1, <2>2, <2>3, <2>4
<1>5. CASE pending = <<>> /\ Update!Succeed({}) /\ UNCHANGED <<answers, items>>
  <2>1. pc' = "done"  BY <1>5 DEF Update!Succeed, Update!Done
  <2>2. answers' \in Seq(Comparisons)  BY <1>5 DEF UpdateInv, UpdateTypes
  <2>3. AnswersFit'  BY <2>1 DEF AnswersFit
  <2>4. command = "check" =>
          /\ IsFiniteSet(items) /\ \A x \in items : Update!RelationIsTrue(x)
          /\ Cardinality(items) = Len(names)
          /\ {x.name : x \in items} = {names[k] : k \in 1..Len(names)}
    <3> SUFFICES ASSUME command = "check"
                 PROVE  /\ IsFiniteSet(items) /\ \A x \in items : Update!RelationIsTrue(x)
                        /\ Cardinality(items) = Len(names)
                        /\ {x.name : x \in items} = {names[k] : k \in 1..Len(names)}
      OBVIOUS
    <3>1. /\ IsFiniteSet(items) /\ \A x \in items : Update!RelationIsTrue(x)
          /\ Cardinality(items) + Len(pending) = at - 1
          /\ {x.name : x \in items} \cup {pending[i].name : i \in 1..Len(pending)} = {names[k] : k \in 1..at - 1}
      BY <1>3 DEF UpdateInv, PlanSoFar
    <3>2. {pending[i].name : i \in 1..Len(pending)} = {} /\ Len(pending) = 0  BY <1>5
    <3>3. at - 1 = Len(names)  BY <1>3
    <3>4. Cardinality(items) \in Nat  BY <3>1, FS_CardinalityType
    <3>5. {names[k] : k \in 1..at - 1} = {names[k] : k \in 1..Len(names)}  BY <3>3
    <3>6. Cardinality(items) = Len(names)  BY <3>1, <3>2, <3>3, <3>4
    <3> QED  BY <3>1, <3>2, <3>5, <3>6
  <2>5. PlanSoFar'  BY <1>1, <1>5, <2>1, <2>4 DEF PlanSoFar
  <2>6. Update!PlanIsTrue'
    <3>1. Update!ToSet(names)' = {names[k] : k \in 1..Len(names)}  BY <1>1, <1>3 DEF Update!ToSet
    <3>2. {i.name : i \in items'} = {x.name : x \in items}  BY <1>5
    <3>3. Update!Cardinality(items') = Cardinality(items)  BY <1>5, UpdateCounts
    <3> QED  BY <1>1, <1>5, <2>4, <3>1, <3>2, <3>3 DEF Update!PlanIsTrue
  <2> QED  BY <1>4, <2>1, <2>2, <2>3, <2>5, <2>6 DEF UpdateInv
<1>6. CASE Update!Fail("SERVICE_UNAVAILABLE") /\ UNCHANGED <<answers, items>>
  BY <1>1, <1>6, UpdateFails
<1>7. ASSUME pending # <<>>, NEW how \in [DOMAIN pending -> Hows],
             LET a == [i \in DOMAIN pending |-> Update!Answer(how[i], pending[i].view.record.commit, pending[i].latest)] IN
             /\ answers' = a
             /\ IF command = "check"
                THEN items' = items \cup {Update!PlanItem(pending[i], a[i]) : i \in DOMAIN pending} /\ Update!Succeed({})
                ELSE pc' = "judge" /\ Update!Going /\ UNCHANGED items
      PROVE  UpdateInv'
  <2> DEFINE a == [i \in DOMAIN pending |-> Update!Answer(how[i], pending[i].view.record.commit, pending[i].latest)]
  <2>1. answers' = a  BY <1>7
  <2>2. \A i \in 1..Len(pending) : a[i] = Update!Answer(how[i], pending[i].view.record.commit, pending[i].latest)
    BY <1>3
  <2>3. a \in Seq(Comparisons) /\ Len(a) = Len(pending)
    <3>1. \A i \in 1..Len(pending) : a[i] \in Comparisons
      <4> SUFFICES ASSUME NEW i \in 1..Len(pending) PROVE a[i] \in Comparisons  OBVIOUS
      <4>1. pending[i] \in Compared /\ how[i] \in Hows  BY <1>3
      <4>2. pending[i].view.record.commit \in Commits /\ pending[i].latest \in Commits
        BY <4>1 DEF Compared, Views, Update!LockRecords
      <4> HIDE DEF a
      <4> QED  BY <2>2, <4>1, <4>2 DEF Comparisons
    <3>2. DOMAIN a = 1..Len(pending) /\ a = [i \in 1..Len(pending) |-> a[i]]  BY <1>3
    <3> HIDE DEF a
    <3> QED  BY <1>3, <3>1, <3>2, IsASeq
  <2> HIDE DEF a
  <2>4. CASE command = "check"
    <3>1. pc' = "done" /\ items' = items \cup {Update!PlanItem(pending[i], a[i]) : i \in DOMAIN pending}
      BY <1>7, <2>4 DEF Update!Succeed, Update!Done, a
    <3>2. PlanSoFar' /\ Update!PlanIsTrue'
      BY <1>1, <1>7, <2>4, <3>1, PlanIsComplete DEF a
    <3>3. AnswersFit'  BY <3>1 DEF AnswersFit
    <3> QED  BY <1>4, <2>1, <2>3, <3>1, <3>2, <3>3 DEF UpdateInv
  <2>5. CASE command # "check"
    <3>1. pc' = "judge" /\ UNCHANGED items  BY <1>7, <2>5
    <3>2. command \in {"update", "selected"}  BY <1>7, <2>5 DEF UpdateInv, UpdateTypes, AskedOnce
    <3>3. AnswersFit'
      <4>1. \A i \in 1..Len(pending') : \E h \in Hows :
              answers'[i] = Update!Answer(h, pending'[i].view.record.commit, pending'[i].latest)
        BY <1>1, <1>3, <2>1, <2>2
      <4>2. Len(answers') = Len(pending') /\ pending' # <<>>  BY <1>1, <1>7, <2>1, <2>3
      <4> QED  BY <1>1, <3>1, <3>2, <4>1, <4>2 DEF AnswersFit
    <3>4. PlanSoFar' /\ Update!PlanIsTrue'  BY <1>1, <3>1, <3>2 DEF PlanSoFar, Update!PlanIsTrue
    <3> QED  BY <1>4, <2>1, <2>3, <3>1, <3>3, <3>4 DEF UpdateInv
  <2> QED  BY <2>4, <2>5
<1> QED  BY <1>2, <1>5, <1>6, <1>7 DEF Hows

(* An answer is judged: the command goes on, or fails.                     *)
LEMMA UpdateJudges == UpdateInv /\ Update!Judge => UpdateInv'
<1> SUFFICES ASSUME UpdateInv, Update!Judge PROVE UpdateInv'  OBVIOUS
<1>1. /\ pc = "judge"
      /\ UNCHANGED <<lock, tid, disk, edited, upstream, command, names, at, looking, view, pending, answers, staged,
                     approved, items>>
  BY DEF Update!Judge, Update!store, Update!env, Update!work, Update!plan
<1>2. \/ \E code : Update!Fail(code)
      \/ Update!Refusal(Head(answers)) = "none" /\ pc' = "gate"
  BY Zenon DEF Update!Judge
<1>3. CASE \E code : Update!Fail(code)
  BY <1>1, <1>3, UpdateFails
<1>4. CASE Update!Refusal(Head(answers)) = "none" /\ pc' = "gate"
  <2>1. answers \in Seq(Comparisons) /\ pending \in Seq(Compared)  BY DEF UpdateInv, UpdateTypes
  <2>2. Head(answers) = answers[1]  BY <2>1
  <2>3. UpdateTypes' /\ Pristine'  BY <1>1, <1>4 DEF UpdateInv, UpdateTypes, Pristine
  <2>4. Held' /\ Update!PlanIsTrue'  BY <1>1, <1>4 DEF Held, Update!PlanIsTrue
  <2>5. AskedOnce'  BY <1>1, <1>4 DEF UpdateInv, AskedOnce, Differs, Asked
  <2>6. (\A i \in 1..Len(staged) : Forward(staged[i]))'  BY <1>1 DEF UpdateInv, Forward, Permitted
  <2>7. AnswersFit'  BY <1>1, <1>4, <2>2 DEF UpdateInv, AnswersFit
  <2>8. PlanSoFar'  BY <1>1, <1>4 DEF UpdateInv, PlanSoFar
  <2> QED  BY <2>3, <2>4, <2>5, <2>6, <2>7, <2>8 DEF UpdateInv
<1> QED  BY <1>2, <1>3, <1>4

(* What passes is staged, and what it asks for is approved.                *)
LEMMA UpdateGates == UpdateInv /\ Update!Gate => UpdateInv'
<1> SUFFICES ASSUME UpdateInv, Update!Gate PROVE UpdateInv'  OBVIOUS
<1> DEFINE p == Head(pending)
           held == Update!Held(p.name, p.latest)
<1>1. /\ pc = "gate"
      /\ UNCHANGED <<lock, tid, disk, edited, upstream, items, command, names, at, looking, view>>
  BY DEF Update!Gate, Update!store, Update!env
<1>2. \/ /\ lock[p.name] # None
         /\ approved' = [approved EXCEPT ![p.name] = held]
         /\ staged' = Append(staged, p)
         /\ pending' = Tail(pending) /\ answers' = Tail(answers)
         /\ pc' = (IF Len(pending) > 1 THEN "judge" ELSE "apply")
      \/ (\E code : Update!Fail(code)) /\ UNCHANGED <<approved, staged, pending, answers>>
  BY Zenon DEF Update!Gate
<1>3. CASE (\E code : Update!Fail(code)) /\ UNCHANGED <<approved, staged, pending, answers>>
  BY <1>1, <1>3, UpdateFails
<1>4. CASE /\ lock[p.name] # None
           /\ approved' = [approved EXCEPT ![p.name] = held]
           /\ staged' = Append(staged, p)
           /\ pending' = Tail(pending) /\ answers' = Tail(answers)
           /\ pc' = (IF Len(pending) > 1 THEN "judge" ELSE "apply")
  <2>0. UpdateTypes /\ Pristine /\ AskedOnce /\ AnswersFit /\ \A i \in 1..Len(staged) : Forward(staged[i])
    BY DEF UpdateInv
  <2>1. /\ pending \in Seq(Compared) /\ pending # <<>> /\ Len(pending) \in Nat /\ Len(pending) >= 1
        /\ staged \in Seq(Compared) /\ Len(staged) \in Nat
        /\ answers \in Seq(Comparisons) /\ Len(answers) = Len(pending)
        /\ command \in {"update", "selected"} /\ Update!Refusal(answers[1]) = "none"
    <3>1. pending # <<>> /\ Len(answers) = Len(pending) /\ command \in {"update", "selected"}
          /\ Update!Refusal(answers[1]) = "none"
      BY <1>1, <2>0 DEF AnswersFit
    <3> QED  BY <2>0, <3>1 DEF UpdateTypes
  <2>2. p = pending[1] /\ p \in Compared /\ p.name \in Skills /\ p.latest \in Commits /\ p.view.record.commit \in Commits
    <3>1. p = pending[1] /\ p \in Compared  BY <2>1
    <3> QED  BY <3>1 DEF Compared, Views, Update!LockRecords
  <2> HIDE DEF p
  <2>3. /\ pending' \in Seq(Compared) /\ Len(pending') = Len(pending) - 1
        /\ \A i \in 1..Len(pending') : i + 1 \in 1..Len(pending) /\ pending'[i] = pending[i + 1]
        /\ answers' \in Seq(Comparisons) /\ Len(answers') = Len(pending')
        /\ \A i \in 1..Len(pending') : answers'[i] = answers[i + 1]
    BY <1>4, <2>1
  <2>4. /\ staged' \in Seq(Compared) /\ Len(staged') = Len(staged) + 1
        /\ \A i \in 1..Len(staged) : staged'[i] = staged[i]
        /\ staged'[Len(staged) + 1] = p
        /\ \A i \in 1..Len(staged') : i \in 1..Len(staged) \/ i = Len(staged) + 1
    BY <1>4, <2>1, <2>2
  <2>5. held \in SUBSET Shown
    <3>1. UpdateAsks[p.latest] \subseteq Shown  BY <2>2 DEF Shown
    <3> QED  BY <3>1 DEF Update!Held
  <2>6. UpdateTypes' /\ Pristine'
    <3>1. approved' \in [Skills -> SUBSET Shown]  BY <1>4, <2>0, <2>2, <2>5 DEF UpdateTypes
    <3>2. pc' \in {"judge", "apply"}  BY <1>4
    <3> QED  BY <1>1, <2>0, <2>3, <2>4, <3>1, <3>2 DEF UpdateTypes, Pristine
  <2>7. Held' /\ Update!PlanIsTrue' /\ PlanSoFar'  BY <1>1, <1>4, <2>1 DEF Held, Update!PlanIsTrue, PlanSoFar
  <2>8. AskedOnce'
    <3>1. /\ \A i, j \in 1..Len(pending) : pending[i].name = pending[j].name => i = j
          /\ \A i, j \in 1..Len(staged) : staged[i].name = staged[j].name => i = j
          /\ \A i \in 1..Len(pending), j \in 1..Len(staged) : pending[i].name # staged[j].name
          /\ \A i \in 1..Len(pending) : Differs(pending[i]) /\ \E k \in 1..at - 1 : pending[i].name = names[k]
          /\ \A i \in 1..Len(staged) : Differs(staged[i])
          /\ Len(staged) + Len(pending) <= at - 1
      BY <2>0 DEF AskedOnce
    <3>2. \A i, j \in 1..Len(pending') : pending'[i].name = pending'[j].name => i = j
      <4> SUFFICES ASSUME NEW i \in 1..Len(pending'), NEW j \in 1..Len(pending'), pending'[i].name = pending'[j].name
                   PROVE  i = j
        OBVIOUS
      <4>1. /\ i + 1 \in 1..Len(pending) /\ pending'[i] = pending[i + 1]
            /\ j + 1 \in 1..Len(pending) /\ pending'[j] = pending[j + 1]
        BY <2>3
      <4>2. pending[i + 1].name = pending[j + 1].name  BY <4>1
      <4>3. i + 1 = j + 1  BY <3>1, <4>1, <4>2
      <4> QED  BY <4>3
    <3>3. \A i \in 1..Len(pending') : pending'[i].name # p.name
      <4> SUFFICES ASSUME NEW i \in 1..Len(pending') PROVE pending'[i].name # p.name  OBVIOUS
      <4>1. 1 \in 1..Len(pending) /\ i + 1 # 1  BY <2>1
      <4>2. i + 1 \in 1..Len(pending) /\ pending'[i] = pending[i + 1]  BY <2>3
      <4>3. pending[i + 1].name # pending[1].name  BY <3>1, <4>1, <4>2
      <4> QED  BY <2>2, <4>2, <4>3
    <3>4. \A i \in 1..Len(staged) : staged[i].name # p.name
      <4>1. 1 \in 1..Len(pending)  BY <2>1
      <4> QED  BY <2>2, <3>1, <4>1
    <3>5. \A i, j \in 1..Len(staged') : staged'[i].name = staged'[j].name => i = j  BY <2>4, <3>1, <3>4
    <3>6. \A i \in 1..Len(pending'), j \in 1..Len(staged') : pending'[i].name # staged'[j].name
      <4> SUFFICES ASSUME NEW i \in 1..Len(pending'), NEW j \in 1..Len(staged')
                   PROVE  pending'[i].name # staged'[j].name
        OBVIOUS
      <4>1. i + 1 \in 1..Len(pending) /\ pending'[i] = pending[i + 1]  BY <2>3
      <4>2. \A k \in 1..Len(staged) : pending[i + 1].name # staged[k].name  BY <3>1, <4>1
      <4>3. CASE j \in 1..Len(staged)  BY <2>4, <4>1, <4>2, <4>3
      <4>4. CASE j = Len(staged) + 1  BY <2>4, <3>3, <4>4
      <4> QED  BY <2>4, <4>3, <4>4
    <3>7. \A i \in 1..Len(pending') : Differs(pending'[i]) /\ \E k \in 1..at - 1 : pending'[i].name = names[k]
      <4> SUFFICES ASSUME NEW i \in 1..Len(pending')
                   PROVE  Differs(pending'[i]) /\ \E k \in 1..at - 1 : pending'[i].name = names[k]
        OBVIOUS
      <4>1. i + 1 \in 1..Len(pending) /\ pending'[i] = pending[i + 1]  BY <2>3
      <4> QED  BY <3>1, <4>1
    <3>8. Differs(p)
      <4>1. 1 \in 1..Len(pending)  BY <2>1
      <4> QED  BY <2>2, <3>1, <4>1
    <3>9. \A i \in 1..Len(staged') : Differs(staged'[i])  BY <2>4, <3>1, <3>8
    <3>10. Len(staged') + Len(pending') <= at - 1  BY <2>1, <2>3, <2>4, <3>1, <2>0 DEF UpdateTypes
    <3>11. pc' # "look" /\ command # "verify"  BY <1>4, <2>1
    <3> QED  BY <1>1, <3>2, <3>5, <3>6, <3>7, <3>9, <3>10, <3>11 DEF AskedOnce, Differs, Asked
  <2>9. AnswersFit'
    <3>1. \A i \in 1..Len(pending) : \E how \in Hows :
            answers[i] = Update!Answer(how, pending[i].view.record.commit, pending[i].latest)
      BY <1>1, <2>0 DEF AnswersFit
    <3>2. \A i \in 1..Len(pending') : \E how \in Hows :
            answers'[i] = Update!Answer(how, pending'[i].view.record.commit, pending'[i].latest)
      BY <2>3, <3>1
    <3>3. pc' # "gate" /\ (pc' = "judge" => pending' # <<>>)
      <4>1. pc' = "judge" => Len(pending') >= 1  BY <1>4, <2>1, <2>3
      <4>2. Len(<<>>) = 0  OBVIOUS
      <4> QED  BY <1>4, <4>1, <4>2
    <3> QED  BY <1>1, <1>4, <2>1, <2>3, <3>2, <3>3 DEF AnswersFit
  <2>10. History[p.view.record.commit] \subseteq History[p.latest]
    <3>1. PICK how \in Hows : answers[1] = Update!Answer(how, p.view.record.commit, p.latest)
      <4>1. 1 \in 1..Len(pending)  BY <2>1
      <4> QED  BY <1>1, <2>0, <2>2, <4>1 DEF AnswersFit
    <3> QED  BY <2>1, <2>2, <3>1, NotRefused
  <2>11. p.name \notin edited => UpdateAsks[p.latest] \subseteq UpdateAsks[lock[p.name].commit] \cup held \cup Permitted
    <3>1. p.name \notin edited => disk[p.name] = UpdateAsks[lock[p.name].commit]  BY <1>4, <2>0, <2>2 DEF Pristine
    <3> QED  BY <2>1, <3>1 DEF Update!Held, Permitted
  <2>12. \A i \in 1..Len(staged') : LET q == staged'[i] IN
           /\ History[q.view.record.commit] \subseteq History[q.latest]
           /\ q.view.tid = tid /\ q.name \notin edited =>
                /\ lock[q.name] # None
                /\ UpdateAsks[q.latest] \subseteq UpdateAsks[lock[q.name].commit] \cup approved'[q.name] \cup Permitted
    <3>1. approved'[p.name] = held  BY <1>4, <2>0, <2>2 DEF UpdateTypes
    <3>2. \A i \in 1..Len(staged) : staged[i].name # p.name /\ staged[i].name \in Skills
      <4>1. 1 \in 1..Len(pending)  BY <2>1
      <4>2. \A i \in 1..Len(staged) : staged[i].name # p.name  BY <2>0, <2>2, <4>1 DEF AskedOnce
      <4>3. \A i \in 1..Len(staged) : staged[i] \in Compared  BY <2>1
      <4>4. \A q \in Compared : q.name \in Skills  BY DEF Compared
      <4> QED  BY <4>2, <4>3, <4>4
    <3>3. \A i \in 1..Len(staged) : approved'[staged[i].name] = approved[staged[i].name]
      BY <1>4, <2>0, <3>2 DEF UpdateTypes
    <3> HIDE DEF held
    <3> SUFFICES ASSUME NEW i \in 1..Len(staged')
                 PROVE  LET q == staged'[i] IN
                        /\ History[q.view.record.commit] \subseteq History[q.latest]
                        /\ q.view.tid = tid /\ q.name \notin edited =>
                             /\ lock[q.name] # None
                             /\ UpdateAsks[q.latest] \subseteq UpdateAsks[lock[q.name].commit] \cup approved'[q.name] \cup Permitted
      OBVIOUS
    <3>4. CASE i = Len(staged) + 1
      <4>1. staged'[i] = p  BY <2>4, <3>4
      <4> QED  BY <1>4, <2>10, <2>11, <3>1, <4>1
    <3>5. CASE i \in 1..Len(staged)
      <4>1. staged'[i] = staged[i] /\ Forward(staged[i]) /\ approved'[staged[i].name] = approved[staged[i].name]
        BY <2>0, <2>4, <3>3, <3>5
      <4> QED  BY <4>1 DEF Forward
    <3> QED  BY <2>4, <3>4, <3>5
  <2>13. (\A i \in 1..Len(staged) : Forward(staged[i]))'  BY <1>1, <2>12 DEF Forward, Permitted
  <2> QED  BY <2>6, <2>7, <2>8, <2>9, <2>13 DEF UpdateInv
<1> QED  BY <1>2, <1>3, <1>4

(* What happens to the store, beside the command or by it, does not undo   *)
(* what the command has found out: a lockfile of another transaction is    *)
(* one that the command does not write to.                                 *)
LEMMA UpdateStays ==
  ASSUME UpdateInv, UNCHANGED <<approved, command, names, at, looking, view, pending, answers, staged, items>>,
         lock' \in [Skills -> Update!LockRecords \cup {None}], tid' \in Nat, disk' \in [Skills -> SUBSET Shown],
         edited' \subseteq Skills, upstream' \in [Skills -> Commits],
         edited \subseteq edited', tid' >= tid, tid' = tid => lock' = lock, Pristine',
         (pc' = pc /\ UNCHANGED outcome) \/ (pc = "apply" /\ pc' = "done")
  PROVE  UpdateInv'
<1>1. UpdateTypes'  BY DEF UpdateInv, UpdateTypes
<1>2. \A v \in Views : Asked(v) => Asked(v)'
  BY DEF Asked, Views, UpdateInv, UpdateTypes
<1>3. Held'  BY <1>2 DEF UpdateInv, Held
<1>4. AskedOnce'
  <2>1. /\ pending \in Seq(Compared) /\ staged \in Seq(Compared)
        /\ \A p \in Compared : p.view \in Views
    BY DEF UpdateInv, UpdateTypes, Compared
  <2>2. \A i \in 1..Len(pending) : Differs(pending[i])'
    <3>1. \A i \in 1..Len(pending) : pending[i].view \in Views /\ Differs(pending[i])
      BY <2>1 DEF UpdateInv, AskedOnce
    <3>2. \A i \in 1..Len(pending) : Asked(pending[i].view)'  BY <1>2, <3>1 DEF Differs, Asked
    <3> QED  BY <3>1, <3>2 DEF Differs
  <2>3. \A i \in 1..Len(staged) : Differs(staged[i])'
    <3>1. \A i \in 1..Len(staged) : staged[i].view \in Views /\ Differs(staged[i])
      BY <2>1 DEF UpdateInv, AskedOnce
    <3>2. \A i \in 1..Len(staged) : Asked(staged[i].view)'  BY <1>2, <3>1 DEF Differs, Asked
    <3> QED  BY <3>1, <3>2 DEF Differs
  <2> QED  BY <2>2, <2>3 DEF UpdateInv, AskedOnce
<1>5. AnswersFit'  BY DEF UpdateInv, AnswersFit
<1>6. (\A i \in 1..Len(staged) : Forward(staged[i]))'
  <2> SUFFICES ASSUME NEW i \in 1..Len(staged) PROVE Forward(staged[i])'  OBVIOUS
  <2>1. staged[i] \in Compared  BY DEF UpdateInv, UpdateTypes
  <2>2. staged[i].view.tid \in Nat /\ tid \in Nat  BY <2>1 DEF Compared, Views, UpdateInv, UpdateTypes
  <2>3. Forward(staged[i]) /\ staged[i].view.tid <= tid  BY DEF UpdateInv, AskedOnce, Differs, Asked
  <2>4. CASE tid' = tid  BY <2>3, <2>4 DEF Forward, Permitted
  <2>5. CASE tid' # tid
    <3>1. staged[i].view.tid # tid'  BY <2>2, <2>3, <2>5
    <3> QED  BY <2>3, <3>1 DEF Forward
  <2> QED  BY <2>4, <2>5
<1>7. PlanSoFar'
  <2>1. CASE pc' = pc
    <3>1. UNCHANGED <<command, names, at, pending, items, pc>>  BY <2>1
    <3>2. PlanSoFar  BY DEF UpdateInv
    <3>3. \A x : Update!RelationIsTrue(x)' <=> Update!RelationIsTrue(x)  BY DEF Update!RelationIsTrue
    <3> QED  BY <3>1, <3>2, <3>3, Zenon DEF PlanSoFar
  <2>2. CASE pc' = "done"  BY <2>2 DEF UpdateInv, PlanSoFar
  <2> QED  BY <2>1, <2>2
<1>8. Update!PlanIsTrue'
  <2>1. CASE pc' = pc /\ UNCHANGED outcome
    <3>1. Update!ToSet(names)' = Update!ToSet(names)  BY DEF Update!ToSet
    <3> QED  BY <2>1, <3>1 DEF UpdateInv, Update!PlanIsTrue
  <2>2. CASE pc = "apply" /\ pc' = "done"
    BY <2>2 DEF UpdateInv, AnswersFit, Update!PlanIsTrue
  <2> QED  BY <2>1, <2>2
<1> QED  BY <1>1, <1>3, <1>4, <1>5, <1>6, <1>7, <1>8 DEF UpdateInv

(* The commit that is written of a Skill is the one that was staged.       *)
CommitOf(s) == (CHOOSE p \in Update!ToSet(staged) : p.name = s).latest

LEMMA StagedCommit ==
  ASSUME UpdateInv
  PROVE  /\ staged \in Seq(Compared)
         /\ Update!ToSet(staged) = {staged[i] : i \in 1..Len(staged)}
         /\ \A i \in 1..Len(staged) : CommitOf(staged[i].name) = staged[i].latest
<1>1. staged \in Seq(Compared) /\ DOMAIN staged = 1..Len(staged)  BY DEF UpdateInv, UpdateTypes
<1>2. Update!ToSet(staged) = {staged[i] : i \in 1..Len(staged)}  BY <1>1 DEF Update!ToSet
<1>3. \A i \in 1..Len(staged) : CommitOf(staged[i].name) = staged[i].latest
  <2> SUFFICES ASSUME NEW i \in 1..Len(staged) PROVE CommitOf(staged[i].name) = staged[i].latest  OBVIOUS
  <2> DEFINE q == CHOOSE p \in Update!ToSet(staged) : p.name = staged[i].name
  <2>1. staged[i] \in Update!ToSet(staged)  BY <1>2
  <2>2. q \in Update!ToSet(staged) /\ q.name = staged[i].name  BY <2>1
  <2> HIDE DEF q
  <2>3. PICK j \in 1..Len(staged) : q = staged[j]  BY <1>2, <2>2
  <2>4. j = i  BY <2>2, <2>3 DEF UpdateInv, AskedOnce
  <2>5. q = staged[i]  BY <2>3, <2>4
  <2> QED  BY <2>5 DEF CommitOf, q
<1> QED  BY <1>1, <1>2, <1>3

(* What a write does: each Skill that is staged, and was found as it had   *)
(* been viewed, goes to the commit that was staged of it.                  *)
LEMMA UpdateWrites ==
  ASSUME UpdateInv, Update!Apply, ~UNCHANGED Update!store
  PROVE  /\ pc = "apply" /\ pc' = "done" /\ tid' = tid + 1 /\ UNCHANGED edited
         /\ outcome' = [kind |-> "ok", updated |-> {staged[i].name : i \in 1..Len(staged)}]
         /\ \A i \in 1..Len(staged) : LET p == staged[i] IN
              /\ p \in Compared /\ p.view.tid = tid /\ p.view.record = lock[p.name] /\ p.name \notin edited
              /\ lock'[p.name] = [lock[p.name] EXCEPT !.commit = p.latest]
              /\ disk'[p.name] = UpdateAsks[p.latest]
         /\ \A s \in Skills : (\A i \in 1..Len(staged) : s # staged[i].name) => lock'[s] = lock[s] /\ disk'[s] = disk[s]
         /\ DOMAIN lock' = Skills /\ DOMAIN disk' = Skills
<1> DEFINE updated == {p.name : p \in Update!ToSet(staged)}
<1>1. /\ \A p \in Update!ToSet(staged) : Update!StillReviewed(p)
      /\ lock' = [s \in Skills |-> IF s \in updated THEN [lock[s] EXCEPT !.commit = CommitOf(s)] ELSE lock[s]]
      /\ disk' = [s \in Skills |-> IF s \in updated THEN UpdateAsks[CommitOf(s)] ELSE disk[s]]
      /\ tid' = tid + 1 /\ UNCHANGED edited
      /\ Update!Succeed(updated) /\ pc = "apply"
  BY DEF Update!Apply, CommitOf
<1>2. updated = {staged[i].name : i \in 1..Len(staged)}  BY StagedCommit
<1> HIDE DEF updated
<1>3. pc' = "done" /\ outcome' = [kind |-> "ok", updated |-> {staged[i].name : i \in 1..Len(staged)}]
  BY <1>1, <1>2 DEF Update!Succeed, Update!Done
<1>4. ASSUME NEW i \in 1..Len(staged)
      PROVE  LET p == staged[i] IN
             /\ p \in Compared /\ p.view.tid = tid /\ p.view.record = lock[p.name] /\ p.name \notin edited
             /\ lock'[p.name] = [lock[p.name] EXCEPT !.commit = p.latest]
             /\ disk'[p.name] = UpdateAsks[p.latest]
  <2>1. staged[i] \in Compared /\ staged[i] \in Update!ToSet(staged)  BY StagedCommit
  <2>2. staged[i].name \in Skills  BY <2>1 DEF Compared
  <2>3. staged[i].name \in updated /\ CommitOf(staged[i].name) = staged[i].latest  BY <1>2, StagedCommit
  <2> QED  BY <1>1, <2>1, <2>2, <2>3 DEF Update!StillReviewed
<1>5. \A s \in Skills : (\A i \in 1..Len(staged) : s # staged[i].name) => lock'[s] = lock[s] /\ disk'[s] = disk[s]
  BY <1>1, <1>2
<1> QED  BY <1>1, <1>3, <1>4, <1>5

(* The staged updates are written, all of them or none.                    *)
LEMMA UpdateApplies == UpdateInv /\ Update!Apply => UpdateInv'
<1> SUFFICES ASSUME UpdateInv, Update!Apply PROVE UpdateInv'  OBVIOUS
<1>1. UNCHANGED <<upstream, command, names, at, looking, view, pending, answers, staged, approved, items>>
  BY DEF Update!Apply, Update!env, Update!work, Update!plan
<1>2. CASE ~UNCHANGED Update!store
  <2>1. UpdateTypes /\ Pristine  BY DEF UpdateInv
  <2>2. \A i \in 1..Len(staged) :
          /\ staged[i].name \in Skills /\ staged[i].latest \in Commits /\ staged[i].view.record \in Update!LockRecords
    <3>1. \A i \in 1..Len(staged) : staged[i] \in Compared  BY <1>2, UpdateWrites
    <3>2. \A p \in Compared : p.name \in Skills /\ p.latest \in Commits /\ p.view.record \in Update!LockRecords
      BY DEF Compared, Views
    <3> QED  BY <3>1, <3>2
  <2>3. \A s \in Skills :
          /\ lock'[s] \in Update!LockRecords \cup {None} /\ disk'[s] \in SUBSET Shown
          /\ lock'[s] # None /\ s \notin edited => disk'[s] = UpdateAsks[lock'[s].commit]
    <3> SUFFICES ASSUME NEW s \in Skills
                 PROVE  /\ lock'[s] \in Update!LockRecords \cup {None} /\ disk'[s] \in SUBSET Shown
                        /\ lock'[s] # None /\ s \notin edited => disk'[s] = UpdateAsks[lock'[s].commit]
      OBVIOUS
    <3>1. CASE \A i \in 1..Len(staged) : s # staged[i].name
      <4>1. lock'[s] = lock[s] /\ disk'[s] = disk[s]  BY <1>2, <3>1, UpdateWrites
      <4> QED  BY <2>1, <4>1 DEF UpdateTypes, Pristine
    <3>2. ASSUME NEW i \in 1..Len(staged), s = staged[i].name
          PROVE  /\ lock'[s] \in Update!LockRecords \cup {None} /\ disk'[s] \in SUBSET Shown
                 /\ lock'[s] # None /\ s \notin edited => disk'[s] = UpdateAsks[lock'[s].commit]
      <4>1. /\ lock[s] \in Update!LockRecords /\ lock'[s] = [lock[s] EXCEPT !.commit = staged[i].latest]
            /\ disk'[s] = UpdateAsks[staged[i].latest] /\ staged[i].latest \in Commits
        BY <1>2, <2>2, <3>2, UpdateWrites
      <4>2. lock'[s] \in Update!LockRecords /\ lock'[s].commit = staged[i].latest
        BY <4>1 DEF Update!LockRecords
      <4>3. disk'[s] \in SUBSET Shown  BY <4>1 DEF Shown
      <4> QED  BY <4>1, <4>2, <4>3
    <3> QED  BY <3>1, <3>2
  <2>4. lock' \in [Skills -> Update!LockRecords \cup {None}]
    <3>1. lock' = [s \in Skills |-> lock'[s]]
      <4>1. lock' = [s \in Skills |-> IF s \in {p.name : p \in Update!ToSet(staged)}
                                      THEN [lock[s] EXCEPT !.commit = CommitOf(s)] ELSE lock[s]]
        BY <1>2 DEF Update!Apply, CommitOf
      <4> QED  BY <4>1
    <3> QED  BY <2>3, <3>1
  <2>5. disk' \in [Skills -> SUBSET Shown]
    <3>1. disk' = [s \in Skills |-> disk'[s]]
      <4>1. disk' = [s \in Skills |-> IF s \in {p.name : p \in Update!ToSet(staged)}
                                      THEN UpdateAsks[CommitOf(s)] ELSE disk[s]]
        BY <1>2 DEF Update!Apply, CommitOf
      <4> QED  BY <4>1
    <3> QED  BY <2>3, <3>1
  <2>6. pc = "apply" /\ pc' = "done" /\ tid' = tid + 1 /\ UNCHANGED edited  BY <1>2, UpdateWrites
  <2>7. Pristine'  BY <2>3, <2>6 DEF Pristine
  <2>8. tid' \in Nat /\ tid' >= tid /\ tid' # tid  BY <2>1, <2>6 DEF UpdateTypes
  <2>9. edited' \subseteq Skills /\ upstream' \in [Skills -> Commits]  BY <1>1, <2>1, <2>6 DEF UpdateTypes
  <2> QED  BY <1>1, <2>4, <2>5, <2>6, <2>7, <2>8, <2>9, UpdateStays
<1>3. CASE UNCHANGED Update!store
  <2>1. UNCHANGED <<lock, tid, disk, edited>>  BY <1>3 DEF Update!store
  <2>2. pc = "apply" /\ pc' = "done"
    BY DEF Update!Apply, Update!Succeed, Update!Fail, Update!Done
  <2>3. Pristine'  BY <2>1 DEF UpdateInv, Pristine
  <2>4. UpdateTypes  BY DEF UpdateInv
  <2> QED  BY <1>1, <2>1, <2>2, <2>3, <2>4, UpdateStays DEF UpdateTypes
<1> QED  BY <1>2, <1>3

(* Another process updates or removes a Skill, the user edits its files,   *)
(* or its source moves.                                                    *)
LEMMA UpdateOthers ==
  ASSUME UpdateInv, NEW s \in Skills, Update!OtherCommit(s) \/ Update!UserEdits(s) \/ Update!SourceMoves(s)
  PROVE  UpdateInv'
<1>1. /\ UNCHANGED <<approved, command, names, at, looking, view, pending, answers, staged, items>>
      /\ pc' = pc /\ UNCHANGED outcome
  BY DEF Update!OtherCommit, Update!UserEdits, Update!SourceMoves, Update!Others, Update!plan, Update!work
<1>2. UpdateTypes /\ Pristine  BY DEF UpdateInv
<1>3. /\ lock \in [Skills -> Update!LockRecords \cup {None}] /\ tid \in Nat /\ disk \in [Skills -> SUBSET Shown]
      /\ edited \subseteq Skills /\ upstream \in [Skills -> Commits]
  BY <1>2 DEF UpdateTypes
<1>4. CASE Update!OtherCommit(s)
  <2>1. /\ lock[s] # None /\ s \notin edited /\ tid' = tid + 1 /\ UNCHANGED <<edited, upstream>>
        /\ \/ \E c \in Commits : lock' = [lock EXCEPT ![s].commit = c] /\ disk' = [disk EXCEPT ![s] = UpdateAsks[c]]
           \/ lock' = [lock EXCEPT ![s] = None] /\ disk' = [disk EXCEPT ![s] = {}]
    BY <1>4 DEF Update!OtherCommit
  <2>2. ASSUME NEW c \in Commits, lock' = [lock EXCEPT ![s].commit = c], disk' = [disk EXCEPT ![s] = UpdateAsks[c]]
        PROVE  lock' \in [Skills -> Update!LockRecords \cup {None}] /\ disk' \in [Skills -> SUBSET Shown] /\ Pristine'
    <3>1. lock[s] \in Update!LockRecords  BY <1>3, <2>1
    <3>2. [lock[s] EXCEPT !.commit = c] \in Update!LockRecords /\ [lock[s] EXCEPT !.commit = c].commit = c
      BY <3>1 DEF Update!LockRecords
    <3>3. lock' = [lock EXCEPT ![s] = [lock[s] EXCEPT !.commit = c]]  BY <2>2
    <3>4. UpdateAsks[c] \in SUBSET Shown  BY DEF Shown
    <3>5. lock' \in [Skills -> Update!LockRecords \cup {None}] /\ disk' \in [Skills -> SUBSET Shown]
      BY <1>3, <2>2, <3>2, <3>3, <3>4
    <3> HIDE DEF Shown
    <3>6. Pristine'  BY <1>2, <1>3, <2>1, <2>2, <3>2, <3>3 DEF Pristine
    <3> QED  BY <3>5, <3>6
  <2>3. ASSUME lock' = [lock EXCEPT ![s] = None], disk' = [disk EXCEPT ![s] = {}]
        PROVE  lock' \in [Skills -> Update!LockRecords \cup {None}] /\ disk' \in [Skills -> SUBSET Shown] /\ Pristine'
    <3>1. lock' \in [Skills -> Update!LockRecords \cup {None}] /\ disk' \in [Skills -> SUBSET Shown]
      BY <1>3, <2>3
    <3>2. Pristine'  BY <1>2, <1>3, <2>1, <2>3 DEF Pristine
    <3> QED  BY <3>1, <3>2
  <2>4. lock' \in [Skills -> Update!LockRecords \cup {None}] /\ disk' \in [Skills -> SUBSET Shown] /\ Pristine'
    BY <2>1, <2>2, <2>3
  <2>5. tid' \in Nat /\ tid' >= tid /\ tid' # tid  BY <1>3, <2>1
  <2> QED  BY <1>1, <1>3, <2>1, <2>4, <2>5, UpdateStays
<1>5. CASE Update!UserEdits(s)
  <2>1. /\ lock[s] # None /\ edited' = edited \cup {s} /\ UNCHANGED <<lock, tid, upstream>>
        /\ \E shown \in SUBSET Shown : disk' = [disk EXCEPT ![s] = shown]
    BY <1>5 DEF Update!UserEdits, Shown
  <2>2. disk' \in [Skills -> SUBSET Shown] /\ Pristine'  BY <1>2, <1>3, <2>1 DEF Pristine
  <2> QED  BY <1>1, <1>3, <2>1, <2>2, UpdateStays
<1>6. CASE Update!SourceMoves(s)
  <2>1. UNCHANGED <<lock, tid, disk, edited>> /\ \E c \in Commits : upstream' = [upstream EXCEPT ![s] = c]
    BY <1>6 DEF Update!SourceMoves, Update!store
  <2>2. upstream' \in [Skills -> Commits] /\ Pristine'  BY <1>2, <1>3, <2>1 DEF Pristine
  <2> QED  BY <1>1, <1>3, <2>1, <2>2, UpdateStays
<1> QED  BY <1>4, <1>5, <1>6

(* Every step of the command and of what happens beside it.                *)
LEMMA UpdateStep == UpdateInv /\ (Update!Next \/ UNCHANGED Update!vars) => UpdateInv'
<1>1. UpdateInv /\ Update!Next => UpdateInv'
  BY UpdateLooks, UpdateAsksSource, UpdateCompares, UpdateJudges, UpdateGates, UpdateApplies, UpdateOthers
  DEF Update!Next, Update!Environment
<1>2. UpdateInv /\ UNCHANGED Update!vars => UpdateInv'
  <2> SUFFICES ASSUME UpdateInv, UNCHANGED Update!vars PROVE UpdateInv'  OBVIOUS
  <2>1. /\ UNCHANGED <<lock, tid, disk, edited, upstream, approved, command, names, at, looking, view, pending, answers,
                       staged, items>>
        /\ pc' = pc /\ UNCHANGED outcome
    BY DEF Update!vars, Update!store, Update!env, Update!plan, Update!work
  <2>2. UpdateTypes /\ Pristine  BY DEF UpdateInv
  <2>3. Pristine'  BY <2>1, <2>2 DEF Pristine
  <2> QED  BY <2>1, <2>2, <2>3, UpdateStays DEF UpdateTypes
<1> QED  BY <1>1, <1>2

(* A Skill changes in the store as the command ends, and goes on from what *)
(* was reviewed.                                                           *)
LEMMA UpdateForward ==
  ASSUME UpdateInv, Update!Next \/ UNCHANGED Update!vars
  PROVE  Update!ForwardOnly
<1> SUFFICES ASSUME NEW s \in Skills, pc' # pc, lock'[s] # lock[s]
             PROVE  LET old == lock[s]  new == lock'[s] IN
                    /\ command \in {"update", "selected"} /\ old # None /\ new # None /\ s \notin edited
                    /\ old.status = "verified" /\ Update!Followed(old)
                    /\ new.commit # old.commit /\ History[old.commit] \subseteq History[new.commit]
                    /\ UpdateAsks[new.commit] \subseteq
                         UpdateAsks[old.commit] \cup approved[s] \cup (IF command = "update" THEN Allowed ELSE {})
  BY DEF Update!ForwardOnly
<1>1. Update!Apply /\ ~UNCHANGED Update!store
  <2>1. ~UNCHANGED Update!store  BY DEF Update!store
  <2>2. ~UNCHANGED Update!vars  BY <2>1 DEF Update!vars
  <2>3. ~Update!Environment
    BY DEF Update!Environment, Update!OtherCommit, Update!UserEdits, Update!SourceMoves, Update!Others
  <2>4. ~Update!Look /\ ~Update!AskSource /\ ~Update!Compare /\ ~Update!Judge /\ ~Update!Gate
    BY <2>1 DEF Update!Look, Update!AskSource, Update!Compare, Update!Judge, Update!Gate
  <2> QED  BY <2>1, <2>2, <2>3, <2>4 DEF Update!Next
<1>2. PICK i \in 1..Len(staged) : s = staged[i].name  BY <1>1, UpdateWrites
<1>3. /\ staged[i] \in Compared /\ staged[i].view.tid = tid /\ staged[i].view.record = lock[s] /\ s \notin edited
      /\ lock'[s] = [lock[s] EXCEPT !.commit = staged[i].latest] /\ pc = "apply"
  BY <1>1, <1>2, UpdateWrites
<1>4. lock[s] \in Update!LockRecords /\ staged[i].latest \in Commits  BY <1>3 DEF Compared, Views
<1>5. lock'[s] \in Update!LockRecords /\ lock'[s].commit = staged[i].latest  BY <1>3, <1>4 DEF Update!LockRecords
<1>6. command \in {"update", "selected"}  BY <1>3 DEF UpdateInv, AnswersFit
<1>7. Differs(staged[i]) /\ Forward(staged[i])  BY <1>2 DEF UpdateInv, AskedOnce
<1>8. Update!Followed(lock[s]) /\ lock[s].status = "verified" /\ staged[i].latest # lock[s].commit
  BY <1>3, <1>6, <1>7 DEF Differs, Asked
<1>9. /\ History[lock[s].commit] \subseteq History[staged[i].latest]
      /\ UpdateAsks[staged[i].latest] \subseteq UpdateAsks[lock[s].commit] \cup approved[s] \cup Permitted
  BY <1>2, <1>3, <1>7 DEF Forward
<1> QED  BY <1>3, <1>4, <1>5, <1>6, <1>8, <1>9, UpdateFacts DEF Permitted

(* What the command says it updated, it wrote as it ended.                 *)
LEMMA UpdateSays ==
  ASSUME UpdateInv, Update!Next \/ UNCHANGED Update!vars
  PROVE  Update!SaysWhatItDid
<1> SUFFICES ASSUME pc' = "done", pc # "done"
             PROVE  IF outcome'.kind = "ok" THEN \A s \in outcome'.updated : lock'[s] # lock[s]
                    ELSE UNCHANGED Update!store
  BY DEF Update!SaysWhatItDid
<1>1. ~UNCHANGED Update!vars /\ ~Update!Environment
  BY DEF Update!vars, Update!Environment, Update!OtherCommit, Update!UserEdits, Update!SourceMoves, Update!Others
<1>2. CASE Update!Apply /\ ~UNCHANGED Update!store
  <2>1. outcome' = [kind |-> "ok", updated |-> {staged[i].name : i \in 1..Len(staged)}]  BY <1>2, UpdateWrites
  <2>2. ASSUME NEW i \in 1..Len(staged) PROVE lock'[staged[i].name] # lock[staged[i].name]
    <3>1. /\ staged[i] \in Compared /\ staged[i].view.record = lock[staged[i].name]
          /\ lock'[staged[i].name] = [lock[staged[i].name] EXCEPT !.commit = staged[i].latest]
      BY <1>2, UpdateWrites
    <3>2. lock[staged[i].name] \in Update!LockRecords  BY <3>1 DEF Compared, Views
    <3>3. staged[i].latest # lock[staged[i].name].commit  BY <3>1 DEF UpdateInv, AskedOnce, Differs
    <3>4. lock'[staged[i].name].commit = staged[i].latest  BY <3>1, <3>2 DEF Update!LockRecords
    <3> QED  BY <3>3, <3>4
  <2> QED  BY <2>1, <2>2
<1>3. CASE UNCHANGED Update!store
  <2>1. CASE outcome'.kind # "ok"  BY <1>3, <2>1
  <2>2. CASE outcome'.kind = "ok" /\ Update!Apply
    <3>1. /\ \A p \in Update!ToSet(staged) : Update!StillReviewed(p)
          /\ tid' = tid + 1
      BY <2>2 DEF Update!Apply, Update!Fail, Update!Done
    <3>2. tid \in Nat /\ tid' = tid  BY <1>3 DEF UpdateInv, UpdateTypes, Update!store
    <3> QED  BY <3>1, <3>2
  <2>3. CASE outcome'.kind = "ok" /\ ~Update!Apply
    <3>1. Update!Look \/ Update!AskSource \/ Update!Compare \/ Update!Judge \/ Update!Gate
      BY <1>1, <2>3 DEF Update!Next
    <3>2. ~Update!Look /\ ~Update!AskSource /\ ~Update!Judge /\ ~Update!Gate
      <4>1. \A code : ~Update!Fail(code)  BY <2>3 DEF Update!Fail, Update!Done
      <4> QED  BY <4>1, Zenon DEF Update!Look, Update!AskSource, Update!Judge, Update!Gate
    <3>3. Update!Compare  BY <3>1, <3>2
    <3>4. Update!Succeed({})
      <4>1. \A code : ~Update!Fail(code)  BY <2>3 DEF Update!Fail, Update!Done
      <4> QED  BY <3>3, <4>1 DEF Update!Compare
    <3>5. outcome'.updated = {}  BY <3>4 DEF Update!Succeed, Update!Done
    <3> QED  BY <2>3, <3>5
  <2> QED  BY <2>1, <2>2, <2>3
<1>4. CASE ~Update!Apply /\ ~UNCHANGED Update!store
  BY <1>1, <1>4 DEF Update!Next, Update!Look, Update!AskSource, Update!Compare, Update!Judge, Update!Gate
<1> QED  BY <1>2, <1>3, <1>4

(* The types that the runs check.                                          *)
LEMMA UpdateTyped == UpdateInv => Update!TypeOK
<1> SUFFICES ASSUME UpdateInv PROVE Update!TypeOK  OBVIOUS
<1>1. UpdateTypes /\ AskedOnce  BY DEF UpdateInv
<1>2. \A s \in Skills : lock[s] # None => lock[s].commit \in Commits  BY <1>1 DEF UpdateTypes, Update!LockRecords
<1>3. Len(staged) + Len(pending) <= Update!Cardinality(Skills)
  <2>1. Len(names) <= Cardinality(Skills) /\ Cardinality(Skills) \in Nat  BY <1>1, EachOnce DEF UpdateTypes
  <2>2. Len(staged) + Len(pending) <= at - 1  BY <1>1 DEF AskedOnce
  <2>3. at - 1 <= Len(names) /\ Len(names) \in Nat /\ at \in Nat /\ Len(staged) \in Nat /\ Len(pending) \in Nat
    BY <1>1 DEF UpdateTypes
  <2>4. Update!Cardinality(Skills) = Cardinality(Skills)  BY UpdateCounts
  <2> QED  BY <2>1, <2>2, <2>3, <2>4
<1> QED  BY <1>1, <1>2, <1>3 DEF UpdateTypes, Update!TypeOK
=============================================================================
