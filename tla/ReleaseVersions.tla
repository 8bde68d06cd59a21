---------------------------- MODULE ReleaseVersions ----------------------------
(***************************************************************************)
(* The order of release versions (core/src/release.rs, is_release_version; *)
(* command/src/upgrade.rs, Version) that decides what counts as newer.     *)
(*                                                                         *)
(* A value is what the code sees after it splits a text at its first dash  *)
(* and at dots: parts, each a sequence of bytes.                           *)
(***************************************************************************)
EXTENDS Naturals, Sequences, SequencesExt

CONSTANTS
  Cores, Prereleases,  \* parts of the texts to compare
  MaxPart,             \* longest identifier (32)
  MaxNumber,           \* most digits of a core number (9)
  MaxU64               \* the largest number that parse::<u64> takes

Byte == 0..255

VersionsAssumption ==
  /\ {MaxPart, MaxNumber, MaxU64} \subseteq Nat
  /\ Cores \cup Prereleases \subseteq Seq(Seq(Byte))

(* ASCII *)
Digits == 48..57
Alphanumeric == Digits \cup 65..90 \cup 97..122

IsNumber(part) ==
  /\ Len(part) \in 1..MaxNumber
  /\ Range(part) \subseteq Digits
  /\ part = <<48>> \/ part[1] # 48

IsIdentifier(part) ==
  Len(part) \in 1..MaxPart /\ Range(part) \subseteq Alphanumeric

IsReleaseVersion(v) ==
  /\ Len(v.core) = 3 /\ \A i \in 1..3 : IsNumber(v.core[i])
  /\ \A i \in DOMAIN v.prerelease : IsIdentifier(v.prerelease[i])

(* parse::<u64>: the number that the first n digits make, for each n.      *)
ValueUpTo(part) ==
  LET upTo[n \in 0..Len(part)] == IF n = 0 THEN 0 ELSE 10 * upTo[n - 1] + (part[n] - 48)
  IN upTo
Value(part) == ValueUpTo(part)[Len(part)]
IsU64(part) == part # <<>> /\ Range(part) \subseteq Digits /\ Value(part) <= MaxU64

CompareNumbers(m, n) == CASE m < n -> "less" [] m = n -> "equal" [] m > n -> "greater"

(* The first element that decides, or the lengths; how holds the answers   *)
(* for the elements both have.                                             *)
Common(s, t) == 1..(IF Len(s) < Len(t) THEN Len(s) ELSE Len(t))
Compare(s, t, how) ==
  LET differ == {i \in Common(s, t) : how[i] # "equal"}
  IN IF differ = {} THEN CompareNumbers(Len(s), Len(t)) ELSE how[Min(differ)]

CompareText(s, t) == Compare(s, t, [i \in Common(s, t) |-> CompareNumbers(s[i], t[i])])
CompareCores(s, t) == Compare(s, t, [i \in Common(s, t) |-> CompareNumbers(Value(s[i]), Value(t[i]))])

CompareIdentifiers(s, t) ==
  CASE IsU64(s) /\ IsU64(t)   -> CompareNumbers(Value(s), Value(t))
    [] IsU64(s) /\ ~IsU64(t)  -> "less"
    [] ~IsU64(s) /\ IsU64(t)  -> "greater"
    [] ~IsU64(s) /\ ~IsU64(t) -> CompareText(s, t)

(* Faulty variant: numbers are compared as text with words. *)
CompareMixed(s, t) ==
  IF IsU64(s) /\ IsU64(t) THEN CompareNumbers(Value(s), Value(t)) ELSE CompareText(s, t)

(* Faulty variant: a prerelease always counts as more than its release. *)
CompareByLength(v, w) ==
  LET core == CompareCores(v.core, w.core)
  IN IF core # "equal" THEN core ELSE Compare(v.prerelease, w.prerelease,
                      [i \in Common(v.prerelease, w.prerelease) |-> CompareMixed(v.prerelease[i], w.prerelease[i])])

(* Version::cmp; a release has no prerelease and comes after all of them. *)
CompareVersions(v, w) ==
  LET core == CompareCores(v.core, w.core)
  IN CASE core # "equal" -> core
       [] core = "equal" /\ v.prerelease = <<>> /\ w.prerelease = <<>> -> "equal"
       [] core = "equal" /\ v.prerelease = <<>> /\ w.prerelease # <<>> -> "greater"
       [] core = "equal" /\ v.prerelease # <<>> /\ w.prerelease = <<>> -> "less"
       [] OTHER -> Compare(v.prerelease, w.prerelease,
                        [i \in Common(v.prerelease, w.prerelease) |->
                           CompareIdentifiers(v.prerelease[i], w.prerelease[i])])

IsNewer(candidate, current) ==
  /\ IsReleaseVersion(candidate) /\ IsReleaseVersion(current)
  /\ CompareVersions(candidate, current) = "greater"

-----------------------------------------------------------------------------
(* Every three texts are compared once. *)
VARIABLES x, y, z

Texts == [core: Cores, prerelease: Prereleases]
Init == x \in Texts /\ y \in Texts /\ z = x
Next == z = x /\ z' \in Texts /\ UNCHANGED <<x, y>>
Spec == Init /\ [][Next]_<<x, y, z>>

(* An upgrade path never turns round: newer is a strict order, and two     *)
(* releases neither of which is newer have the same versions above them    *)
(* (is_newer, upgrade.rs:120).                                             *)
StrictOrder ==
  /\ ~(IsNewer(x, y) /\ IsNewer(y, x)) /\ ~IsNewer(x, x)
  /\ IsNewer(x, y) /\ IsNewer(y, z) => IsNewer(x, z)
  /\ IsNewer(x, z) /\ IsReleaseVersion(y) => IsNewer(x, y) \/ IsNewer(y, z)

(* Semantic versioning, told by what differs first: numbers below words,   *)
(* fewer identifiers below more, a prerelease below its release.  To it an *)
(* identifier of digits alone is a number, however large.                  *)
IsNumeric(part) == part # <<>> /\ Range(part) \subseteq Digits

Below(s, t) ==
  \/ IsNumeric(s) /\ IsNumeric(t) /\ Value(s) < Value(t)
  \/ IsNumeric(s) /\ ~IsNumeric(t)
  \/ /\ ~IsNumeric(s) /\ ~IsNumeric(t) /\ s # t
     /\ \E i \in 1..(Len(s) + 1) :
          /\ i <= Len(t) /\ \A j \in 1..(i - 1) : s[j] = t[j]
          /\ i > Len(s) \/ s[i] < t[i]

Same(s, t) == s = t \/ (IsNumeric(s) /\ IsNumeric(t) /\ Value(s) = Value(t))

SemverNewer(v, w) ==
  \/ \E i \in 1..3 : /\ \A j \in 1..(i - 1) : v.core[j] = w.core[j]
                     /\ Value(w.core[i]) < Value(v.core[i])
  \/ /\ v.core = w.core
     /\ \/ v.prerelease = <<>> /\ w.prerelease # <<>>
        \/ /\ v.prerelease # <<>>
           /\ \E i \in 1..Len(v.prerelease) :
                /\ i - 1 <= Len(w.prerelease) /\ w.prerelease # <<>>
                /\ \A j \in 1..(i - 1) : Same(v.prerelease[j], w.prerelease[j])
                /\ i > Len(w.prerelease) \/ Below(w.prerelease[i], v.prerelease[i])

(* On every pair of release versions whose numbers all fit a u64, is_newer *)
(* says what semantic versioning says.  (A longer run of digits it takes   *)
(* for a word: the order is then still one, but another.)                  *)
NumbersFit(v) == \A i \in DOMAIN v.prerelease : IsNumeric(v.prerelease[i]) => Value(v.prerelease[i]) <= MaxU64

AgreesWithSemver ==
  /\ IsReleaseVersion(x) /\ IsReleaseVersion(y) /\ NumbersFit(x) /\ NumbersFit(y)
  => (IsNewer(x, y) <=> SemverNewer(x, y))

=============================================================================
