---------------------------- MODULE ScreensProofs ----------------------------
(***************************************************************************)
(* Proofs about the interactive screens and the line of progress, for      *)
(* every set of Skills, ranges, reports, filters and sizes and for every   *)
(* bound: a screen changes only what it shows, reports what was done, and  *)
(* never points outside its lists.                                         *)
(***************************************************************************)
EXTENDS Screens, Sorting, FiniteSetTheorems, SequenceTheorems, TLAPS

-----------------------------------------------------------------------------
(* Finite sets, by induction on the number of their elements.  A family of *)
(* parts of a finite set has a member that is smallest.                    *)
LEMMA SmallestExists ==
  ASSUME NEW X, IsFiniteSet(X), NEW Bad \in SUBSET SUBSET X, Bad # {}
  PROVE  \E T \in Bad : \A x \in T : T \ {x} \notin Bad
<1>1. \A T \in SUBSET X : IsFiniteSet(T)  BY FS_Subset
<1>2. Bad \subseteq FiniteSubsetsOf(X)  BY <1>1 DEF FiniteSubsetsOf
<1>3. PICK T \in Bad : \A W \in Bad : <<W, T>> \notin StrictSubsetOrdering(X)
  BY <1>2, FS_StrictSubsetOrderingWellFounded, WFMin
<1>4. \A x \in T : T \ {x} \in Bad => <<T \ {x}, T>> \in StrictSubsetOrdering(X)
  BY DEF StrictSubsetOrdering
<1> QED  BY <1>3, <1>4

(* What the empty set has and one more element keeps, every finite set has.*)
LEMMA FiniteInduction ==
  ASSUME NEW X, IsFiniteSet(X), NEW Good, {} \in Good,
         \A T \in SUBSET X, x \in X : T \in Good => T \cup {x} \in Good
  PROVE  X \in Good
<1> SUFFICES ASSUME X \notin Good PROVE FALSE  OBVIOUS
<1> DEFINE Bad == {T \in SUBSET X : T \notin Good}
<1>1. Bad \in SUBSET SUBSET X /\ Bad # {}  OBVIOUS
<1>2. PICK T \in Bad : \A x \in T : T \ {x} \notin Bad
  <2> HIDE DEF Bad
  <2> QED  BY <1>1, SmallestExists
<1>3. PICK x \in T : TRUE  OBVIOUS
<1>4. (T \ {x}) \cup {x} = T /\ T \ {x} \in Good  BY <1>2, <1>3
<1> QED  BY <1>3, <1>4

LEMMA LargestExists ==
  ASSUME NEW X \in SUBSET Nat, IsFiniteSet(X), X # {}
  PROVE  \E n \in X : \A m \in X : m <= n
<1> DEFINE Good == {T \in SUBSET X : T = {} \/ \E n \in T : \A m \in T : m <= n}
<1>1. {} \in Good  OBVIOUS
<1>2. ASSUME NEW T \in SUBSET X, NEW x \in X, T \in Good PROVE T \cup {x} \in Good
  <2>1. CASE T = {}  BY <2>1
  <2>2. CASE T # {}
    <3>1. PICK n \in T : \A m \in T : m <= n  BY <1>2, <2>2
    <3>2. CASE x <= n  BY <3>1, <3>2
    <3>3. CASE n <= x  BY <3>1, <3>3
    <3> QED  BY <3>2, <3>3
  <2> QED  BY <2>1, <2>2
<1> HIDE DEF Good
<1>3. X \in Good  BY <1>1, <1>2, FiniteInduction
<1> QED  BY <1>3 DEF Good

Ordered(X, s) ==
  /\ s \in [1..Cardinality(X) -> X]
  /\ \A i, j \in DOMAIN s : i < j => s[i] < s[j]

(* A finite set of numbers can be sorted: all but the largest first.       *)
LEMMA OrderExists ==
  ASSUME NEW X \in SUBSET Nat, IsFiniteSet(X)
  PROVE  \E s : Ordered(X, s)
<1> SUFFICES ASSUME ~ \E s : Ordered(X, s) PROVE FALSE  OBVIOUS
<1> DEFINE Bad == {T \in SUBSET X : ~ \E s : Ordered(T, s)}
<1>1. PICK T \in Bad : \A x \in T : T \ {x} \notin Bad
  <2>1. Bad \in SUBSET SUBSET X /\ Bad # {}  OBVIOUS
  <2> HIDE DEF Bad
  <2> QED  BY <2>1, SmallestExists
<1>2. T \in SUBSET Nat /\ T \subseteq X /\ ~ \E s : Ordered(T, s)  OBVIOUS
<1>3. IsFiniteSet(T)  BY <1>2, FS_Subset
<1>4. T # {}
  <2>1. Ordered({}, [i \in {} |-> i])  BY FS_EmptySet DEF Ordered
  <2> QED  BY <1>2, <2>1
<1>5. PICK n \in T : \A m \in T : m <= n  BY <1>2, <1>3, <1>4, LargestExists
<1>6. PICK s : Ordered(T \ {n}, s)  BY <1>1, <1>2
<1>7. Cardinality(T) \in Nat /\ Cardinality(T) > 0 /\ Cardinality(T \ {n}) = Cardinality(T) - 1
  <2>1. Cardinality(T) \in Nat  BY <1>3, FS_CardinalityType
  <2>2. Cardinality(T) # 0  BY <1>3, <1>4, FS_EmptySet
  <2>3. Cardinality(T \ {n}) = Cardinality(T) - 1  BY <1>3, FS_RemoveElement
  <2> QED  BY <2>1, <2>2, <2>3
<1> DEFINE t == [i \in 1..Cardinality(T) |-> IF i = Cardinality(T) THEN n ELSE s[i]]
<1>8. \A i \in 1..Cardinality(T) : i # Cardinality(T) => i \in 1..(Cardinality(T) - 1)  BY <1>7
<1>9. t \in [1..Cardinality(T) -> T]  BY <1>6, <1>7, <1>8 DEF Ordered
<1>10. \A i, j \in DOMAIN t : i < j => t[i] < t[j]
  <2> SUFFICES ASSUME NEW i \in 1..Cardinality(T), NEW j \in 1..Cardinality(T), i < j
               PROVE  t[i] < t[j]
    OBVIOUS
  <2>1. i \in 1..(Cardinality(T) - 1) /\ t[i] = s[i]  BY <1>7
  <2>2. s[i] \in T /\ s[i] # n /\ s[i] \in Nat /\ n \in Nat  BY <2>1, <1>6, <1>7, <1>2 DEF Ordered
  <2>3. CASE j = Cardinality(T)
    <3>1. t[j] = n /\ s[i] <= n  BY <2>3, <2>2, <1>5
    <3> QED  BY <3>1, <2>1, <2>2
  <2>4. CASE j # Cardinality(T)
    <3>1. j \in 1..(Cardinality(T) - 1) /\ t[j] = s[j]  BY <2>4, <1>7
    <3> QED  BY <3>1, <2>1, <1>6, <1>7 DEF Ordered
  <2> QED  BY <2>3, <2>4
<1>11. Ordered(T, t)  BY <1>9, <1>10 DEF Ordered
<1> QED  BY <1>11, <1>2

(* InOrder does: as many elements as k are not greater than the k-th.      *)
LEMMA InOrderIsOrdered ==
  ASSUME NEW X \in SUBSET Nat, IsFiniteSet(X)
  PROVE  Ordered(X, InOrder(X))
<1>1. PICK s : Ordered(X, s)  BY OrderExists
<1> DEFINE n == Cardinality(X)
           upTo(x) == {m \in X : m <= x}
<1>2. n \in Nat  BY FS_CardinalityType
<1>3. s \in [1..n -> X] /\ \A i, j \in 1..n : i < j => s[i] < s[j]  BY <1>1 DEF Ordered
<1>4. \A i \in 1..n : s[i] \in Nat  BY <1>3
<1>5. \A i, j \in 1..n : s[i] <= s[j] => i <= j  BY <1>2, <1>3, <1>4
<1>6. \A i, j \in 1..n : s[i] = s[j] => i = j  BY <1>2, <1>4, <1>5
<1>7. \A x \in X : \E i \in 1..n : s[i] = x
  <2>1. s \in Injection(1..n, X)  BY <1>3, <1>6 DEF Injection, IsInjective
  <2>2. IsFiniteSet(1..n) /\ Cardinality(1..n) = n  BY <1>2, FS_Interval
  <2>3. s \in Surjection(1..n, X)  BY <2>1, <2>2, FS_Injection
  <2> QED  BY <2>3 DEF Surjection
<1>8. ASSUME NEW k \in 1..n PROVE Cardinality(upTo(s[k])) = k
  <2> DEFINE t == [i \in 1..k |-> s[i]]
  <2>1. \A i \in 1..k : i \in 1..n /\ s[i] <= s[k]  BY <1>2, <1>3, <1>4
  <2>2. t \in [1..k -> upTo(s[k])]  BY <1>3, <2>1
  <2>3. \A i, j \in 1..k : t[i] = t[j] => i = j  BY <1>6, <2>1
  <2>4. \A x \in upTo(s[k]) : \E i \in 1..k : t[i] = x
    <3> TAKE x \in upTo(s[k])
    <3>1. PICK i \in 1..n : s[i] = x  BY <1>7
    <3>2. i \in 1..k  BY <1>5, <3>1
    <3> QED  BY <3>1, <3>2
  <2> HIDE DEF t
  <2>5. t \in Bijection(1..k, upTo(s[k]))
    BY <2>2, <2>3, <2>4 DEF Bijection, Injection, IsInjective, Surjection
  <2>6. k \in Nat /\ IsFiniteSet(1..k) /\ Cardinality(1..k) = k  BY <1>2, FS_Interval
  <2> QED  BY <2>5, <2>6, FS_Bijection DEF ExistsBijection
<1>9. ASSUME NEW k \in 1..n PROVE InOrder(X)[k] = s[k]
  <2>1. InOrder(X)[k] \in X /\ Cardinality(upTo(InOrder(X)[k])) = k
    <3>1. \E x \in X : Cardinality(upTo(x)) = k  BY <1>3, <1>8
    <3> QED  BY <3>1 DEF InOrder
  <2>2. PICK j \in 1..n : s[j] = InOrder(X)[k]  BY <1>7, <2>1
  <2>3. j = k  BY <1>8, <2>1, <2>2
  <2> QED  BY <2>2, <2>3
<1>10. InOrder(X) = s  BY <1>3, <1>9 DEF InOrder
<1> QED  BY <1>1, <1>10

(* So InOrder lists every element of a finite set of numbers once.         *)
LEMMA InOrderLists ==
  ASSUME NEW X \in SUBSET Nat, IsFiniteSet(X)
  PROVE  /\ Cardinality(X) \in Nat
         /\ InOrder(X) \in Seq(X) /\ Len(InOrder(X)) = Cardinality(X)
         /\ \A x \in X : \E i \in 1..Cardinality(X) : InOrder(X)[i] = x
         /\ \A i \in 1..Cardinality(X) : InOrder(X)[i] \in X
         /\ \A i, j \in 1..Cardinality(X) : InOrder(X)[i] = InOrder(X)[j] => i = j
<1> DEFINE n == Cardinality(X)  s == InOrder(X)
<1>1. n \in Nat  BY FS_CardinalityType
<1>2. Ordered(X, s)  BY InOrderIsOrdered
<1>3. s \in [1..n -> X] /\ \A i, j \in 1..n : i < j => s[i] < s[j]  BY <1>2 DEF Ordered
<1>4. \A i, j \in 1..n : s[i] = s[j] => i = j
  <2> SUFFICES ASSUME NEW i \in 1..n, NEW j \in 1..n, s[i] = s[j], i # j PROVE FALSE  OBVIOUS
  <2>1. s[i] \in Nat  BY <1>3
  <2>2. i < j \/ j < i  BY <1>1
  <2> QED  BY <2>1, <2>2, <1>3
<1>5. s \in Injection(1..n, X)  BY <1>3, <1>4 DEF Injection, IsInjective
<1>6. IsFiniteSet(1..n) /\ Cardinality(1..n) = n  BY <1>1, FS_Interval
<1>7. s \in Surjection(1..n, X)  BY <1>5, <1>6, FS_Injection
<1>8. \A x \in X : \E i \in 1..n : s[i] = x  BY <1>7 DEF Surjection
<1>9. s \in Seq(X) /\ Len(s) = n
  <2> HIDE DEF n, s
  <2> QED  BY <1>1, <1>3
<1> QED  BY <1>1, <1>3, <1>4, <1>8, <1>9

(* The screens count and sort as this module does. *)
LEMMA InstancesAgree ==
  ASSUME NEW X
  PROVE  /\ P!Cardinality(X) = Cardinality(X) /\ P!InOrder(X) = InOrder(X) /\ P!IsFiniteSet(X) = IsFiniteSet(X)
         /\ D!Cardinality(X) = Cardinality(X) /\ D!InOrder(X) = InOrder(X) /\ D!IsFiniteSet(X) = IsFiniteSet(X)
         /\ U!Cardinality(X) = Cardinality(X) /\ U!InOrder(X) = InOrder(X) /\ U!IsFiniteSet(X) = IsFiniteSet(X)
<1>1. P!Cardinality(X) = Cardinality(X) /\ D!Cardinality(X) = Cardinality(X)
      /\ U!Cardinality(X) = Cardinality(X)
  BY DEF P!Cardinality, D!Cardinality, U!Cardinality, Cardinality
<1>2. P!InOrder(X) = InOrder(X) /\ D!InOrder(X) = InOrder(X) /\ U!InOrder(X) = InOrder(X)
  BY Zenon DEF P!InOrder, D!InOrder, U!InOrder, InOrder, P!Cardinality, D!Cardinality, U!Cardinality, Cardinality
<1>3. P!IsFiniteSet(X) = IsFiniteSet(X) /\ D!IsFiniteSet(X) = IsFiniteSet(X)
      /\ U!IsFiniteSet(X) = IsFiniteSet(X)
  BY Zenon DEF P!IsFiniteSet, D!IsFiniteSet, U!IsFiniteSet, IsFiniteSet
<1> QED  BY <1>1, <1>2, <1>3

-----------------------------------------------------------------------------
LEMMA AppendOne ==
  ASSUME NEW a, NEW b
  PROVE  Append(<<a>>, b) = <<a, b>>
<1>1. <<a>> \in Seq({a, b}) /\ <<a, b>> \in Seq({a, b}) /\ Len(<<a>>) = 1 /\ Len(<<a, b>>) = 2
  OBVIOUS
<1>2. Append(<<a>>, b) \in Seq({a, b}) /\ Len(Append(<<a>>, b)) = 2  BY <1>1, AppendProperties
<1>3. Append(<<a>>, b)[1] = a /\ Append(<<a>>, b)[2] = b  BY <1>1, AppendProperties
<1>4. \A i \in 1..2 : Append(<<a>>, b)[i] = <<a, b>>[i]  BY <1>3
<1> QED  BY <1>1, <1>2, <1>4, SeqEqual

LEMMA HeadAndTail ==
  ASSUME NEW a, NEW b
  PROVE  /\ Head(<<a>>) = a /\ Tail(<<a>>) = <<>> /\ <<a>> # <<>>
         /\ Head(<<a, b>>) = a /\ Tail(<<a, b>>) = <<b>> /\ <<a, b>> # <<>>
OBVIOUS

-----------------------------------------------------------------------------
(* The line of progress.  What was written stays because its writer has    *)
(* stopped the painter before, and once it has, no frame is on the screen. *)
StatusInv ==
  /\ label \in Stages
  /\ terminal = S!Text \/ prompt # "none" \/ command \in {"writing", "done"} => stopped
  /\ stopped => terminal \notin Stages
  /\ command = "running" => answer = "none"
  /\ prompt = "open" => command = "running"
  /\ command = "answering" => terminal # S!Text
  /\ S!AnswersWhole /\ S!LineIsErased

LEMMA StatusInit == S!Init => StatusInv
BY StatusAssumption
   DEF S!Init, S!StatusAssumption, S!Blank, S!Text, S!AnswersWhole, S!LineIsErased, StatusInv

LEMMA StatusStep ==
  ASSUME StatusInv, [S!Next]_statusVars
  PROVE  StatusInv' /\ S!Stands
<1> USE StatusAssumption
    DEF S!StatusAssumption, S!AnswersWhole, S!LineIsErased, S!Stands, S!Text, S!AnswerLine, StatusInv
<1>1. CASE S!Tick  BY <1>1 DEF S!Tick
<1>2. CASE S!Wake  BY <1>2 DEF S!Wake
<1>3. CASE S!Paint  BY <1>3 DEF S!Paint
<1>4. CASE S!SetLabel  BY <1>4 DEF S!SetLabel
<1>5. CASE S!OpenPrompt  BY <1>5 DEF S!OpenPrompt, S!Stop, S!Text, S!Blank
<1>6. CASE S!ShowPrompt  BY <1>6 DEF S!ShowPrompt
<1>7. CASE S!FinishStatus  BY <1>7 DEF S!FinishStatus, S!Stop, S!Text, S!Blank
<1>8. CASE S!Write  BY <1>8 DEF S!Write
<1>10. CASE S!Answer  BY <1>10 DEF S!Answer
<1>11. CASE S!EndAnswer  BY <1>11 DEF S!EndAnswer, S!Blank
<1>9. CASE UNCHANGED statusVars  BY <1>9 DEF statusVars
<1> QED  BY <1>1, <1>2, <1>3, <1>4, <1>5, <1>6, <1>7, <1>8, <1>9, <1>10, <1>11 DEF S!Next, S!Painting

-----------------------------------------------------------------------------
(* The picker.                                                             *)
PickerInv ==
  /\ chosen \subseteq 1..Listed
  /\ shown.length \in 0..MaxFilter /\ shown.matches \subseteq 1..Listed
  /\ cursor \in Nat
  /\ IF shown.matches = {} THEN cursor = 0 ELSE cursor < Cardinality(shown.matches)
  /\ outcome = P!NoOutcome => Listed >= 2

(* What is shown is a part of the list.                                    *)
LEMMA ShownIsFinite ==
  ASSUME NEW X \in SUBSET (1..Listed)
  PROVE  /\ IsFiniteSet(X) /\ Cardinality(X) \in Nat /\ Cardinality(X) <= Listed
         /\ X = {} <=> Cardinality(X) = 0
         /\ Listed \in Nat /\ Cardinality(1..Listed) = Listed
<1>1. Listed \in Nat  BY PickerAssumption DEF P!PickerAssumption
<1>2. IsFiniteSet(1..Listed) /\ Cardinality(1..Listed) = Listed  BY <1>1, FS_Interval
<1>3. IsFiniteSet(X) /\ Cardinality(X) <= Listed  BY <1>2, FS_Subset
<1>4. Cardinality(X) \in Nat  BY <1>3, FS_CardinalityType
<1> QED  BY <1>1, <1>2, <1>3, <1>4, FS_EmptySet

LEMMA VisibleLists ==
  ASSUME PickerInv
  PROVE  /\ Len(P!Visible(shown)) = Cardinality(shown.matches)
         /\ \A i \in 1..Cardinality(shown.matches) : P!Visible(shown)[i] \in shown.matches
<1>1. shown.matches \in SUBSET Nat /\ IsFiniteSet(shown.matches)  BY ShownIsFinite DEF PickerInv
<1>2. P!Visible(shown) = InOrder(shown.matches)  BY InstancesAgree DEF P!Visible
<1> QED  BY <1>1, <1>2, InOrderLists

LEMMA PickerInit == P!Init => PickerInv
<1> SUFFICES ASSUME P!Init PROVE PickerInv  OBVIOUS
<1>1. shown.length = 0 /\ shown.matches = 1..Listed /\ chosen = {} /\ cursor = 0
  BY DEF P!Init, P!NoFilter
<1>2. Listed \in Nat /\ MaxFilter \in Nat  BY PickerAssumption DEF P!PickerAssumption
<1>3. Cardinality(1..Listed) = Listed  BY ShownIsFinite, <1>2
<1>4. IF shown.matches = {} THEN cursor = 0 ELSE cursor < Cardinality(shown.matches)
  BY <1>1, <1>2, <1>3
<1>5. outcome = P!NoOutcome => Listed >= 2  BY <1>2 DEF P!Init, P!NoOutcome
<1> QED  BY <1>1, <1>2, <1>4, <1>5 DEF PickerInv

(* A key changes no mark but the one under the cursor, or those of all     *)
(* that are shown.                                                         *)
PickerStepIsShown ==
  LET changed == (chosen \ chosen') \cup (chosen' \ chosen)
  IN /\ changed \subseteq shown.matches
     /\ \/ Cardinality(changed) <= 1
        \/ shown.matches \subseteq chosen' \/ shown.matches \cap chosen' = {}

LEMMA NothingChanged == chosen' = chosen => PickerStepIsShown
<1>1. chosen' = chosen => (chosen \ chosen') \cup (chosen' \ chosen) = {}  OBVIOUS
<1> QED  BY <1>1, FS_EmptySet DEF PickerStepIsShown

LEMMA PickerStep ==
  ASSUME PickerInv, [P!Next]_pickerVars
  PROVE  PickerInv' /\ PickerStepIsShown
<1>0. /\ shown.matches \subseteq 1..Listed /\ shown.length \in 0..MaxFilter /\ chosen \subseteq 1..Listed
      /\ Listed \in Nat /\ MaxFilter \in Nat /\ FilterMatches \subseteq SUBSET (1..Listed)
      /\ Cardinality(shown.matches) \in Nat /\ Cardinality(shown.matches) <= Listed
      /\ shown.matches = {} <=> Cardinality(shown.matches) = 0
      /\ cursor \in Nat /\ (shown.matches = {} => cursor = 0)
      /\ shown.matches # {} => cursor < Cardinality(shown.matches)
  <2>1. shown.matches \in SUBSET (1..Listed)  BY DEF PickerInv
  <2>2. /\ Cardinality(shown.matches) \in Nat /\ Cardinality(shown.matches) <= Listed
        /\ shown.matches = {} <=> Cardinality(shown.matches) = 0
    BY <2>1, ShownIsFinite
  <2> QED  BY <2>1, <2>2, PickerAssumption DEF PickerInv, P!PickerAssumption
<1>1. CASE P!Drain \/ P!StartFilter \/ P!EndFilter \/ UNCHANGED pickerVars
  <2>1. UNCHANGED <<chosen, cursor, shown, outcome>>
    BY <1>1 DEF P!Drain, P!StartFilter, P!EndFilter, pickerVars
  <2>2. PickerInv'  BY <2>1 DEF PickerInv
  <2> QED  BY <2>1, <2>2, NothingChanged
<1>2. CASE P!Confirm \/ P!Quit
  <2>1. UNCHANGED <<chosen, cursor, shown>> /\ outcome' # P!NoOutcome
    BY <1>2 DEF P!Confirm, P!Quit, P!NoOutcome
  <2>2. PickerInv'  BY <2>1 DEF PickerInv
  <2> QED  BY <2>1, <2>2, NothingChanged
<1>3. CASE P!Move
  <2>1. UNCHANGED <<chosen, shown, outcome>>  BY <1>3 DEF P!Move
  <2> DEFINE n == Cardinality(shown.matches)
  <2>2. \/ n = 0 /\ cursor' = 0
        \/ n # 0 /\ (cursor' = (cursor + 1) % n \/ cursor' = (cursor + n - 1) % n)
    BY <1>3, VisibleLists DEF P!Move
  <2>3. n # 0 => cursor' \in 0..(n - 1)
    <3> SUFFICES ASSUME n # 0 PROVE cursor' \in 0..(n - 1)  OBVIOUS
    <3>1. n \in Nat /\ n > 0 /\ cursor + 1 \in Int /\ cursor + n - 1 \in Int  BY <1>0
    <3>2. (cursor + 1) % n \in 0..(n - 1) /\ (cursor + n - 1) % n \in 0..(n - 1)
      <4> HIDE DEF n
      <4> QED  BY <3>1
    <3> QED  BY <2>2, <3>2
  <2>4. PickerInv'  BY <1>0, <2>1, <2>2, <2>3 DEF PickerInv
  <2> QED  BY <2>1, <2>4, NothingChanged
<1>4. CASE P!Toggle
  <2>1. UNCHANGED <<cursor, shown, outcome>>  BY <1>4 DEF P!Toggle
  <2>2. CASE cursor >= Cardinality(shown.matches)
    <3>1. chosen' = chosen  BY <1>4, <2>2, VisibleLists DEF P!Toggle
    <3>2. PickerInv'  BY <2>1, <3>1 DEF PickerInv
    <3> QED  BY <3>1, <3>2, NothingChanged
  <2>3. CASE ~(cursor >= Cardinality(shown.matches))
    <3> DEFINE position == P!Visible(shown)[cursor + 1]
    <3>1. chosen' = IF position \in chosen THEN chosen \ {position} ELSE chosen \cup {position}
      BY <1>4, <2>3, VisibleLists DEF P!Toggle
    <3>2. position \in shown.matches
      <4>1. cursor + 1 \in 1..Cardinality(shown.matches)  BY <1>0, <2>3
      <4> QED  BY <4>1, VisibleLists
    <3> HIDE DEF position
    <3>3. (chosen \ chosen') \cup (chosen' \ chosen) = {position}  BY <3>1
    <3>4. PickerStepIsShown
      <4>1. Cardinality({position}) <= 1  BY FS_Singleton
      <4> QED  BY <3>2, <3>3, <4>1 DEF PickerStepIsShown
    <3>5. PickerInv'  BY <1>0, <2>1, <3>1, <3>2 DEF PickerInv
    <3> QED  BY <3>4, <3>5
  <2> QED  BY <2>2, <2>3
<1>5. CASE P!ToggleAll
  <2>1. UNCHANGED <<cursor, shown, outcome>>  BY <1>5 DEF P!ToggleAll
  <2>2. chosen' = IF shown.matches \subseteq chosen THEN chosen \ shown.matches
                  ELSE chosen \cup shown.matches
    BY <1>5 DEF P!ToggleAll
  <2>3. PickerInv'  BY <1>0, <2>1, <2>2 DEF PickerInv
  <2>4. PickerStepIsShown  BY <2>2 DEF PickerStepIsShown
  <2> QED  BY <2>3, <2>4
<1>6. CASE P!Cancel
  <2>1. chosen' = chosen /\ outcome = P!NoOutcome  BY <1>6 DEF P!Cancel, P!Takes
  <2>2. CASE shown' = P!NoFilter /\ cursor' = (IF cursor >= Listed THEN Listed - 1 ELSE cursor)
    <3>1. shown'.length = 0 /\ shown'.matches = 1..Listed  BY <2>2 DEF P!NoFilter
    <3>2. Listed >= 2  BY <2>1 DEF PickerInv
    <3>3. cursor' \in 0..(Listed - 1)  BY <1>0, <2>2, <3>2
    <3>4. Cardinality(1..Listed) = Listed  BY ShownIsFinite
    <3>5. PickerInv'  BY <1>0, <2>1, <3>1, <3>2, <3>3, <3>4 DEF PickerInv
    <3> QED  BY <2>1, <3>5, NothingChanged
  <2>3. CASE UNCHANGED <<shown, cursor>>
    <3>1. PickerInv'  BY <2>1, <2>3 DEF PickerInv
    <3> QED  BY <2>1, <3>1, NothingChanged
  <2> QED  BY <1>6, <2>2, <2>3 DEF P!Cancel
<1>7. CASE P!TypeFilter
  <2>1. cursor' = 0 /\ UNCHANGED <<chosen, outcome>>  BY <1>7 DEF P!TypeFilter
  <2>2. PICK m \in FilterMatches : shown' = [length |-> shown.length + 1, matches |-> m]
    BY <1>7 DEF P!TypeFilter
  <2>3. shown'.length \in 0..MaxFilter /\ shown'.matches = m /\ m \subseteq 1..Listed
    BY <1>0, <1>7, <2>2 DEF P!TypeFilter
  <2>4. m # {} => Cardinality(m) > 0
    <3>1. m \in SUBSET (1..Listed)  BY <2>3
    <3>2. Cardinality(m) \in Nat /\ (m = {} <=> Cardinality(m) = 0)  BY <3>1, ShownIsFinite
    <3> QED  BY <3>2
  <2>5. PickerInv'  BY <1>0, <2>1, <2>3, <2>4 DEF PickerInv
  <2> QED  BY <2>1, <2>5, NothingChanged
<1>8. CASE P!EraseFilter
  <2>1. cursor' = 0 /\ UNCHANGED <<chosen, outcome>>  BY <1>8 DEF P!EraseFilter
  <2>2. PICK m \in FilterMatches \cup {1..Listed} :
          shown' = IF shown.length <= 1 THEN P!NoFilter ELSE [length |-> shown.length - 1, matches |-> m]
    BY <1>8 DEF P!EraseFilter
  <2>3. shown'.length \in 0..MaxFilter /\ shown'.matches \subseteq 1..Listed
    BY <1>0, <2>2 DEF P!NoFilter
  <2>4. shown'.matches # {} => Cardinality(shown'.matches) > 0
    <3>1. shown'.matches \in SUBSET (1..Listed)  BY <2>3
    <3>2. Cardinality(shown'.matches) \in Nat /\ (shown'.matches = {} <=> Cardinality(shown'.matches) = 0)
      BY <3>1, ShownIsFinite
    <3> QED  BY <3>2
  <2>5. PickerInv'  BY <1>0, <2>1, <2>3, <2>4 DEF PickerInv
  <2> QED  BY <2>1, <2>5, NothingChanged
<1> QED  BY <1>1, <1>2, <1>3, <1>4, <1>5, <1>6, <1>7, <1>8 DEF P!Next

LEMMA PickerSafe == PickerInv => P!TypeOK
<1> SUFFICES ASSUME PickerInv PROVE P!TypeOK  OBVIOUS
<1>1. CASE shown.matches = {}  BY <1>1 DEF PickerInv, P!TypeOK
<1>2. CASE shown.matches # {}
  <2>1. shown.matches \in SUBSET (1..Listed)  BY DEF PickerInv
  <2>2. Cardinality(shown.matches) \in Nat  BY <2>1, ShownIsFinite
  <2> QED  BY <1>2, <2>2, InstancesAgree DEF PickerInv, P!TypeOK
<1> QED  BY <1>1, <1>2

-----------------------------------------------------------------------------
(* The screen of doctor.  Its lists: where the user is in the groups, and  *)
(* the marked entry, which exists.                                         *)
Levels == {"owners", "locations", "skills"}
Depth == [level \in Levels |-> CASE level = "owners" -> 0 [] level = "locations" -> 1 [] level = "skills" -> 2]

DoctorLists ==
  /\ report \in Reports \cup {None} /\ screen \in {"skills", "page"}
  /\ browse.level \in Levels
  /\ history \in Seq(Nat \ {0}) /\ Len(history) = Depth[browse.level]
  /\ selected \in 1..D!AtLeast1(Len(D!EntriesNow))

(* The jobs.  At any time one thing is under way: nothing, a scan, a plan  *)
(* or an action, on its thread or in the channel.                          *)
Scan == [type |-> "scan"]
Progress == [type |-> "progress"]
Found(r) == [type |-> "scan", report |-> r]
Planning(p) == [type |-> "plan", plan |-> p]
Acting(p) == [type |-> "action", plan |-> p]
ActionDone(p, success) == [type |-> "applied", plan |-> p, success |-> success]

Consented == {c.plan.number : c \in consent}
ForTheMarked(p) == screen = "skills" /\ D!SelectedPath = p.path

Idle ==
  /\ jobs = {} /\ messages = <<>> /\ (open => doctorWork = "ready")
  /\ Consented = summaries
Scanning ==
  /\ \/ jobs = {Scan} /\ messages \in {<<>>, <<Progress>>}
     \/ /\ jobs = {}
                           /\ \E r \in Reports \cup {None} : messages \in {<<Found(r)>>, <<Progress, Found(r)>>}
  /\ open => doctorWork = "scanning"
  /\ Consented = summaries
Preparing ==
  /\ \E p :
       \/ jobs = {Planning(p)} /\ messages = <<>> /\ ForTheMarked(p)
       \/ jobs = {} /\ messages = <<Planning(p)>> /\ (p # None => ForTheMarked(p))
  /\ open => doctorWork = "preparing"
  /\ Consented = summaries
Applying ==
  /\ \E p :
       /\ \/ jobs = {Acting(p)} /\ messages = <<>>
          \/ jobs = {} /\ p.number \in done /\ \E success \in BOOLEAN : messages = <<ActionDone(p, success)>>
       /\ Consented = summaries \cup {p.number}
  /\ open /\ doctorWork = "applying"

OneUnderWay == Idle \/ Scanning \/ Preparing \/ Applying

(* The review.  The plan that Enter applies is the one that is shown, for  *)
(* the Skill that is marked, and no key waits in the terminal.             *)
UnderReview ==
  /\ reviewed # None => preview = reviewed /\ typed = D!NoKey
  /\ doctorWork = "applying" => reviewed = None
  /\ doctorWork \in {"scanning", "preparing"} => preview = None
  /\ preview # None => ForTheMarked(preview) /\ ~editingFilter
  /\ editingFilter => doctorWork \in {"ready", "scanning"}
  /\ doctorWork \in {"scanning", "applying"} /\ previousPath # None => browse.level = "skills"

DoctorInv ==
  /\ DoctorLists /\ OneUnderWay /\ UnderReview
  /\ doctorWork \in {"scanning", "ready", "preparing", "applying"}
  /\ editingFilter \in BOOLEAN /\ open \in BOOLEAN
  /\ summaries \subseteq done

LEMMA ChoicesAreNumbers ==
  ASSUME NEW r \in Reports \cup {None}, NEW b, b.level \in Levels, NEW pf, NEW f
  PROVE  /\ D!Visible(r, b, pf, f) \in SUBSET Nat /\ IsFiniteSet(D!Visible(r, b, pf, f))
         /\ D!Choices(r, b, pf, f) \in SUBSET Nat /\ IsFiniteSet(D!Choices(r, b, pf, f))
         /\ r # None => D!Visible(r, b, pf, f) \subseteq DOMAIN r
<1> DEFINE visible == D!Visible(r, b, pf, f)
<1>1. /\ visible \in SUBSET Nat /\ IsFiniteSet(visible)
      /\ r # None => visible \subseteq DOMAIN r
  <2>1. CASE r = None
    <3>1. visible = {}  BY <2>1 DEF D!Visible
    <3> QED  BY <3>1, <2>1, FS_EmptySet
  <2>2. CASE r # None
    <3>1. Len(r) \in Nat /\ DOMAIN r = 1..Len(r)  BY <2>2, DoctorAssumption DEF D!ScreenAssumption
    <3>2. visible \subseteq DOMAIN r  BY <2>2 DEF D!Visible
    <3>3. IsFiniteSet(1..Len(r))  BY <3>1, FS_Interval
    <3> HIDE DEF visible
    <3>4. IsFiniteSet(visible)  BY <3>1, <3>2, <3>3, FS_Subset
    <3> QED  BY <3>1, <3>2, <3>4
  <2> QED  BY <2>1, <2>2
<1>2. ASSUME NEW i \in visible
      PROVE  D!Locations(r[i], pf) \in SUBSET Nat /\ IsFiniteSet(D!Locations(r[i], pf))
  <2>1. r # None  BY DEF D!Visible
  <2>2. i \in DOMAIN r /\ r \in Reports  BY <1>1, <2>1
  <2>3. /\ \A p \in r[i].paths : p.scope \in Nat
        /\ IsFiniteSet(r[i].paths)
    <3>1. D!IsFiniteSet(r[i].paths) /\ \A p \in r[i].paths : p.scope \in Nat
      BY <2>2, DoctorAssumption DEF D!ScreenAssumption
    <3> QED  BY <3>1, InstancesAgree
  <2>4. PICK some \in SUBSET r[i].paths : D!Locations(r[i], pf) = {p.scope : p \in some}
    BY DEF D!Locations
  <2>5. IsFiniteSet(some)  BY <2>3, FS_Subset
  <2> DEFINE image == {p.scope : p \in some}  scopeOf == [p \in some |-> p.scope]
  <2>6. scopeOf \in Surjection(some, image)  BY DEF Surjection
  <2>7. IsFiniteSet(image)
    <3> HIDE DEF image, scopeOf
    <3> QED  BY <2>5, <2>6, FS_Surjection
  <2> QED  BY <2>3, <2>4, <2>7
<1>3. CASE b.level = "owners"
  <2>1. DOMAIN D!Owners = 1..8 /\ IsFiniteSet(1..8)
    <3>1. DOMAIN D!Owners = 1..8  BY DEF D!Owners
    <3>2. \A n \in Nat : IsFiniteSet(1..n)  BY FS_Interval
    <3> QED  BY <3>1, <3>2
  <2>2. D!Choices(r, b, pf, f) \subseteq DOMAIN D!Owners  BY <1>3 DEF D!Choices
  <2>3. IsFiniteSet(D!Choices(r, b, pf, f))  BY <2>1, <2>2, FS_Subset
  <2> QED  BY <1>1, <2>1, <2>2, <2>3
<1>4. CASE b.level = "locations"
  <2> DEFINE scopes == {D!Locations(r[i], pf) : i \in visible}
             scopesOf == [i \in visible |-> D!Locations(r[i], pf)]
  <2>1. D!Choices(r, b, pf, f) = UNION scopes  BY <1>4 DEF D!Choices
  <2>2. scopesOf \in Surjection(visible, scopes)  BY DEF Surjection
  <2>3. IsFiniteSet(scopes)
    <3> HIDE DEF visible, scopes, scopesOf
    <3> QED  BY <1>1, <2>2, FS_Surjection
  <2>4. \A T \in scopes : T \in SUBSET Nat /\ IsFiniteSet(T)  BY <1>2
  <2> HIDE DEF scopes
  <2>5. IsFiniteSet(UNION scopes)  BY <2>3, <2>4, FS_UNION
  <2> QED  BY <1>1, <2>1, <2>4, <2>5
<1>5. CASE b.level = "skills"
  <2>1. D!Choices(r, b, pf, f) = visible  BY <1>5 DEF D!Choices
  <2> QED  BY <1>1, <2>1
<1> QED  BY <1>1, <1>3, <1>4, <1>5 DEF Levels

LEMMA EntriesList ==
  ASSUME NEW X \in SUBSET Nat, IsFiniteSet(X)
  PROVE  /\ Cardinality(X) \in Nat /\ Len(D!InOrder(X)) = Cardinality(X)
         /\ DOMAIN D!InOrder(X) = 1..Cardinality(X)
         /\ \A k \in 1..Cardinality(X) : D!InOrder(X)[k] \in X
         /\ \A x \in X : \E k \in 1..Cardinality(X) : D!InOrder(X)[k] = x
<1>1. D!InOrder(X) = InOrder(X)  BY InstancesAgree
<1>2. InOrder(X) \in Seq(X)  BY InOrderLists
<1>3. DOMAIN InOrder(X) = 1..Len(InOrder(X))  BY <1>2
<1> QED  BY <1>1, <1>3, InOrderLists

(* How many entries the screen has, in any of its groups.                  *)
Entered(r, b, pf, f) == Len(D!Entries(r, b, pf, f))

LEMMA EntriesAreCounted ==
  ASSUME NEW r \in Reports \cup {None}, NEW b, b.level \in Levels, NEW pf, NEW f
  PROVE  /\ Entered(r, b, pf, f) \in Nat
         /\ Entered(r, b, pf, f) = Cardinality(D!Choices(r, b, pf, f))
         /\ DOMAIN D!Entries(r, b, pf, f) = 1..Entered(r, b, pf, f)
         /\ \A k \in 1..Entered(r, b, pf, f) : D!Entries(r, b, pf, f)[k] \in D!Choices(r, b, pf, f)
<1>1. D!Choices(r, b, pf, f) \in SUBSET Nat /\ IsFiniteSet(D!Choices(r, b, pf, f))
  BY ChoicesAreNumbers
<1> QED  BY <1>1, EntriesList DEF D!Entries, Entered

(* Without its filter a list is no shorter.                                *)
LEMMA UnfilteredIsLonger ==
  ASSUME NEW r \in Reports \cup {None}, NEW b, b.level \in Levels, NEW pf, NEW f
  PROVE  Entered(r, b, pf, f) <= Entered(r, b, pf, {})
<1>1. D!Visible(r, b, pf, f) \subseteq D!Visible(r, b, pf, {})  BY DEF D!Visible
<1>2. D!Choices(r, b, pf, f) \subseteq D!Choices(r, b, pf, {})
  BY <1>1 DEF D!Choices, Levels
<1>3. IsFiniteSet(D!Choices(r, b, pf, {}))  BY ChoicesAreNumbers
<1>4. Cardinality(D!Choices(r, b, pf, f)) <= Cardinality(D!Choices(r, b, pf, {}))
  BY <1>2, <1>3, FS_Subset
<1> QED  BY <1>4, EntriesAreCounted

DoctorState == <<report, selected, browse, history, pathFilter, filter, screen>>

(* What stays on the screen: the lists, and the Skill that is marked.      *)
LEMMA DoctorStays ==
  ASSUME DoctorLists, UNCHANGED DoctorState
  PROVE  DoctorLists' /\ D!SelectedPath' = D!SelectedPath /\ D!EntriesNow' = D!EntriesNow
<1>1. D!EntriesNow' = D!EntriesNow  BY DEF DoctorState, D!EntriesNow
<1>2. D!SelectedPath' = D!SelectedPath
  BY <1>1 DEF DoctorState, D!SelectedPath, D!SelectedSkill
<1> QED  BY <1>1, <1>2 DEF DoctorState, DoctorLists

(* The marked entry of a list.                                             *)
LEMMA DoctorCounts ==
  ASSUME DoctorLists
  PROVE  /\ Len(D!EntriesNow) \in Nat /\ DOMAIN D!EntriesNow = 1..Len(D!EntriesNow)
         /\ selected \in Nat /\ selected >= 1
         /\ selected <= Len(D!EntriesNow) \/ selected = 1
         /\ Depth[browse.level] = Len(history)
<1>1. Entered(report, browse, pathFilter, filter) = Len(D!EntriesNow)  BY DEF Entered, D!EntriesNow
<1>2. /\ Len(D!EntriesNow) \in Nat /\ DOMAIN D!EntriesNow = 1..Len(D!EntriesNow)
  BY <1>1, EntriesAreCounted DEF DoctorLists, D!EntriesNow
<1>3. selected \in 1..D!AtLeast1(Len(D!EntriesNow))  BY DEF DoctorLists
<1>4. D!AtLeast1(Len(D!EntriesNow)) \in Nat /\ D!AtLeast1(Len(D!EntriesNow)) >= 1  BY <1>2 DEF D!AtLeast1
<1>5. selected <= Len(D!EntriesNow) \/ selected = 1  BY <1>2, <1>3 DEF D!AtLeast1
<1> QED  BY <1>2, <1>3, <1>4, <1>5 DEF DoctorLists

(* The first entry is there in any group.                                  *)
LEMMA FirstIsThere ==
  ASSUME NEW r \in Reports \cup {None}, NEW b, b.level \in Levels, NEW pf, NEW f
  PROVE  1 \in 1..D!AtLeast1(Entered(r, b, pf, f))
BY EntriesAreCounted DEF D!AtLeast1

LEMMA DoctorReadyIsIdle ==
  ASSUME DoctorInv, open, doctorWork = "ready"
  PROVE  Idle
BY DEF DoctorInv, OneUnderWay, Idle, Scanning, Preparing, Applying

LEMMA DoctorInit == D!Init => DoctorInv /\ consent = {}
<1> SUFFICES ASSUME D!Init PROVE DoctorInv /\ consent = {}  OBVIOUS
<1> USE DEF D!Init
<1>1. browse.level = "owners"  BY DEF D!Root
<1>2. report \in Reports \cup {None} /\ browse.level \in Levels  BY <1>1 DEF Levels
<1>3. selected \in 1..D!AtLeast1(Len(D!EntriesNow))
  BY <1>2, FirstIsThere DEF D!EntriesNow, Entered
<1>4. history \in Seq(Nat \ {0}) /\ Len(history) = Depth[browse.level]  BY <1>1 DEF Depth, Levels
<1>5. DoctorLists  BY <1>2, <1>3, <1>4 DEF DoctorLists
<1>6. Consented = {} /\ Scanning  BY DEF Consented, Scanning, Scan
<1>7. UnderReview  BY DEF UnderReview, D!NoPath
<1> QED  BY <1>5, <1>6, <1>7 DEF DoctorInv, OneUnderWay

-----------------------------------------------------------------------------
(* The threads.                                                            *)
LEMMA ScanStep ==
  ASSUME DoctorInv, D!ScanProgress \/ D!ScanEnds
  PROVE  DoctorInv'
<1>1. UNCHANGED <<report, D!list, D!review, doctorWork, open, typed, D!past>>
  BY DEF D!ScanProgress, D!ScanEnds, D!Send, D!past
<1>2. Scanning /\ jobs = {Scan}
  <2>1. Scan \in jobs
    BY DEF D!ScanProgress, D!ScanEnds, DoctorInv, OneUnderWay, Idle, Scanning, Preparing, Applying, Scan, Planning,
           Acting
  <2>2. Planning(1).type # Scan.type  BY DEF Planning, Scan
  <2> QED  BY <2>1 DEF DoctorInv, OneUnderWay, Idle, Scanning, Preparing, Applying, Scan, Planning, Acting
<1>3. messages \in {<<>>, <<Progress>>}  BY <1>2 DEF Scanning
<1>4. Scanning'
  <2>1. CASE D!ScanProgress
    <3>1. messages = <<>>
      <4>1. CASE messages = <<Progress>>
        <5>1. 1 \in DOMAIN messages /\ messages[1].type = "progress"  BY <4>1 DEF Progress
        <5> QED  BY <5>1, <2>1 DEF D!ScanProgress
      <4> QED  BY <4>1, <1>3
    <3>2. jobs' = jobs /\ messages' = <<Progress>>  BY <2>1, <3>1 DEF D!ScanProgress, Progress
    <3> QED  BY <1>1, <1>2, <3>2 DEF Scanning, Consented, D!past
  <2>2. CASE D!ScanEnds
    <3>1. PICK job \in jobs, r \in Reports \cup {None} : D!Send(job, Found(r))
      BY <2>2 DEF D!ScanEnds, Found
    <3>2. jobs' = {} /\ messages' = Append(messages, Found(r))  BY <3>1, <1>2 DEF D!Send
    <3>3. messages' \in {<<Found(r)>>, <<Progress, Found(r)>>}
      <4>1. CASE messages = <<>>  BY <4>1, <3>2
      <4>2. CASE messages = <<Progress>>  BY AppendOne, <4>2, <3>2
      <4> QED  BY <4>1, <4>2, <1>3
    <3> QED  BY <1>1, <1>2, <3>2, <3>3 DEF Scanning, Consented, D!past
  <2> QED  BY <2>1, <2>2
<1>5. DoctorLists'  BY <1>1, DoctorStays DEF DoctorInv, DoctorState, D!list
<1>6. UNCHANGED D!SelectedPath  BY <1>1, DoctorStays DEF DoctorInv, DoctorState, D!list
<1>7. UnderReview'  BY <1>1, <1>6 DEF DoctorInv, UnderReview, ForTheMarked, D!list, D!review, D!NoKey
<1> QED  BY <1>1, <1>4, <1>5, <1>7 DEF DoctorInv, OneUnderWay, D!list, D!past

(* What a job is and where it is, told by one fact about it.               *)
LEMMA WhatIsUnderWay ==
  ASSUME DoctorInv
  PROVE  /\ \A job \in jobs : /\ jobs = {job}
                              /\ job.type = "scan" => Scanning
                              /\ job.type = "plan" => Preparing
                              /\ job.type = "action" => Applying
                              /\ job.type \in {"scan", "plan", "action"}
         /\ messages # <<>> =>
              /\ Head(messages).type = "progress" => Scanning
              /\ Head(messages).type = "scan" => Scanning
              /\ Head(messages).type = "plan" => Preparing
              /\ Head(messages).type = "applied" => Applying
         /\ jobs = {} /\ messages = <<>> => Idle
         /\ Scanning => \/ messages = <<>>
                        \/ messages = <<Progress>> /\ jobs = {Scan}
                        \/ /\ jobs = {}
                           /\ \E r \in Reports \cup {None} : messages \in {<<Found(r)>>, <<Progress, Found(r)>>}
<1>1. CASE Idle  BY <1>1, HeadAndTail DEF Idle, Scanning
<1>2. CASE Scanning
  <2>1. \A job \in jobs : job = Scan /\ jobs = {job}  BY <1>2 DEF Scanning
  <2>2. messages # <<>> => Head(messages).type \in {"progress", "scan"}
    <3>1. messages = <<Progress>> => Head(messages).type = "progress"  BY HeadAndTail DEF Progress
    <3>2. \A r : messages = <<Progress, Found(r)>> => Head(messages).type = "progress"
      BY HeadAndTail DEF Progress
    <3>3. \A r : messages = <<Found(r)>> => Head(messages).type = "scan"  BY HeadAndTail DEF Found
    <3> QED  BY <1>2, <3>1, <3>2, <3>3 DEF Scanning
  <2>3. jobs = {} => messages # <<>>  BY <1>2, HeadAndTail DEF Scanning
  <2> QED  BY <1>2, <2>1, <2>2, <2>3 DEF Scan, Scanning
<1>3. CASE Preparing
  <2>1. PICK p : \/ jobs = {Planning(p)} /\ messages = <<>>
                 \/ jobs = {} /\ messages = <<Planning(p)>>
    BY <1>3 DEF Preparing
  <2>2. messages # <<>> => Head(messages).type = "plan"  BY <2>1, HeadAndTail DEF Planning
  <2>3. jobs = {} => messages # <<>>  BY <2>1, HeadAndTail DEF Planning
  <2>4. ~Scanning \/ messages = <<>>
    <3>1. Scanning /\ messages # <<>> => Head(messages).type \in {"progress", "scan"}
      BY HeadAndTail DEF Scanning, Progress, Found
    <3> QED  BY <2>2, <3>1
  <2> QED  BY <1>3, <2>1, <2>2, <2>3, <2>4 DEF Planning
<1>4. CASE Applying
  <2>1. PICK p : \/ jobs = {Acting(p)} /\ messages = <<>>
                 \/ jobs = {} /\ \E success \in BOOLEAN : messages = <<ActionDone(p, success)>>
    BY <1>4 DEF Applying
  <2>2. messages # <<>> => Head(messages).type = "applied"  BY <2>1, HeadAndTail DEF ActionDone
  <2>3. jobs = {} => messages # <<>>  BY <2>1, HeadAndTail
  <2>4. ~Scanning \/ messages = <<>>
    <3>1. Scanning /\ messages # <<>> => Head(messages).type \in {"progress", "scan"}
      BY HeadAndTail DEF Scanning, Progress, Found
    <3> QED  BY <2>2, <3>1
  <2> QED  BY <1>4, <2>1, <2>2, <2>3, <2>4 DEF Acting
<1> QED  BY <1>1, <1>2, <1>3, <1>4 DEF DoctorInv, OneUnderWay

LEMMA PlanStep ==
  ASSUME DoctorInv, D!PlanEnds
  PROVE  DoctorInv'
<1>1. PICK job \in jobs, prepared \in BOOLEAN :
        job.type = "plan" /\ D!Send(job, Planning(IF prepared THEN job.plan ELSE None)) /\ done' = done
  BY DEF D!PlanEnds, Planning
<1>2. UNCHANGED <<report, D!list, D!review, doctorWork, open, typed, D!past>>
  BY <1>1 DEF D!Send, D!past
<1>3. Preparing /\ jobs = {job}  BY <1>1, WhatIsUnderWay
<1>4. PICK p : jobs = {Planning(p)} /\ messages = <<>> /\ ForTheMarked(p)
  BY <1>3, HeadAndTail DEF Preparing
<1>5. job.plan = p  BY <1>3, <1>4 DEF Planning
<1>6. DoctorLists' /\ UNCHANGED D!SelectedPath
  BY <1>2, DoctorStays DEF DoctorInv, DoctorState, D!list
<1>7. Preparing'
  <2> DEFINE q == IF prepared THEN job.plan ELSE None
  <2>1. jobs' = {} /\ messages' = <<Planning(q)>>  BY <1>1, <1>3, <1>4 DEF D!Send
  <2>2. q # None => screen' = "skills" /\ D!SelectedPath' = q.path
    BY <1>2, <1>4, <1>5, <1>6 DEF ForTheMarked, D!list
  <2> QED  BY <1>2, <1>3, <2>1, <2>2 DEF Preparing, ForTheMarked, Consented, D!past
<1>8. UnderReview'  BY <1>2, <1>6 DEF DoctorInv, UnderReview, ForTheMarked, D!list, D!review, D!NoKey
<1> QED  BY <1>2, <1>6, <1>7, <1>8 DEF DoctorInv, OneUnderWay, D!list, D!past

LEMMA ActionStep ==
  ASSUME DoctorInv, D!ActionEnds
  PROVE  DoctorInv'
<1>1. PICK job \in jobs, success \in BOOLEAN :
        /\ job.type = "action" /\ D!Send(job, ActionDone(job.plan, success))
        /\ done' = done \cup {job.plan.number}
  BY DEF D!ActionEnds, ActionDone
<1>2. UNCHANGED <<report, D!list, D!review, doctorWork, open, typed, started, summaries, consent>>
  BY <1>1 DEF D!Send
<1>3. Applying /\ jobs = {job}  BY <1>1, WhatIsUnderWay
<1>4. PICK p : jobs = {Acting(p)} /\ messages = <<>> /\ Consented = summaries \cup {p.number}
  BY <1>3, HeadAndTail DEF Applying
<1>5. job.plan = p  BY <1>3, <1>4 DEF Acting
<1>6. DoctorLists' /\ UNCHANGED D!SelectedPath
  BY <1>2, DoctorStays DEF DoctorInv, DoctorState, D!list
<1>7. Applying'
  <2>1. jobs' = {} /\ messages' = <<ActionDone(p, success)>>  BY <1>1, <1>3, <1>4, <1>5 DEF D!Send
  <2>2. p.number \in done'  BY <1>1, <1>5
  <2> QED  BY <1>2, <1>3, <1>4, <2>1, <2>2 DEF Applying, Consented
<1>8. UnderReview'  BY <1>2, <1>6 DEF DoctorInv, UnderReview, ForTheMarked, D!list, D!review, D!NoKey
<1>9. summaries' \subseteq done'  BY <1>1, <1>2 DEF DoctorInv
<1> QED  BY <1>2, <1>6, <1>7, <1>8, <1>9 DEF DoctorInv, OneUnderWay, D!list

-----------------------------------------------------------------------------
(* The loop takes a message.                                               *)
LEMMA TakeProgressStep ==
  ASSUME DoctorInv, D!TakeProgress
  PROVE  DoctorInv'
<1>1. /\ messages # <<>> /\ Head(messages).type = "progress" /\ messages' = Tail(messages)
      /\ open /\ doctorWork' = "scanning"
      /\ UNCHANGED <<report, D!list, D!review, open, jobs, typed, D!past>>
  BY DEF D!TakeProgress, D!Receives
<1>2. Scanning /\ doctorWork = "scanning"  BY <1>1, WhatIsUnderWay DEF Scanning
<1>3. Scanning'
  <2>1. CASE messages = <<Progress>> /\ jobs = {Scan}
    <3>1. messages' = <<>>  BY <1>1, <2>1, HeadAndTail
    <3> QED  BY <1>1, <1>2, <2>1, <3>1 DEF Scanning, Consented, D!past
  <2>2. ASSUME NEW r \in Reports \cup {None}, jobs = {}, messages \in {<<Found(r)>>, <<Progress, Found(r)>>}
        PROVE  Scanning'
    <3>1. Found(r).type = "scan"  BY DEF Found
    <3>2. messages = <<Progress, Found(r)>>  BY <1>1, <2>2, <3>1, HeadAndTail
    <3>3. messages' = <<Found(r)>>  BY <1>1, <3>2, HeadAndTail
    <3> QED  BY <1>1, <1>2, <2>2, <3>3 DEF Scanning, Consented, D!past
  <2> QED  BY <1>1, <1>2, <2>1, <2>2, WhatIsUnderWay
<1>4. DoctorLists' /\ UNCHANGED D!SelectedPath
  BY <1>1, DoctorStays DEF DoctorInv, DoctorState, D!list
<1>5. UnderReview'  BY <1>1, <1>2, <1>4 DEF DoctorInv, UnderReview, ForTheMarked, D!list, D!review, D!NoKey
<1> QED  BY <1>1, <1>3, <1>4, <1>5 DEF DoctorInv, OneUnderWay, D!list, D!past

(* A scan that is taken marks the Skill that was marked before it.         *)
DoctorKeepsSelection ==
  (report' # report /\ previousPath # D!NoPath) =>
    ((\E i \in D!VisibleNow' : report'[i].path = previousPath) => D!SelectedPath' = previousPath)

LEMMA TakeScanStep ==
  ASSUME DoctorInv, D!TakeScan
  PROVE  DoctorInv' /\ DoctorKeepsSelection
<1>1. /\ messages # <<>> /\ Head(messages).type = "scan" /\ messages' = Tail(messages)
      /\ open /\ doctorWork' = "ready"
      /\ UNCHANGED <<browse, history, pathFilter, filter, editingFilter, detailsFocused, screen, preview,
                     reviewed, open, jobs, typed, D!past>>
  BY DEF D!TakeScan, D!Receives
<1>2. Scanning /\ doctorWork = "scanning"  BY <1>1, WhatIsUnderWay DEF Scanning
<1>3. PICK r \in Reports \cup {None} : jobs = {} /\ messages = <<Found(r)>>
  <2>1. messages # <<Progress>>  BY <1>1, HeadAndTail DEF Progress
  <2>2. \A r : messages # <<Progress, Found(r)>>
    <3>1. Progress.type # "scan"  BY DEF Progress
    <3> QED  BY <1>1, <3>1, HeadAndTail
  <2> QED  BY <1>1, <1>2, <2>1, <2>2, WhatIsUnderWay
<1>4. Head(messages).report = r /\ messages' = <<>>  BY <1>1, <1>3, HeadAndTail DEF Found
<1>5. Idle'  BY <1>1, <1>2, <1>3, <1>4 DEF Idle, Scanning, Consented, D!past
<1>6. preview = None /\ reviewed = None /\ (previousPath # None => browse.level = "skills")
  BY <1>2 DEF DoctorInv, UnderReview
<1>7. summaries' \subseteq done'  BY <1>1 DEF DoctorInv, D!past
<1>8. UnderReview'  BY <1>1, <1>6 DEF DoctorInv, UnderReview
<1>9. DoctorLists' /\ DoctorKeepsSelection => DoctorInv' /\ DoctorKeepsSelection
  BY <1>1, <1>5, <1>7, <1>8 DEF DoctorInv, OneUnderWay
<1>10. CASE r = None
  <2>1. UNCHANGED <<report, selected>>  BY <1>4, <1>10 DEF D!TakeScan
  <2>2. DoctorLists'  BY <1>1, <2>1, DoctorStays DEF DoctorState, DoctorInv
  <2> QED  BY <1>9, <2>1, <2>2 DEF DoctorKeepsSelection
<1>11. CASE r # None
  <2> DEFINE shownNow == D!Visible(r, browse, pathFilter, filter)
             visible == D!InOrder(shownNow)
             same == {k \in DOMAIN visible : r[visible[k]].path = previousPath}
  <2>1. report' = r /\ selected' = IF same = {} THEN 1 ELSE CHOOSE k \in same : TRUE
    BY <1>4, <1>11 DEF D!TakeScan
  <2>2. browse.level \in Levels  BY DEF DoctorInv, DoctorLists
  <2>3. shownNow \in SUBSET Nat /\ IsFiniteSet(shownNow) /\ shownNow \subseteq DOMAIN r
    BY <1>11, <2>2, ChoicesAreNumbers
  <2> HIDE DEF shownNow
  <2>4. /\ Cardinality(shownNow) \in Nat /\ DOMAIN visible = 1..Cardinality(shownNow)
        /\ Len(visible) = Cardinality(shownNow)
        /\ \A k \in DOMAIN visible : visible[k] \in shownNow
        /\ \A x \in shownNow : \E k \in DOMAIN visible : visible[k] = x
    BY <2>3, EntriesList
  <2>5. \A i \in shownNow : r[i].path # None /\ i # 0
    <3>1. r \in Reports  BY <1>11
    <3> QED  BY <2>3, <3>1, DoctorAssumption DEF D!ScreenAssumption
  <2> HIDE DEF visible
  <2>6. same # {} => browse.level = "skills"  BY <2>4, <2>5, <1>6
  <2>7. browse.level = "skills" => D!EntriesNow' = visible
    BY <1>1, <2>1 DEF D!EntriesNow, D!Entries, D!Choices, visible, shownNow
  <2>8. same # {} => selected' \in same  BY <2>1
  <2>9. selected' \in 1..D!AtLeast1(Len(D!EntriesNow'))
    <3>1. CASE same = {}
      <4>1. selected' = 1  BY <2>1, <3>1
      <4>2. Len(D!EntriesNow') = Entered(r, browse, pathFilter, filter)
        BY <1>1, <2>1 DEF D!EntriesNow, Entered
      <4> QED  BY <4>1, <4>2, <2>2, FirstIsThere
    <3>2. CASE same # {}
      <4>1. D!EntriesNow' = visible /\ selected' \in DOMAIN visible  BY <3>2, <2>6, <2>7, <2>8
      <4> QED  BY <4>1, <2>4 DEF D!AtLeast1
    <3> QED  BY <3>1, <3>2
  <2>10. DoctorLists'  BY <1>1, <2>1, <2>9 DEF DoctorInv, DoctorLists
  <2>11. DoctorKeepsSelection
    <3> SUFFICES ASSUME previousPath # None, NEW i \in D!VisibleNow', r[i].path = previousPath
                 PROVE  D!SelectedPath' = previousPath
      BY <2>1 DEF DoctorKeepsSelection, D!NoPath
    <3>1. D!VisibleNow' = shownNow  BY <1>1, <2>1 DEF D!VisibleNow, shownNow
    <3>2. same # {}  BY <2>4, <3>1
    <3>3. browse'.level = "skills" /\ D!EntriesNow' = visible  BY <1>1, <3>2, <2>6, <2>7
    <3>4. selected' \in DOMAIN visible /\ r[visible[selected']].path = previousPath  BY <3>2, <2>8
    <3>5. D!SelectedSkill' = visible[selected'] /\ visible[selected'] # 0
      BY <3>3, <3>4, <2>4, <2>5 DEF D!SelectedSkill
    <3> QED  BY <2>1, <3>4, <3>5 DEF D!SelectedPath
  <2> QED  BY <1>9, <2>10, <2>11
<1> QED  BY <1>10, <1>11

LEMMA TakePlanStep ==
  ASSUME DoctorInv, D!TakePlan
  PROVE  DoctorInv'
<1>1. /\ messages # <<>> /\ Head(messages).type = "plan" /\ messages' = Tail(messages)
      /\ open /\ doctorWork' = "ready"
      /\ UNCHANGED <<report, D!list, previousPath, jobs, D!past>>
  BY DEF D!TakePlan, D!Receives
<1>2. Preparing /\ doctorWork = "preparing"  BY <1>1, WhatIsUnderWay DEF Preparing
<1>3. PICK p : jobs = {} /\ messages = <<Planning(p)>> /\ (p # None => ForTheMarked(p))
  BY <1>1, <1>2 DEF Preparing
<1>4. Head(messages).plan = p /\ messages' = <<>>  BY <1>1, <1>3, HeadAndTail DEF Planning
<1>5. Idle'  BY <1>1, <1>2, <1>3, <1>4 DEF Idle, Preparing, Consented, D!past
<1>6. preview = None /\ reviewed = None /\ ~editingFilter
  BY <1>2 DEF DoctorInv, UnderReview
<1>7. DoctorLists' /\ UNCHANGED D!SelectedPath
  BY <1>1, DoctorStays DEF DoctorInv, DoctorState, D!list
<1>8. \/ UNCHANGED <<preview, reviewed>>
      \/ p # None /\ preview' = p /\ reviewed' = p /\ typed' = D!NoKey
  BY <1>4 DEF D!TakePlan
<1>9. UnderReview'
  <2>1. CASE UNCHANGED <<preview, reviewed>>  BY <2>1, <1>1, <1>6 DEF UnderReview, D!list
  <2>2. CASE p # None /\ preview' = p /\ reviewed' = p /\ typed' = D!NoKey
    <3>1. screen' = "skills" /\ D!SelectedPath' = p.path /\ ~editingFilter'
      BY <2>2, <1>1, <1>3, <1>6, <1>7 DEF ForTheMarked, D!list
    <3> QED  BY <2>2, <3>1, <1>1 DEF UnderReview, ForTheMarked, D!NoKey
  <2> QED  BY <1>8, <2>1, <2>2
<1>10. open' \in BOOLEAN  BY <1>1 DEF D!TakePlan, D!Quit, DoctorInv
<1> QED  BY <1>1, <1>5, <1>7, <1>9, <1>10 DEF DoctorInv, OneUnderWay, D!list, D!past

LEMMA TakeAppliedStep ==
  ASSUME DoctorInv, D!TakeApplied
  PROVE  DoctorInv'
<1>1. /\ messages # <<>> /\ Head(messages).type = "applied" /\ messages' = Tail(messages)
      /\ open /\ preview' = None /\ summaries' = summaries \cup {Head(messages).plan.number}
      /\ UNCHANGED <<report, D!list, reviewed, previousPath, open, typed, consent, done>>
  BY DEF D!TakeApplied
<1>2. Applying /\ doctorWork = "applying"  BY <1>1, WhatIsUnderWay DEF Applying
<1>3. PICK p : /\ jobs = {} /\ p.number \in done
               /\ \E success \in BOOLEAN : messages = <<ActionDone(p, success)>>
               /\ Consented = summaries \cup {p.number}
  BY <1>1, <1>2 DEF Applying
<1>4. Head(messages).plan = p /\ messages' = <<>>  BY <1>1, <1>3, HeadAndTail DEF ActionDone
<1>5. Consented' = summaries' /\ summaries' \subseteq done'
  BY <1>1, <1>3, <1>4 DEF Consented, DoctorInv
<1>6. \/ jobs' = {Scan} /\ doctorWork' = "scanning"
      \/ jobs' = {} /\ doctorWork' = "ready"
  BY <1>3 DEF D!TakeApplied, D!StartScan, Scan
<1>7. OneUnderWay'  BY <1>1, <1>4, <1>5, <1>6 DEF OneUnderWay, Idle, Scanning, Scan
<1>8. DoctorLists'  BY <1>1, DoctorStays DEF DoctorInv, DoctorState, D!list
<1>9. reviewed = None /\ ~editingFilter /\ (previousPath # None => browse.level = "skills")
  BY <1>2 DEF DoctorInv, UnderReview
<1>10. UnderReview'  BY <1>1, <1>6, <1>9 DEF UnderReview, D!list
<1> QED  BY <1>1, <1>5, <1>6, <1>7, <1>8, <1>10 DEF DoctorInv, D!list

-----------------------------------------------------------------------------
(* Keys.  One that starts nothing leaves what is under way.                *)
StartsNothing ==
  UNCHANGED <<doctorWork, open, jobs, messages, started, summaries, consent, done>>

LEMMA KeyOfIdle ==
  ASSUME DoctorInv, NEW key \in D!Keys, D!Takes(key)
  PROVE  /\ open /\ doctorWork = "ready" /\ Idle /\ typed' = D!NoKey /\ messages = <<>>
         /\ screen \notin {"skills"} => key \in D!OnOtherScreen
BY DoctorReadyIsIdle DEF D!Takes, D!Read, D!Reads, D!TakesKeys

LEMMA StartsNothingStep ==
  ASSUME DoctorInv, StartsNothing, DoctorLists', UnderReview', editingFilter' \in BOOLEAN,
         Idle \/ Scanning \/ UNCHANGED DoctorState
  PROVE  DoctorInv'
<1>1. CASE Idle
  <2>1. Idle'  BY <1>1 DEF Idle, StartsNothing, Consented
  <2> QED  BY <2>1 DEF DoctorInv, OneUnderWay, StartsNothing
<1>3. CASE Scanning
  <2>1. Scanning'  BY <1>3 DEF Scanning, StartsNothing, Consented
  <2> QED  BY <2>1 DEF DoctorInv, OneUnderWay, StartsNothing
<1>2. CASE UNCHANGED DoctorState
  <2>1. D!SelectedPath' = D!SelectedPath /\ screen' = screen
    BY <1>2, DoctorStays DEF DoctorInv, DoctorState
  <2>2. Idle => Idle'  BY DEF Idle, StartsNothing, Consented
  <2>3. Scanning => Scanning'  BY DEF Scanning, StartsNothing, Consented
  <2>4. Preparing => Preparing'  BY <2>1 DEF Preparing, StartsNothing, Consented, ForTheMarked
  <2>5. Applying => Applying'  BY DEF Applying, StartsNothing, Consented
  <2> QED  BY <2>2, <2>3, <2>4, <2>5 DEF DoctorInv, OneUnderWay, StartsNothing
<1> QED  BY <1>1, <1>2, <1>3

LEMMA FilterStep ==
  ASSUME DoctorInv, D!EditFilter
  PROVE  DoctorInv'
<1>1. /\ editingFilter /\ selected' = 1 /\ typed' = D!NoKey /\ open
      /\ UNCHANGED <<report, browse, history, pathFilter, detailsFocused, screen, D!review, doctorWork, open,
                     jobs, messages, D!past>>
      /\ editingFilter' \in BOOLEAN
  BY DEF D!EditFilter, D!Read, D!Reads, DoctorInv
<1>2. /\ doctorWork \in {"ready", "scanning"} /\ (Idle \/ Scanning)
      /\ preview = None /\ reviewed = None
  <2>1. doctorWork \in {"ready", "scanning"} /\ preview = None /\ reviewed = None
    BY <1>1 DEF DoctorInv, UnderReview
  <2>2. OneUnderWay  BY DEF DoctorInv
  <2>3. Idle \/ Scanning  BY <1>1, <2>1, <2>2 DEF OneUnderWay, Preparing, Applying
  <2> QED  BY <2>1, <2>3
<1>3. selected' \in 1..D!AtLeast1(Len(D!EntriesNow'))
  <2>1. Len(D!EntriesNow') = Entered(report, browse, pathFilter, filter')
    BY <1>1 DEF D!EntriesNow, Entered
  <2> QED  BY <1>1, <2>1, FirstIsThere DEF DoctorInv, DoctorLists
<1>4. DoctorLists'  BY <1>1, <1>3 DEF DoctorInv, DoctorLists
<1>5. UnderReview'  BY <1>1, <1>2 DEF DoctorInv, UnderReview, D!review, D!NoKey
<1>6. StartsNothing  BY <1>1 DEF StartsNothing, D!past
<1> QED  BY <1>1, <1>2, <1>4, <1>5, <1>6, StartsNothingStep

LEMMA QuietKeyStep ==
  ASSUME DoctorInv, D!QuitKey \/ D!IgnoredKey \/ D!Type
  PROVE  DoctorInv'
<1>1. /\ open /\ UNCHANGED <<report, D!list, D!review, doctorWork, jobs, messages, D!past>>
      /\ open' = open \/ (doctorWork # "applying" /\ open' = FALSE)
  BY DEF D!QuitKey, D!IgnoredKey, D!Type, D!Read, D!Reads, DoctorInv
<1>2. DoctorLists' /\ UNCHANGED D!SelectedPath
  BY <1>1, DoctorStays DEF DoctorInv, DoctorState, D!list
<1>3. typed' = D!NoKey \/ doctorWork = "preparing"
  BY DEF D!QuitKey, D!IgnoredKey, D!Type, D!Read
<1>4. UnderReview'  BY <1>1, <1>2, <1>3 DEF DoctorInv, UnderReview, ForTheMarked, D!list, D!review, D!NoKey
<1>5. OneUnderWay'
  <2>1. Idle => Idle'  BY <1>1 DEF Idle, Consented, D!past
  <2>2. Scanning => Scanning'  BY <1>1 DEF Scanning, Consented, D!past
  <2>3. Preparing => Preparing'
    BY <1>1, <1>2 DEF Preparing, Consented, ForTheMarked, D!list, D!past
  <2>4. Applying => Applying'  BY <1>1 DEF Applying, Consented, D!past
  <2> QED  BY <2>1, <2>2, <2>3, <2>4 DEF DoctorInv, OneUnderWay
<1> QED  BY <1>1, <1>2, <1>4, <1>5 DEF DoctorInv, D!list, D!past

LEMMA MoveStep ==
  ASSUME DoctorInv, D!MoveSelection
  PROVE  DoctorInv'
<1>1. PICK key \in {"up", "down"} : D!Takes(key)  BY DEF D!MoveSelection
<1>2. Idle /\ doctorWork = "ready" /\ typed' = D!NoKey  BY <1>1, KeyOfIdle DEF D!Keys
<1>3. UNCHANGED <<report, browse, history, pathFilter, filter, editingFilter, detailsFocused, screen,
                  D!review, doctorWork, open, jobs, messages, D!past>>
  BY DEF D!MoveSelection
<1> DEFINE n == Len(D!EntriesNow)
<1>4. n \in Nat /\ selected \in Nat /\ selected >= 1 /\ (selected <= n \/ selected = 1)
  BY DoctorCounts DEF DoctorInv
<1>5. \/ selected' = selected
      \/ /\ preview = None /\ n # 0
         /\ selected' = (selected % n) + 1 \/ selected' = IF selected = 1 THEN n ELSE selected - 1
  BY DEF D!MoveSelection
<1> HIDE DEF n
<1>6. n # 0 => (selected % n) + 1 \in 1..n  BY <1>4
<1>7. selected' = selected \/ (preview = None /\ selected' \in 1..n)  BY <1>4, <1>5, <1>6
<1>8. D!EntriesNow' = D!EntriesNow  BY <1>3 DEF D!EntriesNow
<1>9. selected' \in 1..D!AtLeast1(Len(D!EntriesNow'))
  BY <1>4, <1>7, <1>8 DEF D!AtLeast1, n, DoctorInv, DoctorLists
<1>10. DoctorLists'  BY <1>3, <1>9 DEF DoctorInv, DoctorLists
<1>11. selected' = selected => D!SelectedPath' = D!SelectedPath
  BY <1>3, <1>8 DEF D!SelectedPath, D!SelectedSkill
<1>12. UnderReview'
  BY <1>2, <1>3, <1>7, <1>11 DEF DoctorInv, UnderReview, ForTheMarked, D!review, D!NoKey
<1>13. StartsNothing  BY <1>3 DEF StartsNothing, D!past
<1> QED  BY <1>2, <1>3, <1>10, <1>12, <1>13, StartsNothingStep DEF DoctorInv

LEMMA FocusStep ==
  ASSUME DoctorInv, D!FocusDetails \/ D!StartFilter \/ D!OpenPage
  PROVE  DoctorInv'
<1>1. \E key \in D!Keys : D!Takes(key)  BY DEF D!FocusDetails, D!StartFilter, D!OpenPage, D!Keys
<1>2. Idle /\ doctorWork = "ready" /\ typed' = D!NoKey  BY <1>1, KeyOfIdle
<1>3. /\ UNCHANGED <<report, selected, browse, history, pathFilter, filter, D!review, doctorWork, open, jobs,
                     messages, D!past>>
      /\ screen' = screen \/ (preview = None /\ screen' = "page")
      /\ editingFilter' = editingFilter \/ editingFilter' = (preview = None)
  BY DEF D!FocusDetails, D!StartFilter, D!OpenPage
<1>4. D!EntriesNow' = D!EntriesNow /\ D!SelectedPath' = D!SelectedPath
  <2>1. D!EntriesNow' = D!EntriesNow  BY <1>3 DEF D!EntriesNow
  <2> QED  BY <1>3, <2>1 DEF D!SelectedPath, D!SelectedSkill
<1>5. DoctorLists'  BY <1>3, <1>4 DEF DoctorInv, DoctorLists
<1>6. UnderReview'  BY <1>2, <1>3, <1>4 DEF DoctorInv, UnderReview, ForTheMarked, D!review, D!NoKey
<1>7. StartsNothing  BY <1>3 DEF StartsNothing, D!past
<1>8. editingFilter' \in BOOLEAN
  <2>1. editingFilter \in BOOLEAN /\ (preview = None) \in BOOLEAN  BY DEF DoctorInv
  <2> QED  BY Zenon, <1>3, <2>1
<1> QED  BY <1>2, <1>5, <1>6, <1>7, <1>8, StartsNothingStep

LEMMA GroupStep ==
  ASSUME DoctorInv, D!ToggleGroup \/ D!OpenGroup
  PROVE  DoctorInv'
<1>1. \E key \in D!Keys : D!Takes(key)  BY DEF D!ToggleGroup, D!OpenGroup, D!Keys
<1>2. Idle /\ doctorWork = "ready" /\ typed' = D!NoKey  BY <1>1, KeyOfIdle
<1>3. UNCHANGED <<report, filter, editingFilter, screen, D!review, doctorWork, open, jobs, messages, D!past>>
  BY DEF D!ToggleGroup, D!OpenGroup, D!list
<1>4. StartsNothing /\ editingFilter' \in BOOLEAN  BY <1>3 DEF StartsNothing, D!past, DoctorInv
<1>5. ASSUME UNCHANGED D!list PROVE DoctorInv'
  <2>1. DoctorLists' /\ UNCHANGED D!SelectedPath
    BY <1>3, <1>5, DoctorStays DEF DoctorInv, DoctorState, D!list
  <2>2. UnderReview'
    BY <1>2, <1>3, <1>5, <2>1 DEF DoctorInv, UnderReview, ForTheMarked, D!list, D!review, D!NoKey
  <2> QED  BY <1>2, <1>4, <2>1, <2>2, StartsNothingStep
<1>6. ASSUME preview = None, selected' = 1, browse'.level \in Levels, history' \in Seq(Nat \ {0}),
             Len(history') = Depth[browse'.level]
      PROVE  DoctorInv'
  <2>1. selected' \in 1..D!AtLeast1(Len(D!EntriesNow'))
    <3>1. Len(D!EntriesNow') = Entered(report, browse', pathFilter', filter)
      BY <1>3 DEF D!EntriesNow, Entered
    <3> QED  BY <1>6, <3>1, FirstIsThere DEF DoctorInv, DoctorLists
  <2>2. DoctorLists'  BY <1>3, <1>6, <2>1 DEF DoctorInv, DoctorLists
  <2>3. UnderReview'  BY <1>2, <1>3, <1>6 DEF DoctorInv, UnderReview, D!review, D!NoKey
  <2> QED  BY <1>2, <1>4, <2>2, <2>3, StartsNothingStep
<1>7. CASE D!ToggleGroup
  <2>1. CASE preview # None  BY <1>5, <1>7, <2>1 DEF D!ToggleGroup
  <2>2. CASE preview = None
    <3>1. browse' = D!Root /\ history' = <<>> /\ selected' = 1  BY <1>7, <2>2 DEF D!ToggleGroup
    <3>2. browse'.level = "owners"  BY <3>1 DEF D!Root
    <3>3. browse'.level \in Levels /\ history' \in Seq(Nat \ {0}) /\ Len(history') = Depth[browse'.level]
      BY <3>1, <3>2 DEF Depth, Levels
    <3> QED  BY <1>6, <2>2, <3>1, <3>3
  <2> QED  BY <2>1, <2>2
<1>8. CASE D!OpenGroup
  <2> DEFINE opens == preview = None /\ browse.level # "skills" /\ selected \in DOMAIN D!EntriesNow
  <2>1. CASE ~opens  BY <1>5, <1>8, <2>1 DEF D!OpenGroup
  <2>2. CASE opens
    <3>1. /\ history' = Append(history, selected) /\ selected' = 1
          /\ browse' = D!Opened(browse, D!EntriesNow[selected])
      BY <1>8, <2>2 DEF D!OpenGroup
    <3>2. selected \in Nat \ {0} /\ Len(history) = Depth[browse.level] /\ history \in Seq(Nat \ {0})
      BY DoctorCounts DEF DoctorInv, DoctorLists
    <3>3. history' \in Seq(Nat \ {0}) /\ Len(history') = Len(history) + 1  BY <3>1, <3>2
    <3>4. CASE browse.level = "owners"
      <4>1. browse'.level = "locations"  BY <3>1, <3>4 DEF D!Opened
      <4> QED  BY <1>6, <2>2, <3>1, <3>2, <3>3, <3>4, <4>1 DEF Depth, Levels
    <3>5. CASE browse.level = "locations"
      <4>1. browse'.level = "skills"  BY <3>1, <3>5 DEF D!Opened
      <4> QED  BY <1>6, <2>2, <3>1, <3>2, <3>3, <3>5, <4>1 DEF Depth, Levels
    <3> QED  BY <2>2, <3>4, <3>5 DEF DoctorInv, DoctorLists, Levels
  <2> QED  BY <2>1, <2>2
<1> QED  BY <1>7, <1>8

LEMMA BackStep ==
  ASSUME DoctorInv, D!Back
  PROVE  DoctorInv'
<1>1. D!Takes("esc")  BY DEF D!Back
<1>2. Idle /\ doctorWork = "ready" /\ typed' = D!NoKey
  BY <1>1, KeyOfIdle DEF D!Keys
<1>3. /\ reviewed' = None
      /\ UNCHANGED <<report, pathFilter, editingFilter, previousPath, doctorWork, open, jobs, messages, D!past>>
  BY DEF D!Back
<1>4. StartsNothing /\ editingFilter' \in BOOLEAN  BY <1>3 DEF StartsNothing, D!past, DoctorInv
<1>5. preview' = None
  BY DEF D!Back, DoctorInv, UnderReview, ForTheMarked
<1>6. UnderReview'  BY <1>2, <1>3, <1>5 DEF UnderReview
<1>7. DoctorLists' => DoctorInv'  BY <1>2, <1>4, <1>6, StartsNothingStep
<1>8. CASE UNCHANGED <<filter, selected, browse, history>> /\ screen' \in {"skills", screen}
  <2>1. D!EntriesNow' = D!EntriesNow  BY <1>3, <1>8 DEF D!EntriesNow
  <2>2. DoctorLists'  BY <1>3, <1>8, <2>1 DEF DoctorInv, DoctorLists
  <2> QED  BY <1>7, <2>2
<1>9. CASE filter' = {} /\ UNCHANGED <<screen, selected, browse, history>>
  <2>1. /\ Len(D!EntriesNow) = Entered(report, browse, pathFilter, filter)
        /\ Len(D!EntriesNow') = Entered(report, browse, pathFilter, {})
    BY <1>3, <1>9 DEF D!EntriesNow, Entered
  <2>2. Len(D!EntriesNow) <= Len(D!EntriesNow') /\ Len(D!EntriesNow') \in Nat
    BY <2>1, UnfilteredIsLonger, EntriesAreCounted DEF DoctorInv, DoctorLists
  <2>3. selected' \in 1..D!AtLeast1(Len(D!EntriesNow'))
    BY <1>9, <2>2, DoctorCounts DEF DoctorInv, D!AtLeast1
  <2>4. DoctorLists'  BY <1>3, <1>9, <2>3 DEF DoctorInv, DoctorLists
  <2> QED  BY <1>7, <2>4
<1>10. CASE D!LeaveGroup /\ UNCHANGED <<screen, filter>>
  <2> DEFINE last == IF history = <<>> THEN 1 ELSE history[Len(history)]
             n == D!AtLeast1(Len(D!Entries(report, D!Parent, pathFilter, filter)))
  <2>1. /\ browse' = D!Parent /\ selected' = IF last > n THEN n ELSE last
        /\ history' = IF history = <<>> THEN history ELSE SubSeq(history, 1, Len(history) - 1)
    BY <1>10 DEF D!LeaveGroup
  <2>2. history \in Seq(Nat \ {0}) /\ browse.level \in Levels /\ Depth[browse.level] = Len(history)
    BY DEF DoctorInv, DoctorLists
  <2>3. last \in Nat \ {0}
    <3>1. CASE history = <<>>  BY <3>1
    <3>2. CASE history # <<>>
      <4>1. Len(history) \in 1..Len(history)  BY <2>2, <3>2
      <4> QED  BY <2>2, <3>2, <4>1
    <3> QED  BY <3>1, <3>2
  <2>4. /\ D!Parent.level \in Levels
        /\ browse.level = "skills" => D!Parent.level = "locations"
        /\ browse.level # "skills" => D!Parent.level = "owners"
    BY DEF D!Parent, D!Root, Levels
  <2>5. n = D!AtLeast1(Entered(report, D!Parent, pathFilter, filter))  BY DEF Entered
  <2>6. n \in Nat /\ n >= 1
    <3>1. Entered(report, D!Parent, pathFilter, filter) \in Nat
      BY <2>4, EntriesAreCounted DEF DoctorInv, DoctorLists
    <3> QED  BY <2>5, <3>1 DEF D!AtLeast1
  <2>7. D!EntriesNow' = D!Entries(report, D!Parent, pathFilter, filter)
    BY <1>3, <1>10, <2>1 DEF D!EntriesNow
  <2>8. selected' \in 1..D!AtLeast1(Len(D!EntriesNow'))
    <3>1. D!AtLeast1(Len(D!EntriesNow')) = n  BY <2>7
    <3> HIDE DEF n, last
    <3> QED  BY <2>1, <2>3, <2>6, <3>1
  <2>9. history' \in Seq(Nat \ {0}) /\ Len(history') = Depth[D!Parent.level]
    <3>1. CASE history = <<>>
      <4>1. Len(history) = 0  BY <3>1
      <4> QED  BY <2>1, <2>2, <2>4, <3>1, <4>1 DEF Depth, Levels
    <3>2. CASE history # <<>>
      <4>1. Len(history) \in Nat /\ Len(history) >= 1  BY <2>2, <3>2
      <4>2. /\ SubSeq(history, 1, Len(history) - 1) \in Seq(Nat \ {0})
            /\ Len(SubSeq(history, 1, Len(history) - 1)) = Len(history) - 1
        <5>1. \A i \in 1..(Len(history) - 1) : history[i] \in Nat \ {0}  BY <2>2, <4>1
        <5>2. 1 \in Int /\ Len(history) - 1 \in Int  BY <4>1
        <5>3. Len(SubSeq(history, 1, Len(history) - 1)) =
                IF 1 <= Len(history) - 1 THEN (Len(history) - 1) - 1 + 1 ELSE 0
          BY <5>1, <5>2, SubSeqProperties
        <5>4. SubSeq(history, 1, Len(history) - 1) \in Seq(Nat \ {0})
          BY <5>1, <5>2, SubSeqProperties
        <5> DEFINE shorter == SubSeq(history, 1, Len(history) - 1)
        <5> HIDE DEF shorter
        <5>5. Len(shorter) = IF 1 <= Len(history) - 1 THEN (Len(history) - 1) - 1 + 1 ELSE 0
          BY <5>3 DEF shorter
        <5>6. Len(shorter) = Len(history) - 1  BY <4>1, <5>5
        <5> QED  BY <5>4, <5>6 DEF shorter
      <4>3. Depth["owners"] = 0 /\ Depth["locations"] = 1 /\ Depth["skills"] = 2  BY DEF Depth, Levels
      <4>4. Len(history) - 1 = Depth[D!Parent.level]
        BY <2>2, <2>4, <4>1, <4>3 DEF Levels
      <4> QED  BY <2>1, <3>2, <4>2, <4>4
    <3> QED  BY <3>1, <3>2
  <2>10. DoctorLists'  BY <1>3, <1>10, <2>1, <2>4, <2>8, <2>9 DEF DoctorInv, DoctorLists
  <2> QED  BY <1>7, <2>10
<1> QED  BY <1>8, <1>9, <1>10 DEF D!Back

(* Keys that start a job.                                                  *)
LEMMA ApplyStep ==
  ASSUME DoctorInv, D!ApplyPlan
  PROVE  /\ DoctorInv'
         /\ \A c \in consent' \ consent : c.saw = c.plan /\ c.selected = c.plan.path
<1>1. /\ D!Takes("enter") /\ reviewed # None /\ reviewed' = None
      /\ previousPath' = D!SelectedPath /\ doctorWork' = "applying"
      /\ jobs' = jobs \cup {Acting(reviewed)}
      /\ consent' = consent \cup {[plan |-> reviewed, saw |-> IF typed = D!NoKey THEN preview ELSE None,
                                   selected |-> D!SelectedPath]}
      /\ UNCHANGED <<report, D!list, preview, open, messages, started, summaries, done>>
  BY DEF D!ApplyPlan, Acting
<1>2. Idle /\ open /\ typed' = D!NoKey  BY <1>1, KeyOfIdle DEF D!Keys
<1>3. preview = reviewed /\ typed = D!NoKey /\ screen = "skills" /\ D!SelectedPath = reviewed.path
      /\ ~editingFilter
  BY <1>1 DEF DoctorInv, UnderReview, ForTheMarked
<1>4. DoctorLists' /\ UNCHANGED D!SelectedPath
  BY <1>1, DoctorStays DEF DoctorInv, DoctorState, D!list
<1>5. Consented' = Consented \cup {reviewed.number}
  <2> DEFINE c == [plan |-> reviewed, saw |-> IF typed = D!NoKey THEN preview ELSE None,
                   selected |-> D!SelectedPath]
  <2>1. c.plan.number = reviewed.number /\ consent' = consent \cup {c}  BY <1>1
  <2> HIDE DEF c
  <2> QED  BY <2>1 DEF Consented
<1>6. jobs' = {Acting(reviewed)} /\ messages' = <<>> /\ Consented = summaries
  BY <1>1, <1>2 DEF Idle
<1>7. Applying'  BY <1>1, <1>2, <1>5, <1>6 DEF Applying
<1>8. D!SelectedPath # None => browse.level = "skills"
  BY DEF D!SelectedPath, D!SelectedSkill, D!NoPath
<1>9. UnderReview'
  BY <1>1, <1>2, <1>3, <1>4, <1>8 DEF UnderReview, ForTheMarked, D!list
<1>10. DoctorInv'  BY <1>1, <1>2, <1>4, <1>7, <1>9 DEF DoctorInv, OneUnderWay, D!list
<1> QED  BY <1>1, <1>3, <1>10

LEMMA RescanStep ==
  ASSUME DoctorInv, D!Rescan
  PROVE  DoctorInv'
<1>1. D!Takes("rescan") /\ UNCHANGED <<report, D!list, preview, reviewed, open, messages, summaries, consent, done>>
  BY DEF D!Rescan
<1>2. Idle /\ open /\ doctorWork = "ready" /\ typed' = D!NoKey
  BY <1>1, KeyOfIdle DEF D!Keys
<1>3. DoctorLists' /\ UNCHANGED D!SelectedPath
  BY <1>1, DoctorStays DEF DoctorInv, DoctorState, D!list
<1>4. CASE preview = None
  <2>1. previousPath' = D!SelectedPath /\ doctorWork' = "scanning" /\ jobs' = {Scan}
    BY <1>2, <1>4 DEF D!Rescan, D!StartScan, Idle, Scan
  <2>2. Scanning'  BY <1>1, <1>2, <2>1 DEF Scanning, Idle, Consented
  <2>3. D!SelectedPath # None => browse.level = "skills"
    BY DEF D!SelectedPath, D!SelectedSkill, D!NoPath
  <2>4. reviewed = None  BY <1>4 DEF DoctorInv, UnderReview
  <2>5. UnderReview'  BY <1>1, <1>2, <1>4, <2>1, <2>3, <2>4 DEF UnderReview, D!list
  <2> QED  BY <1>1, <1>3, <2>1, <2>2, <2>5 DEF DoctorInv, OneUnderWay, D!list
<1>5. CASE preview # None
  <2>1. UNCHANGED <<previousPath, jobs, doctorWork, started>>  BY <1>5 DEF D!Rescan
  <2>2. Idle'  BY <1>1, <1>2, <2>1 DEF Idle, Consented
  <2>3. UnderReview'  BY <1>1, <1>2, <1>3, <2>1 DEF DoctorInv, UnderReview, ForTheMarked, D!list
  <2> QED  BY <1>1, <1>3, <2>1, <2>2, <2>3 DEF DoctorInv, OneUnderWay, D!list
<1> QED  BY <1>4, <1>5

LEMMA PrepareStep ==
  ASSUME DoctorInv, D!Prepare
  PROVE  DoctorInv'
<1>1. PICK action \in {"migrate", "remove"} :
        /\ D!Takes(action)
        /\ \/ UNCHANGED <<doctorWork, started, jobs>>
           \/ /\ D!CanReviewAction /\ doctorWork' = "preparing"
              /\ jobs' = jobs \cup {Planning([number |-> started, path |-> D!SelectedPath, action |-> action])}
        /\ UNCHANGED <<report, D!list, D!review, open, messages, summaries, consent, done>>
  BY DEF D!Prepare, Planning
<1>2. Idle /\ open /\ doctorWork = "ready" /\ typed' = D!NoKey
  BY <1>1, KeyOfIdle DEF D!Keys
<1>3. DoctorLists' /\ UNCHANGED D!SelectedPath
  BY <1>1, DoctorStays DEF DoctorInv, DoctorState, D!list
<1>4. CASE UNCHANGED <<doctorWork, started, jobs>>
  <2>1. Idle'  BY <1>1, <1>2, <1>4 DEF Idle, Consented
  <2>2. UnderReview'
    BY <1>1, <1>2, <1>3, <1>4 DEF DoctorInv, UnderReview, ForTheMarked, D!list, D!review
  <2> QED  BY <1>1, <1>3, <1>4, <2>1, <2>2 DEF DoctorInv, OneUnderWay, D!list
<1>5. CASE D!CanReviewAction /\ ~ UNCHANGED <<doctorWork, started, jobs>>
  <2> DEFINE p == [number |-> started, path |-> D!SelectedPath, action |-> action]
  <2>1. doctorWork' = "preparing" /\ jobs' = {Planning(p)} /\ messages' = <<>>
    BY <1>1, <1>2, <1>5 DEF Idle
  <2>2. screen' = "skills" /\ D!SelectedPath' = p.path
    BY <1>1, <1>3, <1>5 DEF D!CanReviewAction, D!list
  <2> HIDE DEF p
  <2>3. Preparing'  BY <1>1, <1>2, <2>1, <2>2 DEF Preparing, Idle, Consented, ForTheMarked
  <2>4. preview = None /\ reviewed = None /\ ~editingFilter  BY <1>5 DEF D!CanReviewAction, DoctorInv, UnderReview
  <2>5. UnderReview'  BY <1>1, <1>2, <2>1, <2>4 DEF UnderReview, D!list, D!review
  <2> QED  BY <1>1, <1>3, <2>1, <2>3, <2>5 DEF DoctorInv, OneUnderWay, D!list
<1> QED  BY <1>1, <1>4, <1>5

-----------------------------------------------------------------------------
LEMMA DoctorStep ==
  ASSUME DoctorInv, [D!Next]_doctorVars
  PROVE  /\ DoctorInv' /\ DoctorKeepsSelection
         /\ \A c \in consent' \ consent : c.saw = c.plan /\ c.selected = c.plan.path
<1>1. CASE UNCHANGED doctorVars
  <2>1. UNCHANGED DoctorState  BY <1>1 DEF doctorVars, DoctorState
  <2>2. DoctorLists' /\ UNCHANGED D!SelectedPath  BY <2>1, DoctorStays DEF DoctorInv
  <2>3. UnderReview'  BY <1>1, <2>2 DEF DoctorInv, UnderReview, ForTheMarked, doctorVars, D!NoKey
  <2>4. StartsNothing  BY <1>1 DEF doctorVars, StartsNothing
  <2>5. editingFilter' \in BOOLEAN  BY <1>1 DEF doctorVars, DoctorInv
  <2>6. DoctorInv'  BY <2>1, <2>2, <2>3, <2>4, <2>5, StartsNothingStep
  <2> QED  BY <1>1, <2>6 DEF doctorVars, DoctorKeepsSelection
<1>2. CASE D!TakeScan
  <2>1. consent' = consent  BY <1>2 DEF D!TakeScan, D!past
  <2> QED  BY <1>2, <2>1, TakeScanStep
<1>3. CASE D!ApplyPlan
  <2>1. report' = report  BY <1>3 DEF D!ApplyPlan
  <2> QED  BY <1>3, <2>1, ApplyStep DEF DoctorKeepsSelection
<1>4. CASE D!ScanProgress \/ D!Threads \/ D!TakeProgress \/ D!TakePlan \/ D!TakeApplied \/ D!EditFilter \/ D!QuitKey
           \/ D!IgnoredKey \/ D!MoveSelection \/ D!FocusDetails \/ D!StartFilter \/ D!ToggleGroup \/ D!OpenPage
           \/ D!Back \/ D!OpenGroup \/ D!Rescan \/ D!Prepare \/ D!Type
  <2>1. UNCHANGED <<report, consent>>
    BY <1>4 DEF D!ScanProgress, D!Threads, D!ScanEnds, D!PlanEnds, D!ActionEnds, D!Send, D!TakeProgress, D!TakePlan,
                D!TakeApplied, D!EditFilter, D!QuitKey, D!IgnoredKey, D!MoveSelection, D!FocusDetails,
                D!StartFilter, D!ToggleGroup, D!OpenPage, D!Back, D!OpenGroup, D!Rescan, D!Prepare, D!Type, D!past
  <2>2. DoctorInv'
    BY <1>4, ScanStep, PlanStep, ActionStep, TakeProgressStep, TakePlanStep, TakeAppliedStep, FilterStep,
       QuietKeyStep, MoveStep, FocusStep, GroupStep, BackStep, RescanStep, PrepareStep DEF D!Threads
  <2> QED  BY <2>1, <2>2 DEF DoctorKeepsSelection
<1> QED  BY <1>1, <1>2, <1>3, <1>4 DEF D!Next, D!Threads, D!Takings, D!KeyActions

LEMMA DoctorSafe ==
  ASSUME DoctorInv
  PROVE  D!TypeOK /\ D!SelectionExists /\ D!OneJob /\ D!ActionsReported
<1>1. D!TypeOK
  <2>1. Len(history) <= 2  BY DEF DoctorInv, DoctorLists, Depth, Levels
  <2> QED  BY <2>1 DEF D!TypeOK, DoctorInv, DoctorLists, Levels
<1>2. D!SelectionExists  BY DEF D!SelectionExists, DoctorInv, DoctorLists
<1>3. D!ActionsReported
  <2> SUFFICES ASSUME ~open PROVE (\A job \in jobs : job.type # "action") /\ Consented = summaries
    BY DEF D!ActionsReported, Consented
  <2>1. ~Applying  BY DEF Applying
  <2> QED  BY <2>1 DEF DoctorInv, OneUnderWay, Idle, Scanning, Preparing, Scan, Planning
<1>4. D!OneJob
  <2> DEFINE mail == {i \in DOMAIN messages : messages[i].type # "progress"}
  <2>1. open => \A job \in jobs : doctorWork = CASE job.type = "scan" -> "scanning"
                                                 [] job.type = "plan" -> "preparing"
                                                 [] job.type = "action" -> "applying"
    <3> SUFFICES ASSUME open, NEW job \in jobs
                 PROVE  /\ job.type = "scan" => doctorWork = "scanning"
                        /\ job.type = "plan" => doctorWork = "preparing"
                        /\ job.type = "action" => doctorWork = "applying"
                        /\ job.type \in {"scan", "plan", "action"}
      OBVIOUS
    <3> QED  BY WhatIsUnderWay DEF Scanning, Preparing, Applying
  <2>2. Cardinality({}) = 0 /\ \A x : Cardinality({x}) = 1  BY FS_EmptySet, FS_Singleton
  <2>3. \/ jobs = {} /\ (mail = {} \/ \E i : mail = {i})
        \/ mail = {} /\ \E job : jobs = {job}
    <3>1. messages = <<>> => mail = {}  OBVIOUS
    <3>2. messages = <<Progress>> => mail = {}  BY DEF Progress
    <3>3. \A m : messages = <<m>> => (mail = {} \/ mail = {1})  OBVIOUS
    <3>4. \A r : messages = <<Progress, Found(r)>> => mail = {2}  BY DEF Progress, Found
    <3> HIDE DEF mail
    <3>5. CASE Idle  BY <3>1, <3>5 DEF Idle
    <3>6. CASE Scanning
      <4>1. CASE jobs = {Scan} /\ messages \in {<<>>, <<Progress>>}  BY <4>1, <3>1, <3>2
      <4>2. ASSUME NEW r, jobs = {}, messages \in {<<Found(r)>>, <<Progress, Found(r)>>}
            PROVE  jobs = {} /\ (mail = {} \/ \E i : mail = {i})
        BY <4>2, <3>3, <3>4
      <4> QED  BY <3>6, <4>1, <4>2 DEF Scanning
    <3>7. CASE Preparing  BY <3>7, <3>1, <3>3 DEF Preparing
    <3>8. CASE Applying  BY <3>8, <3>1, <3>3 DEF Applying
    <3> QED  BY <3>5, <3>6, <3>7, <3>8 DEF DoctorInv, OneUnderWay
  <2> HIDE DEF mail
  <2>4. Cardinality(jobs) + Cardinality(mail) <= 1
    <3>1. CASE jobs = {} /\ mail = {}  BY <2>2, <3>1
    <3>2. ASSUME NEW i, jobs = {}, mail = {i} PROVE Cardinality(jobs) + Cardinality(mail) <= 1
      <4>1. Cardinality(mail) = 1  BY <2>2, <3>2
      <4> QED  BY <2>2, <3>2, <4>1
    <3>3. ASSUME NEW job, mail = {}, jobs = {job} PROVE Cardinality(jobs) + Cardinality(mail) <= 1
      <4>1. Cardinality(jobs) = 1  BY <2>2, <3>3
      <4> QED  BY <2>2, <3>3, <4>1
    <3> QED  BY <2>3, <3>1, <3>2, <3>3
  <2>5. D!Cardinality(jobs) + D!Cardinality(mail) <= 1  BY <2>4, InstancesAgree
  <2> QED  BY <2>1, <2>5 DEF D!OneJob, mail
<1> QED  BY <1>1, <1>2, <1>3, <1>4

-----------------------------------------------------------------------------
(* The screen of update.  Its model: a cursor on a row, a viewport within  *)
(* what there is to show.                                                  *)
CommitStates == {"not requested", "loading", "ready", "failed"}
ShownRows == [name : Skills, comparison : Comparisons \cup {None}, selected : BOOLEAN]
Models ==
  [tab : {"outdated", "commits"}, phase : U!Phases, rows : Seq(ShownRows),
   commits : UNION {[X -> CommitStates] : X \in SUBSET Comparisons},
   cursor : Nat, viewport : Nat, width : Nat \ {0}, height : Nat \ {0}, help : BOOLEAN]

ModelTyped(m) == m \in Models /\ IsFiniteSet(DOMAIN m.commits)
ModelOK(m) ==
  /\ ModelTyped(m)
  /\ m.cursor \in 0..U!Minus(Len(m.rows), 1)
  /\ m.viewport \in 0..U!Maximum(Len(m.rows), U!CommitLineCount(m))

(* All ranges of a plan are asked for and answered together.               *)
AllAre(state) == \A id \in DOMAIN model.commits : model.commits[id] = state
Settled == AllAre("not requested") \/ AllAre("ready") \/ AllAre("failed")

(* What the worker has.                                                    *)
Summaries == [updated : Nat, failed : Nat, cancelled : BOOLEAN, interrupted : BOOLEAN]
PlanMessage(relation) == [type |-> "candidates", candidates |-> U!Candidates(relation)]
LoadFailed == [type |-> "loadFailed"]
CommitsMessage(ids, state) == [type |-> "commits", results |-> [id \in ids |-> state]]
AppliedMessage(updated, failed) == [type |-> "applied", updated |-> updated, failed |-> failed]

NothingRuns ==
  running = "none" /\ work = U!NoEffect /\ channel = U!NoMessage /\ applied.names = {}
FetchingPlan ==
  /\ running = "load" /\ applied.names = {}
  /\ \/ work = U!LoadCandidates /\ channel = U!NoMessage
     \/ work = U!NoEffect /\ channel = LoadFailed
     \/ /\ work = U!NoEffect /\ plan.number = loads
        /\ \E relation \in [Skills -> U!Relations] : channel = PlanMessage(relation)
FetchingCommits ==
  /\ running = "load" /\ applied.names = {} /\ AllAre("loading")
  /\ \/ work = U!LoadCommits(DOMAIN model.commits) /\ channel = U!NoMessage
     \/ work = U!NoEffect /\ \E state \in {"ready", "failed"} : channel = CommitsMessage(DOMAIN model.commits, state)
Updating ==
  /\ running = "apply"
  /\ \/ work = U!ApplyNames(U!SelectedNames(model)) /\ channel = U!NoMessage /\ applied.names = {}
     \/ /\ work = U!NoEffect
        /\ \E updated, failed \in Nat :
             /\ channel = AppliedMessage(updated, failed)
             /\ applied.names # {} => updated + failed = Cardinality(applied.names)

(* A worker that nobody waits for any more.                                *)
LeftAlone ==
  \/ running = "none" /\ work = U!NoEffect /\ channel = U!NoMessage
  \/ running = "load" /\ work.type \in {"loadCandidates", "loadCommits"} /\ channel = U!NoMessage
  \/ running = "load" /\ work = U!NoEffect /\ channel # U!NoMessage

Free == (NothingRuns /\ Settled) \/ FetchingCommits
Complete(summary) == applied.names # {} => summary.updated + summary.failed = Cardinality(applied.names)

(* Where the screen is.                                                    *)
LoadingPhase ==
  /\ model.phase = "loading"
  /\ \/ queue = <<U!LoadCandidates>> /\ Free
     \/ queue = <<>> /\ FetchingPlan /\ Settled
BrowsingPhase ==
  /\ model.phase = "browsing" /\ plan.number = loads
  /\ \/ queue = <<>> /\ Free
     \/ queue = <<U!LoadCommits(DOMAIN model.commits)>> /\ NothingRuns /\ AllAre("loading")
ApplyingPhase ==
  /\ model.phase = "applying" /\ plan.number = loads
  /\ \/ queue = <<U!ApplyNames(U!SelectedNames(model))>> /\ Free
     \/ queue = <<>> /\ Updating /\ Settled
     \/ /\ \E s \in Summaries : queue = <<U!Exit(s)>>
        /\ FetchingCommits \/ (Updating /\ Settled)
FailedPhase == model.phase = "failed" /\ queue = <<>> /\ NothingRuns /\ Settled
FinishedPhase ==
  /\ model.phase = "finished" /\ LeftAlone
  /\ \E s \in Summaries : queue = <<U!Exit(s)>> /\ Complete(s)
ClosedPhase ==
  /\ model.phase = "closed" /\ LeftAlone /\ queue = <<>>
  /\ exit \in Summaries /\ Complete(exit)

InOnePhase ==
  LoadingPhase \/ BrowsingPhase \/ ApplyingPhase \/ FailedPhase \/ FinishedPhase \/ ClosedPhase

(* A Ctrl+C is on its way to the exit code, and who gave up gets out.      *)
UserLeft ==
  /\ interrupted => \/ model.phase = "closed" /\ exit.interrupted
                    \/ U!ExitFirst /\ Head(queue).summary.interrupted
                    \/ running = "apply" /\ interruptAfterApply
  /\ leaving => model.phase = "closed" \/ (U!ExitFirst /\ running # "apply")
  /\ interrupted \in BOOLEAN /\ leaving \in BOOLEAN /\ interruptAfterApply \in BOOLEAN

UpdateInv == ModelOK(model) /\ InOnePhase /\ UserLeft

LEMMA ModelFields ==
  ASSUME NEW m \in Models
  PROVE  /\ m.tab \in {"outdated", "commits"} /\ m.phase \in U!Phases /\ m.rows \in Seq(ShownRows)
         /\ m.commits \in [DOMAIN m.commits -> CommitStates] /\ DOMAIN m.commits \subseteq Comparisons
         /\ m.cursor \in Nat /\ m.viewport \in Nat /\ m.width \in Nat \ {0} /\ m.height \in Nat \ {0}
         /\ m.help \in BOOLEAN /\ Len(m.rows) \in Nat /\ DOMAIN m.rows = 1..Len(m.rows)
<1>1. m.commits \in UNION {[X -> CommitStates] : X \in SUBSET Comparisons}  BY DEF Models
<1>2. PICK X \in SUBSET Comparisons : m.commits \in [X -> CommitStates]  BY <1>1
<1>3. m.rows \in Seq(ShownRows)  BY DEF Models
<1> QED  BY <1>2, <1>3 DEF Models

LEMMA LinesAreCounted ==
  ASSUME NEW m, ModelTyped(m)
  PROVE  U!CommitLineCount(m) \in Nat
<1> DEFINE parts == {U!LinesOf(m, id) : id \in DOMAIN m.commits}
           part_of == [id \in DOMAIN m.commits |-> U!LinesOf(m, id)]
<1>1. m \in Models /\ IsFiniteSet(DOMAIN m.commits)  BY DEF ModelTyped
<1>2. IsFiniteSet(parts)
  <2>1. part_of \in Surjection(DOMAIN m.commits, parts)  BY DEF Surjection
  <2> HIDE DEF parts, part_of
  <2> QED  BY <1>1, <2>1, FS_Surjection
<1>3. ASSUME NEW id \in DOMAIN m.commits PROVE IsFiniteSet(U!LinesOf(m, id))
  <2> DEFINE n == 2 + IF m.commits[id] = "ready" THEN PageLines[id] ELSE 1
  <2>1. n \in Nat
    <3>1. PageLines[id] \in Nat
      BY <1>1, ModelFields, UpdateAssumption DEF U!UpdateAssumption
    <3> QED  BY <3>1
  <2>2. U!LinesOf(m, id) = {id} \X (1..n)  BY DEF U!LinesOf
  <2> HIDE DEF n
  <2>3. IsFiniteSet(1..n)  BY <2>1, FS_Interval
  <2>4. IsFiniteSet({id})  BY FS_Singleton
  <2>5. IsFiniteSet({id} \X (1..n))
    <3> DEFINE heading == {id}  lines == 1..n
    <3>1. IsFiniteSet(heading) /\ IsFiniteSet(lines)  BY <2>3, <2>4
    <3> HIDE DEF heading, lines
    <3>2. IsFiniteSet(heading \X lines)  BY <3>1, FS_Product
    <3> QED  BY <3>2 DEF heading, lines
  <2> QED  BY <2>2, <2>5
<1>4. IsFiniteSet(UNION parts)
  <2>1. \A T \in parts : IsFiniteSet(T)  BY <1>3
  <2> HIDE DEF parts
  <2> QED  BY <1>2, <2>1, FS_UNION
<1>5. Cardinality(UNION parts) \in Nat  BY <1>4, FS_CardinalityType
<1> QED  BY <1>5, InstancesAgree DEF U!CommitLineCount

(* What no scrolling and no cursor changes.                                *)
SameWork(m, n) == n.phase = m.phase /\ n.rows = m.rows /\ n.commits = m.commits

LEMMA SameLines ==
  ASSUME NEW m, NEW n, n.commits = m.commits
  PROVE  U!CommitLineCount(n) = U!CommitLineCount(m)
<1>1. \A id : U!LinesOf(n, id) = U!LinesOf(m, id)  BY DEF U!LinesOf
<1>2. {U!LinesOf(n, id) : id \in DOMAIN n.commits} = {U!LinesOf(m, id) : id \in DOMAIN m.commits}
  BY <1>1
<1> QED  BY <1>2 DEF U!CommitLineCount

LEMMA CursorStaysVisible ==
  ASSUME NEW m, ModelOK(m)
  PROVE  ModelOK(U!KeepCursorVisible(m)) /\ SameWork(m, U!KeepCursorVisible(m))
<1> DEFINE k == U!KeepCursorVisible(m)  visible == U!VisibleOutdatedRows(m)
<1>1. m \in Models /\ m.height \in Nat /\ m.cursor \in Nat /\ m.viewport \in Nat /\ Len(m.rows) \in Nat
  BY ModelFields DEF ModelOK, ModelTyped
<1>2. visible \in Nat \ {0}  BY <1>1 DEF U!VisibleOutdatedRows, U!Maximum
<1>3. U!CommitLineCount(m) \in Nat  BY LinesAreCounted DEF ModelOK
<1>4. PICK v \in Nat : /\ k = [m EXCEPT !.viewport = v] \/ (k = m /\ v = m.viewport)
                       /\ v \in 0..U!Maximum(Len(m.rows), U!CommitLineCount(m))
  <2> HIDE DEF visible
  <2>1. m.cursor \in 0..U!Maximum(Len(m.rows), U!CommitLineCount(m))
    BY <1>1, <1>3 DEF ModelOK, U!Maximum, U!Minus
  <2>2. CASE m.cursor < m.viewport  BY <1>1, <2>1, <2>2 DEF U!KeepCursorVisible
  <2>3. CASE ~(m.cursor < m.viewport) /\ m.cursor >= m.viewport + visible
    <3>1. k = [m EXCEPT !.viewport = U!Minus(m.cursor + 1, visible)]
      BY <2>3 DEF U!KeepCursorVisible, visible
    <3>2. U!Minus(m.cursor + 1, visible) \in 0..m.cursor  BY <1>1, <1>2 DEF U!Minus, U!Maximum
    <3>3. U!Minus(m.cursor + 1, visible) \in 0..U!Maximum(Len(m.rows), U!CommitLineCount(m))
      BY <1>1, <1>3, <2>1, <3>2 DEF U!Maximum
    <3> QED  BY <3>1, <3>2, <3>3
  <2>4. CASE ~(m.cursor < m.viewport) /\ ~(m.cursor >= m.viewport + visible)
    BY <1>1, <2>4 DEF U!KeepCursorVisible, visible, ModelOK
  <2> QED  BY <2>2, <2>3, <2>4
<1> HIDE DEF k, visible
<1>5. k \in Models /\ k.viewport = v /\ k.cursor = m.cursor /\ SameWork(m, k)
  BY <1>1, <1>4 DEF Models, SameWork
<1>6. U!CommitLineCount(k) = U!CommitLineCount(m)  BY <1>5, SameLines DEF SameWork
<1>7. ModelOK(k)  BY <1>4, <1>5, <1>6 DEF ModelOK, ModelTyped, SameWork
<1> QED  BY <1>5, <1>7 DEF k

LEMMA ViewportStaysValid ==
  ASSUME NEW m, ModelTyped(m), m.cursor \in 0..U!Minus(Len(m.rows), 1)
  PROVE  ModelOK(U!KeepCommitViewportValid(m)) /\ SameWork(m, U!KeepCommitViewportValid(m))
<1> DEFINE k == U!KeepCommitViewportValid(m)  visible == U!Maximum(m.height - 9, 1)
           v == U!Minimum(m.viewport, U!Minus(U!CommitLineCount(m), visible))
<1>1. m \in Models /\ m.height \in Nat /\ m.cursor \in Nat /\ m.viewport \in Nat /\ Len(m.rows) \in Nat
  BY ModelFields DEF ModelTyped
<1>2. U!CommitLineCount(m) \in Nat  BY LinesAreCounted
<1>3. k = [m EXCEPT !.viewport = v]  BY DEF U!KeepCommitViewportValid
<1>4. v \in Nat /\ v \in 0..U!Maximum(Len(m.rows), U!CommitLineCount(m))
  BY <1>1, <1>2 DEF U!Minimum, U!Minus, U!Maximum
<1> HIDE DEF k, v
<1>5. k \in Models /\ k.viewport = v /\ k.cursor = m.cursor /\ SameWork(m, k)
  BY <1>1, <1>3, <1>4 DEF Models, SameWork
<1>6. U!CommitLineCount(k) = U!CommitLineCount(m)  BY <1>5, SameLines DEF SameWork
<1>7. ModelOK(k)  BY <1>4, <1>5, <1>6 DEF ModelOK, ModelTyped, SameWork
<1> QED  BY <1>5, <1>7 DEF k

-----------------------------------------------------------------------------
(* The transitions of the model for a key.                                 *)
LEMMA MarkedLoading ==
  ASSUME NEW m, ModelTyped(m), NEW ids
  PROVE  LET n == U!MarkLoading(m, ids)
         IN /\ ModelTyped(n) /\ n.phase = m.phase /\ n.rows = m.rows /\ n.cursor = m.cursor
            /\ n.viewport = m.viewport
            /\ DOMAIN n.commits = DOMAIN m.commits
            /\ \A id \in DOMAIN m.commits : n.commits[id] = IF id \in ids THEN "loading" ELSE m.commits[id]
            /\ ids = {} => n = m
<1> DEFINE n == U!MarkLoading(m, ids)
           c == [id \in DOMAIN m.commits |-> IF id \in ids THEN "loading" ELSE m.commits[id]]
<1>1. n = [m EXCEPT !.commits = c]  BY DEF U!MarkLoading
<1>2. m \in Models /\ m.commits \in [DOMAIN m.commits -> CommitStates] /\ DOMAIN m.commits \subseteq Comparisons
  BY ModelFields DEF ModelTyped
<1>3. c \in [DOMAIN m.commits -> CommitStates]  BY <1>2 DEF CommitStates
<1>4. c \in UNION {[X -> CommitStates] : X \in SUBSET Comparisons}  BY <1>2, <1>3
<1>5. ids = {} => c = m.commits
  <2> SUFFICES ASSUME ids = {} PROVE c = m.commits  OBVIOUS
  <2>1. c = [id \in DOMAIN m.commits |-> m.commits[id]]  OBVIOUS
  <2>2. m.commits = [id \in DOMAIN m.commits |-> m.commits[id]]  BY <1>2
  <2> QED  BY <2>1, <2>2
<1>6. /\ DOMAIN c = DOMAIN m.commits
      /\ \A id \in DOMAIN m.commits : c[id] = IF id \in ids THEN "loading" ELSE m.commits[id]
  OBVIOUS
<1> HIDE DEF n, c
<1>7. /\ n \in Models /\ n.commits = c /\ n.phase = m.phase /\ n.rows = m.rows /\ n.cursor = m.cursor
      /\ n.viewport = m.viewport
  BY <1>1, <1>2, <1>4 DEF Models
<1>8. c = m.commits => n = m  BY <1>1, <1>2 DEF Models
<1> QED  BY <1>5, <1>6, <1>7, <1>8 DEF ModelTyped, n

(* Marking ranges as loading that take one line takes no more lines.       *)
LEMMA LoadingTakesOneLine ==
  ASSUME NEW m, ModelTyped(m), NEW ids \in SUBSET DOMAIN m.commits,
         \A id \in ids : m.commits[id] # "ready"
  PROVE  U!CommitLineCount(U!MarkLoading(m, ids)) = U!CommitLineCount(m)
<1> DEFINE n == U!MarkLoading(m, ids)
<1>1. /\ DOMAIN n.commits = DOMAIN m.commits
      /\ \A id \in DOMAIN m.commits : n.commits[id] = IF id \in ids THEN "loading" ELSE m.commits[id]
  BY MarkedLoading
<1> HIDE DEF n
<1>2. \A id \in DOMAIN m.commits : U!LinesOf(n, id) = U!LinesOf(m, id)  BY <1>1 DEF U!LinesOf
<1>3. {U!LinesOf(n, id) : id \in DOMAIN n.commits} = {U!LinesOf(m, id) : id \in DOMAIN m.commits}
  BY <1>1, <1>2
<1> QED  BY <1>3 DEF U!CommitLineCount, n

(* What a key may do: move about, give up, load again, ask for commits,    *)
(* or apply.                                                               *)
MovesAbout(m, next) ==
  /\ next.effects = <<>> /\ next.model.phase = m.phase /\ next.model.commits = m.commits
  /\ m.phase # "browsing" => next.model.rows = m.rows
GivesUp(m, next, key) ==
  /\ key \in {"cancel", "interrupt"} /\ m.phase # "finished"
  /\ next.effects = <<U!Exit(U!Summary(0, 0, TRUE, key = "interrupt"))>>
  /\ next.model.phase = (IF m.phase = "applying" THEN "applying" ELSE "finished")
  /\ next.model.commits = m.commits /\ next.model.rows = m.rows
LoadsAgain(m, next) ==
  /\ m.phase \in {"browsing", "failed"} /\ next.effects = <<U!LoadCandidates>>
  /\ next.model.phase = "loading" /\ next.model.commits = m.commits
AsksForCommits(m, next, ids) ==
  /\ m.phase = "browsing" /\ ids # {} /\ next.effects = <<U!LoadCommits(ids)>>
  /\ next.model.phase = "browsing" /\ DOMAIN next.model.commits = DOMAIN m.commits
  /\ \A id \in DOMAIN m.commits : next.model.commits[id] = IF id \in ids THEN "loading" ELSE m.commits[id]
Applies(m, next) ==
  /\ m.phase = "browsing" /\ next.effects = <<U!ApplyNames(U!SelectedNames(m))>>
  /\ next.model.phase = "applying" /\ next.model.commits = m.commits /\ next.model.rows = m.rows

ByKey(m, next, key) ==
  /\ ModelOK(next.model)
  /\ \/ MovesAbout(m, next) /\ key \notin {"cancel", "interrupt"}
     \/ GivesUp(m, next, key)
     \/ LoadsAgain(m, next) /\ key = "retry"
     \/ \E state \in {"not requested", "failed"} :
          AsksForCommits(m, next, U!CommitIds(m, state)) /\ key \notin {"cancel", "interrupt"}
     \/ Applies(m, next) /\ key = "apply"

LEMMA StepOf == ASSUME NEW m, NEW effects PROVE U!To(m, effects).model = m /\ U!To(m, effects).effects = effects
BY DEF U!To

LEMMA CommitsAreRequested ==
  ASSUME NEW m, ModelOK(m), m.phase = "browsing", NEW state \in {"not requested", "failed"},
         NEW key, key \notin {"cancel", "interrupt"}
  PROVE  /\ ByKey(m, U!RequestCommits(m, U!CommitIds(m, state)), key)
         /\ U!CommitIds(m, state) = {} => U!RequestCommits(m, U!CommitIds(m, state)) = U!To(m, <<>>)
<1> DEFINE ids == U!CommitIds(m, state)  n == U!MarkLoading(m, ids)
           next == U!RequestCommits(m, ids)
<1>1. next = U!To(n, IF ids = {} THEN <<>> ELSE <<U!LoadCommits(ids)>>)  BY DEF U!RequestCommits
<1>2. ids \subseteq DOMAIN m.commits /\ \A id \in ids : m.commits[id] # "ready"  BY DEF U!CommitIds
<1>3. ModelTyped(m)  BY DEF ModelOK
<1> HIDE DEF ids
<1>4. /\ ModelTyped(n) /\ n.phase = m.phase /\ n.rows = m.rows /\ n.cursor = m.cursor
      /\ n.viewport = m.viewport
      /\ DOMAIN n.commits = DOMAIN m.commits
      /\ \A id \in DOMAIN m.commits : n.commits[id] = IF id \in ids THEN "loading" ELSE m.commits[id]
      /\ ids = {} => n = m
  BY <1>3, MarkedLoading
<1>5. U!CommitLineCount(n) = U!CommitLineCount(m)  BY <1>2, <1>3, LoadingTakesOneLine
<1> HIDE DEF n, next
<1>6. ModelOK(n)  BY <1>4, <1>5 DEF ModelOK
<1>7. next.model = n /\ next.effects = IF ids = {} THEN <<>> ELSE <<U!LoadCommits(ids)>>  BY <1>1, StepOf
<1>8. CASE ids = {}
  <2>1. MovesAbout(m, next)  BY <1>4, <1>7, <1>8 DEF MovesAbout
  <2> QED  BY <1>1, <1>4, <1>6, <1>7, <1>8, <2>1 DEF ByKey, next, ids
<1>9. CASE ids # {}
  <2>1. AsksForCommits(m, next, ids)  BY <1>4, <1>7, <1>9 DEF AsksForCommits
  <2> QED  BY <1>6, <1>7, <1>9, <2>1 DEF ByKey, next, ids
<1> QED  BY <1>8, <1>9

LEMMA GivenUp ==
  ASSUME NEW m, ModelOK(m), m.phase # "finished", NEW key \in {"cancel", "interrupt"}
  PROVE  ByKey(m, U!GiveUp(m, key), key)
<1> DEFINE p == IF m.phase = "applying" THEN m.phase ELSE "finished"
           n == [m EXCEPT !.phase = IF @ = "applying" THEN @ ELSE "finished"]
           effects == <<U!Exit(U!Summary(0, 0, TRUE, key = "interrupt"))>>
<1>0. U!GiveUp(m, key) = U!To(n, effects)  BY Zenon DEF U!GiveUp
<1> HIDE DEF effects
<1>1. U!GiveUp(m, key).model = n /\ U!GiveUp(m, key).effects = effects  BY <1>0, StepOf
<1>2. m \in Models  BY DEF ModelOK, ModelTyped
<1>3. /\ n \in Models /\ n.phase = p /\ n.rows = m.rows /\ n.commits = m.commits /\ n.cursor = m.cursor
      /\ n.viewport = m.viewport
  BY <1>2 DEF Models, U!Phases
<1>4. U!CommitLineCount(n) = U!CommitLineCount(m)  BY <1>3, SameLines
<1> HIDE DEF n
<1>5. ModelOK(n)  BY <1>3, <1>4 DEF ModelOK, ModelTyped
<1>6. GivesUp(m, U!GiveUp(m, key), key)  BY <1>1, <1>3 DEF GivesUp, effects
<1> QED  BY <1>1, <1>5, <1>6 DEF ByKey

LEMMA MovedAbout ==
  ASSUME NEW m, NEW n, ModelOK(n), n.phase = m.phase, n.commits = m.commits,
         m.phase # "browsing" => n.rows = m.rows, NEW key, key \notin {"cancel", "interrupt"}
  PROVE  ByKey(m, U!To(n, <<>>), key)
<1> DEFINE next == U!To(n, <<>>)
<1>1. next.model = n /\ next.effects = <<>>  BY StepOf
<1> HIDE DEF next
<1>2. MovesAbout(m, next)  BY <1>1 DEF MovesAbout
<1>3. ByKey(m, next, key)  BY <1>1, <1>2 DEF ByKey
<1> QED  BY <1>3 DEF next

LEMMA Stays ==
  ASSUME NEW m, ModelOK(m), NEW key, key \notin {"cancel", "interrupt"}
  PROVE  ByKey(m, U!To(m, <<>>), key)
BY MovedAbout

LEMMA HelpShown ==
  ASSUME NEW m, ModelOK(m)
  PROVE  ByKey(m, U!To([m EXCEPT !.help = ~@], <<>>), "help")
<1> DEFINE n == [m EXCEPT !.help = ~@]
<1>1. m \in Models  BY DEF ModelOK, ModelTyped
<1>2. m.help \in BOOLEAN  BY <1>1, ModelFields
<1>3. (~m.help) \in BOOLEAN  BY <1>2
<1>4. /\ n \in Models /\ n.phase = m.phase /\ n.rows = m.rows /\ n.commits = m.commits /\ n.cursor = m.cursor
      /\ n.viewport = m.viewport
  BY <1>1, <1>3 DEF Models
<1>5. U!CommitLineCount(n) = U!CommitLineCount(m)  BY <1>4, SameLines
<1> HIDE DEF n
<1>6. ModelOK(n)  BY <1>4, <1>5 DEF ModelOK, ModelTyped
<1> QED  BY <1>4, <1>6, MovedAbout DEF n

LEMMA TabSwitched ==
  ASSUME NEW m, ModelOK(m), m.phase = "browsing", NEW key \in {"nextTab", "previousTab"}
  PROVE  ByKey(m, U!SwitchTab(m), key)
<1> DEFINE t == IF m.tab = "outdated" THEN "commits" ELSE "outdated"
           other == [m EXCEPT !.tab = IF @ = "outdated" THEN "commits" ELSE "outdated", !.viewport = 0]
<1>1. m \in Models /\ Len(m.rows) \in Nat /\ U!CommitLineCount(m) \in Nat
  BY ModelFields, LinesAreCounted DEF ModelOK, ModelTyped
<1>2. /\ other \in Models /\ other.phase = m.phase /\ other.rows = m.rows /\ other.commits = m.commits
      /\ other.cursor = m.cursor /\ other.viewport = 0 /\ other.tab = t
  BY <1>1 DEF Models
<1>3. U!CommitLineCount(other) = U!CommitLineCount(m)  BY <1>2, SameLines
<1>9. U!SwitchTab(m) = IF other.tab = "commits" THEN U!RequestCommits(other, U!CommitIds(m, "not requested"))
                       ELSE U!To(other, <<>>)
  BY DEF U!SwitchTab
<1> HIDE DEF other
<1>4. ModelOK(other)  BY <1>1, <1>2, <1>3 DEF ModelOK, ModelTyped, U!Maximum
<1>5. U!SwitchTab(m) = IF t = "commits" THEN U!RequestCommits(other, U!CommitIds(m, "not requested"))
                       ELSE U!To(other, <<>>)
  BY <1>2, <1>9
<1>10. \A state : U!CommitIds(other, state) = U!CommitIds(m, state)  BY <1>2 DEF U!CommitIds
<1>6. \A next : ByKey(other, next, key) => ByKey(m, next, key)
  <2> SUFFICES ASSUME NEW next, ByKey(other, next, key) PROVE ByKey(m, next, key)  OBVIOUS
  <2>2. /\ MovesAbout(other, next) => MovesAbout(m, next)
        /\ LoadsAgain(other, next) => LoadsAgain(m, next)
        /\ ~GivesUp(other, next, key)
        /\ \A ids : AsksForCommits(other, next, ids) => AsksForCommits(m, next, ids)
    BY <1>2 DEF MovesAbout, LoadsAgain, GivesUp, AsksForCommits
  <2> QED  BY <1>10, <2>2 DEF ByKey
<1>7. ByKey(other, U!To(other, <<>>), key)  BY <1>4, Stays
<1>8. ByKey(other, U!RequestCommits(other, U!CommitIds(m, "not requested")), key)
  BY <1>2, <1>4, <1>10, CommitsAreRequested
<1> QED  BY <1>5, <1>6, <1>7, <1>8

LEMMA CursorMoved ==
  ASSUME NEW m, ModelOK(m), NEW key \in {"up", "down"}
  PROVE  ByKey(m, U!To(U!MoveCursor(m, key), <<>>), key)
<1> DEFINE c == IF key = "up" THEN U!Minus(m.cursor, 1) ELSE U!Minimum(m.cursor + 1, U!Minus(Len(m.rows), 1))
           n == [m EXCEPT !.cursor = c]
<1>1. m \in Models /\ Len(m.rows) \in Nat /\ m.cursor \in 0..U!Minus(Len(m.rows), 1)
  BY ModelFields DEF ModelOK, ModelTyped
<1>2. c \in Nat /\ c \in 0..U!Minus(Len(m.rows), 1)  BY <1>1 DEF U!Minus, U!Minimum, U!Maximum
<1>3. U!MoveCursor(m, key) = U!KeepCursorVisible(n)  BY DEF U!MoveCursor
<1> HIDE DEF c
<1>4. /\ n \in Models /\ n.phase = m.phase /\ n.rows = m.rows /\ n.commits = m.commits
      /\ n.cursor = c /\ n.viewport = m.viewport
  BY <1>1, <1>2 DEF Models
<1>5. U!CommitLineCount(n) = U!CommitLineCount(m)  BY <1>4, SameLines
<1> HIDE DEF n
<1>6. ModelOK(n)  BY <1>2, <1>4, <1>5 DEF ModelOK, ModelTyped
<1>7. ModelOK(U!KeepCursorVisible(n)) /\ SameWork(n, U!KeepCursorVisible(n))  BY <1>6, CursorStaysVisible
<1> QED  BY <1>3, <1>4, <1>7, MovedAbout DEF SameWork

LEMMA Scrolled ==
  ASSUME NEW m, ModelOK(m), NEW key \in {"up", "down", "pageUp", "pageDown"}
  PROVE  ByKey(m, U!To(U!Scroll(m, key), <<>>), key)
<1> DEFINE step == IF key \in {"up", "down"} THEN 1 ELSE U!Maximum(m.height, 1)
           up == [m EXCEPT !.viewport = U!Minus(m.viewport, step)]
           down == [m EXCEPT !.viewport = m.viewport + step]
<1>1. /\ m \in Models /\ Len(m.rows) \in Nat /\ m.cursor \in 0..U!Minus(Len(m.rows), 1)
      /\ m.viewport \in Nat /\ m.height \in Nat
  BY ModelFields DEF ModelOK, ModelTyped
<1>2. step \in Nat  BY <1>1 DEF U!Maximum
<1>3. U!Scroll(m, key) = IF key \in {"up", "pageUp"} THEN up ELSE U!KeepCommitViewportValid(down)
  BY DEF U!Scroll
<1> HIDE DEF step
<1>4. ModelOK(up) /\ SameWork(m, up)
  <2>1. /\ U!Minus(m.viewport, step) \in Nat
        /\ U!Minus(m.viewport, step) \in 0..U!Maximum(Len(m.rows), U!CommitLineCount(m))
    <3>1. U!CommitLineCount(m) \in Nat  BY LinesAreCounted DEF ModelOK
    <3> QED  BY <1>1, <1>2, <3>1 DEF ModelOK, U!Minus, U!Maximum
  <2>2. /\ up \in Models /\ up.phase = m.phase /\ up.rows = m.rows /\ up.commits = m.commits
        /\ up.cursor = m.cursor /\ up.viewport = U!Minus(m.viewport, step)
    BY <1>1, <2>1 DEF Models
  <2>3. U!CommitLineCount(up) = U!CommitLineCount(m)  BY <2>2, SameLines
  <2> HIDE DEF up
  <2> QED  BY <2>1, <2>2, <2>3 DEF ModelOK, ModelTyped, SameWork
<1>5. ModelOK(U!KeepCommitViewportValid(down)) /\ SameWork(m, U!KeepCommitViewportValid(down))
  <2>1. m.viewport + step \in Nat  BY <1>1, <1>2
  <2>2. /\ down \in Models /\ down.phase = m.phase /\ down.rows = m.rows /\ down.commits = m.commits
        /\ down.cursor = m.cursor
    BY <1>1, <2>1 DEF Models
  <2> HIDE DEF down
  <2>3. ModelTyped(down) /\ down.cursor \in 0..U!Minus(Len(down.rows), 1)
    BY <1>1, <2>2 DEF ModelOK, ModelTyped
  <2> QED  BY <2>2, <2>3, ViewportStaysValid DEF SameWork
<1>6. ModelOK(U!Scroll(m, key)) /\ SameWork(m, U!Scroll(m, key))  BY <1>3, <1>4, <1>5
<1> QED  BY <1>6, MovedAbout DEF SameWork

(* A change of what is selected.                                           *)
LEMMA RowsMarked ==
  ASSUME NEW m, ModelOK(m), m.phase = "browsing", NEW key \in {"select", "selectAll"},
         NEW rows \in Seq(ShownRows), Len(rows) = Len(m.rows)
  PROVE  ByKey(m, U!To([m EXCEPT !.rows = rows], <<>>), key)
<1> DEFINE n == [m EXCEPT !.rows = rows]
<1>1. m \in Models  BY DEF ModelOK, ModelTyped
<1>2. /\ n \in Models /\ n.phase = m.phase /\ n.rows = rows /\ n.commits = m.commits
      /\ n.cursor = m.cursor /\ n.viewport = m.viewport
  BY <1>1 DEF Models
<1>3. U!CommitLineCount(n) = U!CommitLineCount(m)  BY <1>2, SameLines
<1> HIDE DEF n
<1>4. ModelOK(n)  BY <1>2, <1>3 DEF ModelOK, ModelTyped
<1> QED  BY <1>2, <1>4, MovedAbout DEF n

LEMMA RowToggled ==
  ASSUME NEW m, ModelOK(m), m.phase = "browsing"
  PROVE  ByKey(m, U!To(U!ToggleSelected(m), <<>>), "select")
<1>1. m \in Models /\ m.rows \in Seq(ShownRows) /\ DOMAIN m.rows = 1..Len(m.rows) /\ m.cursor \in Nat
      /\ Len(m.rows) \in Nat
  BY ModelFields DEF ModelOK, ModelTyped
<1> DEFINE k == m.cursor + 1  row == [m.rows[k] EXCEPT !.selected = ~@]
           rows == [m.rows EXCEPT ![k] = row]
<1>2. CASE m.cursor < Len(m.rows) /\ U!Available(m.rows[k])
  <2>1. U!ToggleSelected(m) = [m EXCEPT !.rows = rows]  BY <1>2 DEF U!ToggleSelected
  <2>2. k \in 1..Len(m.rows) /\ m.rows[k] \in ShownRows  BY <1>1, <1>2
  <2>3. row \in ShownRows
    <3>1. (~ m.rows[k].selected) \in BOOLEAN  BY <2>2 DEF ShownRows
    <3> QED  BY <2>2, <3>1 DEF ShownRows
  <2> HIDE DEF row
  <2>4. rows \in Seq(ShownRows) /\ Len(rows) = Len(m.rows)  BY <1>1, <2>2, <2>3
  <2> HIDE DEF rows
  <2> QED  BY <2>1, <2>4, RowsMarked
<1>3. CASE ~(m.cursor < Len(m.rows) /\ U!Available(m.rows[k]))
  <2>1. U!ToggleSelected(m) = m  BY <1>3 DEF U!ToggleSelected
  <2> QED  BY <2>1, Stays
<1> QED  BY <1>2, <1>3

LEMMA AllSelected ==
  ASSUME NEW m, ModelOK(m), m.phase = "browsing"
  PROVE  ByKey(m, U!To(U!SelectAll(m), <<>>), "selectAll")
<1>1. m \in Models /\ m.rows \in Seq(ShownRows) /\ DOMAIN m.rows = 1..Len(m.rows) /\ Len(m.rows) \in Nat
  BY ModelFields DEF ModelOK, ModelTyped
<1> DEFINE rows == [i \in DOMAIN m.rows |-> [m.rows[i] EXCEPT !.selected = U!Available(m.rows[i])]]
<1>2. U!SelectAll(m) = [m EXCEPT !.rows = rows]  BY DEF U!SelectAll
<1>3. \A i \in 1..Len(m.rows) : rows[i] \in ShownRows
  <2> SUFFICES ASSUME NEW i \in 1..Len(m.rows) PROVE rows[i] \in ShownRows  OBVIOUS
  <2>1. m.rows[i] \in ShownRows /\ U!Available(m.rows[i]) \in BOOLEAN  BY <1>1 DEF U!Available
  <2>2. rows[i] = [m.rows[i] EXCEPT !.selected = U!Available(m.rows[i])]  BY <1>1
  <2> QED  BY <2>1, <2>2 DEF ShownRows
<1>4. DOMAIN rows = 1..Len(m.rows)  BY <1>1
<1>5. rows \in [1..Len(m.rows) -> ShownRows]  BY <1>3, <1>4
<1> HIDE DEF rows
<1>6. rows \in Seq(ShownRows) /\ Len(rows) = Len(m.rows)  BY <1>1, <1>5
<1> QED  BY <1>2, <1>6, RowsMarked

LEMMA SelectionApplied ==
  ASSUME NEW m, ModelOK(m), m.phase = "browsing"
  PROVE  ByKey(m, U!ApplySelected(m), "apply")
<1> DEFINE n == [m EXCEPT !.phase = "applying"]  next == U!ApplySelected(m)
<1>1. CASE U!SelectedNames(m) = {}
  <2>1. next = U!To(m, <<>>)  BY <1>1 DEF U!ApplySelected
  <2> QED  BY <2>1, Stays
<1>2. CASE U!SelectedNames(m) # {}
  <2>1. next = U!To(n, <<U!ApplyNames(U!SelectedNames(m))>>)  BY <1>2 DEF U!ApplySelected
  <2>2. m \in Models  BY DEF ModelOK, ModelTyped
  <2>3. /\ n \in Models /\ n.phase = "applying" /\ n.rows = m.rows /\ n.commits = m.commits
        /\ n.cursor = m.cursor /\ n.viewport = m.viewport
    BY <2>2 DEF Models, U!Phases
  <2>4. U!CommitLineCount(n) = U!CommitLineCount(m)  BY <2>3, SameLines
  <2> HIDE DEF n
  <2>5. ModelOK(n)  BY <2>3, <2>4 DEF ModelOK, ModelTyped
  <2>6. next.model = n /\ next.effects = <<U!ApplyNames(U!SelectedNames(m))>>  BY <2>1, StepOf
  <2> HIDE DEF next
  <2>7. Applies(m, next)  BY <2>3, <2>6 DEF Applies
  <2>8. ByKey(m, next, "apply")  BY <2>5, <2>6, <2>7 DEF ByKey
  <2> QED  BY <2>8 DEF next
<1> QED  BY <1>1, <1>2

LEMMA LoadedAgain ==
  ASSUME NEW m, ModelOK(m), m.phase \in {"browsing", "failed"}
  PROVE  ByKey(m, U!Reload(m), "retry")
<1> DEFINE n == [m EXCEPT !.phase = "loading"]  next == U!Reload(m)
<1>1. next = U!To(n, <<U!LoadCandidates>>)  BY DEF U!Reload
<1>2. m \in Models  BY DEF ModelOK, ModelTyped
<1>3. /\ n \in Models /\ n.phase = "loading" /\ n.rows = m.rows /\ n.commits = m.commits
      /\ n.cursor = m.cursor /\ n.viewport = m.viewport
  BY <1>2 DEF Models, U!Phases
<1>4. U!CommitLineCount(n) = U!CommitLineCount(m)  BY <1>3, SameLines
<1> HIDE DEF n
<1>5. ModelOK(n)  BY <1>3, <1>4 DEF ModelOK, ModelTyped
<1>6. next.model = n /\ next.effects = <<U!LoadCandidates>>  BY <1>1, StepOf
<1> HIDE DEF next
<1>7. LoadsAgain(m, next)  BY <1>3, <1>6 DEF LoadsAgain
<1>8. ByKey(m, next, "retry")  BY <1>5, <1>6, <1>7 DEF ByKey
<1> QED  BY <1>8 DEF next

LEMMA OutdatedKeyed ==
  ASSUME NEW m, ModelOK(m), m.phase = "browsing", NEW key, key \notin {"cancel", "interrupt"}
  PROVE  ByKey(m, U!OutdatedKey(m, key), key)
<1>1. CASE key \in {"up", "down"}
  <2>1. U!OutdatedKey(m, key) = U!To(U!MoveCursor(m, key), <<>>)  BY <1>1 DEF U!OutdatedKey
  <2> QED  BY <1>1, <2>1, CursorMoved
<1>2. CASE key = "select"
  <2>1. U!OutdatedKey(m, key) = U!To(U!ToggleSelected(m), <<>>)  BY <1>2 DEF U!OutdatedKey
  <2> QED  BY <1>2, <2>1, RowToggled
<1>3. CASE key = "selectAll"
  <2>1. U!OutdatedKey(m, key) = U!To(U!SelectAll(m), <<>>)  BY <1>3 DEF U!OutdatedKey
  <2> QED  BY <1>3, <2>1, AllSelected
<1>4. CASE key = "apply"
  <2>1. U!OutdatedKey(m, key) = U!ApplySelected(m)  BY <1>4 DEF U!OutdatedKey
  <2> QED  BY <1>4, <2>1, SelectionApplied
<1>5. CASE key = "retry" /\ \E r \in U!Rows(m) : ~U!Available(r)
  <2>1. U!OutdatedKey(m, key) = U!Reload(m)  BY <1>5 DEF U!OutdatedKey
  <2> QED  BY <1>5, <2>1, LoadedAgain
<1>6. CASE /\ key \notin {"up", "down", "select", "selectAll", "apply"}
           /\ ~(key = "retry" /\ \E r \in U!Rows(m) : ~U!Available(r))
  <2>1. U!OutdatedKey(m, key) = U!To(m, <<>>)  BY <1>6 DEF U!OutdatedKey
  <2> QED  BY <2>1, Stays
<1> QED  BY <1>1, <1>2, <1>3, <1>4, <1>5, <1>6

LEMMA CommitsKeyed ==
  ASSUME NEW m, ModelOK(m), m.phase = "browsing", NEW key, key \notin {"cancel", "interrupt"}
  PROVE  ByKey(m, U!CommitsKey(m, key), key)
<1>1. CASE key \in {"up", "down", "pageUp", "pageDown"}
  <2>1. U!CommitsKey(m, key) = U!To(U!Scroll(m, key), <<>>)  BY <1>1 DEF U!CommitsKey
  <2> QED  BY <1>1, <2>1, Scrolled
<1>2. CASE key = "retry"
  <2>1. U!CommitsKey(m, key) = U!RequestCommits(m, U!CommitIds(m, "failed"))  BY <1>2 DEF U!CommitsKey
  <2> QED  BY <2>1, CommitsAreRequested
<1>3. CASE key \notin {"up", "down", "pageUp", "pageDown", "retry"}
  <2>1. U!CommitsKey(m, key) = U!To(m, <<>>)  BY <1>3 DEF U!CommitsKey
  <2> QED  BY <2>1, Stays
<1> QED  BY <1>1, <1>2, <1>3

LEMMA Keyed ==
  ASSUME NEW m, ModelOK(m), m.phase # "finished", NEW key
  PROVE  ByKey(m, U!UpdateKey(m, key), key)
<1>1. CASE key \in {"cancel", "interrupt"}
  <2>1. U!UpdateKey(m, key) = U!GiveUp(m, key)  BY <1>1 DEF U!UpdateKey
  <2> QED  BY <1>1, <2>1, GivenUp
<1>2. CASE key \notin {"cancel", "interrupt"}
  <2>1. CASE key = "help"
    <3>1. U!UpdateKey(m, key) = U!To([m EXCEPT !.help = ~@], <<>>)  BY <2>1 DEF U!UpdateKey
    <3> QED  BY <2>1, <3>1, HelpShown
  <2>2. CASE key # "help" /\ (U!Small(m) \/ m.phase \notin {"failed", "browsing"})
    <3>1. U!UpdateKey(m, key) = U!To(m, <<>>)  BY <1>2, <2>2 DEF U!UpdateKey
    <3> QED  BY <1>2, <3>1, Stays
  <2>3. CASE key # "help" /\ ~U!Small(m) /\ m.phase = "failed"
    <3>1. U!UpdateKey(m, key) = IF key = "retry" THEN U!Reload(m) ELSE U!To(m, <<>>)
      BY <1>2, <2>3 DEF U!UpdateKey
    <3> QED  BY <1>2, <2>3, <3>1, Stays, LoadedAgain
  <2>4. CASE key # "help" /\ ~U!Small(m) /\ m.phase = "browsing"
    <3>1. U!UpdateKey(m, key) = IF key \in {"nextTab", "previousTab"} THEN U!SwitchTab(m)
                                ELSE IF m.tab = "outdated" THEN U!OutdatedKey(m, key) ELSE U!CommitsKey(m, key)
      BY <1>2, <2>4 DEF U!UpdateKey
    <3> QED  BY <1>2, <2>4, <3>1, TabSwitched, OutdatedKeyed, CommitsKeyed
  <2> QED  BY <2>1, <2>2, <2>3, <2>4
<1> QED  BY <1>1, <1>2

(* A key that is not listed only scrolls or shows the help.                *)
LEMMA NothingShows ==
  ASSUME NEW m, ModelOK(m)
  PROVE  U!OnlyShows(m, U!To(m, <<>>))
<1>1. m \in Models  BY DEF ModelOK, ModelTyped
<1>2. m = [m EXCEPT !.viewport = m.viewport, !.help = m.help]  BY <1>1 DEF Models
<1> QED  BY <1>2 DEF U!OnlyShows, U!To

LEMMA HelpShows ==
  ASSUME NEW m, ModelOK(m)
  PROVE  U!OnlyShows(m, U!To([m EXCEPT !.help = ~@], <<>>))
<1>1. m \in Models  BY DEF ModelOK, ModelTyped
<1>2. \A h : LET n == [m EXCEPT !.help = h]
             IN n = [m EXCEPT !.viewport = n.viewport, !.help = n.help]
  BY <1>1 DEF Models
<1>3. PICK h : [m EXCEPT !.help = ~@] = [m EXCEPT !.help = h]  OBVIOUS
<1> QED  BY <1>2, <1>3 DEF U!OnlyShows, U!To

LEMMA ScrollingShows ==
  ASSUME NEW m, ModelOK(m), NEW key
  PROVE  U!OnlyShows(m, U!To(U!Scroll(m, key), <<>>))
<1>1. m \in Models  BY DEF ModelOK, ModelTyped
<1>2. \A v : LET n == [m EXCEPT !.viewport = v]
             IN n = [m EXCEPT !.viewport = n.viewport, !.help = n.help]
  BY <1>1 DEF Models
<1>3. PICK v : U!Scroll(m, key) = [m EXCEPT !.viewport = v]
  <2>1. \A v, w : [[m EXCEPT !.viewport = v] EXCEPT !.viewport = w] = [m EXCEPT !.viewport = w]
    BY <1>1 DEF Models
  <2> QED  BY <2>1 DEF U!Scroll, U!KeepCommitViewportValid
<1> QED  BY <1>2, <1>3 DEF U!OnlyShows, U!To

LEMMA UnlistedOnScreen ==
  ASSUME NEW m, ModelOK(m), ~U!Small(m), m.phase \in {"failed", "browsing"},
         NEW key \in U!Keys \ (U!Bindings(m) \cup {"interrupt"}), key \notin {"help", "cancel"}
  PROVE  U!OnlyShows(m, U!UpdateKey(m, key))
<1>3. CASE m.phase = "failed"
  <2>1. key # "retry"  BY <1>3 DEF U!Bindings
  <2> QED  BY <1>3, <2>1, NothingShows DEF U!UpdateKey
<1>4. CASE m.phase = "browsing" /\ m.tab = "outdated"
  <2>1. /\ key \notin {"up", "down", "select", "selectAll", "nextTab", "previousTab", "apply"}
        /\ ~(key = "retry" /\ \E r \in U!Rows(m) : ~U!Available(r))
    BY <1>4 DEF U!Bindings
  <2>2. U!OutdatedKey(m, key) = U!To(m, <<>>)  BY <2>1 DEF U!OutdatedKey
  <2> QED  BY <1>4, <2>1, <2>2, NothingShows DEF U!UpdateKey
<1>5. CASE m.phase = "browsing" /\ m.tab = "commits"
  <2>1. /\ key \notin {"up", "down", "nextTab", "previousTab"}
        /\ key = "retry" => U!CommitIds(m, "failed") = {}
    BY <1>5 DEF U!Bindings
  <2>2. U!UpdateKey(m, key) = U!CommitsKey(m, key)  BY <1>5, <2>1 DEF U!UpdateKey
  <2>3. CASE key = "retry"
    <3>1. U!CommitsKey(m, key) = U!RequestCommits(m, U!CommitIds(m, "failed"))
      BY <2>3 DEF U!CommitsKey
    <3> QED  BY <1>5, <2>1, <2>2, <2>3, <3>1, CommitsAreRequested, NothingShows
  <2>4. CASE key \in {"pageUp", "pageDown"}
    <3>1. U!CommitsKey(m, key) = U!To(U!Scroll(m, key), <<>>)  BY <2>4 DEF U!CommitsKey
    <3> QED  BY <2>2, <3>1, ScrollingShows
  <2>5. CASE key \notin {"retry", "pageUp", "pageDown"}
    <3>1. U!CommitsKey(m, key) = U!To(m, <<>>)  BY <2>1, <2>5 DEF U!CommitsKey
    <3> QED  BY <2>2, <3>1, NothingShows
  <2> QED  BY <2>3, <2>4, <2>5
<1> QED  BY <1>3, <1>4, <1>5, ModelFields DEF ModelOK, ModelTyped

LEMMA UnlistedOnlyShows ==
  ASSUME NEW m, ModelOK(m), m.phase # "finished", NEW key \in U!Keys \ (U!Bindings(m) \cup {"interrupt"})
  PROVE  U!OnlyShows(m, U!UpdateKey(m, key))
<1>1. key \notin {"cancel", "interrupt"}  BY DEF U!Bindings
<1>help. CASE key = "help"
  <2>1. U!UpdateKey(m, key) = U!To([m EXCEPT !.help = ~@], <<>>)  BY <1>help DEF U!UpdateKey
  <2> QED  BY <2>1, HelpShows
<1>2. CASE key # "help" /\ (U!Small(m) \/ m.phase \notin {"failed", "browsing"})
  BY <1>1, <1>2, NothingShows DEF U!UpdateKey
<1>other. CASE key # "help" /\ ~U!Small(m) /\ m.phase \in {"failed", "browsing"}
  BY <1>1, <1>other, UnlistedOnScreen
<1> QED  BY <1>help, <1>2, <1>other

-----------------------------------------------------------------------------
(* The transitions for what the worker answers and for a new size.         *)
PhaseSet(m, p) == [m EXCEPT !.phase = p]

LEMMA PhaseIsSet ==
  ASSUME NEW m, ModelOK(m), NEW p \in U!Phases
  PROVE  LET n == PhaseSet(m, p)
         IN ModelOK(n) /\ n.phase = p /\ n.rows = m.rows /\ n.commits = m.commits
<1> DEFINE n == [m EXCEPT !.phase = p]
<1>1. m \in Models  BY DEF ModelOK, ModelTyped
<1>2. /\ n \in Models /\ n.phase = p /\ n.rows = m.rows /\ n.commits = m.commits
      /\ n.cursor = m.cursor /\ n.viewport = m.viewport
  BY <1>1 DEF Models
<1>3. U!CommitLineCount(n) = U!CommitLineCount(m)  BY <1>2, SameLines
<1> HIDE DEF n
<1>4. ModelOK(n)  BY <1>2, <1>3 DEF ModelOK, ModelTyped
<1> QED  BY <1>2, <1>4 DEF PhaseSet, n

LEMMA RowsAreListed ==
  ASSUME NEW relation \in [Skills -> U!Relations]
  PROVE  LET rows == U!RowsOf(U!Candidates(relation))
         IN /\ rows \in Seq(ShownRows)
            /\ U!ComparisonIds(rows) \subseteq Comparisons /\ IsFiniteSet(U!ComparisonIds(rows))
<1> DEFINE c == U!Candidates(relation)  names == U!InOrder(DOMAIN c)  rows == U!RowsOf(c)
           n == Cardinality(DOMAIN c)
<1>1. /\ DOMAIN c \subseteq Skills
      /\ \A name \in DOMAIN c : c[name] \in Comparisons \cup {None}
  BY DEF U!Candidates
<1> HIDE DEF c
<1>2. IsFiniteSet(Skills) /\ Skills \subseteq Nat  BY UpdateAssumption, InstancesAgree DEF U!UpdateAssumption
<1>3. IsFiniteSet(DOMAIN c) /\ DOMAIN c \in SUBSET Nat  BY <1>1, <1>2, FS_Subset
<1>4. /\ n \in Nat /\ InOrder(DOMAIN c) \in Seq(DOMAIN c) /\ Len(InOrder(DOMAIN c)) = n
      /\ \A i \in 1..n : InOrder(DOMAIN c)[i] \in DOMAIN c
  BY <1>3, InOrderLists
<1>5. n \in Nat /\ DOMAIN names = 1..n /\ \A i \in 1..n : names[i] \in DOMAIN c
  <2>1. names = InOrder(DOMAIN c)  BY InstancesAgree
  <2>2. DOMAIN InOrder(DOMAIN c) = 1..Len(InOrder(DOMAIN c))  BY <1>4
  <2> QED  BY <1>4, <2>1, <2>2
<1>6. rows = [i \in DOMAIN names |-> [name |-> names[i], comparison |-> c[names[i]],
                                      selected |-> c[names[i]] # None]]
  BY DEF U!RowsOf
<1> HIDE DEF n, names, rows
<1>7. \A i \in 1..n : rows[i] \in ShownRows
  <2> SUFFICES ASSUME NEW i \in 1..n PROVE rows[i] \in ShownRows  OBVIOUS
  <2>1. names[i] \in Skills /\ c[names[i]] \in Comparisons \cup {None} /\ (c[names[i]] # None) \in BOOLEAN
    BY <1>1, <1>5
  <2>2. rows[i] = [name |-> names[i], comparison |-> c[names[i]], selected |-> c[names[i]] # None]
    BY <1>5, <1>6
  <2> QED  BY <2>1, <2>2 DEF ShownRows
<1>8. DOMAIN rows = 1..n  BY <1>5, <1>6
<1>9. rows \in [1..n -> ShownRows]
  <2>1. rows = [i \in 1..n |-> rows[i]]  BY <1>5, <1>6
  <2> QED  BY <1>7, <2>1
<1>10. rows \in Seq(ShownRows)  BY <1>5, <1>9
<1>11. U!ComparisonIds(rows) \subseteq Comparisons
  BY <1>7, <1>8 DEF U!ComparisonIds, ShownRows
<1>12. IsFiniteSet(U!ComparisonIds(rows))
  <2> DEFINE image == {rows[i].comparison : i \in DOMAIN rows}
             comparisonOf == [i \in 1..n |-> rows[i].comparison]
  <2>1. comparisonOf \in Surjection(1..n, image)  BY <1>8 DEF Surjection
  <2>2. IsFiniteSet(1..n)  BY <1>5, FS_Interval
  <2>3. U!ComparisonIds(rows) \subseteq image  BY DEF U!ComparisonIds
  <2> HIDE DEF image, comparisonOf
  <2>4. IsFiniteSet(image)  BY <2>1, <2>2, FS_Surjection
  <2> QED  BY <2>3, <2>4, FS_Subset
<1> QED  BY <1>10, <1>11, <1>12 DEF rows, c

LEMMA PlanShown ==
  ASSUME NEW m, ModelOK(m), NEW relation \in [Skills -> U!Relations]
  PROVE  LET next == U!Update(m, PlanMessage(relation))
         IN /\ ModelOK(next.model)
            /\ \A id \in DOMAIN next.model.commits : next.model.commits[id] = "not requested"
            /\ \/ next.model.phase = "finished" /\ next.effects = <<U!Exit(U!NotYet)>>
               \/ next.model.phase = "browsing" /\ next.effects = <<>>
<1> DEFINE c == U!Candidates(relation)  rows == U!RowsOf(c)
           commits == [id \in U!ComparisonIds(rows) |-> "not requested"]
           loaded == [m EXCEPT !.rows = rows, !.cursor = 0, !.viewport = 0, !.commits = commits]
           next == U!Update(m, PlanMessage(relation))
<1>1. next = U!CandidatesLoaded(m, c)  BY DEF U!Update, PlanMessage
<1>2. rows \in Seq(ShownRows) /\ U!ComparisonIds(rows) \subseteq Comparisons /\ IsFiniteSet(U!ComparisonIds(rows))
  BY RowsAreListed
<1>3. next = IF rows = <<>> THEN U!To([loaded EXCEPT !.phase = "finished"], <<U!Exit(U!NotYet)>>)
             ELSE U!To([loaded EXCEPT !.phase = "browsing"], <<>>)
  BY <1>1 DEF U!CandidatesLoaded
<1> HIDE DEF rows, next
<1>4. commits \in [U!ComparisonIds(rows) -> CommitStates]  BY DEF CommitStates
<1>5. commits \in UNION {[X -> CommitStates] : X \in SUBSET Comparisons}  BY <1>2, <1>4
<1>6. DOMAIN commits = U!ComparisonIds(rows) /\ \A id \in DOMAIN commits : commits[id] = "not requested"
  OBVIOUS
<1> HIDE DEF commits
<1>7. m \in Models  BY DEF ModelOK, ModelTyped
<1>8. loaded \in Models /\ loaded.rows = rows /\ loaded.cursor = 0 /\ loaded.viewport = 0 /\ loaded.commits = commits
  BY <1>2, <1>5, <1>7 DEF Models
<1> HIDE DEF loaded
<1>9. ModelOK(loaded)
  <2>1. ModelTyped(loaded)  BY <1>2, <1>6, <1>8 DEF ModelTyped
  <2>2. U!CommitLineCount(loaded) \in Nat /\ Len(rows) \in Nat  BY <1>2, <2>1, LinesAreCounted
  <2> QED  BY <1>8, <2>1, <2>2 DEF ModelOK, U!Minus, U!Maximum
<1>10. CASE rows = <<>>
  <2> DEFINE n == PhaseSet(loaded, "finished")
  <2>1. next = U!To(n, <<U!Exit(U!NotYet)>>)  BY <1>3, <1>10 DEF PhaseSet
  <2>2. ModelOK(n) /\ n.phase = "finished" /\ n.commits = commits  BY <1>8, <1>9, PhaseIsSet DEF U!Phases
  <2> HIDE DEF n
  <2>3. next.model = n /\ next.effects = <<U!Exit(U!NotYet)>>  BY <2>1, StepOf
  <2> QED  BY <1>6, <2>2, <2>3 DEF next
<1>11. CASE rows # <<>>
  <2> DEFINE n == PhaseSet(loaded, "browsing")
  <2>1. next = U!To(n, <<>>)  BY <1>3, <1>11 DEF PhaseSet
  <2>2. ModelOK(n) /\ n.phase = "browsing" /\ n.commits = commits  BY <1>8, <1>9, PhaseIsSet DEF U!Phases
  <2> HIDE DEF n
  <2>3. next.model = n /\ next.effects = <<>>  BY <2>1, StepOf
  <2> QED  BY <1>6, <2>2, <2>3 DEF next
<1> QED  BY <1>10, <1>11

LEMMA FailureShown ==
  ASSUME NEW m, ModelOK(m)
  PROVE  LET next == U!Update(m, LoadFailed)
         IN ModelOK(next.model) /\ next.model.phase = "failed" /\ next.model.commits = m.commits /\ next.effects = <<>>
<1> DEFINE n == PhaseSet(m, "failed")
<1>1. U!Update(m, LoadFailed) = U!To(n, <<>>)  BY DEF U!Update, LoadFailed, PhaseSet
<1>2. ModelOK(n) /\ n.phase = "failed" /\ n.commits = m.commits  BY PhaseIsSet DEF U!Phases
<1> HIDE DEF n
<1> QED  BY <1>1, <1>2, StepOf

LEMMA UpdateShown ==
  ASSUME NEW m, ModelOK(m), NEW updated, NEW failed
  PROVE  LET next == U!Update(m, AppliedMessage(updated, failed))
         IN /\ ModelOK(next.model) /\ next.model.phase = "finished"
            /\ next.effects = <<U!Exit(U!Summary(updated, failed, FALSE, FALSE))>>
<1> DEFINE n == PhaseSet(m, "finished")  effects == <<U!Exit(U!Summary(updated, failed, FALSE, FALSE))>>
<1>1. U!Update(m, AppliedMessage(updated, failed)) = U!To(n, effects)
  BY DEF U!Update, U!Applied, AppliedMessage, PhaseSet
<1>2. ModelOK(n) /\ n.phase = "finished"  BY PhaseIsSet DEF U!Phases
<1> HIDE DEF n, effects
<1>3. /\ U!Update(m, AppliedMessage(updated, failed)).model = n
      /\ U!Update(m, AppliedMessage(updated, failed)).effects = effects
  BY <1>1, StepOf
<1> QED  BY <1>2, <1>3 DEF effects

LEMMA CommitsShown ==
  ASSUME NEW m, ModelOK(m), NEW state \in {"ready", "failed"}
  PROVE  LET next == U!Update(m, CommitsMessage(DOMAIN m.commits, state))
         IN /\ ModelOK(next.model) /\ next.model.phase = m.phase /\ next.model.rows = m.rows /\ next.effects = <<>>
            /\ DOMAIN next.model.commits = DOMAIN m.commits
            /\ \A id \in DOMAIN m.commits : next.model.commits[id] = state
<1> DEFINE results == [id \in DOMAIN m.commits |-> state]
           c == [id \in DOMAIN m.commits |-> IF id \in DOMAIN results THEN results[id] ELSE m.commits[id]]
           n == [m EXCEPT !.commits = c]
           k == U!KeepCommitViewportValid(n)
           next == U!Update(m, CommitsMessage(DOMAIN m.commits, state))
<1>1. next = U!To(k, <<>>)  BY DEF U!Update, CommitsMessage, U!CommitsLoaded
<1>2. m \in Models /\ DOMAIN m.commits \subseteq Comparisons  BY ModelFields DEF ModelOK, ModelTyped
<1>3. DOMAIN c = DOMAIN m.commits /\ \A id \in DOMAIN m.commits : c[id] = state  OBVIOUS
<1>4. c \in [DOMAIN m.commits -> CommitStates]  BY DEF CommitStates
<1>5. c \in UNION {[X -> CommitStates] : X \in SUBSET Comparisons}  BY <1>2, <1>4
<1> HIDE DEF c, next, k
<1>6. n \in Models /\ n.commits = c /\ n.phase = m.phase /\ n.rows = m.rows /\ n.cursor = m.cursor
  BY <1>2, <1>5 DEF Models
<1> HIDE DEF n
<1>7. ModelTyped(n) /\ n.cursor \in 0..U!Minus(Len(n.rows), 1)  BY <1>3, <1>6 DEF ModelOK, ModelTyped
<1>8. ModelOK(k) /\ SameWork(n, k)  BY <1>7, ViewportStaysValid DEF k
<1>9. next.model = k /\ next.effects = <<>>  BY <1>1, StepOf
<1> QED  BY <1>3, <1>6, <1>8, <1>9 DEF SameWork, next

LEMMA ResizeShown ==
  ASSUME NEW m, ModelOK(m), NEW size \in Sizes
  PROVE  ModelOK(U!Resized(m, size)) /\ SameWork(m, U!Resized(m, size))
<1> DEFINE n == [m EXCEPT !.width = size.width, !.height = size.height]
<1>1. m \in Models /\ size.width \in Nat \ {0} /\ size.height \in Nat \ {0}
  BY UpdateAssumption DEF ModelOK, ModelTyped, U!UpdateAssumption
<1>2. /\ n \in Models /\ n.commits = m.commits /\ n.phase = m.phase /\ n.rows = m.rows /\ n.cursor = m.cursor
      /\ n.viewport = m.viewport
  BY <1>1 DEF Models
<1>3. U!CommitLineCount(n) = U!CommitLineCount(m)  BY <1>2, SameLines
<1>4. U!Resized(m, size) \in {U!KeepCursorVisible(n), U!KeepCommitViewportValid(n)}  BY DEF U!Resized
<1> HIDE DEF n
<1>5. ModelOK(n)  BY <1>2, <1>3 DEF ModelOK, ModelTyped
<1>6. ModelTyped(n) /\ n.cursor \in 0..U!Minus(Len(n.rows), 1)  BY <1>5 DEF ModelOK
<1> QED  BY <1>2, <1>4, <1>5, <1>6, CursorStaysVisible, ViewportStaysValid DEF SameWork

-----------------------------------------------------------------------------
(* The queue: one effect at most.                                          *)
LEMMA Queued ==
  ASSUME NEW e
  PROVE  /\ <<e>> \o <<>> = <<e>> /\ <<>> \o <<e>> = <<e>> /\ <<>> \o <<>> = <<>>
         /\ Len(<<e>>) = 1 /\ DOMAIN <<e>> = {1} /\ <<e>>[1] = e
<1>1. <<e>> \in Seq({e}) /\ <<>> \in Seq({e})  OBVIOUS
<1>2. <<e>> \o <<>> = <<e>> /\ <<>> \o <<e>> = <<e>> /\ <<>> \o <<>> = <<>>
  BY <1>1, ConcatEmptySeq
<1> QED  BY <1>2

EffectKinds ==
  /\ U!NoEffect.type = "none" /\ U!LoadCandidates.type = "loadCandidates"
  /\ \A ids : U!LoadCommits(ids).type = "loadCommits" /\ U!LoadCommits(ids).ids = ids
  /\ \A names : U!ApplyNames(names).type = "apply" /\ U!ApplyNames(names).names = names
  /\ \A s : U!Exit(s).type = "exit" /\ U!Exit(s).summary = s
  /\ U!NoMessage.type = "none" /\ LoadFailed.type = "loadFailed"
  /\ \A relation : PlanMessage(relation).type = "candidates"
  /\ \A ids, state : CommitsMessage(ids, state).type = "commits" /\ DOMAIN CommitsMessage(ids, state).results = ids
  /\ \A u, f : AppliedMessage(u, f).type = "applied"

LEMMA Kinds == EffectKinds
BY DEF EffectKinds, U!NoEffect, U!LoadCandidates, U!LoadCommits, U!ApplyNames, U!Exit, U!NoMessage, LoadFailed,
       PlanMessage, CommitsMessage, AppliedMessage

LEMMA Enqueued ==
  /\ queue = <<>> => U!Enqueue(<<>>) = <<>>
  /\ \A e : queue = <<e>> => U!Enqueue(<<>>) = <<e>>
  /\ \A e : e.type = "exit" => U!Enqueue(<<e>>) = <<e>>
  /\ \A e : queue = <<>> /\ e.type # "exit" => U!Enqueue(<<e>>) = <<e>>
<1>1. U!Enqueue(<<>>) = queue \o <<>>  BY DEF U!Enqueue
<1>2. ASSUME NEW e, queue = <<e>> PROVE U!Enqueue(<<>>) = <<e>>  BY <1>1, <1>2, Queued
<1>3. ASSUME NEW e, e.type = "exit" PROVE U!Enqueue(<<e>>) = <<e>>
  <2>1. 1 \in DOMAIN <<e>> /\ <<e>>[1].type = "exit"  BY <1>3, Queued
  <2> QED  BY <2>1 DEF U!Enqueue
<1>4. ASSUME NEW e, queue = <<>>, e.type # "exit" PROVE U!Enqueue(<<e>>) = <<e>>
  <2>1. ~ \E i \in DOMAIN <<e>> : <<e>>[i].type = "exit"  BY <1>4, Queued
  <2>2. U!Enqueue(<<e>>) = queue \o <<e>>  BY <2>1 DEF U!Enqueue
  <2> QED  BY <1>4, <2>2, Queued
<1>5. queue = <<>> => U!Enqueue(<<>>) = <<>>  BY <1>1, Queued
<1> QED  BY <1>2, <1>3, <1>4, <1>5

LEMMA Marks ==
  /\ U!Marked(<<>>) = <<>>
  /\ \A s \in Summaries : \E t \in Summaries :
       /\ U!Marked(<<U!Exit(s)>>) = <<U!Exit(t)>>
       /\ t.updated = s.updated /\ t.failed = s.failed
       /\ interruptAfterApply => t.interrupted
<1>1. U!Marked(<<>>) = <<>>
  <2> DEFINE f == [i \in DOMAIN <<>> |-> IF <<>>[i].type = "exit"
                                         THEN [<<>>[i] EXCEPT !.summary.interrupted = TRUE] ELSE <<>>[i]]
  <2>1. f = <<>>
    <3>1. DOMAIN <<>> = {}  OBVIOUS
    <3>2. DOMAIN f = {}  BY <3>1
    <3>3. f \in [1..0 -> {}]  BY <3>2
    <3> QED  BY <3>3
  <2> QED  BY <2>1 DEF U!Marked
<1>2. ASSUME NEW s \in Summaries
      PROVE  \E t \in Summaries : /\ U!Marked(<<U!Exit(s)>>) = <<U!Exit(t)>>
                                  /\ t.updated = s.updated /\ t.failed = s.failed
                                  /\ interruptAfterApply => t.interrupted
  <2>1. CASE ~interruptAfterApply
    <3>1. U!Marked(<<U!Exit(s)>>) = <<U!Exit(s)>>  BY <2>1 DEF U!Marked
    <3> QED  BY <2>1, <3>1
  <2>2. CASE interruptAfterApply
    <3> DEFINE t == [s EXCEPT !.interrupted = TRUE]
    <3>1. t \in Summaries /\ t.updated = s.updated /\ t.failed = s.failed /\ t.interrupted
      BY DEF Summaries
    <3> DEFINE e == U!Exit(s)
    <3>2. [e EXCEPT !.summary.interrupted = TRUE] = U!Exit(t)
      <4>1. e = [type |-> "exit", summary |-> s] /\ e.summary = s  BY DEF U!Exit
      <4> HIDE DEF e
      <4>2. [e EXCEPT !.summary.interrupted = TRUE] = [e EXCEPT !.summary = [e.summary EXCEPT !.interrupted = TRUE]]
        OBVIOUS
      <4>3. [e EXCEPT !.summary.interrupted = TRUE] = [e EXCEPT !.summary = t]  BY <4>1, <4>2
      <4> HIDE DEF t
      <4>4. [e EXCEPT !.summary = t] = [type |-> "exit", summary |-> t]  BY <4>1
      <4> QED  BY <4>3, <4>4 DEF U!Exit
    <3> DEFINE f == [i \in DOMAIN <<e>> |-> IF <<e>>[i].type = "exit"
                                            THEN [<<e>>[i] EXCEPT !.summary.interrupted = TRUE] ELSE <<e>>[i]]
    <3>3. e.type = "exit"  BY Kinds DEF EffectKinds
    <3> HIDE DEF t, e
    <3>4. DOMAIN f = 1..1 /\ f[1] = U!Exit(t)  BY <3>2, <3>3, Queued DEF e
    <3>5. f = <<U!Exit(t)>>
      <4>1. f \in [1..1 -> {U!Exit(t)}]  BY <3>4
      <4>2. f \in Seq({U!Exit(t)}) /\ Len(f) = 1  BY <4>1
      <4>3. <<U!Exit(t)>> \in Seq({U!Exit(t)}) /\ Len(<<U!Exit(t)>>) = 1  OBVIOUS
      <4> HIDE DEF f
      <4>4. \A i \in 1..Len(f) : f[i] = <<U!Exit(t)>>[i]  BY <3>4, <4>2
      <4> QED  BY <4>2, <4>3, <4>4, SeqEqual
    <3>6. U!Marked(<<e>>) = f  BY <2>2 DEF U!Marked
    <3> QED  BY <3>1, <3>5, <3>6 DEF e
  <2> QED  BY <2>1, <2>2
<1> QED  BY <1>1, <1>2

LEMMA UpdateInit == U!Init => UpdateInv
<1> SUFFICES ASSUME U!Init PROVE UpdateInv  OBVIOUS
<1>1. PICK s \in Sizes :
        model = [tab |-> "outdated", phase |-> "loading", rows |-> <<>>, commits |-> <<>>, cursor |-> 0,
                 viewport |-> 0, width |-> s.width, height |-> s.height, help |-> FALSE]
  BY DEF U!Init
<1>2. s.width \in Nat \ {0} /\ s.height \in Nat \ {0}  BY UpdateAssumption DEF U!UpdateAssumption
<1>3. model.commits = <<>> /\ DOMAIN model.commits = {}  BY <1>1
<1>4. <<>> \in UNION {[X -> CommitStates] : X \in SUBSET Comparisons} /\ <<>> \in Seq(ShownRows)
  <2>1. <<>> \in [{} -> CommitStates]  OBVIOUS
  <2> QED  BY <2>1
<1>5. model \in Models
  <2> DEFINE none == <<>>
  <2>1. model = [tab |-> "outdated", phase |-> "loading", rows |-> none, commits |-> none, cursor |-> 0,
                 viewport |-> 0, width |-> s.width, height |-> s.height, help |-> FALSE]
    BY <1>1
  <2>2. none \in UNION {[X -> CommitStates] : X \in SUBSET Comparisons} /\ none \in Seq(ShownRows)  BY <1>4
  <2> HIDE DEF none
  <2> QED  BY <1>2, <2>1, <2>2 DEF Models, U!Phases
<1>6. ModelTyped(model)  BY <1>3, <1>5, FS_EmptySet DEF ModelTyped
<1>7. ModelOK(model)
  <2>1. U!CommitLineCount(model) \in Nat  BY <1>6, LinesAreCounted
  <2>2. Len(model.rows) = 0 /\ model.cursor = 0 /\ model.viewport = 0  BY <1>1
  <2> QED  BY <1>6, <2>1, <2>2 DEF ModelOK, U!Minus, U!Maximum
<1>8. Settled  BY <1>3 DEF Settled, AllAre
<1>9. NothingRuns /\ queue = <<U!LoadCandidates>>  BY DEF U!Init, NothingRuns
<1>10. InOnePhase  BY <1>1, <1>8, <1>9 DEF InOnePhase, LoadingPhase, Free
<1>11. UserLeft  BY DEF U!Init, UserLeft
<1> QED  BY <1>7, <1>10, <1>11 DEF UpdateInv

-----------------------------------------------------------------------------
(* The names that an update is asked for are as many as can be counted.    *)
LEMMA NamesAreCounted ==
  ASSUME ModelOK(model)
  PROVE  Cardinality(U!SelectedNames(model)) \in Nat
<1>1. model.rows \in Seq(ShownRows) /\ DOMAIN model.rows = 1..Len(model.rows)
  BY ModelFields DEF ModelOK, ModelTyped
<1>2. U!SelectedNames(model) \subseteq Skills
  <2>1. \A i \in DOMAIN model.rows : model.rows[i].name \in Skills
    <3>1. \A i \in DOMAIN model.rows : model.rows[i] \in ShownRows  BY <1>1
    <3> QED  BY <3>1 DEF ShownRows
  <2> QED  BY <2>1 DEF U!SelectedNames, U!Rows
<1>3. IsFiniteSet(Skills)  BY UpdateAssumption, InstancesAgree DEF U!UpdateAssumption
<1>4. IsFiniteSet(U!SelectedNames(model))  BY <1>2, <1>3, FS_Subset
<1> QED  BY <1>4, FS_CardinalityType

UpdateSafeStep ==
  /\ applied' # applied => applied'.names = U!SelectedNames(model) /\ applied'.number = loads
  /\ leaving => work' \in {work, U!NoEffect}

(* The worker.                                                             *)
LEMMA WorkerLeftAlone ==
  ASSUME LeftAlone, U!Worker
  PROVE  LeftAlone' /\ applied' = applied
<1>1. CASE U!WorkLoadCandidates
  <2>1. work.type = "loadCandidates" /\ work' = U!NoEffect /\ running' = running /\ applied' = applied
        /\ channel'.type \in {"candidates", "loadFailed"}
    BY <1>1 DEF U!WorkLoadCandidates, U!Answer
  <2>2. running = "load" /\ channel' # U!NoMessage
    BY <2>1, Kinds DEF LeftAlone, EffectKinds
  <2> QED  BY <2>1, <2>2 DEF LeftAlone
<1>2. CASE U!WorkLoadCommits
  <2>1. work.type = "loadCommits" /\ work' = U!NoEffect /\ running' = running /\ applied' = applied
        /\ channel'.type = "commits"
    BY <1>2 DEF U!WorkLoadCommits, U!Answer
  <2>2. running = "load" /\ channel' # U!NoMessage
    BY <2>1, Kinds DEF LeftAlone, EffectKinds
  <2> QED  BY <2>1, <2>2 DEF LeftAlone
<1>3. CASE U!WorkApply
  <2>1. work.type = "apply"  BY <1>3 DEF U!WorkApply
  <2> QED  BY <2>1, Kinds DEF LeftAlone, EffectKinds
<1> QED  BY <1>1, <1>2, <1>3 DEF U!Worker

(* What the phase says of the work that is done.                           *)
LEMMA WorkInPhase ==
  ASSUME InOnePhase
  PROVE  /\ FinishedPhase \/ ClosedPhase => LeftAlone
         /\ ~(FinishedPhase \/ ClosedPhase) =>
              /\ work.type = "loadCandidates" => FetchingPlan /\ LoadingPhase /\ queue = <<>> /\ Settled
              /\ work.type = "loadCommits" => FetchingCommits
              /\ work.type = "apply" => ApplyingPhase /\ Updating /\ Settled
<1>1. FinishedPhase \/ ClosedPhase => LeftAlone  BY DEF FinishedPhase, ClosedPhase
<1>2. /\ NothingRuns => work.type = "none"
      /\ FetchingPlan => work.type \in {"none", "loadCandidates"}
      /\ FetchingCommits => work.type \in {"none", "loadCommits"}
      /\ Updating => work.type \in {"none", "apply"}
  BY Kinds DEF NothingRuns, FetchingPlan, FetchingCommits, Updating, EffectKinds
<1>3. LoadingPhase => \/ FetchingPlan /\ queue = <<>> /\ Settled
                      \/ NothingRuns
                      \/ FetchingCommits
  BY DEF LoadingPhase, Free
<1>4. BrowsingPhase => NothingRuns \/ FetchingCommits  BY DEF BrowsingPhase, Free
<1>5. ApplyingPhase => NothingRuns \/ FetchingCommits \/ (Updating /\ Settled)  BY DEF ApplyingPhase, Free
<1>6. FailedPhase => NothingRuns  BY DEF FailedPhase
<1> QED  BY <1>1, <1>2, <1>3, <1>4, <1>5, <1>6 DEF InOnePhase

LEMMA WorkerStep ==
  ASSUME UpdateInv, U!Worker
  PROVE  UpdateInv' /\ UpdateSafeStep
<1>1. UNCHANGED <<model, queue, running, interruptAfterApply, exit, interrupted, leaving>> /\ work' = U!NoEffect
  BY DEF U!Worker, U!WorkLoadCandidates, U!WorkLoadCommits, U!WorkApply, U!Answer
<1>2. ModelOK(model)'  BY <1>1 DEF UpdateInv
<1>3. UserLeft'  BY <1>1 DEF UpdateInv, UserLeft, U!ExitFirst
<1>4. CASE FinishedPhase \/ ClosedPhase
  <2>1. LeftAlone' /\ applied' = applied  BY <1>4, WorkInPhase, WorkerLeftAlone DEF UpdateInv
  <2>2. InOnePhase'
    BY <1>1, <1>4, <2>1 DEF InOnePhase, FinishedPhase, ClosedPhase, Complete
  <2> QED  BY <1>1, <1>2, <1>3, <2>1, <2>2 DEF UpdateInv, UpdateSafeStep
<1>5. CASE ~(FinishedPhase \/ ClosedPhase) /\ U!WorkLoadCandidates
  <2>1. FetchingPlan /\ LoadingPhase /\ queue = <<>> /\ Settled
    BY <1>5, WorkInPhase DEF U!WorkLoadCandidates, UpdateInv
  <2>2. applied' = applied  BY <1>5 DEF U!WorkLoadCandidates
  <2>3. \/ channel' = LoadFailed
        \/ plan'.number = loads' /\ \E relation \in [Skills -> U!Relations] : channel' = PlanMessage(relation)
    <3>1. CASE channel' = LoadFailed  BY <3>1
    <3>2. ASSUME NEW relation \in [Skills -> U!Relations],
                 plan' = [number |-> loads', items |-> U!PlanItems(relation)],
                 channel' = PlanMessage(relation)
          PROVE  plan'.number = loads'
      BY <3>2
    <3> QED  BY <1>5, <3>1, <3>2 DEF U!WorkLoadCandidates, U!Answer, PlanMessage, LoadFailed
  <2>4. FetchingPlan'  BY <1>1, <2>1, <2>2, <2>3 DEF FetchingPlan
  <2>5. InOnePhase'  BY <1>1, <2>1, <2>4 DEF InOnePhase, LoadingPhase, Settled, AllAre
  <2> QED  BY <1>1, <1>2, <1>3, <2>2, <2>5 DEF UpdateInv, UpdateSafeStep
<1>6. CASE ~(FinishedPhase \/ ClosedPhase) /\ U!WorkLoadCommits
  <2>1. FetchingCommits  BY <1>6, WorkInPhase DEF U!WorkLoadCommits, UpdateInv
  <2>2. work = U!LoadCommits(DOMAIN model.commits)
    <3>1. work.type = "loadCommits"  BY <1>6 DEF U!WorkLoadCommits
    <3> QED  BY <2>1, <3>1, Kinds DEF FetchingCommits, EffectKinds
  <2>3. UNCHANGED <<plan, applied, loads>>  BY <1>6 DEF U!WorkLoadCommits
  <2>4. \E state \in {"ready", "failed"} : channel' = CommitsMessage(DOMAIN model.commits, state)
    <3>1. work.ids = DOMAIN model.commits  BY <2>2, Kinds DEF EffectKinds
    <3> QED  BY <1>6, <3>1 DEF U!WorkLoadCommits, U!Answer, CommitsMessage
  <2>5. FetchingCommits'  BY <1>1, <2>1, <2>3, <2>4 DEF FetchingCommits, AllAre
  <2>6. ~NothingRuns /\ ~Updating  BY <2>1 DEF FetchingCommits, NothingRuns, Updating
  <2>7. Free'  BY <2>5 DEF Free
  <2> DEFINE ids == DOMAIN model.commits
             names == U!SelectedNames(model)
  <2>8. ids' = ids /\ names' = names  BY <1>1
  <2> HIDE DEF ids, names
  <2>9. ASSUME LoadingPhase PROVE InOnePhase'
    <3>1. ~FetchingPlan  BY <2>1, <2>2, Kinds DEF FetchingPlan, EffectKinds
    <3>2. model.phase = "loading" /\ queue = <<U!LoadCandidates>>  BY <2>9, <3>1 DEF LoadingPhase
    <3>3. model'.phase = "loading" /\ queue' = <<U!LoadCandidates>>  BY <1>1, <3>2
    <3>4. LoadingPhase'  BY <2>7, <3>3 DEF LoadingPhase
    <3> QED  BY <3>4 DEF InOnePhase
  <2>10. ASSUME BrowsingPhase PROVE InOnePhase'
    <3>1. model.phase = "browsing" /\ plan.number = loads /\ queue = <<>>  BY <2>6, <2>10 DEF BrowsingPhase
    <3>2. model'.phase = "browsing" /\ plan'.number = loads' /\ queue' = <<>>  BY <1>1, <2>3, <3>1
    <3>3. BrowsingPhase'  BY <2>7, <3>2 DEF BrowsingPhase
    <3> QED  BY <3>3 DEF InOnePhase
  <2>11. ASSUME ApplyingPhase PROVE InOnePhase'
    <3>1. /\ model.phase = "applying" /\ plan.number = loads
          /\ queue = <<U!ApplyNames(names)>> \/ \E s \in Summaries : queue = <<U!Exit(s)>>
      BY <2>6, <2>11 DEF ApplyingPhase, names
    <3>2. /\ model'.phase = "applying" /\ plan'.number = loads'
          /\ queue' = <<U!ApplyNames(names')>> \/ \E s \in Summaries : queue' = <<U!Exit(s)>>
      BY <1>1, <2>3, <2>8, <3>1
    <3>3. ApplyingPhase'  BY <2>5, <2>7, <3>2 DEF ApplyingPhase, names
    <3> QED  BY <3>3 DEF InOnePhase
  <2>12. ~FailedPhase  BY <2>6 DEF FailedPhase
  <2>13. InOnePhase'
    BY <1>6, <2>9, <2>10, <2>11, <2>12 DEF UpdateInv, InOnePhase
  <2> QED  BY <1>1, <1>2, <1>3, <2>3, <2>13 DEF UpdateInv, UpdateSafeStep
<1>7. CASE ~(FinishedPhase \/ ClosedPhase) /\ U!WorkApply
  <2>1. ApplyingPhase /\ Updating /\ Settled  BY <1>7, WorkInPhase DEF U!WorkApply, UpdateInv
  <2>2. work = U!ApplyNames(U!SelectedNames(model)) /\ applied.names = {}
    <3>1. work.type = "apply"  BY <1>7 DEF U!WorkApply
    <3> QED  BY <2>1, <3>1, Kinds DEF Updating, EffectKinds
  <2> DEFINE n == Cardinality(U!SelectedNames(model))
  <2>3. work.names = U!SelectedNames(model) /\ U!Cardinality(work.names) = n /\ n \in Nat
    BY <2>2, Kinds, InstancesAgree, NamesAreCounted DEF EffectKinds, UpdateInv
  <2>4. UNCHANGED <<plan, loads>>  BY <1>7 DEF U!WorkApply
  <2>5. /\ channel' \in {AppliedMessage(n, 0), AppliedMessage(0, n)}
        /\ applied' = applied \/ applied' = [names |-> work.names, number |-> plan.number]
    BY <1>7, <2>3 DEF U!WorkApply, U!Answer, AppliedMessage
  <2>6. applied' # applied => applied'.names = U!SelectedNames(model) /\ applied'.number = plan.number
    BY <2>3, <2>5
  <2>7. applied'.names # {} => Cardinality(applied'.names) = n  BY <2>2, <2>6
  <2> HIDE DEF n
  <2>8. \E updated, failed \in Nat : channel' = AppliedMessage(updated, failed) /\ updated + failed = n
    <3>1. n + 0 = n /\ 0 + n = n  BY <2>3
    <3> QED  BY <2>3, <2>5, <3>1
  <2>9. Updating'  BY <1>1, <2>1, <2>7, <2>8 DEF Updating
  <2>10. ~NothingRuns /\ ~FetchingCommits  BY <2>1 DEF FetchingCommits, NothingRuns, Updating
  <2>11. InOnePhase'
    BY <1>1, <2>1, <2>4, <2>9, <2>10 DEF InOnePhase, ApplyingPhase, Free, Settled, AllAre
  <2>12. plan.number = loads  BY <2>1 DEF ApplyingPhase
  <2> QED  BY <1>1, <1>2, <1>3, <2>6, <2>11, <2>12 DEF UpdateInv, UpdateSafeStep
<1> QED  BY <1>4, <1>5, <1>6, <1>7 DEF U!Worker


-----------------------------------------------------------------------------
(* The loop.  First what keeps an invariant when little changes.           *)
LEMMA SummariesKnown ==
  ASSUME NEW u \in Nat, NEW f \in Nat, NEW c \in BOOLEAN, NEW i \in BOOLEAN
  PROVE  LET s == U!Summary(u, f, c, i)
         IN s \in Summaries /\ s.updated = u /\ s.failed = f /\ s.cancelled = c /\ s.interrupted = i
BY DEF U!Summary, Summaries

LEMMA Heads ==
  /\ queue = <<>> => ~U!ExitFirst
  /\ \A e : queue = <<e>> => /\ queue # <<>> /\ Head(queue) = e /\ Tail(queue) = <<>>
                             /\ U!ExitFirst <=> e.type = "exit"
<1>1. queue = <<>> => ~U!ExitFirst  BY DEF U!ExitFirst
<1>2. ASSUME NEW e, queue = <<e>>
      PROVE  queue # <<>> /\ Head(queue) = e /\ Tail(queue) = <<>>
  <2>1. queue \in Seq({e}) /\ Len(queue) = 1 /\ queue[1] = e  BY <1>2
  <2>2. queue # <<>>  BY <1>2, Queued
  <2>3. Head(queue) = e  BY <2>1, <2>2, <1>2
  <2>4. Tail(queue) = <<>>  BY <1>2
  <2> QED  BY <2>2, <2>3, <2>4
<1> QED  BY <1>1, <1>2 DEF U!ExitFirst

LEMMA WorkKept ==
  ASSUME model'.commits = model.commits, UNCHANGED <<running, work, channel, plan, applied, loads>>
  PROVE  /\ DOMAIN model'.commits = DOMAIN model.commits
         /\ Settled => Settled'
         /\ NothingRuns => NothingRuns'
         /\ FetchingPlan => FetchingPlan'
         /\ FetchingCommits => FetchingCommits'
         /\ LeftAlone => LeftAlone'
         /\ Free => Free'
         /\ AllAre("loading") => AllAre("loading")'
<1>1. \A state : AllAre(state) => \A id \in DOMAIN model'.commits : model'.commits[id] = state  BY DEF AllAre
<1>2. Settled => Settled'  BY <1>1 DEF Settled, AllAre
<1>3. AllAre("loading") => AllAre("loading")'  BY <1>1 DEF AllAre
<1>4. NothingRuns => NothingRuns'  BY DEF NothingRuns
<1>5. FetchingPlan => FetchingPlan'  BY DEF FetchingPlan
<1>6. FetchingCommits => FetchingCommits'  BY <1>3 DEF FetchingCommits
<1>7. LeftAlone => LeftAlone'  BY DEF LeftAlone
<1>8. Free => Free'  BY <1>2, <1>4, <1>6 DEF Free
<1> QED  BY <1>2, <1>3, <1>4, <1>5, <1>6, <1>7, <1>8

LEMMA RowsKept ==
  ASSUME model'.rows = model.rows
  PROVE  /\ U!SelectedNames(model') = U!SelectedNames(model)
         /\ (UNCHANGED <<running, work, channel, applied>> /\ Updating) => Updating'
<1>1. U!SelectedNames(model') = U!SelectedNames(model)  BY DEF U!SelectedNames, U!Rows
<1> DEFINE names == U!SelectedNames(model)
<1>2. names' = names  BY <1>1
<1> HIDE DEF names
<1>3. (UNCHANGED <<running, work, channel, applied>> /\ Updating) => Updating'  BY <1>2 DEF Updating, names
<1> QED  BY <1>1, <1>3

LEMMA PhaseKept ==
  ASSUME InOnePhase, model'.phase = model.phase, model'.commits = model.commits,
         model.phase # "browsing" => model'.rows = model.rows,
         UNCHANGED <<queue, running, work, channel, plan, exit, applied, loads>>
  PROVE  InOnePhase'
<1> DEFINE ids == DOMAIN model.commits
           names == U!SelectedNames(model)
<1>1. ids' = ids  BY WorkKept
<1>2. model.phase # "browsing" => names' = names /\ (Updating => Updating')  BY RowsKept
<1> HIDE DEF ids, names
<1>3. ASSUME LoadingPhase PROVE InOnePhase'
  <2>1. LoadingPhase'  BY <1>3, WorkKept DEF LoadingPhase
  <2> QED  BY <2>1 DEF InOnePhase
<1>4. ASSUME BrowsingPhase PROVE InOnePhase'
  <2>1. /\ model'.phase = "browsing" /\ plan'.number = loads'
        /\ \/ queue' = <<>> /\ Free'
           \/ queue' = <<U!LoadCommits(ids')>> /\ NothingRuns' /\ AllAre("loading")'
    BY <1>1, <1>4, WorkKept DEF BrowsingPhase, ids
  <2>2. BrowsingPhase'  BY <2>1 DEF BrowsingPhase, ids
  <2> QED  BY <2>2 DEF InOnePhase
<1>5. ASSUME ApplyingPhase PROVE InOnePhase'
  <2>0. names' = names /\ (Updating => Updating')  BY <1>2, <1>5 DEF ApplyingPhase
  <2>1. /\ model'.phase = "applying" /\ plan'.number = loads'
        /\ \/ queue' = <<U!ApplyNames(names')>> /\ Free'
           \/ queue' = <<>> /\ Updating' /\ Settled'
           \/ /\ \E s \in Summaries : queue' = <<U!Exit(s)>>
              /\ FetchingCommits' \/ (Updating' /\ Settled')
    BY <1>5, <2>0, WorkKept DEF ApplyingPhase, names
  <2>2. ApplyingPhase'  BY <2>1 DEF ApplyingPhase, names
  <2> QED  BY <2>2 DEF InOnePhase
<1>6. ASSUME FailedPhase PROVE InOnePhase'
  <2>1. FailedPhase'  BY <1>6, WorkKept DEF FailedPhase
  <2> QED  BY <2>1 DEF InOnePhase
<1>7. ASSUME FinishedPhase PROVE InOnePhase'
  <2>1. FinishedPhase'  BY <1>7, WorkKept DEF FinishedPhase, Complete
  <2> QED  BY <2>1 DEF InOnePhase
<1>8. ASSUME ClosedPhase PROVE InOnePhase'
  <2>1. ClosedPhase'  BY <1>8, WorkKept DEF ClosedPhase, Complete
  <2> QED  BY <2>1 DEF InOnePhase
<1> QED  BY <1>3, <1>4, <1>5, <1>6, <1>7, <1>8 DEF InOnePhase

(* Nobody has left as long as the loop reads.                              *)
LEMMA NobodyLeft ==
  ASSUME UserLeft, ~U!ExitFirst, model.phase # "closed"
  PROVE  ~leaving /\ (interrupted => running = "apply" /\ interruptAfterApply)
BY DEF UserLeft

(* What the queue holds in each phase.                                     *)
LEMMA ExitQueued ==
  ASSUME InOnePhase, U!ExitFirst, U!InLoop
  PROVE  \E s \in Summaries :
           /\ queue = <<U!Exit(s)>>
           /\ \/ ApplyingPhase /\ (FetchingCommits \/ (Updating /\ Settled))
              \/ LeftAlone /\ Complete(s)
<1>1. \A x : queue = <<x>> => x.type = "exit"  BY Heads
<1>2. queue # <<>>  BY DEF U!ExitFirst
<1>3. ~LoadingPhase  BY <1>1, <1>2, Kinds DEF LoadingPhase, EffectKinds
<1>4. ~BrowsingPhase
  <2>1. queue # <<U!LoadCommits(DOMAIN model.commits)>>  BY <1>1, Kinds DEF EffectKinds
  <2> QED  BY <1>2, <2>1 DEF BrowsingPhase
<1>5. ~FailedPhase  BY <1>2 DEF FailedPhase
<1>6. ~ClosedPhase  BY <1>2 DEF ClosedPhase
<1>7. ApplyingPhase => (\E s \in Summaries : queue = <<U!Exit(s)>>) /\ (FetchingCommits \/ (Updating /\ Settled))
  <2>1. queue # <<U!ApplyNames(U!SelectedNames(model))>>  BY <1>1, Kinds DEF EffectKinds
  <2> QED  BY <1>2, <2>1 DEF ApplyingPhase
<1>8. FinishedPhase => LeftAlone /\ \E s \in Summaries : queue = <<U!Exit(s)>> /\ Complete(s)
  BY DEF FinishedPhase
<1> QED  BY <1>3, <1>4, <1>5, <1>6, <1>7, <1>8 DEF InOnePhase

LEMMA NothingQueued ==
  ASSUME InOnePhase, ~U!ExitFirst, U!InLoop
  PROVE  /\ ~FinishedPhase /\ ~ClosedPhase
         /\ ApplyingPhase => \/ queue = <<U!ApplyNames(U!SelectedNames(model))>> /\ Free
                             \/ queue = <<>> /\ Updating /\ Settled
<1>1. \A s \in Summaries : queue # <<U!Exit(s)>>  BY Heads, Kinds DEF EffectKinds
<1>2. ~FinishedPhase  BY <1>1 DEF FinishedPhase
<1>3. ~ClosedPhase  BY DEF ClosedPhase, U!InLoop
<1> QED  BY <1>1, <1>2, <1>3 DEF ApplyingPhase

LEMMA CommitsLeftAlone ==
  /\ NothingRuns => LeftAlone /\ applied.names = {}
  /\ FetchingPlan => LeftAlone /\ applied.names = {}
  /\ FetchingCommits => LeftAlone /\ applied.names = {}
<1>1. NothingRuns => LeftAlone /\ applied.names = {}  BY DEF NothingRuns, LeftAlone
<1>2. FetchingPlan => LeftAlone /\ applied.names = {}
  BY Kinds DEF FetchingPlan, LeftAlone, EffectKinds
<1>3. FetchingCommits => LeftAlone /\ applied.names = {}
  BY Kinds DEF FetchingCommits, LeftAlone, EffectKinds
<1> QED  BY <1>1, <1>2, <1>3

LEMMA ExitStep ==
  ASSUME UpdateInv, U!LoopExit
  PROVE  UpdateInv' /\ UpdateSafeStep
<1>1. ModelOK(model) /\ InOnePhase /\ UserLeft /\ U!ExitFirst /\ U!InLoop  BY DEF UpdateInv, U!LoopExit
<1>2. model.phase # "closed"  BY <1>1 DEF U!InLoop
<1>3. UNCHANGED <<running, work, channel, plan, applied, loads, interrupted, leaving>>  BY DEF U!LoopExit
<1>4. PICK s \in Summaries :
        /\ queue = <<U!Exit(s)>>
        /\ \/ ApplyingPhase /\ (FetchingCommits \/ (Updating /\ Settled))
           \/ LeftAlone /\ Complete(s)
  BY <1>1, ExitQueued
<1>5. Head(queue).summary = s /\ Tail(queue) = <<>> /\ queue' = <<>>
  BY <1>4, Heads, Kinds DEF EffectKinds, U!LoopExit
<1>6. UpdateSafeStep  BY <1>3 DEF UpdateSafeStep
<1>7. CASE running = "apply"
  <2>1. model' = model /\ interruptAfterApply' = (interruptAfterApply \/ s.interrupted)
    BY <1>5, <1>7 DEF U!LoopExit
  <2>2. ApplyingPhase /\ Updating /\ Settled
    BY <1>4, <1>7 DEF FetchingCommits, LeftAlone
  <2>3. Updating' /\ Settled'  BY <1>3, <2>1, <2>2, WorkKept, RowsKept
  <2>4. ApplyingPhase'  BY <1>3, <1>5, <2>1, <2>2, <2>3 DEF ApplyingPhase
  <2>5. UserLeft'  BY <1>1, <1>2, <1>3, <1>5, <1>7, <2>1 DEF UserLeft, Summaries
  <2>6. ModelOK(model)'  BY <1>1, <2>1
  <2> QED  BY <1>6, <2>4, <2>5, <2>6 DEF UpdateInv, InOnePhase
<1>8. CASE running # "apply"
  <2>1. exit' = s /\ model' = PhaseSet(model, "closed") /\ interruptAfterApply' = interruptAfterApply
    BY <1>5, <1>8 DEF U!LoopExit, U!Close, PhaseSet
  <2>2. "closed" \in U!Phases  BY DEF U!Phases
  <2>3. ModelOK(model') /\ model'.phase = "closed" /\ model'.commits = model.commits
    BY <1>1, <2>1, <2>2, PhaseIsSet
  <2>4. LeftAlone /\ Complete(s)
    <3>1. ~Updating  BY <1>8 DEF Updating
    <3> QED  BY <1>4, <3>1, CommitsLeftAlone DEF Complete
  <2>5. LeftAlone'  BY <1>3, <2>3, <2>4, WorkKept
  <2>6. ClosedPhase'  BY <1>3, <1>4, <1>5, <2>1, <2>3, <2>4, <2>5 DEF ClosedPhase, Complete
  <2>7. UserLeft'  BY <1>1, <1>2, <1>3, <1>5, <1>8, <2>1, <2>3 DEF UserLeft
  <2> QED  BY <1>6, <2>3, <2>6, <2>7 DEF UpdateInv, InOnePhase
<1> QED  BY <1>7, <1>8

-----------------------------------------------------------------------------
LEMMA PlanReceived ==
  ASSUME UpdateInv, U!LoopReceive, FetchingPlan, LoadingPhase, queue = <<>>, Settled
  PROVE  UpdateInv' /\ UpdateSafeStep
<1>1. ModelOK(model) /\ InOnePhase /\ UserLeft /\ ~U!ExitFirst /\ U!InLoop /\ channel # U!NoMessage
  BY DEF UpdateInv, U!LoopReceive
<1>2. /\ model' = U!Update(model, channel).model
      /\ queue' = U!Enqueue(U!Marked(U!Update(model, channel).effects))
      /\ running' = "none" /\ channel' = U!NoMessage
      /\ UNCHANGED <<work, plan, poisoned, exit, applied, loads, interrupted, leaving>>
  BY DEF U!LoopReceive
<1>3. ~leaving /\ ~interrupted
  BY <1>1, NobodyLeft DEF FetchingPlan, U!InLoop
<1>4. interruptAfterApply' = FALSE /\ leaving' = leaving /\ interrupted' = interrupted
      /\ leaving \in BOOLEAN /\ interrupted \in BOOLEAN
  BY <1>1 DEF U!LoopReceive, UserLeft
<1>5. UserLeft'  BY <1>3, <1>4 DEF UserLeft
<1>6. UpdateSafeStep  BY <1>2 DEF UpdateSafeStep
<1>7. work = U!NoEffect /\ applied.names = {}  BY <1>1 DEF FetchingPlan
<1>8. NothingRuns'  BY <1>2, <1>7 DEF NothingRuns
<1>9. CASE channel = LoadFailed
  <2>1. /\ ModelOK(model') /\ model'.phase = "failed" /\ model'.commits = model.commits
        /\ U!Update(model, channel).effects = <<>>
    BY <1>1, <1>2, <1>9, FailureShown
  <2>2. queue' = <<>>  BY <1>2, <2>1, Marks, Enqueued
  <2>3. Settled'  BY <2>1 DEF Settled, AllAre
  <2>4. FailedPhase'  BY <1>8, <2>1, <2>2, <2>3 DEF FailedPhase
  <2> QED  BY <1>5, <1>6, <2>1, <2>4 DEF UpdateInv, InOnePhase
<1>10. CASE channel # LoadFailed
  <2>1. plan.number = loads /\ \E relation \in [Skills -> U!Relations] : channel = PlanMessage(relation)
    BY <1>1, <1>10 DEF FetchingPlan
  <2>2. PICK relation \in [Skills -> U!Relations] : channel = PlanMessage(relation)  BY <2>1
  <2> DEFINE effects == U!Update(model, channel).effects
  <2>3. /\ ModelOK(model')
        /\ \A id \in DOMAIN model'.commits : model'.commits[id] = "not requested"
        /\ \/ model'.phase = "finished" /\ effects = <<U!Exit(U!NotYet)>>
           \/ model'.phase = "browsing" /\ effects = <<>>
    BY <1>1, <1>2, <2>2, PlanShown
  <2>4. queue' = U!Enqueue(U!Marked(effects))  BY <1>2
  <2> HIDE DEF effects
  <2>5. Settled'
    <3>1. AllAre("not requested")'  BY <2>3 DEF AllAre
    <3> QED  BY <3>1 DEF Settled
  <2>6. CASE model'.phase = "browsing"
    <3>1. effects = <<>>  BY <2>3, <2>6
    <3>2. queue' = <<>>  BY <2>4, <3>1, Marks, Enqueued
    <3>3. Free'  BY <1>8, <2>5 DEF Free
    <3>4. BrowsingPhase'  BY <1>2, <2>1, <2>6, <3>2, <3>3 DEF BrowsingPhase
    <3> QED  BY <1>5, <1>6, <2>3, <3>4 DEF UpdateInv, InOnePhase
  <2>7. CASE model'.phase = "finished"
    <3>1. effects = <<U!Exit(U!NotYet)>>  BY <2>3, <2>7
    <3>2. U!NotYet \in Summaries  BY SummariesKnown DEF U!NotYet
    <3>3. PICK t \in Summaries : U!Marked(effects) = <<U!Exit(t)>>  BY <3>1, <3>2, Marks
    <3>4. queue' = <<U!Exit(t)>>  BY <2>4, <3>3, Enqueued, Kinds DEF EffectKinds
    <3>5. LeftAlone' /\ applied'.names = {}  BY <1>2, <1>7 DEF LeftAlone
    <3>6. FinishedPhase'  BY <2>7, <3>4, <3>5 DEF FinishedPhase, Complete
    <3> QED  BY <1>5, <1>6, <2>3, <3>6 DEF UpdateInv, InOnePhase
  <2> QED  BY <2>3, <2>6, <2>7
<1> QED  BY <1>9, <1>10

LEMMA CommitsReceived ==
  ASSUME UpdateInv, U!LoopReceive, FetchingCommits
  PROVE  UpdateInv' /\ UpdateSafeStep
<1>1. ModelOK(model) /\ InOnePhase /\ UserLeft /\ ~U!ExitFirst /\ U!InLoop /\ channel # U!NoMessage
  BY DEF UpdateInv, U!LoopReceive
<1>2. /\ model' = U!Update(model, channel).model
      /\ queue' = U!Enqueue(U!Marked(U!Update(model, channel).effects))
      /\ running' = "none" /\ channel' = U!NoMessage
      /\ UNCHANGED <<work, plan, poisoned, exit, applied, loads, interrupted, leaving>>
  BY DEF U!LoopReceive
<1>3. ~leaving /\ ~interrupted
  BY <1>1, NobodyLeft DEF FetchingCommits, U!InLoop
<1>4. interruptAfterApply' = FALSE /\ leaving' = leaving /\ interrupted' = interrupted
      /\ leaving \in BOOLEAN /\ interrupted \in BOOLEAN
  BY <1>1 DEF U!LoopReceive, UserLeft
<1>5. UserLeft'  BY <1>3, <1>4 DEF UserLeft
<1>6. UpdateSafeStep  BY <1>2 DEF UpdateSafeStep
<1>7. work = U!NoEffect /\ applied.names = {}  BY <1>1 DEF FetchingCommits
<1>8. NothingRuns'  BY <1>2, <1>7 DEF NothingRuns
<1>9. PICK state \in {"ready", "failed"} : channel = CommitsMessage(DOMAIN model.commits, state)
  BY <1>1 DEF FetchingCommits
<1>10. /\ ModelOK(model') /\ model'.phase = model.phase /\ model'.rows = model.rows
       /\ U!Update(model, channel).effects = <<>>
       /\ DOMAIN model'.commits = DOMAIN model.commits
       /\ \A id \in DOMAIN model.commits : model'.commits[id] = state
  <2> DEFINE next == U!Update(model, CommitsMessage(DOMAIN model.commits, state))
  <2>1. /\ ModelOK(next.model) /\ next.model.phase = model.phase /\ next.model.rows = model.rows
        /\ next.effects = <<>> /\ DOMAIN next.model.commits = DOMAIN model.commits
        /\ \A id \in DOMAIN model.commits : next.model.commits[id] = state
    BY <1>1, CommitsShown
  <2>2. model' = next.model /\ U!Update(model, channel).effects = next.effects  BY <1>2, <1>9
  <2> HIDE DEF next
  <2> QED  BY <2>1, <2>2
<1>11. Settled'
  <2>1. AllAre("ready")' \/ AllAre("failed")'  BY <1>10 DEF AllAre
  <2> QED  BY <2>1 DEF Settled
<1>12. Free'  BY <1>8, <1>11 DEF Free
<1>13. queue' = U!Enqueue(<<>>)  BY <1>2, <1>10, Marks
<1>14. ~NothingRuns /\ ~Updating  BY DEF FetchingCommits, NothingRuns, Updating
<1> DEFINE names == U!SelectedNames(model)
<1>15. names' = names  BY <1>10, RowsKept
<1> HIDE DEF names
<1>16. ASSUME LoadingPhase PROVE InOnePhase'
  <2>1. ~FetchingPlan
    BY <1>7, <1>9, Kinds DEF FetchingPlan, EffectKinds, U!NoMessage, U!NoEffect
  <2>2. queue = <<U!LoadCandidates>>  BY <1>16, <2>1 DEF LoadingPhase
  <2>3. queue' = <<U!LoadCandidates>>  BY <1>13, <2>2, Enqueued
  <2>4. model'.phase = "loading"  BY <1>10, <1>16 DEF LoadingPhase
  <2>5. LoadingPhase'  BY <1>12, <2>3, <2>4 DEF LoadingPhase
  <2> QED  BY <2>5 DEF InOnePhase
<1>17. ASSUME BrowsingPhase PROVE InOnePhase'
  <2>1. queue = <<>>  BY <1>14, <1>17 DEF BrowsingPhase
  <2>2. queue' = <<>>  BY <1>13, <2>1, Enqueued
  <2>3. BrowsingPhase'  BY <1>2, <1>10, <1>12, <1>17, <2>2 DEF BrowsingPhase
  <2> QED  BY <2>3 DEF InOnePhase
<1>18. ASSUME ApplyingPhase PROVE InOnePhase'
  <2>1. queue = <<U!ApplyNames(names)>>  BY <1>1, <1>14, <1>18, NothingQueued DEF names
  <2>2. queue' = <<U!ApplyNames(names')>>  BY <1>13, <1>15, <2>1, Enqueued
  <2>3. model'.phase = "applying" /\ plan'.number = loads'  BY <1>2, <1>10, <1>18 DEF ApplyingPhase
  <2>4. ApplyingPhase'  BY <1>12, <2>2, <2>3 DEF ApplyingPhase, names
  <2> QED  BY <2>4 DEF InOnePhase
<1>19. ~FailedPhase /\ ~FinishedPhase /\ ~ClosedPhase  BY <1>1, <1>14, NothingQueued DEF FailedPhase
<1>20. InOnePhase'  BY <1>1, <1>16, <1>17, <1>18, <1>19 DEF InOnePhase
<1> QED  BY <1>5, <1>6, <1>10, <1>20 DEF UpdateInv

LEMMA ResultReceived ==
  ASSUME UpdateInv, U!LoopReceive, Updating
  PROVE  UpdateInv' /\ UpdateSafeStep
<1>1. ModelOK(model) /\ InOnePhase /\ UserLeft /\ ~U!ExitFirst /\ U!InLoop /\ channel # U!NoMessage
  BY DEF UpdateInv, U!LoopReceive
<1>2. /\ model' = U!Update(model, channel).model
      /\ queue' = U!Enqueue(U!Marked(U!Update(model, channel).effects))
      /\ running' = "none" /\ channel' = U!NoMessage /\ interruptAfterApply' = FALSE
      /\ UNCHANGED <<work, plan, poisoned, exit, applied, loads, interrupted, leaving>>
  BY DEF U!LoopReceive
<1>3. ~leaving /\ (interrupted => interruptAfterApply)  BY <1>1, NobodyLeft DEF U!InLoop
<1>4. UpdateSafeStep  BY <1>2 DEF UpdateSafeStep
<1>5. PICK updated \in Nat, failed \in Nat :
        /\ channel = AppliedMessage(updated, failed)
        /\ applied.names # {} => updated + failed = Cardinality(applied.names)
  BY <1>1 DEF Updating
<1>6. work = U!NoEffect  BY <1>1 DEF Updating
<1> DEFINE s == U!Summary(updated, failed, FALSE, FALSE)
<1>7. ModelOK(model') /\ model'.phase = "finished" /\ U!Update(model, channel).effects = <<U!Exit(s)>>
  BY <1>1, <1>2, <1>5, UpdateShown
<1>8. s \in Summaries /\ s.updated = updated /\ s.failed = failed  BY SummariesKnown
<1> HIDE DEF s
<1>9. PICK t \in Summaries :
        /\ U!Marked(<<U!Exit(s)>>) = <<U!Exit(t)>> /\ t.updated = s.updated /\ t.failed = s.failed
        /\ interruptAfterApply => t.interrupted
  BY <1>8, Marks
<1>10. queue' = <<U!Exit(t)>>  BY <1>2, <1>7, <1>9, Enqueued, Kinds DEF EffectKinds
<1>11. Complete(t)'  BY <1>2, <1>5, <1>8, <1>9 DEF Complete
<1>12. LeftAlone'  BY <1>2, <1>6 DEF LeftAlone
<1>13. FinishedPhase'  BY <1>7, <1>10, <1>11, <1>12 DEF FinishedPhase
<1>14. (U!ExitFirst)' /\ Head(queue') = U!Exit(t)
  <2>1. queue' # <<>> /\ Head(queue') = U!Exit(t)
    <3>1. <<U!Exit(t)>> # <<>>  BY Queued
    <3>2. Head(<<U!Exit(t)>>) = U!Exit(t)  OBVIOUS
    <3> QED  BY <1>10, <3>1, <3>2
  <2> QED  BY <2>1, Kinds DEF U!ExitFirst, EffectKinds
<1>15. interrupted' => Head(queue').summary.interrupted
  BY <1>2, <1>3, <1>9, <1>14, Kinds DEF EffectKinds
<1>16. UserLeft'  BY <1>1, <1>2, <1>3, <1>14, <1>15 DEF UserLeft
<1> QED  BY <1>4, <1>7, <1>13, <1>16 DEF UpdateInv, InOnePhase

LEMMA ReceiveStep ==
  ASSUME UpdateInv, U!LoopReceive
  PROVE  UpdateInv' /\ UpdateSafeStep
<1>1. InOnePhase /\ ~U!ExitFirst /\ U!InLoop /\ channel # U!NoMessage  BY DEF UpdateInv, U!LoopReceive
<1>2. ~FinishedPhase /\ ~ClosedPhase  BY <1>1, NothingQueued
<1>3. ~NothingRuns  BY <1>1 DEF NothingRuns
<1>4. LoadingPhase => (FetchingPlan /\ queue = <<>> /\ Settled) \/ FetchingCommits
  BY <1>3 DEF LoadingPhase, Free
<1>5. BrowsingPhase => FetchingCommits  BY <1>3 DEF BrowsingPhase, Free
<1>6. ApplyingPhase => FetchingCommits \/ Updating  BY <1>3 DEF ApplyingPhase, Free
<1>7. ~FailedPhase  BY <1>3 DEF FailedPhase
<1> QED  BY <1>1, <1>2, <1>4, <1>5, <1>6, <1>7, PlanReceived, CommitsReceived, ResultReceived DEF InOnePhase

-----------------------------------------------------------------------------
LEMMA StartStep ==
  ASSUME UpdateInv, U!LoopStart
  PROVE  UpdateInv' /\ UpdateSafeStep
<1>1. ModelOK(model) /\ InOnePhase /\ UserLeft /\ ~U!ExitFirst /\ U!InLoop /\ running = "none" /\ queue # <<>>
  BY DEF UpdateInv, U!LoopStart
<1>2. /\ running' = IF Head(queue).type = "apply" THEN "apply" ELSE "load"
      /\ work' = Head(queue) /\ queue' = Tail(queue)
      /\ UNCHANGED <<model, channel, interruptAfterApply, plan, exit, applied, loads, interrupted, leaving>>
  BY DEF U!LoopStart
<1>3. ~leaving /\ ~interrupted  BY <1>1, NobodyLeft DEF U!InLoop
<1>4. UserLeft'  BY <1>1, <1>2, <1>3 DEF UserLeft
<1>5. UpdateSafeStep  BY <1>2, <1>3 DEF UpdateSafeStep
<1>6. ModelOK(model)'  BY <1>1, <1>2
<1>7. ~FinishedPhase /\ ~ClosedPhase /\ ~FailedPhase  BY <1>1, NothingQueued DEF FailedPhase
<1>8. ~FetchingPlan /\ ~FetchingCommits /\ ~Updating  BY <1>1 DEF FetchingPlan, FetchingCommits, Updating
<1> DEFINE ids == DOMAIN model.commits
           names == U!SelectedNames(model)
<1>9. ids' = ids /\ names' = names  BY <1>2
<1>10. (Settled => Settled') /\ (AllAre("loading") => AllAre("loading")')  BY <1>2 DEF Settled, AllAre
<1> HIDE DEF ids, names
<1>11. ASSUME LoadingPhase PROVE InOnePhase'
  <2>1. queue = <<U!LoadCandidates>> /\ NothingRuns /\ Settled  BY <1>8, <1>11 DEF LoadingPhase, Free
  <2>2. work' = U!LoadCandidates /\ running' = "load" /\ queue' = <<>>
    BY <1>2, <2>1, Heads, Kinds DEF EffectKinds
  <2>3. FetchingPlan'  BY <1>2, <2>1, <2>2 DEF FetchingPlan, NothingRuns
  <2>4. LoadingPhase'  BY <1>2, <1>10, <1>11, <2>1, <2>2, <2>3 DEF LoadingPhase
  <2> QED  BY <2>4 DEF InOnePhase
<1>12. ASSUME BrowsingPhase PROVE InOnePhase'
  <2>1. queue = <<U!LoadCommits(ids)>> /\ NothingRuns /\ AllAre("loading")
    BY <1>1, <1>12 DEF BrowsingPhase, ids
  <2>2. work' = U!LoadCommits(ids') /\ running' = "load" /\ queue' = <<>>
    BY <1>2, <1>9, <2>1, Heads, Kinds DEF EffectKinds
  <2>3. FetchingCommits'
    <3>1. applied'.names = {} /\ channel' = U!NoMessage  BY <1>2, <2>1 DEF NothingRuns
    <3> QED  BY <1>10, <2>1, <2>2, <3>1 DEF FetchingCommits, ids
  <2>4. model'.phase = "browsing" /\ plan'.number = loads'  BY <1>2, <1>12 DEF BrowsingPhase
  <2>5. BrowsingPhase'  BY <2>2, <2>3, <2>4 DEF BrowsingPhase, Free
  <2> QED  BY <2>5 DEF InOnePhase
<1>13. ASSUME ApplyingPhase PROVE InOnePhase'
  <2>1. queue = <<U!ApplyNames(names)>> /\ NothingRuns /\ Settled
    BY <1>1, <1>8, <1>13, NothingQueued DEF Free, names
  <2>2. work' = U!ApplyNames(names') /\ running' = "apply" /\ queue' = <<>>
    BY <1>2, <1>9, <2>1, Heads, Kinds DEF EffectKinds
  <2>3. Updating'
    <3>1. applied'.names = {} /\ channel' = U!NoMessage  BY <1>2, <2>1 DEF NothingRuns
    <3> QED  BY <2>2, <3>1 DEF Updating, names
  <2>4. model'.phase = "applying" /\ plan'.number = loads'  BY <1>2, <1>13 DEF ApplyingPhase
  <2>5. ApplyingPhase'  BY <1>10, <2>1, <2>2, <2>3, <2>4 DEF ApplyingPhase
  <2> QED  BY <2>5 DEF InOnePhase
<1> QED  BY <1>1, <1>4, <1>5, <1>6, <1>7, <1>11, <1>12, <1>13 DEF UpdateInv, InOnePhase

LEMMA ResizeStep ==
  ASSUME UpdateInv, U!LoopResize
  PROVE  UpdateInv' /\ UpdateSafeStep
<1>1. PICK size \in Sizes : model' = U!Resized(model, size)  BY DEF U!LoopResize
<1>2. UNCHANGED <<queue, running, work, channel, interruptAfterApply, plan, exit, applied, loads, interrupted, leaving>>
  BY DEF U!LoopResize
<1>3. ModelOK(model') /\ SameWork(model, model')  BY <1>1, ResizeShown DEF UpdateInv
<1>4. model'.phase = model.phase /\ model'.commits = model.commits /\ model'.rows = model.rows
  BY <1>3 DEF SameWork
<1>5. InOnePhase'  BY <1>2, <1>4, PhaseKept DEF UpdateInv
<1>6. UserLeft'  BY <1>2, <1>4 DEF UpdateInv, UserLeft, U!ExitFirst
<1>7. UpdateSafeStep  BY <1>2 DEF UpdateSafeStep
<1> QED  BY <1>3, <1>5, <1>6, <1>7 DEF UpdateInv

(* The keys, by what they do.                                              *)
LEMMA KeyStep ==
  ASSUME UpdateInv, NEW key \in U!Keys, U!LoopKey(key)
  PROVE  UpdateInv' /\ UpdateSafeStep
<1> DEFINE next == U!UpdateKey(model, key)
<1>1. ModelOK(model) /\ InOnePhase /\ UserLeft /\ ~U!ExitFirst /\ U!InLoop /\ (running # "none" \/ queue = <<>>)
  BY DEF UpdateInv, U!LoopKey, U!LoopReads
<1>2. model' = next.model /\ queue' = U!Enqueue(next.effects)  BY DEF U!LoopKey
<1>3. /\ UNCHANGED <<running, work, channel, interruptAfterApply, plan, exit, applied, loads>>
      /\ interrupted' = (interrupted \/ key = "interrupt")
      /\ leaving' = (leaving \/ (key \in {"cancel", "interrupt"} /\ running # "apply"))
  BY DEF U!LoopKey
<1>4. ~FinishedPhase /\ ~ClosedPhase  BY <1>1, NothingQueued
<1>5. model.phase \in {"loading", "browsing", "applying", "failed"}
  BY <1>1, <1>4 DEF InOnePhase, LoadingPhase, BrowsingPhase, ApplyingPhase, FailedPhase
<1>6. ByKey(model, next, key)  BY <1>1, <1>5, Keyed
<1> HIDE DEF next
<1>7. ModelOK(model')  BY <1>2, <1>6 DEF ByKey
<1>8. ~leaving /\ (interrupted => running = "apply" /\ interruptAfterApply)  BY <1>1, NobodyLeft DEF U!InLoop
<1>9. UpdateSafeStep  BY <1>3 DEF UpdateSafeStep
<1>10. key \notin {"cancel", "interrupt"} => UserLeft'
  <2> SUFFICES ASSUME key \notin {"cancel", "interrupt"} PROVE UserLeft'  OBVIOUS
  <2>1. interrupted' = interrupted /\ leaving' = leaving  BY <1>1, <1>3 DEF UserLeft
  <2> QED  BY <1>1, <1>3, <1>8, <2>1 DEF UserLeft
<1>11. NothingRuns => queue = <<>>  BY <1>1 DEF NothingRuns
<1>12. BrowsingPhase => queue = <<>> /\ Free
  <2>1. queue = <<U!LoadCommits(DOMAIN model.commits)>> => queue # <<>>  BY Heads
  <2> QED  BY <1>11, <2>1 DEF BrowsingPhase
<1>13. ApplyingPhase => \/ queue = <<U!ApplyNames(U!SelectedNames(model))>> /\ FetchingCommits
                        \/ queue = <<>> /\ Updating /\ Settled
  <2>1. queue = <<U!ApplyNames(U!SelectedNames(model))>> => queue # <<>>  BY Heads
  <2> QED  BY <1>1, <1>11, <2>1, NothingQueued DEF Free
<1>14. CASE MovesAbout(model, next) /\ key \notin {"cancel", "interrupt"}
  <2>1. /\ model'.phase = model.phase /\ model'.commits = model.commits
        /\ model.phase # "browsing" => model'.rows = model.rows
        /\ next.effects = <<>>
    BY <1>2, <1>14 DEF MovesAbout
  <2>2. queue' = queue
    <3>1. U!Enqueue(<<>>) = queue \o <<>>  BY DEF U!Enqueue
    <3>2. queue = <<>> \/ \E e : queue = <<e>>
      BY <1>1, <1>4 DEF InOnePhase, LoadingPhase, BrowsingPhase, ApplyingPhase, FailedPhase
    <3> QED  BY <1>2, <2>1, <3>2, Enqueued
  <2>3. InOnePhase'  BY <1>1, <1>3, <2>1, <2>2, PhaseKept
  <2> QED  BY <1>7, <1>9, <1>10, <1>14, <2>3 DEF UpdateInv
<1>15. CASE GivesUp(model, next, key)
  <2> DEFINE byInterrupt == key = "interrupt"
             s == U!Summary(0, 0, TRUE, byInterrupt)
  <2>1. s \in Summaries /\ s.interrupted = byInterrupt
    <3>1. byInterrupt \in BOOLEAN /\ 0 \in Nat /\ TRUE \in BOOLEAN  OBVIOUS
    <3> HIDE DEF byInterrupt
    <3>2. s \in Summaries  BY <3>1 DEF U!Summary, Summaries
    <3>3. s.interrupted = byInterrupt  BY DEF U!Summary
    <3> QED  BY <3>2, <3>3
  <2>2. /\ key \in {"cancel", "interrupt"} /\ next.effects = <<U!Exit(s)>>
        /\ model'.commits = model.commits /\ model'.rows = model.rows
        /\ model'.phase = (IF model.phase = "applying" THEN "applying" ELSE "finished")
    BY <1>2, <1>15 DEF GivesUp
  <2> HIDE DEF s
  <2>3. queue' = <<U!Exit(s)>>  BY <1>2, <2>2, Enqueued, Kinds DEF EffectKinds
  <2>4. (U!ExitFirst)' /\ Head(queue').summary = s
    <3>1. queue' # <<>> /\ Head(queue') = U!Exit(s)
      <4>1. <<U!Exit(s)>> # <<>>  BY Queued
      <4>2. Head(<<U!Exit(s)>>) = U!Exit(s)  OBVIOUS
      <4> QED  BY <2>3, <4>1, <4>2
    <3> QED  BY <3>1, Kinds DEF U!ExitFirst, EffectKinds
  <2>5. UserLeft'
    <3>1. /\ interrupted' \in BOOLEAN /\ leaving' \in BOOLEAN /\ interruptAfterApply' \in BOOLEAN
      BY <1>1, <1>3 DEF UserLeft
    <3>2. leaving' => running' # "apply"  BY <1>3, <1>8
    <3>3. interrupted' => s.interrupted \/ (running' = "apply" /\ interruptAfterApply')
      BY <1>3, <1>8, <2>1, <2>2
    <3> QED  BY <2>4, <3>1, <3>2, <3>3 DEF UserLeft
  <2>6. CASE ApplyingPhase
    <3>1. FetchingCommits \/ (Updating /\ Settled)  BY <1>13, <2>6
    <3>2. /\ FetchingCommits => FetchingCommits'
          /\ Settled => Settled'
          /\ Updating => Updating'
      BY <1>3, <2>2, WorkKept, RowsKept
    <3>3. FetchingCommits' \/ (Updating' /\ Settled')  BY <3>1, <3>2
    <3>4. model'.phase = "applying" /\ plan'.number = loads'  BY <1>3, <2>2, <2>6 DEF ApplyingPhase
    <3>5. ApplyingPhase'  BY <2>1, <2>3, <3>3, <3>4 DEF ApplyingPhase
    <3> QED  BY <1>7, <1>9, <2>5, <3>5 DEF UpdateInv, InOnePhase
  <2>7. CASE ~ApplyingPhase
    <3>1. LoadingPhase \/ BrowsingPhase \/ FailedPhase  BY <1>1, <1>4, <2>7 DEF InOnePhase
    <3>2. model'.phase = "finished"  BY <2>2, <3>1 DEF LoadingPhase, BrowsingPhase, FailedPhase
    <3>3. NothingRuns \/ FetchingPlan \/ FetchingCommits
      BY <3>1 DEF LoadingPhase, BrowsingPhase, FailedPhase, Free
    <3>4. LeftAlone' /\ applied'.names = {}  BY <1>3, <2>2, <3>3, CommitsLeftAlone, WorkKept
    <3>5. FinishedPhase'  BY <2>1, <2>3, <3>2, <3>4 DEF FinishedPhase, Complete
    <3> QED  BY <1>7, <1>9, <2>5, <3>5 DEF UpdateInv, InOnePhase
  <2> QED  BY <2>6, <2>7
<1>16. CASE LoadsAgain(model, next) /\ key = "retry"
  <2>1. /\ model.phase \in {"browsing", "failed"} /\ next.effects = <<U!LoadCandidates>>
        /\ model'.phase = "loading" /\ model'.commits = model.commits
    BY <1>2, <1>16 DEF LoadsAgain
  <2>2. BrowsingPhase \/ FailedPhase
    BY <1>1, <1>4, <2>1 DEF InOnePhase, LoadingPhase, ApplyingPhase
  <2>3. queue = <<>> /\ Free  BY <1>12, <2>2 DEF FailedPhase, Free
  <2>4. queue' = <<U!LoadCandidates>>  BY <1>2, <2>1, <2>3, Enqueued, Kinds DEF EffectKinds
  <2>5. Free'  BY <1>3, <2>1, <2>3, WorkKept
  <2>6. LoadingPhase'  BY <2>1, <2>4, <2>5 DEF LoadingPhase
  <2> QED  BY <1>7, <1>9, <1>10, <1>16, <2>6 DEF UpdateInv, InOnePhase
<1>17. ASSUME NEW state \in {"not requested", "failed"},
              AsksForCommits(model, next, U!CommitIds(model, state)), key \notin {"cancel", "interrupt"}
       PROVE  UpdateInv' /\ UpdateSafeStep
  <2> DEFINE ids == U!CommitIds(model, state)
  <2>1. /\ model.phase = "browsing" /\ ids # {} /\ next.effects = <<U!LoadCommits(ids)>>
        /\ model'.phase = "browsing" /\ DOMAIN model'.commits = DOMAIN model.commits
        /\ \A id \in DOMAIN model.commits : model'.commits[id] = IF id \in ids THEN "loading" ELSE model.commits[id]
    BY <1>2, <1>17 DEF AsksForCommits
  <2>2. BrowsingPhase
    BY <1>1, <1>4, <2>1 DEF InOnePhase, LoadingPhase, ApplyingPhase, FailedPhase
  <2>3. PICK id \in DOMAIN model.commits : model.commits[id] = state  BY <2>1 DEF U!CommitIds
  <2>4. ~FetchingCommits  BY <2>3 DEF FetchingCommits, AllAre
  <2>5. NothingRuns /\ Settled /\ queue = <<>>  BY <1>12, <2>2, <2>4 DEF Free
  <2>6. ids = DOMAIN model.commits
    <3>1. \A s \in {"not requested", "ready", "failed"} : AllAre(s) => AllAre(state)
      <4> SUFFICES ASSUME NEW s \in {"not requested", "ready", "failed"}, AllAre(s) PROVE AllAre(state)  OBVIOUS
      <4>1. s = state  BY <2>3 DEF AllAre
      <4> QED  BY <4>1
    <3>2. AllAre(state)  BY <2>5, <3>1 DEF Settled
    <3> QED  BY <3>2 DEF AllAre, U!CommitIds
  <2> HIDE DEF ids
  <2>7. queue' = <<U!LoadCommits(ids)>>  BY <1>2, <2>1, <2>5, Enqueued, Kinds DEF EffectKinds
  <2>8. queue' = <<U!LoadCommits(DOMAIN model'.commits)>>  BY <2>1, <2>6, <2>7
  <2>9. AllAre("loading")'  BY <2>1, <2>6 DEF AllAre
  <2>10. NothingRuns'  BY <1>3, <2>5 DEF NothingRuns
  <2>11. plan'.number = loads'  BY <1>3, <2>2 DEF BrowsingPhase
  <2>12. BrowsingPhase'  BY <2>1, <2>8, <2>9, <2>10, <2>11 DEF BrowsingPhase
  <2> QED  BY <1>7, <1>9, <1>10, <1>17, <2>12 DEF UpdateInv, InOnePhase
<1>18. CASE Applies(model, next) /\ key = "apply"
  <2> DEFINE names == U!SelectedNames(model)
  <2>1. /\ model.phase = "browsing" /\ next.effects = <<U!ApplyNames(names)>>
        /\ model'.phase = "applying" /\ model'.commits = model.commits /\ model'.rows = model.rows
    BY <1>2, <1>18 DEF Applies
  <2>2. BrowsingPhase
    BY <1>1, <1>4, <2>1 DEF InOnePhase, LoadingPhase, ApplyingPhase, FailedPhase
  <2>3. queue = <<>> /\ Free /\ plan.number = loads  BY <1>12, <2>2 DEF BrowsingPhase
  <2>4. U!SelectedNames(model') = names  BY <2>1, RowsKept
  <2> HIDE DEF names
  <2>5. queue' = <<U!ApplyNames(U!SelectedNames(model'))>>
    <3>1. queue' = <<U!ApplyNames(names)>>  BY <1>2, <2>1, <2>3, Enqueued, Kinds DEF EffectKinds
    <3> QED  BY <2>4, <3>1
  <2>6. Free'  BY <1>3, <2>1, <2>3, WorkKept
  <2>7. plan'.number = loads'  BY <1>3, <2>3
  <2>8. ApplyingPhase'  BY <2>1, <2>5, <2>6, <2>7 DEF ApplyingPhase
  <2> QED  BY <1>7, <1>9, <1>10, <1>18, <2>8 DEF UpdateInv, InOnePhase
<1> QED  BY <1>6, <1>14, <1>15, <1>16, <1>17, <1>18 DEF ByKey

LEMMA UpdateStep ==
  ASSUME UpdateInv, [U!Next]_updateVars
  PROVE  UpdateInv' /\ UpdateSafeStep
<1>1. ASSUME UNCHANGED updateVars PROVE UpdateInv' /\ UpdateSafeStep
  <2>1. UNCHANGED <<model, queue, running, work, channel, interruptAfterApply, plan, exit, applied, loads,
                    interrupted, leaving>>
    BY <1>1 DEF updateVars
  <2>2. InOnePhase'  BY <2>1, PhaseKept DEF UpdateInv
  <2>3. ModelOK(model)' /\ UserLeft'  BY <2>1 DEF UpdateInv, UserLeft, U!ExitFirst
  <2> QED  BY <2>1, <2>2, <2>3 DEF UpdateInv, UpdateSafeStep
<1> QED  BY <1>1, WorkerStep, ExitStep, ReceiveStep, StartStep, ResizeStep, KeyStep DEF U!Next, U!Loop

-----------------------------------------------------------------------------
(* What the invariant says of the screen.                                  *)
LEMMA OneEffectQueued ==
  ASSUME InOnePhase
  PROVE  queue = <<>> \/ \E e : queue = <<e>>
BY DEF InOnePhase, LoadingPhase, BrowsingPhase, ApplyingPhase, FailedPhase, FinishedPhase, ClosedPhase

LEMMA WorkerIsCounted ==
  ASSUME InOnePhase
  PROVE  running = "none" <=> work = U!NoEffect /\ channel = U!NoMessage
<1>1. NothingRuns => (running = "none" <=> work = U!NoEffect /\ channel = U!NoMessage)  BY DEF NothingRuns
<1>2. FetchingPlan => running = "load" /\ ~(work = U!NoEffect /\ channel = U!NoMessage)
  BY Kinds DEF FetchingPlan, EffectKinds
<1>3. FetchingCommits => running = "load" /\ ~(work = U!NoEffect /\ channel = U!NoMessage)
  BY Kinds DEF FetchingCommits, EffectKinds
<1>4. Updating => running = "apply" /\ ~(work = U!NoEffect /\ channel = U!NoMessage)
  BY Kinds DEF Updating, EffectKinds
<1>5. LeftAlone => (running = "none" <=> work = U!NoEffect /\ channel = U!NoMessage)
  BY Kinds DEF LeftAlone, EffectKinds
<1>6. NothingRuns \/ FetchingPlan \/ FetchingCommits \/ Updating \/ LeftAlone
  BY DEF InOnePhase, LoadingPhase, BrowsingPhase, ApplyingPhase, FailedPhase, FinishedPhase, ClosedPhase, Free
<1> QED  BY <1>1, <1>2, <1>3, <1>4, <1>5, <1>6

LEMMA UpdateTyped ==
  ASSUME UpdateInv
  PROVE  U!TypeOK
<1>1. ModelOK(model) /\ model \in Models /\ InOnePhase  BY DEF UpdateInv, ModelOK, ModelTyped
<1>2. /\ model.phase \in U!Phases /\ model.tab \in {"outdated", "commits"}
      /\ model.commits \in [DOMAIN model.commits -> CommitStates]
  BY <1>1, ModelFields
<1>3. \A id \in DOMAIN model.commits : model.commits[id] \in {"not requested", "loading", "ready", "failed"}
  BY <1>2 DEF CommitStates
<1>4. \A i \in DOMAIN queue : queue[i].type = "exit" => i = Len(queue)
  <2>1. CASE queue = <<>>  BY <2>1
  <2>2. ASSUME NEW e, queue = <<e>> PROVE \A i \in DOMAIN queue : queue[i].type = "exit" => i = Len(queue)
    BY <2>2, Queued
  <2> QED  BY <1>1, <2>1, <2>2, OneEffectQueued
<1>5. running = "none" <=> work = U!NoEffect /\ channel = U!NoMessage  BY <1>1, WorkerIsCounted
<1>6. /\ model.cursor \in 0..U!Minus(Len(model.rows), 1)
      /\ model.viewport \in 0..U!Maximum(Len(model.rows), U!CommitLineCount(model))
  BY <1>1 DEF ModelOK
<1> QED  BY <1>2, <1>3, <1>4, <1>5, <1>6 DEF U!TypeOK

LEMMA UpdateReports ==
  ASSUME UpdateInv
  PROVE  U!ResultsComplete /\ U!InterruptKept
<1>1. model.phase = "closed" => ClosedPhase
  BY DEF UpdateInv, InOnePhase, LoadingPhase, BrowsingPhase, ApplyingPhase, FailedPhase, FinishedPhase
<1>2. U!ResultsComplete  BY <1>1, InstancesAgree DEF U!ResultsComplete, ClosedPhase, Complete
<1>3. model.phase = "closed" => ~U!ExitFirst /\ running # "apply"
  BY <1>1, Heads DEF ClosedPhase, LeftAlone
<1>4. U!InterruptKept  BY <1>3 DEF U!InterruptKept, UpdateInv, UserLeft, U!ExitCode
<1> QED  BY <1>2, <1>4

LEMMA LoadingIsReal ==
  ASSUME UpdateInv
  PROVE  U!LoadingIsUnderWay
<1> SUFFICES ASSUME NEW id \in U!CommitIds(model, "loading"), model.phase \notin {"finished", "closed"}
             PROVE  \/ \E i \in DOMAIN queue : queue[i].type = "loadCommits" /\ id \in queue[i].ids
                    \/ work.type = "loadCommits" /\ id \in work.ids
                    \/ channel.type = "commits" /\ id \in DOMAIN channel.results
  BY DEF U!LoadingIsUnderWay
<1>1. id \in DOMAIN model.commits /\ model.commits[id] = "loading"  BY DEF U!CommitIds
<1>2. ~Settled  BY <1>1 DEF Settled, AllAre
<1>3. FetchingCommits \/ queue = <<U!LoadCommits(DOMAIN model.commits)>>
  <2>1. InOnePhase /\ ~FinishedPhase /\ ~ClosedPhase  BY DEF UpdateInv, FinishedPhase, ClosedPhase
  <2> QED  BY <1>2, <2>1 DEF InOnePhase, LoadingPhase, BrowsingPhase, ApplyingPhase, FailedPhase, Free
<1>4. CASE queue = <<U!LoadCommits(DOMAIN model.commits)>>
  <2>1. /\ 1 \in DOMAIN queue /\ queue[1].type = "loadCommits" /\ queue[1].ids = DOMAIN model.commits
    BY <1>4, Queued, Kinds DEF EffectKinds
  <2> QED  BY <1>1, <2>1
<1>5. CASE FetchingCommits
  <2>1. CASE work = U!LoadCommits(DOMAIN model.commits)
    BY <1>1, <2>1, Kinds DEF EffectKinds
  <2>2. ASSUME NEW state, channel = CommitsMessage(DOMAIN model.commits, state)
        PROVE  channel.type = "commits" /\ id \in DOMAIN channel.results
    BY <1>1, <2>2, Kinds DEF EffectKinds
  <2> QED  BY <1>5, <2>1, <2>2 DEF FetchingCommits
<1> QED  BY <1>3, <1>4, <1>5

LEMMA ActingKeysListed ==
  ASSUME UpdateInv
  PROVE  U!KeysThatActAreListed
<1> SUFFICES ASSUME NEW key \in U!Keys \ (U!Bindings(model) \cup {"interrupt"})
             PROVE  U!OnlyShows(model, U!UpdateKey(model, key))
  BY DEF U!KeysThatActAreListed
<1>1. ModelOK(model)  BY DEF UpdateInv
<1>2. CASE model.phase # "finished"  BY <1>1, <1>2, UnlistedOnlyShows
<1>3. CASE model.phase = "finished"
  <2>2. CASE key = "help"
    <3>1. U!UpdateKey(model, key) = U!To([model EXCEPT !.help = ~@], <<>>)  BY <1>3, <2>2 DEF U!UpdateKey
    <3> QED  BY <1>1, <3>1, HelpShows
  <2>3. CASE key # "help"
    <3>1. U!UpdateKey(model, key) = U!To(model, <<>>)  BY <1>3, <2>3 DEF U!UpdateKey
    <3> QED  BY <1>1, <3>1, NothingShows
  <2> QED  BY <2>2, <2>3
<1> QED  BY <1>2, <1>3

-----------------------------------------------------------------------------
(* One screen at a time.                                                   *)
ScreensInv == UpdateInv /\ DoctorInv /\ PickerInv /\ StatusInv

LEMMA ScreensInit == Init => ScreensInv
BY UpdateInit, DoctorInit, PickerInit, StatusInit DEF Init, ScreensInv

ScreensStep ==
  /\ UpdateSafeStep /\ DoctorKeepsSelection
  /\ \A c \in consent' \ consent : c.saw = c.plan /\ c.selected = c.plan.path
  /\ PickerStepIsShown
  /\ S!Stands

LEMMA ScreensNext ==
  ASSUME ScreensInv, [Next]_vars
  PROVE  ScreensInv' /\ ScreensStep
<1>1. [U!Next]_updateVars /\ [D!Next]_doctorVars /\ [P!Next]_pickerVars /\ [S!Next]_statusVars
  BY DEF Next, Update, Doctor, Picker, Status, vars
<1>2. UpdateInv' /\ UpdateSafeStep  BY <1>1, UpdateStep DEF ScreensInv
<1>3. /\ DoctorInv' /\ DoctorKeepsSelection
      /\ \A c \in consent' \ consent : c.saw = c.plan /\ c.selected = c.plan.path
  BY <1>1, DoctorStep DEF ScreensInv
<1>4. PickerInv' /\ PickerStepIsShown  BY <1>1, PickerStep DEF ScreensInv
<1>5. StatusInv' /\ S!Stands  BY <1>1, StatusStep DEF ScreensInv
<1> QED  BY <1>2, <1>3, <1>4, <1>5 DEF ScreensInv, ScreensStep

LEMMA ScreensHold == Spec => []ScreensInv
<1>1. ScreensInv /\ [Next]_vars => ScreensInv'  BY ScreensNext
<1> QED  BY <1>1, ScreensInit, PTL DEF Spec

LEMMA ScreensMove == Spec => [][ScreensStep]_vars
<1>1. ScreensInv /\ [Next]_vars => [ScreensStep]_vars  BY ScreensNext
<1> QED  BY <1>1, ScreensHold, PTL DEF Spec

-----------------------------------------------------------------------------
(* Every list of every screen keeps its cursor, its viewport and its       *)
(* selection on what it holds (update_ui.rs, doctor_ui.rs, select_ui.rs),  *)
(* whatever keys, results, filters and sizes come.                         *)
THEOREM ScreenTypes == Spec => []TypesOK
<1>1. ScreensInv => TypesOK
  BY UpdateTyped, DoctorSafe, PickerSafe DEF ScreensInv, TypesOK
<1> QED  BY <1>1, ScreensHold, PTL

(* What was done is reported when a screen closes: the result of each      *)
(* Skill that was handed to the update, a Ctrl+C as exit code 130, and     *)
(* each action of doctor that ended.                                       *)
THEOREM OutcomesAreReported == Spec => []OutcomesReported
<1>1. ScreensInv => OutcomesReported
  BY UpdateReports, DoctorSafe DEF ScreensInv, OutcomesReported
<1> QED  BY <1>1, ScreensHold, PTL

(* One job of doctor runs at a time, the one its screen names, and update  *)
(* shows a range as loading only while a request for it is under way.      *)
THEOREM WorkIsOnTheScreen == Spec => []WorkIsShown
<1>1. ScreensInv => WorkIsShown
  BY LoadingIsReal, DoctorSafe DEF ScreensInv, WorkIsShown
<1> QED  BY <1>1, ScreensHold, PTL

(* No key that starts work in the update screen, or changes more of it     *)
(* than the part that is shown, is missing at its foot, Ctrl+C apart       *)
(* (update_key, bindings).                                                 *)
THEOREM ActingKeysAreListed == Spec => []KeysThatActAreListed
<1>1. ScreensInv => KeysThatActAreListed
  BY ActingKeysListed DEF ScreensInv, KeysThatActAreListed
<1> QED  BY <1>1, ScreensHold, PTL

(* Update applies the rows that are marked, with the plan on the screen;   *)
(* doctor the plan that was under review when Enter was typed; the picker  *)
(* changes no mark that its filter hides.                                  *)
THEOREM OnlyWhatIsShownChanges == Spec => ChangesWhatIsShown
<1>1. Spec => U!AppliesWhatIsShown
  <2>1. [ScreensStep]_vars =>
          [applied' # applied => applied'.names = U!SelectedNames(model) /\ applied'.number = loads]_(U!vars)
    BY DEF ScreensStep, UpdateSafeStep, vars, updateVars, U!vars
  <2> QED  BY <2>1, ScreensMove, PTL DEF U!AppliesWhatIsShown
<1>2. Spec => D!AppliesWhatWasReviewed
  <2>1. [ScreensStep]_vars => [\A c \in consent' \ consent : c.saw = c.plan /\ c.selected = c.plan.path]_(D!vars)
    BY DEF ScreensStep, vars, doctorVars, D!vars
  <2> QED  BY <2>1, ScreensMove, PTL DEF D!AppliesWhatWasReviewed
<1>3. Spec => P!ChangesOnlyWhatIsShown
  <2>1. [ScreensStep]_vars =>
          [LET changed == (chosen \ chosen') \cup (chosen' \ chosen)
           IN /\ changed \subseteq shown.matches
              /\ \/ P!Cardinality(changed) <= 1
                 \/ shown.matches \subseteq chosen' \/ shown.matches \cap chosen' = {}]_(P!vars)
    BY InstancesAgree DEF ScreensStep, PickerStepIsShown, vars, pickerVars, P!vars
  <2> QED  BY <2>1, ScreensMove, PTL DEF P!ChangesOnlyWhatIsShown
<1> QED  BY <1>1, <1>2, <1>3, PTL DEF ChangesWhatIsShown

(* After the user gave up, the loop of update starts no effect, in         *)
(* particular no update that waited in the queue (run_event_loop).         *)
THEOREM NothingIsStarted == Spec => NothingStartsAfterwards
<1>1. [ScreensStep]_vars => [leaving => work' \in {work, U!NoEffect}]_(U!vars)
  BY DEF ScreensStep, UpdateSafeStep, vars, updateVars, U!vars
<1> QED  BY <1>1, ScreensMove, PTL DEF NothingStartsAfterwards, U!NothingStartsAfterwards

(* A scan leaves the mark of doctor on the Skill it was on, if the scan    *)
(* still shows it (doctor_ui.rs).                                          *)
THEOREM SelectionStays == Spec => SelectionKept
<1>1. [ScreensStep]_vars =>
        [(report' # report /\ previousPath # D!NoPath) =>
           LET path == previousPath
           IN (\E i \in D!VisibleNow' : report'[i].path = path) => D!SelectedPath' = path]_(D!vars)
  BY DEF ScreensStep, DoctorKeepsSelection, vars, doctorVars, D!vars
<1> QED  BY <1>1, ScreensMove, PTL DEF SelectionKept, D!SelectionKept

(* No frame of the spinner is painted over what a prompt or the command    *)
(* wrote on standard error, nor into an answer that follows a prompt, and  *)
(* none is left when the command ends (status.rs): they stop the painter   *)
(* under its lock.  Of an answer without a prompt before it nothing is     *)
(* said: standard output has no gate.                                      *)
THEOREM TextIsNotPaintedOver == Spec => TextStands
<1>1. [ScreensStep]_vars => [S!Stands]_(S!vars)
  BY DEF ScreensStep, vars, statusVars, S!vars
<1>2. ScreensInv => S!AnswersWhole /\ S!LineIsErased  BY DEF ScreensInv, StatusInv
<1> QED  BY <1>1, <1>2, ScreensMove, ScreensHold, PTL DEF TextStands, S!TextStands
=============================================================================
