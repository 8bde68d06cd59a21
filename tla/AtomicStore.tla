----------------------------- MODULE AtomicStore -----------------------------
(***************************************************************************)
(* What the Skill store promises: the lock document and the files change   *)
(* together, in one step, however many Skills and targets a command        *)
(* touches and wherever it is interrupted.  SkillStore implements this.    *)
(***************************************************************************)
EXTENDS SkillData

VARIABLES
  doc,    \* the recorded state
  files   \* what each place holds

Init ==
  /\ doc = InitialDoc
  /\ files = [pl \in Places |-> None]

Managed(d, pl) == Recorded(d, pl) # None

(* A command installs, updates or removes the Skills in S: nothing else    *)
(* changes, a required Skill stays, and no directory of the user's in an   *)
(* Agent target is replaced.                                               *)
Commit(S) ==
  /\ doc' \in Docs /\ doc'.tx > doc.tx
  /\ \A s \in Skills \ S : doc'.skills[s] = doc.skills[s]
  /\ \A s \in S : doc'.skills[s] = None => s \notin doc.required
  /\ files' = [pl \in Places |->
                 IF pl[1] \in S /\ (Managed(doc, pl) \/ Managed(doc', pl))
                 THEN Recorded(doc', pl) ELSE files[pl]]
  /\ \A pl \in Places :
       files[pl] = Foreign /\ pl[2] # Store => files'[pl] = Foreign

UserEdit(pl) ==
  /\ \E v \in UserValues(pl) : files' = [files EXCEPT ![pl] = v]
  /\ UNCHANGED doc

Next ==
  \/ \E S \in SUBSET Skills : S # {} /\ Commit(S)
  \/ \E pl \in Places : UserEdit(pl)

Spec == Init /\ [][Next]_<<doc, files>>
=============================================================================
