---------------------------- MODULE CommandsProofs ----------------------------
(***************************************************************************)
(* Proofs about the commands, for every set of Skills, commits, paths,     *)
(* Agents, manifests, processes and accounts, and for every bound.  One    *)
(* command runs per behaviour, so each section has the invariant of one    *)
(* part of the program and says nothing of the others.  Those of the       *)
(* commands that follow a source are in SourceCommandsProofs; what the     *)
(* account session promises is proved of its module, and carried over here *)
(* to the two settings in which it runs.                                   *)
(***************************************************************************)
EXTENDS SourceCommandsProofs

-----------------------------------------------------------------------------
(* A step is one of the part that runs; a step of the others stutters.     *)
LEMMA StepOfPart ==
  ASSUME [Next]_vars
  PROVE  /\ part' = part
         /\ part = "update" => Update!Next \/ UNCHANGED Update!vars
         /\ part = "install" => Install!Next \/ UNCHANGED Install!vars
         /\ part = "targets" => Targets!Next \/ UNCHANGED Targets!vars
         /\ part = "sync" => Sync!Next \/ UNCHANGED Sync!vars
         /\ part = "doctor" => Doctor!Next \/ UNCHANGED Doctor!vars
         /\ part = "session" => Session!Next \/ UNCHANGED Session!vars
         /\ part = "line" => Line!Next \/ UNCHANGED Line!vars
         /\ part = "two" => Two!Next \/ UNCHANGED Two!vars
         /\ part = "alone" => Alone!Next \/ UNCHANGED Alone!vars
<1>1. CASE Next
  BY <1>1, Zenon DEF Next
<1>2. CASE UNCHANGED vars
  BY <1>2 DEF vars, updateVars, installVars, targetsVars, syncVars, doctorVars, sessionVars, lineVars, authVars,
              Update!vars, Update!store, Update!env, Update!plan, Update!work,
              Install!vars, Install!env, Install!report, Targets!vars, Sync!vars, Sync!store,
              Doctor!vars, Doctor!disk, Doctor!transaction,
              Session!vars, Line!vars, Two!vars, Two!local, Alone!vars, Alone!local
<1> QED  BY <1>1, <1>2

-----------------------------------------------------------------------------
(* The doctor's action.  Its steps, by what they leave of the copies:      *)
(* nothing is touched yet; every copy is in the backup; one by one they    *)
(* go there or come back.                                                  *)
Before == {"plan", "review", "links", "files", "backup", "receipt", "copy"}
Away == {"install", "verify", "check lock", "write lock", "undo install"}
Backed == Away \cup {"move", "undo"}

DoctorTypes ==
  /\ found \in Cases /\ action \in {"migrate", "remove"}
  /\ here \in [Paths -> Doctor!Contents] /\ saved \in [Paths -> Doctor!Contents]
  /\ receipt \in BOOLEAN /\ store \in BOOLEAN /\ journal \in BOOLEAN /\ taken \subseteq Paths
  /\ foreign \in [entry : BOOLEAN, rev : Nat]
  /\ at \in 0..Doctor!Cardinality(Paths) + 1 /\ changes \in 0..DoctorChanges
  /\ pc \in Before \cup Backed \cup {"end"}
  /\ outcome \in {"none", "refused", "changed", "failed", "recover", "applied", "declined", "killed"}

(* What the plan has excluded stays excluded.                              *)
Reviewed ==
  pc \notin {"plan", "end"} => found.copies = found.seen /\ plan.paths = found.seen /\ ~found.stored

(* The records of skills.sh and of the backup.                             *)
Records ==
  /\ pc # "end" => outcome = "none" /\ foreign.entry = Doctor!Recorded
  /\ pc \in {"copy"} \cup Backed => receipt
  /\ pc \in Backed /\ Doctor!Recorded => copied # None /\ copied.entry

(* Where each copy is, and what there is at every other path.              *)
Copies ==
  /\ \A p \in Paths \ found.copies : ~Doctor!Original(here[p]) /\ saved[p] = "none"
  /\ pc \in Before => \A p \in found.copies : Doctor!Original(here[p]) /\ saved[p] = "none"
  /\ pc = "move" => \A p \in found.copies :
       IF p < at THEN Doctor!Original(saved[p]) /\ ~Doctor!Original(here[p])
       ELSE Doctor!Original(here[p]) /\ saved[p] = "none"
  /\ pc \in Away => \A p \in found.copies : Doctor!Original(saved[p]) /\ ~Doctor!Original(here[p])
  /\ pc = "undo" => \A p \in found.copies :
       IF p <= at THEN Doctor!Original(saved[p])
       ELSE (Doctor!Original(here[p]) \/ p \in taken) /\ saved[p] = "none"

(* The transaction of a failed installation, and what its recovery takes.  *)
Unfinished ==
  /\ journal \/ taken # {} =>
       pc \in {"undo", "end"} /\ action = "migrate" /\ ~store /\ outcome \in {"none", "failed", "recover", "killed"}
  /\ journal => plan.paths \subseteq Paths

(* Whether the Skill is in skilld's store.                                 *)
Stored ==
  /\ pc \in Before => store = found.stored
  /\ pc \in {"move", "install", "undo"} => ~store
  /\ pc \in {"install", "verify", "undo install"} => action = "migrate"
  /\ pc \in {"verify", "undo install"} => store
  /\ pc \in {"check lock", "write lock"} => store = (action = "migrate")

DoctorInv ==
  /\ DoctorTypes /\ Reviewed /\ Records /\ Copies /\ Unfinished /\ Stored
  /\ pc = "end" => Doctor!NothingIsLost /\ Doctor!DoctorAnswers

(* The paths are numbered, and a case knows which of them hold a copy.     *)
LEMMA DoctorPaths == Doctor!Cardinality(Paths) \in Nat /\ Paths = 1..Doctor!Cardinality(Paths)
BY DoctorAssumption DEF Doctor!DoctorAssumption

(* The copies of a case are at its paths.                                  *)
LEMMA DoctorCase ==
  ASSUME found \in Cases
  PROVE  found.seen \subseteq found.copies /\ found.copies \subseteq Paths /\ found.stored \in BOOLEAN
BY DoctorAssumption DEF Doctor!DoctorAssumption

(* Nothing has been touched when the action is chosen.                     *)
LEMMA DoctorInit == Doctor!Init => DoctorInv
<1> SUFFICES ASSUME Doctor!Init PROVE DoctorInv  OBVIOUS
<1>1. found \in Cases  BY DEF Doctor!Init
<1>2. Doctor!Cardinality(Paths) \in Nat /\ DoctorChanges \in Nat
  BY DoctorPaths, DoctorAssumption DEF Doctor!DoctorAssumption
<1>3. DoctorTypes
  <2>1. here \in [Paths -> Doctor!Contents] /\ saved \in [Paths -> Doctor!Contents]
    BY DEF Doctor!Init, Doctor!Contents
  <2>2. foreign \in [entry : BOOLEAN, rev : Nat]
    <3>1. (found.owner = "skills.sh") \in BOOLEAN  OBVIOUS
    <3> QED  BY <3>1, Zenon DEF Doctor!Init
  <2>3. receipt \in BOOLEAN /\ store \in BOOLEAN
    BY <1>1, DoctorCase DEF Doctor!Init
  <2>4. at \in 0..Doctor!Cardinality(Paths) + 1 /\ changes \in 0..DoctorChanges
    BY <1>2 DEF Doctor!Init
  <2>5. pc \in Before  BY DEF Doctor!Init, Before
  <2> QED  BY <1>1, <2>1, <2>2, <2>3, <2>4, <2>5 DEF Doctor!Init, DoctorTypes
<1>4. Reviewed /\ Records /\ Copies /\ Unfinished /\ Stored
  BY <1>1, DoctorCase
  DEF Doctor!Init, Reviewed, Records, Copies, Unfinished, Stored, Before, Away, Backed, Doctor!Recorded, Doctor!Original
<1> QED  BY <1>3, <1>4 DEF Doctor!Init, DoctorInv

(* The steps before anything is moved: they touch no copy and no record,   *)
(* and the answers that they give are true of that.                        *)
LEMMA DoctorPrepares ==
  ASSUME DoctorInv,
         \/ Doctor!Plan \/ Doctor!Decline \/ Doctor!Confirm \/ Doctor!CheckLinks \/ Doctor!CheckFiles
         \/ Doctor!MakeBackup \/ Doctor!WriteReceipt \/ Doctor!CopyLock
  PROVE  DoctorInv'
<1> USE DEF Doctor!Static, Doctor!disk, Doctor!transaction, Doctor!End, Doctor!Goto
<1>0. DoctorTypes /\ Reviewed /\ Records /\ Copies /\ Unfinished /\ Stored  BY DEF DoctorInv
<1>1. /\ found' = found /\ action' = action /\ here' = here /\ saved' = saved /\ store' = store
      /\ foreign' = foreign /\ changes' = changes /\ journal' = journal /\ taken' = taken
  BY DEF Doctor!Plan, Doctor!Decline, Doctor!Confirm, Doctor!CheckLinks, Doctor!CheckFiles, Doctor!CheckTarget,
         Doctor!MakeBackup, Doctor!WriteReceipt, Doctor!CopyLock
<1>2. /\ pc \in Before
      /\ \/ pc' \in Before \cup {"move"} /\ outcome' = outcome
         \/ pc' = "end" /\ outcome' \in {"refused", "declined", "changed", "failed"}
  BY DEF Doctor!Plan, Doctor!Decline, Doctor!Confirm, Doctor!CheckLinks, Doctor!CheckFiles, Doctor!CheckTarget,
         Doctor!MakeBackup, Doctor!WriteReceipt, Doctor!CopyLock, Before
<1>3. DoctorTypes'
  <2>1. at' \in 0..Doctor!Cardinality(Paths) + 1
    BY <1>0, DoctorPaths
    DEF DoctorTypes, Doctor!Plan, Doctor!Decline, Doctor!Confirm, Doctor!CheckLinks, Doctor!CheckFiles,
        Doctor!CheckTarget, Doctor!MakeBackup, Doctor!WriteReceipt, Doctor!CopyLock
  <2>2. receipt' \in BOOLEAN
    BY <1>0
    DEF DoctorTypes, Doctor!Plan, Doctor!Decline, Doctor!Confirm, Doctor!CheckLinks, Doctor!CheckFiles,
        Doctor!CheckTarget, Doctor!MakeBackup, Doctor!WriteReceipt, Doctor!CopyLock
  <2>3. pc' \in Before \cup Backed \cup {"end"}  BY <1>2 DEF Backed
  <2>4. outcome' \in {"none", "refused", "changed", "failed", "recover", "applied", "declined", "killed"}
    BY <1>0, <1>2 DEF DoctorTypes
  <2> QED  BY <1>0, <1>1, <2>1, <2>2, <2>3, <2>4 DEF DoctorTypes
<1>4. Reviewed'
  <2>1. CASE Doctor!Plan
    <3>1. CASE pc' = "review"
      <4>1. plan'.paths = found.seen /\ ~Doctor!Owned /\ ~Doctor!Unseen
        BY <2>1, <3>1 DEF Doctor!Plan
      <4>2. ~found.stored /\ \A p \in Paths \ found.seen : here[p] = "none"
        BY <4>1 DEF Doctor!Owned, Doctor!Unseen
      <4>3. pc = "plan" /\ found \in Cases  BY <1>0, <2>1 DEF Doctor!Plan, DoctorTypes
      <4>4. \A p \in found.copies : here[p] # "none"
        BY <1>0, <4>3 DEF Copies, Before, Doctor!Original
      <4>5. found.copies = found.seen  BY <4>2, <4>3, <4>4, DoctorCase
      <4> QED  BY <1>1, <4>1, <4>2, <4>5 DEF Reviewed
    <3>2. CASE pc' = "end"  BY <3>2 DEF Reviewed
    <3> QED  BY <2>1, <3>1, <3>2 DEF Doctor!Plan
  <2>2. CASE ~Doctor!Plan
    <3>1. plan' = plan /\ pc # "plan"
      BY <2>2 DEF Doctor!Decline, Doctor!Confirm, Doctor!CheckLinks, Doctor!CheckFiles, Doctor!CheckTarget,
             Doctor!MakeBackup, Doctor!WriteReceipt, Doctor!CopyLock
    <3> QED  BY <1>0, <1>1, <1>2, <3>1 DEF Reviewed, Before
  <2> QED  BY <2>1, <2>2
<1>5. Records'
  <2>1. Doctor!Recorded' = Doctor!Recorded  BY <1>1 DEF Doctor!Recorded
  <2>2. pc' # "end" => outcome' = "none" /\ foreign'.entry = Doctor!Recorded'
    BY <1>0, <1>1, <1>2, <2>1 DEF Records, Before
  <2>3. pc' \in {"copy"} \cup Backed => receipt'
    BY <1>0, <1>2
    DEF DoctorTypes, Records, Before, Away, Backed, Doctor!Plan, Doctor!Decline, Doctor!Confirm,
        Doctor!CheckLinks, Doctor!CheckFiles, Doctor!CheckTarget, Doctor!MakeBackup, Doctor!WriteReceipt,
        Doctor!CopyLock
  <2>4. pc' = "move" => Doctor!CopyLock
    BY DEF Doctor!Plan, Doctor!Decline, Doctor!Confirm, Doctor!CheckLinks, Doctor!CheckFiles,
           Doctor!CheckTarget, Doctor!MakeBackup, Doctor!WriteReceipt, Doctor!CopyLock
  <2>5. ASSUME pc' = "move", Doctor!Recorded PROVE copied' # None /\ copied'.entry
    <3>1. copied' = foreign  BY <2>4, <2>5 DEF Doctor!CopyLock
    <3>2. foreign \in [entry : BOOLEAN, rev : Nat]  BY <1>0 DEF DoctorTypes
    <3>3. foreign # None  BY <3>2, DoctorAssumption DEF Doctor!DoctorAssumption
    <3>4. foreign.entry
      BY <1>0, <2>5, <2>4, Zenon DEF Records, Doctor!CopyLock
    <3> QED  BY <3>1, <3>3, <3>4
  <2> QED  BY <1>2, <2>1, <2>2, <2>3, <2>5 DEF Records, Before, Away, Backed
<1>6. Copies'
  <2>1. pc' = "move" => at' = 1
    BY DEF Doctor!Plan, Doctor!Decline, Doctor!Confirm, Doctor!CheckLinks, Doctor!CheckFiles,
           Doctor!CheckTarget, Doctor!MakeBackup, Doctor!WriteReceipt, Doctor!CopyLock
  <2>2. \A p \in found.copies : p \in Paths /\ ~(p < 1)
    BY <1>0, DoctorCase, DoctorPaths DEF DoctorTypes
  <2>3. pc' \notin Away /\ pc' # "undo"  BY <1>2 DEF Before, Away
  <2> QED  BY <1>0, <1>1, <1>2, <2>1, <2>2, <2>3 DEF Copies, Before
<1>7. Stored'
  <2>1. pc' = "move" => ~store
    BY <1>0, <1>2 DEF Doctor!Plan, Doctor!Decline, Doctor!Confirm, Doctor!CheckLinks, Doctor!CheckFiles,
           Doctor!CheckTarget, Doctor!MakeBackup, Doctor!WriteReceipt, Doctor!CopyLock, Stored, Reviewed, Before
  <2> QED  BY <1>0, <1>1, <1>2, <2>1 DEF Stored, Before
<1>9. ~journal /\ taken = {} /\ Unfinished'  BY <1>0, <1>1, <1>2 DEF Unfinished, Before
<1>8. pc' = "end" => (Doctor!NothingIsLost /\ Doctor!DoctorAnswers)'
  <2> SUFFICES ASSUME pc' = "end" PROVE (Doctor!NothingIsLost /\ Doctor!DoctorAnswers)'  OBVIOUS
  <2>1. outcome' \in {"refused", "declined", "changed", "failed"}  BY <1>2 DEF Before
  <2>2. /\ \A p \in found.copies : Doctor!Original(here[p])
        /\ store = found.stored /\ foreign.entry = Doctor!Recorded
    BY <1>0, <1>2, Zenon DEF Copies, Stored, Records, Before
  <2>3. Doctor!NothingIsLost'
    BY <1>1, <1>9, <2>2, Zenon DEF Doctor!NothingIsLost, Doctor!Recorded, Doctor!Original
  <2>4. Doctor!DoctorAnswers'
    BY <1>1, <2>1, <2>2 DEF Doctor!DoctorAnswers, Doctor!Recorded, Doctor!Original
  <2> QED  BY <2>3, <2>4
<1> QED  BY <1>3, <1>4, <1>5, <1>6, <1>7, <1>8, <1>9 DEF DoctorInv

(* One copy after the other goes into the backup; a failure turns back.    *)
LEMMA DoctorMoves ==
  ASSUME DoctorInv, Doctor!Move
  PROVE  DoctorInv'
<1> USE DEF Doctor!Static, Doctor!Goto, Doctor!transaction
<1> DEFINE n == Doctor!Cardinality(Paths)
<1>0. DoctorTypes /\ Reviewed /\ Records /\ Copies /\ Unfinished /\ Stored  BY DEF DoctorInv
<1>1. /\ found' = found /\ action' = action /\ store' = store /\ foreign' = foreign /\ changes' = changes
      /\ plan' = plan /\ copied' = copied /\ receipt' = receipt /\ outcome' = outcome /\ pc = "move"
      /\ journal' = journal /\ taken' = taken
  BY DEF Doctor!Move
<1>2. n \in Nat /\ Paths = 1..n /\ at \in 0..n + 1  BY <1>0, DoctorPaths DEF DoctorTypes
<1>3. found.copies = plan.paths /\ found.copies \subseteq Paths /\ ~found.stored /\ ~store
  BY <1>0, <1>1, DoctorCase DEF DoctorTypes, Reviewed, Stored
<1>4. pc' \in {"move", "undo", "install", "check lock"}  BY DEF Doctor!Move
<1>5. Reviewed' /\ Records' /\ Unfinished'
  BY <1>0, <1>1, <1>4 DEF Reviewed, Records, Unfinished, Doctor!Recorded, Away, Backed
<1>6. CASE at = n + 1
  <2>1. /\ \/ pc' = "install" /\ action = "migrate"
           \/ pc' = "check lock" /\ action # "migrate"
        /\ at' = 1 /\ here' = here /\ saved' = saved
    BY <1>2, <1>6 DEF Doctor!Move
  <2>2. DoctorTypes'
    <3>1. n \in Nat  BY DoctorPaths
    <3>2. \A k \in Nat : 1 \in 0..k + 1  OBVIOUS
    <3>3. at' \in 0..n + 1  BY <2>1, <3>1, <3>2, Zenon
    <3> QED  BY <1>0, <1>1, <2>1, <3>3 DEF DoctorTypes, Backed, Away
  <2>3. Copies'
    <3>1. \A p \in found.copies : p < at  BY <1>2, <1>3, <1>6
    <3> QED  BY <1>0, <1>1, <2>1, <3>1 DEF Copies, Away, Before
  <2>4. Stored'
    <3>1. store' = FALSE  BY <1>1, <1>3
    <3> QED  BY <1>1, <2>1, <3>1 DEF Stored, Before
  <2> QED  BY <1>1, <1>4, <1>5, <2>2, <2>3, <2>4 DEF DoctorInv
<1>7. CASE at # n + 1 /\ at \notin plan.paths
  <2>1. pc' = "move" /\ at' = at + 1 /\ here' = here /\ saved' = saved  BY <1>7 DEF Doctor!Move
  <2>2. at' \in 0..n + 1  BY <1>2, <1>7, <2>1
  <2>3. DoctorTypes'  BY <1>0, <1>1, <2>1, <2>2 DEF DoctorTypes, Backed
  <2>4. \A p \in found.copies : p < at' <=> p < at  BY <1>2, <1>3, <1>7, <2>1
  <2>5. Copies'  BY <1>0, <1>1, <2>1, <2>4 DEF Copies, Before, Away
  <2>6. Stored'  BY <1>1, <1>3, <2>1 DEF Stored, Before
  <2> QED  BY <1>1, <1>4, <1>5, <2>3, <2>5, <2>6 DEF DoctorInv
<1>8. CASE at \in plan.paths /\ pc' = "move"
  <2>1. /\ saved' = [saved EXCEPT ![at] = here[at]] /\ here' = [here EXCEPT ![at] = "none"] /\ at' = at + 1
        /\ at # n + 1
    BY <1>2, <1>3, <1>8 DEF Doctor!Move
  <2>2. at \in Paths /\ at \in found.copies /\ at' \in 0..n + 1  BY <1>2, <1>3, <1>8, <2>1
  <2>3. DoctorTypes'  BY <1>0, <1>1, <1>8, <2>1, <2>2 DEF DoctorTypes, Backed, Doctor!Contents
  <2>4. Doctor!Original(here[at])  BY <1>0, <1>1, <1>2, <2>2 DEF Copies
  <2>5. Copies'
    <3>1. saved'[at] = here[at] /\ here'[at] = "none"  BY <1>0, <2>1, <2>2 DEF DoctorTypes
    <3>2. \A p \in Paths \ {at} : saved'[p] = saved[p] /\ here'[p] = here[p]
      BY <1>0, <2>1 DEF DoctorTypes
    <3>3. \A p \in Paths \ {at} : p < at' <=> p < at  BY <1>2, <2>1
    <3>4. at < at'  BY <1>2, <2>1
    <3> QED  BY <1>0, <1>1, <1>3, <1>8, <2>2, <2>4, <3>1, <3>2, <3>3, <3>4
             DEF Copies, Before, Away, Doctor!Original
  <2>6. Stored'  BY <1>1, <1>3, <1>8 DEF Stored, Before
  <2> QED  BY <1>1, <1>4, <1>5, <2>3, <2>5, <2>6 DEF DoctorInv
<1>9. CASE at \in plan.paths /\ pc' = "undo"
  <2>1. saved' = saved /\ here' = here /\ at' = at - 1  BY <1>2, <1>3, <1>9 DEF Doctor!Move
  <2>2. at' \in 0..n + 1  BY <1>2, <1>3, <1>9, <2>1
  <2>3. DoctorTypes'  BY <1>0, <1>1, <1>9, <2>1, <2>2 DEF DoctorTypes, Backed
  <2>4. \A p \in found.copies : p <= at' <=> p < at  BY <1>2, <1>3, <2>1
  <2>5. Copies'  BY <1>0, <1>1, <1>9, <2>1, <2>4 DEF Copies, Before, Away
  <2>6. Stored'  BY <1>1, <1>3, <1>9 DEF Stored, Before
  <2> QED  BY <1>1, <1>4, <1>5, <2>3, <2>5, <2>6 DEF DoctorInv
<1> QED  BY <1>2, <1>3, <1>6, <1>7, <1>8, <1>9 DEF Doctor!Move

(* The Skill is installed and the record leaves the lockfile; every copy   *)
(* stays in the backup.                                                    *)
LEMMA DoctorInstalls ==
  ASSUME DoctorInv,
         Doctor!Install \/ Doctor!Verify \/ Doctor!CheckLock \/ Doctor!WriteLock \/ Doctor!UndoInstall
  PROVE  DoctorInv'
<1> USE DEF Doctor!Static, Doctor!Goto, Doctor!End, Doctor!disk, Doctor!transaction, Doctor!UndoFrom, Doctor!Placed
<1> DEFINE n == Doctor!Cardinality(Paths)
<1>0. DoctorTypes /\ Reviewed /\ Records /\ Copies /\ Unfinished /\ Stored  BY DEF DoctorInv
<1>1. /\ found' = found /\ action' = action /\ saved' = saved /\ changes' = changes
      /\ plan' = plan /\ copied' = copied /\ receipt' = receipt /\ taken' = taken
  BY DEF Doctor!Install, Doctor!Verify, Doctor!CheckLock, Doctor!WriteLock, Doctor!UndoInstall
<1>2. n \in Nat /\ Paths = 1..n  BY DoctorPaths
<1>3. pc \in Away /\ found.copies = plan.paths /\ found.copies \subseteq Paths /\ ~found.stored
  BY <1>0, DoctorCase
  DEF DoctorTypes, Reviewed, Doctor!Install, Doctor!Verify, Doctor!CheckLock, Doctor!WriteLock,
      Doctor!UndoInstall, Away
<1>4. /\ \/ pc' \in Away /\ at' = 1 /\ outcome' = outcome
         \/ pc' = "undo" /\ at' = n /\ outcome' = outcome
         \/ pc' = "end" /\ at' = at /\ outcome' \in {"applied", "recover"}
      /\ \/ foreign' = foreign
         \/ pc' = "end" /\ foreign' = [entry |-> FALSE, rev |-> 0]
  BY DEF Doctor!Install, Doctor!Verify, Doctor!CheckLock, Doctor!WriteLock, Doctor!UndoInstall, Away
<1>5. \A p \in Paths : ~Doctor!Original(here[p])  BY <1>0, <1>3 DEF Copies
<1>6. /\ here' \in [Paths -> Doctor!Contents] /\ store' \in BOOLEAN
      /\ \A p \in Paths : ~Doctor!Original(here'[p])
  <2>1. \/ here' = here
        \/ \E S, c : c \in {"ours", "none"} /\ here' = [p \in Paths |-> IF p \in S THEN c ELSE here[p]]
    BY DEF Doctor!Install, Doctor!Verify, Doctor!CheckLock, Doctor!WriteLock, Doctor!UndoInstall
  <2>2. store' \in BOOLEAN
    BY <1>0
    DEF DoctorTypes, Doctor!Install, Doctor!Verify, Doctor!CheckLock, Doctor!WriteLock, Doctor!UndoInstall
  <2> QED  BY <1>0, <1>5, <2>1, <2>2 DEF DoctorTypes, Doctor!Contents, Doctor!Original
<1>13. taken = {} /\ journal' \in BOOLEAN /\ Unfinished'
  <2>1. ~journal /\ taken = {}  BY <1>0, <1>3 DEF Unfinished, Away
  <2>2. CASE Doctor!Install
    <3>1. action = "migrate" /\ ~store  BY <1>0, <2>2 DEF Stored, Doctor!Install
    <3>2. outcome = "none" /\ plan.paths \subseteq Paths  BY <1>0, <1>3 DEF Records, Away
    <3>3. journal' = journal \/ (journal' = TRUE /\ pc' = "undo" /\ store' = store /\ outcome' = outcome)
      BY <2>2 DEF Doctor!Install
    <3>4. journal' \in BOOLEAN /\ taken' = {}
      <4>1. journal \in BOOLEAN  BY <1>0 DEF DoctorTypes
      <4> QED  BY <1>1, <2>1, <3>3, <4>1
    <3> QED  BY <1>1, <2>1, <3>1, <3>2, <3>3, <3>4 DEF Unfinished
  <2>3. CASE ~Doctor!Install
    <3>1. journal' = journal
      BY <2>3 DEF Doctor!Verify, Doctor!CheckLock, Doctor!WriteLock, Doctor!UndoInstall
    <3> QED  BY <1>0, <1>1, <2>1, <3>1 DEF Unfinished, DoctorTypes
  <2> QED  BY <2>1, <2>2, <2>3
<1>7. DoctorTypes'
  <2>1. at' \in 0..n + 1  BY <1>0, <1>2, <1>4 DEF DoctorTypes
  <2>2. foreign' \in [entry : BOOLEAN, rev : Nat]
    <3>1. [entry |-> FALSE, rev |-> 0] \in [entry : BOOLEAN, rev : Nat]  OBVIOUS
    <3> QED  BY <1>0, <1>4, <3>1, Zenon DEF DoctorTypes
  <2>3. pc' \in Before \cup Backed \cup {"end"}  BY <1>4 DEF Backed
  <2>4. outcome' \in {"none", "refused", "changed", "failed", "recover", "applied", "declined", "killed"}
    BY <1>0, <1>4 DEF DoctorTypes
  <2> QED  BY <1>0, <1>1, <1>6, <1>13, <2>1, <2>2, <2>3, <2>4 DEF DoctorTypes
<1>8. Reviewed'  BY <1>0, <1>1, <1>3 DEF Reviewed, Away
<1>9. Records'
  <2>1. Doctor!Recorded' = Doctor!Recorded  BY <1>1 DEF Doctor!Recorded
  <2> QED  BY <1>0, <1>1, <1>3, <1>4, <2>1 DEF Records, Away, Backed
<1>10. Copies'
  <2>1. ASSUME pc' = "undo", NEW p \in found.copies PROVE p <= at'
    <3>1. at' = n  BY <1>4, <2>1 DEF Away
    <3>2. p \in 1..n  BY <1>2, <1>3, <2>1
    <3> QED  BY <3>1, <3>2
  <2> QED  BY <1>0, <1>1, <1>3, <1>4, <1>6, <2>1 DEF Copies, Away, Before
<1>11. Stored'
  <2>1. CASE Doctor!Install \/ Doctor!Verify
    <3>1. action = "migrate"  BY <1>0, <2>1 DEF Stored, Doctor!Install, Doctor!Verify
    <3>2. \/ pc' = "undo" /\ store' = FALSE
          \/ pc' \in {"verify", "undo install", "check lock"} /\ store' = TRUE
      BY <1>0, <2>1 DEF DoctorTypes, Stored, Doctor!Install, Doctor!Verify
    <3> QED  BY <1>1, <3>1, <3>2 DEF Stored, Before
  <2>2. CASE Doctor!CheckLock \/ Doctor!WriteLock
    BY <1>0, <1>1, <2>2 DEF Stored, Doctor!CheckLock, Doctor!WriteLock, Before
  <2>3. CASE Doctor!UndoInstall
    BY <1>0, <1>1, <2>3 DEF Stored, Doctor!UndoInstall, Before
  <2> QED  BY <2>1, <2>2, <2>3
<1>12. ASSUME pc' = "end" PROVE (Doctor!NothingIsLost /\ Doctor!DoctorAnswers)'
  <2>1. Doctor!Recorded' = Doctor!Recorded  BY <1>1 DEF Doctor!Recorded
  <2>2. /\ \A p \in found.copies : Doctor!Original(saved[p]) /\ receipt
        /\ Doctor!Recorded => copied # None /\ copied.entry
    BY <1>0, <1>3, Zenon DEF Copies, Records, Away, Backed
  <2>3. Doctor!NothingIsLost'
    BY <1>1, <1>13, <2>1, <2>2 DEF Doctor!NothingIsLost, Doctor!Original
  <2>4. outcome' = "applied" => ~foreign'.entry /\ store' = (action = "migrate")
    <3> SUFFICES ASSUME outcome' = "applied" PROVE ~foreign'.entry /\ store' = (action = "migrate")
      OBVIOUS
    <3>1. CASE Doctor!CheckLock
      <4>1. ~Doctor!Recorded /\ foreign' = foreign /\ store' = store /\ pc = "check lock"
        BY <1>0, <1>12, <3>1 DEF Doctor!CheckLock, Records
      <4>2. ~foreign.entry  BY <1>0, <4>1, Zenon DEF Records
      <4> QED  BY <1>0, <4>1, <4>2, Zenon DEF Stored
    <3>2. CASE Doctor!WriteLock
      <4>1. foreign' = [entry |-> FALSE, rev |-> 0] /\ store' = store /\ pc = "write lock"
        BY <1>12, <3>2 DEF Doctor!WriteLock
      <4> QED  BY <1>0, <4>1, Zenon DEF Stored
    <3> QED  BY <1>12, <3>1, <3>2 DEF Doctor!Install, Doctor!Verify, Doctor!UndoInstall
  <2>5. Doctor!DoctorAnswers'
    BY <1>1, <1>4, <1>6, <1>12, <2>2, <2>4 DEF Doctor!DoctorAnswers, Doctor!Original, Away
  <2> QED  BY <2>3, <2>5
<1> QED  BY <1>7, <1>8, <1>9, <1>10, <1>11, <1>12, <1>13 DEF DoctorInv

(* What was moved goes back, the last copy first.                          *)
LEMMA DoctorUndoes ==
  ASSUME DoctorInv, Doctor!Undo
  PROVE  DoctorInv'
<1> USE DEF Doctor!Static, Doctor!Goto, Doctor!End, Doctor!transaction
<1> DEFINE n == Doctor!Cardinality(Paths)
<1>0. DoctorTypes /\ Reviewed /\ Records /\ Copies /\ Unfinished /\ Stored  BY DEF DoctorInv
<1>1. /\ found' = found /\ action' = action /\ store' = store /\ foreign' = foreign /\ changes' = changes
      /\ plan' = plan /\ copied' = copied /\ receipt' = receipt /\ pc = "undo"
      /\ journal' = journal /\ taken' = taken
  BY DEF Doctor!Undo
<1>2. n \in Nat /\ at \in 0..n + 1 /\ at \in Int  BY <1>0, DoctorPaths DEF DoctorTypes
<1>3. /\ found.copies \subseteq Paths /\ ~found.stored /\ ~store /\ foreign.entry = Doctor!Recorded
      /\ \A p \in Paths : p \in Int /\ p >= 1
  BY <1>0, <1>1, DoctorCase, DoctorPaths DEF DoctorTypes, Reviewed, Stored, Records
<1>8. pc' = "end" \/ (pc' = "undo" /\ outcome' = outcome)  BY DEF Doctor!Undo
<1>9. Unfinished'
  <2>1. outcome' \in {"none", "failed", "recover"}  BY <1>0, <1>1 DEF Records, Doctor!Undo
  <2> QED  BY <1>0, <1>1, <1>8, <2>1 DEF Unfinished
<1>4. Reviewed' /\ Stored'
  BY <1>0, <1>1, <1>3, <1>8 DEF Reviewed, Stored, Before
<1>5. Records'
  <2>1. Doctor!Recorded' = Doctor!Recorded  BY <1>1 DEF Doctor!Recorded
  <2> QED  BY <1>0, <1>1, <1>8, <2>1 DEF Records, Away, Backed
<1>6. CASE pc' = "end"
  <2>1. /\ at' = at /\ here' = here /\ saved' = saved
        /\ outcome' = "recover" \/ (outcome' = "failed" /\ at = 0)
    BY <1>6 DEF Doctor!Undo
  <2>2. DoctorTypes'  BY <1>0, <1>1, <1>6, <2>1 DEF DoctorTypes
  <2>3. Copies'  BY <1>0, <1>1, <1>6, <2>1 DEF Copies, Before, Away
  <2>4. \A p \in found.copies :
          IF p <= at THEN Doctor!Original(saved[p]) ELSE Doctor!Original(here[p]) \/ p \in taken
    BY <1>0, <1>1 DEF Copies
  <2>5. receipt /\ (Doctor!Recorded => copied # None /\ copied.entry)
    BY <1>0, <1>1 DEF Records, Backed
  <2>6. Doctor!NothingIsLost'
    <3>1. taken' # {} => action' = "migrate" /\ ~store' /\ outcome' \in {"none", "failed", "recover", "killed"}
      BY <1>9 DEF Unfinished
    <3> QED  BY <1>1, <2>1, <2>4, <2>5, <3>1 DEF Doctor!NothingIsLost, Doctor!Recorded, Doctor!Original
  <2>7. Doctor!DoctorAnswers'
    <3>1. outcome' = "failed" => \A p \in found.copies : ~(p <= at)  BY <1>3, <2>1
    <3>2. outcome' = "failed" => \A p \in found.copies : Doctor!Original(here[p]) \/ p \in taken
      BY <2>4, <3>1
    <3>3. store = found.stored  BY <1>0, <1>3, DoctorCase DEF DoctorTypes
    <3> QED  BY <1>1, <1>3, <2>1, <3>2, <3>3 DEF Doctor!DoctorAnswers, Doctor!Recorded, Doctor!Original
  <2> QED  BY <1>4, <1>5, <1>9, <2>2, <2>3, <2>6, <2>7 DEF DoctorInv
<1>7. CASE pc' # "end"
  <2>1. /\ pc' = "undo" /\ at # 0 /\ at' = at - 1 /\ outcome' = outcome
        /\ \/ saved[at] = "none" /\ here' = here /\ saved' = saved
           \/ /\ here' = [here EXCEPT ![at] = saved[at]] /\ saved' = [saved EXCEPT ![at] = "none"]
              /\ saved[at] # "none"
    BY <1>7 DEF Doctor!Undo
  <2>2. at' \in 0..n + 1  BY <1>2, <2>1
  <2>3. \A p \in Paths : (p <= at' <=> p <= at /\ p # at)  BY <1>2, <1>3, <2>1
  <2>4. /\ here' \in [Paths -> Doctor!Contents] /\ saved' \in [Paths -> Doctor!Contents]
        /\ \A p \in Paths : p # at => here'[p] = here[p] /\ saved'[p] = saved[p]
        /\ at \in Paths => IF saved[at] = "none" THEN here'[at] = here[at] /\ saved'[at] = "none"
                           ELSE here'[at] = saved[at] /\ saved'[at] = "none"
    BY <1>0, <2>1 DEF DoctorTypes, Doctor!Contents
  <2>5. DoctorTypes'  BY <1>0, <1>1, <2>1, <2>2, <2>4 DEF DoctorTypes
  <2>6. Copies'
    <3>1. \A p \in Paths \ found.copies : ~Doctor!Original(here'[p]) /\ saved'[p] = "none"
      BY <1>0, <2>4 DEF Copies, Doctor!Original
    <3>2. ASSUME NEW p \in found.copies
          PROVE  IF p <= at' THEN Doctor!Original(saved'[p])
                 ELSE (Doctor!Original(here'[p]) \/ p \in taken) /\ saved'[p] = "none"
      <4>1. IF p <= at THEN Doctor!Original(saved[p])
            ELSE (Doctor!Original(here[p]) \/ p \in taken) /\ saved[p] = "none"
        BY <1>0, <1>1, <3>2 DEF Copies
      <4>2. CASE p = at
        <5>1. Doctor!Original(saved[p]) /\ ~(p <= at')  BY <1>2, <1>3, <2>3, <4>1, <4>2
        <5> QED  BY <1>3, <2>4, <4>2, <5>1 DEF Doctor!Original
      <4>3. CASE p # at
        BY <1>3, <2>3, <2>4, <4>1, <4>3
      <4> QED  BY <4>2, <4>3
    <3> QED  BY <1>1, <2>1, <3>1, <3>2 DEF Copies, Before, Away, Doctor!Original
  <2> QED  BY <1>4, <1>5, <1>7, <1>9, <2>5, <2>6 DEF DoctorInv
<1> QED  BY <1>6, <1>7

(* The process is killed, the user changes files, skills.sh its lockfile.  *)
LEMMA DoctorWorld ==
  ASSUME DoctorInv, Doctor!Recovered \/ Doctor!Killed \/ Doctor!SkillsShWrites \/ \E p \in Paths : Doctor!UserChanges(p)
  PROVE  DoctorInv'
<1>0. DoctorTypes /\ Reviewed /\ Records /\ Copies /\ Unfinished /\ Stored  BY DEF DoctorInv
<1>1. CASE Doctor!Killed
  <2>1. /\ UNCHANGED <<found, action, changes, here, saved, receipt, foreign, copied, store, plan, at>>
        /\ UNCHANGED <<journal, taken>>
        /\ pc' = "end" /\ outcome' = "killed" /\ pc \notin {"plan", "end"}
    BY <1>1 DEF Doctor!Killed, Doctor!Static, Doctor!End, Doctor!disk, Doctor!transaction
  <2>2. DoctorTypes'  BY <1>0, <2>1 DEF DoctorTypes
  <2>3. (Reviewed /\ Records /\ Copies /\ Unfinished /\ Stored)'
    BY <1>0, <2>1 DEF Reviewed, Records, Copies, Unfinished, Stored, Before, Away, Backed, Doctor!Original
  <2>4. \A p \in found.copies :
          Doctor!Original(here[p]) \/ (Doctor!Original(saved[p]) /\ pc \in Backed) \/ p \in taken
    BY <1>0, <2>1 DEF DoctorTypes, Copies, Backed, Away
  <2>5. pc \in Backed => receipt  BY <1>0 DEF Records
  <2>6. Doctor!Recorded => foreign.entry  BY <1>0, <2>1, Zenon DEF Records
  <2>7. Doctor!NothingIsLost'
    BY <1>0, <2>1, <2>4, <2>5, <2>6 DEF Doctor!NothingIsLost, Doctor!Recorded, Doctor!Original, Unfinished
  <2>8. Doctor!DoctorAnswers'  BY <2>1 DEF Doctor!DoctorAnswers
  <2> QED  BY <2>2, <2>3, <2>7, <2>8 DEF DoctorInv
<1>2. CASE Doctor!SkillsShWrites
  <2>1. /\ UNCHANGED <<found, action, here, saved, receipt, copied, store, plan, at, pc, outcome>>
        /\ UNCHANGED <<journal, taken>>
        /\ pc # "end" /\ foreign' = [foreign EXCEPT !.rev = foreign.rev + 1]
        /\ changes < DoctorChanges /\ changes' = changes + 1
    BY <1>2 DEF Doctor!SkillsShWrites, Doctor!Change, Doctor!transaction
  <2>2. foreign' \in [entry : BOOLEAN, rev : Nat] /\ foreign'.entry = foreign.entry
    BY <1>0, <2>1 DEF DoctorTypes
  <2>3. DoctorTypes'  BY <1>0, <2>1, <2>2, DoctorAssumption DEF DoctorTypes, Doctor!DoctorAssumption
  <2>4. (Reviewed /\ Copies /\ Unfinished /\ Stored)'
    BY <1>0, <2>1 DEF Reviewed, Copies, Unfinished, Stored, Doctor!Original
  <2>5. Records'  BY <1>0, <2>1, <2>2 DEF Records, Doctor!Recorded
  <2> QED  BY <2>1, <2>3, <2>4, <2>5 DEF DoctorInv
<1>3. ASSUME NEW p \in Paths, Doctor!UserChanges(p) PROVE DoctorInv'
  <2>1. /\ UNCHANGED <<found, action, saved, receipt, foreign, copied, store, plan, at, pc, outcome>>
        /\ UNCHANGED <<journal, taken>>
        /\ pc # "end" /\ changes < DoctorChanges /\ changes' = changes + 1
    BY <1>3 DEF Doctor!UserChanges, Doctor!Change, Doctor!transaction
  <2>2. /\ here' \in [Paths -> Doctor!Contents]
        /\ \A q \in Paths : Doctor!Original(here'[q]) <=> Doctor!Original(here[q])
    BY <1>0, <1>3 DEF DoctorTypes, Doctor!UserChanges, Doctor!Contents, Doctor!Original
  <2>3. DoctorTypes'  BY <1>0, <2>1, <2>2, DoctorAssumption DEF DoctorTypes, Doctor!DoctorAssumption
  <2>4. (Reviewed /\ Unfinished /\ Stored)'  BY <1>0, <2>1 DEF Reviewed, Unfinished, Stored
  <2>5. Copies'
    <3>1. found.copies \subseteq Paths  BY <1>0, DoctorCase DEF DoctorTypes
    <3>2. \A q \in Paths : Doctor!Original(saved'[q]) <=> Doctor!Original(saved[q])
      BY <2>1 DEF Doctor!Original
    <3> QED  BY <1>0, <2>1, <2>2, <3>1, <3>2 DEF Copies
  <2>6. Records'  BY <1>0, <2>1 DEF Records, Doctor!Recorded
  <2> QED  BY <2>1, <2>3, <2>4, <2>5, <2>6 DEF DoctorInv
<1>4. CASE Doctor!Recovered
  <2>1. /\ UNCHANGED <<found, action, changes, saved, receipt, foreign, copied, store, plan, at, pc, outcome>>
        /\ journal
    BY <1>4 DEF Doctor!Recovered, Doctor!Static
  <2>2. PICK gone \in SUBSET plan.paths :
          /\ here' = [p \in Paths |-> IF p \in gone THEN "none" ELSE here[p]]
          /\ journal' = (gone # plan.paths)
          /\ taken' = taken \cup {p \in gone : Doctor!Original(here[p])}
    BY <1>4 DEF Doctor!Recovered, Doctor!Placed
  <2>3. /\ pc \in {"undo", "end"} /\ action = "migrate" /\ ~store
        /\ outcome \in {"none", "failed", "recover", "killed"} /\ plan.paths \subseteq Paths
    BY <1>0, <2>1 DEF Unfinished
  <2>4. /\ here' \in [Paths -> Doctor!Contents] /\ taken' \subseteq Paths /\ journal' \in BOOLEAN
        /\ taken \subseteq taken'
        /\ \A p \in Paths : Doctor!Original(here'[p]) => Doctor!Original(here[p])
        /\ \A p \in Paths : Doctor!Original(here[p]) => Doctor!Original(here'[p]) \/ p \in taken'
    BY <1>0, <2>2, <2>3 DEF DoctorTypes, Doctor!Contents, Doctor!Original
  <2>5. DoctorTypes'  BY <1>0, <2>1, <2>4 DEF DoctorTypes
  <2>6. (Reviewed /\ Unfinished /\ Stored)'
    BY <1>0, <2>1, <2>3 DEF Reviewed, Unfinished, Stored, Before
  <2>7. Records'  BY <1>0, <2>1 DEF Records, Doctor!Recorded
  <2>8. found.copies \subseteq Paths  BY <1>0, DoctorCase DEF DoctorTypes
  <2>9. Copies'
    <3>1. pc \notin Before \cup Away \cup {"move"}  BY <2>3 DEF Before, Away
    <3>2. \A p \in Paths : Doctor!Original(saved'[p]) <=> Doctor!Original(saved[p])
      BY <2>1 DEF Doctor!Original
    <3> QED  BY <1>0, <2>1, <2>4, <2>8, <3>1, <3>2 DEF Copies
  <2>10. ASSUME pc' = "end" PROVE (Doctor!NothingIsLost /\ Doctor!DoctorAnswers)'
    <3>1. Doctor!NothingIsLost /\ Doctor!DoctorAnswers  BY <2>1, <2>10 DEF DoctorInv
    <3>2. Doctor!Recorded' = Doctor!Recorded  BY <2>1 DEF Doctor!Recorded
    <3>3. \A p \in Paths : Doctor!Original(saved'[p]) <=> Doctor!Original(saved[p])
      BY <2>1 DEF Doctor!Original
    <3>4. Doctor!NothingIsLost'
      BY <2>1, <2>3, <2>4, <2>8, <3>1, <3>2, <3>3 DEF Doctor!NothingIsLost
    <3>5. Doctor!DoctorAnswers'
      BY <2>1, <2>3, <2>4, <2>8, <3>1, <3>2 DEF Doctor!DoctorAnswers
    <3> QED  BY <3>4, <3>5
  <2> QED  BY <2>5, <2>6, <2>7, <2>9, <2>10 DEF DoctorInv
<1> QED  BY <1>1, <1>2, <1>3, <1>4

(* Every step of the doctor's action, the user's and that of skills.sh.    *)
LEMMA DoctorStep == DoctorInv /\ (Doctor!Next \/ UNCHANGED Doctor!vars) => DoctorInv'
<1> SUFFICES ASSUME DoctorInv, Doctor!Next \/ UNCHANGED Doctor!vars PROVE DoctorInv'  OBVIOUS
<1>1. CASE Doctor!Next
  BY <1>1, DoctorPrepares, DoctorMoves, DoctorInstalls, DoctorUndoes, DoctorWorld DEF Doctor!Next
<1>2. CASE UNCHANGED Doctor!vars
  <2>1. UNCHANGED <<found, action, here, saved, receipt, foreign, copied, store, journal, taken,
                  plan, at, pc, outcome, changes>>
    BY <1>2 DEF Doctor!vars, Doctor!disk, Doctor!transaction
  <2>2. DoctorTypes'  BY <2>1 DEF DoctorInv, DoctorTypes
  <2>4. (Reviewed /\ Records /\ Unfinished /\ Stored)'
    BY <2>1 DEF DoctorInv, Reviewed, Records, Unfinished, Stored, Doctor!Recorded
  <2>5. Copies'  BY <2>1 DEF DoctorInv, Copies, Doctor!Original
  <2>3. pc' = "end" => (Doctor!NothingIsLost /\ Doctor!DoctorAnswers)'
    BY <2>1 DEF DoctorInv, Doctor!NothingIsLost, Doctor!DoctorAnswers, Doctor!Recorded, Doctor!Original
  <2> QED  BY <2>2, <2>4, <2>5, <2>3 DEF DoctorInv
<1> QED  BY <1>1, <1>2

(* Wherever the action stands, no copy and no record is lost.              *)
LEMMA DoctorSafe == DoctorInv => Doctor!NothingIsLost /\ Doctor!DoctorAnswers
<1> SUFFICES ASSUME DoctorInv, pc # "end" PROVE Doctor!NothingIsLost /\ Doctor!DoctorAnswers
  BY DEF DoctorInv
<1>1. DoctorTypes /\ Records /\ Copies /\ Unfinished  BY DEF DoctorInv
<1>2. \A p \in found.copies :
        Doctor!Original(here[p]) \/ (Doctor!Original(saved[p]) /\ pc \in Backed) \/ p \in taken
  BY <1>1 DEF DoctorTypes, Copies, Backed, Away
<1>3. outcome = "none" /\ (pc \in Backed => receipt)  BY <1>1 DEF Records
<1>4. Doctor!Recorded => foreign.entry  BY <1>1, Zenon DEF Records
<1> QED  BY <1>1, <1>2, <1>3, <1>4 DEF Doctor!NothingIsLost, Doctor!DoctorAnswers, Unfinished
-----------------------------------------------------------------------------
(* The command line.  Nothing is written before the end, an answer that is *)
(* printed in JSON has a JSON form, and only run has errors that may pass. *)
LineInv ==
  /\ Line!TypeOK
  /\ pc \notin {"written", "done"} => exit = 256 /\ stdout = "none" /\ stderr = "none" /\ notices = {}
  /\ pc = "written" => notices = {} /\ stderr # "raw" /\ (stderr # "none" => exit # 0) /\ exit # 256
  /\ mode = "json" => line.json
  /\ pc = "start" => answer = Line!NoAnswer
  /\ pc \in {"begun", "parsed", "dispatch", "print"} => answer.class = "none"
  /\ pc = "error" => answer.class # "none"
  /\ answer.class = "retryable" => line.name = "run"
  /\ pc \in {"dispatch", "print"} /\ mode = "json" => Line!SupportsJson(line)
  /\ pc = "print" => answer.kind \in Line!Answers(line) /\ line.args # "badref"
  /\ pc \in {"written", "done"} => Line!ExitIsTrue /\ Line!JsonIsJson

(* What a command that supports JSON answers is never a screen.            *)
LEMMA JsonAnswers ==
  ASSUME NEW l \in Line!LinesOf(Line!Names), Line!SupportsJson(l), l.args # "badref",
         NEW kind \in Line!Answers(l)
  PROVE  kind \notin {"screen", "incomplete screen"}
<1>1. CASE l.name = "view"  BY <1>1 DEF Line!SupportsJson, Line!Answers, Line!RegistryCommands
<1>2. CASE l.name = "update"  BY <1>2 DEF Line!SupportsJson, Line!Answers, Line!RegistryCommands
<1>3. CASE l.name \in {"doctor", "sync", "search", "run"}
  BY <1>3 DEF Line!Answers
<1>4. CASE l.name \in Line!RegistryCommands
  BY <1>4 DEF Line!Answers, Line!RegistryCommands
<1> QED  BY <1>1, <1>2, <1>3, <1>4 DEF Line!SupportsJson

(* A line has been read and nothing has been written.                      *)
LEMMA LineInit == Line!Init => LineInv
BY LinesAssumption
DEF Line!Init, LineInv, Line!TypeOK, Line!NoAnswer, Line!Requested, Line!Resolved, Line!LinesAssumption,
    Line!LinesOf

(* An error that is not printed yet.                                       *)
LEMMA LineFails ==
  ASSUME LineInv, pc \in {"begun", "parsed", "dispatch"},
         NEW class \in {"usage", "operation", "retryable"}, Line!Fail(class),
         class = "retryable" => line.name = "run"
  PROVE  LineInv'
<1>1. /\ pc' = "error" /\ answer'.class = class /\ UNCHANGED <<line, mode, stdout, stderr, notices, exit>>
  BY DEF Line!Fail, Line!Ready, Line!ErrorAnswer
<1>2. Line!TypeOK'  BY <1>1 DEF LineInv, Line!TypeOK
<1> QED  BY <1>1, <1>2 DEF LineInv

(* Every step from the arguments to the exit code.                         *)
LEMMA LineStep == LineInv /\ (Line!Next \/ UNCHANGED Line!vars) => LineInv'
<1> SUFFICES ASSUME LineInv, Line!Next \/ UNCHANGED Line!vars PROVE LineInv'  OBVIOUS
<1>0. line \in Line!LinesOf(Line!Names)
  BY LinesAssumption DEF LineInv, Line!TypeOK, Line!LinesAssumption
<1>8. CASE Line!Begin
  <2>1. CASE Line!Ready("begun", Line!NoAnswer)
    BY <1>8, <2>1 DEF Line!Begin, Line!Ready, Line!NoAnswer, LineInv, Line!TypeOK
  <2>2. CASE pc' = "done" /\ exit' \in {2, 101} /\ stderr' \in {"raw", "cut"}
             /\ UNCHANGED <<line, mode, answer, stdout, notices>>
    BY <1>8, <2>2 DEF Line!Begin, LineInv, Line!TypeOK, Line!ExitIsTrue, Line!JsonIsJson, Line!NoAnswer
  <2> QED  BY <1>8, <2>1, <2>2 DEF Line!Begin
<1>9. CASE Line!Notify
  <2>1. /\ pc = "written" /\ pc' = "done" /\ UNCHANGED <<line, mode, answer, stdout, stderr>>
        /\ notices' \subseteq {"access", "upgrade", "weekly"} /\ exit' \in {exit, 101}
        /\ "access" \in notices' => exit = 0
        /\ "upgrade" \in notices' => line.terminal /\ ~line.json
        /\ "weekly" \in notices' => line.terminal
    BY <1>9 DEF Line!Notify
  <2>2. Line!TypeOK'  BY <2>1 DEF LineInv, Line!TypeOK
  <2>3. Line!ExitIsTrue'
    <3>1. Line!CodeOf(answer.kind)' = Line!CodeOf(answer.kind)  BY <2>1 DEF Line!CodeOf
    <3> QED  BY <2>1, <3>1 DEF LineInv, Line!ExitIsTrue
  <2>4. Line!JsonIsJson'
    <3>1. mode = "json" /\ stderr # "none" => "access" \notin notices' /\ "upgrade" \notin notices'
      BY <2>1 DEF LineInv
    <3> QED  BY <2>1, <3>1 DEF LineInv, Line!JsonIsJson
  <2> QED  BY <2>1, <2>2, <2>3, <2>4 DEF LineInv
<1>1. CASE Line!ShowHelp
  BY <1>1 DEF Line!ShowHelp, LineInv, Line!TypeOK, Line!ExitIsTrue, Line!JsonIsJson
<1>2. CASE Line!Parse
  <2>1. CASE Line!Fail("usage")  BY <1>2, <2>1, LineFails DEF Line!Parse
  <2>2. CASE mode' = Line!Resolved(line.json, line.plain, line.terminal) /\ pc' = "parsed"
             /\ UNCHANGED <<line, answer, stdout, stderr, notices, exit>>
    <3>1. mode' \in {"human", "plain", "json"} /\ (mode' = "json" => line.json)
      BY <2>2 DEF Line!Resolved
    <3>2. Line!TypeOK'  BY <2>2, <3>1 DEF LineInv, Line!TypeOK
    <3> QED  BY <1>2, <2>2, <3>1, <3>2 DEF Line!Parse, LineInv
  <2> QED  BY <1>2, <2>1, <2>2 DEF Line!Parse
<1>3. CASE Line!CheckOutput
  <2>1. CASE Line!Fail("usage")  BY <1>3, <2>1, LineFails DEF Line!CheckOutput
  <2>2. CASE pc' = "dispatch"
    <3>1. /\ mode = "json" => Line!SupportsJson(line)
          /\ answer' = Line!NoAnswer /\ UNCHANGED <<line, mode, stdout, stderr, notices, exit>>
      BY <1>3, <2>2 DEF Line!CheckOutput, Line!Fail, Line!Ready
    <3>2. Line!TypeOK'  BY <2>2, <3>1 DEF Line!NoAnswer, LineInv, Line!TypeOK
    <3>3. Line!SupportsJson(line)' = Line!SupportsJson(line)  BY <3>1 DEF Line!SupportsJson
    <3> QED  BY <2>2, <1>3, <3>1, <3>2, <3>3 DEF Line!CheckOutput, Line!NoAnswer, LineInv
  <2> QED  BY <1>3, <2>1, <2>2 DEF Line!CheckOutput, Line!Fail, Line!Ready
<1>4. CASE Line!Dispatch
  <2>1. UNCHANGED <<line, mode, stdout, stderr, notices, exit>>
    BY <1>4 DEF Line!Dispatch, Line!Fail, Line!Ready
  <2>2. CASE \E class \in {"usage"} \cup Line!Classes(line) : Line!Fail(class)
    <3>1. PICK class \in {"usage"} \cup Line!Classes(line) : Line!Fail(class)  BY <2>2
    <3>2. class \in {"usage", "operation", "retryable"} /\ (class = "retryable" => line.name = "run")
      BY <3>1 DEF Line!Classes
    <3> QED  BY <1>4, <3>1, <3>2, LineFails DEF Line!Dispatch
  <2>3. CASE pc' = "print"
    <3>1. /\ line.args # "badref" /\ answer'.class = "none"
          /\ answer'.kind \in Line!Answers(line)
      BY <1>4, <2>3 DEF Line!Dispatch, Line!Fail, Line!Ready
    <3>2. Line!TypeOK'  BY <2>1, <2>3, <3>1 DEF LineInv, Line!TypeOK
    <3>3. /\ Line!SupportsJson(line)' = Line!SupportsJson(line) /\ Line!Answers(line)' = Line!Answers(line)
          /\ pc = "dispatch"
      BY <1>4, <2>1 DEF Line!SupportsJson, Line!Answers, Line!Dispatch
    <3> QED  BY <2>1, <2>3, <3>1, <3>2, <3>3 DEF LineInv
  <2> QED  BY <1>4, <2>2, <2>3 DEF Line!Dispatch, Line!Fail, Line!Ready
<1>5. CASE Line!PrintAnswer
  <2>1. /\ pc = "print" /\ pc' = "written" /\ UNCHANGED <<line, mode, answer, notices>>
        /\ answer.class = "none" /\ notices = {} /\ exit = 256 /\ stdout = "none" /\ stderr = "none"
        /\ mode \in {"human", "plain", "json"} /\ (mode = "json" => line.json)
    BY <1>5 DEF Line!PrintAnswer, LineInv, Line!TypeOK
  <2>2. mode = "json" => answer.kind \notin {"screen", "incomplete screen"}
    BY <1>0, <2>1, JsonAnswers DEF LineInv
  <2>3. Line!Rendered(answer.kind) \in {"human", "plain", "json"}
        /\ (mode = "json" => Line!Rendered(answer.kind) = "json")
    BY <2>1, <2>2 DEF Line!Rendered
  <2>4. Line!CodeOf(answer.kind) \in {0, 1, 2}  BY DEF Line!CodeOf
  <2>8. /\ stdout' \in {"none", "cut", Line!Rendered(answer.kind)} /\ stderr' \in {"none", "cut", mode}
        /\ exit' \in {0, 1, 2, Line!CodeOf(answer.kind)}
        /\ exit' = 0 => stdout' = "cut" \/ Line!CodeOf(answer.kind) = 0
        /\ stdout' # "none" /\ stderr' # "none" => stdout' = "cut"
        /\ stderr' # "none" => exit' # 0
    <3>1. CASE stdout' = Line!Rendered(answer.kind) /\ exit' = Line!CodeOf(answer.kind) /\ stderr' = stderr
      BY <2>1, <3>1, Zenon
    <3>2. CASE stdout' = "cut" /\ exit' = 0 /\ stderr' = stderr
      BY <2>1, <3>2
    <3>3. CASE stdout' = "cut" /\ stderr' \in {mode, "cut"} /\ exit' = 1
      BY <2>1, <3>3
    <3>4. CASE stderr' \in {mode, "cut"} /\ stdout' = stdout /\ exit' \in {1, 2}
      BY <2>1, <3>4
    <3> QED  BY <1>5, <3>1, <3>2, <3>3, <3>4 DEF Line!PrintAnswer
  <2>5. Line!TypeOK'
    BY <2>1, <2>3, <2>4, <2>8 DEF LineInv, Line!TypeOK
  <2>6. Line!ExitIsTrue'
    <3>1. Line!CodeOf(answer.kind)' = Line!CodeOf(answer.kind)  BY <2>1 DEF Line!CodeOf
    <3>2. exit' # 75  BY <2>4, <2>8
    <3> QED  BY <2>1, <2>8, <3>1, <3>2 DEF Line!ExitIsTrue
  <2>7. Line!JsonIsJson'
    BY <2>1, <2>3, <2>8 DEF Line!JsonIsJson
  <2>9. stderr' # "raw" /\ exit' # 256  BY <2>1, <2>4, <2>8
  <2> QED  BY <2>1, <2>5, <2>6, <2>7, <2>8, <2>9 DEF LineInv
<1>6. CASE Line!PrintError
  BY <1>6 DEF Line!PrintError, Line!ExitCode, LineInv, Line!TypeOK, Line!ExitIsTrue, Line!JsonIsJson
<1>7. CASE UNCHANGED Line!vars
  <2>1. UNCHANGED <<line, mode, pc, answer, stdout, stderr, notices, exit>>  BY <1>7 DEF Line!vars
  <2>2. Line!TypeOK'  BY <2>1 DEF LineInv, Line!TypeOK
  <2>4. (pc \in {"written", "done"} => Line!ExitIsTrue /\ Line!JsonIsJson)'
    <3>1. Line!CodeOf(answer.kind)' = Line!CodeOf(answer.kind)  BY <2>1 DEF Line!CodeOf
    <3> QED  BY <2>1, <3>1 DEF LineInv, Line!ExitIsTrue, Line!JsonIsJson
  <2>3. /\ (pc \in {"dispatch", "print"} /\ mode = "json" => Line!SupportsJson(line))'
        /\ (pc = "print" => answer.kind \in Line!Answers(line) /\ line.args # "badref")'
        /\ (pc = "start" => answer = Line!NoAnswer)'
    <3>1. Line!SupportsJson(line)' = Line!SupportsJson(line) /\ Line!Answers(line)' = Line!Answers(line)
          /\ Line!NoAnswer' = Line!NoAnswer
      BY <2>1 DEF Line!SupportsJson, Line!Answers, Line!NoAnswer
    <3> QED  BY <2>1, <3>1 DEF LineInv
  <2> QED  BY <2>1, <2>2, <2>3, <2>4 DEF LineInv
<1> QED  BY <1>8, <1>9, <1>1, <1>2, <1>3, <1>4, <1>5, <1>6, <1>7 DEF Line!Next

(* Nothing that is written before the end is untrue.                       *)
LEMMA LineSafe == LineInv => Line!ExitIsTrue /\ Line!JsonIsJson
BY DEF LineInv, Line!ExitIsTrue, Line!JsonIsJson

-----------------------------------------------------------------------------
(* The session of run.  A command that skilld printed for a commit is      *)
(* answered with that commit.                                              *)
Command(c) ==
  /\ c.source \in Session!Sources /\ c.allow \subseteq Session!Behaviors
  /\ c.asked \in RunCommits \cup {0}
  /\ Session!IsRemote(c.source) /\ c.asked # 0 =>
       \/ c.revision # None /\ c.revision = c.asked
       \/ c.revision = None /\ Session!IsCommit(c.source) /\ c.source.commit = c.asked

SessionInv ==
  /\ Session!TypeOK /\ Session!GivenAsApproved
  /\ seen \in RunCommits \cup {None}
  /\ \A c \in offered : Command(c)
  /\ call # None =>
       /\ Command(call)
       /\ \A b \in call.allow : <<0, b>> \in agreed \/ <<call.asked, b>> \in agreed
       /\ got # None /\ Session!IsRemote(call.source) /\ call.asked # 0 => got = call.asked
  /\ got # None => call # None
  /\ seen # None => call # None /\ ~Session!IsRemote(call.source)

(* Whatever the user types is such a command too.                          *)
LEMMA TypedCommands == \A c \in Session!Typed : Command(c)
<1> DEFINE Bare == {Session!NewCommand(s, {}, None, {}, 0) :
                     s \in {Session!Named("branch"), Session!Named("local"), Session!Named("bundled"), Session!Named("many")}}
           OfBranch == {Session!NewCommand(Session!Named("branch"), {p}, r, {}, IF r = None THEN 0 ELSE r) :
                         p \in Session!SkillPaths, r \in RunCommits \cup {None}}
           OfCommit == {Session!NewCommand(Session!Pinned(c), {p}, 1, {}, 1) : c \in RunCommits, p \in Session!SkillPaths}
           Unfit == {Session!NewCommand(Session!Named(s), {p}, r, {}, 0) :
                      s \in {"local", "many"}, p \in Session!SkillPaths, r \in {None, 1}}
           Allowing == {Session!NewCommand(Session!Named("branch"), {}, None, {b}, 0) : b \in Session!Behaviors}
<1> USE RunAssumption DEF Session!RunAssumption
<1>1. \A n \in {"branch", "local", "bundled", "many"} : Session!Named(n) \in Session!Sources
  BY DEF Session!Sources
<1>2. \A c \in RunCommits : Session!Pinned(c) \in Session!Sources  BY DEF Session!Sources
<1>3. \A q \in Bare : Command(q)  BY <1>1 DEF Command, Session!NewCommand
<1>4. \A q \in OfBranch : Command(q)  BY <1>1 DEF Command, Session!NewCommand
<1>5. \A q \in OfCommit : Command(q)  BY <1>2 DEF Command, Session!NewCommand
<1>6. \A q \in Unfit : Command(q)  BY <1>1 DEF Command, Session!NewCommand
<1>7. \A q \in Allowing : Command(q)  BY <1>1 DEF Command, Session!NewCommand
<1>8. Session!Typed = Bare \cup OfBranch \cup OfCommit \cup Unfit \cup Allowing
  BY DEF Session!Typed
<1> HIDE DEF Bare, OfBranch, OfCommit, Unfit, Allowing
<1> QED  BY <1>3, <1>4, <1>5, <1>6, <1>7, <1>8

(* A session begins with nothing loaded.                                   *)
LEMMA SessionInit == Session!Init => SessionInv
BY RunAssumption
DEF Session!RunAssumption, Session!Init, SessionInv, Session!TypeOK, Session!GivenAsApproved

(* An answer ends the command and gives the Agent nothing.                 *)
LEMMA Answered ==
  ASSUME SessionInv, NEW what, Session!Answer(what), UNCHANGED <<head, local, offered, agreed, printed, moves>>,
         calls' \in 0..MaxCalls,
         what \in {"listed", "usage", "retry", "failed", "declined"}
  PROVE  SessionInv'
BY DEF SessionInv, Session!TypeOK, Session!Answer, Session!GivenAsApproved, Command

(* A command starts, and is one that skilld printed or the user types.     *)
LEMMA SessionStarts ==
  ASSUME SessionInv, NEW c \in offered \cup Session!Typed, Session!Start(c)
  PROVE  SessionInv'
<1>1. calls' \in 0..MaxCalls /\ UNCHANGED <<head, local, offered, agreed, printed, moves>>
  <2>1. calls < MaxCalls /\ calls' = calls + 1 /\ UNCHANGED <<head, local, offered, agreed, printed, moves>>
    BY DEF Session!Start
  <2>2. MaxCalls \in Nat /\ calls \in 0..MaxCalls
    BY RunAssumption DEF SessionInv, Session!TypeOK, Session!RunAssumption
  <2> QED  BY <2>1, <2>2
<1>2. CASE Session!Answer("usage") \/ Session!Answer("listed")
  BY <1>1, <1>2, Answered
<1>3. CASE call' = c /\ UNCHANGED <<got, seen, said>>
  <2>1. Command(c)  BY TypedCommands DEF SessionInv
  <2>2. call = None /\ got = None /\ seen = None  BY DEF SessionInv, Session!Start
  <2>3. \A b \in c.allow : <<0, b>> \in agreed \/ <<c.asked, b>> \in agreed  BY DEF Session!Start
  <2> QED
    BY <1>1, <1>3, <2>1, <2>2, <2>3 DEF SessionInv, Session!TypeOK, Session!GivenAsApproved, Command
<1> QED  BY <1>2, <1>3 DEF Session!Start

(* The Skill is prepared: remotely, at the commit that was asked for.      *)
LEMMA SessionPrepares ==
  ASSUME SessionInv, Session!Prepare \/ Session!ListLocal \/ Session!ReadLocal
  PROVE  SessionInv'
<1> USE RunAssumption DEF Session!RunAssumption
<1>1. UNCHANGED <<head, local, offered, agreed, printed, moves, calls>> /\ call # None /\ calls \in 0..MaxCalls
  BY DEF Session!Prepare, Session!ListLocal, Session!ReadLocal, Session!Session, SessionInv, Session!TypeOK
<1>2. CASE Session!Answer("retry") \/ Session!Answer("failed")
  BY <1>1, <1>2, Answered
<1>3. CASE Session!Prepare /\ ~(Session!Answer("retry") \/ Session!Answer("failed"))
  <2>1. PICK c \in RunCommits :
          /\ call.revision = None => c = (IF Session!IsCommit(call.source) THEN call.source.commit ELSE head)
          /\ call.revision # None => c = call.revision
          /\ got' = c /\ UNCHANGED <<call, seen, said>>
    BY <1>3 DEF Session!Prepare
  <2>2. call.asked # 0 /\ Session!IsRemote(call.source) => c = call.asked
    BY <1>1, <2>1 DEF SessionInv, Command
  <2> QED
    BY <1>1, <2>1, <2>2 DEF SessionInv, Session!TypeOK, Session!GivenAsApproved, Command
<1>4. CASE Session!ListLocal /\ ~Session!Answer("failed")
  <2>1. seen' \in RunCommits /\ UNCHANGED <<call, got, said>>
    BY <1>4 DEF Session!ListLocal, SessionInv, Session!TypeOK
  <2>2. call # None /\ ~Session!IsRemote(call.source)  BY <1>4 DEF Session!ListLocal
  <2> QED
    BY <1>1, <2>1, <2>2 DEF SessionInv, Session!TypeOK, Session!GivenAsApproved, Command
<1>5. CASE Session!ReadLocal /\ ~Session!Answer("failed")
  <2>1. got' \in RunCommits /\ UNCHANGED <<call, seen, said>> /\ ~Session!IsRemote(call.source)
    <3>1. seen \in RunCommits /\ local \in RunCommits /\ ~Session!IsRemote(call.source)
      BY <1>5 DEF Session!ReadLocal, SessionInv, Session!TypeOK
    <3>2. UNCHANGED <<call, seen, said>> /\ got' \in {local, seen}
      BY <1>5 DEF Session!ReadLocal
    <3> QED  BY <3>1, <3>2
  <2> QED
    BY <1>1, <2>1 DEF SessionInv, Session!TypeOK, Session!GivenAsApproved, Command
<1> QED  BY <1>2, <1>3, <1>4, <1>5

(* The supporting files that are given are of the commit that was asked    *)
(* for.                                                                    *)
LEMMA SessionPullsFiles == SessionInv /\ Session!PullFiles => SessionInv'
<1> SUFFICES ASSUME SessionInv, Session!PullFiles PROVE SessionInv'  OBVIOUS
<1>1. /\ UNCHANGED <<head, local, offered, agreed, moves, calls>> /\ got \in RunCommits /\ call # None
      /\ calls \in 0..MaxCalls
  BY DEF Session!PullFiles, Session!Session, SessionInv, Session!TypeOK
<1>2. CASE Session!Answer("failed") /\ UNCHANGED printed
  BY <1>1, <1>2, Answered
<1>3. CASE ~(Session!Answer("failed") /\ UNCHANGED printed)
  <2> DEFINE Given == {p \in call.files : Kinds[got][p] = "text"}
  <2>1. /\ call.files \subseteq DOMAIN Kinds[got] /\ Session!Answer("files")
        /\ printed' = printed \cup {[from |-> got, path |-> p, asked |-> call.asked,
                                     remote |-> Session!IsRemote(call.source)] : p \in Given}
    BY <1>3 DEF Session!PullFiles
  <2>2. \A p \in Given : p \in Session!SkillPaths /\ p # "SKILL.md" /\ Kinds[got][p] = "text"
    BY <1>1, <2>1, RunAssumption DEF Session!RunAssumption, Session!SkillPaths
  <2>3. Session!IsRemote(call.source) /\ call.asked # 0 => got = call.asked
    BY <1>1, RunAssumption DEF SessionInv, Session!RunAssumption
  <2>4. \A p \in printed' \ printed :
          /\ p.from = got /\ p.path \in Session!SkillPaths /\ p.path # "SKILL.md"
          /\ Kinds[got][p.path] = "text" /\ p.asked = call.asked
          /\ p.remote = Session!IsRemote(call.source)
    BY <2>1, <2>2
  <2>5. Session!GivenAsApproved'
    BY <1>1, <2>3, <2>4, Zenon DEF SessionInv, Session!GivenAsApproved
  <2>6. Session!TypeOK'
    BY <1>1, <2>1, <2>4 DEF SessionInv, Session!TypeOK, Session!Answer
  <2> QED  BY <1>1, <2>1, <2>5, <2>6 DEF SessionInv, Session!Answer, Command
<1> QED  BY <1>2, <1>3

(* The commands that a load prints are answered with the commit they name. *)
LEMMA PrintedCommands ==
  ASSUME NEW c, Command(c), NEW k \in RunCommits
  PROVE  /\ \A q \in Session!ReadArgv(c, k) : Command(q)
         /\ \A held \in SUBSET Session!Behaviors : Command(Session!AllowArgv(c, k, held))
<1>1. Session!Pinned(k) \in Session!Sources /\ Session!SourceArgument(c.source, k) \in Session!Sources
  BY DEF Session!Sources, Session!SourceArgument, Command
<1>2. /\ Session!IsRemote(c.source) => Session!SourceArgument(c.source, k) = Session!Pinned(k)
      /\ ~Session!IsRemote(c.source) => ~Session!IsRemote(Session!SourceArgument(c.source, k))
  BY DEF Session!SourceArgument
<1>3. Session!IsCommit(Session!Pinned(k)) /\ Session!Pinned(k).commit = k
  BY DEF Session!Pinned, Session!IsCommit
<1>4. k # None  BY RunAssumption DEF Session!RunAssumption
<1>5. \A q \in Session!ReadArgv(c, k) : Command(q)
  BY <1>1, <1>2, <1>4 DEF Session!ReadArgv, Session!NewCommand, Command
<1>6. \A held \in SUBSET Session!Behaviors : Command(Session!AllowArgv(c, k, held))
  BY <1>1, <1>2, <1>3 DEF Session!AllowArgv, Session!NewCommand, Command
<1> QED  BY <1>5, <1>6

(* The instructions are given when each of their behaviors is approved.    *)
LEMMA SessionGates == SessionInv /\ Session!Gate => SessionInv'
<1> SUFFICES ASSUME SessionInv, Session!Gate PROVE SessionInv'  OBVIOUS
<1>1. /\ UNCHANGED <<head, local, moves, calls>> /\ got \in RunCommits /\ call # None /\ calls \in 0..MaxCalls
      /\ Command(call) /\ call.allow \subseteq Session!Behaviors
      /\ Session!IsRemote(call.source) /\ call.asked # 0 => got = call.asked
  BY RunAssumption DEF Session!Gate, SessionInv, Session!TypeOK, Command, Session!RunAssumption
<1>2. Session!Held \subseteq Session!Behaviors
  BY <1>1 DEF Session!Held, Session!Behaviors
<1>3. CASE Session!Load /\ (\/ Session!Held = {} /\ UNCHANGED agreed
                            \/ agreed' = agreed \cup {<<got, b>> : b \in Session!Held})
  <2>1. agreed \subseteq agreed' /\ agreed' \subseteq (RunCommits \cup {0}) \X Session!Behaviors
        /\ \A b \in Session!Held : <<got, b>> \in agreed'
    <3>1. agreed \subseteq (RunCommits \cup {0}) \X Session!Behaviors  BY DEF SessionInv, Session!TypeOK
    <3>2. {<<got, b>> : b \in Session!Held} \subseteq (RunCommits \cup {0}) \X Session!Behaviors
      BY <1>1, <1>2
    <3> QED  BY <1>3, <3>1, <3>2
  <2>2. Session!IsRemote(call.source) => \A b \in RunAsks[got] : <<got, b>> \in agreed' \/ <<0, b>> \in agreed'
    <3>1. \A b \in call.allow : <<0, b>> \in agreed' \/ <<call.asked, b>> \in agreed'
      BY <1>1, <2>1 DEF SessionInv
    <3> QED  BY <1>1, <2>1, <3>1 DEF Session!Held
  <2> DEFINE Instructions == [from |-> got, path |-> "SKILL.md", asked |-> call.asked,
                              remote |-> Session!IsRemote(call.source)]
  <2>3. /\ printed' = printed \cup {Instructions} /\ Session!Answer("loaded")
        /\ offered' = offered \cup Session!ReadArgv(call, got)
    BY <1>3 DEF Session!Load
  <2>4. Session!GivenAsApproved'
    <3>1. \A p \in printed : (p.remote /\ p.path = "SKILL.md") =>
            \A b \in RunAsks[p.from] : <<p.from, b>> \in agreed' \/ <<0, b>> \in agreed'
      BY <2>1, Zenon DEF SessionInv, Session!GivenAsApproved
    <3>2. Instructions.from = got /\ Instructions.path = "SKILL.md" /\ Instructions.asked = call.asked
          /\ Instructions.remote = Session!IsRemote(call.source)
      BY Zenon
    <3> HIDE DEF Instructions
    <3> QED
      BY <1>1, <2>2, <2>3, <3>1, <3>2, Zenon DEF SessionInv, Session!GivenAsApproved
  <2>5. \A c \in offered' : Command(c)
    BY <1>1, <2>3, PrintedCommands DEF SessionInv
  <2>6. Session!TypeOK'
    <3>1. \A p \in printed' : p.from \in RunCommits /\ p.path \in Session!SkillPaths \cup {"SKILL.md"}
      <4>1. \A p \in printed : p.from \in RunCommits /\ p.path \in Session!SkillPaths \cup {"SKILL.md"}
        BY DEF SessionInv, Session!TypeOK
      <4> QED  BY <1>1, <2>3, <4>1
    <3>2. \A c \in offered' : c.source \in Session!Sources /\ c.allow \subseteq Session!Behaviors
      BY <2>5 DEF Command
    <3> HIDE DEF Instructions
    <3>3. said' = "loaded" /\ got' = None  BY <2>3 DEF Session!Answer
    <3> QED  BY <1>1, <2>1, <3>1, <3>2, <3>3 DEF SessionInv, Session!TypeOK
  <2> QED  BY <2>3, <2>4, <2>5, <2>6 DEF SessionInv, Session!Answer
<1>4. CASE Session!Answer("declined") /\ UNCHANGED <<printed, offered, agreed>>
  BY <1>1, <1>4, Answered
<1>5. CASE /\ Session!Answer("approve first") /\ UNCHANGED <<printed, agreed>>
           /\ offered' = offered \cup {Session!AllowArgv(call, got, Session!Held)}
  <2>1. \A c \in offered' : Command(c)
    BY <1>1, <1>2, <1>5, PrintedCommands DEF SessionInv
  <2>2. Session!TypeOK'
    BY <1>1, <1>5, <2>1 DEF SessionInv, Session!TypeOK, Session!Answer, Command
  <2>3. Session!GivenAsApproved'  BY <1>5, Zenon DEF SessionInv, Session!GivenAsApproved
  <2> QED  BY <1>5, <2>1, <2>2, <2>3 DEF SessionInv, Session!Answer
<1> QED  BY <1>3, <1>4, <1>5 DEF Session!Gate

(* The user approves what was shown, or allows a behavior for any commit.  *)
LEMMA SessionApproves == SessionInv /\ Session!Approves => SessionInv'
<1> SUFFICES ASSUME SessionInv, Session!Approves PROVE SessionInv'  OBVIOUS
<1>1. UNCHANGED <<head, local, offered, call, got, seen, printed, said, moves, calls>> /\ call = None
  BY DEF Session!Approves
<1>0. agreed \subseteq (RunCommits \cup {0}) \X Session!Behaviors  BY DEF SessionInv, Session!TypeOK
<1>2. agreed \subseteq agreed' /\ agreed' \subseteq (RunCommits \cup {0}) \X Session!Behaviors
  <2>1. CASE \E c \in offered : agreed' = agreed \cup {<<c.asked, b>> : b \in c.allow}
    <3>1. PICK c \in offered : agreed' = agreed \cup {<<c.asked, b>> : b \in c.allow}  BY <2>1
    <3>2. c.asked \in RunCommits \cup {0} /\ c.allow \subseteq Session!Behaviors  BY DEF SessionInv, Command
    <3>3. {<<c.asked, b>> : b \in c.allow} \subseteq (RunCommits \cup {0}) \X Session!Behaviors  BY <3>2
    <3> QED  BY <1>0, <3>1, <3>3
  <2>2. CASE \E b \in Session!Behaviors : agreed' = agreed \cup {<<0, b>>}
    <3>1. PICK b \in Session!Behaviors : agreed' = agreed \cup {<<0, b>>}  BY <2>2
    <3>2. <<0, b>> \in (RunCommits \cup {0}) \X Session!Behaviors  OBVIOUS
    <3> QED  BY <1>0, <3>1, <3>2
  <2> QED  BY <2>1, <2>2 DEF Session!Approves
<1>3. Session!GivenAsApproved'  BY <1>1, <1>2, Zenon DEF SessionInv, Session!GivenAsApproved
<1>4. Session!TypeOK'  BY <1>1, <1>2 DEF SessionInv, Session!TypeOK
<1> QED  BY <1>1, <1>3, <1>4 DEF SessionInv

(* Every step of a session, the Agent's, the user's and the branch's.      *)
LEMMA SessionStep == SessionInv /\ (Session!Next \/ UNCHANGED Session!vars) => SessionInv'
<1> SUFFICES ASSUME SessionInv, Session!Next \/ UNCHANGED Session!vars PROVE SessionInv'  OBVIOUS
<1>1. CASE Session!Moves
  <2>1. UNCHANGED <<offered, call, got, seen, agreed, printed, said, calls>>  BY <1>1 DEF Session!Moves
  <2>2. moves' \in 0..MaxMoves /\ {head, local}' \subseteq RunCommits
    <3>1. moves < MaxMoves /\ moves' = moves + 1
          /\ \E c \in RunCommits : (head' = c /\ UNCHANGED local) \/ (local' = c /\ UNCHANGED head)
      BY <1>1 DEF Session!Moves
    <3>2. MaxMoves \in Nat /\ moves \in 0..MaxMoves /\ {head, local} \subseteq RunCommits
      BY RunAssumption DEF SessionInv, Session!TypeOK, Session!RunAssumption
    <3> QED  BY <3>1, <3>2
  <2>3. Session!TypeOK'  BY <2>1, <2>2 DEF SessionInv, Session!TypeOK
  <2>4. Session!GivenAsApproved'  BY <2>1, Zenon DEF SessionInv, Session!GivenAsApproved
  <2> QED  BY <2>1, <2>3, <2>4 DEF SessionInv
<1>2. CASE UNCHANGED Session!vars
  <2>1. UNCHANGED <<head, local, offered, call, got, seen, agreed, printed, said, moves, calls>>
    BY <1>2 DEF Session!vars
  <2>2. Session!TypeOK'  BY <2>1 DEF SessionInv, Session!TypeOK
  <2>3. Session!GivenAsApproved'  BY <2>1, Zenon DEF SessionInv, Session!GivenAsApproved
  <2> QED  BY <2>1, <2>2, <2>3 DEF SessionInv
<1> QED
  BY <1>1, <1>2, SessionStarts, SessionPrepares, SessionPullsFiles, SessionGates, SessionApproves DEF Session!Next

-----------------------------------------------------------------------------
(* Sync.  What skilld manages is recorded, and what is not recorded is not *)
(* in the store.                                                           *)
Recorded ==
  /\ canonical \in [Skills -> {"none", "managed", "edited"}]
  /\ files \in [Skills -> [Agents -> {"none", "managed", "edited", "link", "other"}]]
  /\ DOMAIN lock = Skills
  /\ \A s \in Skills :
       IF lock[s] = None THEN canonical[s] = "none"
       ELSE /\ lock[s].source \in Sync!Sources /\ DOMAIN lock[s].targets \subseteq Agents
            /\ \A a \in DOMAIN lock[s].targets : files[s][a] \in {"none", "managed", "edited"}

(* The declarations that the lockfile keeps agree with each other.         *)
Declares(o, s) == owned[o] # None /\ s \in DOMAIN owned[o]
OwnedAgree ==
  /\ DOMAIN owned = Declarations /\ DOMAIN required = Declarations
  /\ \A s \in Skills, o, q \in Declarations : Declares(o, s) /\ Declares(q, s) =>
       /\ DOMAIN owned[o][s].targets \subseteq Agents
       /\ \A a \in DOMAIN owned[o][s].targets : owned[o][s].targets[a] \in Sync!Modes
       /\ owned[o][s].source = owned[q][s].source
       /\ \A a \in DOMAIN owned[o][s].targets \cap DOMAIN owned[q][s].targets :
            owned[o][s].targets[a] = owned[q][s].targets[a]

(* What a sync has read: the lockfile as it is, or an earlier one; and its *)
(* plan is what the manifest and the other declarations wanted.            *)
Reads(d) ==
  LET r == run[d] IN
  /\ r = [m |-> r.m, snap |-> r.snap, check |-> r.check, adopt |-> r.adopt, plan |-> r.plan]
  /\ r.m \in Manifests[d] /\ r.snap.tid \in Nat /\ r.snap.tid <= tid
  /\ r.snap.tid = tid => r.snap = Sync!Snapshot
  /\ r.plan # None =>
       /\ ~Sync!Conflicts(d, r.m, r.snap)
       /\ \E v \in Nat : r.plan = [s \in r.m.skills |-> [source |-> r.m.source, version |-> v,
                                                        targets |-> Sync!Wanted(d, r.m, s, r.snap)]]

SyncInv ==
  /\ Recorded /\ OwnedAgree
  /\ DOMAIN manifest = Declarations /\ DOMAIN run = Declarations /\ DOMAIN report = Declarations
  /\ \A d \in Declarations : manifest[d] \in Manifests[d] /\ (run[d] # None => Reads(d))
  /\ tid \in Nat /\ local \in Nat /\ changes \in 0..SyncChanges

(* The manifests are about Skills and Agents that there are.               *)
LEMMA SyncManifest ==
  ASSUME NEW d \in Declarations, NEW m \in Manifests[d]
  PROVE  m.skills \subseteq Skills /\ m.agents \subseteq Agents /\ m.source \in Sync!Sources /\ m.mode \in Sync!Modes
BY SyncAssumption DEF Sync!SyncAssumption

(* The store is empty at first and nothing is declared.                    *)
LEMMA SyncInit == Sync!Init => SyncInv
<1> SUFFICES ASSUME Sync!Init PROVE SyncInv  OBVIOUS
<1>1. files \in [Skills -> [Agents -> {"none", "managed", "edited", "link", "other"}]]
  BY DEF Sync!Init
<1>2. DOMAIN manifest = Declarations /\ \A d \in Declarations : manifest[d] \in Manifests[d]
  BY DEF Sync!Init
<1>3. Recorded  BY <1>1 DEF Sync!Init, Recorded
<1>4. OwnedAgree  BY DEF Sync!Init, OwnedAgree, Declares
<1>5. 0 \in 0..SyncChanges  BY SyncAssumption DEF Sync!SyncAssumption
<1> QED  BY <1>2, <1>3, <1>4, <1>5 DEF Sync!Init, SyncInv

(* What a plan is made of is what was read, not what has changed since.    *)
LEMMA PlansFromSnapshots ==
  ASSUME NEW d \in Declarations
  PROVE  /\ Sync!Conflicts(d, run[d].m, run[d].snap)' = Sync!Conflicts(d, run'[d].m, run'[d].snap)
         /\ \A s : Sync!Wanted(d, run[d].m, s, run[d].snap)' = Sync!Wanted(d, run'[d].m, s, run'[d].snap)
<1>1. Sync!Conflicts(d, run[d].m, run[d].snap)' = Sync!Conflicts(d, run'[d].m, run'[d].snap)
  BY DEF Sync!Conflicts, Sync!Others
<1>2. ASSUME NEW s
      PROVE  Sync!Wanted(d, run[d].m, s, run[d].snap)' = Sync!Wanted(d, run'[d].m, s, run'[d].snap)
  BY DEF Sync!Wanted, Sync!Others
<1> QED  BY <1>1, <1>2

(* The lockfile that a sync has read stays true, or is an earlier one.     *)
LEMMA ReadsStay ==
  ASSUME NEW d \in Declarations, Reads(d), run'[d] = run[d], tid \in Nat,
         \/ tid' = tid /\ UNCHANGED <<lock, owned, required>>
         \/ tid' = tid + 1
  PROVE  Reads(d)'
BY PlansFromSnapshots DEF Reads, Sync!Snapshot

(* A sync reads the manifest and the lockfile.                             *)
LEMMA SyncBegins ==
  ASSUME SyncInv, NEW d \in Declarations, NEW check \in BOOLEAN, NEW adopt \in BOOLEAN,
         Sync!Begin(d, check, adopt)
  PROVE  SyncInv'
<1>1. UNCHANGED <<manifest, local, lock, owned, required, tid, canonical, files, changes>>
  BY DEF Sync!Begin, Sync!store
<1>2. DOMAIN run' = Declarations /\ DOMAIN report' = Declarations
  BY DEF Sync!Begin, SyncInv
<1>3. ASSUME NEW o \in Declarations, run'[o] # None PROVE Reads(o)'
  <2>1. CASE o = d
    <3>1. run'[d] = [m |-> manifest[d], snap |-> Sync!Snapshot, check |-> check, adopt |-> adopt, plan |-> None]
      BY DEF Sync!Begin, SyncInv
    <3>2. Sync!Snapshot.tid = tid /\ tid \in Nat /\ manifest[d] \in Manifests[d] /\ Sync!Snapshot' = Sync!Snapshot
      BY <1>1 DEF Sync!Snapshot, SyncInv
    <3> QED  BY <1>1, <2>1, <3>1, <3>2 DEF Reads
  <2>2. CASE o # d
    <3>1. run'[o] = run[o]  BY <2>2 DEF Sync!Begin, SyncInv
    <3> QED  BY <1>1, <1>3, <3>1, ReadsStay DEF SyncInv
  <2> QED  BY <2>1, <2>2
<1> QED  BY <1>1, <1>2, <1>3 DEF SyncInv, Recorded, OwnedAgree, Declares

(* A sync ends with an answer.                                             *)
LEMMA SyncAnswers ==
  ASSUME SyncInv, NEW d \in Declarations, NEW what, Sync!Answer(d, what),
         UNCHANGED <<manifest, local, lock, owned, required, tid, canonical, files, changes>>
  PROVE  SyncInv'
<1>1. DOMAIN run' = Declarations /\ DOMAIN report' = Declarations /\ run'[d] = None
      /\ \A o \in Declarations \ {d} : run'[o] = run[o]
  BY DEF Sync!Answer, SyncInv
<1>2. \A o \in Declarations : run'[o] # None => Reads(o)'
  BY <1>1, ReadsStay DEF SyncInv
<1> QED  BY <1>1, <1>2 DEF SyncInv, Recorded, OwnedAgree, Declares

(* A sync plans what its manifest and the others want.                     *)
LEMMA SyncPlans ==
  ASSUME SyncInv, NEW d \in Declarations, Sync!Plan(d)
  PROVE  SyncInv'
<1>1. UNCHANGED <<manifest, local, lock, owned, required, tid, canonical, files, changes>>
  BY DEF Sync!Plan, Sync!store
<1>2. CASE \E what : Sync!Answer(d, what)
  BY <1>1, <1>2, SyncAnswers
<1>3. CASE ~(\E what : Sync!Answer(d, what))
  <2> DEFINE r == run[d]
             planned == [s \in r.m.skills |-> [source |-> r.m.source, version |-> Sync!Version(r.m.source),
                                              targets |-> Sync!Wanted(d, r.m, s, r.snap)]]
  <2>1. /\ run[d] # None /\ ~Sync!Conflicts(d, r.m, r.snap) /\ UNCHANGED report
        /\ run' = [run EXCEPT ![d].plan = planned]
    BY <1>3 DEF Sync!Plan
  <2>2. Reads(d) /\ DOMAIN run = Declarations  BY <2>1 DEF SyncInv
  <2> HIDE DEF planned
  <2>3. run'[d] = [m |-> r.m, snap |-> r.snap, check |-> r.check, adopt |-> r.adopt, plan |-> planned]
    BY <2>1, <2>2 DEF Reads
  <2>4. Sync!Version(r.m.source) \in Nat
    <3>1. r.m.source \in Sync!Sources  BY <2>2, SyncManifest DEF Reads
    <3> QED  BY <3>1 DEF Sync!Version, Sync!Sources, SyncInv
  <2>5. Sync!Snapshot' = Sync!Snapshot
    BY <1>1 DEF Sync!Snapshot
  <2>6. Reads(d)'
    <3>1. /\ run'[d].m = r.m /\ run'[d].snap = r.snap /\ run'[d].plan = planned
          /\ run'[d].check = r.check /\ run'[d].adopt = r.adopt
      BY <2>3
    <3>2. \E v \in Nat : planned = [s \in r.m.skills |-> [source |-> r.m.source, version |-> v,
                                                        targets |-> Sync!Wanted(d, r.m, s, r.snap)]]
      BY <2>4 DEF planned
    <3>3. r.m \in Manifests[d] /\ r.snap.tid \in Nat /\ r.snap.tid <= tid /\ (r.snap.tid = tid => r.snap = Sync!Snapshot)
      BY <2>2 DEF Reads
    <3> QED  BY <1>1, <2>1, <2>3, <2>5, <3>1, <3>2, <3>3, PlansFromSnapshots DEF Reads
  <2>7. \A o \in Declarations \ {d} : run'[o] = run[o]  BY <2>1, <2>2
  <2>8. \A o \in Declarations : run'[o] # None => Reads(o)'
    BY <1>1, <2>6, <2>7, ReadsStay DEF SyncInv
  <2>9. DOMAIN run' = Declarations  BY <2>1, <2>2
  <2> QED  BY <1>1, <2>1, <2>8, <2>9 DEF SyncInv, Recorded, OwnedAgree, Declares
<1> QED  BY <1>2, <1>3

(* What a sync that may commit has found: the lockfile is still the one it *)
(* has read, and its declaration agrees with those of the others.          *)
MayWrite(d) ==
  /\ run[d] # None /\ run[d].plan # None /\ Reads(d) /\ run[d].snap = Sync!Snapshot /\ Sync!MayCommit(d)

(* The targets that a Skill gets are those its manifest and the others'    *)
(* declarations name, in the mode each of them names.                      *)
LEMMA WantedTargets ==
  ASSUME OwnedAgree, NEW d \in Declarations, NEW m \in Manifests[d], ~Sync!Conflicts(d, m, Sync!Snapshot),
         NEW s \in m.skills
  PROVE  LET w == Sync!Wanted(d, m, s, Sync!Snapshot) IN
         /\ DOMAIN w \subseteq Agents /\ w \in [DOMAIN w -> Sync!Modes]
         /\ \A a \in m.agents : a \in DOMAIN w /\ w[a] = m.mode
         /\ \A o \in Declarations \ {d} : Declares(o, s) =>
              /\ owned[o][s].source = m.source
              /\ \A a \in DOMAIN owned[o][s].targets : a \in DOMAIN w /\ w[a] = owned[o][s].targets[a]
<1> DEFINE w == Sync!Wanted(d, m, s, Sync!Snapshot)
           others == Sync!Others(d, s, Sync!Snapshot)
<1>1. others = {owned[o][s] : o \in {o \in Declarations \ {d} : owned[o] # None /\ s \in DOMAIN owned[o]}}
  BY DEF Sync!Others, Sync!Snapshot
<1>2. m.agents \subseteq Agents /\ s \in Skills  BY SyncManifest
<1>3. \A o \in others : \E q \in Declarations \ {d} : Declares(q, s) /\ o = owned[q][s]
  BY <1>1 DEF Declares
<1>4. \A o \in Declarations \ {d} : Declares(o, s) => owned[o][s] \in others
  BY <1>1 DEF Declares
<1>5. \A o \in others : o.source = m.source /\ \A a \in DOMAIN o.targets \cap m.agents : o.targets[a] = m.mode
  BY DEF Sync!Conflicts
<1>6. \A o, q \in others :
        /\ DOMAIN o.targets \subseteq Agents
        /\ \A a \in DOMAIN o.targets : o.targets[a] \in Sync!Modes
        /\ \A a \in DOMAIN o.targets \cap DOMAIN q.targets : o.targets[a] = q.targets[a]
  BY <1>2, <1>3 DEF OwnedAgree
<1> HIDE DEF others
<1>7. w = [a \in m.agents \cup UNION {DOMAIN o.targets : o \in others} |->
             IF a \in m.agents THEN m.mode ELSE (CHOOSE o \in others : a \in DOMAIN o.targets).targets[a]]
  BY DEF Sync!Wanted, others
<1> HIDE DEF w
<1>8. DOMAIN w \subseteq Agents
  <2>1. UNION {DOMAIN o.targets : o \in others} \subseteq Agents  BY <1>6
  <2> QED  BY <1>2, <1>7, <2>1
<1>9. \A a \in m.agents : a \in DOMAIN w /\ w[a] = m.mode  BY <1>7
<1>10. ASSUME NEW o \in others, NEW a \in DOMAIN o.targets PROVE a \in DOMAIN w /\ w[a] = o.targets[a]
  <2>1. a \in UNION {DOMAIN q.targets : q \in others}  BY <1>10
  <2>2. CASE a \in m.agents  BY <1>5, <1>7, <2>2
  <2>3. CASE a \notin m.agents
    <3> DEFINE q == CHOOSE q \in others : a \in DOMAIN q.targets
    <3>1. q \in others /\ a \in DOMAIN q.targets  BY <1>10
    <3>2. w[a] = q.targets[a] /\ a \in DOMAIN w  BY <1>7, <2>1, <2>3
    <3> QED  BY <1>6, <3>1, <3>2
  <2> QED  BY <2>2, <2>3
<1>11. w \in [DOMAIN w -> Sync!Modes]
  <2>1. ASSUME NEW a \in DOMAIN w PROVE w[a] \in Sync!Modes
    <3>1. CASE a \in m.agents  BY <1>9, <3>1, SyncManifest
    <3>2. CASE a \notin m.agents
      <4>1. PICK o \in others : a \in DOMAIN o.targets  BY <1>7, <3>2
      <4> QED  BY <1>6, <1>10, <4>1
    <3> QED  BY <3>1, <3>2
  <2>2. w = [a \in DOMAIN w |-> w[a]]  BY <1>7
  <2> QED  BY <2>1, <2>2
<1> QED  BY <1>4, <1>5, <1>8, <1>9, <1>10, <1>11 DEF w

(* The record of another version.                                          *)
LEMMA Revised ==
  ASSUME NEW r, NEW x, NEW y, NEW z, NEW v, r = [source |-> x, version |-> y, targets |-> z]
  PROVE  [r EXCEPT !.version = v] = [source |-> x, version |-> v, targets |-> z]
OBVIOUS

(* What a commit writes.                                                   *)
LEMMA CommitWrites ==
  ASSUME SyncInv, NEW d \in Declarations, run[d] # None, run[d].plan # None, Sync!MayCommit(d)
  PROVE  /\ Reads(d) /\ run[d].snap = Sync!Snapshot /\ run[d].m \in Manifests[d]
         /\ ~Sync!Conflicts(d, run[d].m, Sync!Snapshot)
         /\ DOMAIN run[d].plan = run[d].m.skills
         /\ \A s \in run[d].m.skills : \A v :
              [run[d].plan[s] EXCEPT !.version = v]
                = [source |-> run[d].m.source, version |-> v, targets |-> Sync!Wanted(d, run[d].m, s, Sync!Snapshot)]
         /\ \A s \in run[d].m.skills : run[d].plan[s].targets = Sync!Wanted(d, run[d].m, s, Sync!Snapshot)
<1>1. Reads(d)  BY DEF SyncInv
<1>2. run[d].snap = Sync!Snapshot  BY <1>1 DEF Reads, Sync!MayCommit
<1>3. PICK old \in Nat : run[d].plan = [s \in run[d].m.skills |->
         [source |-> run[d].m.source, version |-> old, targets |-> Sync!Wanted(d, run[d].m, s, run[d].snap)]]
  BY <1>1 DEF Reads
<1>4. run[d].m \in Manifests[d] /\ ~Sync!Conflicts(d, run[d].m, Sync!Snapshot)
  BY <1>1, <1>2 DEF Reads
<1>5. \A s \in run[d].m.skills :
        run[d].plan[s] = [source |-> run[d].m.source, version |-> old, targets |-> Sync!Wanted(d, run[d].m, s, Sync!Snapshot)]
  BY <1>2, <1>3
<1>6. DOMAIN run[d].plan = run[d].m.skills  BY <1>3
<1>7. ASSUME NEW s \in run[d].m.skills, NEW v
      PROVE  [run[d].plan[s] EXCEPT !.version = v]
               = [source |-> run[d].m.source, version |-> v, targets |-> Sync!Wanted(d, run[d].m, s, Sync!Snapshot)]
  <2>1. run[d].plan[s] = [source |-> run[d].m.source, version |-> old, targets |-> Sync!Wanted(d, run[d].m, s, Sync!Snapshot)]
    BY <1>5
  <2> QED  BY <2>1, Revised
<1> QED  BY <1>1, <1>2, <1>4, <1>5, <1>6, <1>7

(* The step that commits.                                                  *)
Committed(d) ==
  LET m == run[d].m
      wanted(s) == Sync!Wanted(d, m, s, Sync!Snapshot)
  IN /\ \A s \in Skills :
          lock'[s] = IF s \in m.skills
                     THEN [source |-> m.source, version |-> Sync!Version(m.source), targets |-> wanted(s)]
                     ELSE lock[s]
     /\ \A s \in Skills : canonical'[s] = IF s \in m.skills THEN "managed" ELSE canonical[s]
     /\ \A s \in Skills, a \in Agents :
          files'[s][a] = IF s \notin m.skills THEN files[s][a]
                         ELSE IF a \in DOMAIN wanted(s) THEN "managed"
                         ELSE IF ~Sync!Unmanaged(s, a) THEN "none" ELSE files[s][a]
     /\ DOMAIN lock' = Skills /\ DOMAIN canonical' = Skills
     /\ DOMAIN files' = Skills /\ \A s \in Skills : files'[s] = [a \in Agents |-> files'[s][a]]
     /\ canonical' = [s \in Skills |-> canonical'[s]] /\ files' = [s \in Skills |-> files'[s]]
     /\ owned' = [owned EXCEPT ![d] = Sync!Ownership(m, m.skills)]
     /\ required' = [required EXCEPT ![d] = m.requires]
     /\ tid' = tid + 1 /\ Sync!Answer(d, "current")

(* A commit is refused, or writes what was planned.                        *)
LEMMA CommitCases ==
  ASSUME SyncInv, NEW d \in Declarations, Sync!Commit(d)
  PROVE  /\ UNCHANGED <<manifest, local, changes>>
         /\ \/ Sync!MayCommit(d) /\ run[d] # None /\ run[d].plan # None /\ Committed(d)
            \/ \E what \in {"refused", "store failed"} : Sync!Answer(d, what) /\ UNCHANGED Sync!store
<1>1. CASE ~(\E what \in {"refused", "store failed"} : Sync!Answer(d, what) /\ UNCHANGED Sync!store)
  <2> DEFINE m == run[d].m
             plan0 == run[d].plan
  <2>1. /\ run[d] # None /\ plan0 # None /\ Sync!MayCommit(d)
        /\ lock' = [s \in Skills |-> IF s \in m.skills THEN [plan0[s] EXCEPT !.version = Sync!Version(m.source)] ELSE lock[s]]
        /\ canonical' = [s \in Skills |-> IF s \in m.skills THEN "managed" ELSE canonical[s]]
        /\ files' = [s \in Skills |-> [a \in Agents |->
             IF s \notin m.skills THEN files[s][a]
             ELSE IF a \in DOMAIN plan0[s].targets THEN "managed"
             ELSE IF ~Sync!Unmanaged(s, a) THEN "none" ELSE files[s][a]]]
        /\ owned' = [owned EXCEPT ![d] = Sync!Ownership(m, m.skills)]
        /\ required' = [required EXCEPT ![d] = m.requires]
        /\ tid' = tid + 1 /\ Sync!Answer(d, "current")
        /\ UNCHANGED <<manifest, local, changes>>
    BY <1>1 DEF Sync!Commit
  <2>2. /\ \A s \in m.skills : \A v :
              [plan0[s] EXCEPT !.version = v]
                = [source |-> m.source, version |-> v, targets |-> Sync!Wanted(d, m, s, Sync!Snapshot)]
        /\ \A s \in m.skills : plan0[s].targets = Sync!Wanted(d, m, s, Sync!Snapshot)
    BY <2>1, CommitWrites
  <2> HIDE DEF m, plan0
  <2>3. \A s \in Skills :
          lock'[s] = IF s \in m.skills
                     THEN [source |-> m.source, version |-> Sync!Version(m.source),
                           targets |-> Sync!Wanted(d, m, s, Sync!Snapshot)]
                     ELSE lock[s]
    BY <2>1, <2>2
  <2>4. \A s \in Skills, a \in Agents :
          files'[s][a] = IF s \notin m.skills THEN files[s][a]
                         ELSE IF a \in DOMAIN Sync!Wanted(d, m, s, Sync!Snapshot) THEN "managed"
                         ELSE IF ~Sync!Unmanaged(s, a) THEN "none" ELSE files[s][a]
    BY <2>1, <2>2
  <2>5. /\ \A s \in Skills : canonical'[s] = IF s \in m.skills THEN "managed" ELSE canonical[s]
        /\ DOMAIN lock' = Skills /\ DOMAIN canonical' = Skills /\ DOMAIN files' = Skills
        /\ canonical' = [s \in Skills |-> canonical'[s]]
    BY <2>1
  <2>6. /\ \A s \in Skills : files'[s] = [a \in Agents |-> files'[s][a]]
        /\ files' = [s \in Skills |-> files'[s]]
    BY <2>1
  <2> QED  BY <2>1, <2>3, <2>4, <2>5, <2>6 DEF Committed, m, plan0
<1>2. CASE \E what \in {"refused", "store failed"} : Sync!Answer(d, what) /\ UNCHANGED Sync!store
  BY <1>2 DEF Sync!Commit
<1> QED  BY <1>1, <1>2

(* A lock record that is written is one.                                   *)
LEMMA NewRecords ==
  ASSUME SyncInv, NEW d \in Declarations, NEW m \in Manifests[d], ~Sync!Conflicts(d, m, Sync!Snapshot),
         NEW s \in m.skills
  PROVE  [source |-> m.source, version |-> Sync!Version(m.source), targets |-> Sync!Wanted(d, m, s, Sync!Snapshot)] # None
<1> DEFINE w == Sync!Wanted(d, m, s, Sync!Snapshot)
<1>1. m.source \in Sync!Sources /\ m.mode \in Sync!Modes /\ Sync!Version(m.source) \in Nat
  BY SyncManifest DEF Sync!Version, Sync!Sources, SyncInv
<1>2. DOMAIN w \subseteq Agents /\ w \in [DOMAIN w -> Sync!Modes]  BY WantedTargets DEF SyncInv
<1> HIDE DEF w
<1>4. [source |-> m.source, version |-> Sync!Version(m.source), targets |-> w]
        \in [source : Sync!Sources, version : Nat, targets : [DOMAIN w -> Sync!Modes]]
  BY <1>1, <1>2
<1> QED  BY <1>2, <1>4, SyncAssumption DEF Sync!SyncAssumption, w

(* A commit keeps the records and the agreement of the declarations.       *)
LEMMA SyncCommits ==
  ASSUME SyncInv, NEW d \in Declarations, Sync!Commit(d)
  PROVE  SyncInv'
<1>1. UNCHANGED <<manifest, local, changes>>  BY CommitCases
<1>2. CASE \E what \in {"refused", "store failed"} : Sync!Answer(d, what) /\ UNCHANGED Sync!store
  BY <1>1, <1>2, SyncAnswers DEF Sync!store
<1>3. CASE Sync!MayCommit(d) /\ run[d] # None /\ run[d].plan # None /\ Committed(d)
  <2> DEFINE m == run[d].m
             wanted(s) == Sync!Wanted(d, m, s, Sync!Snapshot)
             new(s) == [source |-> m.source, version |-> Sync!Version(m.source), targets |-> wanted(s)]
  <2>1. m \in Manifests[d] /\ ~Sync!Conflicts(d, m, Sync!Snapshot)
    BY <1>3, CommitWrites
  <2>2. m.skills \subseteq Skills /\ m.agents \subseteq Agents /\ m.source \in Sync!Sources /\ m.mode \in Sync!Modes
    BY <2>1, SyncManifest
  <2>3. \A s \in m.skills :
          /\ DOMAIN wanted(s) \subseteq Agents
          /\ \A o \in Declarations \ {d} : Declares(o, s) =>
               /\ owned[o][s].source = m.source
               /\ \A a \in DOMAIN owned[o][s].targets : a \in DOMAIN wanted(s) /\ wanted(s)[a] = owned[o][s].targets[a]
          /\ \A a \in m.agents : a \in DOMAIN wanted(s) /\ wanted(s)[a] = m.mode
    BY <2>1, WantedTargets DEF SyncInv
  <2>4. /\ \A s \in Skills : lock'[s] = IF s \in m.skills THEN new(s) ELSE lock[s]
        /\ \A s \in Skills : canonical'[s] = IF s \in m.skills THEN "managed" ELSE canonical[s]
        /\ \A s \in Skills, a \in Agents :
             files'[s][a] = IF s \notin m.skills THEN files[s][a]
                            ELSE IF a \in DOMAIN wanted(s) THEN "managed"
                            ELSE IF ~Sync!Unmanaged(s, a) THEN "none" ELSE files[s][a]
        /\ DOMAIN lock' = Skills
        /\ \A s \in Skills : files'[s] = [a \in Agents |-> files'[s][a]]
        /\ canonical' = [s \in Skills |-> canonical'[s]] /\ files' = [s \in Skills |-> files'[s]]
        /\ owned' = [owned EXCEPT ![d] = Sync!Ownership(m, m.skills)]
        /\ required' = [required EXCEPT ![d] = m.requires]
        /\ tid' = tid + 1 /\ Sync!Answer(d, "current")
    BY <1>3 DEF Committed
  <2>5. \A s \in m.skills : new(s).source = m.source /\ new(s).targets = wanted(s)  OBVIOUS
  <2> HIDE DEF m, wanted, new
  <2>6. Recorded'
    <3>1. canonical' \in [Skills -> {"none", "managed", "edited"}]
      BY <2>4 DEF SyncInv, Recorded
    <3>2. \A s \in Skills, a \in Agents : files'[s][a] \in {"none", "managed", "edited", "link", "other"}
      BY <2>4 DEF SyncInv, Recorded
    <3>3. files' \in [Skills -> [Agents -> {"none", "managed", "edited", "link", "other"}]]
      BY <2>4, <3>2
    <3>4. ASSUME NEW s \in Skills
          PROVE  IF lock'[s] = None THEN canonical'[s] = "none"
                 ELSE /\ lock'[s].source \in Sync!Sources /\ DOMAIN lock'[s].targets \subseteq Agents
                      /\ \A a \in DOMAIN lock'[s].targets : files'[s][a] \in {"none", "managed", "edited"}
      <4>1. CASE s \in m.skills
        <5>1. lock'[s] # None  BY <2>2, <2>3, <2>4, <4>1, NewRecords, <2>1 DEF new, wanted
        <5> QED  BY <2>2, <2>3, <2>4, <2>5, <4>1, <5>1
      <4>2. CASE s \notin m.skills
        <5>1. lock'[s] = lock[s] /\ canonical'[s] = canonical[s] /\ \A a \in Agents : files'[s][a] = files[s][a]
          BY <2>4, <4>2
        <5> QED  BY <5>1 DEF SyncInv, Recorded
      <4> QED  BY <4>1, <4>2
    <3> QED  BY <2>4, <3>1, <3>3, <3>4 DEF Recorded
  <2>7. /\ owned'[d] = [s \in m.skills |-> [source |-> m.source, targets |-> [a \in m.agents |-> m.mode]]]
        /\ \A o \in Declarations \ {d} : owned'[o] = owned[o]
        /\ DOMAIN owned' = Declarations /\ DOMAIN required' = Declarations
    BY <2>4 DEF Sync!Ownership, Sync!Own, SyncInv, OwnedAgree
  <2>8. OwnedAgree'
    <3>1. ASSUME NEW s \in m.skills
          PROVE  /\ owned'[d][s].source = m.source /\ DOMAIN owned'[d][s].targets = m.agents
                 /\ \A a \in m.agents : owned'[d][s].targets[a] = m.mode
      BY <2>7
    <3>2. ASSUME NEW s \in Skills, NEW o \in Declarations \ {d}, Declares(o, s), s \in m.skills
          PROVE  owned[o][s].source = m.source
                 /\ \A a \in DOMAIN owned[o][s].targets \cap m.agents : owned[o][s].targets[a] = m.mode
      BY <2>3, <3>2
    <3>3. DOMAIN owned'[d] = m.skills  BY <2>7
    <3>4. ASSUME NEW s \in Skills, NEW o \in Declarations, NEW q \in Declarations, Declares(o, s)', Declares(q, s)'
          PROVE  /\ DOMAIN owned'[o][s].targets \subseteq Agents
                 /\ \A a \in DOMAIN owned'[o][s].targets : owned'[o][s].targets[a] \in Sync!Modes
                 /\ owned'[o][s].source = owned'[q][s].source
                 /\ \A a \in DOMAIN owned'[o][s].targets \cap DOMAIN owned'[q][s].targets :
                      owned'[o][s].targets[a] = owned'[q][s].targets[a]
      <4>1. /\ o = d => s \in m.skills
            /\ q = d => s \in m.skills
            /\ o # d => Declares(o, s) /\ owned'[o] = owned[o]
            /\ q # d => Declares(q, s) /\ owned'[q] = owned[q]
        BY <2>7, <3>3, <3>4 DEF Declares
      <4>2. CASE o = d /\ q = d  BY <2>2, <3>1, <4>1, <4>2
      <4>3. CASE o = d /\ q # d  BY <2>2, <3>1, <3>2, <4>1, <4>3
      <4>4. CASE o # d /\ q = d
        <5>1. /\ DOMAIN owned[o][s].targets \subseteq Agents
              /\ \A a \in DOMAIN owned[o][s].targets : owned[o][s].targets[a] \in Sync!Modes
          BY <4>1, <4>4 DEF SyncInv, OwnedAgree
        <5> QED  BY <2>2, <3>1, <3>2, <4>1, <4>4, <5>1
      <4>5. CASE o # d /\ q # d  BY <4>1, <4>5 DEF SyncInv, OwnedAgree
      <4> QED  BY <4>2, <4>3, <4>4, <4>5
    <3> QED  BY <2>7, <3>4 DEF OwnedAgree
  <2>9. /\ DOMAIN run' = Declarations /\ DOMAIN report' = Declarations /\ run'[d] = None
        /\ \A o \in Declarations \ {d} : run'[o] = run[o]
    BY <2>4 DEF Sync!Answer, SyncInv
  <2>10. \A o \in Declarations : run'[o] # None => Reads(o)'
    BY <2>4, <2>9, ReadsStay DEF SyncInv
  <2>11. tid' \in Nat  BY <2>4 DEF SyncInv
  <2> QED  BY <1>1, <2>6, <2>8, <2>9, <2>10, <2>11 DEF SyncInv
<1> QED  BY <1>2, <1>3, CommitCases

(* Manifests, local sources, installs, removals and the user's edits.      *)
LEMMA SyncWorld ==
  ASSUME SyncInv,
         \/ \E d \in Declarations : Sync!ManifestChanges(d)
         \/ Sync!LocalSourceChanges
         \/ \E s \in Skills : Sync!Installs(s) \/ Sync!Removes(s) \/ Sync!UserTouches(s)
  PROVE  SyncInv'
<1>0. changes' \in 0..SyncChanges /\ UNCHANGED <<run, report>>
  <2>1. changes < SyncChanges /\ changes' = changes + 1 /\ UNCHANGED <<run, report>>
    BY DEF Sync!ManifestChanges, Sync!LocalSourceChanges, Sync!Installs, Sync!Removes, Sync!UserTouches, Sync!Change
  <2>2. SyncChanges \in Nat /\ changes \in 0..SyncChanges
    BY SyncAssumption DEF Sync!SyncAssumption, SyncInv
  <2> QED  BY <2>1, <2>2
<1>1. ASSUME Recorded', DOMAIN manifest' = Declarations, \A d \in Declarations : manifest'[d] \in Manifests[d],
             local' \in Nat, UNCHANGED <<owned, required>>, (tid' = tid /\ UNCHANGED lock) \/ tid' = tid + 1
      PROVE  SyncInv'
  <2>1. OwnedAgree'  BY <1>1 DEF SyncInv, OwnedAgree, Declares
  <2>2. \A d \in Declarations : run'[d] # None => Reads(d)'
    BY <1>0, <1>1, ReadsStay DEF SyncInv
  <2>3. tid' \in Nat  BY <1>1 DEF SyncInv
  <2> QED  BY <1>0, <1>1, <2>1, <2>2, <2>3 DEF SyncInv
<1>2. CASE \E d \in Declarations : Sync!ManifestChanges(d)
  <2>1. PICK d \in Declarations : \E m \in Manifests[d] : manifest' = [manifest EXCEPT ![d] = m]
    BY <1>2 DEF Sync!ManifestChanges
  <2>2. UNCHANGED <<local, lock, owned, required, tid, canonical, files>>
    BY <1>2 DEF Sync!ManifestChanges, Sync!store
  <2>3. Recorded'  BY <2>2 DEF SyncInv, Recorded
  <2> QED  BY <1>1, <2>1, <2>2, <2>3 DEF SyncInv
<1>3. CASE Sync!LocalSourceChanges
  <2>1. local' = local + 1 /\ UNCHANGED <<manifest, lock, owned, required, tid, canonical, files>>
    BY <1>3 DEF Sync!LocalSourceChanges, Sync!store
  <2>2. Recorded'  BY <2>1 DEF SyncInv, Recorded
  <2> QED  BY <1>1, <2>1, <2>2 DEF SyncInv
<1>4. ASSUME NEW s \in Skills, Sync!Installs(s) PROVE SyncInv'
  <2>1. UNCHANGED <<manifest, local, owned, required>> /\ tid' = tid + 1
        /\ canonical' = [canonical EXCEPT ![s] = "managed"]
    BY <1>4 DEF Sync!Installs
  <2>2. PICK a \in Agents :
          /\ lock' = [lock EXCEPT ![s] = [source |-> [kind |-> "remote", at |-> 9], version |-> 9, targets |-> [b \in {a} |-> "copy"]]]
          /\ files' = [files EXCEPT ![s] = [b \in Agents |-> IF b = a THEN "managed"
                                                            ELSE IF Sync!Unmanaged(s, b) THEN files[s][b] ELSE "none"]]
    BY <1>4 DEF Sync!Installs, SyncInv, Recorded
  <2>3. Recorded'
    <3>1. canonical' \in [Skills -> {"none", "managed", "edited"}] /\ DOMAIN lock' = Skills
      BY <2>1, <2>2 DEF SyncInv, Recorded
    <3>2. files' \in [Skills -> [Agents -> {"none", "managed", "edited", "link", "other"}]]
      BY <2>2 DEF SyncInv, Recorded
    <3>3. /\ lock'[s].source = [kind |-> "remote", at |-> 9] /\ DOMAIN lock'[s].targets = {a}
          /\ files'[s][a] = "managed"
      BY <2>2 DEF SyncInv, Recorded
    <3>4. lock'[s] # None
      <4> DEFINE new == [source |-> [kind |-> "remote", at |-> 9], version |-> 9, targets |-> [b \in {a} |-> "copy"]]
      <4>1. [kind |-> "remote", at |-> 9] \in Sync!Sources  BY DEF Sync!Sources
      <4>2. [b \in {a} |-> "copy"] \in [{a} -> Sync!Modes]  BY DEF Sync!Modes
      <4>3. new \in [source : Sync!Sources, version : Nat, targets : [{a} -> Sync!Modes]]
        BY <4>1, <4>2
      <4>4. new # None  BY <4>3, SyncAssumption DEF Sync!SyncAssumption
      <4>5. lock'[s] = new  BY <2>2 DEF SyncInv, Recorded
      <4> QED  BY <4>4, <4>5
    <3>5. [kind |-> "remote", at |-> 9] \in Sync!Sources  BY DEF Sync!Sources
    <3>6. \A t \in Skills \ {s} : lock'[t] = lock[t] /\ canonical'[t] = canonical[t] /\ files'[t] = files[t]
      BY <2>1, <2>2 DEF SyncInv, Recorded
    <3> QED  BY <3>1, <3>2, <3>3, <3>4, <3>5, <3>6 DEF SyncInv, Recorded
  <2> QED  BY <1>1, <2>1, <2>3 DEF SyncInv
<1>5. ASSUME NEW s \in Skills, Sync!Removes(s) PROVE SyncInv'
  <2>1. /\ UNCHANGED <<manifest, local, owned, required>> /\ tid' = tid + 1
        /\ canonical' = [canonical EXCEPT ![s] = "none"] /\ lock' = [lock EXCEPT ![s] = None]
        /\ files' = [files EXCEPT ![s] = [b \in Agents |-> IF Sync!Unmanaged(s, b) THEN files[s][b] ELSE "none"]]
    BY <1>5 DEF Sync!Removes, SyncInv, Recorded
  <2>2. Recorded'
    <3>1. canonical' \in [Skills -> {"none", "managed", "edited"}] /\ DOMAIN lock' = Skills
      BY <2>1 DEF SyncInv, Recorded
    <3>2. files' \in [Skills -> [Agents -> {"none", "managed", "edited", "link", "other"}]]
      BY <2>1 DEF SyncInv, Recorded
    <3>3. lock'[s] = None /\ canonical'[s] = "none"
      BY <2>1 DEF SyncInv, Recorded
    <3>4. \A t \in Skills \ {s} : lock'[t] = lock[t] /\ canonical'[t] = canonical[t] /\ files'[t] = files[t]
      BY <2>1 DEF SyncInv, Recorded
    <3> QED  BY <3>1, <3>2, <3>3, <3>4 DEF SyncInv, Recorded
  <2> QED  BY <1>1, <2>1, <2>2 DEF SyncInv
<1>6. ASSUME NEW s \in Skills, Sync!UserTouches(s) PROVE SyncInv'
  <2>1. UNCHANGED <<manifest, local, lock, owned, required, tid>> /\ lock[s] # None
    BY <1>6 DEF Sync!UserTouches
  <2>2. CASE canonical' = [canonical EXCEPT ![s] = "edited"] /\ UNCHANGED files
    <3>1. canonical' \in [Skills -> {"none", "managed", "edited"}]
          /\ \A t \in Skills \ {s} : canonical'[t] = canonical[t]
      BY <2>2 DEF SyncInv, Recorded
    <3>2. Recorded'  BY <2>1, <2>2, <3>1 DEF SyncInv, Recorded
    <3> QED  BY <1>1, <2>1, <3>2 DEF SyncInv
  <2>3. CASE ~(canonical' = [canonical EXCEPT ![s] = "edited"] /\ UNCHANGED files)
    <3>1. PICK a \in DOMAIN lock[s].targets, to \in {"none", "edited"} :
            files' = [files EXCEPT ![s][a] = to] /\ UNCHANGED canonical
      BY <1>6, <2>3 DEF Sync!UserTouches
    <3>2. a \in Agents  BY <2>1 DEF SyncInv, Recorded
    <3>3. /\ files' \in [Skills -> [Agents -> {"none", "managed", "edited", "link", "other"}]]
          /\ \A t \in Skills, b \in Agents : files'[t][b] = files[t][b] \/ files'[t][b] \in {"none", "edited"}
      BY <3>1, <3>2 DEF SyncInv, Recorded
    <3>4. Recorded'  BY <2>1, <3>1, <3>3 DEF SyncInv, Recorded
    <3> QED  BY <1>1, <2>1, <3>4 DEF SyncInv
  <2> QED  BY <2>2, <2>3
<1> QED  BY <1>2, <1>3, <1>4, <1>5, <1>6

(* Every step of the syncs and of the world around them.                   *)
LEMMA SyncStep == SyncInv /\ (Sync!Next \/ UNCHANGED Sync!vars) => SyncInv'
<1> SUFFICES ASSUME SyncInv, Sync!Next \/ UNCHANGED Sync!vars PROVE SyncInv'  OBVIOUS
<1>1. CASE UNCHANGED Sync!vars
  <2>1. UNCHANGED <<manifest, local, lock, owned, required, tid, canonical, files, run, report, changes>>
    BY <1>1 DEF Sync!vars, Sync!store
  <2>2. \A d \in Declarations : run'[d] # None => Reads(d)'
    BY <2>1, ReadsStay DEF SyncInv
  <2> QED  BY <2>1, <2>2 DEF SyncInv, Recorded, OwnedAgree, Declares
<1>2. CASE Sync!Next
  BY <1>2, SyncBegins, SyncPlans, SyncCommits, SyncWorld DEF Sync!Next
<1> QED  BY <1>1, <1>2

(* A sync that is seen to commit is one that could.                        *)
LEMMA CommitSeen ==
  ASSUME SyncInv, Sync!Next, NEW d \in Declarations, Sync!CommitsPlan(d)
  PROVE  /\ run[d] # None /\ run[d].plan # None /\ Sync!MayCommit(d) /\ Committed(d)
         /\ UNCHANGED <<manifest, local>>
<1>1. run[d] # None /\ run[d].plan # None /\ run'[d] = None /\ report'[d] = "current"
  BY DEF Sync!CommitsPlan
<1>2. ~UNCHANGED run  BY <1>1
<1>4. \A o \in Declarations, check, adopt \in BOOLEAN : ~Sync!Begin(o, check, adopt)
  BY <1>1 DEF Sync!Begin, SyncInv
<1>5. \A o \in Declarations : ~Sync!Plan(o)
  BY <1>1 DEF Sync!Plan, Sync!Answer, SyncInv
<1>6. ~Sync!LocalSourceChanges /\ \A o \in Declarations : ~Sync!ManifestChanges(o)
  BY <1>2 DEF Sync!LocalSourceChanges, Sync!ManifestChanges, Sync!Change
<1>7. \A s \in Skills : ~Sync!Installs(s) /\ ~Sync!Removes(s) /\ ~Sync!UserTouches(s)
  BY <1>2 DEF Sync!Installs, Sync!Removes, Sync!UserTouches, Sync!Change
<1>8. \A o \in Declarations \ {d} : ~Sync!Commit(o)
  BY <1>1 DEF Sync!Commit, Sync!Answer, SyncInv
<1>9. Sync!Commit(d)  BY <1>4, <1>5, <1>6, <1>7, <1>8, Zenon DEF Sync!Next
<1>10. ~(\E what \in {"refused", "store failed"} : Sync!Answer(d, what))
  BY <1>1 DEF Sync!Answer, SyncInv
<1> QED  BY <1>9, <1>10, CommitCases

(* What has been committed, in the next state.                             *)
LEMMA AfterCommit ==
  ASSUME SyncInv, SyncInv', NEW d \in Declarations, run[d] # None, run[d].plan # None, Sync!MayCommit(d), Committed(d)
  PROVE  /\ run[d].m \in Manifests[d] /\ run[d].m.skills \subseteq Skills
         /\ \A s \in run[d].m.skills :
              /\ lock'[s] # None /\ lock'[s].source = run[d].m.source
              /\ lock'[s].version = Sync!Version(run[d].m.source)
              /\ lock'[s].targets = Sync!Wanted(d, run[d].m, s, Sync!Snapshot)
              /\ canonical'[s] = "managed" /\ \A a \in DOMAIN lock'[s].targets : files'[s][a] = "managed"
         /\ owned'[d] = Sync!Ownership(run[d].m, run[d].m.skills) /\ required'[d] = run[d].m.requires
         /\ \A o \in Declarations \ {d} : owned'[o] = owned[o]
<1> DEFINE m == run[d].m
           wanted(s) == Sync!Wanted(d, m, s, Sync!Snapshot)
<1>1. m \in Manifests[d] /\ ~Sync!Conflicts(d, m, Sync!Snapshot)  BY CommitWrites
<1>2. m.skills \subseteq Skills  BY <1>1, SyncManifest
<1>3. \A s \in m.skills :
        DOMAIN wanted(s) \subseteq Agents
        /\ [source |-> m.source, version |-> Sync!Version(m.source), targets |-> wanted(s)] # None
  BY <1>1, WantedTargets, NewRecords DEF SyncInv
<1>4. /\ \A s \in Skills :
           lock'[s] = IF s \in m.skills
                      THEN [source |-> m.source, version |-> Sync!Version(m.source), targets |-> wanted(s)]
                      ELSE lock[s]
      /\ \A s \in Skills : canonical'[s] = IF s \in m.skills THEN "managed" ELSE canonical[s]
      /\ \A s \in Skills, a \in Agents :
           files'[s][a] = IF s \notin m.skills THEN files[s][a]
                          ELSE IF a \in DOMAIN wanted(s) THEN "managed"
                          ELSE IF ~Sync!Unmanaged(s, a) THEN "none" ELSE files[s][a]
      /\ owned' = [owned EXCEPT ![d] = Sync!Ownership(m, m.skills)]
      /\ required' = [required EXCEPT ![d] = m.requires]
  BY DEF Committed
<1> HIDE DEF m, wanted
<1>5. /\ owned'[d] = Sync!Ownership(m, m.skills) /\ required'[d] = m.requires
      /\ \A o \in Declarations \ {d} : owned'[o] = owned[o]
  BY <1>4 DEF SyncInv, OwnedAgree
<1>6. ASSUME NEW s \in m.skills
      PROVE  /\ lock'[s] # None /\ lock'[s].source = m.source /\ lock'[s].version = Sync!Version(m.source)
             /\ lock'[s].targets = wanted(s) /\ canonical'[s] = "managed"
             /\ \A a \in DOMAIN lock'[s].targets : files'[s][a] = "managed"
  <2>1. lock'[s] = [source |-> m.source, version |-> Sync!Version(m.source), targets |-> wanted(s)]
    BY <1>2, <1>4
  <2> QED  BY <1>2, <1>3, <1>4, <2>1
<1> QED  BY <1>1, <1>2, <1>5, <1>6 DEF m, wanted

(* A sync that commits honours the declarations of its Skills.             *)
LEMMA SyncHonours ==
  ASSUME SyncInv, SyncInv', Sync!Next
  PROVE  Sync!DeclarationsHonoured
<1> SUFFICES ASSUME NEW d \in Declarations, Sync!CommitsPlan(d), NEW s \in run[d].m.skills, NEW o \in Declarations,
                    owned'[o] # None, s \in DOMAIN owned'[o]
             PROVE  /\ lock'[s] # None /\ owned'[o][s].source = lock'[s].source
                    /\ \A a \in DOMAIN owned'[o][s].targets :
                         a \in DOMAIN lock'[s].targets /\ lock'[s].targets[a] = owned'[o][s].targets[a]
  BY DEF Sync!DeclarationsHonoured
<1> DEFINE m == run[d].m
           w == Sync!Wanted(d, m, s, Sync!Snapshot)
<1>1. run[d] # None /\ run[d].plan # None /\ Sync!MayCommit(d) /\ Committed(d)  BY CommitSeen
<1>2. m \in Manifests[d] /\ ~Sync!Conflicts(d, m, Sync!Snapshot)  BY <1>1, CommitWrites
<1>3. /\ \A a \in m.agents : a \in DOMAIN w /\ w[a] = m.mode
      /\ \A q \in Declarations \ {d} : Declares(q, s) =>
           /\ owned[q][s].source = m.source
           /\ \A a \in DOMAIN owned[q][s].targets : a \in DOMAIN w /\ w[a] = owned[q][s].targets[a]
  BY <1>2, WantedTargets DEF SyncInv
<1>4. /\ lock'[s] # None /\ lock'[s].source = m.source /\ lock'[s].targets = w
      /\ owned'[d] = Sync!Ownership(m, m.skills) /\ \A q \in Declarations \ {d} : owned'[q] = owned[q]
  BY <1>1, AfterCommit
<1>5. CASE o = d
  <2>1. owned'[d][s] = [source |-> m.source, targets |-> [a \in m.agents |-> m.mode]]
    BY <1>4 DEF Sync!Ownership, Sync!Own
  <2> HIDE DEF m, w
  <2> QED  BY <1>3, <1>4, <1>5, <2>1
<1>6. CASE o # d
  <2>1. owned'[o] = owned[o] /\ Declares(o, s)  BY <1>4, <1>6 DEF Declares
  <2> HIDE DEF m, w
  <2> QED  BY <1>3, <1>4, <1>6, <2>1
<1> QED  BY <1>5, <1>6

(* When a check of a manifest finds nothing to change.                     *)
Settled(d, m) ==
  /\ \A s \in m.skills :
       /\ lock[s] # None /\ lock[s].source = m.source /\ lock[s].version = Sync!Version(m.source)
       /\ lock[s].targets = Sync!Wanted(d, m, s, Sync!Snapshot)
       /\ canonical[s] = "managed" /\ \A a \in DOMAIN lock[s].targets : files[s][a] = "managed"
  /\ owned[d] = Sync!Ownership(m, m.skills) /\ required[d] = m.requires

(* Such a manifest is current.                                             *)
LEMMA SettledIsCurrent ==
  \A d \in Declarations : \A m \in Manifests[d] :
    Settled(d, m) => Sync!IsCurrent(d, m, Sync!Checked(m, Sync!Snapshot), Sync!Snapshot)
<1> SUFFICES ASSUME NEW d \in Declarations, NEW m \in Manifests[d], Settled(d, m)
             PROVE  Sync!IsCurrent(d, m, Sync!Checked(m, Sync!Snapshot), Sync!Snapshot)
  OBVIOUS
<1>1. Sync!Snapshot.lock = lock /\ Sync!Snapshot.owned = owned /\ Sync!Snapshot.required = required
  BY DEF Sync!Snapshot
<1>2. Sync!Checked(m, Sync!Snapshot) = m.skills
  BY <1>1 DEF Sync!Checked, Settled
<1>3. \A s \in m.skills : ~Sync!IntegrityChanged(s)
  BY DEF Sync!IntegrityChanged, Sync!Edited, Settled
<1>4. \A s \in m.skills : ~Sync!SourceChanged(m, s, Sync!Snapshot)
  BY <1>1 DEF Sync!SourceChanged, Settled
<1>5. \A s \in m.skills : ~Sync!TargetsChanged(d, m, s, Sync!Snapshot)
  BY <1>1 DEF Sync!TargetsChanged, Settled
<1>6. Sync!Changed(d, m, Sync!Snapshot) = {}
  BY <1>3, <1>4, <1>5 DEF Sync!Changed
<1>7. ~Sync!DeclarationsChanged(d, m, m.skills, Sync!Snapshot) /\ ~Sync!RequirementsChanged(d, m, Sync!Snapshot)
  BY <1>1 DEF Sync!DeclarationsChanged, Sync!RequirementsChanged, Settled
<1> QED  BY <1>2, <1>6, <1>7 DEF Sync!IsCurrent

(* A sync that commits leaves nothing to change.                           *)
LEMMA SyncIsDone ==
  ASSUME SyncInv, SyncInv', Sync!Next
  PROVE  Sync!SyncSettles
<1>0. \A d \in Declarations : \A m \in Manifests[d] :
        Settled(d, m)' => Sync!IsCurrent(d, m, Sync!Checked(m, Sync!Snapshot), Sync!Snapshot)'
  <2>1. (\A d \in Declarations : \A m \in Manifests[d] :
          Settled(d, m) => Sync!IsCurrent(d, m, Sync!Checked(m, Sync!Snapshot), Sync!Snapshot))'
    BY SettledIsCurrent, PTL
  <2> QED  BY <2>1
<1> SUFFICES ASSUME NEW d \in Declarations, Sync!CommitsPlan(d), NEW m \in Manifests[d], run[d].m = m
             PROVE  Settled(d, m)'
  BY <1>0 DEF Sync!SyncSettles
<1>1. /\ run[d] # None /\ run[d].plan # None /\ Sync!MayCommit(d) /\ Committed(d)
      /\ UNCHANGED local
  BY CommitSeen
<1>2. /\ m.skills \subseteq Skills
      /\ \A s \in m.skills :
           /\ lock'[s] # None /\ lock'[s].source = m.source
           /\ lock'[s].version = Sync!Version(m.source)
           /\ lock'[s].targets = Sync!Wanted(d, m, s, Sync!Snapshot)
           /\ canonical'[s] = "managed" /\ \A a \in DOMAIN lock'[s].targets : files'[s][a] = "managed"
      /\ owned'[d] = Sync!Ownership(m, m.skills) /\ required'[d] = m.requires
      /\ \A o \in Declarations \ {d} : owned'[o] = owned[o]
  BY <1>1, AfterCommit
<1>3. ASSUME NEW s \in m.skills
      PROVE  Sync!Others(d, s, Sync!Snapshot)' = Sync!Others(d, s, Sync!Snapshot)
  BY <1>2 DEF Sync!Others, Sync!Snapshot
<1>4. ASSUME NEW s \in m.skills
      PROVE  Sync!Wanted(d, m, s, Sync!Snapshot)' = Sync!Wanted(d, m, s, Sync!Snapshot)
  <2> DEFINE Of(others) ==
               [a \in m.agents \cup UNION {DOMAIN o.targets : o \in others} |->
                  IF a \in m.agents THEN m.mode ELSE (CHOOSE o \in others : a \in DOMAIN o.targets).targets[a]]
  <2>1. Sync!Wanted(d, m, s, Sync!Snapshot) = Of(Sync!Others(d, s, Sync!Snapshot))
    BY DEF Sync!Wanted
  <2>2. Sync!Wanted(d, m, s, Sync!Snapshot)' = Of(Sync!Others(d, s, Sync!Snapshot)')
    BY DEF Sync!Wanted
  <2> HIDE DEF Of
  <2> QED  BY <1>3, <2>1, <2>2
<1>5. Sync!Version(m.source)' = Sync!Version(m.source)
  BY <1>1 DEF Sync!Version
<1>6. Sync!Ownership(m, m.skills)' = Sync!Ownership(m, m.skills)
  BY DEF Sync!Ownership, Sync!Own
<1> QED  BY <1>2, <1>4, <1>5, <1>6 DEF Settled

(* No sync writes over the files of the user.                              *)
LEMMA SyncSparesFiles ==
  ASSUME SyncInv, Sync!Next
  PROVE  Sync!KeepsUserFiles
<1> SUFFICES ASSUME NEW d \in Declarations, run'[d] # run[d], NEW s \in Skills
             PROVE  /\ canonical[s] = "edited" => canonical'[s] = "edited"
                    /\ \A a \in Agents : files'[s][a] # files[s][a] =>
                         files[s][a] \in {"none", "managed"} \/ (files[s][a] = "link" /\ run[d].adopt)
  BY DEF Sync!KeepsUserFiles
<1>1. CASE UNCHANGED <<canonical, files>>  BY <1>1
<1>2. CASE ~UNCHANGED <<canonical, files>>
  <2>1. \A o \in Declarations, check, adopt \in BOOLEAN : ~Sync!Begin(o, check, adopt)
    BY <1>2 DEF Sync!Begin, Sync!store
  <2>2. \A o \in Declarations : ~Sync!Plan(o) /\ ~Sync!ManifestChanges(o)
    BY <1>2 DEF Sync!Plan, Sync!ManifestChanges, Sync!store
  <2>3. ~Sync!LocalSourceChanges  BY <1>2 DEF Sync!LocalSourceChanges, Sync!store
  <2>4. \A t \in Skills : ~Sync!Installs(t) /\ ~Sync!Removes(t) /\ ~Sync!UserTouches(t)
    BY DEF Sync!Installs, Sync!Removes, Sync!UserTouches, Sync!Change
  <2>5. \A o \in Declarations \ {d} : ~Sync!Commit(o)
    BY DEF Sync!Commit, Sync!Answer, SyncInv
  <2>6. Sync!Commit(d)  BY <2>1, <2>2, <2>3, <2>4, <2>5, Zenon DEF Sync!Next
  <2>7. Sync!MayCommit(d) /\ run[d] # None /\ run[d].plan # None /\ Committed(d)
    BY <1>2, <2>6, CommitCases DEF Sync!store
  <2> DEFINE m == run[d].m
             wanted == Sync!Wanted(d, m, s, Sync!Snapshot)
  <2>8. /\ canonical'[s] = IF s \in m.skills THEN "managed" ELSE canonical[s]
        /\ \A a \in Agents :
             files'[s][a] = IF s \notin m.skills THEN files[s][a]
                            ELSE IF a \in DOMAIN wanted THEN "managed"
                            ELSE IF ~Sync!Unmanaged(s, a) THEN "none" ELSE files[s][a]
    BY <2>7 DEF Committed
  <2>9. s \in m.skills => ~Sync!Edited(s) /\ \A a \in DOMAIN wanted : ~Sync!Blocked(d, s, a)
    BY <2>7, CommitWrites DEF Sync!MayCommit
  <2> HIDE DEF m, wanted
  <2>10. canonical[s] = "edited" => canonical'[s] = "edited"
    BY <2>8, <2>9 DEF SyncInv, Recorded, Sync!Edited
  <2>11. ASSUME NEW a \in Agents, files'[s][a] # files[s][a]
         PROVE  files[s][a] \in {"none", "managed"} \/ (files[s][a] = "link" /\ run[d].adopt)
    <3>1. s \in m.skills /\ (a \in DOMAIN wanted \/ ~Sync!Unmanaged(s, a))  BY <2>8, <2>11
    <3>2. CASE ~Sync!Unmanaged(s, a)
      <4>1. lock[s] # None /\ a \in DOMAIN lock[s].targets  BY <3>2 DEF Sync!Unmanaged
      <4>2. files[s][a] \in {"none", "managed", "edited"}  BY <4>1 DEF SyncInv, Recorded
      <4> QED  BY <2>9, <3>1, <4>1, <4>2 DEF Sync!Edited
    <3>3. CASE Sync!Unmanaged(s, a) /\ a \in DOMAIN wanted
      <4>1. ~Sync!Blocked(d, s, a)  BY <2>9, <3>1, <3>3
      <4> QED  BY <3>3, <4>1, Zenon DEF Sync!Blocked
    <3> QED  BY <3>1, <3>2, <3>3
  <2> QED  BY <2>10, <2>11
<1> QED  BY <1>1, <1>2
-----------------------------------------------------------------------------
(* The account session, of several processes and of those that run every   *)
(* command.                                                                *)
TwoTheorems == INSTANCE AuthSessionProofs WITH
  Procs <- Crowd.procs, Accounts <- Crowd.accounts, Commands <- Crowd.commands,
  CallbackTimeout <- Crowd.timeout, Lifetime <- Crowd.lifetime, MaxRedirects <- Crowd.redirects,
  MaxNow <- Crowd.now, MaxSessions <- Crowd.sessions, MaxGen <- Crowd.gen, MaxCrashes <- Crowd.crashes

AloneTheorems == INSTANCE AuthSessionProofs WITH
  Procs <- Single.procs, Accounts <- Single.accounts, Commands <- Single.commands,
  CallbackTimeout <- Single.timeout, Lifetime <- Single.lifetime, MaxRedirects <- Single.redirects,
  MaxNow <- Single.now, MaxSessions <- Single.sessions, MaxGen <- Single.gen, MaxCrashes <- Single.crashes

(* The account session of the theorems is the one that the commands run.   *)
LEMMA TwoAgrees ==
  /\ TwoTheorems!AuthAssumption
  /\ Two!Init => TwoTheorems!Init
  /\ Two!Next => TwoTheorems!Next
  /\ UNCHANGED Two!vars => UNCHANGED TwoTheorems!vars
  /\ TwoTheorems!TypeOK => Two!TypeOK
  /\ TwoTheorems!EntryOfItsSession => Two!EntryOfItsSession
  /\ TwoTheorems!ExchangesOwnCode => Two!ExchangesOwnCode
  /\ TwoTheorems!RepliesTrue => Two!RepliesTrue
  /\ TwoTheorems!LogoutTrue => Two!LogoutTrue
  /\ TwoTheorems!RefreshFailureShown => Two!RefreshFailureShown
  /\ TwoTheorems!RotationNeverUndone => Two!RotationNeverUndone
<1>1. TwoTheorems!AuthAssumption
  BY AuthAssumption, Zenon
  DEF Two!AuthAssumption, Two!Credential, TwoTheorems!AuthAssumption, TwoTheorems!Credential
<1>2. Two!Init => TwoTheorems!Init
  BY Zenon
  DEF Two!Init, Two!NoAnswer, Two!NoResult, TwoTheorems!Init, TwoTheorems!NoAnswer,
      TwoTheorems!NoResult
<1>3. ASSUME NEW p \in Crowd.procs PROVE Two!Service(p) => TwoTheorems!Service(p)
  <2>1. /\ Two!Refuse(p) => TwoTheorems!Refuse(p)
        /\ Two!GrantLogin(p) => TwoTheorems!GrantLogin(p)
        /\ Two!Rotate(p) => TwoTheorems!Rotate(p)
        /\ Two!Replay(p) => TwoTheorems!Replay(p)
        /\ Two!Revoke(p) => TwoTheorems!Revoke(p)
    BY Zenon
    DEF Two!Refuse, Two!GrantLogin, Two!Rotate, Two!Replay, Two!Revoke, Two!Serve, Two!Goto,
        TwoTheorems!Refuse, TwoTheorems!GrantLogin, TwoTheorems!Rotate, TwoTheorems!Replay,
        TwoTheorems!Revoke, TwoTheorems!Serve, TwoTheorems!Goto
  <2> QED
    BY <2>1, Zenon
    DEF Two!Service, TwoTheorems!Service
<1>4. ASSUME NEW p \in Crowd.procs PROVE Two!Client(p) => TwoTheorems!Client(p)
  <2>1. /\ Two!OpenBrowser(p) => TwoTheorems!OpenBrowser(p)
        /\ Two!ReceiveFails(p) => TwoTheorems!ReceiveFails(p)
        /\ Two!CheckCallback(p) => TwoTheorems!CheckCallback(p)
        /\ Two!LoadNothing(p) => TwoTheorems!LoadNothing(p)
    BY Zenon
    DEF Two!OpenBrowser, Two!ReceiveFails, Two!CheckCallback, Two!LoadNothing, Two!Goto,
        Two!ReturnAnd, Two!Return, Two!Respond, Two!Reject, Two!CommandAuthError, Two!Keep,
        Two!NoResult, Two!NoAnswer, Two!ParseCallback, Two!LoadedTo, Two!RequestFails,
        Two!Acceptable, Two!Others, Two!OtherAccount, TwoTheorems!OpenBrowser,
        TwoTheorems!ReceiveFails, TwoTheorems!CheckCallback, TwoTheorems!LoadNothing,
        TwoTheorems!Goto, TwoTheorems!ReturnAnd, TwoTheorems!Return, TwoTheorems!Respond,
        TwoTheorems!Reject, TwoTheorems!CommandAuthError, TwoTheorems!Keep, TwoTheorems!NoResult,
        TwoTheorems!NoAnswer, TwoTheorems!ParseCallback, TwoTheorems!LoadedTo,
        TwoTheorems!RequestFails, TwoTheorems!Acceptable, TwoTheorems!Others,
        TwoTheorems!OtherAccount
  <2>2. /\ Two!LoadAnswers(p) => TwoTheorems!LoadAnswers(p)
        /\ Two!LoadFails(p) => TwoTheorems!LoadFails(p)
        /\ Two!LoadToRefresh(p) => TwoTheorems!LoadToRefresh(p)
        /\ Two!Lost(p) => TwoTheorems!Lost(p)
    BY Zenon
    DEF Two!LoadAnswers, Two!LoadFails, Two!LoadToRefresh, Two!Lost, Two!Goto, Two!ReturnAnd,
        Two!Return, Two!Respond, Two!Reject, Two!CommandAuthError, Two!Keep, Two!NoResult,
        Two!NoAnswer, Two!ParseCallback, Two!LoadedTo, Two!RequestFails, Two!Acceptable,
        Two!Others, Two!OtherAccount, TwoTheorems!LoadAnswers, TwoTheorems!LoadFails,
        TwoTheorems!LoadToRefresh, TwoTheorems!Lost, TwoTheorems!Goto, TwoTheorems!ReturnAnd,
        TwoTheorems!Return, TwoTheorems!Respond, TwoTheorems!Reject, TwoTheorems!CommandAuthError,
        TwoTheorems!Keep, TwoTheorems!NoResult, TwoTheorems!NoAnswer, TwoTheorems!ParseCallback,
        TwoTheorems!LoadedTo, TwoTheorems!RequestFails, TwoTheorems!Acceptable, TwoTheorems!Others,
        TwoTheorems!OtherAccount
  <2>3. /\ Two!FollowRedirect(p) => TwoTheorems!FollowRedirect(p)
        /\ Two!RejectRedirect(p) => TwoTheorems!RejectRedirect(p)
        /\ Two!RejectStatus(p) => TwoTheorems!RejectStatus(p)
        /\ Two!TakeCredential(p) => TwoTheorems!TakeCredential(p)
        /\ Two!RejectCredential(p) => TwoTheorems!RejectCredential(p)
    BY Zenon
    DEF Two!FollowRedirect, Two!RejectRedirect, Two!RejectStatus, Two!TakeCredential,
        Two!RejectCredential, Two!Goto, Two!ReturnAnd, Two!Return, Two!Respond, Two!Reject,
        Two!CommandAuthError, Two!Keep, Two!NoResult, Two!NoAnswer, Two!ParseCallback,
        Two!LoadedTo, Two!RequestFails, Two!Acceptable, Two!Others, Two!OtherAccount,
        TwoTheorems!FollowRedirect, TwoTheorems!RejectRedirect, TwoTheorems!RejectStatus,
        TwoTheorems!TakeCredential, TwoTheorems!RejectCredential, TwoTheorems!Goto,
        TwoTheorems!ReturnAnd, TwoTheorems!Return, TwoTheorems!Respond, TwoTheorems!Reject,
        TwoTheorems!CommandAuthError, TwoTheorems!Keep, TwoTheorems!NoResult, TwoTheorems!NoAnswer,
        TwoTheorems!ParseCallback, TwoTheorems!LoadedTo, TwoTheorems!RequestFails,
        TwoTheorems!Acceptable, TwoTheorems!Others, TwoTheorems!OtherAccount
  <2>4. /\ Two!TakeRevocation(p) => TwoTheorems!TakeRevocation(p)
        /\ Two!Save(p) => TwoTheorems!Save(p)
        /\ Two!SaveFails(p) => TwoTheorems!SaveFails(p)
        /\ Two!Accept(p) => TwoTheorems!Accept(p)
    BY Zenon
    DEF Two!TakeRevocation, Two!Save, Two!SaveFails, Two!Accept, Two!Goto, Two!ReturnAnd,
        Two!Return, Two!Respond, Two!Reject, Two!CommandAuthError, Two!Keep, Two!NoResult,
        Two!NoAnswer, Two!ParseCallback, Two!LoadedTo, Two!RequestFails, Two!Acceptable,
        Two!Others, Two!OtherAccount, TwoTheorems!TakeRevocation, TwoTheorems!Save,
        TwoTheorems!SaveFails, TwoTheorems!Accept, TwoTheorems!Goto, TwoTheorems!ReturnAnd,
        TwoTheorems!Return, TwoTheorems!Respond, TwoTheorems!Reject, TwoTheorems!CommandAuthError,
        TwoTheorems!Keep, TwoTheorems!NoResult, TwoTheorems!NoAnswer, TwoTheorems!ParseCallback,
        TwoTheorems!LoadedTo, TwoTheorems!RequestFails, TwoTheorems!Acceptable, TwoTheorems!Others,
        TwoTheorems!OtherAccount
  <2>5. /\ Two!Reload(p) => TwoTheorems!Reload(p)
        /\ Two!CheckDelete(p) => TwoTheorems!CheckDelete(p)
        /\ Two!Delete(p) => TwoTheorems!Delete(p)
    BY Zenon
    DEF Two!Reload, Two!CheckDelete, Two!Delete, Two!Goto, Two!ReturnAnd, Two!Return, Two!Respond,
        Two!Reject, Two!CommandAuthError, Two!Keep, Two!NoResult, Two!NoAnswer, Two!ParseCallback,
        Two!LoadedTo, Two!RequestFails, Two!Acceptable, Two!Others, Two!OtherAccount,
        TwoTheorems!Reload, TwoTheorems!CheckDelete, TwoTheorems!Delete, TwoTheorems!Goto,
        TwoTheorems!ReturnAnd, TwoTheorems!Return, TwoTheorems!Respond, TwoTheorems!Reject,
        TwoTheorems!CommandAuthError, TwoTheorems!Keep, TwoTheorems!NoResult, TwoTheorems!NoAnswer,
        TwoTheorems!ParseCallback, TwoTheorems!LoadedTo, TwoTheorems!RequestFails,
        TwoTheorems!Acceptable, TwoTheorems!Others, TwoTheorems!OtherAccount
  <2> QED
    BY <2>1, <2>2, <2>3, <2>4, <2>5, Zenon
    DEF Two!Client, TwoTheorems!Client
<1>5. ASSUME NEW p \in Crowd.procs
      PROVE  /\ \A c \in Crowd.commands : Two!Start(p, c) => TwoTheorems!Start(p, c)
             /\ \A r \in Two!CallbackRequests : Two!Receive(p, r) => TwoTheorems!Receive(p, r)
             /\ Two!Crash(p) => TwoTheorems!Crash(p)
  BY Zenon
  DEF Two!Start, Two!Receive, Two!Crash, Two!Goto, Two!Keep, Two!Return, Two!ReturnAnd,
      Two!NoResult, Two!NoAnswer, TwoTheorems!Start, TwoTheorems!Receive, TwoTheorems!Crash,
      TwoTheorems!Goto, TwoTheorems!Keep, TwoTheorems!Return, TwoTheorems!ReturnAnd,
      TwoTheorems!NoResult, TwoTheorems!NoAnswer
<1>6. Two!Tick => TwoTheorems!Tick
  BY Zenon
  DEF Two!Tick, Two!local, TwoTheorems!Tick, TwoTheorems!local
<1>7. Two!CallbackRequests = TwoTheorems!CallbackRequests
  BY Zenon
  DEF Two!CallbackRequests, TwoTheorems!CallbackRequests
<1>8. Two!Next => TwoTheorems!Next
  BY <1>3, <1>4, <1>5, <1>6, <1>7, Zenon
  DEF Two!Next, TwoTheorems!Next
<1>9. UNCHANGED Two!vars => UNCHANGED TwoTheorems!vars
  BY Zenon
  DEF Two!vars, Two!local, TwoTheorems!vars, TwoTheorems!local
<1>10. /\ TwoTheorems!TypeOK => Two!TypeOK
       /\ TwoTheorems!EntryOfItsSession => Two!EntryOfItsSession
       /\ TwoTheorems!ExchangesOwnCode => Two!ExchangesOwnCode
  BY Zenon
  DEF Two!TypeOK, Two!Credential, Two!AnswerKinds, Two!EntryOfItsSession, Two!ExchangesOwnCode,
      TwoTheorems!TypeOK, TwoTheorems!Credential, TwoTheorems!AnswerKinds,
      TwoTheorems!EntryOfItsSession, TwoTheorems!ExchangesOwnCode
<1>11. /\ TwoTheorems!RepliesTrue => Two!RepliesTrue
       /\ TwoTheorems!LogoutTrue => Two!LogoutTrue
       /\ TwoTheorems!RefreshFailureShown => Two!RefreshFailureShown
       /\ TwoTheorems!RotationNeverUndone => Two!RotationNeverUndone
  BY Zenon
  DEF Two!RepliesTrue, Two!LogoutTrue, Two!RefreshFailureShown, Two!RotationNeverUndone,
      TwoTheorems!RepliesTrue, TwoTheorems!LogoutTrue, TwoTheorems!RefreshFailureShown,
      TwoTheorems!RotationNeverUndone
<1> QED  BY <1>1, <1>2, <1>8, <1>9, <1>10, <1>11, Zenon

(* So it is in the other setting.                                          *)
LEMMA AloneAgrees ==
  /\ AloneTheorems!AuthAssumption
  /\ Alone!Init => AloneTheorems!Init
  /\ Alone!Next => AloneTheorems!Next
  /\ UNCHANGED Alone!vars => UNCHANGED AloneTheorems!vars
  /\ AloneTheorems!TypeOK => Alone!TypeOK
  /\ AloneTheorems!EntryOfItsSession => Alone!EntryOfItsSession
  /\ AloneTheorems!ExchangesOwnCode => Alone!ExchangesOwnCode
  /\ AloneTheorems!RepliesTrue => Alone!RepliesTrue
  /\ AloneTheorems!LogoutTrue => Alone!LogoutTrue
  /\ AloneTheorems!RefreshFailureShown => Alone!RefreshFailureShown
  /\ AloneTheorems!RotationNeverUndone => Alone!RotationNeverUndone
<1>1. AloneTheorems!AuthAssumption
  BY AuthAssumption, Zenon
  DEF Alone!AuthAssumption, Alone!Credential, AloneTheorems!AuthAssumption,
      AloneTheorems!Credential
<1>2. Alone!Init => AloneTheorems!Init
  BY Zenon
  DEF Alone!Init, Alone!NoAnswer, Alone!NoResult, AloneTheorems!Init, AloneTheorems!NoAnswer,
      AloneTheorems!NoResult
<1>3. ASSUME NEW p \in Single.procs PROVE Alone!Service(p) => AloneTheorems!Service(p)
  <2>1. /\ Alone!Refuse(p) => AloneTheorems!Refuse(p)
        /\ Alone!GrantLogin(p) => AloneTheorems!GrantLogin(p)
        /\ Alone!Rotate(p) => AloneTheorems!Rotate(p)
        /\ Alone!Replay(p) => AloneTheorems!Replay(p)
        /\ Alone!Revoke(p) => AloneTheorems!Revoke(p)
    BY Zenon
    DEF Alone!Refuse, Alone!GrantLogin, Alone!Rotate, Alone!Replay, Alone!Revoke, Alone!Serve,
        Alone!Goto, AloneTheorems!Refuse, AloneTheorems!GrantLogin, AloneTheorems!Rotate,
        AloneTheorems!Replay, AloneTheorems!Revoke, AloneTheorems!Serve, AloneTheorems!Goto
  <2> QED
    BY <2>1, Zenon
    DEF Alone!Service, AloneTheorems!Service
<1>4. ASSUME NEW p \in Single.procs PROVE Alone!Client(p) => AloneTheorems!Client(p)
  <2>1. /\ Alone!OpenBrowser(p) => AloneTheorems!OpenBrowser(p)
        /\ Alone!ReceiveFails(p) => AloneTheorems!ReceiveFails(p)
        /\ Alone!CheckCallback(p) => AloneTheorems!CheckCallback(p)
        /\ Alone!LoadNothing(p) => AloneTheorems!LoadNothing(p)
    BY Zenon
    DEF Alone!OpenBrowser, Alone!ReceiveFails, Alone!CheckCallback, Alone!LoadNothing, Alone!Goto,
        Alone!ReturnAnd, Alone!Return, Alone!Respond, Alone!Reject, Alone!CommandAuthError,
        Alone!Keep, Alone!NoResult, Alone!NoAnswer, Alone!ParseCallback, Alone!LoadedTo,
        Alone!RequestFails, Alone!Acceptable, Alone!Others, Alone!OtherAccount,
        AloneTheorems!OpenBrowser, AloneTheorems!ReceiveFails, AloneTheorems!CheckCallback,
        AloneTheorems!LoadNothing, AloneTheorems!Goto, AloneTheorems!ReturnAnd,
        AloneTheorems!Return, AloneTheorems!Respond, AloneTheorems!Reject,
        AloneTheorems!CommandAuthError, AloneTheorems!Keep, AloneTheorems!NoResult,
        AloneTheorems!NoAnswer, AloneTheorems!ParseCallback, AloneTheorems!LoadedTo,
        AloneTheorems!RequestFails, AloneTheorems!Acceptable, AloneTheorems!Others,
        AloneTheorems!OtherAccount
  <2>2. /\ Alone!LoadAnswers(p) => AloneTheorems!LoadAnswers(p)
        /\ Alone!LoadFails(p) => AloneTheorems!LoadFails(p)
        /\ Alone!LoadToRefresh(p) => AloneTheorems!LoadToRefresh(p)
        /\ Alone!Lost(p) => AloneTheorems!Lost(p)
    BY Zenon
    DEF Alone!LoadAnswers, Alone!LoadFails, Alone!LoadToRefresh, Alone!Lost, Alone!Goto,
        Alone!ReturnAnd, Alone!Return, Alone!Respond, Alone!Reject, Alone!CommandAuthError,
        Alone!Keep, Alone!NoResult, Alone!NoAnswer, Alone!ParseCallback, Alone!LoadedTo,
        Alone!RequestFails, Alone!Acceptable, Alone!Others, Alone!OtherAccount,
        AloneTheorems!LoadAnswers, AloneTheorems!LoadFails, AloneTheorems!LoadToRefresh,
        AloneTheorems!Lost, AloneTheorems!Goto, AloneTheorems!ReturnAnd, AloneTheorems!Return,
        AloneTheorems!Respond, AloneTheorems!Reject, AloneTheorems!CommandAuthError,
        AloneTheorems!Keep, AloneTheorems!NoResult, AloneTheorems!NoAnswer,
        AloneTheorems!ParseCallback, AloneTheorems!LoadedTo, AloneTheorems!RequestFails,
        AloneTheorems!Acceptable, AloneTheorems!Others, AloneTheorems!OtherAccount
  <2>3. /\ Alone!FollowRedirect(p) => AloneTheorems!FollowRedirect(p)
        /\ Alone!RejectRedirect(p) => AloneTheorems!RejectRedirect(p)
        /\ Alone!RejectStatus(p) => AloneTheorems!RejectStatus(p)
        /\ Alone!TakeCredential(p) => AloneTheorems!TakeCredential(p)
        /\ Alone!RejectCredential(p) => AloneTheorems!RejectCredential(p)
    BY Zenon
    DEF Alone!FollowRedirect, Alone!RejectRedirect, Alone!RejectStatus, Alone!TakeCredential,
        Alone!RejectCredential, Alone!Goto, Alone!ReturnAnd, Alone!Return, Alone!Respond,
        Alone!Reject, Alone!CommandAuthError, Alone!Keep, Alone!NoResult, Alone!NoAnswer,
        Alone!ParseCallback, Alone!LoadedTo, Alone!RequestFails, Alone!Acceptable, Alone!Others,
        Alone!OtherAccount, AloneTheorems!FollowRedirect, AloneTheorems!RejectRedirect,
        AloneTheorems!RejectStatus, AloneTheorems!TakeCredential, AloneTheorems!RejectCredential,
        AloneTheorems!Goto, AloneTheorems!ReturnAnd, AloneTheorems!Return, AloneTheorems!Respond,
        AloneTheorems!Reject, AloneTheorems!CommandAuthError, AloneTheorems!Keep,
        AloneTheorems!NoResult, AloneTheorems!NoAnswer, AloneTheorems!ParseCallback,
        AloneTheorems!LoadedTo, AloneTheorems!RequestFails, AloneTheorems!Acceptable,
        AloneTheorems!Others, AloneTheorems!OtherAccount
  <2>4. /\ Alone!TakeRevocation(p) => AloneTheorems!TakeRevocation(p)
        /\ Alone!Save(p) => AloneTheorems!Save(p)
        /\ Alone!SaveFails(p) => AloneTheorems!SaveFails(p)
        /\ Alone!Accept(p) => AloneTheorems!Accept(p)
    BY Zenon
    DEF Alone!TakeRevocation, Alone!Save, Alone!SaveFails, Alone!Accept, Alone!Goto,
        Alone!ReturnAnd, Alone!Return, Alone!Respond, Alone!Reject, Alone!CommandAuthError,
        Alone!Keep, Alone!NoResult, Alone!NoAnswer, Alone!ParseCallback, Alone!LoadedTo,
        Alone!RequestFails, Alone!Acceptable, Alone!Others, Alone!OtherAccount,
        AloneTheorems!TakeRevocation, AloneTheorems!Save, AloneTheorems!SaveFails,
        AloneTheorems!Accept, AloneTheorems!Goto, AloneTheorems!ReturnAnd, AloneTheorems!Return,
        AloneTheorems!Respond, AloneTheorems!Reject, AloneTheorems!CommandAuthError,
        AloneTheorems!Keep, AloneTheorems!NoResult, AloneTheorems!NoAnswer,
        AloneTheorems!ParseCallback, AloneTheorems!LoadedTo, AloneTheorems!RequestFails,
        AloneTheorems!Acceptable, AloneTheorems!Others, AloneTheorems!OtherAccount
  <2>5. /\ Alone!Reload(p) => AloneTheorems!Reload(p)
        /\ Alone!CheckDelete(p) => AloneTheorems!CheckDelete(p)
        /\ Alone!Delete(p) => AloneTheorems!Delete(p)
    BY Zenon
    DEF Alone!Reload, Alone!CheckDelete, Alone!Delete, Alone!Goto, Alone!ReturnAnd, Alone!Return,
        Alone!Respond, Alone!Reject, Alone!CommandAuthError, Alone!Keep, Alone!NoResult,
        Alone!NoAnswer, Alone!ParseCallback, Alone!LoadedTo, Alone!RequestFails, Alone!Acceptable,
        Alone!Others, Alone!OtherAccount, AloneTheorems!Reload, AloneTheorems!CheckDelete,
        AloneTheorems!Delete, AloneTheorems!Goto, AloneTheorems!ReturnAnd, AloneTheorems!Return,
        AloneTheorems!Respond, AloneTheorems!Reject, AloneTheorems!CommandAuthError,
        AloneTheorems!Keep, AloneTheorems!NoResult, AloneTheorems!NoAnswer,
        AloneTheorems!ParseCallback, AloneTheorems!LoadedTo, AloneTheorems!RequestFails,
        AloneTheorems!Acceptable, AloneTheorems!Others, AloneTheorems!OtherAccount
  <2> QED
    BY <2>1, <2>2, <2>3, <2>4, <2>5, Zenon
    DEF Alone!Client, AloneTheorems!Client
<1>5. ASSUME NEW p \in Single.procs
      PROVE  /\ \A c \in Single.commands : Alone!Start(p, c) => AloneTheorems!Start(p, c)
             /\ \A r \in Alone!CallbackRequests : Alone!Receive(p, r) => AloneTheorems!Receive(p, r)
             /\ Alone!Crash(p) => AloneTheorems!Crash(p)
  BY Zenon
  DEF Alone!Start, Alone!Receive, Alone!Crash, Alone!Goto, Alone!Keep, Alone!Return,
      Alone!ReturnAnd, Alone!NoResult, Alone!NoAnswer, AloneTheorems!Start, AloneTheorems!Receive,
      AloneTheorems!Crash, AloneTheorems!Goto, AloneTheorems!Keep, AloneTheorems!Return,
      AloneTheorems!ReturnAnd, AloneTheorems!NoResult, AloneTheorems!NoAnswer
<1>6. Alone!Tick => AloneTheorems!Tick
  BY Zenon
  DEF Alone!Tick, Alone!local, AloneTheorems!Tick, AloneTheorems!local
<1>7. Alone!CallbackRequests = AloneTheorems!CallbackRequests
  BY Zenon
  DEF Alone!CallbackRequests, AloneTheorems!CallbackRequests
<1>8. Alone!Next => AloneTheorems!Next
  BY <1>3, <1>4, <1>5, <1>6, <1>7, Zenon
  DEF Alone!Next, AloneTheorems!Next
<1>9. UNCHANGED Alone!vars => UNCHANGED AloneTheorems!vars
  BY Zenon
  DEF Alone!vars, Alone!local, AloneTheorems!vars, AloneTheorems!local
<1>10. /\ AloneTheorems!TypeOK => Alone!TypeOK
       /\ AloneTheorems!EntryOfItsSession => Alone!EntryOfItsSession
       /\ AloneTheorems!ExchangesOwnCode => Alone!ExchangesOwnCode
  BY Zenon
  DEF Alone!TypeOK, Alone!Credential, Alone!AnswerKinds, Alone!EntryOfItsSession,
      Alone!ExchangesOwnCode, AloneTheorems!TypeOK, AloneTheorems!Credential,
      AloneTheorems!AnswerKinds, AloneTheorems!EntryOfItsSession, AloneTheorems!ExchangesOwnCode
<1>11. /\ AloneTheorems!RepliesTrue => Alone!RepliesTrue
       /\ AloneTheorems!LogoutTrue => Alone!LogoutTrue
       /\ AloneTheorems!RefreshFailureShown => Alone!RefreshFailureShown
       /\ AloneTheorems!RotationNeverUndone => Alone!RotationNeverUndone
  BY Zenon
  DEF Alone!RepliesTrue, Alone!LogoutTrue, Alone!RefreshFailureShown, Alone!RotationNeverUndone,
      AloneTheorems!RepliesTrue, AloneTheorems!LogoutTrue, AloneTheorems!RefreshFailureShown,
      AloneTheorems!RotationNeverUndone
<1> QED  BY <1>1, <1>2, <1>8, <1>9, <1>10, <1>11, Zenon

AccountInv ==
  /\ part = "two" => TwoTheorems!AuthInv
  /\ part = "alone" => AloneTheorems!AuthInv

(* Every part but one starts without an account session.                   *)
LEMMA AccountInit == Init => AccountInv
<1> SUFFICES ASSUME Init PROVE AccountInv  OBVIOUS
<1>1. (part = "two" => Two!Init) /\ (part = "alone" => Alone!Init)
  BY Zenon DEF Init, InitUpdate, InitInstall, InitTargets, InitSync, InitDoctor, InitSession, InitLine, InitAuth
<1> QED
  BY <1>1, TwoAgrees, AloneAgrees, TwoTheorems!AuthInit, AloneTheorems!AuthInit, Zenon DEF AccountInv

(* Each setting keeps its own invariant.                                   *)
LEMMA AccountStep == AccountInv /\ [Next]_vars => AccountInv'
<1> SUFFICES ASSUME AccountInv, [Next]_vars PROVE AccountInv'  OBVIOUS
<1>1. part' = part  BY StepOfPart
<1>2. CASE part = "two"
  <2>1. TwoTheorems!AuthInv'
    BY <1>2, StepOfPart, TwoAgrees, TwoTheorems!AuthStep, TwoTheorems!AuthStutters, Zenon DEF AccountInv
  <2> QED  BY <1>1, <1>2, <2>1 DEF AccountInv
<1>3. CASE part = "alone"
  <2>1. AloneTheorems!AuthInv'
    BY <1>3, StepOfPart, AloneAgrees, AloneTheorems!AuthStep, AloneTheorems!AuthStutters, Zenon DEF AccountInv
  <2> QED  BY <1>1, <1>3, <2>1 DEF AccountInv
<1> QED  BY <1>1, <1>2, <1>3 DEF AccountInv

(* Whatever the service answers and however refreshes, logins and logouts  *)
(* of any number of processes interleave, the entry of the keychain names  *)
(* the account of its session, and a code is exchanged by its own login.   *)
THEOREM AccountsKeptApart == Spec => []SessionsKeptApart
<1>1. Init => AccountInv  BY AccountInit
<1>2. AccountInv /\ [Next]_vars => AccountInv'  BY AccountStep
<1>3. AccountInv => SessionsKeptApart
  <2> SUFFICES ASSUME AccountInv PROVE SessionsKeptApart  OBVIOUS
  <2>1. part = "two" => Two!EntryOfItsSession /\ Two!ExchangesOwnCode
    BY TwoAgrees, TwoTheorems!EntryNamesItsSession, TwoTheorems!CodesAreOwn, Zenon DEF AccountInv
  <2>2. part = "alone" => Alone!EntryOfItsSession /\ Alone!ExchangesOwnCode
    BY AloneAgrees, AloneTheorems!EntryNamesItsSession, AloneTheorems!CodesAreOwn, Zenon DEF AccountInv
  <2> QED  BY <2>1, <2>2 DEF SessionsKeptApart
<1> QED  BY <1>1, <1>2, <1>3, PTL DEF Spec

(* What a login, a logout and a token command report when they end is so.  *)
THEOREM AccountAnswersTrue == Spec => AnswersTrue
<1> DEFINE True ==
      /\ part = "two" => Two!RepliesTrue /\ Two!LogoutTrue /\ Two!RefreshFailureShown
      /\ part = "alone" => Alone!RepliesTrue /\ Alone!LogoutTrue /\ Alone!RefreshFailureShown
<1>1. Init => AccountInv  BY AccountInit
<1>2. AccountInv /\ [Next]_vars => AccountInv'  BY AccountStep
<1>3. AccountInv /\ [Next]_vars => [True]_vars
  <2> SUFFICES ASSUME AccountInv, Next, ~UNCHANGED vars PROVE True  OBVIOUS
  <2>1. (part = "two" => Two!Next) /\ (part = "alone" => Alone!Next)  BY Zenon DEF Next
  <2>2. part = "two" => Two!RepliesTrue /\ Two!LogoutTrue /\ Two!RefreshFailureShown
    BY <2>1, TwoAgrees, TwoTheorems!RepliesAreTrue, TwoTheorems!LogoutsAreTrue, TwoTheorems!FailuresAreShown,
       Zenon DEF AccountInv
  <2>3. part = "alone" => Alone!RepliesTrue /\ Alone!LogoutTrue /\ Alone!RefreshFailureShown
    BY <2>1, AloneAgrees, AloneTheorems!RepliesAreTrue, AloneTheorems!LogoutsAreTrue,
       AloneTheorems!FailuresAreShown, Zenon DEF AccountInv
  <2> QED  BY <2>2, <2>3
<1> QED  BY <1>1, <1>2, <1>3, PTL DEF Spec, AnswersTrue

(* No process puts back a refresh token of a session that another one has  *)
(* replaced.                                                               *)
THEOREM AccountRotations == Spec => RotationNeverUndone
<1> DEFINE Stands ==
      /\ part = "two" => Two!RotationNeverUndone
      /\ part = "alone" => Alone!RotationNeverUndone
<1>1. Init => AccountInv  BY AccountInit
<1>2. AccountInv /\ [Next]_vars => AccountInv'  BY AccountStep
<1>3. AccountInv /\ [Next]_vars => [Stands]_vars
  <2> SUFFICES ASSUME AccountInv, Next, ~UNCHANGED vars PROVE Stands  OBVIOUS
  <2>1. (part = "two" => Two!Next) /\ (part = "alone" => Alone!Next)  BY Zenon DEF Next
  <2>2. part = "two" => Two!RotationNeverUndone
    BY <2>1, TwoAgrees, TwoTheorems!RotationsStand, Zenon DEF AccountInv
  <2>3. part = "alone" => Alone!RotationNeverUndone
    BY <2>1, AloneAgrees, AloneTheorems!RotationsStand, Zenon DEF AccountInv
  <2> QED  BY <2>2, <2>3
<1> QED  BY <1>1, <1>2, <1>3, PTL DEF Spec, RotationNeverUndone

-----------------------------------------------------------------------------
(* The choice of targets.  First the table: every Agent has an id of its   *)
(* own and a project directory.                                            *)
Path(p) == Len(p) \in Nat /\ Len(p) >= 1

BareNames == {"skills", "data"}
SharedProjects == {<<".agents", "skills">>, <<".qoder", "skills">>, <<".trae", "skills">>, <<".zencoder", "skills">>}

(* What is so of each row: only two use a bare directory, and one that is  *)
(* only named explicitly shares its project directory with another.        *)
RowFits(r) ==
  /\ Path(r.project)
  /\ r.project[1] \in BareNames => r.id \in {"openclaw", "astrbot"}
  /\ r.detected \/ r.project \in SharedProjects

(* A path of one, two or three names.                                      *)
LEMMA PathsAre ==
  /\ \A a : Path(<<a>>)
  /\ \A a, b : Path(<<a, b>>)
  /\ \A a, b, c : Path(<<a, b, c>>)
BY DEF Path

(* The three kinds of row, whatever they name.                             *)
LEMMA RowsFit ==
  /\ \A id, dir : dir \notin BareNames => RowFits(Targets!Own(id, dir))
  /\ \A id, p, g, where : Path(p) /\ (p[1] \in BareNames => id \in {"openclaw", "astrbot"})
       => RowFits(Targets!Agent(id, p, g, where))
  /\ \A id, p, g : p \in SharedProjects => RowFits(Targets!Shared(id, p, g))
<1>1. ASSUME NEW id, NEW dir, dir \notin BareNames PROVE RowFits(Targets!Own(id, dir))
  BY <1>1, PathsAre DEF RowFits, Targets!Own, Targets!Agent
<1>2. ASSUME NEW id, NEW p, NEW g, NEW where, Path(p), p[1] \in BareNames => id \in {"openclaw", "astrbot"}
      PROVE  RowFits(Targets!Agent(id, p, g, where))
  BY <1>2 DEF RowFits, Targets!Agent
<1>3. ASSUME NEW id, NEW p, NEW g, p \in SharedProjects PROVE RowFits(Targets!Shared(id, p, g))
  <2>1. Path(p) /\ p[1] \notin BareNames  BY <1>3, PathsAre DEF SharedProjects, BareNames
  <2> QED  BY <1>3, <2>1 DEF RowFits, Targets!Shared
<1> QED  BY <1>1, <1>2, <1>3

(* The table is written in four blocks; each row of each fits.             *)
LEMMA BlocksFit ==
  /\ \A i \in 1..19 : RowFits(Targets!OriginalTargets[i])
  /\ \A i \in 1..16 : RowFits(Targets!TargetsAtoD[i])
  /\ \A i \in 1..17 : RowFits(Targets!TargetsDtoM[i])
  /\ \A i \in 1..21 : RowFits(Targets!TargetsMtoZ[i])
<1>1. \A i \in 1..19 : RowFits(Targets!OriginalTargets[i])  BY PathsAre, RowsFit DEF Targets!OriginalTargets, BareNames
<1>2. \A i \in 1..16 : RowFits(Targets!TargetsAtoD[i])  BY PathsAre, RowsFit DEF Targets!TargetsAtoD, BareNames, SharedProjects
<1>3. \A i \in 1..17 : RowFits(Targets!TargetsDtoM[i])  BY PathsAre, RowsFit DEF Targets!TargetsDtoM, BareNames, SharedProjects
<1>4. \A i \in 1..21 : RowFits(Targets!TargetsMtoZ[i])  BY PathsAre, RowsFit DEF Targets!TargetsMtoZ, BareNames, SharedProjects
<1> QED  BY <1>1, <1>2, <1>3, <1>4

(* The id of a row is the one it was written with.                         *)
LEMMA RowIds ==
  /\ \A id, dir : Targets!Own(id, dir).id = id
  /\ \A id, p, g, where : Targets!Agent(id, p, g, where).id = id
  /\ \A id, p, g : Targets!Shared(id, p, g).id = id
BY DEF Targets!Own, Targets!Agent, Targets!Shared

(* No id is written twice, in one block or in two.                         *)
LEMMA BlocksDiffer ==
  /\ \A i, j \in 1..19 : Targets!OriginalTargets[i].id = Targets!OriginalTargets[j].id => i = j
  /\ \A i, j \in 1..16 : Targets!TargetsAtoD[i].id = Targets!TargetsAtoD[j].id => i = j
  /\ \A i, j \in 1..17 : Targets!TargetsDtoM[i].id = Targets!TargetsDtoM[j].id => i = j
  /\ \A i, j \in 1..21 : Targets!TargetsMtoZ[i].id = Targets!TargetsMtoZ[j].id => i = j
  /\ \A i \in 1..19, j \in 1..16 : Targets!OriginalTargets[i].id # Targets!TargetsAtoD[j].id
  /\ \A i \in 1..19, j \in 1..17 : Targets!OriginalTargets[i].id # Targets!TargetsDtoM[j].id
  /\ \A i \in 1..19, j \in 1..21 : Targets!OriginalTargets[i].id # Targets!TargetsMtoZ[j].id
  /\ \A i \in 1..16, j \in 1..17 : Targets!TargetsAtoD[i].id # Targets!TargetsDtoM[j].id
  /\ \A i \in 1..16, j \in 1..21 : Targets!TargetsAtoD[i].id # Targets!TargetsMtoZ[j].id
  /\ \A i \in 1..17, j \in 1..21 : Targets!TargetsDtoM[i].id # Targets!TargetsMtoZ[j].id
<1>1. \A i, j \in 1..19 : Targets!OriginalTargets[i].id = Targets!OriginalTargets[j].id => i = j
  BY RowIds DEF Targets!OriginalTargets
<1>2. \A i, j \in 1..16 : Targets!TargetsAtoD[i].id = Targets!TargetsAtoD[j].id => i = j
  BY RowIds DEF Targets!TargetsAtoD
<1>3. \A i, j \in 1..17 : Targets!TargetsDtoM[i].id = Targets!TargetsDtoM[j].id => i = j
  BY RowIds DEF Targets!TargetsDtoM
<1>4. \A i, j \in 1..21 : Targets!TargetsMtoZ[i].id = Targets!TargetsMtoZ[j].id => i = j
  BY RowIds DEF Targets!TargetsMtoZ
<1>5. \A i \in 1..19, j \in 1..16 : Targets!OriginalTargets[i].id # Targets!TargetsAtoD[j].id
  BY RowIds DEF Targets!OriginalTargets, Targets!TargetsAtoD
<1>6. \A i \in 1..19, j \in 1..17 : Targets!OriginalTargets[i].id # Targets!TargetsDtoM[j].id
  BY RowIds DEF Targets!OriginalTargets, Targets!TargetsDtoM
<1>7. \A i \in 1..19, j \in 1..21 : Targets!OriginalTargets[i].id # Targets!TargetsMtoZ[j].id
  BY RowIds DEF Targets!OriginalTargets, Targets!TargetsMtoZ
<1>8. \A i \in 1..16, j \in 1..17 : Targets!TargetsAtoD[i].id # Targets!TargetsDtoM[j].id
  BY RowIds DEF Targets!TargetsAtoD, Targets!TargetsDtoM
<1>9. \A i \in 1..16, j \in 1..21 : Targets!TargetsAtoD[i].id # Targets!TargetsMtoZ[j].id
  BY RowIds DEF Targets!TargetsAtoD, Targets!TargetsMtoZ
<1>10. \A i \in 1..17, j \in 1..21 : Targets!TargetsDtoM[i].id # Targets!TargetsMtoZ[j].id
  BY RowIds DEF Targets!TargetsDtoM, Targets!TargetsMtoZ
<1> QED  BY <1>1, <1>2, <1>3, <1>4, <1>5, <1>6, <1>7, <1>8, <1>9, <1>10

(* A function on 1..n is a sequence of length n.                           *)
LEMMA FunctionIsSeq ==
  ASSUME NEW E, NEW n \in Nat, NEW f \in [1..n -> E]
  PROVE  f \in Seq(E) /\ Len(f) = n
OBVIOUS

Joins(u, s, t, m, n, E) ==
  /\ u \in Seq(E) /\ Len(u) = m + n
  /\ \A i \in 1..m : u[i] = s[i]
  /\ \A i \in 1..n : u[m + i] = t[i]

(* What is where, in two sequences joined.                                 *)
LEMMA Joined ==
  ASSUME NEW E, NEW s \in Seq(E), NEW t \in Seq(E), NEW u, u = s \o t
  PROVE  Joins(u, s, t, Len(s), Len(t), E)
<1>1. /\ u \in Seq(E) /\ Len(u) = Len(s) + Len(t)
      /\ \A i \in 1..(Len(s) + Len(t)) : u[i] = IF i <= Len(s) THEN s[i] ELSE t[i - Len(s)]
  BY ConcatProperties
<1>2. Len(s) \in Nat /\ Len(t) \in Nat  OBVIOUS
<1>3. \A i \in 1..Len(s) : i \in 1..(Len(s) + Len(t)) /\ i <= Len(s)  BY <1>2
<1>4. \A i \in 1..Len(t) : Len(s) + i \in 1..(Len(s) + Len(t)) /\ ~(Len(s) + i <= Len(s)) /\ (Len(s) + i) - Len(s) = i
  BY <1>2
<1> QED  BY <1>1, <1>3, <1>4 DEF Joins

(* The rows of the table are those of its blocks. *)
LEMMA TableRows ==
  /\ Targets!AGENT_TARGETS \in Seq(Targets!Rows)
  /\ \A r \in Targets!Rows :
       \/ \E i \in 1..19 : r = Targets!OriginalTargets[i]
       \/ \E i \in 1..16 : r = Targets!TargetsAtoD[i]
       \/ \E i \in 1..17 : r = Targets!TargetsDtoM[i]
       \/ \E i \in 1..21 : r = Targets!TargetsMtoZ[i]
  /\ \A i \in 1..19 : Targets!OriginalTargets[i] \in Targets!Rows
  /\ \A i \in 1..21 : Targets!TargetsMtoZ[i] \in Targets!Rows
<1> DEFINE A == Targets!OriginalTargets
           B == Targets!TargetsAtoD
           C == Targets!TargetsDtoM
           D == Targets!TargetsMtoZ
           E == {A[i] : i \in 1..19} \cup {B[i] : i \in 1..16} \cup {C[i] : i \in 1..17} \cup {D[i] : i \in 1..21}
           table == Targets!AGENT_TARGETS
<1>1. A = [i \in 1..19 |-> A[i]]  BY DEF Targets!OriginalTargets
<1>2. B = [i \in 1..16 |-> B[i]]  BY DEF Targets!TargetsAtoD
<1>3. C = [i \in 1..17 |-> C[i]]  BY DEF Targets!TargetsDtoM
<1>4. D = [i \in 1..21 |-> D[i]]  BY DEF Targets!TargetsMtoZ
<1>5. table = ((A \o B) \o C) \o D  BY DEF Targets!AGENT_TARGETS
<1> HIDE DEF A, B, C, D, table
<1>6. /\ A \in [1..19 -> E] /\ B \in [1..16 -> E] /\ C \in [1..17 -> E] /\ D \in [1..21 -> E]
  BY <1>1, <1>2, <1>3, <1>4
<1> HIDE DEF E
<1>7. /\ A \in Seq(E) /\ Len(A) = 19 /\ B \in Seq(E) /\ Len(B) = 16
      /\ C \in Seq(E) /\ Len(C) = 17 /\ D \in Seq(E) /\ Len(D) = 21
  BY <1>6, FunctionIsSeq
<1> DEFINE AB == A \o B
           ABC == AB \o C
<1>8. AB = A \o B /\ ABC = AB \o C /\ table = ABC \o D  BY <1>5
<1> HIDE DEF AB, ABC
<1>9. AB \in Seq(E) /\ Len(AB) = 35 /\ (\A i \in 1..19 : AB[i] = A[i]) /\ \A i \in 1..16 : AB[19 + i] = B[i]
  <2>1. Joins(AB, A, B, Len(A), Len(B), E)  BY <1>7, <1>8, Joined, Zenon
  <2>2. Joins(AB, A, B, 19, 16, E)  BY <1>7, <2>1
  <2> QED  BY ONLY <2>2 DEF Joins
<1>10. ABC \in Seq(E) /\ Len(ABC) = 52 /\ (\A i \in 1..35 : ABC[i] = AB[i]) /\ \A i \in 1..17 : ABC[35 + i] = C[i]
  <2>1. Joins(ABC, AB, C, Len(AB), Len(C), E)  BY <1>7, <1>8, <1>9, Joined, Zenon
  <2>2. Joins(ABC, AB, C, 35, 17, E)  BY <1>7, <1>9, <2>1
  <2> QED  BY ONLY <2>2 DEF Joins
<1>11. /\ table \in Seq(E) /\ Len(table) = 73
      /\ (\A i \in 1..52 : table[i] = ABC[i]) /\ \A i \in 1..21 : table[52 + i] = D[i]
  <2>1. Joins(table, ABC, D, Len(ABC), Len(D), E)  BY <1>7, <1>8, <1>10, Joined, Zenon
  <2>2. Joins(table, ABC, D, 52, 21, E)  BY <1>7, <1>10, <2>1
  <2> QED  BY ONLY <2>2 DEF Joins
<1>12. ASSUME NEW i \in 1..73
       PROVE  \/ i \in 1..19 /\ table[i] = A[i]
              \/ i - 19 \in 1..16 /\ table[i] = B[i - 19]
              \/ i - 35 \in 1..17 /\ table[i] = C[i - 35]
              \/ i - 52 \in 1..21 /\ table[i] = D[i - 52]
  <2>1. CASE i \in 1..19
    <3>1. i \in 1..35 /\ i \in 1..52  BY <2>1
    <3> QED  BY <1>9, <1>10, <1>11, <2>1, <3>1
  <2>2. CASE i - 19 \in 1..16
    <3>1. i \in 1..35 /\ i \in 1..52 /\ 19 + (i - 19) = i  BY <2>2
    <3>2. AB[19 + (i - 19)] = B[i - 19]  BY <1>9, <2>2
    <3> QED  BY <1>10, <1>11, <2>2, <3>1, <3>2
  <2>3. CASE i - 35 \in 1..17
    <3>1. i \in 1..52 /\ 35 + (i - 35) = i  BY <2>3
    <3>2. ABC[35 + (i - 35)] = C[i - 35]  BY <1>10, <2>3
    <3> QED  BY <1>11, <2>3, <3>1, <3>2
  <2>4. CASE i - 52 \in 1..21
    <3>1. 52 + (i - 52) = i  OBVIOUS
    <3>2. table[52 + (i - 52)] = D[i - 52]  BY <1>11, <2>4
    <3> QED  BY <2>4, <3>1, <3>2
  <2>5. i \in 1..19 \/ i - 19 \in 1..16 \/ i - 35 \in 1..17 \/ i - 52 \in 1..21  OBVIOUS
  <2> QED  BY <2>1, <2>2, <2>3, <2>4, <2>5
<1>13. Targets!Rows = {table[i] : i \in 1..73}
  <2>1. DOMAIN table = 1..73  BY <1>11
  <2> QED  BY <2>1 DEF Targets!Rows, Targets!ToSet, table
<1>14. table \in Seq(Targets!Rows)
  <2>1. table = [i \in 1..73 |-> table[i]]  BY <1>11
  <2>2. table \in [1..73 -> Targets!Rows]  BY <1>13, <2>1
  <2> QED  BY <2>2, FunctionIsSeq
<1>15. \A i \in 1..19 : A[i] \in Targets!Rows
  <2> TAKE i \in 1..19
  <2>1. i \in 1..35 /\ i \in 1..52 /\ i \in 1..73  OBVIOUS
  <2>2. table[i] = A[i]  BY <1>9, <1>10, <1>11, <2>1
  <2> QED  BY <1>13, <2>1, <2>2
<1>16. \A i \in 1..21 : D[i] \in Targets!Rows
  <2> TAKE i \in 1..21
  <2>1. 52 + i \in 1..73  OBVIOUS
  <2>2. table[52 + i] = D[i]  BY <1>11
  <2> QED  BY <1>13, <2>1, <2>2
<1>17. \A r \in Targets!Rows :
        \/ \E i \in 1..19 : r = A[i]
        \/ \E i \in 1..16 : r = B[i]
        \/ \E i \in 1..17 : r = C[i]
        \/ \E i \in 1..21 : r = D[i]
  BY <1>12, <1>13
<1> QED  BY <1>17, <1>14, <1>15, <1>16 DEF A, B, C, D, table

(* A row is known by its id; and where a directory is shared, a row that   *)
(* is detected has it for its own.                                         *)
LEMMA TableFits ==
  /\ \A r \in Targets!Rows : RowFits(r) /\ Targets!Row(r.id) = r
  /\ \A p \in SharedProjects : \E r \in Targets!Rows : r.detected /\ r.project = p
<1>1. \A r \in Targets!Rows : RowFits(r)  BY TableRows, BlocksFit
<1> DEFINE inA(r) == \E i \in 1..19 : r = Targets!OriginalTargets[i]
           inB(r) == \E i \in 1..16 : r = Targets!TargetsAtoD[i]
           inC(r) == \E i \in 1..17 : r = Targets!TargetsDtoM[i]
           inD(r) == \E i \in 1..21 : r = Targets!TargetsMtoZ[i]
<1>2. ASSUME NEW r \in Targets!Rows, NEW q \in Targets!Rows, r.id = q.id PROVE r = q
  <2>1. /\ inA(r) /\ inA(q) => r = q
        /\ inB(r) /\ inB(q) => r = q
        /\ inC(r) /\ inC(q) => r = q
        /\ inD(r) /\ inD(q) => r = q
    BY <1>2, BlocksDiffer
  <2>2. \A x, y : /\ ~(inA(x) /\ inB(y) /\ x.id = y.id)
                  /\ ~(inA(x) /\ inC(y) /\ x.id = y.id)
                  /\ ~(inA(x) /\ inD(y) /\ x.id = y.id)
                  /\ ~(inB(x) /\ inC(y) /\ x.id = y.id)
                  /\ ~(inB(x) /\ inD(y) /\ x.id = y.id)
                  /\ ~(inC(x) /\ inD(y) /\ x.id = y.id)
    <3> TAKE x, y
    <3>1. ~(inA(x) /\ inB(y) /\ x.id = y.id)  BY BlocksDiffer
    <3>2. ~(inA(x) /\ inC(y) /\ x.id = y.id)  BY BlocksDiffer
    <3>3. ~(inA(x) /\ inD(y) /\ x.id = y.id)  BY BlocksDiffer
    <3>4. ~(inB(x) /\ inC(y) /\ x.id = y.id)  BY BlocksDiffer
    <3>5. ~(inB(x) /\ inD(y) /\ x.id = y.id)  BY BlocksDiffer
    <3>6. ~(inC(x) /\ inD(y) /\ x.id = y.id)  BY BlocksDiffer
    <3> HIDE DEF inA, inB, inC, inD
    <3> QED  BY <3>1, <3>2, <3>3, <3>4, <3>5, <3>6
  <2>3. \A x \in Targets!Rows : inA(x) \/ inB(x) \/ inC(x) \/ inD(x)  BY TableRows
  <2> HIDE DEF inA, inB, inC, inD
  <2> QED  BY <1>2, <2>1, <2>2, <2>3
<1>3. \A r \in Targets!Rows : Targets!Row(r.id) = r  BY <1>2 DEF Targets!Row
<1>4. /\ Targets!OriginalTargets[5].detected /\ Targets!OriginalTargets[5].project = <<".agents", "skills">>
      /\ Targets!OriginalTargets[18].detected /\ Targets!OriginalTargets[18].project = <<".trae", "skills">>
      /\ Targets!TargetsMtoZ[4].detected /\ Targets!TargetsMtoZ[4].project = <<".qoder", "skills">>
      /\ Targets!TargetsMtoZ[17].detected /\ Targets!TargetsMtoZ[17].project = <<".zencoder", "skills">>
  BY DEF Targets!OriginalTargets, Targets!TargetsMtoZ, Targets!Own, Targets!Agent
<1>5. ASSUME NEW p \in SharedProjects PROVE \E r \in Targets!Rows : r.detected /\ r.project = p
  <2>1. /\ Targets!OriginalTargets[5] \in Targets!Rows /\ Targets!OriginalTargets[18] \in Targets!Rows
        /\ Targets!TargetsMtoZ[4] \in Targets!Rows /\ Targets!TargetsMtoZ[17] \in Targets!Rows
    BY TableRows
  <2> QED  BY <1>4, <2>1 DEF SharedProjects
<1> QED  BY <1>1, <1>3, <1>5

(* What exists shows the Agents whose paths it begins with.                *)
LEMMA Begins ==
  ASSUME NEW p, Path(p), Targets!Exists(p)
  PROVE  \E m \in markers : m[1] # "env" /\ m[1] = p[1]
<1>1. PICK m \in markers : m[1] # "env" /\ Targets!IsPrefix(p, m)  BY DEF Targets!Exists
<1>2. SubSeq(p, 1, Len(p)) = SubSeq(m, 1, Len(p))  BY <1>1 DEF Targets!IsPrefix
<1>3. 1 \in 1..Len(p)  BY DEF Path
<1>4. SubSeq(p, 1, Len(p))[1] = p[1] /\ SubSeq(m, 1, Len(p))[1] = m[1]
  BY <1>3 DEF Path
<1> QED  BY <1>1, <1>2, <1>4

(* No project marker is a bare directory.                                  *)
LEMMA MarkersAreOwn ==
  ASSUME NEW r \in Targets!Rows, NEW p \in Targets!ProjectMarkers(r.id)
  PROVE  Path(p) /\ p[1] \notin BareNames
<1>1. Targets!Row(r.id) = r /\ RowFits(r)  BY TableFits
<1>2. CASE r.id \in {"cline", "gemini-cli", "goose", "opencode", "roo", "antigravity", "hermes", "kiro", "kilo",
                    "droid", "trae", "codebuddy", "continue", "jazz"}
  <2>1. p = <<r.project[1]>>  BY <1>1, <1>2 DEF Targets!ProjectMarkers
  <2>2. r.project[1] \notin BareNames  BY <1>1, <1>2 DEF RowFits
  <2> QED  BY <2>1, <2>2, PathsAre
<1>3. CASE r.id \notin {"cline", "gemini-cli", "goose", "opencode", "roo", "antigravity", "hermes", "kiro", "kilo",
                       "droid", "trae", "codebuddy", "continue", "jazz"}
  <2>1. p \in {<<".claude">>, <<".cursor">>, <<".cursorrules">>, <<".windsurf">>, <<".windsurfrules">>,
              <<".codex">>, <<"AGENTS.md">>, <<"AGENTS.override.md">>, <<".agents", "skills">>,
              <<".github", "copilot-instructions.md">>, <<".github", "skills">>, <<".github", "instructions">>,
              <<".agents", "AGENTS.md">>, <<".zed">>, <<".openclaw">>}
    BY <1>3 DEF Targets!ProjectMarkers
  <2> QED  BY <2>1, PathsAre DEF BareNames
<1> QED  BY <1>2, <1>3

(* Places of a sequence are finitely many.                                 *)
LEMMA FiniteRange ==
  ASSUME NEW n \in Nat, NEW K \in SUBSET (1..n)
  PROVE  K \in SUBSET Nat /\ IsFiniteSet(K)
<1>1. IsFiniteSet(1..n)  BY FS_Interval
<1>2. IsFiniteSet(K)  BY <1>1, FS_Subset, Zenon
<1> QED  BY <1>2

(* The picked elements are those at the places.                            *)
LEMMA PickedSet ==
  ASSUME NEW X, NEW s \in Seq(X), NEW K \in SUBSET (1..Len(s))
  PROVE  /\ Targets!Picked(s, K) \in Seq(X)
         /\ Targets!ToSet(Targets!Picked(s, K)) = {s[k] : k \in K}
<1> DEFINE n == Cardinality(K)
           order == InOrder(K)
           t == [i \in 1..n |-> s[order[i]]]
<1>1. K \in SUBSET Nat /\ IsFiniteSet(K)
  <2>1. Len(s) \in Nat  OBVIOUS
  <2>2. K \in SUBSET Nat /\ IsFiniteSet(K)  BY <2>1, FiniteRange
  <2> QED  BY <2>2
<1>2. /\ n \in Nat
      /\ \A k \in K : \E i \in 1..n : order[i] = k
      /\ \A i \in 1..n : order[i] \in K
  BY <1>1, InOrderLists
<1>3. Targets!Picked(s, K) = Picked(s, K)
  BY Zenon DEF Targets!Picked, Picked, Targets!InOrder, InOrder, Targets!Cardinality, Cardinality
<1>4. Picked(s, K) = t  BY DEF Picked
<1> HIDE DEF n, order
<1>5. t \in [1..n -> X]
  <2>1. \A k \in K : s[k] \in X  OBVIOUS
  <2> QED  BY <1>2, <2>1
<1>6. t \in Seq(X) /\ DOMAIN t = 1..n  BY <1>2, <1>5, FunctionIsSeq
<1>7. {t[i] : i \in 1..n} = {s[k] : k \in K}  BY <1>2
<1> HIDE DEF t
<1> QED  BY <1>3, <1>4, <1>6, <1>7 DEF Targets!ToSet

(* The first of several places.                                            *)
LEMMA FirstPlace ==
  ASSUME NEW n \in Nat, NEW K \in SUBSET (1..n), K # {}
  PROVE  \E k \in K : \A j \in 1..(k - 1) : j \notin K
<1> DEFINE c == Cardinality(K)  t == InOrder(K)
<1>1. K \in SUBSET Nat /\ IsFiniteSet(K)  BY FiniteRange
<1>2. t \in [1..c -> K] /\ \A i, j \in 1..c : i < j => t[i] < t[j]  BY <1>1, InOrderIsOrdered DEF Ordered
<1>3. c \in Nat /\ \A x \in K : \E i \in 1..c : t[i] = x  BY <1>1, InOrderLists
<1> HIDE DEF c, t
<1>4. 1 \in 1..c
  <2>1. PICK i : i \in 1..c  BY <1>3
  <2> QED  BY <1>3, <2>1
<1>5. \A j \in K : t[1] <= j
  <2> TAKE j \in K
  <2>1. PICK i \in 1..c : t[i] = j  BY <1>3
  <2>2. i = 1 \/ 1 < i  OBVIOUS
  <2>3. t[1] \in Nat /\ t[i] \in Nat  BY <1>1, <1>2, <1>4
  <2> QED  BY <1>2, <1>4, <2>1, <2>2, <2>3
<1>6. t[1] \in K /\ t[1] \in Nat  BY <1>1, <1>2, <1>4
<1>7. \A j \in 1..(t[1] - 1) : ~(t[1] <= j)  BY <1>6
<1> QED  BY <1>5, <1>6, <1>7

(* Every Agent that was named is there, once.                              *)
LEMMA DeduplicatedSet ==
  ASSUME NEW X, NEW ids \in Seq(X)
  PROVE  Targets!Deduplicated(ids) \in Seq(X) /\ Targets!ToSet(Targets!Deduplicated(ids)) = Targets!ToSet(ids)
<1> DEFINE K == {i \in 1..Len(ids) : \A j \in 1..(i - 1) : ids[j] # ids[i]}
<1>0. DOMAIN ids = 1..Len(ids)  OBVIOUS
<1>1. Targets!Deduplicated(ids) = Targets!Picked(ids, K)  BY <1>0 DEF Targets!Deduplicated
<1>2. ASSUME NEW i \in 1..Len(ids) PROVE \E k \in K : ids[k] = ids[i]
  <2> DEFINE L == {j \in 1..Len(ids) : ids[j] = ids[i]}
  <2>1. PICK k \in L : \A j \in 1..(k - 1) : j \notin L
    <3>1. Len(ids) \in Nat /\ L # {} /\ L \in SUBSET (1..Len(ids))  OBVIOUS
    <3> HIDE DEF L
    <3> QED  BY <3>1, FirstPlace
  <2>2. \A j \in 1..(k - 1) : j \in 1..Len(ids)  OBVIOUS
  <2> QED  BY <2>1, <2>2
<1>3. K \in SUBSET (1..Len(ids))  OBVIOUS
<1> HIDE DEF K
<1>4. {ids[k] : k \in K} = {ids[i] : i \in 1..Len(ids)}  BY <1>2, <1>3
<1>5. /\ Targets!Picked(ids, K) \in Seq(X)
      /\ Targets!ToSet(Targets!Picked(ids, K)) = {ids[k] : k \in K}
  BY <1>3, PickedSet
<1>6. Targets!ToSet(ids) = {ids[i] : i \in 1..Len(ids)}  BY <1>0 DEF Targets!ToSet
<1> QED  BY <1>1, <1>4, <1>5, <1>6

(* The ids, in the order of the table.                                     *)
LEMMA IdsListed ==
  /\ Targets!Ids \in Seq(Targets!ToSet(Targets!Ids))
  /\ Len(Targets!Ids) = Len(Targets!AGENT_TARGETS)
<1> DEFINE table == Targets!AGENT_TARGETS
<1>1. Targets!Ids = [i \in DOMAIN table |-> table[i].id]  BY DEF Targets!Ids
<1>2. table \in Seq(Targets!Rows)  BY TableRows
<1> HIDE DEF table
<1>3. DOMAIN table = 1..Len(table) /\ Len(table) \in Nat  BY <1>2
<1>4. Targets!Ids \in [1..Len(table) -> Targets!ToSet(Targets!Ids)]  BY <1>1, <1>3 DEF Targets!ToSet
<1> QED  BY <1>3, <1>4, FunctionIsSeq DEF table

(* The Agents that are detected.                                           *)
DetectedIds == {r.id : r \in {q \in Targets!Rows : Targets!Detects(q)}}

(* What detection lists is what is detected.                               *)
LEMMA DetectedSet ==
  Targets!Detected \in Seq(Targets!ToSet(Targets!Ids)) /\ Targets!ToSet(Targets!Detected) = DetectedIds
<1> DEFINE table == Targets!AGENT_TARGETS
           K == {i \in DOMAIN table : Targets!Detects(table[i])}
<1>1. Targets!Detected = Targets!Picked(Targets!Ids, K)  BY DEF Targets!Detected
<1>2. Targets!Ids = [i \in DOMAIN table |-> table[i].id]  BY DEF Targets!Ids
<1>3. table \in Seq(Targets!Rows)  BY TableRows
<1>4. Targets!Rows = {table[i] : i \in DOMAIN table}  BY DEF Targets!Rows, Targets!ToSet
<1> HIDE DEF table
<1>5. DOMAIN table = 1..Len(table) /\ Len(table) \in Nat  BY <1>3
<1>6. Targets!Ids \in Seq(Targets!ToSet(Targets!Ids)) /\ Len(Targets!Ids) = Len(table)  BY IdsListed DEF table
<1>7. K \in SUBSET (1..Len(Targets!Ids))  BY <1>5, <1>6
<1>8. {Targets!Ids[k] : k \in K} = DetectedIds  BY <1>2, <1>4 DEF DetectedIds
<1> HIDE DEF K
<1> QED  BY <1>1, <1>6, <1>7, <1>8, PickedSet

(* The Agents that were selected are in the table; those that a detection  *)
(* selected are the detected ones; and a directory is recorded for the     *)
(* first of them that has it.                                              *)
TargetsInv ==
  /\ scope \in {"project", "global"} /\ request \in Requests
  /\ pc \in {"select", "install", "done"}
  /\ origin \in {"none", "explicit", "detected", "configured", "INVALID_TARGET", "TARGET_REQUIRED"}
  /\ selected \in Seq(Targets!ToSet(Targets!Ids))
  /\ pc = "select" => selected = <<>> /\ origin = "none"
  /\ origin = "detected" => Targets!ToSet(selected) = DetectedIds /\ DetectedIds # {}
  /\ pc = "done" /\ selected # <<>> => written = [root \in Targets!Roots |-> Targets!FirstAt(root)]

(* Nothing is selected at first.                                           *)
LEMMA TargetsInit == Targets!Init => TargetsInv
<1> SUFFICES ASSUME Targets!Init PROVE TargetsInv  OBVIOUS
<1>1. scope \in {"project", "global"}  BY TargetsAssumption DEF Targets!Init, Targets!TargetsAssumption
<1>2. <<>> \in Seq(Targets!ToSet(Targets!Ids))  OBVIOUS
<1> QED  BY <1>1, <1>2 DEF Targets!Init, TargetsInv

(* What was asked for by name is known, or refused.                        *)
LEMMA ParsedListed ==
  ASSUME request \in Requests
  PROVE  /\ Targets!Parses(request.agents) => Targets!Parsed(request.agents) \in Seq(Targets!ToSet(Targets!Ids))
         /\ request.configured \in Seq(Targets!ToSet(Targets!Ids))
<1>1. request.agents \in Seq(STRING) /\ request.configured \in Seq(Targets!ToSet(Targets!Ids))
  BY TargetsAssumption DEF Targets!TargetsAssumption
<1>2. ASSUME Targets!Parses(request.agents) PROVE Targets!Parsed(request.agents) \in Seq(Targets!ToSet(Targets!Ids))
  <2> DEFINE agents == request.agents
             X == Targets!ToSet(Targets!Ids)
  <2>1. CASE "all" \in Targets!ToSet(agents)  BY <2>1, IdsListed DEF Targets!Parsed
  <2>2. CASE "all" \notin Targets!ToSet(agents)
    <3>1. \A i \in DOMAIN agents : agents[i] \in X  BY <1>2, <2>2 DEF Targets!Parses, Targets!ToSet
    <3>2. Targets!Parsed(agents) = agents  BY <2>2 DEF Targets!Parsed
    <3>3. agents \in Seq(STRING)  BY <1>1
    <3> HIDE DEF agents, X
    <3>4. agents \in [1..Len(agents) -> X] /\ Len(agents) \in Nat  BY <3>1, <3>3
    <3>5. agents \in Seq(X)  BY <3>4, FunctionIsSeq
    <3> QED  BY <3>2, <3>5 DEF agents, X
  <2> QED  BY <2>1, <2>2
<1> QED  BY <1>1, <1>2

(* What is detected hangs on the scope and on what exists.                 *)
LEMMA DetectionStands ==
  ASSUME UNCHANGED <<scope, markers>>
  PROVE  DetectedIds' = DetectedIds
BY DEF DetectedIds, Targets!Detects, Targets!DetectsEnvironment, Targets!DetectsProject, Targets!DetectsInstalled,
       Targets!Exists

(* A selection is kept until it is written, and written as selected.       *)
LEMMA TargetsStep == TargetsInv /\ (Targets!Next \/ UNCHANGED Targets!vars) => TargetsInv'
<1> SUFFICES ASSUME TargetsInv, Targets!Next \/ UNCHANGED Targets!vars PROVE TargetsInv'  OBVIOUS
<1> DEFINE X == Targets!ToSet(Targets!Ids)
<1>1. CASE Targets!Select
  <2>1. pc = "select" /\ selected = <<>> /\ UNCHANGED <<scope, markers, request, written>>
    BY <1>1 DEF Targets!Select, TargetsInv
  <2>2. DetectedIds' = DetectedIds  BY <2>1, DetectionStands
  <2>3. \/ origin' \in {"INVALID_TARGET", "TARGET_REQUIRED"} /\ pc' = "done" /\ selected' = selected
        \/ /\ origin' = "explicit" /\ pc' = "install" /\ Targets!Parses(request.agents)
           /\ selected' = Targets!Deduplicated(Targets!Parsed(request.agents))
        \/ /\ origin' = "detected" /\ pc' = "install" /\ Targets!Detected # <<>>
           /\ selected' = Targets!Deduplicated(Targets!Detected)
        \/ /\ origin' = "configured" /\ pc' = "install"
           /\ selected' = Targets!Deduplicated(request.configured)
    BY <1>1 DEF Targets!Select
  <2>4. /\ Targets!Parses(request.agents) => Targets!Parsed(request.agents) \in Seq(X)
        /\ request.configured \in Seq(X) /\ Targets!Detected \in Seq(X)
        /\ Targets!ToSet(Targets!Detected) = DetectedIds
    BY ParsedListed, DetectedSet DEF TargetsInv
  <2>5. \A ids \in Seq(X) : /\ Targets!Deduplicated(ids) \in Seq(X)
                            /\ Targets!ToSet(Targets!Deduplicated(ids)) = Targets!ToSet(ids)
    BY DeduplicatedSet
  <2>6. Targets!Detected # <<>> => DetectedIds # {}
    <3>1. ASSUME NEW s \in Seq(X), s # <<>> PROVE Targets!ToSet(s) # {}
      <4> HIDE DEF X
      <4>1. Len(s) \in Nat /\ Len(s) # 0 /\ DOMAIN s = 1..Len(s)  BY <3>1, EmptySeq
      <4>2. 1 \in DOMAIN s  BY <4>1
      <4> QED  BY <4>2 DEF Targets!ToSet
    <3> QED  BY <2>4, <3>1
  <2>7. selected' \in Seq(X)
    <3>1. <<>> \in Seq(X)  OBVIOUS
    <3> HIDE DEF X
    <3> QED  BY <2>1, <2>3, <2>4, <2>5, <3>1
  <2>8. origin' = "detected" => Targets!ToSet(selected') = DetectedIds /\ DetectedIds # {}
    <3> HIDE DEF X
    <3> QED  BY <2>3, <2>4, <2>5, <2>6
  <2>9. pc' \in {"install", "done"} /\ (pc' = "done" => selected' = <<>>)  BY <2>1, <2>3
  <2>10. origin' \in {"none", "explicit", "detected", "configured", "INVALID_TARGET", "TARGET_REQUIRED"}  BY <2>3
  <2> QED  BY <2>1, <2>2, <2>7, <2>8, <2>9, <2>10 DEF TargetsInv, Targets!ToSet
<1>2. CASE Targets!Install
  <2>1. /\ pc = "install" /\ pc' = "done" /\ UNCHANGED <<scope, markers, request, selected, origin>>
        /\ written' = [root \in Targets!Roots |-> Targets!FirstAt(root)]
    BY <1>2 DEF Targets!Install
  <2>2. DetectedIds' = DetectedIds  BY <2>1, DetectionStands
  <2>3. Targets!Roots' = Targets!Roots /\ \A root : Targets!FirstAt(root)' = Targets!FirstAt(root)
    BY <2>1 DEF Targets!Roots, Targets!FirstAt, Targets!Root
  <2> QED  BY <2>1, <2>2, <2>3 DEF TargetsInv, Targets!ToSet
<1>3. CASE UNCHANGED Targets!vars
  <2>1. UNCHANGED <<scope, markers, request, selected, origin, written, pc>>  BY <1>3 DEF Targets!vars
  <2>2. DetectedIds' = DetectedIds  BY <2>1, DetectionStands
  <2>3. Targets!Roots' = Targets!Roots /\ \A root : Targets!FirstAt(root)' = Targets!FirstAt(root)
    BY <2>1 DEF Targets!Roots, Targets!FirstAt, Targets!Root
  <2> QED  BY <2>1, <2>2, <2>3 DEF TargetsInv, Targets!ToSet
<1> QED  BY <1>1, <1>2, <1>3 DEF Targets!Next

(* Whoever was selected finds the Skills.                                  *)
LEMMA TargetsAreServed == TargetsInv => Targets!TypeOK /\ Targets!TargetsServed /\ Targets!BareSelectsNothing
<1> SUFFICES ASSUME TargetsInv PROVE Targets!TypeOK /\ Targets!TargetsServed /\ Targets!BareSelectsNothing  OBVIOUS
<1> DEFINE X == Targets!ToSet(Targets!Ids)
<1>1. selected \in Seq(X)  BY DEF TargetsInv
<1>2. Targets!ToSet(selected) = {selected[i] : i \in DOMAIN selected}  BY DEF Targets!ToSet
<1>3. Targets!TypeOK  BY <1>1, <1>2 DEF TargetsInv, Targets!TypeOK
<1>4. ASSUME scope = "project", NEW q \in Targets!Rows, Targets!Detects(q)
      PROVE  \E m \in markers : m[1] \notin BareNames
  <2>1. CASE Targets!DetectsEnvironment(q.id)
    <3>1. PICK v : <<"env", v>> \in markers  BY <2>1 DEF Targets!DetectsEnvironment
    <3>2. <<"env", v>>[1] \notin BareNames  BY DEF BareNames
    <3> QED  BY <3>1, <3>2
  <2>2. CASE Targets!DetectsProject(q.id)
    <3>1. PICK p \in Targets!ProjectMarkers(q.id) : Targets!Exists(p)  BY <2>2 DEF Targets!DetectsProject
    <3> QED  BY <3>1, MarkersAreOwn, Begins
  <2>3. CASE ~Targets!Bare(q) /\ Targets!Exists(q.project)
    <3>1. Path(q.project)  BY TableFits DEF RowFits
    <3>2. q.project[1] \notin BareNames  BY <2>3 DEF Targets!Bare, BareNames
    <3> QED  BY <2>3, <3>1, <3>2, Begins
  <2> QED  BY <1>4, <2>1, <2>2, <2>3 DEF Targets!Detects
<1>5. Targets!BareSelectsNothing
  <2> SUFFICES ASSUME scope = "project", \A m \in markers : m[1] \in {"skills", "data"}, origin = "detected" PROVE FALSE
    BY DEF Targets!BareSelectsNothing
  <2>1. PICK q \in Targets!Rows : Targets!Detects(q)  BY DEF TargetsInv, DetectedIds
  <2> QED  BY <1>4, <2>1 DEF BareNames
<1>6. ASSUME pc = "done", selected # <<>> PROVE
        /\ \A id \in Targets!ToSet(selected) : Targets!Root(Targets!Row(id)) \in DOMAIN written
        /\ \A root \in DOMAIN written :
             Targets!Root(Targets!Row(written[root])) = root /\ written[root] \in Targets!ToSet(selected)
        /\ origin = "detected" => \A id \in Targets!ToSet(selected) : Targets!Row(id).detected
        /\ scope = "project" /\ origin = "detected" =>
             \A r \in Targets!Rows : ~r.detected /\ Targets!Exists(r.project) => r.project \in DOMAIN written
  <2> DEFINE place(i) == Targets!Root(Targets!Row(selected[i]))
  <2>1. written = [root \in Targets!Roots |-> Targets!FirstAt(root)]  BY <1>6 DEF TargetsInv
  <2>2. DOMAIN written = Targets!Roots /\ \A root \in Targets!Roots : written[root] = Targets!FirstAt(root)  BY <2>1
  <2>3. Targets!Roots = {place(i) : i \in DOMAIN selected}  BY DEF Targets!Roots
  <2>4. \A id \in Targets!ToSet(selected) : Targets!Root(Targets!Row(id)) \in Targets!Roots  BY <1>2, <2>3
  <2>5. ASSUME NEW root \in Targets!Roots
        PROVE  Targets!Root(Targets!Row(Targets!FirstAt(root))) = root /\ Targets!FirstAt(root) \in Targets!ToSet(selected)
    <3> DEFINE K == {i \in DOMAIN selected : place(i) = root}
    <3>1. Len(selected) \in Nat /\ DOMAIN selected = 1..Len(selected)  BY <1>1
    <3>2. K \in SUBSET (1..Len(selected)) /\ K # {}  BY <2>3, <3>1
    <3>3. PICK k \in K : \A j \in 1..(k - 1) : j \notin K
      <4> HIDE DEF K
      <4> QED  BY <3>1, <3>2, FirstPlace
    <3>4. \A j \in 1..(k - 1) : j \in DOMAIN selected  BY <3>1
    <3>5. k \in DOMAIN selected /\ place(k) = root /\ \A j \in 1..(k - 1) : place(j) # root  BY <3>3, <3>4
    <3>6. \E i \in DOMAIN selected : place(i) = root /\ Targets!FirstAt(root) = selected[i]
      <4> DEFINE first == CHOOSE i \in DOMAIN selected : place(i) = root /\ \A j \in 1..(i - 1) : place(j) # root
      <4>1. first \in DOMAIN selected /\ place(first) = root  BY <3>5
      <4>2. Targets!FirstAt(root) = selected[first]  BY DEF Targets!FirstAt
      <4> QED  BY <4>1, <4>2
    <3> QED  BY <1>2, <3>6
  <2>6. ASSUME origin = "detected", NEW id \in Targets!ToSet(selected) PROVE Targets!Row(id).detected
    <3>1. PICK q \in Targets!Rows : Targets!Detects(q) /\ id = q.id  BY <2>6 DEF TargetsInv, DetectedIds
    <3>2. Targets!Row(id) = q  BY <3>1, TableFits
    <3> QED  BY <3>1, <3>2 DEF Targets!Detects
  <2>7. ASSUME scope = "project", origin = "detected", NEW r \in Targets!Rows, ~r.detected, Targets!Exists(r.project)
        PROVE  r.project \in Targets!Roots
    <3>1. r.project \in SharedProjects  BY <2>7, TableFits DEF RowFits
    <3>2. PICK q \in Targets!Rows : q.detected /\ q.project = r.project  BY <3>1, TableFits
    <3>3. ~Targets!Bare(q)  BY <3>1, <3>2 DEF Targets!Bare, SharedProjects
    <3>4. Targets!Detects(q)  BY <2>7, <3>2, <3>3 DEF Targets!Detects
    <3>5. q.id \in Targets!ToSet(selected)  BY <2>7, <3>4 DEF TargetsInv, DetectedIds
    <3>6. Targets!Root(Targets!Row(q.id)) = r.project  BY <2>7, <3>2, TableFits DEF Targets!Root
    <3> QED  BY <2>4, <3>5, <3>6
  <2> QED  BY <2>2, <2>4, <2>5, <2>6, <2>7
<1> QED  BY <1>3, <1>5, <1>6 DEF Targets!TargetsServed

-----------------------------------------------------------------------------
(* All of the commands: each part keeps its invariant, whatever the others *)
(* would do.                                                               *)
CommandInv ==
  /\ part \in {"update", "install", "targets", "sync", "doctor", "session", "line", "two", "alone"}
  /\ part = "update" => UpdateInv
  /\ part = "install" => InstallInv
  /\ part = "targets" => TargetsInv
  /\ part = "sync" => SyncInv
  /\ part = "doctor" => DoctorInv
  /\ part = "session" => SessionInv
  /\ part = "line" => LineInv

(* One part begins.                                                        *)
LEMMA CommandInit == Init => CommandInv
<1> SUFFICES ASSUME Init PROVE CommandInv  OBVIOUS
<1>1. /\ part \in {"update", "install", "targets", "sync", "doctor", "session", "line", "two", "alone"}
      /\ part = "update" => Update!Init
      /\ part = "install" => Install!Init
      /\ part = "targets" => Targets!Init
      /\ part = "sync" => Sync!Init
      /\ part = "doctor" => Doctor!Init
      /\ part = "session" => Session!Init
      /\ part = "line" => Line!Init
  BY Zenon DEF Init, InitUpdate, InitInstall, InitTargets, InitSync, InitDoctor, InitSession, InitLine, InitAuth
<1> QED
  BY <1>1, UpdateInit, InstallInit, TargetsInit, SyncInit, DoctorInit, SessionInit, LineInit, Zenon DEF CommandInv

(* A step is one of the part that began.                                   *)
LEMMA CommandStep == CommandInv /\ [Next]_vars => CommandInv'
<1> SUFFICES ASSUME CommandInv, [Next]_vars PROVE CommandInv'  OBVIOUS
<1>1. part' = part  BY StepOfPart
<1>2. /\ part = "update" => UpdateInv'
      /\ part = "install" => InstallInv'
      /\ part = "targets" => TargetsInv'
      /\ part = "sync" => SyncInv'
      /\ part = "doctor" => DoctorInv'
      /\ part = "session" => SessionInv'
      /\ part = "line" => LineInv'
  BY StepOfPart, UpdateStep, InstallStep, TargetsStep, SyncStep, DoctorStep, SessionStep, LineStep, Zenon DEF CommandInv
<1> QED  BY <1>1, <1>2 DEF CommandInv

(* The state of every command has its type.                                *)
THEOREM CommandTypes == Spec => []TypesOK
<1>1. Init => CommandInv /\ AccountInv  BY CommandInit, AccountInit
<1>2. CommandInv /\ AccountInv /\ [Next]_vars => (CommandInv /\ AccountInv)'  BY CommandStep, AccountStep
<1>3. CommandInv /\ AccountInv => TypesOK
  <2> SUFFICES ASSUME CommandInv, AccountInv PROVE TypesOK  OBVIOUS
  <2>1. SyncInv => Sync!TypeOK
    BY DEF SyncInv, Recorded, Sync!TypeOK
  <2>2. DoctorInv => Doctor!TypeOK
    <3> SUFFICES ASSUME DoctorInv PROVE Doctor!TypeOK  OBVIOUS
    <3>1. DoctorTypes  BY DEF DoctorInv
    <3>2. foreign.entry \in BOOLEAN  BY <3>1 DEF DoctorTypes
    <3> QED  BY <3>1, <3>2, Zenon DEF DoctorTypes, Before, Away, Backed, Doctor!TypeOK
  <2>3. SessionInv => Session!TypeOK  BY DEF SessionInv
  <2>4. LineInv => Line!TypeOK  BY DEF LineInv
  <2>5. part = "two" => Two!TypeOK  BY TwoAgrees, TwoTheorems!AuthTyped, Zenon DEF AccountInv
  <2>6. part = "alone" => Alone!TypeOK  BY AloneAgrees, AloneTheorems!AuthTyped, Zenon DEF AccountInv
  <2>7. /\ part = "update" => Update!TypeOK
        /\ part = "install" => Install!TypeOK
        /\ part = "targets" => Targets!TypeOK
        /\ part = "sync" => Sync!TypeOK
        /\ part = "doctor" => Doctor!TypeOK
        /\ part = "session" => Session!TypeOK
        /\ part = "line" => Line!TypeOK
    BY <2>1, <2>2, <2>3, <2>4, UpdateTyped, InstallTyped, TargetsAreServed, Zenon DEF CommandInv
  <2>8. part \in {"update", "install", "targets", "sync", "doctor", "session", "line", "two", "alone"}  BY DEF CommandInv
  <2> QED  BY <2>5, <2>6, <2>7, <2>8 DEF TypesOK
<1> QED  BY <1>1, <1>2, <1>3, PTL DEF Spec

(* Nothing is installed but what was reviewed: an update goes forward from *)
(* unedited files of a verified source, with no behaviour that was neither *)
(* there nor approved, and says what it wrote; an install and a restore    *)
(* write the approved behaviours, the locked commits and what --direct     *)
(* asked for.                                                              *)
THEOREM CommandsWriteReviewed == Spec => OnlyReviewed
<1> DEFINE Kept == /\ part = "update" => Update!ForwardOnly /\ Update!SaysWhatItDid
                   /\ part = "install" => Install!OnlyApproved
<1>1. Init => CommandInv  BY CommandInit
<1>2. CommandInv /\ [Next]_vars => CommandInv'  BY CommandStep
<1>3. CommandInv /\ [Next]_vars => [Kept]_vars
  <2> SUFFICES ASSUME CommandInv, [Next]_vars PROVE Kept  OBVIOUS
  <2>1. part = "update" => Update!ForwardOnly /\ Update!SaysWhatItDid
    BY StepOfPart, UpdateForward, UpdateSays, Zenon DEF CommandInv
  <2>2. part = "install" => Install!OnlyApproved
    BY StepOfPart, InstallApproved, Zenon DEF CommandInv
  <2> QED  BY <2>1, <2>2
<1> QED  BY <1>1, <1>2, <1>3, PTL DEF Spec, OnlyReviewed

(* What the commands report is so: the plan of a check, the counts of add, *)
(* the Agents that are served and those a bare .skills or .data selects    *)
(* (none), what a session of run gave the Agent, the exit code, and the    *)
(* JSON that was asked for.                                                *)
THEOREM CommandReports == Spec => []ReportsAreTrue
<1>1. Init => CommandInv  BY CommandInit
<1>2. CommandInv /\ [Next]_vars => CommandInv'  BY CommandStep
<1>3. CommandInv => ReportsAreTrue
  <2> SUFFICES ASSUME CommandInv PROVE ReportsAreTrue  OBVIOUS
  <2>1. part = "update" => Update!PlanIsTrue  BY DEF CommandInv, UpdateInv
  <2>2. part = "install" => Install!ReportComplete  BY DEF CommandInv, InstallInv
  <2>3. part = "targets" => Targets!TargetsServed /\ Targets!BareSelectsNothing
    BY TargetsAreServed, Zenon DEF CommandInv
  <2>4. part = "session" => Session!GivenAsApproved  BY DEF CommandInv, SessionInv
  <2>5. part = "line" => Line!ExitIsTrue /\ Line!JsonIsJson  BY LineSafe DEF CommandInv
  <2> QED  BY <2>1, <2>2, <2>3, <2>4, <2>5 DEF ReportsAreTrue
<1> QED  BY <1>1, <1>2, <1>3, PTL DEF Spec

(* Whichever step of the doctor's action fails, or is the last, and        *)
(* whatever the user and skills.sh do meanwhile: a copy of the Skill is in *)
(* its place or in the backup, unless the recovery of a transaction that   *)
(* the store left open took it, and the record of skills.sh leaves its     *)
(* lockfile only with a copy of it in the backup.                          *)
THEOREM DoctorLosesNothing == Spec => []NothingIsLost
<1>1. Init => CommandInv  BY CommandInit
<1>2. CommandInv /\ [Next]_vars => CommandInv'  BY CommandStep
<1>3. CommandInv => NothingIsLost  BY DoctorSafe DEF CommandInv, NothingIsLost
<1> QED  BY <1>1, <1>2, <1>3, PTL DEF Spec

(* However syncs of any number of declarations interleave, one that        *)
(* commits honours every declaration of its Skills, leaves nothing for the *)
(* next, and writes over no file of the user.                              *)
THEOREM SyncsKeepAgreements == Spec => SyncKeepsAgreements
<1> DEFINE Kept == part = "sync" => Sync!DeclarationsHonoured /\ Sync!SyncSettles /\ Sync!KeepsUserFiles
<1>1. Init => CommandInv  BY CommandInit
<1>2. CommandInv /\ [Next]_vars => CommandInv'  BY CommandStep
<1>3. CommandInv /\ CommandInv' /\ [Next]_vars => [Kept]_vars
  <2> SUFFICES ASSUME CommandInv, CommandInv', [Next]_vars, part = "sync"
               PROVE  Sync!DeclarationsHonoured /\ Sync!SyncSettles /\ Sync!KeepsUserFiles
    OBVIOUS
  <2>1. part' = "sync" /\ (Sync!Next \/ UNCHANGED Sync!vars)  BY StepOfPart
  <2>2. SyncInv /\ SyncInv'  BY <2>1 DEF CommandInv
  <2>3. CASE Sync!Next
    BY <2>2, <2>3, SyncHonours, SyncIsDone, SyncSparesFiles
  <2>4. CASE UNCHANGED Sync!vars
    <3>1. UNCHANGED run  BY <2>4 DEF Sync!vars
    <3>2. \A d \in Declarations : ~Sync!CommitsPlan(d)
      BY <3>1 DEF Sync!CommitsPlan
    <3> QED  BY <3>1, <3>2 DEF Sync!DeclarationsHonoured, Sync!SyncSettles, Sync!KeepsUserFiles
  <2> QED  BY <2>1, <2>3, <2>4
<1> QED  BY <1>1, <1>2, <1>3, PTL DEF Spec, SyncKeepsAgreements
=============================================================================
