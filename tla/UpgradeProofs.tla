---------------------------- MODULE UpgradeProofs ----------------------------
(***************************************************************************)
(* Proofs about the upgrade, for every set of commands, workers, terminals *)
(* and releases and for every bound: who works on upgrade.json, what the   *)
(* user decides, which release is newer, what stands at the place of the   *)
(* executable, and that the configuration and the Skill of a Harness are   *)
(* kept.  What a download promises is proved of its module; here it is     *)
(* carried over.                                                           *)
(***************************************************************************)
EXTENDS Upgrade, SequenceTheorems, WellFoundedInduction, TLAPS

-----------------------------------------------------------------------------
(* The check.  Types of all that a step reads.                             *)
Key == [key: Check!Keys, prompt: BOOLEAN]

CheckTypes ==
  /\ file \in Check!UpgradeState
  /\ lock \in 0..MaxNow \cup {None}
  /\ dismissed \in Check!Versions \cup {None}
  /\ now \in 0..MaxNow /\ registry \in Check!Versions
  /\ pc \in [Commands -> {"idle", "dismissal", "drain", "ask", "plan", "record", "spawn", "command"}]
  /\ seen \in [Commands -> [state: Check!UpgradeState, now: 0..MaxNow]]
  /\ asked \in [Commands -> Check!Versions \cup {None}]
  /\ keys \in [Commands -> Seq(Key)]
  /\ cursor \in [Commands -> 0..2]
  /\ wpc \in [Workers -> {"idle", "start", "remove", "create", "read", "fetch", "write", "unlock"}]
  /\ wnow \in [Workers -> 0..MaxNow]
  /\ wseen \in [Workers -> Check!UpgradeState]

(* Only a release newer than the running one is ever asked about.          *)
AskedIsNewer ==
  \A p \in Commands :
    pc[p] \in {"dismissal", "drain", "ask"} => asked[p] \in Check!Versions /\ asked[p] > Current

(* The dismissal on disk is the user's last answer, and every key at the   *)
(* prompt was pressed there.                                               *)
Answered ==
  /\ dismissed = answer
  /\ FALSE \notin consent
  /\ \A p \in Commands : pc[p] = "ask" => \A i \in 1..Len(keys[p]) : keys[p][i].prompt

CheckInv == CheckTypes /\ AskedIsNewer /\ Check!LockExcludes /\ Answered

(* Nothing is asked, answered or locked yet.                               *)
LEMMA CheckInit == Check!Init => CheckInv
<1> SUFFICES ASSUME Check!Init PROVE CheckInv  OBVIOUS
<1>1. {Current, MaxVersion, Interval, MaxNow} \subseteq Nat /\ Interval \in 0..MaxNow
  BY CheckAssumption DEF Check!UpgradeAssumption
<1>2. file \in Check!UpgradeState  BY <1>1 DEF Check!Init, Check!UpgradeState
<1>3. CheckTypes  BY <1>1, <1>2 DEF Check!Init, CheckTypes
<1>4. AskedIsNewer /\ Check!LockExcludes /\ Answered
  BY DEF Check!Init, AskedIsNewer, Check!LockExcludes, Check!Holds, Answered
<1> QED  BY <1>3, <1>4 DEF CheckInv

(* What plan_upgrade offers is a release, and newer than the running one.  *)
LEMMA NoticeIsNewer ==
  ASSUME NEW state \in Check!UpgradeState
  PROVE  \/ Check!Notice(state) = None
         \/ Check!Notice(state) \in Check!Versions /\ Check!Notice(state) > Current
BY DEF Check!Notice, Check!UpgradeState

(* Every step of a command keeps the types.                                *)
LEMMA CommandTypes ==
  ASSUME CheckTypes, AskedIsNewer, NEW p \in Commands, Check!Command(p)
  PROVE  CheckTypes'
<1> USE DEF CheckTypes, Check!Goto, Check!command, Check!worker, Check!history
<1>0. MaxNow \in Nat /\ 0 \in 0..MaxNow  BY CheckAssumption DEF Check!UpgradeAssumption
<1>1. CASE Check!StartUpgrade(p)
  <2>1. Check!Notice(file) \in Check!Versions \cup {None}  BY NoticeIsNewer
  <2> QED  BY <1>1, <2>1 DEF Check!StartUpgrade
<1>2. CASE Check!CheckDismissed(p)  BY <1>2 DEF Check!CheckDismissed
<1>3. CASE Check!Drain(p)  BY <1>3 DEF Check!Drain
<1>4. CASE Check!MoveCursor(p)
  <2>1. keys' \in [Commands -> Seq(Key)]  BY <1>4 DEF Check!MoveCursor, Check!TakeKey
  <2>2. (cursor[p] + 2) % 3 \in 0..2 /\ (cursor[p] + 1) % 3 \in 0..2
    <3>1. cursor[p] = 0 \/ cursor[p] = 1 \/ cursor[p] = 2  OBVIOUS
    <3>2. 1 % 3 = 1 /\ 2 % 3 = 2 /\ 3 % 3 = 0 /\ 4 % 3 = 1  OBVIOUS
    <3> QED  BY <3>1, <3>2
  <2>3. cursor' \in [Commands -> 0..2]  BY <1>4, <2>2 DEF Check!MoveCursor
  <2> QED  BY <1>4, <2>1, <2>3 DEF Check!MoveCursor
<1>5. CASE Check!Choose(p)
  <2>1. keys' \in [Commands -> Seq(Key)]  BY <1>5 DEF Check!Choose, Check!TakeKey
  <2>2. dismissed' \in Check!Versions \cup {None}
    BY <1>5 DEF Check!Choose, AskedIsNewer
  <2> QED  BY <1>5, <2>1, <2>2 DEF Check!Choose
<1>6. CASE Check!AskFails(p)  BY <1>6 DEF Check!AskFails
<1>7. CASE Check!ReadState(p)
  <2>1. keys' \in [Commands -> Seq(Key)]  BY <1>7 DEF Check!ReadState
  <2>2. seen' \in [Commands -> [state: Check!UpgradeState, now: 0..MaxNow]]
    BY <1>7 DEF Check!ReadState
  <2> QED  BY <1>7, <2>1, <2>2 DEF Check!ReadState
<1>8. CASE Check!RecordCheck(p)
  <2>1. [seen[p].state EXCEPT !.checked = seen[p].now] \in Check!UpgradeState
    BY DEF Check!UpgradeState
  <2> QED  BY <1>8, <2>1 DEF Check!RecordCheck, Check!WriteState
<1>9. CASE Check!SpawnFails(p)  BY <1>9 DEF Check!SpawnFails
<1>10. CASE Check!EndCommand(p)  BY <1>0, <1>10 DEF Check!EndCommand
<1>11. ASSUME NEW w \in Workers, Check!SpawnWorker(p, w) PROVE CheckTypes'
  BY <1>11 DEF Check!SpawnWorker
<1>12. ASSUME NEW k \in Check!Keys, Check!Press(p, k) PROVE CheckTypes'
  <2>1. [key |-> k, prompt |-> pc[p] = "ask"] \in Key  BY DEF Key
  <2>2. keys' \in [Commands -> Seq(Key)]  BY <1>12, <2>1 DEF Check!Press
  <2> QED  BY <1>12, <2>2 DEF Check!Press
<1> QED
  BY <1>1, <1>2, <1>3, <1>4, <1>5, <1>6, <1>7, <1>8, <1>9, <1>10, <1>11, <1>12 DEF Check!Command

(* Every step of a worker keeps the types.                                 *)
LEMMA WorkerTypes ==
  ASSUME CheckTypes, NEW w \in Workers, Check!Worker(w)
  PROVE  CheckTypes'
<1> USE DEF CheckTypes, Check!GotoW, Check!Quiet, Check!command, Check!worker, Check!history
<1>0. MaxNow \in Nat /\ 0 \in 0..MaxNow  BY CheckAssumption DEF Check!UpgradeAssumption
<1>1. CASE Check!LookAtLock(w)  BY <1>1 DEF Check!LookAtLock
<1>2. CASE Check!RemoveStaleLock(w)  BY <1>2 DEF Check!RemoveStaleLock
<1>3. CASE Check!CreateLock(w)  BY <1>3 DEF Check!CreateLock
<1>4. CASE Check!WorkerReads(w)
  <2>1. [file EXCEPT !.checked = wnow[w]] \in Check!UpgradeState  BY DEF Check!UpgradeState
  <2> QED  BY <1>4, <2>1 DEF Check!WorkerReads
<1>5. CASE Check!Fetch(w)
  <2>1. [wseen[w] EXCEPT !.latest = registry] \in Check!UpgradeState  BY DEF Check!UpgradeState
  <2>2. wseen' \in [Workers -> Check!UpgradeState]  BY <1>5, <2>1 DEF Check!Fetch
  <2> QED  BY <1>5, <2>2 DEF Check!Fetch
<1>6. CASE Check!WorkerWrites(w)  BY <1>6 DEF Check!WorkerWrites, Check!WriteState
<1>7. CASE Check!Unlock(w)
  <2>1. [checked |-> 0, latest |-> None] \in Check!UpgradeState  BY <1>0 DEF Check!UpgradeState
  <2> QED  BY <1>0, <1>7, <2>1 DEF Check!Unlock
<1>8. CASE Check!WorkerDies(w)  BY <1>8 DEF Check!WorkerDies
<1> QED  BY <1>1, <1>2, <1>3, <1>4, <1>5, <1>6, <1>7, <1>8 DEF Check!Worker

(* Time and releases go on within their bounds.                            *)
LEMMA WorldTypes ==
  ASSUME CheckTypes, Check!Tick \/ Check!Publish
  PROVE  CheckTypes'
<1>1. MaxNow \in Nat /\ MaxVersion \in Nat  BY CheckAssumption DEF Check!UpgradeAssumption
<1>2. now' \in 0..MaxNow /\ registry' \in Check!Versions
  BY <1>1 DEF CheckTypes, Check!Tick, Check!Publish, Check!Versions
<1> QED
  BY <1>2 DEF CheckTypes, Check!Tick, Check!Publish, Check!command, Check!worker, Check!history

(* What a command asks about stays newer until it is asked again.          *)
LEMMA AskedStep ==
  ASSUME CheckTypes, AskedIsNewer, Check!Next
  PROVE  AskedIsNewer'
<1> USE DEF CheckTypes, AskedIsNewer
<1>1. ASSUME NEW p \in Commands, Check!StartUpgrade(p) PROVE AskedIsNewer'
  <2>1. asked' = [asked EXCEPT ![p] = Check!Notice(file)]
    BY <1>1 DEF Check!StartUpgrade
  <2>2. pc' = [pc EXCEPT ![p] = IF Check!Notice(file) = None THEN "plan" ELSE "dismissal"]
    BY <1>1 DEF Check!StartUpgrade, Check!Goto
  <2> QED  BY <2>1, <2>2, NoticeIsNewer
<1>2. ASSUME NEW p \in Commands, Check!EndCommand(p) PROVE AskedIsNewer'
  BY <1>2 DEF Check!EndCommand, Check!Goto
<1>3. ASSUME asked' = asked,
             \A p \in Commands :
               pc'[p] \in {"dismissal", "drain", "ask"} => pc[p] \in {"dismissal", "drain", "ask"}
      PROVE  AskedIsNewer'
  BY <1>3
<1>4. ASSUME NEW p \in Commands, Check!Command(p) PROVE AskedIsNewer'
  BY <1>1, <1>2, <1>3, <1>4
    DEF Check!Command, Check!CheckDismissed, Check!Drain, Check!MoveCursor, Check!Choose,
        Check!AskFails, Check!ReadState, Check!RecordCheck, Check!SpawnFails, Check!SpawnWorker,
        Check!Press, Check!Goto
<1>5. ASSUME NEW w \in Workers, Check!Worker(w) PROVE AskedIsNewer'
  BY <1>3, <1>5
    DEF Check!Worker, Check!LookAtLock, Check!RemoveStaleLock, Check!CreateLock, Check!WorkerReads,
        Check!Fetch, Check!WorkerWrites, Check!Unlock, Check!WorkerDies, Check!Quiet, Check!command
<1>6. ASSUME Check!Tick \/ Check!Publish PROVE AskedIsNewer'
  BY <1>3, <1>6 DEF Check!Tick, Check!Publish, Check!command
<1> QED  BY <1>4, <1>5, <1>6 DEF Check!Next

(* A worker at work came by create_new over no lock, and until a lock is   *)
(* stolen only the worker that made it takes it away.                      *)
LEMMA LockStep ==
  ASSUME CheckTypes, Check!LockExcludes, Check!Next
  PROVE  Check!LockExcludes'
<1> USE DEF CheckTypes, Check!LockExcludes, Check!Holds
<1>0. \A t \in 0..MaxNow : t # None
  BY CheckAssumption DEF Check!UpgradeAssumption
<1>1. ASSUME UNCHANGED <<lock, stolen>>,
             \A w \in Workers : Check!Holds(w)' => Check!Holds(w)
      PROVE  Check!LockExcludes'
  BY <1>1
<1>2. ASSUME NEW p \in Commands, Check!Command(p) PROVE Check!LockExcludes'
  BY <1>1, <1>2
    DEF Check!Command, Check!StartUpgrade, Check!CheckDismissed, Check!Drain, Check!MoveCursor,
        Check!Choose, Check!AskFails, Check!ReadState, Check!RecordCheck, Check!SpawnFails,
        Check!EndCommand, Check!SpawnWorker, Check!Press, Check!worker, Check!history
<1>3. ASSUME NEW w \in Workers, Check!CreateLock(w) PROVE Check!LockExcludes'
  <2>1. /\ stolen' = stolen
        /\ \/ lock = None /\ lock' = now /\ wpc' = [wpc EXCEPT ![w] = "read"]
           \/ lock' = lock /\ wpc' = [wpc EXCEPT ![w] = "idle"]
    BY <1>3 DEF Check!CreateLock, Check!GotoW
  <2>2. CASE lock = None /\ lock' = now /\ wpc' = [wpc EXCEPT ![w] = "read"]
    BY <1>0, <2>1, <2>2
  <2>3. CASE lock' = lock /\ wpc' = [wpc EXCEPT ![w] = "idle"]
    BY <2>1, <2>3
  <2> QED  BY <2>1, <2>2, <2>3
<1>4. ASSUME NEW w \in Workers, Check!Unlock(w) PROVE Check!LockExcludes'
  BY <1>4 DEF Check!Unlock, Check!GotoW
<1>5. ASSUME NEW w \in Workers, Check!RemoveStaleLock(w) PROVE Check!LockExcludes'
  BY <1>5 DEF Check!RemoveStaleLock
<1>6. ASSUME NEW w \in Workers, Check!Worker(w) PROVE Check!LockExcludes'
  BY <1>1, <1>3, <1>4, <1>5, <1>6
    DEF Check!Worker, Check!LookAtLock, Check!WorkerReads, Check!Fetch, Check!WorkerWrites,
        Check!WorkerDies, Check!GotoW, Check!history
<1>7. CASE Check!Tick \/ Check!Publish
  BY <1>1, <1>7 DEF Check!Tick, Check!Publish, Check!worker, Check!history
<1> QED  BY <1>2, <1>6, <1>7 DEF Check!Next

(* Nobody but a user who answers writes upgrade-dismissed, and the prompt  *)
(* begins with no key waiting.                                             *)
LEMMA AnsweredStep ==
  ASSUME CheckTypes, Answered, Check!Next
  PROVE  Answered'
<1> USE DEF CheckTypes, Answered
<1>1. ASSUME UNCHANGED <<dismissed, answer, consent>>,
             \A p \in Commands : pc'[p] = "ask" => pc[p] = "ask" /\ keys'[p] = keys[p]
      PROVE  Answered'
  BY <1>1
<1>2. ASSUME NEW p \in Commands, NEW k \in Check!Keys, Check!Press(p, k) PROVE Answered'
  <2> DEFINE pressed == [key |-> k, prompt |-> pc[p] = "ask"]
  <2>1. keys' = [keys EXCEPT ![p] = Append(@, pressed)]  BY <1>2 DEF Check!Press
  <2>2. UNCHANGED <<dismissed, answer, consent, pc>>  BY <1>2 DEF Check!Press, Check!history
  <2>3. ASSUME pc[p] = "ask" PROVE \A i \in 1..Len(keys'[p]) : keys'[p][i].prompt
    <3>1. pressed \in Key /\ pressed.prompt = TRUE  BY <2>3 DEF Key
    <3>2. keys'[p] = Append(keys[p], pressed)  BY <2>1
    <3> HIDE DEF pressed
    <3>3. keys[p] \in Seq(Key) /\ Len(keys[p]) \in Nat  BY LenProperties
    <3>4. /\ Len(keys'[p]) = Len(keys[p]) + 1
          /\ \A i \in 1..Len(keys[p]) : keys'[p][i] = keys[p][i]
          /\ keys'[p][Len(keys[p]) + 1] = pressed
      BY <3>1, <3>2, <3>3, AppendProperties
    <3>5. \A i \in 1..(Len(keys[p]) + 1) : i \in 1..Len(keys[p]) \/ i = Len(keys[p]) + 1
      BY <3>3
    <3> QED  BY <2>3, <3>1, <3>4, <3>5
  <2> QED  BY <2>1, <2>2, <2>3
<1>3. ASSUME NEW p \in Commands, Check!Drain(p) PROVE Answered'
  <2>1. \A i \in 1..Len(keys'[p]) : FALSE  BY <1>3 DEF Check!Drain
  <2>2. \A q \in Commands \ {p} : pc'[q] = pc[q] /\ keys'[q] = keys[q]
    BY <1>3 DEF Check!Drain, Check!Goto
  <2>3. UNCHANGED <<dismissed, answer, consent>>  BY <1>3 DEF Check!Drain, Check!history
  <2> QED  BY <2>1, <2>2, <2>3
<1>4. ASSUME NEW p \in Commands, keys[p] # <<>>, Check!TakeKey(p), pc[p] = "ask"
      PROVE  /\ Head(keys[p]).prompt
             /\ \A i \in 1..Len(keys'[p]) : keys'[p][i].prompt
  BY <1>4 DEF Check!TakeKey
<1>5. ASSUME NEW p \in Commands, Check!MoveCursor(p) PROVE Answered'
  <2>1. UNCHANGED <<dismissed, answer, consent, pc>>  BY <1>5 DEF Check!MoveCursor, Check!history
  <2>2. /\ \A q \in Commands \ {p} : keys'[q] = keys[q]
        /\ \A i \in 1..Len(keys'[p]) : keys'[p][i].prompt
    BY <1>4, <1>5 DEF Check!MoveCursor, Check!TakeKey
  <2> QED  BY <2>1, <2>2
<1>6. ASSUME NEW p \in Commands, Check!Choose(p) PROVE Answered'
  <2>1. dismissed' = answer'  BY <1>6 DEF Check!Choose
  <2>2. Head(keys[p]).prompt = TRUE
    BY <1>4, <1>6 DEF Check!Choose, Key
  <2>3. FALSE \notin consent'  BY <1>6, <2>2 DEF Check!Choose
  <2>4. \A q \in Commands : pc'[q] = "ask" => q # p /\ pc[q] = "ask" /\ keys'[q] = keys[q]
    BY <1>6 DEF Check!Choose, Check!TakeKey, Check!Goto
  <2> QED  BY <2>1, <2>3, <2>4
<1>7. ASSUME NEW p \in Commands, Check!Command(p) PROVE Answered'
  BY <1>1, <1>2, <1>3, <1>5, <1>6, <1>7
    DEF Check!Command, Check!StartUpgrade, Check!CheckDismissed, Check!AskFails, Check!ReadState,
        Check!RecordCheck, Check!WriteState, Check!SpawnFails, Check!EndCommand,
        Check!SpawnWorker, Check!Goto, Check!history
<1>8. ASSUME NEW w \in Workers, Check!Worker(w) PROVE Answered'
  BY <1>1, <1>8
    DEF Check!Worker, Check!LookAtLock, Check!RemoveStaleLock, Check!CreateLock, Check!WorkerReads,
        Check!Fetch, Check!WorkerWrites, Check!WriteState, Check!Unlock, Check!WorkerDies,
        Check!Quiet, Check!command, Check!history
<1>9. CASE Check!Tick \/ Check!Publish
  BY <1>1, <1>9 DEF Check!Tick, Check!Publish, Check!command, Check!history
<1> QED  BY <1>7, <1>8, <1>9 DEF Check!Next

(* Every step of the check, or of another part, keeps the invariant.       *)
LEMMA CheckStep == CheckInv /\ [Check!Next]_checkVars => CheckInv'
<1> SUFFICES ASSUME CheckInv, [Check!Next]_checkVars PROVE CheckInv'  OBVIOUS
<1>1. CASE Check!Next
  <2>1. CheckTypes'
    BY <1>1, CommandTypes, WorkerTypes, WorldTypes DEF CheckInv, Check!Next
  <2> QED  BY <1>1, <2>1, AskedStep, LockStep, AnsweredStep DEF CheckInv
<1>2. CASE UNCHANGED checkVars
  BY <1>2
    DEF checkVars, CheckInv, CheckTypes, AskedIsNewer, Check!LockExcludes, Check!Holds, Answered
<1> QED  BY <1>1, <1>2

-----------------------------------------------------------------------------
(* What the user decides: the actions of the two properties.               *)
NotDismissed == \A p \in Commands : pc[p] = "dismissal" /\ pc'[p] = "drain" => asked[p] # answer

AtPrompt == FALSE \notin consent'

(* The dismissal is read in the step that goes to the prompt, and no other *)
(* step goes there.                                                        *)
LEMMA DecisionStep == CheckInv /\ [Check!Next]_checkVars => NotDismissed /\ AtPrompt
<1> SUFFICES ASSUME CheckInv, [Check!Next]_checkVars PROVE NotDismissed /\ AtPrompt  OBVIOUS
<1>1. AtPrompt  BY CheckStep DEF AtPrompt, CheckInv, Answered
<1>2. ASSUME NEW p \in Commands, pc[p] = "dismissal", pc'[p] = "drain" PROVE asked[p] # answer
  <2>1. PICK q \in Commands : Check!Command(q)
    BY <1>2
    DEF Check!Next, checkVars, Check!Tick, Check!Publish, Check!command, Check!Worker,
        Check!LookAtLock, Check!RemoveStaleLock, Check!CreateLock, Check!WorkerReads, Check!Fetch,
        Check!WorkerWrites, Check!Unlock, Check!WorkerDies, Check!Quiet
  <2>2. pc \in [Commands -> {"idle", "dismissal", "drain", "ask", "plan", "record", "spawn", "command"}]
    BY DEF CheckInv, CheckTypes
  <2>3. CASE Check!CheckDismissed(q)
    <3>1. q = p /\ dismissed # asked[p]
      BY <1>2, <2>2, <2>3 DEF Check!CheckDismissed, Check!Goto
    <3> QED  BY <3>1 DEF CheckInv, Answered
  <2>4. CASE ~Check!CheckDismissed(q)
    BY <1>2, <2>1, <2>2, <2>4
    DEF Check!Command, Check!StartUpgrade, Check!Drain, Check!MoveCursor, Check!Choose, Check!AskFails,
        Check!ReadState, Check!RecordCheck, Check!SpawnFails, Check!EndCommand, Check!SpawnWorker,
        Check!Press, Check!Goto
  <2> QED  BY <2>3, <2>4
<1> QED  BY <1>1, <1>2 DEF NotDismissed

-----------------------------------------------------------------------------
(* The configuration.  The name of the stage is what keeps writers apart:  *)
(* create_new makes it the lock of a set, and nobody but its writer takes  *)
(* it away (OneWriter).  So what a writer renames is what it wrote         *)
(* (Staged).                                                               *)
Holds(p) == setAt[p] \in {"write", "remove", "rename"}

OneWriter == \A p, q \in Terminals : Holds(p) /\ Holds(q) => p = q

Staged ==
  \A p \in Terminals :
    /\ setAt[p] \in Config!Writing => held[p] \in Config!Configs
    /\ setAt[p] = "write" => stage = Config!Torn
    /\ setAt[p] \in {"remove", "rename"} => stage = held[p]

ConfigInv == Config!TypeOK /\ OneWriter /\ Staged /\ Config!ConfigKept

(* A configuration is not a torn file, nor none.                           *)
LEMMA ConfigsAreWhole ==
  Config!Torn \notin Config!Configs /\ None \notin Config!Configs /\ None # Config!Torn
<1>1. ASSUME Config!Torn \in Config!Configs PROVE FALSE
  <2>1. DOMAIN Config!Torn = {"torn"}  BY DEF Config!Torn
  <2>2. DOMAIN Config!Torn = {"targets", "mode"}  BY <1>1 DEF Config!Configs
  <2> QED  BY <2>1, <2>2
<1> QED  BY <1>1, ReplacementAssumption, ReplacementAssumption DEF Config!ConfigAssumption

(* config_set keeps a configuration one: it writes a value that parses     *)
(* into the defaults or into what it read.                                 *)
LEMMA SetIsConfig ==
  ASSUME NEW c \in Config!Configs, NEW r \in Sets, Config!Settable(r)
  PROVE  Config!Set(c, r) \in Config!Configs
<1>1. CASE r.key = "install.mode"
  BY <1>1 DEF Config!Set, Config!Settable, Config!Configs, Config!Modes
<1>2. CASE r.key = "agent.targets"
  BY <1>2 DEF Config!Set, Config!Settable, Config!Configs, Config!TargetIds
<1> QED  BY <1>1, <1>2 DEF Config!Settable

(* Nothing is written yet.                                                 *)
LEMMA ConfigInit == Config!Init => ConfigInv
<1> SUFFICES ASSUME Config!Init PROVE ConfigInv  OBVIOUS
<1>1. Config!Defaults \in Config!Configs  BY DEF Config!Defaults, Config!Configs, Config!Modes, Config!TargetIds
<1>2. 0 \in 0..MaxSets /\ 0 \in 0..SetFaults  BY ReplacementAssumption DEF Config!ConfigAssumption
<1>3. Config!TypeOK  BY <1>1, <1>2 DEF Config!Init, Config!TypeOK
<1>4. OneWriter /\ Staged  BY DEF Config!Init, OneWriter, Staged, Holds, Config!Writing
<1>5. Config!ConfigKept  BY <1>1, ConfigsAreWhole DEF Config!Init, Config!ConfigKept
<1> QED  BY <1>3, <1>4, <1>5 DEF ConfigInv

(* Every step keeps the invariant: a set that finds no stage is alone.     *)
LEMMA ConfigStep == ConfigInv /\ [Config!Next]_configVars => ConfigInv'
<1> SUFFICES ASSUME ConfigInv, [Config!Next]_configVars PROVE ConfigInv'  OBVIOUS
<1> USE DEF ConfigInv
<1>0. Config!Torn \notin Config!Configs /\ None \notin Config!Configs /\ None # Config!Torn  BY ConfigsAreWhole
<1>1. ASSUME NEW p \in Terminals, Config!StartSet(p) PROVE ConfigInv'
  <2>1. PICK r \in Sets :
          /\ request' = [request EXCEPT ![p] = r]
          /\ IF Config!Read # Config!Torn /\ Config!Settable(r)
             THEN Config!Goto(p, "create") /\ held' = [held EXCEPT ![p] = Config!Set(Config!Read, r)]
             ELSE Config!Goto(p, "failed") /\ UNCHANGED held
    BY <1>1 DEF Config!StartSet
  <2>2. CASE Config!Read # Config!Torn /\ Config!Settable(r)
    <3>1. Config!Read \in Config!Configs
      BY <2>2 DEF Config!Read, Config!TypeOK, Config!Defaults, Config!Configs, Config!Modes, Config!TargetIds
    <3>2. Config!Set(Config!Read, r) \in Config!Configs  BY <2>2, <3>1, SetIsConfig
    <3>3. setAt' = [setAt EXCEPT ![p] = "create"] /\ held' = [held EXCEPT ![p] = Config!Set(Config!Read, r)]
      BY <2>1, <2>2 DEF Config!Goto
    <3>4. Config!TypeOK'
      BY <1>1, <2>1, <3>2, <3>3, ReplacementAssumption
         DEF Config!StartSet, Config!TypeOK, Config!Writing, Config!ConfigAssumption
    <3>5. OneWriter'  BY <3>3 DEF OneWriter, Holds, Config!TypeOK
    <3>6. Staged'  BY <1>1, <3>2, <3>3 DEF Config!StartSet, Staged, Config!Writing, Config!TypeOK
    <3>7. Config!ConfigKept'  BY <1>1 DEF Config!StartSet, Config!ConfigKept
    <3> QED  BY <3>4, <3>5, <3>6, <3>7
  <2>3. CASE ~(Config!Read # Config!Torn /\ Config!Settable(r))
    <3>1. setAt' = [setAt EXCEPT ![p] = "failed"] /\ held' = held
      BY <2>1, <2>3 DEF Config!Goto
    <3>2. Config!TypeOK'
      BY <1>1, <2>1, <3>1, ReplacementAssumption
         DEF Config!StartSet, Config!TypeOK, Config!Writing, Config!ConfigAssumption
    <3>3. OneWriter'  BY <3>1 DEF OneWriter, Holds, Config!TypeOK
    <3>4. Staged'  BY <1>1, <3>1 DEF Config!StartSet, Staged, Config!Writing, Config!TypeOK
    <3>5. Config!ConfigKept'  BY <1>1 DEF Config!StartSet, Config!ConfigKept
    <3> QED  BY <3>2, <3>3, <3>4, <3>5
  <2> QED  BY <2>2, <2>3
<1>2. ASSUME NEW p \in Terminals, Config!CreateStage(p) PROVE ConfigInv'
  <2>1. CASE stage = None
    <3>1. stage' = Config!Torn /\ setAt' = [setAt EXCEPT ![p] = "write"]
      BY <1>2, <2>1 DEF Config!CreateStage, Config!Goto
    <3>2. \A q \in Terminals : ~Holds(q)
      BY <1>0, <2>1 DEF Holds, Staged, Config!Writing
    <3>3. Config!TypeOK'  BY <1>2, <3>1 DEF Config!CreateStage, Config!TypeOK, Config!Writing
    <3>4. OneWriter'  BY <3>1, <3>2 DEF OneWriter, Holds, Config!TypeOK
    <3>5. Staged'  BY <1>2, <3>1, <3>2 DEF Config!CreateStage, Staged, Holds, Config!Writing, Config!TypeOK
    <3>6. Config!ConfigKept'  BY <1>0, <1>2, <2>1 DEF Config!CreateStage, Config!ConfigKept
    <3> QED  BY <3>3, <3>4, <3>5, <3>6
  <2>2. CASE stage # None
    <3>1. stage' = stage /\ setAt' = [setAt EXCEPT ![p] = "failed"]
      BY <1>2, <2>2 DEF Config!CreateStage, Config!Goto
    <3>2. Config!TypeOK'  BY <1>2, <3>1 DEF Config!CreateStage, Config!TypeOK, Config!Writing
    <3>3. OneWriter'  BY <3>1 DEF OneWriter, Holds, Config!TypeOK
    <3>4. Staged'  BY <1>2, <3>1 DEF Config!CreateStage, Staged, Config!Writing, Config!TypeOK
    <3>5. Config!ConfigKept'  BY <1>2, <3>1 DEF Config!CreateStage, Config!ConfigKept
    <3> QED  BY <3>2, <3>3, <3>4, <3>5
  <2> QED  BY <2>1, <2>2
<1>3. ASSUME NEW p \in Terminals, Config!WriteStage(p) PROVE ConfigInv'
  <2>1. held[p] \in Config!Configs  BY <1>3 DEF Config!WriteStage, Staged, Config!Writing
  <2>2. \A q \in Terminals : Holds(q) => q = p  BY <1>3 DEF Config!WriteStage, OneWriter, Holds
  <2>3. Config!TypeOK'  BY <1>3, <2>1 DEF Config!WriteStage, Config!Goto, Config!TypeOK, Config!Writing
  <2>4. OneWriter'  BY <1>3, <2>2 DEF Config!WriteStage, Config!Goto, OneWriter, Holds, Config!TypeOK
  <2>5. Staged'  BY <1>3, <2>1, <2>2 DEF Config!WriteStage, Config!Goto, Staged, Holds, Config!Writing, Config!TypeOK
  <2>6. Config!ConfigKept'  BY <1>3, <2>1 DEF Config!WriteStage, Config!ConfigKept
  <2> QED  BY <2>3, <2>4, <2>5, <2>6
<1>4. ASSUME NEW p \in Terminals, Config!RemoveOld(p) PROVE ConfigInv'
  <2>1. stage \in Config!Configs  BY <1>4 DEF Config!RemoveOld, Staged, Config!Writing
  <2>2. Config!TypeOK'  BY <1>4 DEF Config!RemoveOld, Config!Goto, Config!TypeOK, Config!Writing
  <2>3. OneWriter'  BY <1>4 DEF Config!RemoveOld, Config!Goto, OneWriter, Holds, Config!TypeOK
  <2>4. Staged'  BY <1>4 DEF Config!RemoveOld, Config!Goto, Staged, Config!Writing, Config!TypeOK
  <2>5. Config!ConfigKept'  BY <1>0, <1>4, <2>1 DEF Config!RemoveOld, Config!ConfigKept
  <2> QED  BY <2>2, <2>3, <2>4, <2>5
<1>5. ASSUME NEW p \in Terminals, Config!RenameStage(p) PROVE ConfigInv'
  <2>1. stage \in Config!Configs  BY <1>5 DEF Config!RenameStage, Staged, Config!Writing
  <2>2. /\ config' = stage /\ before' = stage /\ stage' = None
        /\ setAt' = [setAt EXCEPT ![p] = "ok"]
    BY <1>0, <1>5, <2>1 DEF Config!RenameStage, Config!Goto
  <2>3. \A q \in Terminals : Holds(q) => q = p  BY <1>5 DEF Config!RenameStage, OneWriter, Holds
  <2>4. Config!TypeOK'  BY <1>5, <2>1, <2>2 DEF Config!RenameStage, Config!TypeOK, Config!Writing
  <2>5. OneWriter'  BY <2>2 DEF OneWriter, Holds, Config!TypeOK
  <2>6. Staged'  BY <1>5, <2>2, <2>3 DEF Config!RenameStage, Staged, Holds, Config!Writing, Config!TypeOK
  <2>7. Config!ConfigKept'  BY <1>0, <2>1, <2>2 DEF Config!ConfigKept
  <2> QED  BY <2>4, <2>5, <2>6, <2>7
<1>6. ASSUME NEW p \in Terminals, Config!CallFails(p) \/ Config!Dies(p) PROVE ConfigInv'
  <2>1. /\ setAt' = [setAt EXCEPT ![p] = "failed"] \/ setAt' = [setAt EXCEPT ![p] = "dead"]
        /\ setFaults < SetFaults /\ setFaults' = setFaults + 1
        /\ UNCHANGED <<config, stage, request, held, before, sets>>
    BY <1>6 DEF Config!CallFails, Config!Dies, Config!Goto
  <2>2. Config!TypeOK'  BY <2>1, ReplacementAssumption DEF Config!TypeOK, Config!Writing, Config!ConfigAssumption
  <2>3. OneWriter'  BY <2>1 DEF OneWriter, Holds, Config!TypeOK
  <2>4. Staged'  BY <2>1 DEF Staged, Config!Writing, Config!TypeOK
  <2>5. Config!ConfigKept'  BY <2>1 DEF Config!ConfigKept
  <2> QED  BY <2>2, <2>3, <2>4, <2>5
<1>7. CASE UNCHANGED configVars
  BY <1>7 DEF configVars, Config!TypeOK, OneWriter, Holds, Staged, Config!ConfigKept
<1> QED  BY <1>1, <1>2, <1>3, <1>4, <1>5, <1>6, <1>7 DEF Config!Next

-----------------------------------------------------------------------------
(* The Harness.  The steps at which a run holds the lock file.             *)
Locked == {"stage", "fill", "aside", "promote", "rollback", "unlock", "unlock promoted"}
Early == {"start", "make", "look", "lock", "stage", "fill", "aside"}
Failing == {"unlock", "clean", "clean root", "failed"}

PromotionTypes == Harness!TypeOK /\ skill \in Harness!Whole \cup {None}

(* What is in the directories of a run, and what it has said of them.      *)
PreparedOf(r) ==
  /\ runAt[r] \in {"aside", "promote"} => next[r] = r
  /\ ~moved[r] => aside[r] = None
  /\ runAt[r] \in Early => ~moved[r]
  /\ moved[r] /\ runAt[r] \in {"promote", "rollback"} => aside[r] \in Harness!Whole
  /\ runAt[r] \in {"rollback", "drop"} => moved[r]
  /\ note[r] = "rollback" => runAt[r] \in Failing \cup {"dead"}
  /\ moved[r] /\ runAt[r] \in {"promote", "rollback"} /\ skill # None => edits > 0
  /\ runAt[r] \in Failing /\ aside[r] # None => note[r] = "rollback" \/ edits > 0
  /\ runAt[r] = "ok" => aside[r] = None \/ note[r] = "drop"

Prepared == \A r \in Runs : PreparedOf(r)

(* The files of a run that has not promoted them are nowhere.              *)
Unplaced ==
  \A r \in Runs :
    runAt[r] \notin {"unlock promoted", "drop", "ok", "dead"} =>
      skill # r /\ \A q \in Runs : aside[q] # r

PromotionInv == PromotionTypes /\ Harness!OneRunAtATime /\ Prepared /\ Harness!SkillKept /\ Unplaced

(* The special trees differ from each other and from those of the runs.    *)
LEMMA SkillsAreWhole ==
  ASSUME Harness!PromotionAssumption
  PROVE  /\ Harness!Part \notin Harness!Whole /\ None \notin Harness!Whole /\ None # Harness!Part
         /\ "user" \notin Runs /\ "old" \notin Runs /\ Runs \subseteq Harness!Whole
         /\ {"user", "old"} \subseteq Harness!Whole /\ None \notin Runs
         /\ RunFaults \in Nat /\ MaxEdits \in Nat
BY DEF Harness!PromotionAssumption, Harness!Whole, Harness!Part

(* The bounded counters are numbers.                                       *)
LEMMA Counters ==
  ASSUME Harness!PromotionAssumption, PromotionInv
  PROVE  /\ RunFaults \in Nat /\ runFaults \in 0..RunFaults
         /\ MaxEdits \in Nat /\ edits \in 0..MaxEdits
BY SkillsAreWhole DEF PromotionInv, PromotionTypes, Harness!TypeOK

(* Nothing has started, and the target is empty or holds the old Skill.    *)
LEMMA PromotionInit == Harness!PromotionAssumption /\ Harness!Init => PromotionInv
<1> SUFFICES ASSUME Harness!PromotionAssumption, Harness!Init PROVE PromotionInv  OBVIOUS
<1>0. skill \in {None, "old"}  BY DEF Harness!Init
<1>1. PromotionTypes
  <2>1. had \in BOOLEAN  BY Zenon DEF Harness!Init
  <2>2. root \in BOOLEAN  BY DEF Harness!Init
  <2>3. /\ runLock = None /\ runAt = [r \in Runs |-> "start"] /\ note = [r \in Runs |-> "none"]
        /\ next = [r \in Runs |-> None] /\ aside = [r \in Runs |-> None]
        /\ saw = [r \in Runs |-> FALSE] /\ created = [r \in Runs |-> FALSE]
        /\ moved = [r \in Runs |-> FALSE]
        /\ runFaults = 0 /\ edits = 0
    BY Zenon DEF Harness!Init
  <2>4. skill \in Harness!Trees /\ skill \in Harness!Whole \cup {None}  BY <1>0, SkillsAreWhole
      DEF Harness!Trees
  <2>5. runFaults \in 0..RunFaults /\ edits \in 0..MaxEdits  BY <2>3, SkillsAreWhole
  <2> QED  BY <2>1, <2>2, <2>3, <2>4, <2>5 DEF PromotionTypes, Harness!TypeOK, Harness!Trees,
                                               Harness!Ended
<1>2. Harness!OneRunAtATime  BY DEF Harness!Init, Harness!OneRunAtATime
<1>3. Prepared  BY DEF Harness!Init, Prepared, PreparedOf, Early, Failing
<1>4. Harness!SkillKept  BY <1>0, SkillsAreWhole DEF Harness!Init, Harness!SkillKept, Harness!Part,
                                                     Harness!PromotionAssumption
<1>5. Unplaced
  BY <1>0, SkillsAreWhole DEF Harness!Init, Unplaced, Harness!PromotionAssumption, Harness!Whole
<1> QED  BY <1>1, <1>2, <1>3, <1>4, <1>5 DEF PromotionInv

(* The steps before the lock write at most the root.                       *)
LEMMA FindRootKeeps ==
  ASSUME Harness!PromotionAssumption, PromotionInv, NEW r \in Runs, Harness!FindRoot(r)
  PROVE  PromotionInv'
<1> USE DEF PromotionInv, Harness!FindRoot, Harness!Goto
<1>1. PromotionTypes'  BY SkillsAreWhole DEF PromotionTypes, Harness!TypeOK, Harness!Trees,
                                             Harness!Ended, Prepared, PreparedOf, Early,
                                                 Harness!disk
<1>2. Harness!OneRunAtATime'  BY SkillsAreWhole DEF Harness!OneRunAtATime, PromotionTypes,
                                                    Harness!TypeOK, Harness!Ended, Harness!disk
<1>3. Prepared'  BY SkillsAreWhole
  DEF Prepared, PreparedOf, Harness!OneRunAtATime, PromotionTypes, Harness!TypeOK, Early, Failing,
      Harness!Ended, Harness!disk
<1>4. Harness!SkillKept'  BY SkillsAreWhole
  DEF Harness!SkillKept, Prepared, PreparedOf, PromotionTypes, Harness!TypeOK, Early, Failing,
      Harness!Ended, Harness!disk
<1>5. Unplaced'  BY SkillsAreWhole DEF Unplaced, Prepared, PreparedOf, PromotionTypes,
                                       Harness!TypeOK, Harness!Ended, Harness!disk
<1> QED  BY <1>1, <1>2, <1>3, <1>4, <1>5

LEMMA MakeRootKeeps ==
  ASSUME Harness!PromotionAssumption, PromotionInv, NEW r \in Runs, Harness!MakeRoot(r)
  PROVE  PromotionInv'
<1> USE DEF PromotionInv, Harness!MakeRoot, Harness!Goto
<1>1. PromotionTypes'  BY SkillsAreWhole DEF PromotionTypes, Harness!TypeOK, Harness!Trees,
                                             Harness!Ended, Prepared, PreparedOf, Early,
                                                 Harness!disk
<1>2. Harness!OneRunAtATime'  BY SkillsAreWhole DEF Harness!OneRunAtATime, PromotionTypes,
                                                    Harness!TypeOK, Harness!Ended, Harness!disk
<1>3. Prepared'  BY SkillsAreWhole
  DEF Prepared, PreparedOf, Harness!OneRunAtATime, PromotionTypes, Harness!TypeOK, Early, Failing,
      Harness!Ended, Harness!disk
<1>4. Harness!SkillKept'  BY SkillsAreWhole
  DEF Harness!SkillKept, Prepared, PreparedOf, PromotionTypes, Harness!TypeOK, Early, Failing,
      Harness!Ended, Harness!disk
<1>5. Unplaced'  BY SkillsAreWhole DEF Unplaced, Prepared, PreparedOf, PromotionTypes,
                                       Harness!TypeOK, Harness!Ended, Harness!disk
<1> QED  BY <1>1, <1>2, <1>3, <1>4, <1>5

LEMMA InspectKeeps ==
  ASSUME Harness!PromotionAssumption, PromotionInv, NEW r \in Runs, Harness!Inspect(r)
  PROVE  PromotionInv'
<1> USE DEF PromotionInv, Harness!Inspect, Harness!Goto
<1>1. PromotionTypes'  BY SkillsAreWhole DEF PromotionTypes, Harness!TypeOK, Harness!Trees,
                                             Harness!Ended, Prepared, PreparedOf, Early,
                                                 Harness!disk
<1>2. Harness!OneRunAtATime'  BY SkillsAreWhole DEF Harness!OneRunAtATime, PromotionTypes,
                                                    Harness!TypeOK, Harness!Ended, Harness!disk
<1>3. Prepared'  BY SkillsAreWhole
  DEF Prepared, PreparedOf, Harness!OneRunAtATime, PromotionTypes, Harness!TypeOK, Early, Failing,
      Harness!Ended, Harness!disk
<1>4. Harness!SkillKept'  BY SkillsAreWhole
  DEF Harness!SkillKept, Prepared, PreparedOf, PromotionTypes, Harness!TypeOK, Early, Failing,
      Harness!Ended, Harness!disk
<1>5. Unplaced'  BY SkillsAreWhole DEF Unplaced, Prepared, PreparedOf, PromotionTypes,
                                       Harness!TypeOK, Harness!Ended, Harness!disk
<1> QED  BY <1>1, <1>2, <1>3, <1>4, <1>5

(* A run enters only while the lock file is away, so while nobody is in.   *)
LEMMA TakeLockKeeps ==
  ASSUME Harness!PromotionAssumption, PromotionInv, NEW r \in Runs, Harness!TakeLock(r)
  PROVE  PromotionInv'
<1> USE DEF PromotionInv, Harness!TakeLock, Harness!Goto
<1>1. CASE root /\ runLock = None
  <2>1. runLock' = r /\ runAt' = [runAt EXCEPT ![r] = "stage"]
    BY <1>1
  <2>2. \A q \in Runs : runAt[q] \notin Locked
    BY SkillsAreWhole, <1>1 DEF Harness!OneRunAtATime, Locked
  <2>3. PromotionTypes'  BY SkillsAreWhole, <1>1, <2>1, <2>2
    DEF PromotionTypes, Harness!TypeOK, Harness!Trees, Harness!Ended, Prepared, PreparedOf, Early
  <2>4. Harness!OneRunAtATime'  BY SkillsAreWhole, <1>1, <2>1, <2>2
    DEF Harness!OneRunAtATime, PromotionTypes, Harness!TypeOK, Harness!Ended, Locked
  <2>5. Prepared'
    <3> SUFFICES ASSUME NEW q \in Runs PROVE PreparedOf(q)'  BY DEF Prepared
    <3>1. PreparedOf(q)  BY DEF Prepared
    <3>2. CASE q = r
      BY <3>1, <3>2, SkillsAreWhole, <1>1, <2>1, <2>2
      DEF PreparedOf, Harness!OneRunAtATime, PromotionTypes, Harness!TypeOK, Early, Failing,
          Harness!Ended, Locked
    <3>3. CASE q # r
      BY <3>1, <3>3, SkillsAreWhole, <1>1, <2>1, <2>2
      DEF PreparedOf, Harness!OneRunAtATime, PromotionTypes, Harness!TypeOK, Early, Failing,
          Harness!Ended, Locked
    <3> QED  BY <3>2, <3>3
  <2>6. Harness!SkillKept'  BY SkillsAreWhole, <1>1, <2>1, <2>2
    DEF Harness!SkillKept, Prepared, PreparedOf, PromotionTypes, Harness!TypeOK, Early, Failing,
        Harness!Ended
  <2>7. Unplaced'  BY SkillsAreWhole, <1>1, <2>1, <2>2
    DEF Unplaced, Prepared, PreparedOf, PromotionTypes, Harness!TypeOK, Harness!Ended
  <2> QED  BY <2>3, <2>4, <2>5, <2>6, <2>7
<1>2. CASE ~(root /\ runLock = None)
  <2>1. /\ runLock' = runLock
        /\ runAt' = [runAt EXCEPT ![r] = "busy"] \/ runAt' = [runAt EXCEPT ![r] = "refused"]
    BY <1>2
  <2>3. PromotionTypes'  BY SkillsAreWhole, <1>2, <2>1
    DEF PromotionTypes, Harness!TypeOK, Harness!Trees, Harness!Ended, Prepared, PreparedOf, Early
  <2>4. Harness!OneRunAtATime'  BY SkillsAreWhole, <1>2, <2>1 DEF Harness!OneRunAtATime,
      PromotionTypes, Harness!TypeOK, Harness!Ended, Locked
  <2>5. Prepared'
    <3> SUFFICES ASSUME NEW q \in Runs PROVE PreparedOf(q)'  BY DEF Prepared
    <3>1. PreparedOf(q)  BY DEF Prepared
    <3>2. CASE q = r
      BY <3>1, <3>2, SkillsAreWhole, <1>2, <2>1
      DEF PreparedOf, Harness!OneRunAtATime, PromotionTypes, Harness!TypeOK, Early, Failing,
          Harness!Ended, Locked
    <3>3. CASE q # r
      BY <3>1, <3>3, SkillsAreWhole, <1>2, <2>1
      DEF PreparedOf, Harness!OneRunAtATime, PromotionTypes, Harness!TypeOK, Early, Failing,
          Harness!Ended, Locked
    <3> QED  BY <3>2, <3>3
  <2>6. Harness!SkillKept'  BY SkillsAreWhole, <1>2, <2>1
    DEF Harness!SkillKept, Prepared, PreparedOf, PromotionTypes, Harness!TypeOK, Early, Failing,
        Harness!Ended
  <2>7. Unplaced'  BY SkillsAreWhole, <1>2, <2>1 DEF Unplaced, Prepared, PreparedOf,
                                                     PromotionTypes, Harness!TypeOK, Harness!Ended
  <2> QED  BY <2>3, <2>4, <2>5, <2>6, <2>7
<1> QED  BY <1>1, <1>2

(* Staging writes the run's own directory only.                            *)
LEMMA MakeStageKeeps ==
  ASSUME Harness!PromotionAssumption, PromotionInv, NEW r \in Runs, Harness!MakeStage(r)
  PROVE  PromotionInv'
<1> USE DEF PromotionInv, Harness!MakeStage, Harness!Goto
<1>1. PromotionTypes'  BY SkillsAreWhole DEF PromotionTypes, Harness!TypeOK, Harness!Trees,
                                             Harness!Ended, Prepared, PreparedOf, Early,
                                                 Harness!disk
<1>2. Harness!OneRunAtATime'  BY SkillsAreWhole DEF Harness!OneRunAtATime, PromotionTypes,
                                                    Harness!TypeOK, Harness!Ended, Harness!disk
<1>3. Prepared'  BY SkillsAreWhole
  DEF Prepared, PreparedOf, Harness!OneRunAtATime, PromotionTypes, Harness!TypeOK, Early, Failing,
      Harness!Ended, Harness!disk
<1>4. Harness!SkillKept'  BY SkillsAreWhole
  DEF Harness!SkillKept, Prepared, PreparedOf, PromotionTypes, Harness!TypeOK, Early, Failing,
      Harness!Ended, Harness!disk
<1>5. Unplaced'  BY SkillsAreWhole DEF Unplaced, Prepared, PreparedOf, PromotionTypes,
                                       Harness!TypeOK, Harness!Ended, Harness!disk
<1> QED  BY <1>1, <1>2, <1>3, <1>4, <1>5

LEMMA WriteFilesKeeps ==
  ASSUME Harness!PromotionAssumption, PromotionInv, NEW r \in Runs, Harness!WriteFiles(r)
  PROVE  PromotionInv'
<1> USE DEF PromotionInv, Harness!WriteFiles, Harness!Goto
<1>1. PromotionTypes'  BY SkillsAreWhole DEF PromotionTypes, Harness!TypeOK, Harness!Trees,
                                             Harness!Ended, Prepared, PreparedOf, Early,
                                                 Harness!disk
<1>2. Harness!OneRunAtATime'  BY SkillsAreWhole DEF Harness!OneRunAtATime, PromotionTypes,
                                                    Harness!TypeOK, Harness!Ended, Harness!disk
<1>3. Prepared'  BY SkillsAreWhole
  DEF Prepared, PreparedOf, Harness!OneRunAtATime, PromotionTypes, Harness!TypeOK, Early, Failing,
      Harness!Ended, Harness!disk
<1>4. Harness!SkillKept'  BY SkillsAreWhole
  DEF Harness!SkillKept, Prepared, PreparedOf, PromotionTypes, Harness!TypeOK, Early, Failing,
      Harness!Ended, Harness!disk
<1>5. Unplaced'  BY SkillsAreWhole DEF Unplaced, Prepared, PreparedOf, PromotionTypes,
                                       Harness!TypeOK, Harness!Ended, Harness!disk
<1> QED  BY <1>1, <1>2, <1>3, <1>4, <1>5

(* The Skill that is set aside lies whole in this run's .previous.         *)
LEMMA SetAsideKeeps ==
  ASSUME Harness!PromotionAssumption, PromotionInv, NEW r \in Runs, Harness!SetAside(r)
  PROVE  PromotionInv'
<1> USE DEF PromotionInv, Harness!SetAside, Harness!Goto
<1>1. CASE skill = None
  <2>1. runAt' = [runAt EXCEPT ![r] = "unlock"] /\ UNCHANGED <<skill, aside, moved>>
    BY <1>1
  <2>3. PromotionTypes'  BY SkillsAreWhole, <1>1, <2>1
    DEF PromotionTypes, Harness!TypeOK, Harness!Trees, Harness!Ended, Prepared, PreparedOf, Early
  <2>4. Harness!OneRunAtATime'  BY SkillsAreWhole, <1>1, <2>1 DEF Harness!OneRunAtATime,
      PromotionTypes, Harness!TypeOK, Harness!Ended, Locked
  <2>5. Prepared'  BY SkillsAreWhole, <1>1, <2>1
    DEF Prepared, PreparedOf, Harness!OneRunAtATime, PromotionTypes, Harness!TypeOK, Early,
        Failing, Harness!Ended, Locked
  <2>6. Harness!SkillKept'  BY SkillsAreWhole, <1>1, <2>1
    DEF Harness!SkillKept, Prepared, PreparedOf, PromotionTypes, Harness!TypeOK, Early, Failing,
        Harness!Ended
  <2>7. Unplaced'  BY SkillsAreWhole, <1>1, <2>1 DEF Unplaced, Prepared, PreparedOf,
                                                     PromotionTypes, Harness!TypeOK, Harness!Ended
  <2> QED  BY <2>3, <2>4, <2>5, <2>6, <2>7
<1>2. CASE skill # None
  <2>1. /\ aside' = [aside EXCEPT ![r] = skill] /\ skill' = None
          /\ moved' = [moved EXCEPT ![r] = TRUE] /\ runAt' = [runAt EXCEPT ![r] = "promote"]
    BY <1>2
  <2>2. skill \in Harness!Whole
    BY <1>2 DEF PromotionTypes
  <2>3. PromotionTypes'  BY SkillsAreWhole, <1>2, <2>1, <2>2
    DEF PromotionTypes, Harness!TypeOK, Harness!Trees, Harness!Ended, Prepared, PreparedOf, Early
  <2>4. Harness!OneRunAtATime'  BY SkillsAreWhole, <1>2, <2>1, <2>2
    DEF Harness!OneRunAtATime, PromotionTypes, Harness!TypeOK, Harness!Ended, Locked
  <2>5. Prepared'  BY SkillsAreWhole, <1>2, <2>1, <2>2
    DEF Prepared, PreparedOf, Harness!OneRunAtATime, PromotionTypes, Harness!TypeOK, Early,
        Failing, Harness!Ended, Locked
  <2>6. Harness!SkillKept'  BY SkillsAreWhole, <1>2, <2>1, <2>2
    DEF Harness!SkillKept, Prepared, PreparedOf, PromotionTypes, Harness!TypeOK, Early, Failing,
        Harness!Ended
  <2>7. Unplaced'  BY SkillsAreWhole, <1>2, <2>1, <2>2
    DEF Unplaced, Prepared, PreparedOf, PromotionTypes, Harness!TypeOK, Harness!Ended
  <2> QED  BY <2>3, <2>4, <2>5, <2>6, <2>7
<1> QED  BY <1>1, <1>2

(* The rename puts the whole of the run's files there; a Skill in the way  *)
(* of a run that set one aside is the user's, since no other run is in.    *)
LEMMA PromoteKeeps ==
  ASSUME Harness!PromotionAssumption, PromotionInv, NEW r \in Runs, Harness!Promote(r)
  PROVE  PromotionInv'
<1> USE DEF PromotionInv, Harness!Promote, Harness!Goto
<1>1. CASE skill = None
  <2>1. /\ skill' = r /\ next' = [next EXCEPT ![r] = None] /\ had' = TRUE
          /\ runAt' = [runAt EXCEPT ![r] = "unlock promoted"]
    BY <1>1 DEF Prepared, PreparedOf
  <2>2. \A q \in Runs : runAt[q] \in Locked => q = r
    BY SkillsAreWhole DEF Harness!OneRunAtATime, Locked
  <2>3. PromotionTypes'  BY SkillsAreWhole, <1>1, <2>1, <2>2
    DEF PromotionTypes, Harness!TypeOK, Harness!Trees, Harness!Ended, Prepared, PreparedOf, Early
  <2>4. Harness!OneRunAtATime'  BY SkillsAreWhole, <1>1, <2>1, <2>2
    DEF Harness!OneRunAtATime, PromotionTypes, Harness!TypeOK, Harness!Ended, Locked
  <2>5. Prepared'  BY SkillsAreWhole, <1>1, <2>1, <2>2
    DEF Prepared, PreparedOf, Harness!OneRunAtATime, PromotionTypes, Harness!TypeOK, Early,
        Failing, Harness!Ended, Locked
  <2>6. Harness!SkillKept'  BY SkillsAreWhole, <1>1, <2>1, <2>2
    DEF Harness!SkillKept, Prepared, PreparedOf, PromotionTypes, Harness!TypeOK, Early, Failing,
        Harness!Ended
  <2>7. Unplaced'  BY SkillsAreWhole, <1>1, <2>1, <2>2
    DEF Unplaced, Prepared, PreparedOf, PromotionTypes, Harness!TypeOK, Harness!Ended
  <2> QED  BY <2>3, <2>4, <2>5, <2>6, <2>7
<1>2. CASE skill # None /\ moved[r]
  <2>1. runAt' = [runAt EXCEPT ![r] = "rollback"] /\ UNCHANGED <<skill, next, had>>
    BY <1>2
  <2>3. PromotionTypes'  BY SkillsAreWhole, <1>2, <2>1
    DEF PromotionTypes, Harness!TypeOK, Harness!Trees, Harness!Ended, Prepared, PreparedOf, Early
  <2>4. Harness!OneRunAtATime'  BY SkillsAreWhole, <1>2, <2>1 DEF Harness!OneRunAtATime,
      PromotionTypes, Harness!TypeOK, Harness!Ended, Locked
  <2>5. Prepared'  BY SkillsAreWhole, <1>2, <2>1
    DEF Prepared, PreparedOf, Harness!OneRunAtATime, PromotionTypes, Harness!TypeOK, Early,
        Failing, Harness!Ended, Locked
  <2>6. Harness!SkillKept'  BY SkillsAreWhole, <1>2, <2>1
    DEF Harness!SkillKept, Prepared, PreparedOf, PromotionTypes, Harness!TypeOK, Early, Failing,
        Harness!Ended
  <2>7. Unplaced'  BY SkillsAreWhole, <1>2, <2>1 DEF Unplaced, Prepared, PreparedOf,
                                                     PromotionTypes, Harness!TypeOK, Harness!Ended
  <2> QED  BY <2>3, <2>4, <2>5, <2>6, <2>7
<1>3. CASE skill # None /\ ~moved[r]
  <2>1. runAt' = [runAt EXCEPT ![r] = "unlock"] /\ UNCHANGED <<skill, next, had>>
    BY <1>3
  <2>3. PromotionTypes'  BY SkillsAreWhole, <1>3, <2>1
    DEF PromotionTypes, Harness!TypeOK, Harness!Trees, Harness!Ended, Prepared, PreparedOf, Early
  <2>4. Harness!OneRunAtATime'  BY SkillsAreWhole, <1>3, <2>1 DEF Harness!OneRunAtATime,
      PromotionTypes, Harness!TypeOK, Harness!Ended, Locked
  <2>5. Prepared'  BY SkillsAreWhole, <1>3, <2>1
    DEF Prepared, PreparedOf, Harness!OneRunAtATime, PromotionTypes, Harness!TypeOK, Early,
        Failing, Harness!Ended, Locked
  <2>6. Harness!SkillKept'  BY SkillsAreWhole, <1>3, <2>1
    DEF Harness!SkillKept, Prepared, PreparedOf, PromotionTypes, Harness!TypeOK, Early, Failing,
        Harness!Ended
  <2>7. Unplaced'  BY SkillsAreWhole, <1>3, <2>1 DEF Unplaced, Prepared, PreparedOf,
                                                     PromotionTypes, Harness!TypeOK, Harness!Ended
  <2> QED  BY <2>3, <2>4, <2>5, <2>6, <2>7
<1> QED  BY <1>1, <1>2, <1>3

(* The rollback puts the Skill back, or the user's stays in its place.     *)
LEMMA RollBackKeeps ==
  ASSUME Harness!PromotionAssumption, PromotionInv, NEW r \in Runs, Harness!RollBack(r)
  PROVE  PromotionInv'
<1> USE DEF PromotionInv, Harness!RollBack, Harness!Goto
<1>1. CASE skill = None
  <2>1. /\ skill' = aside[r] /\ aside' = [aside EXCEPT ![r] = None]
          /\ runAt' = [runAt EXCEPT ![r] = "unlock"]
    BY <1>1
  <2>2. aside[r] \in Harness!Whole /\ moved[r]
    BY DEF Prepared, PreparedOf
  <2>3. PromotionTypes'  BY SkillsAreWhole, <1>1, <2>1, <2>2
    DEF PromotionTypes, Harness!TypeOK, Harness!Trees, Harness!Ended, Prepared, PreparedOf, Early
  <2>4. Harness!OneRunAtATime'  BY SkillsAreWhole, <1>1, <2>1, <2>2
    DEF Harness!OneRunAtATime, PromotionTypes, Harness!TypeOK, Harness!Ended, Locked
  <2>5. Prepared'
    <3> SUFFICES ASSUME NEW q \in Runs PROVE PreparedOf(q)'  BY DEF Prepared
    <3>1. PreparedOf(q)  BY DEF Prepared
    <3>2. CASE q = r
      BY <3>1, <3>2, SkillsAreWhole, <1>1, <2>1, <2>2
      DEF PreparedOf, Harness!OneRunAtATime, PromotionTypes, Harness!TypeOK, Early, Failing,
          Harness!Ended, Locked
    <3>3. CASE q # r
      BY <3>1, <3>3, SkillsAreWhole, <1>1, <2>1, <2>2
      DEF PreparedOf, Harness!OneRunAtATime, PromotionTypes, Harness!TypeOK, Early, Failing,
          Harness!Ended, Locked
    <3> QED  BY <3>2, <3>3
  <2>6. Harness!SkillKept'  BY SkillsAreWhole, <1>1, <2>1, <2>2
    DEF Harness!SkillKept, Prepared, PreparedOf, PromotionTypes, Harness!TypeOK, Early, Failing,
        Harness!Ended
  <2>7. Unplaced'  BY SkillsAreWhole, <1>1, <2>1, <2>2
    DEF Unplaced, Prepared, PreparedOf, PromotionTypes, Harness!TypeOK, Harness!Ended
  <2> QED  BY <2>3, <2>4, <2>5, <2>6, <2>7
<1>2. CASE skill # None
  <2>1. UNCHANGED <<skill, aside>> /\ runAt' = [runAt EXCEPT ![r] = "unlock"]
    BY <1>2
  <2>3. PromotionTypes'  BY SkillsAreWhole, <1>2, <2>1
    DEF PromotionTypes, Harness!TypeOK, Harness!Trees, Harness!Ended, Prepared, PreparedOf, Early
  <2>4. Harness!OneRunAtATime'  BY SkillsAreWhole, <1>2, <2>1 DEF Harness!OneRunAtATime,
      PromotionTypes, Harness!TypeOK, Harness!Ended, Locked
  <2>5. Prepared'
    <3> SUFFICES ASSUME NEW q \in Runs PROVE PreparedOf(q)'  BY DEF Prepared
    <3>1. PreparedOf(q)  BY DEF Prepared
    <3>2. CASE q = r
      BY <3>1, <3>2, SkillsAreWhole, <1>2, <2>1
      DEF PreparedOf, Harness!OneRunAtATime, PromotionTypes, Harness!TypeOK, Early, Failing,
          Harness!Ended, Locked
    <3>3. CASE q # r
      BY <3>1, <3>3, SkillsAreWhole, <1>2, <2>1
      DEF PreparedOf, Harness!OneRunAtATime, PromotionTypes, Harness!TypeOK, Early, Failing,
          Harness!Ended, Locked
    <3> QED  BY <3>2, <3>3
  <2>6. Harness!SkillKept'  BY SkillsAreWhole, <1>2, <2>1
    DEF Harness!SkillKept, Prepared, PreparedOf, PromotionTypes, Harness!TypeOK, Early, Failing,
        Harness!Ended
  <2>7. Unplaced'  BY SkillsAreWhole, <1>2, <2>1 DEF Unplaced, Prepared, PreparedOf,
                                                     PromotionTypes, Harness!TypeOK, Harness!Ended
  <2> QED  BY <2>3, <2>4, <2>5, <2>6, <2>7
<1> QED  BY <1>1, <1>2

(* The steps after the outcome is known leave the target alone.            *)
LEMMA UnlockKeeps ==
  ASSUME Harness!PromotionAssumption, PromotionInv, NEW r \in Runs, Harness!Unlock(r)
  PROVE  PromotionInv'
<1> USE DEF PromotionInv, Harness!Unlock, Harness!Goto
<1>1. PromotionTypes'  BY SkillsAreWhole DEF PromotionTypes, Harness!TypeOK, Harness!Trees,
                                             Harness!Ended, Prepared, PreparedOf, Early,
                                                 Harness!disk
<1>2. Harness!OneRunAtATime'  BY SkillsAreWhole DEF Harness!OneRunAtATime, PromotionTypes,
                                                    Harness!TypeOK, Harness!Ended, Harness!disk
<1>3. Prepared'  BY SkillsAreWhole
  DEF Prepared, PreparedOf, Harness!OneRunAtATime, PromotionTypes, Harness!TypeOK, Early, Failing,
      Harness!Ended, Harness!disk
<1>4. Harness!SkillKept'  BY SkillsAreWhole
  DEF Harness!SkillKept, Prepared, PreparedOf, PromotionTypes, Harness!TypeOK, Early, Failing,
      Harness!Ended, Harness!disk
<1>5. Unplaced'  BY SkillsAreWhole DEF Unplaced, Prepared, PreparedOf, PromotionTypes,
                                       Harness!TypeOK, Harness!Ended, Harness!disk
<1> QED  BY <1>1, <1>2, <1>3, <1>4, <1>5

LEMMA DropPreviousKeeps ==
  ASSUME Harness!PromotionAssumption, PromotionInv, NEW r \in Runs, Harness!DropPrevious(r)
  PROVE  PromotionInv'
<1> USE DEF PromotionInv, Harness!DropPrevious, Harness!Goto
<1>1. PromotionTypes'  BY SkillsAreWhole DEF PromotionTypes, Harness!TypeOK, Harness!Trees,
                                             Harness!Ended, Prepared, PreparedOf, Early,
                                                 Harness!disk
<1>2. Harness!OneRunAtATime'  BY SkillsAreWhole DEF Harness!OneRunAtATime, PromotionTypes,
                                                    Harness!TypeOK, Harness!Ended, Harness!disk
<1>3. Prepared'  BY SkillsAreWhole
  DEF Prepared, PreparedOf, Harness!OneRunAtATime, PromotionTypes, Harness!TypeOK, Early, Failing,
      Harness!Ended, Harness!disk
<1>4. Harness!SkillKept'  BY SkillsAreWhole
  DEF Harness!SkillKept, Prepared, PreparedOf, PromotionTypes, Harness!TypeOK, Early, Failing,
      Harness!Ended, Harness!disk
<1>5. Unplaced'  BY SkillsAreWhole DEF Unplaced, Prepared, PreparedOf, PromotionTypes,
                                       Harness!TypeOK, Harness!Ended, Harness!disk
<1> QED  BY <1>1, <1>2, <1>3, <1>4, <1>5

LEMMA CleanUpKeeps ==
  ASSUME Harness!PromotionAssumption, PromotionInv, NEW r \in Runs, Harness!CleanUp(r)
  PROVE  PromotionInv'
<1> USE DEF PromotionInv, Harness!CleanUp, Harness!Goto
<1>1. PromotionTypes'  BY SkillsAreWhole DEF PromotionTypes, Harness!TypeOK, Harness!Trees,
                                             Harness!Ended, Prepared, PreparedOf, Early,
                                                 Harness!disk
<1>2. Harness!OneRunAtATime'  BY SkillsAreWhole DEF Harness!OneRunAtATime, PromotionTypes,
                                                    Harness!TypeOK, Harness!Ended, Harness!disk
<1>3. Prepared'  BY SkillsAreWhole
  DEF Prepared, PreparedOf, Harness!OneRunAtATime, PromotionTypes, Harness!TypeOK, Early, Failing,
      Harness!Ended, Harness!disk
<1>4. Harness!SkillKept'  BY SkillsAreWhole
  DEF Harness!SkillKept, Prepared, PreparedOf, PromotionTypes, Harness!TypeOK, Early, Failing,
      Harness!Ended, Harness!disk
<1>5. Unplaced'  BY SkillsAreWhole DEF Unplaced, Prepared, PreparedOf, PromotionTypes,
                                       Harness!TypeOK, Harness!Ended, Harness!disk
<1> QED  BY <1>1, <1>2, <1>3, <1>4, <1>5

LEMMA RemoveRootKeeps ==
  ASSUME Harness!PromotionAssumption, PromotionInv, NEW r \in Runs, Harness!RemoveRoot(r)
  PROVE  PromotionInv'
<1> USE DEF PromotionInv, Harness!RemoveRoot, Harness!Empty, Harness!Goto
<1>1. PromotionTypes'  BY SkillsAreWhole DEF PromotionTypes, Harness!TypeOK, Harness!Trees,
                                             Harness!Ended, Prepared, PreparedOf, Early,
                                                 Harness!disk
<1>2. Harness!OneRunAtATime'  BY SkillsAreWhole DEF Harness!OneRunAtATime, PromotionTypes,
                                                    Harness!TypeOK, Harness!Ended, Harness!disk
<1>3. Prepared'  BY SkillsAreWhole
  DEF Prepared, PreparedOf, Harness!OneRunAtATime, PromotionTypes, Harness!TypeOK, Early, Failing,
      Harness!Ended, Harness!disk
<1>4. Harness!SkillKept'  BY SkillsAreWhole
  DEF Harness!SkillKept, Prepared, PreparedOf, PromotionTypes, Harness!TypeOK, Early, Failing,
      Harness!Ended, Harness!disk
<1>5. Unplaced'  BY SkillsAreWhole DEF Unplaced, Prepared, PreparedOf, PromotionTypes,
                                       Harness!TypeOK, Harness!Ended, Harness!disk
<1> QED  BY <1>1, <1>2, <1>3, <1>4, <1>5

(* A call that fails changes no directory but the one it was removing.     *)
LEMMA CallFailsKeeps ==
  ASSUME Harness!PromotionAssumption, PromotionInv, NEW r \in Runs, Harness!CallFails(r)
  PROVE  PromotionInv'
<1> USE DEF PromotionInv
<1> DEFINE to == Harness!AfterFailure(r)
<1>a. /\ runAt[r] \notin Harness!Ended /\ runFaults < RunFaults /\ runFaults' = runFaults + 1
      /\ runAt' = [runAt EXCEPT ![r] = to]
      /\ aside' = IF runAt[r] = "drop" THEN [aside EXCEPT ![r] = Harness!Part] ELSE aside
      /\ note' = [note EXCEPT ![r] = IF runAt[r] \in {"rollback", "drop"} THEN runAt[r] ELSE @]
      /\ UNCHANGED <<root, skill, runLock, next, saw, created, moved, had, edits>>
  BY DEF Harness!CallFails, Harness!Goto
<1>b. /\ runAt[r] \in {"stage", "fill", "aside", "rollback"} => to = "unlock"
      /\ runAt[r] = "promote" => to = IF moved[r] THEN "rollback" ELSE "unlock"
      /\ runAt[r] = "unlock" => to = "clean"
      /\ runAt[r] = "unlock promoted" => to = IF moved[r] THEN "drop" ELSE "ok"
      /\ runAt[r] = "drop" => to = "ok"
      /\ runAt[r] = "clean" => to \in {"clean root", "failed"}
      /\ runAt[r] = "clean root" => to = "failed"
      /\ runAt[r] \in {"start", "make", "look", "lock"} => to = "refused"
  BY DEF Harness!AfterFailure
<1>c. runAt[r] \in {"start", "make", "look", "lock", "stage", "fill", "aside", "promote",
    "rollback", "unlock",
                  "unlock promoted", "drop", "clean", "clean root"}
  BY <1>a DEF PromotionTypes, Harness!TypeOK
<1> HIDE DEF to
<1>1. PromotionTypes'
  <2>1. runFaults' \in 0..RunFaults  BY <1>a, Counters
  <2>2. runAt' \in [Runs -> Harness!Ended \cup {"start", "make", "look", "lock", "stage", "fill",
      "aside", "promote",
                   "rollback", "unlock", "unlock promoted", "drop", "clean", "clean root"}]
    BY <1>a, <1>b, <1>c DEF PromotionTypes, Harness!TypeOK, Harness!Ended
  <2>3. aside' \in [Runs -> Harness!Trees] /\ note' \in [Runs -> {"none", "rollback", "drop"}]
    BY <1>a DEF PromotionTypes, Harness!TypeOK, Harness!Trees
  <2> QED  BY <1>a, <2>1, <2>2, <2>3 DEF PromotionTypes, Harness!TypeOK
<1>2. Harness!OneRunAtATime'  BY SkillsAreWhole, <1>a, <1>b, <1>c DEF Harness!OneRunAtATime,
    PromotionTypes, Harness!TypeOK
<1>3. Prepared'
  <2> SUFFICES ASSUME NEW q \in Runs PROVE PreparedOf(q)'  BY DEF Prepared
  <2>1. PreparedOf(q)  BY DEF Prepared
  <2>2. CASE q = r
    <3>1. CASE runAt[r] = "promote"
      BY SkillsAreWhole, <1>a, <1>b, <2>1, <2>2, <3>1 DEF PreparedOf, PromotionTypes,
                                                          Harness!TypeOK, Early, Failing
    <3>2. CASE runAt[r] = "rollback"
      BY SkillsAreWhole, <1>a, <1>b, <2>1, <2>2, <3>2 DEF PreparedOf, PromotionTypes,
                                                          Harness!TypeOK, Early, Failing
    <3>3. CASE runAt[r] \in {"drop", "unlock promoted"}
      BY SkillsAreWhole, <1>a, <1>b, <2>1, <2>2, <3>3 DEF PreparedOf, PromotionTypes,
                                                          Harness!TypeOK, Early, Failing
    <3>4. CASE runAt[r] \in {"unlock", "clean", "clean root"}
      BY SkillsAreWhole, <1>a, <1>b, <2>1, <2>2, <3>4 DEF PreparedOf, PromotionTypes,
                                                          Harness!TypeOK, Early, Failing
    <3>5. CASE runAt[r] \in Early
      BY SkillsAreWhole, <1>a, <1>b, <2>1, <2>2, <3>5 DEF PreparedOf, PromotionTypes,
                                                          Harness!TypeOK, Early, Failing
    <3> QED  BY <1>c, <3>1, <3>2, <3>3, <3>4, <3>5 DEF Early
  <2>3. CASE q # r
    BY <1>a, <2>1, <2>3 DEF PreparedOf, PromotionTypes, Harness!TypeOK
  <2> QED  BY <2>2, <2>3
<1>4. Harness!SkillKept'
  BY SkillsAreWhole, <1>a, <1>b, <1>c DEF Harness!SkillKept, Prepared, PreparedOf, PromotionTypes,
                                          Harness!TypeOK, Early, Failing
<1>5. Unplaced'
  <2>1. \A q, s \in Runs : aside'[s] = q => aside[s] = q
    BY SkillsAreWhole, <1>a DEF PromotionTypes, Harness!TypeOK
  <2>2. \A q \in Runs :
          runAt'[q] \notin {"unlock promoted", "drop", "ok", "dead"} =>
            runAt[q] \notin {"unlock promoted", "drop", "ok", "dead"}
    BY <1>a, <1>b, <1>c DEF PromotionTypes, Harness!TypeOK, Harness!Ended
  <2> QED  BY <1>a, <2>1, <2>2 DEF Unplaced
<1> QED  BY <1>1, <1>2, <1>3, <1>4, <1>5

(* A dead run leaves everything where it is.                               *)
LEMMA DiesKeeps ==
  ASSUME Harness!PromotionAssumption, PromotionInv, NEW r \in Runs, Harness!Dies(r)
  PROVE  PromotionInv'
<1> USE DEF PromotionInv, Harness!Dies, Harness!Goto
<1>1. PromotionTypes'
  <2>1. runAt' = [runAt EXCEPT ![r] = "dead"] /\ runFaults < RunFaults /\ runFaults' = runFaults + 1
    OBVIOUS
  <2>2. runFaults' \in 0..RunFaults  BY <2>1, Counters
  <2> QED  BY SkillsAreWhole, <2>1, <2>2 DEF PromotionTypes, Harness!TypeOK, Harness!Ended,
                                             Harness!disk
<1>2. Harness!OneRunAtATime'  BY SkillsAreWhole DEF Harness!OneRunAtATime, PromotionTypes,
                                                    Harness!TypeOK, Harness!Ended, Harness!disk
<1>3. Prepared'  BY SkillsAreWhole
  DEF Prepared, PreparedOf, Harness!OneRunAtATime, PromotionTypes, Harness!TypeOK, Early, Failing,
      Harness!Ended, Harness!disk
<1>4. Harness!SkillKept'  BY SkillsAreWhole
  DEF Harness!SkillKept, Prepared, PreparedOf, PromotionTypes, Harness!TypeOK, Early, Failing,
      Harness!Ended, Harness!disk
<1>5. Unplaced'  BY SkillsAreWhole DEF Unplaced, Prepared, PreparedOf, PromotionTypes,
                                       Harness!TypeOK, Harness!Ended, Harness!disk
<1> QED  BY <1>1, <1>2, <1>3, <1>4, <1>5

(* The user puts a whole Skill, or takes one away.                         *)
LEMMA UserWritesKeeps ==
  ASSUME Harness!PromotionAssumption, PromotionInv, Harness!UserWrites
  PROVE  PromotionInv'
<1> USE DEF PromotionInv
<1>a. /\ skill' \in {"user", None} /\ edits < MaxEdits /\ edits' = edits + 1
      /\ UNCHANGED <<root, runLock, next, aside, runAt, saw, created, moved, note, runFaults>>
  BY Zenon DEF Harness!UserWrites
<1>1. PromotionTypes'
  <2>1. had' \in BOOLEAN  BY Zenon DEF Harness!UserWrites
  <2>2. skill' \in Harness!Whole \cup {None}  BY SkillsAreWhole, <1>a
  <2>3. skill' \in Harness!Trees  BY <2>2 DEF Harness!Trees
  <2>4. edits' \in 0..MaxEdits  BY <1>a, Counters
  <2> QED  BY <1>a, <2>1, <2>2, <2>3, <2>4 DEF PromotionTypes, Harness!TypeOK
<1>2. Harness!OneRunAtATime'  BY <1>a DEF Harness!OneRunAtATime
<1>3. Prepared'
  <2>1. edits' > 0  BY <1>a, Counters
  <2> QED  BY <1>a, <2>1 DEF Prepared, PreparedOf
<1>4. Harness!SkillKept'
  <2>1. skill' = None => ~had'  BY SkillsAreWhole DEF Harness!UserWrites
  <2> QED  BY SkillsAreWhole, <1>a, <2>1 DEF Harness!SkillKept
<1>5. Unplaced'  BY SkillsAreWhole, <1>a DEF Unplaced
<1> QED  BY <1>1, <1>2, <1>3, <1>4, <1>5

(* Every step keeps the invariant.                                         *)
LEMMA PromotionStep ==
  Harness!PromotionAssumption /\ PromotionInv /\ [Harness!Next]_harnessVars => PromotionInv'
<1> SUFFICES ASSUME Harness!PromotionAssumption, PromotionInv, [Harness!Next]_harnessVars
    PROVE PromotionInv'  OBVIOUS
<1>1. CASE Harness!UserWrites  BY <1>1, UserWritesKeeps
<1>2. ASSUME NEW r \in Runs, Harness!Step(r) PROVE PromotionInv'
  BY <1>2, FindRootKeeps, MakeRootKeeps, InspectKeeps, TakeLockKeeps, MakeStageKeeps,
     WriteFilesKeeps,
     SetAsideKeeps, PromoteKeeps, RollBackKeeps, UnlockKeeps, DropPreviousKeeps, CleanUpKeeps,
     RemoveRootKeeps, CallFailsKeeps, DiesKeeps
  DEF Harness!Step
<1>3. CASE UNCHANGED harnessVars
  BY <1>3
    DEF harnessVars, PromotionInv, PromotionTypes, Harness!TypeOK, Harness!OneRunAtATime, Prepared,
        PreparedOf, Harness!SkillKept, Unplaced
<1> QED  BY <1>1, <1>2, <1>3 DEF Harness!Next

(* What a run has answered follows from where its files are.               *)
LEMMA InvAnswers == PromotionInv => Harness!PromotionAnswers
BY DEF PromotionInv, Harness!PromotionAnswers, Unplaced, Prepared, PreparedOf, Failing

-----------------------------------------------------------------------------
(* The theorems of the installation, under the names they have here.       *)
UnixTheorems == INSTANCE UpgradeInstallProofs WITH
  Procs <- Terminals, Windows <- FALSE, MaxFaults <- UnixFaults, lock <- installLock, pc <- step

WindowsTheorems == INSTANCE UpgradeInstallProofs WITH
  Procs <- Terminals, Windows <- TRUE, MaxFaults <- WindowsFaults, lock <- installLock, pc <- step

(* The two installations are those of the theorems.                        *)
LEMMA UnixAgrees ==
  /\ UnixTheorems!InstallAssumption
  /\ Unix!Init => UnixTheorems!Init
  /\ [Unix!Next]_installVars => [UnixTheorems!Next]_(UnixTheorems!vars)
  /\ UnixTheorems!TypeOK => Unix!TypeOK
  /\ UnixTheorems!OnlyReleases => Unix!OnlyReleases
  /\ UnixTheorems!AlwaysInstalled => Unix!AlwaysInstalled
<1>1. UnixTheorems!InstallAssumption
  BY InstallAssumption, Zenon DEF Unix!InstallAssumption, UnixTheorems!InstallAssumption
<1>2. Unix!Init => UnixTheorems!Init
  BY Zenon DEF Unix!Init, Unix!NoProc, UnixTheorems!Init, UnixTheorems!NoProc
<1>3. ASSUME NEW p \in Terminals,
             Unix!Start(p) \/ Unix!Consent(p) \/ Unix!Decline(p) \/ Unix!Install(p) \/ Unix!Crash(p)
      PROVE  \/ UnixTheorems!Start(p) \/ UnixTheorems!Consent(p) \/ UnixTheorems!Decline(p)
             \/ UnixTheorems!Install(p) \/ UnixTheorems!Crash(p)
  <2>1. /\ Unix!Start(p) => UnixTheorems!Start(p)
        /\ Unix!Consent(p) => UnixTheorems!Consent(p)
        /\ Unix!Decline(p) => UnixTheorems!Decline(p)
        /\ Unix!TryLock(p) => UnixTheorems!TryLock(p)
        /\ Unix!CheckInstalled(p) => UnixTheorems!CheckInstalled(p)
        /\ Unix!FetchManifest(p) => UnixTheorems!FetchManifest(p)
        /\ Unix!VerifyManifest(p) => UnixTheorems!VerifyManifest(p)
        /\ Unix!FetchBinary(p) => UnixTheorems!FetchBinary(p)
        /\ Unix!VerifyAsset(p) => UnixTheorems!VerifyAsset(p)
    BY Zenon
    DEF Unix!Start, Unix!Consent, Unix!Decline, Unix!TryLock, Unix!CheckInstalled,
        Unix!FetchManifest, Unix!VerifyManifest, Unix!FetchBinary, Unix!VerifyAsset, Unix!Goto,
        Unix!EndProcess, Unix!End, Unix!Fail, Unix!NoProc, Unix!DropPrevious, Unix!InUse, Unix!disk,
        UnixTheorems!Start, UnixTheorems!Consent, UnixTheorems!Decline, UnixTheorems!TryLock,
        UnixTheorems!CheckInstalled, UnixTheorems!FetchManifest, UnixTheorems!VerifyManifest,
        UnixTheorems!FetchBinary, UnixTheorems!VerifyAsset, UnixTheorems!Goto,
        UnixTheorems!EndProcess, UnixTheorems!End, UnixTheorems!Fail, UnixTheorems!NoProc,
        UnixTheorems!DropPrevious, UnixTheorems!InUse, UnixTheorems!disk
  <2>2. /\ Unix!Stage(p) => UnixTheorems!Stage(p)
        /\ Unix!Write(p) => UnixTheorems!Write(p)
        /\ Unix!CheckVersion(p) => UnixTheorems!CheckVersion(p)
        /\ Unix!Swap(p) => UnixTheorems!Swap(p)
        /\ Unix!MoveAside(p) => UnixTheorems!MoveAside(p)
        /\ Unix!Finish(p) => UnixTheorems!Finish(p)
        /\ Unix!Crash(p) => UnixTheorems!Crash(p)
    BY Zenon
    DEF Unix!Stage, Unix!Write, Unix!CheckVersion, Unix!Swap, Unix!MoveAside, Unix!Finish,
        Unix!Crash, Unix!Goto, Unix!EndProcess, Unix!End, Unix!Fail, Unix!FailStaged, Unix!NoProc,
        Unix!DropPrevious, Unix!InUse, Unix!RollBack, Unix!DropStaged, Unix!disk, UnixTheorems!Stage,
        UnixTheorems!Write, UnixTheorems!CheckVersion, UnixTheorems!Swap, UnixTheorems!MoveAside,
        UnixTheorems!Finish, UnixTheorems!Crash, UnixTheorems!Goto, UnixTheorems!EndProcess,
        UnixTheorems!End, UnixTheorems!Fail, UnixTheorems!FailStaged, UnixTheorems!NoProc,
        UnixTheorems!DropPrevious, UnixTheorems!InUse, UnixTheorems!RollBack, UnixTheorems!DropStaged, UnixTheorems!disk
  <2> QED  BY <1>3, <2>1, <2>2, Zenon DEF Unix!Install, UnixTheorems!Install
<1>4. [Unix!Next]_installVars => [UnixTheorems!Next]_(UnixTheorems!vars)
  <2>1. UNCHANGED installVars => UNCHANGED UnixTheorems!vars
    BY DEF installVars, UnixTheorems!vars, UnixTheorems!disk, UnixTheorems!process
  <2> QED  BY <1>3, <2>1, Zenon DEF Unix!Next, UnixTheorems!Next
<1>5. /\ UnixTheorems!TypeOK => Unix!TypeOK
      /\ UnixTheorems!OnlyReleases => Unix!OnlyReleases
      /\ UnixTheorems!AlwaysInstalled => Unix!AlwaysInstalled
  BY Zenon
  DEF Unix!TypeOK, Unix!OnlyReleases, Unix!AlwaysInstalled, Unix!Contents,
      Unix!NoProc, UnixTheorems!TypeOK, UnixTheorems!OnlyReleases, UnixTheorems!AlwaysInstalled, UnixTheorems!Contents, UnixTheorems!NoProc
<1> QED  BY <1>1, <1>2, <1>4, <1>5, Zenon

(* The Windows swap runs with its own bound on the faults.                 *)
LEMMA WindowsAgrees ==
  /\ WindowsTheorems!InstallAssumption
  /\ OnWindows!Init => WindowsTheorems!Init
  /\ [OnWindows!Next]_installVars => [WindowsTheorems!Next]_(WindowsTheorems!vars)
  /\ WindowsTheorems!TypeOK => OnWindows!TypeOK
  /\ WindowsTheorems!OnlyReleases => OnWindows!OnlyReleases
  /\ WindowsTheorems!AlwaysInstalled => OnWindows!AlwaysInstalled
<1>1. WindowsTheorems!InstallAssumption
  BY InstallAssumption, Zenon DEF OnWindows!InstallAssumption, WindowsTheorems!InstallAssumption
<1>2. OnWindows!Init => WindowsTheorems!Init
  BY Zenon DEF OnWindows!Init, OnWindows!NoProc, WindowsTheorems!Init, WindowsTheorems!NoProc
<1>3. ASSUME NEW p \in Terminals,
             OnWindows!Start(p) \/ OnWindows!Consent(p) \/ OnWindows!Decline(p) \/ OnWindows!Install(p) \/ OnWindows!Crash(p)
      PROVE  \/ WindowsTheorems!Start(p) \/ WindowsTheorems!Consent(p) \/ WindowsTheorems!Decline(p)
             \/ WindowsTheorems!Install(p) \/ WindowsTheorems!Crash(p)
  <2>1. /\ OnWindows!Start(p) => WindowsTheorems!Start(p)
        /\ OnWindows!Consent(p) => WindowsTheorems!Consent(p)
        /\ OnWindows!Decline(p) => WindowsTheorems!Decline(p)
        /\ OnWindows!TryLock(p) => WindowsTheorems!TryLock(p)
        /\ OnWindows!CheckInstalled(p) => WindowsTheorems!CheckInstalled(p)
        /\ OnWindows!FetchManifest(p) => WindowsTheorems!FetchManifest(p)
        /\ OnWindows!VerifyManifest(p) => WindowsTheorems!VerifyManifest(p)
        /\ OnWindows!FetchBinary(p) => WindowsTheorems!FetchBinary(p)
        /\ OnWindows!VerifyAsset(p) => WindowsTheorems!VerifyAsset(p)
    BY Zenon
    DEF OnWindows!Start, OnWindows!Consent, OnWindows!Decline, OnWindows!TryLock,
        OnWindows!CheckInstalled, OnWindows!FetchManifest, OnWindows!VerifyManifest,
        OnWindows!FetchBinary, OnWindows!VerifyAsset, OnWindows!Goto, OnWindows!EndProcess,
        OnWindows!End, OnWindows!Fail, OnWindows!NoProc, OnWindows!DropPrevious, OnWindows!InUse,
        OnWindows!disk, WindowsTheorems!Start, WindowsTheorems!Consent, WindowsTheorems!Decline,
        WindowsTheorems!TryLock, WindowsTheorems!CheckInstalled, WindowsTheorems!FetchManifest,
        WindowsTheorems!VerifyManifest, WindowsTheorems!FetchBinary, WindowsTheorems!VerifyAsset,
        WindowsTheorems!Goto, WindowsTheorems!EndProcess, WindowsTheorems!End, WindowsTheorems!Fail,
        WindowsTheorems!NoProc, WindowsTheorems!DropPrevious, WindowsTheorems!InUse,
        WindowsTheorems!disk
  <2>2. /\ OnWindows!Stage(p) => WindowsTheorems!Stage(p)
        /\ OnWindows!Write(p) => WindowsTheorems!Write(p)
        /\ OnWindows!CheckVersion(p) => WindowsTheorems!CheckVersion(p)
        /\ OnWindows!Swap(p) => WindowsTheorems!Swap(p)
        /\ OnWindows!MoveAside(p) => WindowsTheorems!MoveAside(p)
        /\ OnWindows!Finish(p) => WindowsTheorems!Finish(p)
        /\ OnWindows!Crash(p) => WindowsTheorems!Crash(p)
    BY Zenon
    DEF OnWindows!Stage, OnWindows!Write, OnWindows!CheckVersion, OnWindows!Swap,
        OnWindows!MoveAside, OnWindows!Finish, OnWindows!Crash, OnWindows!Goto,
        OnWindows!EndProcess, OnWindows!End, OnWindows!Fail, OnWindows!FailStaged, OnWindows!NoProc,
        OnWindows!DropPrevious, OnWindows!InUse, OnWindows!RollBack, OnWindows!DropStaged, OnWindows!disk,
        WindowsTheorems!Stage, WindowsTheorems!Write, WindowsTheorems!CheckVersion,
        WindowsTheorems!Swap, WindowsTheorems!MoveAside, WindowsTheorems!Finish,
        WindowsTheorems!Crash, WindowsTheorems!Goto, WindowsTheorems!EndProcess,
        WindowsTheorems!End, WindowsTheorems!Fail, WindowsTheorems!FailStaged,
        WindowsTheorems!NoProc, WindowsTheorems!DropPrevious, WindowsTheorems!InUse,
        WindowsTheorems!RollBack, WindowsTheorems!DropStaged, WindowsTheorems!disk
  <2> QED  BY <1>3, <2>1, <2>2, Zenon DEF OnWindows!Install, WindowsTheorems!Install
<1>4. [OnWindows!Next]_installVars => [WindowsTheorems!Next]_(WindowsTheorems!vars)
  <2>1. UNCHANGED installVars => UNCHANGED WindowsTheorems!vars
    BY DEF installVars, WindowsTheorems!vars, WindowsTheorems!disk, WindowsTheorems!process
  <2> QED  BY <1>3, <2>1, Zenon DEF OnWindows!Next, WindowsTheorems!Next
<1>5. WindowsTheorems!AlwaysInstalled => OnWindows!AlwaysInstalled
  BY DEF OnWindows!AlwaysInstalled, WindowsTheorems!AlwaysInstalled
<1>6. /\ WindowsTheorems!TypeOK => OnWindows!TypeOK
      /\ WindowsTheorems!OnlyReleases => OnWindows!OnlyReleases
  BY Zenon
  DEF OnWindows!TypeOK, OnWindows!OnlyReleases, OnWindows!Contents, OnWindows!NoProc,
      WindowsTheorems!TypeOK, WindowsTheorems!OnlyReleases, WindowsTheorems!Contents,
      WindowsTheorems!NoProc
<1> QED  BY <1>1, <1>2, <1>4, <1>5, <1>6, Zenon

-----------------------------------------------------------------------------
(* The order of versions, built up from the order of bytes.  What 0 has    *)
(* and the next number keeps, every number has.                            *)
LEMMA NumberInduction ==
  ASSUME NEW Good, 0 \in Good, \A n \in Nat : n \in Good => n + 1 \in Good
  PROVE  \A n \in Nat : n \in Good
<1> DEFINE Bad == {n \in Nat : n \notin Good}
<1> SUFFICES ASSUME Bad # {} PROVE FALSE  OBVIOUS
<1>1. PICK n \in Bad : \A m \in Bad : <<m, n>> \notin OpToRel(<, Nat)
  <2>1. Bad \subseteq Nat  OBVIOUS
  <2> HIDE DEF Bad
  <2> QED  BY <2>1, NatLessThanWellFounded, WFMin
<1>2. n \in Nat /\ n # 0 /\ n - 1 \in Nat  OBVIOUS
<1>3. <<n - 1, n>> \in OpToRel(<, Nat)  BY <1>2 DEF OpToRel
<1>4. n - 1 \in Good  BY <1>1, <1>2, <1>3
<1> QED  BY <1>2, <1>4

(* The first of several numbers.                                           *)
LEMMA FirstNumber ==
  ASSUME NEW K \in SUBSET Nat, K # {}
  PROVE  Versions!Min(K) \in K /\ \A k \in K : Versions!Min(K) <= k
<1>1. PICK n \in K : \A m \in K : <<m, n>> \notin OpToRel(<, Nat)
  BY NatLessThanWellFounded, WFMin
<1>2. ASSUME NEW m \in K PROVE n <= m
  <2>1. m \in Nat /\ n \in Nat  OBVIOUS
  <2>2. m < n => <<m, n>> \in OpToRel(<, Nat)  BY <2>1 DEF OpToRel
  <2>3. ~(m < n)  BY <1>1, <2>2
  <2> QED  BY <2>1, <2>3
<1> QED  BY <1>2 DEF Versions!Min

(* The number that digits make is a number, built up digit by digit.       *)
DigitText(s) == s \in Seq(Nat) /\ \A i \in DOMAIN s : s[i] \in Versions!Digits
BuildsUp(s, m, f) ==
  /\ f \in [0..m -> Nat] /\ f[0] = 0
  /\ \A n \in 1..m : f[n] = 10 * f[n - 1] + (s[n] - 48)

LEMMA NumberExists ==
  ASSUME NEW s, DigitText(s)
  PROVE  \E f : BuildsUp(s, Len(s), f)
<1> DEFINE Good == {m \in Nat : m <= Len(s) => \E f : BuildsUp(s, m, f)}
<1>1. Len(s) \in Nat /\ DOMAIN s = 1..Len(s) /\ \A i \in 1..Len(s) : s[i] \in 48..57
  BY DEF DigitText, Versions!Digits
<1>2. 0 \in Good
  <2> DEFINE f == [n \in 0..0 |-> 0]
  <2>1. BuildsUp(s, 0, f)  BY DEF BuildsUp
  <2> QED  BY <2>1
<1>3. ASSUME NEW m \in Nat, m \in Good PROVE m + 1 \in Good
  <2> SUFFICES ASSUME m + 1 <= Len(s)
               PROVE  \E f : BuildsUp(s, m + 1, f)
    OBVIOUS
  <2>0. PICK g : BuildsUp(s, m, g)  BY <1>1, <1>3
  <2>1. /\ g \in [0..m -> Nat] /\ g[0] = 0
        /\ \A n \in 1..m : g[n] = 10 * g[n - 1] + (s[n] - 48)
    BY <2>0 DEF BuildsUp
  <2> DEFINE f == [n \in 0..(m + 1) |-> IF n = m + 1 THEN 10 * g[m] + (s[m + 1] - 48) ELSE g[n]]
  <2>2. s[m + 1] - 48 \in Nat /\ g[m] \in Nat
    <3>1. m + 1 \in 1..Len(s) /\ m \in 0..m  BY <1>1
    <3>2. s[m + 1] \in 48..57  BY <1>1, <3>1
    <3> QED  BY <2>1, <3>1, <3>2
  <2>3. 10 * g[m] + (s[m + 1] - 48) \in Nat  BY <2>2
  <2>4. \A n \in 0..(m + 1) : n # m + 1 => n \in 0..m  OBVIOUS
  <2>5. f \in [0..(m + 1) -> Nat]  BY <2>1, <2>3, <2>4
  <2>6. \A n \in 0..m : f[n] = g[n]  OBVIOUS
  <2>7. f[m + 1] = 10 * g[m] + (s[m + 1] - 48)  OBVIOUS
  <2> HIDE DEF f
  <2>8. f[0] = 0 /\ f[m] = g[m]  BY <2>1, <2>6
  <2>9. ASSUME NEW n \in 1..(m + 1) PROVE f[n] = 10 * f[n - 1] + (s[n] - 48)
    <3>1. CASE n = m + 1  BY <2>7, <2>8, <3>1
    <3>2. CASE n # m + 1
      <4>1. n \in 1..m /\ n \in 0..m /\ n - 1 \in 0..m  BY <3>2
      <4> QED  BY <2>1, <2>6, <4>1
    <3> QED  BY <3>1, <3>2
  <2>10. BuildsUp(s, m + 1, f)  BY <2>5, <2>8, <2>9 DEF BuildsUp
  <2> QED  BY <2>10
<1>4. Len(s) \in Good
  <2> HIDE DEF Good
  <2> QED  BY <1>1, <1>2, <1>3, NumberInduction
<1> QED  BY <1>1, <1>4

LEMMA NumberBuilt ==
  ASSUME NEW s, DigitText(s)
  PROVE  BuildsUp(s, Len(s), Versions!ValueUpTo(s)) /\ Versions!Value(s) \in Nat
<1> DEFINE Step(f) == [n \in 0..Len(s) |-> IF n = 0 THEN 0 ELSE 10 * f[n - 1] + (s[n] - 48)]
           v == Versions!ValueUpTo(s)
<1>1. Len(s) \in Nat  BY DEF DigitText
<1>2. v = CHOOSE f : f = Step(f)  BY Zenon DEF Versions!ValueUpTo
<1>3. PICK f : BuildsUp(s, Len(s), f)  BY NumberExists
<1>4. f = Step(f)
  <2>1. f \in [0..Len(s) -> Nat]  BY <1>3 DEF BuildsUp
  <2>2. \A n \in 0..Len(s) : f[n] = Step(f)[n]
    <3> TAKE n \in 0..Len(s)
    <3>1. CASE n = 0  BY <1>1, <1>3, <3>1 DEF BuildsUp
    <3>2. CASE n # 0
      <4>1. n \in 1..Len(s)  BY <1>1, <3>2
      <4> QED  BY <1>3, <3>2, <4>1 DEF BuildsUp
    <3> QED  BY <3>1, <3>2
  <2> QED  BY <2>1, <2>2
<1>5. v = Step(v)  BY <1>2, <1>4, Zenon
<1> HIDE DEF v
<1>6. v[0] = 0 /\ \A n \in 1..Len(s) : v[n] = 10 * v[n - 1] + (s[n] - 48)
  <2>1. \A n \in 0..Len(s) : v[n] = IF n = 0 THEN 0 ELSE 10 * v[n - 1] + (s[n] - 48)  BY <1>5
  <2>2. 0 \in 0..Len(s) /\ \A n \in 1..Len(s) : n \in 0..Len(s) /\ n # 0  BY <1>1
  <2> QED  BY <2>1, <2>2
<1>7. \A n \in 0..Len(s) : v[n] \in Nat
  <2> DEFINE Good == {n \in Nat : n <= Len(s) => v[n] \in Nat}
  <2>1. 0 \in Good  BY <1>6
  <2>2. ASSUME NEW n \in Nat, n \in Good PROVE n + 1 \in Good
    <3> SUFFICES ASSUME n + 1 <= Len(s) PROVE v[n + 1] \in Nat  OBVIOUS
    <3>1. n + 1 \in 1..Len(s) /\ n <= Len(s) /\ (n + 1) - 1 = n  BY <1>1
    <3>2. s[n + 1] - 48 \in Nat
      <4>1. s[n + 1] \in 48..57  BY <1>1, <3>1 DEF DigitText, Versions!Digits
      <4> QED  BY <4>1
    <3>3. v[n] \in Nat  BY <2>2, <3>1
    <3>4. v[n + 1] = 10 * v[n] + (s[n + 1] - 48)  BY <1>6, <3>1
    <3> QED  BY <3>2, <3>3, <3>4
  <2> HIDE DEF Good
  <2>3. \A n \in Nat : n \in Good  BY <2>1, <2>2, NumberInduction
  <2> USE DEF Good
  <2> QED  BY <1>1, <2>3
<1>8. DOMAIN v = 0..Len(s) /\ v = [n \in 0..Len(s) |-> v[n]]
  <2>1. DOMAIN v = 0..Len(s)  BY <1>5
  <2>2. v = [n \in 0..Len(s) |-> v[n]]  BY <1>5
  <2> QED  BY <2>1, <2>2
<1>9. v \in [0..Len(s) -> Nat]  BY <1>7, <1>8
<1>10. v[Len(s)] \in Nat  BY <1>1, <1>7
<1> QED  BY <1>6, <1>9, <1>10 DEF BuildsUp, v, Versions!Value

LEMMA DigitFacts ==
  ASSUME NEW s, DigitText(s), NEW f, BuildsUp(s, Len(s), f)
  PROVE  /\ Len(s) \in Nat /\ \A i \in 1..Len(s) : s[i] \in 48..57
         /\ \A n \in 0..Len(s) : f[n] \in Nat
<1>1. Len(s) \in Nat /\ DOMAIN s = 1..Len(s)  BY DEF DigitText
<1>2. \A i \in 1..Len(s) : s[i] \in 48..57  BY <1>1 DEF DigitText, Versions!Digits
<1>3. f \in [0..Len(s) -> Nat]  BY DEF BuildsUp
<1> QED  BY <1>1, <1>2, <1>3

(* A number without a leading zero is written in one way.                  *)
LEMMA LeadingDigit ==
  ASSUME NEW s, DigitText(s), NEW f, BuildsUp(s, Len(s), f), Len(s) # 0, s[1] # 48
  PROVE  \A n \in 1..Len(s) : f[n] >= 1
<1>1. Len(s) \in Nat /\ (\A i \in 1..Len(s) : s[i] \in 48..57) /\ \A n \in 0..Len(s) : f[n] \in Nat
  BY DigitFacts
<1>2. f[0] = 0 /\ \A n \in 1..Len(s) : f[n] = 10 * f[n - 1] + (s[n] - 48)
  BY DEF BuildsUp
<1> DEFINE Good == {n \in Nat : (n # 0 /\ n <= Len(s)) => f[n] >= 1}
<1>3. 0 \in Good  OBVIOUS
<1>4. ASSUME NEW n \in Nat, n \in Good PROVE n + 1 \in Good
  <2> SUFFICES ASSUME n + 1 <= Len(s) PROVE f[n + 1] >= 1  OBVIOUS
  <2>1. n + 1 \in 1..Len(s) /\ n \in 0..Len(s) /\ (n + 1) - 1 = n  BY <1>1
  <2>2. f[n + 1] = 10 * f[n] + (s[n + 1] - 48) /\ s[n + 1] \in 48..57 /\ f[n] \in Nat
    BY <1>1, <1>2, <2>1
  <2>3. CASE n = 0
    <3>1. s[n + 1] # 48 /\ f[n] = 0  BY <1>2, <2>3
    <3> QED  BY <2>2, <3>1
  <2>4. CASE n # 0
    <3>1. n <= Len(s)  BY <1>1
    <3>2. f[n] >= 1  BY <1>4, <2>4, <3>1
    <3>3. \A m \in Nat, d \in 48..57 : m >= 1 => 10 * m + (d - 48) >= 1  OBVIOUS
    <3> QED  BY ONLY <2>2, <3>2, <3>3
  <2> QED  BY <2>3, <2>4
<1> HIDE DEF Good
<1>5. \A n \in Nat : n \in Good  BY <1>3, <1>4, NumberInduction
<1> USE DEF Good
<1> QED  BY <1>1, <1>5

LEMMA WrittenOnce ==
  ASSUME NEW s, DigitText(s), NEW f, BuildsUp(s, Len(s), f), Len(s) # 0, s[1] # 48,
         NEW t, DigitText(t), NEW g, BuildsUp(t, Len(t), g), Len(t) # 0, t[1] # 48,
         f[Len(s)] = g[Len(t)]
  PROVE  s = t
<1>1. Len(s) \in Nat /\ (\A i \in 1..Len(s) : s[i] \in 48..57) /\ \A n \in 0..Len(s) : f[n] \in Nat
  BY DigitFacts
<1>2. Len(t) \in Nat /\ (\A i \in 1..Len(t) : t[i] \in 48..57) /\ \A n \in 0..Len(t) : g[n] \in Nat
  BY DigitFacts
<1>3. f[0] = 0 /\ \A n \in 1..Len(s) : f[n] = 10 * f[n - 1] + (s[n] - 48) /\ f[n] >= 1
  BY LeadingDigit DEF BuildsUp
<1>4. g[0] = 0 /\ \A n \in 1..Len(t) : g[n] = 10 * g[n - 1] + (t[n] - 48) /\ g[n] >= 1
  BY LeadingDigit DEF BuildsUp
<1> DEFINE Same(m, n) == m = n /\ \A i \in 1..m : s[i] = t[i]
           Good == {m \in Nat : m <= Len(s) => \A n \in 0..Len(t) : f[m] = g[n] => Same(m, n)}
<1>5. 0 \in Good
  <2> SUFFICES ASSUME NEW n \in 0..Len(t), f[0] = g[n] PROVE n = 0  OBVIOUS
  <2>1. n # 0 => n \in 1..Len(t)  BY <1>2
  <2>2. n # 0 => g[n] >= 1  BY <1>4, <2>1
  <2> QED  BY <1>3, <2>2
<1>6. ASSUME NEW m \in Nat, m \in Good PROVE m + 1 \in Good
  <2> SUFFICES ASSUME m + 1 <= Len(s), NEW n \in 0..Len(t), f[m + 1] = g[n]
               PROVE  Same(m + 1, n)
    OBVIOUS
  <2>1. m + 1 \in 1..Len(s) /\ m \in 0..Len(s) /\ (m + 1) - 1 = m /\ m <= Len(s)  BY <1>1
  <2>2. f[m + 1] = 10 * f[m] + (s[m + 1] - 48) /\ f[m + 1] >= 1 /\ s[m + 1] \in 48..57 /\ f[m] \in Nat
    BY <1>1, <1>3, <2>1
  <2>3. n # 0
    <3>1. g[n] >= 1  BY <2>2
    <3> QED  BY <1>4, <3>1
  <2>4. n \in 1..Len(t) /\ n - 1 \in 0..Len(t)  BY <1>2, <2>3
  <2>5. g[n] = 10 * g[n - 1] + (t[n] - 48) /\ t[n] \in 48..57 /\ g[n - 1] \in Nat
    BY <1>2, <1>4, <2>4
  <2>6. f[m] = g[n - 1] /\ s[m + 1] = t[n]
    <3>1. PICK a \in Nat : a = f[m]  BY <2>2
    <3>2. PICK b \in Nat : b = g[n - 1]  BY <2>5
    <3>3. PICK d \in 48..57 : d = s[m + 1]  BY <2>2
    <3>4. PICK e \in 48..57 : e = t[n]  BY <2>5
    <3>5. 10 * a + (d - 48) = 10 * b + (e - 48)  BY <2>2, <2>5, <3>1, <3>2, <3>3, <3>4
    <3>6. a = b /\ d = e
      <4> HIDE DEF Good
      <4> QED  BY ONLY a \in Nat, b \in Nat, d \in 48..57, e \in 48..57, <3>5
    <3> QED  BY <3>1, <3>2, <3>3, <3>4, <3>6
  <2>7. Same(m, n - 1)  BY <1>6, <2>1, <2>4, <2>6
  <2>8. m + 1 = n /\ n \in Nat  BY <2>4, <2>7
  <2>9. \A i \in 1..(m + 1) : i = m + 1 \/ i \in 1..m  OBVIOUS
  <2> QED  BY <2>6, <2>7, <2>8, <2>9
<1> HIDE DEF Good
<1>7. \A m \in Nat : m \in Good  BY <1>5, <1>6, NumberInduction
<1> USE DEF Good
<1>8. Same(Len(s), Len(t))
  <2>1. Len(s) \in Good /\ Len(t) \in 0..Len(t) /\ Len(s) <= Len(s)  BY <1>1, <1>2, <1>7
  <2> QED  BY <2>1
<1>9. s \in Seq(Nat) /\ t \in Seq(Nat)  BY DEF DigitText
<1> HIDE DEF Good
<1> QED  BY <1>8, <1>9

LEMMA NumberText ==
  ASSUME NEW s \in Seq(Versions!Byte), Versions!IsNumber(s)
  PROVE  /\ DigitText(s) /\ Len(s) \in Nat /\ Len(s) # 0
         /\ s = <<48>> \/ s[1] # 48
<1>1. Len(s) \in Nat /\ DOMAIN s = 1..Len(s)  OBVIOUS
<1>2. \A i \in 1..Len(s) : s[i] \in Versions!Digits
  BY <1>1 DEF Versions!IsNumber, Versions!Range
<1>3. s \in Seq(Nat)
  <2>1. \A i \in 1..Len(s) : s[i] \in Nat  BY <1>2 DEF Versions!Digits
  <2> QED  BY <1>1, <2>1
<1> QED  BY <1>1, <1>2, <1>3 DEF Versions!IsNumber, DigitText

LEMMA NumberIsItsValue ==
  ASSUME NEW s \in Seq(Versions!Byte), NEW t \in Seq(Versions!Byte),
         Versions!IsNumber(s), Versions!IsNumber(t), Versions!Value(s) = Versions!Value(t)
  PROVE  s = t
<1> DEFINE f == Versions!ValueUpTo(s)
           g == Versions!ValueUpTo(t)
<1>1. /\ DigitText(s) /\ Len(s) \in Nat /\ Len(s) # 0 /\ (s = <<48>> \/ s[1] # 48)
      /\ DigitText(t) /\ Len(t) \in Nat /\ Len(t) # 0 /\ (t = <<48>> \/ t[1] # 48)
  BY NumberText
<1>2. BuildsUp(s, Len(s), f) /\ BuildsUp(t, Len(t), g)  BY <1>1, NumberBuilt
<1>3. f[Len(s)] = g[Len(t)]  BY DEF Versions!Value
<1> HIDE DEF f, g
<1>4. s = <<48>> => f[Len(s)] = 0
  <2>1. s = <<48>> => Len(s) = 1 /\ s[1] = 48  OBVIOUS
  <2>2. (Len(s) = 1 /\ s[1] = 48) => f[0] = 0 /\ f[1] = 10 * f[1 - 1] + (s[1] - 48)  BY <1>2 DEF BuildsUp
  <2>3. (Len(s) = 1 /\ s[1] = 48) => f[1] = 0  BY <2>2
  <2> QED  BY <2>1, <2>3
<1>5. t = <<48>> => g[Len(t)] = 0
  <2>1. t = <<48>> => Len(t) = 1 /\ t[1] = 48  OBVIOUS
  <2>2. (Len(t) = 1 /\ t[1] = 48) => g[0] = 0 /\ g[1] = 10 * g[1 - 1] + (t[1] - 48)  BY <1>2 DEF BuildsUp
  <2>3. (Len(t) = 1 /\ t[1] = 48) => g[1] = 0  BY <2>2
  <2> QED  BY <2>1, <2>3
<1>6. s[1] # 48 => f[Len(s)] >= 1  BY <1>1, <1>2, LeadingDigit
<1>7. t[1] # 48 => g[Len(t)] >= 1  BY <1>1, <1>2, LeadingDigit
<1>8. CASE s[1] # 48 /\ t[1] # 48  BY <1>1, <1>2, <1>3, <1>8, WrittenOnce
<1>9. CASE s = <<48>> \/ t = <<48>>
  <2>1. s = <<48>> /\ t = <<48>>  BY <1>1, <1>3, <1>4, <1>5, <1>6, <1>7, <1>9
  <2> QED  BY <2>1
<1> QED  BY <1>1, <1>8, <1>9

(* A comparison: its answers, turned round when its sides are, and alike   *)
(* for what it calls equal.                                                *)
Answers == {"less", "equal", "greater"}
Turned(r) == IF r = "less" THEN "greater" ELSE IF r = "greater" THEN "less" ELSE "equal"
IsComparison(E, c) ==
  /\ \A a, b \in E : c[a][b] \in Answers /\ c[b][a] = Turned(c[a][b])
  /\ \A a, b, d \in E : c[a][b] = "equal" => c[a][d] = c[b][d]
  /\ \A a, b, d \in E : (c[a][b] = "less" /\ c[b][d] = "less") => c[a][d] = "less"

LEMMA ComparisonFacts ==
  ASSUME NEW E, NEW c, IsComparison(E, c)
  PROVE  /\ \A a \in E : c[a][a] = "equal"
         /\ \A a, b, d \in E : c[b][d] = "equal" => c[a][b] = c[a][d]
         /\ \A a, b, d \in E : (c[a][b] # "greater" /\ c[b][d] # "greater") => c[a][d] # "greater"
         /\ \A a, b, d \in E : (c[a][b] = "greater" /\ c[b][d] = "greater") => c[a][d] = "greater"
<1>1. ASSUME NEW a \in E, NEW b \in E
      PROVE  c[a][b] \in Answers /\ c[b][a] = Turned(c[a][b])
  BY DEF IsComparison
<1>2. ASSUME NEW a \in E PROVE c[a][a] = "equal"
  <2>1. c[a][a] \in Answers /\ c[a][a] = Turned(c[a][a])  BY <1>1
  <2> QED  BY <2>1 DEF Answers, Turned
<1>3. ASSUME NEW a \in E, NEW b \in E, NEW d \in E
      PROVE  /\ c[b][d] = "equal" => c[a][b] = c[a][d]
             /\ (c[a][b] # "greater" /\ c[b][d] # "greater") => c[a][d] # "greater"
             /\ (c[a][b] = "greater" /\ c[b][d] = "greater") => c[a][d] = "greater"
  <2>1. /\ c[a][b] \in Answers /\ c[b][a] = Turned(c[a][b])
        /\ c[b][d] \in Answers /\ c[d][b] = Turned(c[b][d])
        /\ c[a][d] \in Answers /\ c[d][a] = Turned(c[a][d])
    BY <1>1
  <2>2. /\ c[b][d] = "equal" => c[b][a] = c[d][a]
        /\ c[a][b] = "equal" => c[a][d] = c[b][d]
        /\ c[d][b] = "equal" => c[d][a] = c[b][a]
        /\ (c[a][b] = "less" /\ c[b][d] = "less") => c[a][d] = "less"
        /\ (c[d][b] = "less" /\ c[b][a] = "less") => c[d][a] = "less"
    BY DEF IsComparison
  <2> QED  BY <2>1, <2>2 DEF Answers, Turned
<1> QED  BY <1>2, <1>3

(* Numbers are compared.                                                   *)
LEMMA NumbersCompared ==
  ASSUME NEW m \in Nat, NEW n \in Nat
  PROVE  /\ Versions!CompareNumbers(m, n) = "less" <=> m < n
         /\ Versions!CompareNumbers(m, n) = "equal" <=> m = n
         /\ Versions!CompareNumbers(m, n) = "greater" <=> n < m
         /\ Versions!CompareNumbers(m, n) \in Answers
BY DEF Versions!CompareNumbers, Answers

(* What a measure in numbers compares is a comparison.                     *)
LEMMA MeasureCompares ==
  ASSUME NEW E, NEW c, NEW measure, \A a \in E : measure[a] \in Nat,
         \A a, b \in E : c[a][b] = Versions!CompareNumbers(measure[a], measure[b])
  PROVE  IsComparison(E, c)
<1>1. ASSUME NEW a \in E, NEW b \in E
      PROVE  c[a][b] \in Answers /\ c[b][a] = Turned(c[a][b])
  <2>1. measure[a] \in Nat /\ measure[b] \in Nat  OBVIOUS
  <2> QED  BY <2>1, NumbersCompared DEF Turned, Answers
<1>2. ASSUME NEW a \in E, NEW b \in E, NEW d \in E
      PROVE  /\ c[a][b] = "equal" => c[a][d] = c[b][d]
             /\ (c[a][b] = "less" /\ c[b][d] = "less") => c[a][d] = "less"
  <2>1. measure[a] \in Nat /\ measure[b] \in Nat /\ measure[d] \in Nat  OBVIOUS
  <2> QED  BY <2>1, NumbersCompared
<1> QED  BY <1>1, <1>2 DEF IsComparison

(* Texts compared place by place: the first place that tells them apart    *)
(* answers.                                                                *)
Places == Nat \ {0}
EqualBefore(f, g, c, k) == \A j \in Places : j < k => c[f[j]][g[j]] = "equal"
Fits(f, g, c, r) ==
  \/ r = "equal" /\ \A j \in Places : c[f[j]][g[j]] = "equal"
  \/ /\ r # "equal"
     /\ \E k \in Places : EqualBefore(f, g, c, k) /\ c[f[k]][g[k]] = r

LEMMA FitsOnce ==
  ASSUME NEW f, NEW g, NEW c, NEW r, NEW q, Fits(f, g, c, r), Fits(f, g, c, q)
  PROVE  r = q
<1>1. CASE r = "equal"  BY <1>1 DEF Fits
<1>2. CASE q = "equal"  BY <1>2 DEF Fits
<1>3. CASE r # "equal" /\ q # "equal"
  <2>1. PICK k \in Places : EqualBefore(f, g, c, k) /\ c[f[k]][g[k]] = r  BY <1>3 DEF Fits
  <2>2. PICK m \in Places : EqualBefore(f, g, c, m) /\ c[f[m]][g[m]] = q  BY <1>3 DEF Fits
  <2>3. ~(k < m) /\ ~(m < k)  BY <1>3, <2>1, <2>2 DEF EqualBefore
  <2>4. k = m  BY <2>3 DEF Places
  <2> QED  BY <2>1, <2>2, <2>4
<1> QED  BY <1>1, <1>2, <1>3

LEMMA FitsTurned ==
  ASSUME NEW E, NEW c, IsComparison(E, c), NEW f \in [Places -> E], NEW g \in [Places -> E],
         NEW r \in Answers, Fits(f, g, c, r)
  PROVE  Fits(g, f, c, Turned(r))
<1>1. \A j \in Places : c[g[j]][f[j]] = Turned(c[f[j]][g[j]])
  BY DEF IsComparison
<1>2. CASE r = "equal"
  BY <1>1, <1>2 DEF Fits, Turned
<1>3. CASE r # "equal"
  <2>1. PICK k \in Places : EqualBefore(f, g, c, k) /\ c[f[k]][g[k]] = r  BY <1>3 DEF Fits
  <2>2. EqualBefore(g, f, c, k)  BY <1>1, <2>1 DEF EqualBefore, Turned
  <2>3. c[g[k]][f[k]] = Turned(r) /\ Turned(r) # "equal"  BY <1>1, <1>3, <2>1 DEF Turned, Answers
  <2> QED  BY <2>2, <2>3 DEF Fits
<1> QED  BY <1>2, <1>3

LEMMA FitsAlike ==
  ASSUME NEW E, NEW c, IsComparison(E, c), NEW f \in [Places -> E], NEW g \in [Places -> E],
         NEW h \in [Places -> E], NEW r, Fits(f, g, c, "equal"), Fits(f, h, c, r)
  PROVE  Fits(g, h, c, r)
<1>1. \A j \in Places : c[g[j]][h[j]] = c[f[j]][h[j]]
  <2> TAKE j \in Places
  <2>1. c[f[j]][g[j]] = "equal"  BY DEF Fits
  <2>2. f[j] \in E /\ g[j] \in E /\ h[j] \in E  OBVIOUS
  <2> QED  BY <2>1, <2>2 DEF IsComparison
<1>2. \A k \in Places : EqualBefore(f, h, c, k) => EqualBefore(g, h, c, k)
  BY <1>1 DEF EqualBefore
<1> QED  BY <1>1, <1>2 DEF Fits

LEMMA FitsLess ==
  ASSUME NEW E, NEW c, IsComparison(E, c), NEW f \in [Places -> E], NEW g \in [Places -> E],
         NEW h \in [Places -> E], Fits(f, g, c, "less"), Fits(g, h, c, "less")
  PROVE  Fits(f, h, c, "less")
<1>1. PICK k \in Places : EqualBefore(f, g, c, k) /\ c[f[k]][g[k]] = "less"  BY DEF Fits
<1>2. PICK m \in Places : EqualBefore(g, h, c, m) /\ c[g[m]][h[m]] = "less"  BY DEF Fits
<1>3. \A j \in Places : /\ c[f[j]][g[j]] = "equal" => c[f[j]][h[j]] = c[g[j]][h[j]]
                        /\ (c[f[j]][g[j]] = "less" /\ c[g[j]][h[j]] = "less") => c[f[j]][h[j]] = "less"
                        /\ c[g[j]][h[j]] = "equal" => c[f[j]][g[j]] = c[f[j]][h[j]]
  <2> TAKE j \in Places
  <2>1. f[j] \in E /\ g[j] \in E /\ h[j] \in E  OBVIOUS
  <2>2. c[g[j]][h[j]] = "equal" => c[f[j]][g[j]] = c[f[j]][h[j]]
    BY <2>1, ComparisonFacts
  <2> QED  BY <2>1, <2>2 DEF IsComparison
<1>4. CASE k < m
  <2>1. c[f[k]][h[k]] = "less"  BY <1>1, <1>2, <1>3, <1>4 DEF EqualBefore
  <2>2. EqualBefore(f, h, c, k)
    <3>1. \A j \in Places : j < k => j < m  BY <1>4 DEF Places
    <3> QED  BY <1>1, <1>2, <1>3, <3>1 DEF EqualBefore
  <2> QED  BY <2>1, <2>2 DEF Fits
<1>5. CASE m < k
  <2>1. c[f[m]][h[m]] = "less"  BY <1>1, <1>2, <1>3, <1>5 DEF EqualBefore
  <2>2. EqualBefore(f, h, c, m)
    <3>1. \A j \in Places : j < m => j < k  BY <1>5 DEF Places
    <3> QED  BY <1>1, <1>2, <1>3, <3>1 DEF EqualBefore
  <2> QED  BY <2>1, <2>2 DEF Fits
<1>6. CASE k = m
  <2>1. c[f[k]][h[k]] = "less"  BY <1>1, <1>2, <1>3, <1>6
  <2>2. EqualBefore(f, h, c, k)  BY <1>1, <1>2, <1>3, <1>6 DEF EqualBefore
  <2> QED  BY <2>1, <2>2 DEF Fits
<1>7. k < m \/ m < k \/ k = m  BY DEF Places
<1> QED  BY <1>4, <1>5, <1>6, <1>7

(* A sequence that ends earlier comes first: the end is below every        *)
(* element.                                                                *)
Ended(E, c, end) ==
  [a \in E \cup {end} |-> [b \in E \cup {end} |->
     IF a = end THEN IF b = end THEN "equal" ELSE "less"
                ELSE IF b = end THEN "greater" ELSE c[a][b]]]
Padded(s, end) == [j \in Places |-> IF j \in 1..Len(s) THEN s[j] ELSE end]

LEMMA EndedValues ==
  ASSUME NEW E, NEW c, NEW end, end \notin E
  PROVE  /\ Ended(E, c, end)[end][end] = "equal"
         /\ \A a \in E : Ended(E, c, end)[end][a] = "less" /\ Ended(E, c, end)[a][end] = "greater"
         /\ \A a, b \in E : Ended(E, c, end)[a][b] = c[a][b]
BY DEF Ended

LEMMA EndedCompares ==
  ASSUME NEW E, NEW c, IsComparison(E, c), NEW end, end \notin E
  PROVE  IsComparison(E \cup {end}, Ended(E, c, end))
<1> DEFINE D == E \cup {end}
           p == Ended(E, c, end)
<1>1. /\ p[end][end] = "equal"
      /\ \A a \in E : p[end][a] = "less" /\ p[a][end] = "greater"
      /\ \A a, b \in E : p[a][b] = c[a][b]
  BY EndedValues
<1>2. \A a \in D : a = end \/ a \in E  OBVIOUS
<1> HIDE DEF p, D
<1>3. ASSUME NEW a \in D, NEW b \in D
      PROVE  p[a][b] \in Answers /\ p[b][a] = Turned(p[a][b])
  <2>1. CASE a \in E /\ b \in E  BY <1>1, <2>1 DEF IsComparison
  <2>2. CASE a = end \/ b = end  BY <1>1, <1>2, <2>2 DEF Answers, Turned
  <2> QED  BY <1>2, <2>1, <2>2
<1>4. ASSUME NEW a \in D, NEW b \in D, NEW d \in D
      PROVE  /\ p[a][b] = "equal" => p[a][d] = p[b][d]
             /\ (p[a][b] = "less" /\ p[b][d] = "less") => p[a][d] = "less"
  <2>1. CASE a \in E /\ b \in E /\ d \in E
    <3>1. /\ c[a][b] = "equal" => c[a][d] = c[b][d]
          /\ (c[a][b] = "less" /\ c[b][d] = "less") => c[a][d] = "less"
      BY <2>1 DEF IsComparison
    <3> QED  BY <1>1, <2>1, <3>1
  <2>2. CASE a = end \/ b = end \/ d = end
    <3>1. a = end \/ a \in E  BY <1>2
    <3>2. b = end \/ b \in E  BY <1>2
    <3>3. d = end \/ d \in E  BY <1>2
    <3> QED  BY <1>1, <2>2, <3>1, <3>2, <3>3
  <2> QED  BY <1>2, <2>1, <2>2
<1>5. IsComparison(D, p)  BY <1>3, <1>4 DEF IsComparison
<1> QED  BY <1>5 DEF D, p

(* Compare answers for the first place that decides.                       *)
LEMMA CompareFits ==
  ASSUME NEW E, NEW c, IsComparison(E, c), NEW end, end \notin E,
         NEW s \in Seq(E), NEW t \in Seq(E), NEW how,
         \A i \in Versions!Common(s, t) : how[i] = c[s[i]][t[i]]
  PROVE  /\ Fits(Padded(s, end), Padded(t, end), Ended(E, c, end), Versions!Compare(s, t, how))
         /\ Versions!Compare(s, t, how) \in Answers
<1> DEFINE p == Ended(E, c, end)
           f == Padded(s, end)
           g == Padded(t, end)
           differ == {i \in Versions!Common(s, t) : how[i] # "equal"}
           result == Versions!Compare(s, t, how)
<1>1. Len(s) \in Nat /\ Len(t) \in Nat /\ (\A i \in 1..Len(s) : s[i] \in E) /\ \A i \in 1..Len(t) : t[i] \in E
  OBVIOUS
<1>2. \A j \in Places : /\ j \in 1..Len(s) => f[j] = s[j]
                        /\ j \notin 1..Len(s) => f[j] = end
                        /\ j \in 1..Len(t) => g[j] = t[j]
                        /\ j \notin 1..Len(t) => g[j] = end
  BY DEF Padded
<1>3. Versions!Common(s, t) \subseteq Places /\ Versions!Common(s, t) = 1..Len(s) \cap 1..Len(t)
  BY <1>1 DEF Versions!Common, Places
<1>4. \A j \in Versions!Common(s, t) : p[f[j]][g[j]] = how[j] /\ how[j] \in Answers
  <2> TAKE j \in Versions!Common(s, t)
  <2>1. j \in Places /\ j \in 1..Len(s) /\ j \in 1..Len(t)  BY <1>3
  <2>2. f[j] = s[j] /\ g[j] = t[j] /\ s[j] \in E /\ t[j] \in E  BY <1>1, <1>2, <2>1
  <2>3. p[s[j]][t[j]] = c[s[j]][t[j]]  BY <2>2, EndedValues
  <2>4. how[j] = c[s[j]][t[j]]  OBVIOUS
  <2>5. c[s[j]][t[j]] \in Answers  BY <2>2 DEF IsComparison
  <2> QED  BY <2>2, <2>3, <2>4, <2>5
<1>5. result = IF differ = {} THEN Versions!CompareNumbers(Len(s), Len(t)) ELSE how[Versions!Min(differ)]
  BY DEF Versions!Compare
<1>6. CASE differ # {}
  <2>1. differ \in SUBSET Nat  BY <1>3 DEF Places
  <2>2. Versions!Min(differ) \in differ /\ \A k \in differ : Versions!Min(differ) <= k
    BY <1>6, <2>1, FirstNumber
  <2> DEFINE m == Versions!Min(differ)
  <2>3. m \in Places /\ m \in Versions!Common(s, t) /\ p[f[m]][g[m]] = result /\ result # "equal" /\ result \in Answers
    BY <1>3, <1>4, <1>5, <1>6, <2>2
  <2>4. EqualBefore(f, g, p, m)
    <3>1. ASSUME NEW j \in Places, j < m PROVE p[f[j]][g[j]] = "equal"
      <4>1. m \in 1..Len(s) /\ m \in 1..Len(t)  BY <1>3, <2>3
      <4>2. j \in 1..Len(s) /\ j \in 1..Len(t)
        <5> HIDE DEF m, f, g, p
        <5> QED  BY <1>1, <3>1, <4>1 DEF Places
      <4>3. j \in Versions!Common(s, t)  BY <1>3, <4>2
      <4>4. j \notin differ
        <5>1. j \in Nat /\ m \in Nat /\ (j \in differ => m <= j)  BY <2>2, <2>3 DEF Places
        <5> HIDE DEF m, differ
        <5> QED  BY <3>1, <5>1
      <4> QED  BY <1>4, <4>3, <4>4
    <3> QED  BY <3>1 DEF EqualBefore
  <2> HIDE DEF m, result, f, g, p
  <2>5. Fits(f, g, p, result)  BY <2>3, <2>4 DEF Fits
  <2> QED  BY <2>3, <2>5 DEF result, f, g, p
<1>7. CASE differ = {}
  <2>1. \A j \in Versions!Common(s, t) : p[f[j]][g[j]] = "equal"  BY <1>4, <1>7
  <2>2. result = Versions!CompareNumbers(Len(s), Len(t))  BY <1>5, <1>7
  <2>3. \A j \in Places : (j \notin 1..Len(s) /\ j \notin 1..Len(t)) => p[f[j]][g[j]] = "equal"
    BY <1>2, EndedValues
  <2>4. \A j \in Places : (j \notin 1..Len(s) /\ j \in 1..Len(t)) => p[f[j]][g[j]] = "less"
    BY <1>1, <1>2, EndedValues
  <2>5. \A j \in Places : (j \in 1..Len(s) /\ j \notin 1..Len(t)) => p[f[j]][g[j]] = "greater"
    BY <1>1, <1>2, EndedValues
  <2>6. \A j \in Places : (j \in 1..Len(s) /\ j \in 1..Len(t)) => p[f[j]][g[j]] = "equal"
    BY <1>3, <2>1
  <2> HIDE DEF result, f, g, p, differ
  <2>7. CASE Len(s) = Len(t)
    <3>1. result = "equal" /\ result \in Answers  BY <1>1, <2>2, <2>7, NumbersCompared
    <3>2. \A j \in Places : p[f[j]][g[j]] = "equal"  BY <2>3, <2>6, <2>7
    <3>3. Fits(f, g, p, result)  BY <3>1, <3>2 DEF Fits
    <3> QED  BY <3>1, <3>3 DEF result, f, g, p
  <2>8. CASE Len(s) < Len(t)
    <3>1. result = "less" /\ result \in Answers  BY <1>1, <2>2, <2>8, NumbersCompared
    <3> DEFINE k == Len(s) + 1
    <3>2. k \in Places /\ k \notin 1..Len(s) /\ k \in 1..Len(t)  BY <1>1, <2>8 DEF Places
    <3>3. \A j \in Places : j < k => (j \in 1..Len(s) /\ j \in 1..Len(t))  BY <1>1, <2>8 DEF Places
    <3> HIDE DEF k
    <3>4. EqualBefore(f, g, p, k) /\ p[f[k]][g[k]] = result  BY <2>4, <2>6, <3>1, <3>2, <3>3 DEF EqualBefore
    <3>5. Fits(f, g, p, result)  BY <3>1, <3>2, <3>4 DEF Fits
    <3> QED  BY <3>1, <3>5 DEF result, f, g, p
  <2>9. CASE Len(t) < Len(s)
    <3>1. result = "greater" /\ result \in Answers  BY <1>1, <2>2, <2>9, NumbersCompared
    <3> DEFINE k == Len(t) + 1
    <3>2. k \in Places /\ k \in 1..Len(s) /\ k \notin 1..Len(t)  BY <1>1, <2>9 DEF Places
    <3>3. \A j \in Places : j < k => (j \in 1..Len(s) /\ j \in 1..Len(t))  BY <1>1, <2>9 DEF Places
    <3> HIDE DEF k
    <3>4. EqualBefore(f, g, p, k) /\ p[f[k]][g[k]] = result  BY <2>5, <2>6, <3>1, <3>2, <3>3 DEF EqualBefore
    <3>5. Fits(f, g, p, result)  BY <3>1, <3>2, <3>4 DEF Fits
    <3> QED  BY <3>1, <3>5 DEF result, f, g, p
  <2>10. Len(s) = Len(t) \/ Len(s) < Len(t) \/ Len(t) < Len(s)  BY <1>1
  <2> QED  BY <2>7, <2>8, <2>9, <2>10
<1> QED  BY <1>6, <1>7

(* l is Compare on the sequences of S, with how given by c.                *)
Lifts(S, l, c) ==
  \A s, t \in S : \E how : /\ l[s][t] = Versions!Compare(s, t, how)
                           /\ \A i \in Versions!Common(s, t) : how[i] = c[s[i]][t[i]]

(* Compare on sequences is a comparison when how is one on their elements. *)
LEMMA SequencesCompared ==
  ASSUME NEW E, NEW c, IsComparison(E, c), NEW S \in SUBSET Seq(E), NEW l, Lifts(S, l, c)
  PROVE  IsComparison(S, l)
<1>0. PICK end : end \notin E  BY NoSetContainsEverything
<1> DEFINE D == E \cup {end}
           p == Ended(E, c, end)
           pad(s) == Padded(s, end)
<1>1. IsComparison(D, p)  BY <1>0, EndedCompares
<1>2. ASSUME NEW s \in S PROVE pad(s) \in [Places -> D]
  <2>1. \A j \in 1..Len(s) : s[j] \in E  OBVIOUS
  <2> QED  BY <2>1 DEF Padded
<1>3. ASSUME NEW s \in S, NEW t \in S
      PROVE  Fits(pad(s), pad(t), p, l[s][t]) /\ l[s][t] \in Answers
  <2>1. PICK how : /\ l[s][t] = Versions!Compare(s, t, how)
                   /\ \A i \in Versions!Common(s, t) : how[i] = c[s[i]][t[i]]
    BY DEF Lifts
  <2>2. s \in Seq(E) /\ t \in Seq(E)  OBVIOUS
  <2>3. /\ Fits(pad(s), pad(t), p, Versions!Compare(s, t, how))
        /\ Versions!Compare(s, t, how) \in Answers
    BY <1>0, <2>1, <2>2, CompareFits
  <2> HIDE DEF p, pad
  <2> QED  BY <2>1, <2>3
<1> HIDE DEF p, pad, D
<1>4. ASSUME NEW s \in S, NEW t \in S
      PROVE  l[s][t] \in Answers /\ l[t][s] = Turned(l[s][t])
  <2>1. Fits(pad(t), pad(s), p, Turned(l[s][t]))  BY <1>1, <1>2, <1>3, FitsTurned
  <2>2. Fits(pad(t), pad(s), p, l[t][s])  BY <1>3
  <2>3. l[t][s] = Turned(l[s][t])  BY <2>1, <2>2, FitsOnce
  <2> QED  BY <1>3, <2>3
<1>5. ASSUME NEW s \in S, NEW t \in S, NEW u \in S, l[s][t] = "equal"
      PROVE  l[s][u] = l[t][u]
  <2>1. Fits(pad(s), pad(t), p, "equal")  BY <1>3, <1>5
  <2>2. Fits(pad(s), pad(u), p, l[s][u]) /\ Fits(pad(t), pad(u), p, l[t][u])  BY <1>3
  <2>3. Fits(pad(t), pad(u), p, l[s][u])  BY <1>1, <1>2, <2>1, <2>2, FitsAlike
  <2> QED  BY <2>2, <2>3, FitsOnce
<1>6. ASSUME NEW s \in S, NEW t \in S, NEW u \in S, l[s][t] = "less", l[t][u] = "less"
      PROVE  l[s][u] = "less"
  <2>1. Fits(pad(s), pad(t), p, "less") /\ Fits(pad(t), pad(u), p, "less")  BY <1>3, <1>6
  <2>2. Fits(pad(s), pad(u), p, l[s][u])  BY <1>3
  <2>3. Fits(pad(s), pad(u), p, "less")  BY <1>1, <1>2, <2>1, FitsLess
  <2> QED  BY <2>2, <2>3, FitsOnce
<1> QED  BY <1>4, <1>5, <1>6 DEF IsComparison

(* What its answers mean.                                                  *)
ComesFirst(s, t, c) ==
  \E i \in 1..Len(t) :
    /\ i - 1 <= Len(s) /\ \A j \in 1..(i - 1) : c[s[j]][t[j]] = "equal"
    /\ i > Len(s) \/ c[s[i]][t[i]] = "less"

LEMMA CompareMeans ==
  ASSUME NEW E, NEW c, IsComparison(E, c), NEW s \in Seq(E), NEW t \in Seq(E), NEW how,
         \A i \in Versions!Common(s, t) : how[i] = c[s[i]][t[i]]
  PROVE  /\ Versions!Compare(s, t, how) = "less" <=> ComesFirst(s, t, c)
         /\ Versions!Compare(s, t, how) = "equal"
              <=> Len(s) = Len(t) /\ \A i \in 1..Len(s) : c[s[i]][t[i]] = "equal"
<1>0. PICK end : end \notin E  BY NoSetContainsEverything
<1> DEFINE p == Ended(E, c, end)
           f == Padded(s, end)
           g == Padded(t, end)
           result == Versions!Compare(s, t, how)
<1>1. Len(s) \in Nat /\ Len(t) \in Nat /\ (\A i \in 1..Len(s) : s[i] \in E) /\ \A i \in 1..Len(t) : t[i] \in E
  OBVIOUS
<1>2. Fits(f, g, p, result) /\ result \in Answers  BY <1>0, CompareFits
<1>3. \A j \in Places : /\ j \in 1..Len(s) => f[j] = s[j]
                        /\ j \notin 1..Len(s) => f[j] = end
                        /\ j \in 1..Len(t) => g[j] = t[j]
                        /\ j \notin 1..Len(t) => g[j] = end
  BY DEF Padded
<1>4. \A j \in Places :
        /\ (j \in 1..Len(s) /\ j \in 1..Len(t)) => p[f[j]][g[j]] = c[s[j]][t[j]]
        /\ (j \notin 1..Len(s) /\ j \notin 1..Len(t)) => p[f[j]][g[j]] = "equal"
        /\ (j \notin 1..Len(s) /\ j \in 1..Len(t)) => p[f[j]][g[j]] = "less"
        /\ (j \in 1..Len(s) /\ j \notin 1..Len(t)) => p[f[j]][g[j]] = "greater"
  BY <1>0, <1>1, <1>3, EndedValues
<1> HIDE DEF f, g, p, result
<1>5. ASSUME result = "less" PROVE ComesFirst(s, t, c)
  <2>1. PICK k \in Places : EqualBefore(f, g, p, k) /\ p[f[k]][g[k]] = "less"  BY <1>2, <1>5 DEF Fits
  <2>2. k \in 1..Len(t) /\ (k \in 1..Len(s) => c[s[k]][t[k]] = "less")  BY <1>4, <2>1
  <2>3. ASSUME NEW j \in Places, j < k PROVE j \in 1..Len(s) /\ j \in 1..Len(t) /\ c[s[j]][t[j]] = "equal"
    <3>1. p[f[j]][g[j]] = "equal"  BY <2>1, <2>3 DEF EqualBefore
    <3>2. j \in 1..Len(t)  BY <1>1, <2>2, <2>3 DEF Places
    <3>3. j \in 1..Len(s)  BY <1>4, <3>1, <3>2
    <3> QED  BY <1>4, <3>1, <3>2, <3>3
  <2>4. k - 1 <= Len(s)
    <3>1. CASE k = 1  BY <1>1, <3>1
    <3>2. CASE k # 1
      <4>1. k - 1 \in Places /\ k - 1 < k  BY <3>2 DEF Places
      <4>2. k - 1 \in 1..Len(s)  BY <2>3, <4>1
      <4> QED  BY <1>1, <4>2
    <3> QED  BY <3>1, <3>2
  <2>5. \A j \in 1..(k - 1) : j \in Places /\ j < k  BY DEF Places
  <2>6. k > Len(s) \/ k \in 1..Len(s)  BY <1>1 DEF Places
  <2> QED  BY <2>2, <2>3, <2>4, <2>5, <2>6 DEF ComesFirst
<1>6. ASSUME ComesFirst(s, t, c) PROVE result = "less"
  <2>1. PICK i \in 1..Len(t) :
          /\ i - 1 <= Len(s) /\ \A j \in 1..(i - 1) : c[s[j]][t[j]] = "equal"
          /\ i > Len(s) \/ c[s[i]][t[i]] = "less"
    BY <1>6 DEF ComesFirst
  <2>2. i \in Places /\ i \in Nat /\ \A j \in Places : j < i => j \in 1..(i - 1) /\ j \in 1..Len(s) /\ j \in 1..Len(t)
    BY <1>1, <2>1 DEF Places
  <2>3. EqualBefore(f, g, p, i)  BY <1>4, <2>1, <2>2 DEF EqualBefore
  <2>4. p[f[i]][g[i]] = "less"
    <3>1. i \in 1..Len(s) \/ i > Len(s)  BY <1>1, <2>2 DEF Places
    <3>2. i > Len(s) => i \notin 1..Len(s)  BY <1>1
    <3> QED  BY <1>4, <2>1, <2>2, <3>1, <3>2
  <2>5. Fits(f, g, p, "less")  BY <2>2, <2>3, <2>4 DEF Fits
  <2> QED  BY <1>2, <2>5, FitsOnce
<1>7. ASSUME result = "equal"
      PROVE  Len(s) = Len(t) /\ \A i \in 1..Len(s) : c[s[i]][t[i]] = "equal"
  <2>1. \A j \in Places : p[f[j]][g[j]] = "equal"  BY <1>2, <1>7 DEF Fits
  <2>2. \A j \in Places : j \in 1..Len(s) <=> j \in 1..Len(t)  BY <1>4, <2>1
  <2>3. Len(s) = Len(t)
    <3>1. Len(s) # 0 => Len(s) \in Places /\ Len(s) \in 1..Len(s)  BY <1>1 DEF Places
    <3>2. Len(t) # 0 => Len(t) \in Places /\ Len(t) \in 1..Len(t)  BY <1>1 DEF Places
    <3>3. Len(s) # 0 => Len(s) \in 1..Len(t)  BY <2>2, <3>1
    <3>4. Len(t) # 0 => Len(t) \in 1..Len(s)  BY <2>2, <3>2
    <3> QED  BY <1>1, <3>3, <3>4
  <2>4. \A j \in 1..Len(s) : j \in Places  BY DEF Places
  <2> QED  BY <1>4, <2>1, <2>2, <2>3, <2>4
<1>8. ASSUME Len(s) = Len(t), \A i \in 1..Len(s) : c[s[i]][t[i]] = "equal" PROVE result = "equal"
  <2>1. \A j \in Places : p[f[j]][g[j]] = "equal"  BY <1>4, <1>8
  <2>2. Fits(f, g, p, "equal")  BY <2>1 DEF Fits
  <2> QED  BY <1>2, <2>2, FitsOnce
<1>9. /\ result = "less" <=> ComesFirst(s, t, c)
      /\ result = "equal" <=> (Len(s) = Len(t) /\ \A i \in 1..Len(s) : c[s[i]][t[i]] = "equal")
  BY <1>5, <1>6, <1>7, <1>8
<1> QED  BY <1>9 DEF result

(* The orders the code builds on one another: bytes, texts, identifiers,   *)
(* prereleases, numbers, cores, versions.                                  *)
Texts == Seq(Versions!Byte)
NumberTexts == {s \in Texts : Versions!IsNumber(s)}
CoreTexts == Seq(NumberTexts)
PrereleaseTexts == Seq(Texts)
ReleaseTexts == [core: CoreTexts, prerelease: PrereleaseTexts]

ByteOrder == [a \in Versions!Byte |-> [b \in Versions!Byte |-> Versions!CompareNumbers(a, b)]]
TextOrder == [s \in Texts |-> [t \in Texts |-> Versions!CompareText(s, t)]]
IdentifierOrder == [s \in Texts |-> [t \in Texts |-> Versions!CompareIdentifiers(s, t)]]
NumberOrder ==
  [s \in NumberTexts |-> [t \in NumberTexts |-> Versions!CompareNumbers(Versions!Value(s), Versions!Value(t))]]
CoreOrder == [s \in CoreTexts |-> [t \in CoreTexts |-> Versions!CompareCores(s, t)]]
PartsOrder ==
  [s \in PrereleaseTexts |-> [t \in PrereleaseTexts |->
     Versions!Compare(s, t, [i \in Versions!Common(s, t) |-> Versions!CompareIdentifiers(s[i], t[i])])]]
PrereleaseOrder ==
  [s \in PrereleaseTexts |-> [t \in PrereleaseTexts |->
     IF s = <<>> THEN IF t = <<>> THEN "equal" ELSE "greater"
                 ELSE IF t = <<>> THEN "less" ELSE PartsOrder[s][t]]]
VersionOrder == [v \in ReleaseTexts |-> [w \in ReleaseTexts |-> Versions!CompareVersions(v, w)]]

LEMMA BytesCompared == IsComparison(Versions!Byte, ByteOrder)
<1> DEFINE measure == [a \in Versions!Byte |-> a]
<1>1. \A a \in Versions!Byte : measure[a] \in Nat  BY DEF Versions!Byte
<1>2. \A a, b \in Versions!Byte : ByteOrder[a][b] = Versions!CompareNumbers(measure[a], measure[b])
  BY DEF ByteOrder
<1> HIDE DEF measure
<1> QED  BY <1>1, <1>2, MeasureCompares

LEMMA NumbersAreCompared == IsComparison(NumberTexts, NumberOrder)
<1> DEFINE measure == [s \in NumberTexts |-> Versions!Value(s)]
<1>1. \A s \in NumberTexts : measure[s] \in Nat
  <2> TAKE s \in NumberTexts
  <2>1. s \in Seq(Versions!Byte) /\ Versions!IsNumber(s)  BY DEF NumberTexts, Texts
  <2>2. DigitText(s)  BY <2>1, NumberText
  <2> QED  BY <2>2, NumberBuilt
<1>2. \A s, t \in NumberTexts : NumberOrder[s][t] = Versions!CompareNumbers(measure[s], measure[t])
  BY DEF NumberOrder
<1> HIDE DEF measure
<1> QED  BY <1>1, <1>2, MeasureCompares

LEMMA CommonRange ==
  ASSUME NEW E, NEW s \in Seq(E), NEW t \in Seq(E), NEW i \in Versions!Common(s, t)
  PROVE  s[i] \in E /\ t[i] \in E
<1>1. Len(s) \in Nat /\ Len(t) \in Nat  OBVIOUS
<1>2. i \in 1..Len(s) /\ i \in 1..Len(t)  BY <1>1 DEF Versions!Common
<1> QED  BY <1>2

LEMMA TextsCompared == IsComparison(Texts, TextOrder)
<1>1. Lifts(Texts, TextOrder, ByteOrder)
  <2> SUFFICES ASSUME NEW s \in Texts, NEW t \in Texts
               PROVE  \E how : /\ TextOrder[s][t] = Versions!Compare(s, t, how)
                               /\ \A i \in Versions!Common(s, t) : how[i] = ByteOrder[s[i]][t[i]]
    BY DEF Lifts
  <2> DEFINE how == [i \in Versions!Common(s, t) |-> Versions!CompareNumbers(s[i], t[i])]
  <2>1. TextOrder[s][t] = Versions!Compare(s, t, how)  BY DEF TextOrder, Versions!CompareText
  <2>2. ASSUME NEW i \in Versions!Common(s, t) PROVE how[i] = ByteOrder[s[i]][t[i]]
    <3>1. s[i] \in Versions!Byte /\ t[i] \in Versions!Byte  BY CommonRange DEF Texts
    <3> QED  BY <3>1 DEF ByteOrder
  <2> QED  BY <2>1, <2>2
<1>2. Texts \in SUBSET Seq(Versions!Byte)  BY DEF Texts
<1> QED  BY <1>1, <1>2, BytesCompared, SequencesCompared

LEMMA CoresCompared == IsComparison(CoreTexts, CoreOrder)
<1>1. Lifts(CoreTexts, CoreOrder, NumberOrder)
  <2> SUFFICES ASSUME NEW s \in CoreTexts, NEW t \in CoreTexts
               PROVE  \E how : /\ CoreOrder[s][t] = Versions!Compare(s, t, how)
                               /\ \A i \in Versions!Common(s, t) : how[i] = NumberOrder[s[i]][t[i]]
    BY DEF Lifts
  <2> DEFINE how == [i \in Versions!Common(s, t) |->
                       Versions!CompareNumbers(Versions!Value(s[i]), Versions!Value(t[i]))]
  <2>1. CoreOrder[s][t] = Versions!Compare(s, t, how)  BY DEF CoreOrder, Versions!CompareCores
  <2>2. ASSUME NEW i \in Versions!Common(s, t) PROVE how[i] = NumberOrder[s[i]][t[i]]
    <3>1. s[i] \in NumberTexts /\ t[i] \in NumberTexts  BY CommonRange DEF CoreTexts
    <3> QED  BY <3>1 DEF NumberOrder
  <2> QED  BY <2>1, <2>2
<1>2. CoreTexts \in SUBSET Seq(NumberTexts)  BY DEF CoreTexts
<1> QED  BY <1>1, <1>2, NumbersAreCompared, SequencesCompared

(* Numbers come before words.                                              *)
LEMMA IdentifierCases ==
  ASSUME NEW s \in Texts, NEW t \in Texts
  PROVE  /\ Versions!IsU64(s) => Versions!Value(s) \in Nat
         /\ (Versions!IsU64(s) /\ Versions!IsU64(t))
              => IdentifierOrder[s][t] = Versions!CompareNumbers(Versions!Value(s), Versions!Value(t))
         /\ (Versions!IsU64(s) /\ ~Versions!IsU64(t)) => IdentifierOrder[s][t] = "less"
         /\ (~Versions!IsU64(s) /\ Versions!IsU64(t)) => IdentifierOrder[s][t] = "greater"
         /\ (~Versions!IsU64(s) /\ ~Versions!IsU64(t)) => IdentifierOrder[s][t] = TextOrder[s][t]
<1>1. ASSUME Versions!IsU64(s) PROVE Versions!Value(s) \in Nat
  <2>1. Len(s) \in Nat /\ DOMAIN s = 1..Len(s)  BY DEF Texts
  <2>2. \A i \in 1..Len(s) : s[i] \in Versions!Digits  BY <1>1, <2>1 DEF Versions!IsU64, Versions!Range
  <2>3. \A i \in 1..Len(s) : s[i] \in Nat  BY <2>2 DEF Versions!Digits
  <2>4. s \in Seq(Nat)  BY <2>1, <2>3 DEF Texts
  <2>5. DigitText(s)  BY <2>1, <2>2, <2>4 DEF DigitText
  <2> QED  BY <2>5, NumberBuilt
<1>2. IdentifierOrder[s][t] = Versions!CompareIdentifiers(s, t) /\ TextOrder[s][t] = Versions!CompareText(s, t)
  BY DEF IdentifierOrder, TextOrder
<1> QED  BY <1>1, <1>2 DEF Versions!CompareIdentifiers

LEMMA IdentifiersCompared == IsComparison(Texts, IdentifierOrder)
<1> DEFINE c == IdentifierOrder
           number(s) == Versions!IsU64(s)
           n(s) == Versions!Value(s)
<1>1. ASSUME NEW s \in Texts, NEW t \in Texts
      PROVE  c[s][t] \in Answers /\ c[t][s] = Turned(c[s][t])
  <2>1. CASE number(s) /\ number(t)
    <3>1. n(s) \in Nat /\ n(t) \in Nat  BY <2>1, IdentifierCases
    <3>2. c[s][t] = Versions!CompareNumbers(n(s), n(t)) /\ c[t][s] = Versions!CompareNumbers(n(t), n(s))
      BY <2>1, IdentifierCases
    <3> QED  BY <3>1, <3>2, NumbersCompared DEF Answers, Turned
  <2>2. CASE ~number(s) /\ ~number(t)
    <3>1. c[s][t] = TextOrder[s][t] /\ c[t][s] = TextOrder[t][s]  BY <2>2, IdentifierCases
    <3> QED  BY <3>1, TextsCompared DEF IsComparison
  <2>3. CASE number(s) /\ ~number(t)
    <3>1. c[s][t] = "less" /\ c[t][s] = "greater"  BY <2>3, IdentifierCases
    <3> QED  BY <3>1 DEF Answers, Turned
  <2>4. CASE ~number(s) /\ number(t)
    <3>1. c[s][t] = "greater" /\ c[t][s] = "less"  BY <2>4, IdentifierCases
    <3> QED  BY <3>1 DEF Answers, Turned
  <2> QED  BY <2>1, <2>2, <2>3, <2>4
<1>2. ASSUME NEW s \in Texts, NEW t \in Texts, NEW u \in Texts
      PROVE  /\ c[s][t] = "equal" => c[s][u] = c[t][u]
             /\ (c[s][t] = "less" /\ c[t][u] = "less") => c[s][u] = "less"
  <2>1. CASE number(s) /\ number(t) /\ number(u)
    <3>1. n(s) \in Nat /\ n(t) \in Nat /\ n(u) \in Nat  BY <2>1, IdentifierCases
    <3>2. /\ c[s][t] = Versions!CompareNumbers(n(s), n(t))
          /\ c[t][u] = Versions!CompareNumbers(n(t), n(u))
          /\ c[s][u] = Versions!CompareNumbers(n(s), n(u))
      BY <2>1, IdentifierCases
    <3> QED  BY <3>1, <3>2, NumbersCompared
  <2>2. CASE ~number(s) /\ ~number(t) /\ ~number(u)
    <3>1. c[s][t] = TextOrder[s][t] /\ c[t][u] = TextOrder[t][u] /\ c[s][u] = TextOrder[s][u]
      BY <2>2, IdentifierCases
    <3> QED  BY <3>1, TextsCompared DEF IsComparison
  <2>3. CASE number(s) /\ ~number(t)
    <3>1. c[s][t] = "less" /\ (~number(u) => c[s][u] = "less") /\ (number(u) => c[t][u] = "greater")
      BY <2>3, IdentifierCases
    <3> QED  BY <3>1
  <2>4. CASE ~number(s) /\ number(t)
    <3>1. c[s][t] = "greater"  BY <2>4, IdentifierCases
    <3> QED  BY <3>1
  <2>5. CASE number(s) /\ number(t) /\ ~number(u)
    <3>1. c[s][u] = "less" /\ c[t][u] = "less"  BY <2>5, IdentifierCases
    <3> QED  BY <3>1
  <2>6. CASE ~number(s) /\ ~number(t) /\ number(u)
    <3>1. c[s][u] = "greater" /\ c[t][u] = "greater"  BY <2>6, IdentifierCases
    <3> QED  BY <3>1
  <2> QED  BY <2>1, <2>2, <2>3, <2>4, <2>5, <2>6
<1> QED  BY <1>1, <1>2 DEF IsComparison

LEMMA PartsCompared == IsComparison(PrereleaseTexts, PartsOrder)
<1>1. Lifts(PrereleaseTexts, PartsOrder, IdentifierOrder)
  <2> SUFFICES ASSUME NEW s \in PrereleaseTexts, NEW t \in PrereleaseTexts
               PROVE  \E how : /\ PartsOrder[s][t] = Versions!Compare(s, t, how)
                               /\ \A i \in Versions!Common(s, t) : how[i] = IdentifierOrder[s[i]][t[i]]
    BY DEF Lifts
  <2> DEFINE how == [i \in Versions!Common(s, t) |-> Versions!CompareIdentifiers(s[i], t[i])]
  <2>1. PartsOrder[s][t] = Versions!Compare(s, t, how)  BY DEF PartsOrder
  <2>2. ASSUME NEW i \in Versions!Common(s, t) PROVE how[i] = IdentifierOrder[s[i]][t[i]]
    <3>1. s[i] \in Texts /\ t[i] \in Texts  BY CommonRange DEF PrereleaseTexts
    <3> QED  BY <3>1 DEF IdentifierOrder
  <2> QED  BY <2>1, <2>2
<1>2. PrereleaseTexts \in SUBSET Seq(Texts)  BY DEF PrereleaseTexts
<1> QED  BY <1>1, <1>2, IdentifiersCompared, SequencesCompared

(* A release comes after its prereleases.                                  *)
LEMMA PrereleasesCompared == IsComparison(PrereleaseTexts, PrereleaseOrder)
<1> DEFINE P == PrereleaseTexts
           c == PrereleaseOrder
           q == PartsOrder
<1>1. \A s, t \in P : /\ (s = <<>> /\ t = <<>>) => c[s][t] = "equal"
                      /\ (s = <<>> /\ t # <<>>) => c[s][t] = "greater"
                      /\ (s # <<>> /\ t = <<>>) => c[s][t] = "less"
                      /\ (s # <<>> /\ t # <<>>) => c[s][t] = q[s][t]
  BY DEF PrereleaseOrder
<1>2. IsComparison(P, q)  BY PartsCompared
<1> HIDE DEF P, c, q
<1>3. ASSUME NEW s \in P, NEW t \in P
      PROVE  c[s][t] \in Answers /\ c[t][s] = Turned(c[s][t])
  <2>1. CASE s # <<>> /\ t # <<>>  BY <1>1, <1>2, <2>1 DEF IsComparison
  <2>2. CASE s = <<>> \/ t = <<>>  BY <1>1, <2>2 DEF Answers, Turned
  <2> QED  BY <2>1, <2>2
<1>4. ASSUME NEW s \in P, NEW t \in P, NEW u \in P
      PROVE  /\ c[s][t] = "equal" => c[s][u] = c[t][u]
             /\ (c[s][t] = "less" /\ c[t][u] = "less") => c[s][u] = "less"
  <2>1. CASE s # <<>> /\ t # <<>> /\ u # <<>>
    <3>1. /\ q[s][t] = "equal" => q[s][u] = q[t][u]
          /\ (q[s][t] = "less" /\ q[t][u] = "less") => q[s][u] = "less"
      BY <1>2 DEF IsComparison
    <3> QED  BY <1>1, <2>1, <3>1
  <2>2. CASE s = <<>> \/ t = <<>> \/ u = <<>>  BY <1>1, <2>2
  <2> QED  BY <2>1, <2>2
<1>5. IsComparison(P, c)  BY <1>3, <1>4 DEF IsComparison
<1> QED  BY <1>5 DEF P, c

LEMMA VersionCases ==
  ASSUME NEW v \in ReleaseTexts, NEW w \in ReleaseTexts
  PROVE  VersionOrder[v][w] = IF CoreOrder[v.core][w.core] # "equal" THEN CoreOrder[v.core][w.core]
                                ELSE PrereleaseOrder[v.prerelease][w.prerelease]
<1>1. v.core \in CoreTexts /\ w.core \in CoreTexts /\ v.prerelease \in PrereleaseTexts /\ w.prerelease \in PrereleaseTexts
  BY DEF ReleaseTexts
<1>2. CoreOrder[v.core][w.core] = Versions!CompareCores(v.core, w.core)  BY <1>1 DEF CoreOrder
<1>3. VersionOrder[v][w] = Versions!CompareVersions(v, w)  BY DEF VersionOrder
<1> DEFINE core == Versions!CompareCores(v.core, w.core)
           parts == Versions!Compare(v.prerelease, w.prerelease,
                      [i \in Versions!Common(v.prerelease, w.prerelease) |->
                         Versions!CompareIdentifiers(v.prerelease[i], w.prerelease[i])])
<1>4. PartsOrder[v.prerelease][w.prerelease] = parts  BY <1>1 DEF PartsOrder
<1>5. PrereleaseOrder[v.prerelease][w.prerelease]
        = IF v.prerelease = <<>> THEN IF w.prerelease = <<>> THEN "equal" ELSE "greater"
          ELSE IF w.prerelease = <<>> THEN "less" ELSE parts
  BY <1>1, <1>4 DEF PrereleaseOrder
<1>6. Versions!CompareVersions(v, w)
        = CASE core # "equal" -> core
            [] core = "equal" /\ v.prerelease = <<>> /\ w.prerelease = <<>> -> "equal"
            [] core = "equal" /\ v.prerelease = <<>> /\ w.prerelease # <<>> -> "greater"
            [] core = "equal" /\ v.prerelease # <<>> /\ w.prerelease = <<>> -> "less"
            [] OTHER -> parts
  BY DEF Versions!CompareVersions
<1> HIDE DEF core, parts
<1>7. Versions!CompareVersions(v, w)
        = IF core # "equal" THEN core
          ELSE IF v.prerelease = <<>> THEN IF w.prerelease = <<>> THEN "equal" ELSE "greater"
          ELSE IF w.prerelease = <<>> THEN "less" ELSE parts
  BY <1>6
<1> QED  BY <1>2, <1>3, <1>5, <1>7 DEF core

LEMMA VersionsCompared == IsComparison(ReleaseTexts, VersionOrder)
<1> DEFINE c == VersionOrder
           a == CoreOrder
           b == PrereleaseOrder
<1>1. \A v, w \in ReleaseTexts :
        /\ a[v.core][w.core] # "equal" => c[v][w] = a[v.core][w.core]
        /\ a[v.core][w.core] = "equal" => c[v][w] = b[v.prerelease][w.prerelease]
  BY VersionCases
<1>2. IsComparison(CoreTexts, a) /\ IsComparison(PrereleaseTexts, b)  BY CoresCompared, PrereleasesCompared
<1>3. \A v \in ReleaseTexts : v.core \in CoreTexts /\ v.prerelease \in PrereleaseTexts  BY DEF ReleaseTexts
<1> HIDE DEF a, b, c
<1>4. ASSUME NEW v \in ReleaseTexts, NEW w \in ReleaseTexts
      PROVE  c[v][w] \in Answers /\ c[w][v] = Turned(c[v][w])
  <2>1. /\ a[v.core][w.core] \in Answers /\ a[w.core][v.core] = Turned(a[v.core][w.core])
        /\ b[v.prerelease][w.prerelease] \in Answers
        /\ b[w.prerelease][v.prerelease] = Turned(b[v.prerelease][w.prerelease])
    BY <1>2, <1>3 DEF IsComparison
  <2>2. a[w.core][v.core] = "equal" <=> a[v.core][w.core] = "equal"  BY <2>1 DEF Turned, Answers
  <2> QED  BY <1>1, <2>1, <2>2
<1>5. ASSUME NEW v \in ReleaseTexts, NEW w \in ReleaseTexts, NEW u \in ReleaseTexts
      PROVE  /\ c[v][w] = "equal" => c[v][u] = c[w][u]
             /\ (c[v][w] = "less" /\ c[w][u] = "less") => c[v][u] = "less"
  <2>1. /\ a[v.core][w.core] = "equal" => a[v.core][u.core] = a[w.core][u.core]
        /\ (a[v.core][w.core] = "less" /\ a[w.core][u.core] = "less") => a[v.core][u.core] = "less"
        /\ a[w.core][u.core] = "equal" => a[v.core][w.core] = a[v.core][u.core]
    BY <1>2, <1>3, ComparisonFacts DEF IsComparison
  <2>2. /\ b[v.prerelease][w.prerelease] = "equal" => b[v.prerelease][u.prerelease] = b[w.prerelease][u.prerelease]
        /\ (b[v.prerelease][w.prerelease] = "less" /\ b[w.prerelease][u.prerelease] = "less")
             => b[v.prerelease][u.prerelease] = "less"
    BY <1>2, <1>3 DEF IsComparison
  <2> QED  BY <1>1, <2>1, <2>2
<1> QED  BY <1>4, <1>5 DEF IsComparison, c

LEMMA ByteMeans ==
  ASSUME NEW a \in Versions!Byte, NEW b \in Versions!Byte
  PROVE  /\ ByteOrder[a][b] = "equal" <=> a = b
         /\ ByteOrder[a][b] = "less" <=> a < b
<1>1. a \in Nat /\ b \in Nat  BY DEF Versions!Byte
<1>2. ByteOrder[a][b] = Versions!CompareNumbers(a, b)  BY DEF ByteOrder
<1> QED  BY <1>1, <1>2, NumbersCompared

(* Equal and less, said as semantic versioning says them.                  *)
LEMMA TextMeans ==
  ASSUME NEW s \in Texts, NEW t \in Texts
  PROVE  /\ TextOrder[s][t] = "equal" <=> s = t
         /\ TextOrder[s][t] = "less" <=> ComesFirst(s, t, ByteOrder)
<1> DEFINE how == [i \in Versions!Common(s, t) |-> Versions!CompareNumbers(s[i], t[i])]
<1>0. s \in Seq(Versions!Byte) /\ t \in Seq(Versions!Byte)  BY DEF Texts
<1>1. TextOrder[s][t] = Versions!Compare(s, t, how)  BY DEF TextOrder, Versions!CompareText
<1>2. ASSUME NEW i \in Versions!Common(s, t) PROVE how[i] = ByteOrder[s[i]][t[i]]
  <2>1. s[i] \in Versions!Byte /\ t[i] \in Versions!Byte  BY CommonRange DEF Texts
  <2> QED  BY <2>1 DEF ByteOrder
<1> HIDE DEF how
<1>3. /\ Versions!Compare(s, t, how) = "less" <=> ComesFirst(s, t, ByteOrder)
      /\ Versions!Compare(s, t, how) = "equal"
           <=> Len(s) = Len(t) /\ \A i \in 1..Len(s) : ByteOrder[s[i]][t[i]] = "equal"
  BY <1>0, <1>2, BytesCompared, CompareMeans
<1>4. \A a, b \in Versions!Byte : ByteOrder[a][b] = "equal" <=> a = b
  BY ByteMeans
<1>5. Len(s) = Len(t) /\ (\A i \in 1..Len(s) : ByteOrder[s[i]][t[i]] = "equal") <=> s = t
  <2>1. ASSUME Len(s) = Len(t), \A i \in 1..Len(s) : ByteOrder[s[i]][t[i]] = "equal" PROVE s = t
    <3>1. \A i \in 1..Len(s) : s[i] \in Versions!Byte /\ t[i] \in Versions!Byte  BY <1>0, <2>1
    <3>2. \A i \in 1..Len(s) : s[i] = t[i]  BY <1>4, <2>1, <3>1
    <3> QED  BY <1>0, <2>1, <3>2
  <2>2. ASSUME s = t PROVE Len(s) = Len(t) /\ \A i \in 1..Len(s) : ByteOrder[s[i]][t[i]] = "equal"
    <3>1. \A i \in 1..Len(s) : s[i] \in Versions!Byte  BY <1>0
    <3> QED  BY <1>4, <2>2, <3>1
  <2> QED  BY <2>1, <2>2
<1> QED  BY <1>1, <1>3, <1>5

LEMMA BelowMeans ==
  ASSUME NEW s \in Texts, NEW t \in Texts,
         Versions!IsNumeric(s) <=> Versions!IsU64(s), Versions!IsNumeric(t) <=> Versions!IsU64(t)
  PROVE  /\ IdentifierOrder[s][t] = "equal" <=> Versions!Same(s, t)
         /\ IdentifierOrder[s][t] = "less" <=> Versions!Below(s, t)
         /\ Versions!Same(s, t) <=> Versions!Same(t, s)
<1> DEFINE number(a) == Versions!IsU64(a)
           differs == \E i \in 1..(Len(s) + 1) :
                        /\ i <= Len(t) /\ \A j \in 1..(i - 1) : s[j] = t[j]
                        /\ i > Len(s) \/ s[i] < t[i]
<1>1. /\ Versions!Same(s, t) <=> (s = t \/ (number(s) /\ number(t) /\ Versions!Value(s) = Versions!Value(t)))
      /\ Versions!Same(t, s) <=> (t = s \/ (number(t) /\ number(s) /\ Versions!Value(t) = Versions!Value(s)))
      /\ Versions!Below(s, t) <=> \/ number(s) /\ number(t) /\ Versions!Value(s) < Versions!Value(t)
                                  \/ number(s) /\ ~number(t)
                                  \/ ~number(s) /\ ~number(t) /\ s # t /\ differs
  BY DEF Versions!Same, Versions!Below
<1>2. ComesFirst(s, t, ByteOrder) <=> differs
  <2>1. /\ Len(s) \in Nat /\ Len(t) \in Nat
        /\ \A i \in 1..Len(s) : s[i] \in Versions!Byte
        /\ \A i \in 1..Len(t) : t[i] \in Versions!Byte
    BY DEF Texts
  <2>2. /\ \A a, b \in Versions!Byte : ByteOrder[a][b] = "equal" <=> a = b
        /\ \A a, b \in Versions!Byte : ByteOrder[a][b] = "less" <=> a < b
    BY ByteMeans
  <2>3. ASSUME NEW i \in Nat, i # 0, i <= Len(t), i - 1 <= Len(s)
        PROVE  /\ \A j \in 1..(i - 1) : ByteOrder[s[j]][t[j]] = "equal" <=> s[j] = t[j]
               /\ ~(i > Len(s)) => (ByteOrder[s[i]][t[i]] = "less" <=> s[i] < t[i])
    <3>1. \A j \in 1..(i - 1) : s[j] \in Versions!Byte /\ t[j] \in Versions!Byte  BY <2>1, <2>3
    <3>2. ~(i > Len(s)) => (s[i] \in Versions!Byte /\ t[i] \in Versions!Byte)
      <4>1. ~(i > Len(s)) => (i \in 1..Len(s) /\ i \in 1..Len(t))  BY <2>1, <2>3
      <4> QED  BY <2>1, <4>1
    <3>3. \A j \in 1..(i - 1) : ByteOrder[s[j]][t[j]] = "equal" <=> s[j] = t[j]  BY <2>2, <3>1
    <3>4. ~(i > Len(s)) => (ByteOrder[s[i]][t[i]] = "less" <=> s[i] < t[i])  BY <2>2, <3>2
    <3> QED  BY <3>3, <3>4
  <2>4. ASSUME ComesFirst(s, t, ByteOrder) PROVE differs
    <3>1. PICK i \in 1..Len(t) :
            /\ i - 1 <= Len(s) /\ \A j \in 1..(i - 1) : ByteOrder[s[j]][t[j]] = "equal"
            /\ i > Len(s) \/ ByteOrder[s[i]][t[i]] = "less"
      BY <2>4 DEF ComesFirst
    <3>2. i \in Nat /\ i # 0 /\ i <= Len(t) /\ i \in 1..(Len(s) + 1)  BY <2>1, <3>1
    <3>3. (\A j \in 1..(i - 1) : s[j] = t[j]) /\ (i > Len(s) \/ s[i] < t[i])  BY <2>3, <3>1, <3>2
    <3> QED  BY <3>2, <3>3
  <2>5. ASSUME differs PROVE ComesFirst(s, t, ByteOrder)
    <3>1. PICK i \in 1..(Len(s) + 1) :
            /\ i <= Len(t) /\ \A j \in 1..(i - 1) : s[j] = t[j]
            /\ i > Len(s) \/ s[i] < t[i]
      BY <2>5
    <3>2. i \in Nat /\ i # 0 /\ i - 1 <= Len(s) /\ i \in 1..Len(t)  BY <2>1, <3>1
    <3>3. /\ \A j \in 1..(i - 1) : ByteOrder[s[j]][t[j]] = "equal"
          /\ i > Len(s) \/ ByteOrder[s[i]][t[i]] = "less"
      BY <2>3, <3>1, <3>2
    <3> QED  BY <3>2, <3>3 DEF ComesFirst
  <2> QED  BY <2>4, <2>5
<1>3. TextOrder[s][t] = "equal" <=> s = t  BY TextMeans
<1>4. TextOrder[s][t] = "less" <=> differs  BY <1>2, TextMeans
<1> HIDE DEF differs
<1>5. CASE number(s) /\ number(t)
  <2>1. /\ Versions!Value(s) \in Nat /\ Versions!Value(t) \in Nat
        /\ IdentifierOrder[s][t] = Versions!CompareNumbers(Versions!Value(s), Versions!Value(t))
    BY <1>5, IdentifierCases
  <2>2. s = t => Versions!Value(s) = Versions!Value(t)  OBVIOUS
  <2> QED  BY <1>1, <1>5, <2>1, <2>2, NumbersCompared
<1>6. CASE ~number(s) /\ ~number(t)
  <2>1. IdentifierOrder[s][t] = TextOrder[s][t]  BY <1>6, IdentifierCases
  <2> QED  BY <1>1, <1>3, <1>4, <1>6, <2>1
<1>7. CASE number(s) /\ ~number(t)
  <2>1. IdentifierOrder[s][t] = "less" /\ s # t  BY <1>7, IdentifierCases
  <2> QED  BY <1>1, <1>7, <2>1
<1>8. CASE ~number(s) /\ number(t)
  <2>1. IdentifierOrder[s][t] = "greater" /\ s # t  BY <1>8, IdentifierCases
  <2> QED  BY <1>1, <1>8, <2>1
<1> QED  BY <1>5, <1>6, <1>7, <1>8

LEMMA NumberMeans ==
  ASSUME NEW s \in NumberTexts, NEW t \in NumberTexts
  PROVE  /\ NumberOrder[s][t] = "equal" <=> s = t
         /\ NumberOrder[s][t] = "less" <=> Versions!Value(s) < Versions!Value(t)
<1>1. s \in Seq(Versions!Byte) /\ t \in Seq(Versions!Byte) /\ Versions!IsNumber(s) /\ Versions!IsNumber(t)
  BY DEF NumberTexts, Texts
<1>2. Versions!Value(s) \in Nat /\ Versions!Value(t) \in Nat  BY <1>1, NumberText, NumberBuilt
<1>3. NumberOrder[s][t] = Versions!CompareNumbers(Versions!Value(s), Versions!Value(t))  BY DEF NumberOrder
<1>4. Versions!Value(s) = Versions!Value(t) <=> s = t  BY <1>1, NumberIsItsValue
<1> QED  BY <1>2, <1>3, <1>4, NumbersCompared

LEMMA CoreAnswers ==
  ASSUME NEW s \in CoreTexts, NEW t \in CoreTexts
  PROVE  /\ CoreOrder[s][t] = "less" <=> ComesFirst(s, t, NumberOrder)
         /\ CoreOrder[s][t] = "equal"
              <=> Len(s) = Len(t) /\ \A i \in 1..Len(s) : NumberOrder[s[i]][t[i]] = "equal"
<1> DEFINE how == [i \in Versions!Common(s, t) |->
                     Versions!CompareNumbers(Versions!Value(s[i]), Versions!Value(t[i]))]
<1>1. CoreOrder[s][t] = Versions!Compare(s, t, how)  BY DEF CoreOrder, Versions!CompareCores
<1>2. ASSUME NEW i \in Versions!Common(s, t) PROVE how[i] = NumberOrder[s[i]][t[i]]
  <2>1. s[i] \in NumberTexts /\ t[i] \in NumberTexts  BY CommonRange DEF CoreTexts
  <2> QED  BY <2>1 DEF NumberOrder
<1> HIDE DEF how
<1>3. s \in Seq(NumberTexts) /\ t \in Seq(NumberTexts)  BY DEF CoreTexts
<1>4. /\ Versions!Compare(s, t, how) = "less" <=> ComesFirst(s, t, NumberOrder)
      /\ Versions!Compare(s, t, how) = "equal"
           <=> Len(s) = Len(t) /\ \A i \in 1..Len(s) : NumberOrder[s[i]][t[i]] = "equal"
  BY <1>2, <1>3, NumbersAreCompared, CompareMeans
<1> QED  BY <1>1, <1>4

LEMMA CoreMeans ==
  ASSUME NEW s \in CoreTexts, NEW t \in CoreTexts, Len(s) = 3, Len(t) = 3
  PROVE  /\ CoreOrder[s][t] = "equal" <=> s = t
         /\ CoreOrder[s][t] = "less" <=> \E i \in 1..3 : /\ \A j \in 1..(i - 1) : t[j] = s[j]
                                                         /\ Versions!Value(s[i]) < Versions!Value(t[i])
<1>3. s \in Seq(NumberTexts) /\ t \in Seq(NumberTexts)  BY DEF CoreTexts
<1>4. /\ CoreOrder[s][t] = "less" <=> ComesFirst(s, t, NumberOrder)
      /\ CoreOrder[s][t] = "equal"
           <=> Len(s) = Len(t) /\ \A i \in 1..Len(s) : NumberOrder[s[i]][t[i]] = "equal"
  BY CoreAnswers
<1>5. \A i \in 1..3 : /\ NumberOrder[s[i]][t[i]] = "equal" <=> s[i] = t[i]
                      /\ NumberOrder[s[i]][t[i]] = "less" <=> Versions!Value(s[i]) < Versions!Value(t[i])
  <2> TAKE i \in 1..3
  <2>1. s[i] \in NumberTexts /\ t[i] \in NumberTexts  BY <1>3
  <2> QED  BY <2>1, NumberMeans
<1>6. (Len(s) = Len(t) /\ \A i \in 1..Len(s) : NumberOrder[s[i]][t[i]] = "equal") <=> s = t
  BY <1>3, <1>5
<1>7. ComesFirst(s, t, NumberOrder)
        <=> \E i \in 1..3 : /\ \A j \in 1..(i - 1) : t[j] = s[j]
                            /\ Versions!Value(s[i]) < Versions!Value(t[i])
  <2>1. \A i \in 1..3 : i - 1 <= 3 /\ ~(i > 3) /\ \A j \in 1..(i - 1) : j \in 1..3  OBVIOUS
  <2>2. ComesFirst(s, t, NumberOrder)
          <=> \E i \in 1..3 : /\ \A j \in 1..(i - 1) : NumberOrder[s[j]][t[j]] = "equal"
                              /\ NumberOrder[s[i]][t[i]] = "less"
    BY <2>1 DEF ComesFirst
  <2> QED  BY <1>5, <2>1, <2>2
<1> QED  BY <1>4, <1>6, <1>7

LEMMA PrereleaseMeans ==
  ASSUME NEW s \in PrereleaseTexts, NEW t \in PrereleaseTexts,
         \A i \in DOMAIN s : Versions!IsNumeric(s[i]) <=> Versions!IsU64(s[i]),
         \A i \in DOMAIN t : Versions!IsNumeric(t[i]) <=> Versions!IsU64(t[i])
  PROVE  PrereleaseOrder[s][t] = "less"
           <=> \/ t = <<>> /\ s # <<>>
               \/ /\ t # <<>>
                  /\ \E i \in 1..Len(t) :
                       /\ i - 1 <= Len(s) /\ s # <<>>
                       /\ \A j \in 1..(i - 1) : Versions!Same(t[j], s[j])
                       /\ i > Len(s) \/ Versions!Below(s[i], t[i])
<1> DEFINE how == [i \in Versions!Common(s, t) |-> Versions!CompareIdentifiers(s[i], t[i])]
           first == \E i \in 1..Len(t) :
                      /\ i - 1 <= Len(s) /\ s # <<>>
                      /\ \A j \in 1..(i - 1) : Versions!Same(t[j], s[j])
                      /\ i > Len(s) \/ Versions!Below(s[i], t[i])
<1>1. PartsOrder[s][t] = Versions!Compare(s, t, how)  BY DEF PartsOrder
<1>2. ASSUME NEW i \in Versions!Common(s, t) PROVE how[i] = IdentifierOrder[s[i]][t[i]]
  <2>1. s[i] \in Texts /\ t[i] \in Texts  BY CommonRange DEF PrereleaseTexts
  <2> QED  BY <2>1 DEF IdentifierOrder
<1> HIDE DEF how
<1>3. s \in Seq(Texts) /\ t \in Seq(Texts)  BY DEF PrereleaseTexts
<1>4. PartsOrder[s][t] = "less" <=> ComesFirst(s, t, IdentifierOrder)
  BY <1>1, <1>2, <1>3, IdentifiersCompared, CompareMeans
<1>5. Len(s) \in Nat /\ Len(t) \in Nat /\ (\A i \in 1..Len(s) : s[i] \in Texts) /\ \A i \in 1..Len(t) : t[i] \in Texts
  BY <1>3
<1>6. ASSUME NEW i \in 1..Len(t), i - 1 <= Len(s)
      PROVE  /\ \A j \in 1..(i - 1) : IdentifierOrder[s[j]][t[j]] = "equal" <=> Versions!Same(t[j], s[j])
             /\ ~(i > Len(s)) => (IdentifierOrder[s[i]][t[i]] = "less" <=> Versions!Below(s[i], t[i]))
  <2> DEFINE both(j) == s[j] \in Texts /\ t[j] \in Texts
                        /\ (Versions!IsNumeric(s[j]) <=> Versions!IsU64(s[j]))
                        /\ (Versions!IsNumeric(t[j]) <=> Versions!IsU64(t[j]))
  <2>1. \A j \in 1..Len(s) : j \in 1..Len(t) => both(j)
    <3>1. DOMAIN s = 1..Len(s) /\ DOMAIN t = 1..Len(t)  BY <1>3
    <3> QED  BY <1>5, <3>1
  <2>2. \A j \in 1..(i - 1) : both(j)
    <3>1. \A j \in 1..(i - 1) : j \in 1..Len(s) /\ j \in 1..Len(t)  BY <1>5, <1>6
    <3> QED  BY <2>1, <3>1
  <2>3. ~(i > Len(s)) => both(i)
    <3>1. ~(i > Len(s)) => (i \in 1..Len(s) /\ i \in 1..Len(t))  BY <1>5, <1>6
    <3> QED  BY <2>1, <3>1
  <2>4. \A j : both(j) => (/\ (IdentifierOrder[s[j]][t[j]] = "equal" <=> Versions!Same(t[j], s[j]))
                           /\ (IdentifierOrder[s[j]][t[j]] = "less" <=> Versions!Below(s[j], t[j])))
    BY BelowMeans
  <2> HIDE DEF both
  <2> QED  BY <2>2, <2>3, <2>4
<1>7. ASSUME s # <<>> PROVE ComesFirst(s, t, IdentifierOrder) <=> first
  <2>1. ASSUME ComesFirst(s, t, IdentifierOrder) PROVE first
    <3>1. PICK i \in 1..Len(t) :
            /\ i - 1 <= Len(s) /\ \A j \in 1..(i - 1) : IdentifierOrder[s[j]][t[j]] = "equal"
            /\ i > Len(s) \/ IdentifierOrder[s[i]][t[i]] = "less"
      BY <2>1 DEF ComesFirst
    <3> QED  BY <1>6, <1>7, <3>1
  <2>2. ASSUME first PROVE ComesFirst(s, t, IdentifierOrder)
    <3>1. PICK i \in 1..Len(t) :
            /\ i - 1 <= Len(s) /\ s # <<>>
            /\ \A j \in 1..(i - 1) : Versions!Same(t[j], s[j])
            /\ i > Len(s) \/ Versions!Below(s[i], t[i])
      BY <2>2
    <3>2. /\ \A j \in 1..(i - 1) : IdentifierOrder[s[j]][t[j]] = "equal"
          /\ i > Len(s) \/ IdentifierOrder[s[i]][t[i]] = "less"
      BY <1>6, <3>1
    <3> QED  BY <3>1, <3>2 DEF ComesFirst
  <2> QED  BY <2>1, <2>2
<1>8. PrereleaseOrder[s][t] = IF s = <<>> THEN IF t = <<>> THEN "equal" ELSE "greater"
                              ELSE IF t = <<>> THEN "less" ELSE PartsOrder[s][t]
  BY DEF PrereleaseOrder
<1>9. s = <<>> => ~first  OBVIOUS
<1> HIDE DEF first
<1>10. PrereleaseOrder[s][t] = "less" <=> (t = <<>> /\ s # <<>>) \/ (t # <<>> /\ first)
  BY <1>4, <1>7, <1>8, <1>9
<1> QED  BY <1>10 DEF first

(* A release version's parts.                                              *)
LEMMA ReleaseParts ==
  ASSUME NEW v \in Versions!Texts, Versions!IsReleaseVersion(v)
  PROVE  v \in ReleaseTexts /\ Len(v.core) = 3
<1>1. v = [core |-> v.core, prerelease |-> v.prerelease] /\ v.core \in Cores /\ v.prerelease \in Prereleases
  BY DEF Versions!Texts
<1>2. v.core \in Seq(Texts) /\ v.prerelease \in Seq(Texts)
  BY <1>1, VersionsAssumption DEF Versions!VersionsAssumption, Texts
<1>3. Len(v.core) = 3 /\ \A i \in 1..3 : Versions!IsNumber(v.core[i])  BY DEF Versions!IsReleaseVersion
<1>4. \A i \in 1..Len(v.core) : v.core[i] \in NumberTexts
  <2> TAKE i \in 1..Len(v.core)
  <2>1. v.core[i] \in Texts  BY <1>2
  <2>2. Versions!IsNumber(v.core[i])  BY <1>3
  <2> QED  BY <2>1, <2>2 DEF NumberTexts
<1>5. v.core \in CoreTexts  BY <1>2, <1>4 DEF CoreTexts
<1> QED  BY <1>1, <1>2, <1>3, <1>5 DEF ReleaseTexts, PrereleaseTexts

LEMMA NewerMeans ==
  ASSUME NEW v \in ReleaseTexts, NEW w \in ReleaseTexts, Len(v.core) = 3, Len(w.core) = 3,
         Versions!NumbersFit(v), Versions!NumbersFit(w)
  PROVE  VersionOrder[v][w] = "greater" <=> Versions!SemverNewer(v, w)
<1>1. v.core \in CoreTexts /\ w.core \in CoreTexts /\ v.prerelease \in PrereleaseTexts /\ w.prerelease \in PrereleaseTexts
  BY DEF ReleaseTexts
<1>2. VersionOrder[v][w] = "greater" <=> VersionOrder[w][v] = "less"
  <2>1. /\ VersionOrder[v][w] \in Answers /\ VersionOrder[w][v] = Turned(VersionOrder[v][w])
    BY VersionsCompared DEF IsComparison
  <2> QED  BY <2>1 DEF Answers, Turned
<1>3. VersionOrder[w][v] = IF CoreOrder[w.core][v.core] # "equal" THEN CoreOrder[w.core][v.core]
                             ELSE PrereleaseOrder[w.prerelease][v.prerelease]
  BY VersionCases
<1> DEFINE core == \E i \in 1..3 : /\ \A j \in 1..(i - 1) : v.core[j] = w.core[j]
                                   /\ Versions!Value(w.core[i]) < Versions!Value(v.core[i])
           parts == \/ v.prerelease = <<>> /\ w.prerelease # <<>>
                    \/ /\ v.prerelease # <<>>
                       /\ \E i \in 1..Len(v.prerelease) :
                            /\ i - 1 <= Len(w.prerelease) /\ w.prerelease # <<>>
                            /\ \A j \in 1..(i - 1) : Versions!Same(v.prerelease[j], w.prerelease[j])
                            /\ i > Len(w.prerelease) \/ Versions!Below(w.prerelease[i], v.prerelease[i])
<1>4. /\ CoreOrder[w.core][v.core] = "equal" <=> w.core = v.core
      /\ CoreOrder[w.core][v.core] = "less" <=> core
  BY <1>1, CoreMeans
<1>5. PrereleaseOrder[w.prerelease][v.prerelease] = "less" <=> parts
  <2>1. ASSUME NEW u, Versions!NumbersFit(u), NEW i \in DOMAIN u.prerelease
        PROVE  Versions!IsNumeric(u.prerelease[i]) <=> Versions!IsU64(u.prerelease[i])
    BY <2>1 DEF Versions!NumbersFit, Versions!IsNumeric, Versions!IsU64
  <2> HIDE DEF parts
  <2>2. PrereleaseOrder[w.prerelease][v.prerelease] = "less"
          <=> \/ v.prerelease = <<>> /\ w.prerelease # <<>>
              \/ /\ v.prerelease # <<>>
                 /\ \E i \in 1..Len(v.prerelease) :
                      /\ i - 1 <= Len(w.prerelease) /\ w.prerelease # <<>>
                      /\ \A j \in 1..(i - 1) : Versions!Same(v.prerelease[j], w.prerelease[j])
                      /\ i > Len(w.prerelease) \/ Versions!Below(w.prerelease[i], v.prerelease[i])
    BY ONLY <1>1, <2>1, PrereleaseMeans, Versions!NumbersFit(v), Versions!NumbersFit(w)
  <2> QED  BY <2>2 DEF parts
<1>6. Versions!SemverNewer(v, w) <=> core \/ (v.core = w.core /\ parts)
  BY DEF Versions!SemverNewer
<1> HIDE DEF core, parts
<1> QED  BY <1>2, <1>3, <1>4, <1>5, <1>6

(* The three texts compared.                                               *)
VersionsInv == x \in Versions!Texts /\ y \in Versions!Texts /\ z \in Versions!Texts

LEMMA NewerFacts ==
  ASSUME NEW v \in Versions!Texts, NEW w \in Versions!Texts
  PROVE  Versions!IsNewer(v, w)
           <=> /\ Versions!IsReleaseVersion(v) /\ Versions!IsReleaseVersion(w)
               /\ VersionOrder[v][w] = "greater"
<1>1. (Versions!IsReleaseVersion(v) /\ Versions!IsReleaseVersion(w))
        => VersionOrder[v][w] = Versions!CompareVersions(v, w)
  BY ReleaseParts DEF VersionOrder
<1> QED  BY <1>1 DEF Versions!IsNewer

LEMMA NewerHolds ==
  ASSUME VersionsInv
  PROVE  Versions!StrictOrder /\ Versions!AgreesWithSemver
<1>1. x \in Versions!Texts /\ y \in Versions!Texts /\ z \in Versions!Texts  BY DEF VersionsInv
<1> DEFINE R(v) == Versions!IsReleaseVersion(v)
           o == VersionOrder
<1>2. ASSUME NEW v \in Versions!Texts, R(v) PROVE v \in ReleaseTexts /\ Len(v.core) = 3
  BY <1>2, ReleaseParts
<1>3. ASSUME NEW v \in Versions!Texts, NEW w \in Versions!Texts
      PROVE  Versions!IsNewer(v, w) <=> R(v) /\ R(w) /\ o[v][w] = "greater"
  BY NewerFacts
<1>4. Versions!AgreesWithSemver
  <2> SUFFICES ASSUME R(x), R(y), Versions!NumbersFit(x), Versions!NumbersFit(y)
               PROVE  Versions!IsNewer(x, y) <=> Versions!SemverNewer(x, y)
    BY DEF Versions!AgreesWithSemver
  <2>1. o[x][y] = "greater" <=> Versions!SemverNewer(x, y)  BY <1>1, <1>2, NewerMeans
  <2> QED  BY <1>1, <1>3, <2>1
<1>5. \A v, w \in ReleaseTexts : o[v][w] \in Answers /\ o[w][v] = Turned(o[v][w])
  BY VersionsCompared DEF IsComparison
<1>6. ~(Versions!IsNewer(x, y) /\ Versions!IsNewer(y, x))
  <2> SUFFICES ASSUME Versions!IsNewer(x, y), Versions!IsNewer(y, x) PROVE FALSE  OBVIOUS
  <2>1. x \in ReleaseTexts /\ y \in ReleaseTexts /\ o[x][y] = "greater" /\ o[y][x] = "greater"  BY <1>1, <1>2, <1>3
  <2>2. o[y][x] = Turned(o[x][y])  BY <1>5, <2>1
  <2> QED  BY <2>1, <2>2 DEF Turned
<1>7. ~Versions!IsNewer(x, x)
  <2> SUFFICES ASSUME Versions!IsNewer(x, x) PROVE FALSE  OBVIOUS
  <2>1. x \in ReleaseTexts /\ o[x][x] = "greater"  BY <1>1, <1>2, <1>3
  <2>2. o[x][x] = "equal"  BY <2>1, VersionsCompared, ComparisonFacts
  <2> QED  BY <2>1, <2>2
<1>8. Versions!IsNewer(x, y) /\ Versions!IsNewer(y, z) => Versions!IsNewer(x, z)
  <2> SUFFICES ASSUME Versions!IsNewer(x, y), Versions!IsNewer(y, z) PROVE Versions!IsNewer(x, z)  OBVIOUS
  <2>1. /\ x \in ReleaseTexts /\ y \in ReleaseTexts /\ z \in ReleaseTexts /\ R(x) /\ R(z)
        /\ o[x][y] = "greater" /\ o[y][z] = "greater"
    BY <1>1, <1>2, <1>3
  <2>2. o[x][z] = "greater"  BY <2>1, VersionsCompared, ComparisonFacts
  <2> QED  BY <1>1, <1>3, <2>1, <2>2
<1>9. Versions!IsNewer(x, z) /\ R(y) => Versions!IsNewer(x, y) \/ Versions!IsNewer(y, z)
  <2> SUFFICES ASSUME Versions!IsNewer(x, z), R(y), ~Versions!IsNewer(x, y), ~Versions!IsNewer(y, z) PROVE FALSE
    OBVIOUS
  <2>1. /\ x \in ReleaseTexts /\ y \in ReleaseTexts /\ z \in ReleaseTexts
        /\ o[x][z] = "greater" /\ o[x][y] # "greater" /\ o[y][z] # "greater"
    BY <1>1, <1>2, <1>3
  <2>2. o[x][z] # "greater"  BY <2>1, VersionsCompared, ComparisonFacts
  <2> QED  BY <2>1, <2>2
<1>10. Versions!StrictOrder  BY <1>6, <1>7, <1>8, <1>9 DEF Versions!StrictOrder
<1> QED  BY <1>4, <1>10

LEMMA VersionsStart == Versions!Init => VersionsInv
BY DEF Versions!Init, VersionsInv

LEMMA VersionsStep ==
  ASSUME VersionsInv, [Versions!Next]_versionVars
  PROVE  VersionsInv'
BY DEF VersionsInv, Versions!Next, versionVars, Versions!Texts

-----------------------------------------------------------------------------
(* The components together: each keeps its invariant in its own steps and  *)
(* stands still in those of the others.                                    *)
InstallationInv == IF part = "windows" THEN WindowsTheorems!InstallInv ELSE UnixTheorems!InstallInv

UpgradeInv ==
  CheckInv /\ InstallationInv /\ VersionsInv /\ ConfigInv /\ PromotionInv

(* Every component starts as if it were alone.                             *)
LEMMA UpgradeInit == Init => UpgradeInv
<1> SUFFICES ASSUME Init PROVE UpgradeInv  OBVIOUS
<1>1. Check!Init /\ Unix!Init /\ Versions!Init /\ Config!Init /\ Harness!Init  BY DEF Init
<1>2. OnWindows!Init  BY <1>1, Zenon DEF Unix!Init, Unix!NoProc, OnWindows!Init, OnWindows!NoProc
<1>3. CheckInv  BY <1>1, CheckInit
<1>4. UnixTheorems!InstallInv  BY <1>1, UnixAgrees, UnixTheorems!InstallInit
<1>5. WindowsTheorems!InstallInv  BY <1>2, WindowsAgrees, WindowsTheorems!InstallInit
<1>6. ConfigInv  BY <1>1, ConfigInit
<1>7. PromotionInv  BY <1>1, ReplacementAssumption, PromotionInit
<1>8. VersionsInv  BY <1>1, VersionsStart
<1> QED  BY <1>3, <1>4, <1>5, <1>6, <1>7, <1>8 DEF UpgradeInv, InstallationInv

(* A step of the composition is one of a single component.                 *)
LEMMA StepOfParts ==
  ASSUME [Next]_vars
  PROVE  /\ part' = part
         /\ [Check!Next]_checkVars
         /\ part = "windows" => [WindowsTheorems!Next]_(WindowsTheorems!vars)
         /\ part # "windows" => [UnixTheorems!Next]_(UnixTheorems!vars)
         /\ [Versions!Next]_versionVars
         /\ [Config!Next]_configVars
         /\ [Harness!Next]_harnessVars
<1>1. /\ part' = part
      /\ [Check!Next]_checkVars
      /\ part = "windows" => [OnWindows!Next]_installVars
      /\ part # "windows" => [Unix!Next]_installVars
      /\ [Versions!Next]_versionVars
      /\ [Config!Next]_configVars
      /\ [Harness!Next]_harnessVars
  BY DEF Next, InstallNext, vars
<1> QED  BY <1>1, UnixAgrees, WindowsAgrees, Zenon

(* The invariant of the composition is inductive.                          *)
LEMMA UpgradeStep == UpgradeInv /\ [Next]_vars => UpgradeInv'
<1> SUFFICES ASSUME UpgradeInv, [Next]_vars PROVE UpgradeInv'  OBVIOUS
<1>1. CheckInv'  BY StepOfParts, CheckStep DEF UpgradeInv
<1>2. InstallationInv'
  <2>1. CASE part = "windows"
    <3>1. WindowsTheorems!InstallInv'
      BY <2>1, StepOfParts, WindowsAgrees, WindowsTheorems!InstallStep DEF UpgradeInv, InstallationInv
    <3> QED  BY <2>1, <3>1, StepOfParts DEF InstallationInv
  <2>2. CASE part # "windows"
    <3>1. UnixTheorems!InstallInv'
      BY <2>2, StepOfParts, UnixAgrees, UnixTheorems!InstallStep DEF UpgradeInv, InstallationInv
    <3> QED  BY <2>2, <3>1, StepOfParts DEF InstallationInv
  <2> QED  BY <2>1, <2>2
<1>3. ConfigInv'
  BY StepOfParts, ConfigStep DEF UpgradeInv
<1>4. PromotionInv'
  BY StepOfParts, ReplacementAssumption, PromotionStep DEF UpgradeInv
<1>5. VersionsInv'
  BY StepOfParts, VersionsStep DEF UpgradeInv
<1> QED  BY <1>1, <1>2, <1>3, <1>4, <1>5 DEF UpgradeInv

(* What the invariant says of the executable, whichever swap the platform  *)
(* has.                                                                    *)
LEMMA InstallationSafe == InstallationInv => Unix!TypeOK /\ InstalledWhole
<1> SUFFICES ASSUME InstallationInv PROVE Unix!TypeOK /\ InstalledWhole  OBVIOUS
<1>1. CASE part = "windows"
  <2>1. OnWindows!TypeOK /\ OnWindows!OnlyReleases /\ OnWindows!AlwaysInstalled
    BY <1>1, WindowsAgrees, WindowsTheorems!InstallSafe DEF InstallationInv
  <2>2. Unix!TypeOK /\ Unix!OnlyReleases
    BY <2>1, Zenon
    DEF Unix!TypeOK, Unix!OnlyReleases, Unix!Contents, Unix!NoProc,
        OnWindows!TypeOK, OnWindows!OnlyReleases, OnWindows!Contents, OnWindows!NoProc
  <2> QED  BY <1>1, <2>1, <2>2 DEF InstalledWhole
<1>2. CASE part # "windows"
  <2>1. Unix!TypeOK /\ Unix!OnlyReleases /\ Unix!AlwaysInstalled
    BY <1>2, UnixAgrees, UnixTheorems!InstallSafe DEF InstallationInv
  <2> QED  BY <1>2, <2>1 DEF InstalledWhole
<1> QED  BY <1>1, <1>2

(* The place of the executable is left empty only by a fault between the   *)
(* two renames of the Windows swap; no other swap empties it.              *)
LEMMA StrandedOnlyInSwap ==
  ASSUME InstallationInv, [Next]_vars, ~OnWindows!Stranded, (OnWindows!Stranded)'
  PROVE  /\ exe = Missing /\ faults' > faults
         /\ \E p \in Terminals : step[p] = "finish" /\ outcome'[p] \in {"crashed", "failed"}
<1>1. ~WindowsTheorems!Stranded /\ (WindowsTheorems!Stranded)'
  BY DEF OnWindows!Stranded, WindowsTheorems!Stranded
<1>2. CASE part = "windows"
  BY <1>1, <1>2, StepOfParts, WindowsAgrees, WindowsTheorems!StrandedStep DEF InstallationInv
<1>3. CASE part # "windows"
  <2>1. UnixTheorems!InstallInv'
    BY <1>3, StepOfParts, UnixAgrees, UnixTheorems!InstallStep DEF InstallationInv
  <2>2. exe' \in Releases  BY <2>1 DEF UnixTheorems!InstallInv, UnixTheorems!Platform
  <2>3. exe' = Missing  BY DEF OnWindows!Stranded
  <2> QED  BY <2>2, <2>3, UnixAgrees DEF UnixTheorems!InstallAssumption
<1> QED  BY <1>2, <1>3

-----------------------------------------------------------------------------
(* Every variable of every component keeps its type.                       *)
THEOREM UpgradeTypes == Spec => []TypesOK
<1>1. UpgradeInv => TypesOK
  <2> SUFFICES ASSUME UpgradeInv PROVE TypesOK  OBVIOUS
  <2>1. Check!TypeOK  BY DEF UpgradeInv, CheckInv, CheckTypes, AskedIsNewer, Check!TypeOK
  <2>2. Config!TypeOK  BY DEF UpgradeInv, ConfigInv
  <2>3. Harness!TypeOK
    BY DEF UpgradeInv, PromotionInv, PromotionTypes
  <2> QED  BY <2>1, <2>2, <2>3, InstallationSafe DEF UpgradeInv, TypesOK
<1> QED  BY <1>1, UpgradeInit, UpgradeStep, PTL DEF Spec

(* At most one worker writes upgrade.json, until a lock is stolen for its  *)
(* age.                                                                    *)
THEOREM WorkersExcluded == Spec => []LockExcludes
<1>1. UpgradeInv => LockExcludes  BY DEF UpgradeInv, CheckInv, LockExcludes
<1> QED  BY <1>1, UpgradeInit, UpgradeStep, PTL DEF Spec

(* A dismissed release is not offered again, and nothing that was typed    *)
(* ahead of the prompt starts an upgrade.                                  *)
THEOREM UserHasDecided == Spec => UserDecides
<1>1. UpgradeInv /\ [Next]_vars =>
        [\A p \in Commands : pc[p] = "dismissal" /\ pc'[p] = "drain" => asked[p] # answer]_(Check!vars)
  BY StepOfParts, DecisionStep DEF UpgradeInv, NotDismissed
<1>2. UpgradeInv /\ [Next]_vars => [FALSE \notin consent']_(Check!vars)
  BY StepOfParts, DecisionStep DEF UpgradeInv, AtPrompt
<1> QED
  BY <1>1, <1>2, UpgradeInit, UpgradeStep, PTL
  DEF Spec, UserDecides, Check!DismissalStands, Check!ConsentAtPrompt

(* There is a whole, verified release at the place of the executable, or   *)
(* on Windows beside it; and the place is left empty only by an upgrade    *)
(* that dies between its two renames or cannot undo the first.             *)
THEOREM ReleaseInstalled == Spec => AlwaysInstalled
<1>1. UpgradeInv => InstalledWhole  BY InstallationSafe DEF UpgradeInv
<1>2. UpgradeInv /\ [Next]_vars =>
        [~OnWindows!Stranded /\ (OnWindows!Stranded)' =>
           /\ exe = Missing /\ faults' > faults
           /\ \E p \in Terminals : step[p] = "finish" /\ outcome'[p] \in {"crashed", "failed"}]_(OnWindows!vars)
  BY StrandedOnlyInSwap DEF UpgradeInv
<1> QED
  BY <1>1, <1>2, UpgradeInit, UpgradeStep, PTL DEF Spec, AlwaysInstalled, OnWindows!AwayOnlyInSwap

(* The program that is installed changes only by an upgrade that says so,  *)
(* and to the release that its user chose.                                 *)
LEMMA InstalledOutcome ==
  ASSUME InstallationInv, [Next]_vars
  PROVE  /\ (Unix!Installed)' # Unix!Installed =>
              \E p \in Terminals : step[p] # "off" /\ step'[p] = "off" /\ outcome'[p] = "upgraded"
         /\ \A p \in Terminals : step[p] # "off" /\ step'[p] = "off" /\ outcome'[p] = "upgraded"
              => exe' = target[p]
<1>1. /\ Unix!Installed = UnixTheorems!Installed /\ Unix!Installed = WindowsTheorems!Installed
      /\ (Unix!Installed)' = (UnixTheorems!Installed)' /\ (Unix!Installed)' = (WindowsTheorems!Installed)'
  BY DEF Unix!Installed, UnixTheorems!Installed, WindowsTheorems!Installed
<1>2. CASE part = "windows"
  <2>1. WindowsTheorems!InstallAssumption /\ WindowsTheorems!InstallInv
        /\ [WindowsTheorems!Next]_(WindowsTheorems!vars)
    BY <1>2, StepOfParts, WindowsAgrees DEF InstallationInv
  <2> QED  BY <1>1, <2>1, WindowsTheorems!OutcomeStep, WindowsTheorems!InstalledStep
<1>3. CASE part # "windows"
  <2>1. UnixTheorems!InstallAssumption /\ UnixTheorems!InstallInv /\ [UnixTheorems!Next]_(UnixTheorems!vars)
    BY <1>3, StepOfParts, UnixAgrees DEF InstallationInv
  <2> QED  BY <1>1, <2>1, UnixTheorems!OutcomeStep, UnixTheorems!InstalledStep
<1> QED  BY <1>2, <1>3

(* No upgrade installs an older release, what one says of itself is so,    *)
(* and nothing else ever changes what is installed.                        *)
THEOREM UpgradesAreTrue == Spec => UpgradesTrue
<1>1. UpgradeInv /\ [Next]_vars =>
        [exe' \in Releases => exe' >= (IF exe \in Releases THEN exe ELSE previous)]_(Unix!vars)
  BY StepOfParts, UnixAgrees, WindowsAgrees, UnixTheorems!OlderStep, WindowsTheorems!OlderStep
  DEF UpgradeInv, InstallationInv
<1>2. UpgradeInv /\ [Next]_vars =>
        [/\ (Unix!Installed)' # Unix!Installed =>
              \E p \in Terminals : step[p] # "off" /\ step'[p] = "off" /\ outcome'[p] = "upgraded"
         /\ \A p \in Terminals : step[p] # "off" /\ step'[p] = "off" /\ outcome'[p] = "upgraded"
              => exe' = target[p]]_(Unix!vars)
  BY InstalledOutcome DEF UpgradeInv
<1> QED
  BY <1>1, <1>2, UpgradeInit, UpgradeStep, PTL
  DEF Spec, UpgradesTrue, Unix!NeverOlder, Unix!UpgradeTrue

(* Whatever texts are compared, of any bytes and any number of parts,      *)
(* newer (is_newer) is a strict order: no chain of upgrades comes round to *)
(* where it began.  Where all numbers fit a u64 it is the order of         *)
(* semantic versioning.                                                    *)
THEOREM NewerIsAnOrder == Spec => []NewerIsSemver
<1>1. UpgradeInv => NewerIsSemver
  BY NewerHolds DEF UpgradeInv, NewerIsSemver
<1> QED  BY <1>1, UpgradeInit, UpgradeStep, PTL DEF Spec

(* Whatever number of processes set whatever they like, and whichever of   *)
(* them fail or die: config.json is never torn, and when it is away        *)
(* although there was one, its successor is whole in .config-stage.        *)
THEOREM ConfigIsKept == Spec => []Config!ConfigKept
<1>1. UpgradeInv => Config!ConfigKept  BY DEF UpgradeInv, ConfigInv
<1> QED  BY <1>1, UpgradeInit, UpgradeStep, PTL DEF Spec

(* promoteSkill's lock file lets one run at a time replace the Skill, also *)
(* when runs die or cannot remove their lock file.                         *)
THEOREM RunsExcluded == Spec => []Harness!OneRunAtATime
<1>1. UpgradeInv => Harness!OneRunAtATime  BY DEF UpgradeInv, PromotionInv
<1> QED  BY <1>1, UpgradeInit, UpgradeStep, PTL DEF Spec

(* The destination holds no part of a Skill, and a Skill that is away lies *)
(* whole in a .previous that a run is about to put back, or that says so.  *)
THEOREM SkillIsKept == Spec => []Harness!SkillKept
<1>1. UpgradeInv => Harness!SkillKept  BY DEF UpgradeInv, PromotionInv
<1> QED  BY <1>1, UpgradeInit, UpgradeStep, PTL DEF Spec

(* A run that answers with an error has placed none of its files, and what *)
(* a run leaves beside the destination it says, or the user caused.        *)
THEOREM AnswersSound == Spec => []Harness!PromotionAnswers
<1>1. UpgradeInv => Harness!PromotionAnswers  BY InvAnswers DEF UpgradeInv
<1> QED  BY <1>1, UpgradeInit, UpgradeStep, PTL DEF Spec

(* The configuration and the Harness's Skill are whole at their places, or *)
(* the whole of them lies beside.                                          *)
THEOREM WholeIsKept == Spec => []ReplacedWhole
<1>1. UpgradeInv => ReplacedWhole
  <2> SUFFICES ASSUME UpgradeInv PROVE ReplacedWhole  OBVIOUS
  <2>1. Config!ConfigKept  BY DEF UpgradeInv, ConfigInv
  <2>2. /\ Harness!SkillKept /\ Harness!OneRunAtATime
        /\ Harness!PromotionAnswers
    BY InvAnswers DEF UpgradeInv, PromotionInv
  <2> QED  BY <2>1, <2>2 DEF ReplacedWhole
<1> QED  BY <1>1, UpgradeInit, UpgradeStep, PTL DEF Spec

=============================================================================
