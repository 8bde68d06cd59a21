----------------------------- MODULE UpgradeCheck -----------------------------
(***************************************************************************)
(* The check for a newer CLI (native/src/upgrade.rs, native/src/main.rs):  *)
(* every command at a terminal offers the cached release, records that it  *)
(* checks, and starts a background worker that asks the registry.          *)
(* Commands and workers share three files of the data root and no lock but *)
(* the one the workers create.  A run in CI, by an Agent or without a      *)
(* terminal never gets here (start_upgrade); Upgrade itself is             *)
(* UpgradeInstall.                                                         *)
(***************************************************************************)
EXTENDS Naturals, Sequences, FiniteSets

CONSTANTS
  Commands, Workers,   \* processes
  Current,             \* the version that runs
  MaxVersion,          \* bound: releases
  Interval,            \* CHECK_INTERVAL_SECONDS, in ticks
  StaleLock,           \* STALE_LOCK, in ticks
  MaxNow,              \* bound: ticks
  MaxKeys,             \* bound: keys waiting at a terminal
  MaxCrashes,          \* bound: workers that die
  None

UpgradeAssumption ==
  /\ {Current, MaxVersion, Interval, StaleLock, MaxNow, MaxKeys, MaxCrashes} \subseteq Nat
  /\ Interval \in 1..MaxNow /\ None \notin Nat

Versions == 1..MaxVersion
Keys == {"Up", "Down", "Confirm", "Cancel"}
Choices == <<"Upgrade", "Later", "Dismiss">>
UpgradeState == [checked: 0..MaxNow, latest: Versions \cup {None}]

VARIABLES
  file,       \* upgrade.json
  lock,       \* upgrade.lock: when it was made, or None
  dismissed,  \* upgrade-dismissed
  now, registry, crashes,
  pc, seen, asked, keys, cursor,   \* per command
  wpc, wnow, wseen,                \* per worker
  stolen,     \* history: a lock was removed because of its age
  answer,     \* history: the version of the last dismissal that succeeded
  consent     \* history: whether the key of each upgrade was pressed at the prompt

command == <<pc, seen, asked, keys, cursor>>
worker == <<wpc, wnow, wseen>>
history == <<stolen, answer, consent>>
vars == <<file, lock, dismissed, now, registry, crashes, command, worker, history>>

Init ==
  /\ file = [checked |-> 0, latest |-> None] /\ lock = None /\ dismissed = None
  /\ now = Interval /\ registry \in Versions /\ crashes = 0
  /\ pc = [p \in Commands |-> "idle"]
  /\ seen = [p \in Commands |-> [state |-> file, now |-> 0]]
  /\ asked = [p \in Commands |-> None]
  /\ keys = [p \in Commands |-> <<>>]
  /\ cursor = [p \in Commands |-> 0]
  /\ wpc = [w \in Workers |-> "idle"]
  /\ wnow = [w \in Workers |-> 0]
  /\ wseen = [w \in Workers |-> file]
  /\ stolen = FALSE /\ answer = None /\ consent = {}

Goto(p, where) == pc' = [pc EXCEPT ![p] = where]

(* Faulty variant: the release is not compared with the one that runs. *)
NoticeAny(state) == state.latest

(* plan_upgrade *)
Notice(state) == IF state.latest # None /\ state.latest > Current THEN state.latest ELSE None
CheckIsDue(state, at) == state.checked > at \/ at - state.checked >= Interval

-----------------------------------------------------------------------------
(* start_upgrade reads the cached release; commands overlap freely. *)
StartUpgrade(p) ==
  /\ pc[p] = "idle"
  /\ asked' = [asked EXCEPT ![p] = Notice(file)]
  /\ Goto(p, IF Notice(file) = None THEN "plan" ELSE "dismissal")
  /\ UNCHANGED <<file, lock, dismissed, now, registry, crashes, seen, keys, cursor, worker, history>>

(* A dismissed release, or one that a package manager owns, is not offered. *)
CheckDismissed(p) ==
  /\ pc[p] = "dismissal"
  /\ \/ dismissed # asked[p] /\ Goto(p, "drain")
     \/ Goto(p, "plan")
  /\ UNCHANGED <<file, lock, dismissed, now, registry, crashes, seen, asked, keys, cursor, worker, history>>

(* The user types, before the prompt is up or at it. *)
Press(p, k) ==
  /\ pc[p] \in {"dismissal", "drain", "ask"} /\ Len(keys[p]) < MaxKeys
  /\ keys' = [keys EXCEPT ![p] = Append(@, [key |-> k, prompt |-> pc[p] = "ask"])]
  /\ UNCHANGED <<file, lock, dismissed, now, registry, crashes, pc, seen, asked, cursor, worker, history>>

(* ask: an Enter that waits for the command itself is no consent. *)
Drain(p) ==
  /\ pc[p] = "drain" /\ Goto(p, "ask")
  /\ keys' = [keys EXCEPT ![p] = <<>>]
  /\ cursor' = [cursor EXCEPT ![p] = 0]
  /\ UNCHANGED <<file, lock, dismissed, now, registry, crashes, seen, asked, worker, history>>

PressedKey(p) == Head(keys[p]).key
TakeKey(p) == keys' = [keys EXCEPT ![p] = Tail(@)]

(* UpgradePrompt::update.  Below 20x8 cells every key but Cancel is lost. *)
MoveCursor(p) ==
  /\ pc[p] = "ask" /\ keys[p] # <<>> /\ PressedKey(p) # "Cancel" /\ TakeKey(p)
  /\ \/ PressedKey(p) = "Up" /\ cursor' = [cursor EXCEPT ![p] = (@ + 2) % 3]
     \/ PressedKey(p) = "Down" /\ cursor' = [cursor EXCEPT ![p] = (@ + 1) % 3]
     \/ UNCHANGED cursor
  /\ UNCHANGED <<file, lock, dismissed, now, registry, crashes, pc, seen, asked, worker, history>>

Chosen(p) ==
  CASE PressedKey(p) = "Confirm" -> Choices[cursor[p] + 1]
    [] PressedKey(p) = "Cancel" -> "Later"
    [] OTHER -> "none"

(* An upgrade runs and ends the command; the other answers let it go on. *)
Choose(p) ==
  /\ pc[p] = "ask" /\ keys[p] # <<>> /\ TakeKey(p)
  /\ \/ /\ Chosen(p) = "Upgrade" /\ Goto(p, "idle")
        /\ consent' = consent \cup {Head(keys[p]).prompt}
        /\ UNCHANGED <<dismissed, answer>>
     \/ Chosen(p) = "Later" /\ Goto(p, "plan") /\ UNCHANGED <<dismissed, answer, consent>>
     \/ /\ Chosen(p) = "Dismiss" /\ Goto(p, "plan") /\ UNCHANGED consent
        /\ \/ dismissed' = asked[p] /\ answer' = asked[p]
           \/ UNCHANGED <<dismissed, answer>>
  /\ UNCHANGED <<file, lock, now, registry, crashes, seen, asked, cursor, worker, stolen>>

(* The terminal fails: the command ends with its error. *)
AskFails(p) ==
  /\ pc[p] = "ask" /\ Goto(p, "idle")
  /\ UNCHANGED <<file, lock, dismissed, now, registry, crashes, seen, asked, keys, cursor, worker, history>>

-----------------------------------------------------------------------------
(* before_command: read, decide, write, spawn. *)
ReadState(p) ==
  /\ pc[p] = "plan"
  /\ seen' = [seen EXCEPT ![p] = [state |-> file, now |-> now]]
  /\ Goto(p, IF CheckIsDue(file, now) THEN "record" ELSE "command")
  /\ keys' = [keys EXCEPT ![p] = <<>>]
  /\ UNCHANGED <<file, lock, dismissed, now, registry, crashes, asked, cursor, worker, history>>

WriteState(state) == file' = state /\ UNCHANGED dismissed

RecordCheck(p) ==
  /\ pc[p] = "record"
  /\ \/ /\ WriteState([seen[p].state EXCEPT !.checked = seen[p].now])
        /\ Goto(p, "spawn")
     \/ UNCHANGED <<file, dismissed>> /\ Goto(p, "command")
  /\ UNCHANGED <<lock, now, registry, crashes, seen, asked, keys, cursor, worker, history>>

SpawnWorker(p, w) ==
  /\ pc[p] = "spawn" /\ wpc[w] = "idle" /\ Goto(p, "command")
  /\ wpc' = [wpc EXCEPT ![w] = "start"]
  /\ wnow' = [wnow EXCEPT ![w] = now]
  /\ UNCHANGED <<file, lock, dismissed, now, registry, crashes, seen, asked, keys, cursor, wseen, stolen, answer, consent>>

SpawnFails(p) ==
  /\ pc[p] = "spawn" /\ Goto(p, "command")
  /\ UNCHANGED <<file, lock, dismissed, now, registry, crashes, seen, asked, keys, cursor, worker, history>>

(* The command proper, then print_upgrade_notice reads the file once more. *)
EndCommand(p) ==
  /\ pc[p] = "command" /\ Goto(p, "idle")
  /\ asked' = [asked EXCEPT ![p] = None]
  /\ cursor' = [cursor EXCEPT ![p] = 0]
  /\ seen' = [seen EXCEPT ![p] = [state |-> file, now |-> 0]]
  /\ UNCHANGED <<file, lock, dismissed, now, registry, crashes, keys, worker, history>>

-----------------------------------------------------------------------------
GotoW(w, where) == wpc' = [wpc EXCEPT ![w] = where]
Quiet == UNCHANGED <<dismissed, now, registry, crashes, command, answer, consent>>

(* WorkerLock::acquire looks at the age of the lock, removes it, makes one. *)
LockIsStale == lock # None /\ now > lock /\ now - lock > StaleLock

LookAtLock(w) ==
  /\ wpc[w] = "start" /\ Quiet
  /\ GotoW(w, IF LockIsStale THEN "remove" ELSE "create")
  /\ UNCHANGED <<file, lock, wnow, wseen, stolen>>

RemoveStaleLock(w) ==
  /\ wpc[w] = "remove" /\ Quiet /\ GotoW(w, "create")
  /\ lock' = None /\ stolen' = TRUE
  /\ UNCHANGED <<file, wnow, wseen>>

(* Faulty variant: the lock file is opened, not created. *)
OpenLock(w) ==
  /\ wpc[w] = "create" /\ Quiet
  /\ GotoW(w, "read") /\ lock' = now
  /\ UNCHANGED <<file, wnow, wseen, stolen>>

CreateLock(w) ==
  /\ wpc[w] = "create" /\ Quiet
  /\ \/ lock = None /\ lock' = now /\ GotoW(w, "read")
     \/ UNCHANGED lock /\ GotoW(w, "idle")
  /\ UNCHANGED <<file, wnow, wseen, stolen>>

WorkerReads(w) ==
  /\ wpc[w] = "read" /\ Quiet /\ GotoW(w, "fetch")
  /\ wseen' = [wseen EXCEPT ![w] = [file EXCEPT !.checked = wnow[w]]]
  /\ UNCHANGED <<file, lock, wnow, stolen>>

(* The latest release of the channel, or an error within 120 seconds. *)
Fetch(w) ==
  /\ wpc[w] = "fetch" /\ Quiet /\ GotoW(w, "write")
  /\ \/ wseen' = [wseen EXCEPT ![w].latest = registry]
     \/ UNCHANGED wseen
  /\ UNCHANGED <<file, lock, wnow, stolen>>

(* Faulty variant: one file holds the state and the dismissal. *)
WorkerWritesAll(w) ==
  /\ wpc[w] = "write" /\ GotoW(w, "unlock")
  /\ file' = wseen[w] /\ dismissed' = None
  /\ UNCHANGED <<now, registry, crashes, command, answer, consent>>
  /\ UNCHANGED <<lock, wnow, wseen, stolen>>

WorkerWrites(w) ==
  /\ wpc[w] = "write" /\ Quiet /\ GotoW(w, "unlock")
  /\ WriteState(wseen[w]) \/ UNCHANGED file
  /\ UNCHANGED <<lock, wnow, wseen, stolen>>

(* Drop removes whatever lock lies at the path now. *)
Unlock(w) ==
  /\ wpc[w] = "unlock" /\ Quiet /\ GotoW(w, "idle")
  /\ lock' = None
  /\ wseen' = [wseen EXCEPT ![w] = [checked |-> 0, latest |-> None]]
  /\ wnow' = [wnow EXCEPT ![w] = 0]
  /\ UNCHANGED <<file, stolen>>

WorkerDies(w) ==
  /\ wpc[w] # "idle" /\ crashes < MaxCrashes
  /\ crashes' = crashes + 1 /\ GotoW(w, "idle")
  /\ UNCHANGED <<file, lock, dismissed, now, registry, command, wnow, wseen, history>>

-----------------------------------------------------------------------------
Tick ==
  /\ now < MaxNow /\ now' = now + 1
  /\ UNCHANGED <<file, lock, dismissed, registry, crashes, command, worker, history>>

Publish ==
  /\ registry < MaxVersion /\ registry' = registry + 1
  /\ UNCHANGED <<file, lock, dismissed, now, crashes, command, worker, history>>

Command(p) ==
  \/ StartUpgrade(p) \/ CheckDismissed(p) \/ Drain(p) \/ MoveCursor(p) \/ Choose(p)
  \/ AskFails(p) \/ ReadState(p) \/ RecordCheck(p) \/ SpawnFails(p) \/ EndCommand(p)
  \/ \E w \in Workers : SpawnWorker(p, w)
  \/ \E k \in Keys : Press(p, k)

Worker(w) ==
  \/ LookAtLock(w) \/ RemoveStaleLock(w) \/ CreateLock(w) \/ WorkerReads(w)
  \/ Fetch(w) \/ WorkerWrites(w) \/ Unlock(w) \/ WorkerDies(w)

Next ==
  \/ Tick \/ Publish
  \/ \E p \in Commands : Command(p)
  \/ \E w \in Workers : Worker(w)

Spec == Init /\ [][Next]_vars

-----------------------------------------------------------------------------
TypeOK ==
  /\ file \in UpgradeState /\ lock \in 0..MaxNow \cup {None}
  /\ dismissed \in Versions \cup {None}
  /\ \A p \in Commands :
       /\ seen[p].state \in UpgradeState /\ cursor[p] \in 0..2
       /\ pc[p] \in {"dismissal", "drain", "ask"} => asked[p] \in Versions /\ asked[p] > Current
  /\ \A w \in Workers : wseen[w] \in UpgradeState

Holds(w) == wpc[w] \in {"read", "fetch", "write", "unlock"}

(* Until a lock grew older than STALE_LOCK at most one worker is at work   *)
(* on upgrade.json, and the lock file stands as long as it is              *)
(* (WorkerLock::acquire and drop, upgrade.rs:398-424).                     *)
LockExcludes ==
  ~stolen => /\ \A v, w \in Workers : Holds(v) /\ Holds(w) => v = w
             /\ \A w \in Workers : Holds(w) => lock # None

(* A release that the user dismissed is not offered again before another   *)
(* one is dismissed, whatever checks are under way: "Dismissals live       *)
(* separately, so an in-flight check cannot overwrite an answer"           *)
(* (upgrade.rs:361).                                                       *)
DismissalStands ==
  [][\A p \in Commands : pc[p] = "dismissal" /\ pc'[p] = "drain" => asked[p] # answer]_vars

(* Only a key pressed at the prompt starts an upgrade: "An Enter already   *)
(* buffered for the original command is not upgrade consent"               *)
(* (upgrade_ui.rs:114).                                                    *)
ConsentAtPrompt == [][FALSE \notin consent']_vars

=============================================================================
