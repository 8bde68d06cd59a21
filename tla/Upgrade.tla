------------------------------- MODULE Upgrade -------------------------------
(***************************************************************************)
(* The upgrade of the native binary, and the two other places where        *)
(* processes replace a file by renames and without a journal: the          *)
(* configuration and the destination of the Harness.                       *)
(*                                                                         *)
(* The components share no file.  So each behaviour is one of them (part), *)
(* whatever the others do meanwhile: the check with its prompt, the        *)
(* installation on Unix or on Windows, the order of release versions, the  *)
(* configuration, or the Harness.                                          *)
(***************************************************************************)
EXTENDS Naturals, Sequences

CONSTANTS
  Commands, Workers,                     \* processes of the check
  Current, MaxVersion, Interval, StaleLock, MaxNow, MaxKeys, MaxCrashes,
  Terminals,                             \* processes that upgrade, or set the configuration
  Releases, UnixFaults, WindowsFaults, MaxStarts,
  Cores, Prereleases, MaxPart, MaxNumber, MaxU64,
  Sets, MaxSets, SetFaults,              \* what is set
  Runs, RunFaults, MaxEdits,             \* runs of the Harness
  Broken, Missing, None

VARIABLES
  part,
  file, lock, dismissed, now, registry, crashes, pc, seen, asked, keys, cursor, wpc, wnow, wseen, stolen,
  answer, consent,
  exe, previous, staged, installLock, step, image, target, manifest, download, outcome, faults, starts,
  x, y, z,
  config, stage, setAt, request, held, before, sets, setFaults,
  root, skill, runLock, next, aside, runAt, saw, created, moved, note, had, runFaults, edits

checkVars == <<file, lock, dismissed, now, registry, crashes, pc, seen, asked, keys, cursor, wpc, wnow, wseen,
               stolen, answer, consent>>
installVars == <<exe, previous, staged, installLock, step, image, target, manifest, download, outcome, faults,
                 starts>>
versionVars == <<x, y, z>>
configVars == <<config, stage, setAt, request, held, before, sets, setFaults>>
harnessVars == <<root, skill, runLock, next, aside, runAt, saw, created, moved, note, had, runFaults, edits>>
vars == <<part, checkVars, installVars, versionVars, configVars, harnessVars>>

Check == INSTANCE UpgradeCheck

Unix == INSTANCE UpgradeInstall WITH
          Procs <- Terminals, Windows <- FALSE, MaxFaults <- UnixFaults, lock <- installLock, pc <- step

OnWindows == INSTANCE UpgradeInstall WITH
               Procs <- Terminals, Windows <- TRUE, MaxFaults <- WindowsFaults, lock <- installLock, pc <- step

Versions == INSTANCE ReleaseVersions

Config == INSTANCE ConfigStore WITH
            Procs <- Terminals, Requests <- Sets, MaxFaults <- SetFaults, Absent <- None,
            at <- setAt, asked <- request, faults <- setFaults

Harness == INSTANCE HarnessPromotion WITH
             MaxFaults <- RunFaults, Absent <- None,
             target <- skill, lock <- runLock, previous <- aside, at <- runAt, faults <- runFaults

ASSUME CheckAssumption == Check!UpgradeAssumption
ASSUME InstallAssumption == Unix!InstallAssumption /\ OnWindows!InstallAssumption
ASSUME VersionsAssumption == Versions!VersionsAssumption
ASSUME ReplacementAssumption == Config!ConfigAssumption /\ Harness!PromotionAssumption

(* A component that does not run starts in one of its initial states.      *)
Init ==
  /\ part \in {"check", "unix", "windows", "versions", "config", "harness"}
  /\ Check!Init /\ (part # "check" => registry = 1)
  /\ Unix!Init
  /\ Versions!Init /\ (part # "versions" => x = y /\ x = CHOOSE text \in Versions!Texts : TRUE)
  /\ Config!Init /\ (part # "config" => config = None)
  /\ Harness!Init /\ (part # "harness" => ~root)

InstallNext == IF part = "unix" THEN Unix!Next ELSE part = "windows" /\ OnWindows!Next

Next ==
  \/ part = "check" /\ Check!Next /\ UNCHANGED <<part, installVars, versionVars, configVars, harnessVars>>
  \/ InstallNext /\ UNCHANGED <<part, checkVars, versionVars, configVars, harnessVars>>
  \/ part = "versions" /\ Versions!Next /\ UNCHANGED <<part, checkVars, installVars, configVars, harnessVars>>
  \/ part = "config" /\ Config!Next /\ UNCHANGED <<part, checkVars, installVars, versionVars, harnessVars>>
  \/ part = "harness" /\ Harness!Next /\ UNCHANGED <<part, checkVars, installVars, versionVars, configVars>>

Spec == Init /\ [][Next]_vars

-----------------------------------------------------------------------------
TypesOK == Check!TypeOK /\ Unix!TypeOK /\ Config!TypeOK /\ Harness!TypeOK

(* Until a lock grew older than STALE_LOCK at most one worker is at work   *)
(* on upgrade.json, and its lock file stands.                              *)
LockExcludes == Check!LockExcludes

(* The user decides about upgrades: a release that was dismissed is not    *)
(* offered again, whatever checks are under way, and only a key pressed at *)
(* the prompt starts an upgrade, not one typed ahead.                      *)
UserDecides == Check!DismissalStands /\ Check!ConsentAtPrompt

(* There is a complete release at the place of the executable, or on       *)
(* Windows beside it; and the place stays empty only when an upgrade died  *)
(* between its two renames, or could not undo the first.                   *)
InstalledWhole ==
  Unix!OnlyReleases /\ IF part = "windows" THEN OnWindows!AlwaysInstalled ELSE Unix!AlwaysInstalled

AlwaysInstalled == []InstalledWhole /\ OnWindows!AwayOnlyInSwap

(* The installed version never goes back, whatever terminals upgrade at    *)
(* once and whoever dies; it changes only by an upgrade that says so, to   *)
(* the release that was chosen.                                            *)
UpgradesTrue == Unix!NeverOlder /\ Unix!UpgradeTrue

(* Where something is replaced by renames without a journal, nothing is    *)
(* lost and nothing torn is in place, whoever fails or dies: the           *)
(* configuration and the Skill at the Harness's destination are whole, or  *)
(* the whole of them lies beside; one run at a time replaces a Skill, and  *)
(* it says what it did and what it left.                                   *)
ReplacedWhole ==
  /\ part = "config" => Config!ConfigKept
  /\ part = "harness" => Harness!SkillKept /\ Harness!PromotionAnswers /\ Harness!OneRunAtATime

(* What counts as newer is a strict order, and semantic versioning's on    *)
(* versions whose numbers fit a u64.                                       *)
NewerIsSemver == Versions!StrictOrder /\ Versions!AgreesWithSemver
=============================================================================
