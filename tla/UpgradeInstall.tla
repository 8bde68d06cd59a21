---------------------------- MODULE UpgradeInstall ----------------------------
(***************************************************************************)
(* The in-place upgrade of a standalone install (native/src/upgrade.rs,    *)
(* install_release to swap; core/src/release.rs): several terminals may    *)
(* consent to different releases, downloads may be anything, and a process *)
(* may die at every step.  Windows chooses the swap that keeps the old     *)
(* executable aside.                                                       *)
(*                                                                         *)
(* A file holds the program of one release, or Broken for any other bytes. *)
(* Which bytes are those of a release is decided by SHA-256 and which      *)
(* manifests are signed by Ed25519: both are taken as perfect.             *)
(***************************************************************************)
EXTENDS Naturals

CONSTANTS
  Procs,
  Releases,      \* versions that were published and signed, 1 is installed first
  Windows,       \* BOOLEAN: the Windows swap
  MaxFaults, MaxStarts,   \* bounds: deaths and failed renames back; commands
  Broken, Missing

InstallAssumption ==
  /\ Releases \subseteq Nat /\ 1 \in Releases /\ Windows \in BOOLEAN
  /\ {MaxFaults, MaxStarts} \subseteq Nat
  /\ Broken \notin Releases /\ Missing \notin Releases \cup Procs /\ Broken # Missing

Contents == Releases \cup {Broken, Missing}
NoProc == Missing

VARIABLES
  exe, previous,   \* the executable and the .old file beside it
  staged,          \* per process: its .skilld-upgrade-<pid>
  lock,            \* who holds .skilld-install.lock, or NoProc
  pc,              \* per process: where it stands
  image,           \* ... the release it runs, or Missing
  target,          \* ... the release its user chose
  manifest,        \* ... the release the fetched manifest is for
  download,        \* ... the asset it fetched
  outcome,         \* ... what the last upgrade of it reported
  faults, starts

disk == <<exe, previous, staged, lock>>
process == <<pc, image, target, manifest, download, outcome>>
vars == <<disk, process, faults, starts>>

Init ==
  /\ exe = 1 /\ previous = Missing /\ lock = NoProc
  /\ staged = [p \in Procs |-> Missing]
  /\ pc = [p \in Procs |-> "off"]
  /\ image = [p \in Procs |-> Missing]
  /\ target = [p \in Procs |-> 1]
  /\ manifest = [p \in Procs |-> Missing]
  /\ download = [p \in Procs |-> Missing]
  /\ outcome = [p \in Procs |-> "none"]
  /\ faults = 0 /\ starts = 0

Goto(p, where) == pc' = [pc EXCEPT ![p] = where]

(* The process ends; the operating system releases its lock. *)
EndProcess(p, what) ==
  /\ Goto(p, "off")
  /\ image' = [image EXCEPT ![p] = Missing]
  /\ target' = [target EXCEPT ![p] = 1]
  /\ manifest' = [manifest EXCEPT ![p] = Missing]
  /\ download' = [download EXCEPT ![p] = Missing]
  /\ outcome' = [outcome EXCEPT ![p] = what]
  /\ lock' = IF lock = p THEN NoProc ELSE lock

End(p, what) == EndProcess(p, what) /\ UNCHANGED <<faults, starts>>

Fail(p) == End(p, "failed")

(* start_upgrade: the user is asked about a release newer than this one.   *)
(* On Windows it first drops what an earlier upgrade left, which fails as  *)
(* long as a process runs that file.                                       *)
InUse(content) == \E q \in Procs : image[q] = content

DropPrevious == previous' = IF Windows /\ ~InUse(previous) THEN Missing ELSE previous

Start(p) ==
  /\ pc[p] = "off" /\ exe \in Releases /\ starts < MaxStarts
  /\ starts' = starts + 1
  /\ DropPrevious
  /\ image' = [image EXCEPT ![p] = exe]
  /\ outcome' = [outcome EXCEPT ![p] = "none"]
  /\ Goto(p, "ask")
  /\ UNCHANGED <<exe, staged, lock, target, manifest, download, faults>>

(* install_release: is_newer(version, target.current_version). *)
Consent(p) ==
  /\ pc[p] = "ask" /\ Goto(p, "lock")
  /\ \E v \in Releases : v > image[p] /\ target' = [target EXCEPT ![p] = v]
  /\ UNCHANGED <<disk, image, manifest, download, outcome, faults, starts>>

(* The user goes on with the command. *)
Decline(p) == pc[p] = "ask" /\ End(p, "none") /\ UNCHANGED <<exe, previous, staged>>

TryLock(p) ==
  /\ pc[p] = "lock" /\ UNCHANGED <<exe, previous, staged>>
  /\ \/ /\ lock = NoProc /\ lock' = p /\ Goto(p, "installed")
        /\ UNCHANGED <<image, target, manifest, download, outcome, faults, starts>>
     \/ Fail(p)

(* Faulty variant: what was installed in the meantime does not matter. *)
SkipInstalled(p) ==
  /\ pc[p] = "installed" /\ Goto(p, "manifest")
  /\ UNCHANGED <<disk, image, target, manifest, download, outcome, faults, starts>>

(* "Another terminal may have upgraded while this process waited". *)
CheckInstalled(p) ==
  /\ pc[p] = "installed" /\ UNCHANGED <<exe, previous, staged>>
  /\ \/ /\ exe \in Releases /\ target[p] > exe /\ Goto(p, "manifest")
        /\ UNCHANGED <<lock, image, target, manifest, download, outcome, faults, starts>>
     \/ Fail(p)

(* The manifest and its signature: for any signed release, or not signed. *)
FetchManifest(p) ==
  /\ pc[p] = "manifest" /\ UNCHANGED <<exe, previous, staged>>
  /\ \/ /\ \E m \in Releases \cup {Broken} : manifest' = [manifest EXCEPT ![p] = m]
        /\ Goto(p, "verify")
        /\ UNCHANGED <<lock, image, target, download, outcome, faults, starts>>
     \/ Fail(p)

(* verify_release_manifest: signed, well formed, and for this version. *)
VerifyManifest(p) ==
  /\ pc[p] = "verify" /\ UNCHANGED <<exe, previous, staged>>
  /\ \/ /\ manifest[p] = target[p] /\ Goto(p, "binary")
        /\ UNCHANGED <<lock, image, target, manifest, download, outcome, faults, starts>>
     \/ manifest[p] # target[p] /\ Fail(p)

FetchBinary(p) ==
  /\ pc[p] = "binary" /\ UNCHANGED <<exe, previous, staged>>
  /\ \/ /\ \E b \in Releases \cup {Broken} : download' = [download EXCEPT ![p] = b]
        /\ Goto(p, "digest")
        /\ UNCHANGED <<lock, image, target, manifest, outcome, faults, starts>>
     \/ Fail(p)

(* verify_release_asset: the digest that the manifest gives the asset. *)
VerifyAsset(p) ==
  /\ pc[p] = "digest" /\ UNCHANGED <<exe, previous, staged>>
  /\ \/ /\ download[p] = manifest[p] /\ Goto(p, "stage")
        /\ UNCHANGED <<lock, image, target, manifest, download, outcome, faults, starts>>
     \/ Fail(p)

-----------------------------------------------------------------------------
(* replace_executable: whichever step fails, the staged file goes; but the *)
(* result of its removal is ignored, so it may stay.                       *)
DropStaged(p) ==
  \E left \in {Missing, staged[p]} : staged' = [staged EXCEPT ![p] = left]

FailStaged(p) == Fail(p) /\ DropStaged(p) /\ UNCHANGED <<exe, previous>>

(* stage: create_new, then the bytes.  A file left by an upgrade with the  *)
(* same process id is in the way, and removed with the failure.            *)
Stage(p) ==
  /\ pc[p] = "stage"
  /\ \/ /\ staged[p] = Missing /\ Goto(p, "write")
        /\ staged' = [staged EXCEPT ![p] = Broken]
        /\ UNCHANGED <<exe, previous, lock, image, target, manifest, download, outcome, faults, starts>>
     \/ FailStaged(p)

Write(p) ==
  /\ pc[p] = "write"
  /\ \/ /\ staged' = [staged EXCEPT ![p] = download[p]] /\ Goto(p, "try")
        /\ UNCHANGED <<exe, previous, lock, image, target, manifest, download, outcome, faults, starts>>
     \/ FailStaged(p)

(* check_version: the staged program runs and names its version. *)
CheckVersion(p) ==
  /\ pc[p] = "try"
  /\ \/ /\ staged[p] = target[p] /\ Goto(p, IF Windows THEN "aside" ELSE "swap")
        /\ UNCHANGED <<disk, image, target, manifest, download, outcome, faults, starts>>
     \/ FailStaged(p)

(* swap elsewhere: one rename. *)
Swap(p) ==
  /\ pc[p] = "swap"
  /\ \/ /\ exe' = staged[p] /\ staged' = [staged EXCEPT ![p] = Missing]
        /\ End(p, "upgraded") /\ UNCHANGED previous
     \/ FailStaged(p)

(* swap on Windows: drop an older .old, move the executable aside, ... *)
MoveAside(p) ==
  /\ pc[p] = "aside"
  /\ \/ /\ ~InUse(previous) \/ previous = Missing
        /\ previous' = exe /\ exe' = Missing /\ Goto(p, "finish")
        /\ UNCHANGED <<staged, lock, image, target, manifest, download, outcome, faults, starts>>
     \/ Fail(p) /\ DropPrevious /\ DropStaged(p) /\ UNCHANGED exe

(* Faulty variant: the executable that was moved aside stays there. *)
NoRollBack(p) == FailStaged(p)

(* ... and on failure move it back; that this fails too is one more fault. *)
RollBack(p) ==
  /\ DropStaged(p)
  /\ \/ exe' = previous /\ previous' = Missing /\ Fail(p)
     \/ /\ faults < MaxFaults /\ faults' = faults + 1
        /\ UNCHANGED <<exe, previous, starts>> /\ EndProcess(p, "failed")

Finish(p) ==
  /\ pc[p] = "finish"
  /\ \/ /\ exe' = staged[p] /\ staged' = [staged EXCEPT ![p] = Missing]
        /\ End(p, "upgraded") /\ UNCHANGED previous
     \/ RollBack(p)

Crash(p) ==
  /\ pc[p] # "off" /\ faults < MaxFaults
  /\ EndProcess(p, "crashed")
  /\ faults' = faults + 1
  /\ UNCHANGED <<exe, previous, staged, starts>>

Install(p) ==
  \/ TryLock(p) \/ CheckInstalled(p) \/ FetchManifest(p) \/ VerifyManifest(p)
  \/ FetchBinary(p) \/ VerifyAsset(p) \/ Stage(p) \/ Write(p) \/ CheckVersion(p)
  \/ Swap(p) \/ MoveAside(p) \/ Finish(p)

Next == \E p \in Procs : Start(p) \/ Consent(p) \/ Decline(p) \/ Install(p) \/ Crash(p)

Spec == Init /\ [][Next]_vars

-----------------------------------------------------------------------------
TypeOK ==
  /\ exe \in Contents /\ previous \in Contents /\ staged \in [Procs -> Contents]
  /\ lock \in Procs \cup {NoProc}
  /\ \A p \in Procs : lock = p <=> pc[p] \notin {"off", "ask", "lock"}
  /\ target \in [Procs -> Releases] /\ image \in [Procs -> Releases \cup {Missing}]

(* Files at the place of the executable are complete releases, and so is   *)
(* every file that is run: "Release bytes reach disk only after the        *)
(* signature and digest verify" (upgrade.rs:135-138).                      *)
OnlyReleases ==
  /\ exe # Broken /\ previous # Broken
  /\ \A p \in Procs : pc[p] = "try" => staged[p] = target[p]

(* The installed version never goes back, whatever terminals upgrade at    *)
(* once, whichever older manifest is served, and whoever dies.             *)
NeverOlder ==
  [][exe' \in Releases => exe' >= (IF exe \in Releases THEN exe ELSE previous)]_vars

(* There is an executable at every moment, or on Windows a complete        *)
(* release lies beside its place, whatever failed or died, and nothing     *)
(* drops that one while it is the only one.                                *)
AlwaysInstalled ==
  exe \in Releases \/ (Windows /\ exe = Missing /\ previous \in Releases)

(* The executable is away and nobody is about to bring one. *)
Stranded == exe = Missing /\ \A p \in Procs : pc[p] # "finish"

(* The place stays empty only when the upgrade that emptied it dies between *)
(* its two renames, or the second fails and so does the one that undoes the *)
(* first: no other death and no other failure leaves it so.                *)
AwayOnlyInSwap ==
  [][~Stranded /\ Stranded' =>
       /\ exe = Missing /\ faults' > faults
       /\ \E p \in Procs : pc[p] = "finish" /\ outcome'[p] \in {"crashed", "failed"}]_vars

(* The program that is installed, or that lies beside its empty place. *)
Installed == IF exe = Missing THEN previous ELSE exe

(* What is installed changes only by an upgrade that says so as it ends,   *)
(* and then to the release its user chose: one that fails or dies changes  *)
(* nothing, at whichever step, and whatever staged file is left behind.    *)
UpgradeTrue ==
  [][/\ Installed' # Installed =>
          \E p \in Procs : pc[p] # "off" /\ pc'[p] = "off" /\ outcome'[p] = "upgraded"
     /\ \A p \in Procs : pc[p] # "off" /\ pc'[p] = "off" /\ outcome'[p] = "upgraded"
          => exe' = target[p]]_vars
=============================================================================
