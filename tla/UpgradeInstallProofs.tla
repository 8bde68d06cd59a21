------------------------- MODULE UpgradeInstallProofs -------------------------
(***************************************************************************)
(* However many terminals upgrade at once, whatever manifests and assets   *)
(* they are served, and wherever they die: what stands at the place of the *)
(* executable is a complete release, and never an older one.               *)
(*                                                                         *)
(* The lock makes one upgrade at a time look at the executable, so what    *)
(* "installed" found there still holds when the staged release takes its   *)
(* place (Newer); and what it stages went through both verifications       *)
(* (Verified).                                                             *)
(***************************************************************************)
EXTENDS UpgradeInstall, TLAPS

Checked == {"manifest", "verify", "binary", "digest", "stage", "write", "try", "aside", "swap"}
Locked == Checked \cup {"installed", "finish"}

Types ==
  /\ exe \in Releases \cup {Missing} /\ previous \in Releases \cup {Missing}
  /\ staged \in [Procs -> Contents]
  /\ lock \in Procs \cup {NoProc}
  /\ pc \in [Procs -> Locked \cup {"off", "ask", "lock"}]
  /\ image \in [Procs -> Releases \cup {Missing}]
  /\ target \in [Procs -> Releases]
  /\ manifest \in [Procs -> Contents] /\ download \in [Procs -> Contents]
  /\ outcome \in [Procs -> {"none", "failed", "upgraded", "crashed"}]
  /\ faults \in Nat

Holder == \A p \in Procs : lock = p <=> pc[p] \in Locked

Verified ==
  \A p \in Procs :
    /\ pc[p] \in {"binary", "digest", "stage", "write"} => manifest[p] = target[p]
    /\ pc[p] \in {"stage", "write"} => download[p] = target[p]
    /\ pc[p] \in {"try", "finish"} => staged[p] = target[p]
    /\ pc[p] \in {"aside", "swap"} => staged[p] = target[p]

Newer ==
  \A p \in Procs :
    /\ pc[p] \in Checked => exe \in Releases /\ target[p] > exe
    /\ pc[p] = "finish" => exe = Missing /\ previous \in Releases /\ target[p] > previous

(* The swap of each platform: only on Windows is the executable ever away. *)
Platform ==
  ~Windows => exe \in Releases /\ \A p \in Procs : pc[p] \notin {"aside", "finish"}

InstallInv == Types /\ Holder /\ Verified /\ Newer /\ Platform /\ AlwaysInstalled

(* Nobody upgrades yet, and the first release is installed.                *)
LEMMA InstallInit == InstallAssumption /\ Init => InstallInv
<1> SUFFICES ASSUME InstallAssumption, Init PROVE InstallInv  OBVIOUS
<1>1. Types  BY DEF InstallAssumption, Init, Types, Contents
<1>2. Holder  BY DEF InstallAssumption, Init, Holder, Locked, Checked, NoProc
<1>3. Verified /\ Newer /\ Platform
  BY DEF InstallAssumption, Init, Verified, Newer, Platform, Checked
<1>4. AlwaysInstalled  BY DEF InstallAssumption, Init, AlwaysInstalled
<1> QED  BY <1>1, <1>2, <1>3, <1>4 DEF InstallInv

(* A step of the process in the lock that moves no file into place: what   *)
(* it has verified it keeps, and the executable it has seen stays older.   *)
LEMMA InsideStep ==
  ASSUME InstallAssumption, InstallInv, NEW p \in Procs, NEW where \in Checked, Goto(p, where),
         pc[p] \in Locked \ {"finish"}, exe \in Releases, target[p] > exe,
         UNCHANGED <<exe, previous, lock, image, target, outcome, faults>>,
         {manifest', download', staged'} \subseteq [Procs -> Contents],
         \A q \in Procs \ {p} : UNCHANGED <<manifest[q], download[q], staged[q]>>,
         where \in {"binary", "digest", "stage", "write"} => manifest'[p] = target[p],
         where \in {"stage", "write"} => download'[p] = target[p],
         where \in {"try", "aside", "swap"} => staged'[p] = target[p],
         ~Windows => where # "aside"
  PROVE  InstallInv'
<1> USE DEF InstallInv, Goto
<1>1. pc' = [pc EXCEPT ![p] = where] /\ where # "finish"  BY DEF Checked
<1>2. Types'  BY <1>1 DEF Types, Locked
<1>3. Holder'  BY <1>1 DEF Types, Holder, Locked
<1>4. Verified'  BY <1>1 DEF Types, Verified
<1>5. Newer'  BY <1>1 DEF Types, Newer
<1>6. Platform'  BY <1>1 DEF Types, Platform
<1>7. AlwaysInstalled'  BY <1>1 DEF AlwaysInstalled, InstallAssumption
<1> QED  BY <1>2, <1>3, <1>4, <1>5, <1>6, <1>7

(* A process that ends while files stay: its lock is free again, and when  *)
(* the executable is away the release beside its place is whole.           *)
LEMMA EndStep ==
  ASSUME InstallAssumption, InstallInv, NEW p \in Procs, NEW what, EndProcess(p, what),
         what \in {"none", "failed", "upgraded", "crashed"},
         exe' \in Releases \cup {Missing}, previous' \in Releases \cup {Missing},
         faults' \in Nat, faults' >= faults,
         staged' \in [Procs -> Contents], \A q \in Procs \ {p} : staged'[q] = staged[q],
         exe' # exe => lock = p,
         \A q \in Procs : q # p /\ pc[q] = "finish" => previous' = previous,
         exe' = Missing => previous' \in Releases,
         ~Windows => exe' \in Releases
  PROVE  InstallInv'
<1> USE DEF InstallInv, EndProcess, Goto
<1>1. Missing \notin Procs /\ 1 \in Releases  BY DEF InstallAssumption
<1>2. Types'  BY <1>1 DEF Types, Contents, NoProc
<1>3. pc' = [pc EXCEPT ![p] = "off"] /\ \A q \in Procs \ {p} : UNCHANGED <<pc[q], target[q], manifest[q], download[q]>>
  BY DEF Types
<1>4. Holder'  BY <1>1, <1>3 DEF Types, Holder, Locked, Checked, NoProc
<1>5. Verified'  BY <1>3 DEF Types, Verified
<1>6. \A q \in Procs \ {p} : pc[q] \in Locked => lock = q /\ exe' = exe
  BY DEF Holder
<1>7. Newer'  BY <1>3, <1>6 DEF Types, Newer, Locked, Checked
<1>8. Platform'  BY <1>3 DEF Types, Platform
<1>9. AlwaysInstalled'  BY DEF AlwaysInstalled
<1> QED  BY <1>2, <1>4, <1>5, <1>7, <1>8, <1>9

(* A step inside the lock goes on, or the upgrade fails and frees it.      *)
LEMMA FailStep ==
  ASSUME InstallAssumption, InstallInv, NEW p \in Procs, Fail(p), pc[p] # "finish",
         UNCHANGED exe, previous' \in {previous, Missing},
         previous' = previous \/ (lock = p /\ exe \in Releases),
         staged' = staged \/ DropStaged(p)
  PROVE  InstallInv'
<1>1. EndProcess(p, "failed") /\ faults' = faults  BY DEF Fail, End
<1>2. exe \in Releases => exe # Missing  BY DEF InstallAssumption
<1>3. \A q \in Procs : q # p /\ pc[q] = "finish" => lock # p
  BY DEF InstallInv, Holder, Locked
<1>4. staged' \in [Procs -> Contents] /\ \A q \in Procs \ {p} : staged'[q] = staged[q]
  BY DEF InstallInv, Types, Contents, DropStaged
<1>5. /\ exe' \in Releases \cup {Missing} /\ previous' \in Releases \cup {Missing}
      /\ faults' \in Nat /\ faults' >= faults
      /\ ~Windows => exe' \in Releases
  BY <1>1 DEF InstallInv, Types, Platform
<1>6. \A q \in Procs : q # p /\ pc[q] = "finish" => previous' = previous  BY <1>3
<1>7. exe' = Missing => previous' \in Releases
  BY <1>2 DEF InstallInv, AlwaysInstalled
<1> QED  BY <1>1, <1>4, <1>5, <1>6, <1>7, EndStep

(* A command starts with the release that is installed as its image.       *)
LEMMA StartKeeps ==
  ASSUME InstallAssumption, InstallInv, NEW p \in Procs, Start(p)
  PROVE  InstallInv'
<1> USE DEF InstallInv, Start, Goto
<1>1. previous' \in {previous, Missing}  BY DEF DropPrevious
<1>2. pc' = [pc EXCEPT ![p] = "ask"]  OBVIOUS
<1>3. Types'  BY <1>1, <1>2 DEF Types, Contents
<1>4. Holder'  BY <1>2 DEF Types, Holder, Locked, Checked
<1>5. Verified'  BY <1>2 DEF Types, Verified
<1>6. \A q \in Procs : pc[q] # "finish"  BY DEF Newer, InstallAssumption
<1>7. Newer'  BY <1>2, <1>6 DEF Types, Newer, Checked
<1>8. Platform'  BY <1>2 DEF Types, Platform
<1>9. AlwaysInstalled'  BY DEF AlwaysInstalled
<1> QED  BY <1>3, <1>4, <1>5, <1>7, <1>8, <1>9

(* An answer to the prompt touches no file: consent is to a newer release. *)
LEMMA AskKeeps ==
  ASSUME InstallAssumption, InstallInv, NEW p \in Procs, Consent(p) \/ Decline(p)
  PROVE  InstallInv'
<1>1. CASE Consent(p)
  <2> USE DEF InstallInv, Consent, Goto, disk
  <2>1. PICK v \in Releases : target' = [target EXCEPT ![p] = v]  BY <1>1
  <2>2. pc' = [pc EXCEPT ![p] = "lock"] /\ pc[p] = "ask"  BY <1>1
  <2>3. Types'  BY <1>1, <2>1, <2>2 DEF Types
  <2>4. Verified' /\ Newer' /\ Platform'
    BY <1>1, <2>1, <2>2 DEF Types, Verified, Newer, Platform, Checked
  <2>5. Holder'  BY <1>1, <2>2 DEF Types, Holder, Locked, Checked
  <2>6. AlwaysInstalled'  BY <1>1, <2>2 DEF Types, AlwaysInstalled
  <2> QED  BY <2>3, <2>4, <2>5, <2>6
<1>2. CASE Decline(p)
  <2>1. EndProcess(p, "none") /\ UNCHANGED <<exe, previous, staged, faults>> /\ pc[p] = "ask"
    BY <1>2 DEF Decline, End
  <2>2. lock # p  BY <2>1 DEF InstallInv, Holder, Locked, Checked
  <2>3. exe' = Missing => previous' \in Releases
    BY <2>1 DEF InstallInv, AlwaysInstalled, InstallAssumption
  <2> QED  BY <2>1, <2>2, <2>3, EndStep DEF InstallInv, Types, Platform
<1> QED  BY <1>1, <1>2

(* A crash leaves the files; when it comes in the middle of a Windows swap *)
(* the executable stays away.                                              *)
LEMMA CrashKeeps ==
  ASSUME InstallAssumption, InstallInv, NEW p \in Procs, Crash(p)
  PROVE  InstallInv'
<1>1. EndProcess(p, "crashed") /\ UNCHANGED <<exe, previous, staged>> /\ faults' = faults + 1
  BY DEF Crash
<1>2. faults' \in Nat /\ faults' >= faults  BY <1>1 DEF InstallInv, Types
<1>3. /\ exe' \in Releases \cup {Missing} /\ previous' \in Releases \cup {Missing}
      /\ staged' \in [Procs -> Contents] /\ \A q \in Procs \ {p} : staged'[q] = staged[q]
      /\ ~Windows => exe' \in Releases
  BY <1>1 DEF InstallInv, Types, Platform
<1>4. exe' = exe /\ previous' = previous /\ (exe' = Missing => previous' \in Releases)
  BY <1>1 DEF InstallInv, AlwaysInstalled, InstallAssumption
<1> QED  BY <1>1, <1>2, <1>3, <1>4, EndStep

(* Only a process that finds the lock free holds it.                       *)
LEMMA TryLockKeeps ==
  ASSUME InstallAssumption, InstallInv, NEW p \in Procs, TryLock(p)
  PROVE  InstallInv'
<1>1. pc[p] = "lock" /\ UNCHANGED <<exe, previous, staged>>  BY DEF TryLock
<1>2. CASE Fail(p)  BY <1>1, <1>2, FailStep
<1>3. CASE ~Fail(p)
  <2> USE DEF InstallInv
  <2>1. /\ lock = NoProc /\ lock' = p /\ pc' = [pc EXCEPT ![p] = "installed"]
        /\ UNCHANGED <<image, target, manifest, download, outcome, faults>>
    BY <1>3 DEF TryLock, Goto
  <2>2. Types'  BY <1>1, <2>1 DEF Types, Locked
  <2>3. \A q \in Procs : q # NoProc  BY DEF InstallAssumption, NoProc
  <2>4. Holder'  BY <2>1, <2>3 DEF Types, Holder, Locked
  <2>5. Verified' /\ Newer' /\ Platform'
    BY <1>1, <2>1 DEF Types, Verified, Newer, Platform, Checked
  <2>6. AlwaysInstalled'  BY <1>1, <2>1, <2>3 DEF Types, AlwaysInstalled
  <2> QED  BY <2>2, <2>4, <2>5, <2>6
<1> QED  BY <1>2, <1>3

(* What is installed is looked at, and what is served is verified, inside  *)
(* the lock; only the chosen release reaches the staged file.              *)
LEMMA PrepareKeeps ==
  ASSUME InstallAssumption, InstallInv, NEW p \in Procs,
         \/ CheckInstalled(p) \/ FetchManifest(p) \/ VerifyManifest(p)
         \/ FetchBinary(p) \/ VerifyAsset(p)
  PROVE  InstallInv'
<1> DEFINE Served == Releases \cup {Broken}
<1>1. UNCHANGED <<exe, previous, staged>> /\ pc[p] \in {"installed", "manifest", "verify", "binary", "digest"}
  BY DEF CheckInstalled, FetchManifest, VerifyManifest, FetchBinary, VerifyAsset
<1>2. CASE Fail(p)  BY <1>1, <1>2, FailStep
<1>3. Served \subseteq Contents  BY DEF Contents
<1>4. pc[p] \in Locked \ {"finish"}  BY <1>1 DEF Locked, Checked
<1>5. pc[p] \in Checked => exe \in Releases /\ target[p] > exe  BY DEF InstallInv, Newer
<1>6. /\ staged' \in [Procs -> Contents] /\ manifest \in [Procs -> Contents]
      /\ download \in [Procs -> Contents]
  BY <1>1 DEF InstallInv, Types
<1>7. CASE CheckInstalled(p) /\ ~Fail(p)
  <2>1. /\ Goto(p, "manifest") /\ exe \in Releases /\ target[p] > exe
        /\ UNCHANGED <<lock, image, target, manifest, download, outcome, faults>>
    BY <1>7 DEF CheckInstalled
  <2>2. "manifest" \in Checked  BY DEF Checked
  <2> QED  BY <1>1, <1>4, <1>6, <2>1, <2>2, InsideStep
<1>8. CASE FetchManifest(p) /\ ~Fail(p)
  <2>1. PICK m \in Served : manifest' = [manifest EXCEPT ![p] = m]
    BY <1>8 DEF FetchManifest
  <2>2. Goto(p, "verify") /\ UNCHANGED <<lock, image, target, download, outcome, faults>>
    BY <1>8 DEF FetchManifest
  <2>3. manifest' \in [Procs -> Contents] /\ \A q \in Procs \ {p} : manifest'[q] = manifest[q]
    BY <1>3, <1>6, <2>1
  <2>4. "verify" \in Checked /\ pc[p] \in Checked  BY <1>8 DEF Checked, FetchManifest
  <2> QED  BY <1>1, <1>4, <1>5, <1>6, <2>2, <2>3, <2>4, InsideStep
<1>9. CASE VerifyManifest(p) /\ ~Fail(p)
  <2>1. /\ Goto(p, "binary") /\ manifest[p] = target[p]
        /\ UNCHANGED <<lock, image, target, manifest, download, outcome, faults>>
    BY <1>9 DEF VerifyManifest
  <2>2. "binary" \in Checked /\ pc[p] \in Checked  BY <1>9 DEF Checked, VerifyManifest
  <2> QED  BY <1>1, <1>4, <1>5, <1>6, <2>1, <2>2, InsideStep
<1>10. CASE FetchBinary(p) /\ ~Fail(p)
  <2>1. PICK b \in Served : download' = [download EXCEPT ![p] = b]
    BY <1>10 DEF FetchBinary
  <2>2. Goto(p, "digest") /\ UNCHANGED <<lock, image, target, manifest, outcome, faults>>
    BY <1>10 DEF FetchBinary
  <2>3. download' \in [Procs -> Contents] /\ \A q \in Procs \ {p} : download'[q] = download[q]
    BY <1>3, <1>6, <2>1
  <2>4. "digest" \in Checked /\ pc[p] \in Checked /\ manifest[p] = target[p]
    BY <1>10 DEF Checked, FetchBinary, InstallInv, Verified
  <2> QED  BY <1>1, <1>4, <1>5, <1>6, <2>2, <2>3, <2>4, InsideStep
<1>11. CASE VerifyAsset(p) /\ ~Fail(p)
  <2>1. /\ Goto(p, "stage") /\ download[p] = manifest[p]
        /\ UNCHANGED <<lock, image, target, manifest, download, outcome, faults>>
    BY <1>11 DEF VerifyAsset
  <2>2. "stage" \in Checked /\ pc[p] \in Checked /\ manifest[p] = target[p]
    BY <1>11 DEF Checked, VerifyAsset, InstallInv, Verified
  <2> QED  BY <1>1, <1>4, <1>5, <1>6, <2>1, <2>2, InsideStep
<1> QED  BY <1>2, <1>7, <1>8, <1>9, <1>10, <1>11

(* What is staged is run, and moved into place, only when it is the chosen *)
(* release; a failure before that leaves the executable alone.             *)
LEMMA StageKeeps ==
  ASSUME InstallAssumption, InstallInv, NEW p \in Procs, Stage(p) \/ Write(p) \/ CheckVersion(p)
  PROVE  InstallInv'
<1>1. CASE FailStaged(p)
  <2>1. pc[p] # "finish"  BY DEF Stage, Write, CheckVersion
  <2> QED  BY <1>1, <2>1, FailStep DEF FailStaged
<1>2. pc[p] \in Checked /\ pc[p] \in Locked \ {"finish"}
  BY DEF Stage, Write, CheckVersion, Checked, Locked
<1>3. exe \in Releases /\ target[p] > exe  BY <1>2 DEF InstallInv, Newer
<1>4. /\ staged \in [Procs -> Contents] /\ manifest \in [Procs -> Contents]
      /\ download \in [Procs -> Contents]
  BY DEF InstallInv, Types
<1>5. CASE Stage(p) /\ ~FailStaged(p)
  <2>1. /\ Goto(p, "write") /\ staged' = [staged EXCEPT ![p] = Broken] /\ pc[p] = "stage"
        /\ UNCHANGED <<exe, previous, lock, image, target, manifest, download, outcome, faults>>
    BY <1>5 DEF Stage
  <2>2. "write" \in Checked  BY DEF Checked
  <2>3. staged' \in [Procs -> Contents] /\ \A q \in Procs \ {p} : staged'[q] = staged[q]
    BY <1>4, <2>1 DEF Contents
  <2>4. manifest[p] = target[p] /\ download[p] = target[p]  BY <2>1 DEF InstallInv, Verified
  <2> QED  BY <1>2, <1>3, <1>4, <2>1, <2>2, <2>3, <2>4, InsideStep
<1>6. CASE Write(p) /\ ~FailStaged(p)
  <2>1. /\ Goto(p, "try") /\ staged' = [staged EXCEPT ![p] = download[p]] /\ pc[p] = "write"
        /\ UNCHANGED <<exe, previous, lock, image, target, manifest, download, outcome, faults>>
    BY <1>6 DEF Write
  <2>2. "try" \in Checked  BY DEF Checked
  <2>3. staged' \in [Procs -> Contents] /\ \A q \in Procs \ {p} : staged'[q] = staged[q]
    BY <1>4, <2>1
  <2>4. staged'[p] = target[p]  BY <1>4, <2>1 DEF InstallInv, Verified
  <2> QED  BY <1>2, <1>3, <1>4, <2>1, <2>2, <2>3, <2>4, InsideStep
<1>7. CASE CheckVersion(p) /\ ~FailStaged(p)
  <2> DEFINE where == IF Windows THEN "aside" ELSE "swap"
  <2>1. /\ Goto(p, where) /\ staged[p] = target[p]
        /\ UNCHANGED <<exe, previous, staged, lock, image, target, manifest, download, outcome, faults>>
    BY <1>7 DEF CheckVersion, disk
  <2>2. where \in Checked /\ where \in {"aside", "swap"} /\ (~Windows => where # "aside")
    BY DEF Checked
  <2> HIDE DEF where
  <2> QED  BY <1>2, <1>3, <1>4, <2>1, <2>2, InsideStep
<1> QED  BY <1>1, <1>5, <1>6, <1>7

(* Elsewhere one rename replaces the executable.                           *)
LEMMA SwapKeeps ==
  ASSUME InstallAssumption, InstallInv, NEW p \in Procs, Swap(p)
  PROVE  InstallInv'
<1>1. CASE FailStaged(p)
  <2>1. pc[p] # "finish"  BY DEF Swap
  <2> QED  BY <1>1, <2>1, FailStep DEF FailStaged
<1>2. CASE ~FailStaged(p)
  <2>1. /\ exe' = staged[p] /\ staged' = [staged EXCEPT ![p] = Missing]
        /\ EndProcess(p, "upgraded") /\ UNCHANGED <<previous, faults>> /\ pc[p] = "swap"
    BY <1>2 DEF Swap, End
  <2>2. exe' \in Releases  BY <2>1 DEF InstallInv, Types, Verified
  <2>3. staged' \in [Procs -> Contents] /\ \A q \in Procs \ {p} : staged'[q] = staged[q]
    BY <2>1 DEF InstallInv, Types, Contents
  <2>4. lock = p  BY <2>1 DEF InstallInv, Holder, Locked, Checked
  <2>5. faults' \in Nat /\ faults' >= faults /\ previous' \in Releases \cup {Missing}
    BY <2>1 DEF InstallInv, Types
  <2>6. previous' = previous /\ exe' # Missing  BY <2>1, <2>2 DEF InstallAssumption
  <2> QED  BY <2>1, <2>2, <2>3, <2>4, <2>5, <2>6, EndStep
<1> QED  BY <1>1, <1>2

(* On Windows the executable goes aside, and the lock says who brings the  *)
(* next one: nobody else has looked at it.                                 *)
LEMMA AsideKeeps ==
  ASSUME InstallAssumption, InstallInv, NEW p \in Procs, MoveAside(p)
  PROVE  InstallInv'
<1> USE DEF InstallInv
<1>1. pc[p] = "aside" /\ lock = p  BY DEF MoveAside, Holder, Locked, Checked
<1>2. exe \in Releases /\ target[p] > exe /\ staged[p] = target[p] /\ Windows
  BY <1>1 DEF Newer, Verified, Platform, Checked, InstallAssumption
<1>3. CASE Fail(p)
  <2>1. UNCHANGED exe /\ previous' \in {previous, Missing} /\ DropStaged(p)
    <3>1. CASE pc'[p] = "off"  BY <1>1, <1>3, <3>1 DEF MoveAside, DropPrevious, Goto, Types
    <3>2. pc'[p] = "off"  BY <1>3 DEF Fail, End, EndProcess, Goto, Types
    <3> QED  BY <3>1, <3>2
  <2> QED  BY <1>1, <1>2, <1>3, <2>1, FailStep
<1>4. CASE ~Fail(p)
  <2>1. /\ previous' = exe /\ exe' = Missing /\ pc' = [pc EXCEPT ![p] = "finish"]
        /\ UNCHANGED <<staged, lock, image, target, manifest, download, outcome, faults>>
    BY <1>4 DEF MoveAside, Goto
  <2>2. Types'  BY <1>2, <2>1 DEF Types, Locked
  <2>3. Holder'  BY <1>1, <2>1 DEF Types, Holder, Locked
  <2>4. Verified'  BY <1>2, <2>1 DEF Types, Verified
  <2>5. Newer'
    <3>1. \A q \in Procs \ {p} : pc[q] \notin Locked  BY <1>1 DEF Holder
    <3> QED  BY <1>2, <2>1, <3>1 DEF Types, Newer, Locked, Checked
  <2>6. Platform'  BY <1>2 DEF Platform
  <2>7. AlwaysInstalled'  BY <1>2, <2>1 DEF AlwaysInstalled
  <2> QED  BY <2>2, <2>3, <2>4, <2>5, <2>6, <2>7
<1> QED  BY <1>3, <1>4

(* ... and either the staged release comes, or what was aside does, or it  *)
(* stays there, whole.                                                     *)
LEMMA FinishKeeps ==
  ASSUME InstallAssumption, InstallInv, NEW p \in Procs, Finish(p)
  PROVE  InstallInv'
<1>1. pc[p] = "finish" /\ lock = p  BY DEF Finish, InstallInv, Holder, Locked
<1>2. /\ exe = Missing /\ previous \in Releases /\ staged[p] = target[p] /\ Windows
      /\ staged[p] \in Releases /\ Missing \notin Releases
  BY <1>1 DEF InstallInv, Types, Newer, Verified, Platform, InstallAssumption
<1>3. PICK what \in {"failed", "upgraded"} : EndProcess(p, what)
  BY DEF Finish, RollBack, Fail, End
<1>4. PICK left \in {Missing, staged[p]} : staged' = [staged EXCEPT ![p] = left]
  BY DEF Finish, RollBack, DropStaged
<1>5. staged' \in [Procs -> Contents] /\ \A q \in Procs \ {p} : staged'[q] = staged[q]
  BY <1>4 DEF InstallInv, Types, Contents
<1>6. \A q \in Procs : ~(q # p /\ pc[q] = "finish")  BY <1>1 DEF InstallInv, Holder, Locked
<1>7. /\ faults' \in Nat /\ faults' >= faults /\ previous' \in Releases \cup {Missing}
      /\ exe' \in Releases \/ (exe' = Missing /\ previous' \in Releases)
  BY <1>2 DEF Finish, RollBack, Fail, End, InstallInv, Types
<1> QED  BY <1>1, <1>2, <1>3, <1>5, <1>6, <1>7, EndStep

(* The invariant is inductive.                                             *)
LEMMA InstallStep ==
  ASSUME InstallAssumption, InstallInv, [Next]_vars
  PROVE  InstallInv'
<1>1. CASE UNCHANGED vars
  BY <1>1 DEF vars, disk, process, InstallInv, Types, Holder, Verified, Newer, Platform, AlwaysInstalled
<1>2. CASE Next
  <2>1. PICK p \in Procs : Start(p) \/ Consent(p) \/ Decline(p) \/ Install(p) \/ Crash(p)
    BY <1>2 DEF Next
  <2>2. CASE Start(p) \/ Consent(p) \/ Decline(p) \/ Crash(p)
    BY <2>2, StartKeeps, AskKeeps, CrashKeeps
  <2>3. CASE Install(p)
    BY <2>3, TryLockKeeps, PrepareKeeps, StageKeeps, SwapKeeps, AsideKeeps, FinishKeeps DEF Install
  <2> QED  BY <2>1, <2>2, <2>3
<1> QED  BY <1>1, <1>2

-----------------------------------------------------------------------------
(* A step in which the release at the place of the executable changes is   *)
(* the end of a swap: it brings the release that was chosen, or the one    *)
(* that was moved aside back.                                              *)
LEMMA OlderStep ==
  ASSUME InstallAssumption, InstallInv, [Next]_vars, exe' \in Releases
  PROVE  exe' >= IF exe \in Releases THEN exe ELSE previous
<1>1. Releases \subseteq Nat  BY DEF InstallAssumption
<1>2. CASE exe' = exe  BY <1>1, <1>2
<1>3. CASE exe' # exe
  <2>1. PICK p \in Procs : Start(p) \/ Consent(p) \/ Decline(p) \/ Install(p) \/ Crash(p)
    BY <1>3 DEF Next, vars, disk
  <2>2. CASE Swap(p)
    <3>1. pc[p] = "swap" /\ exe' = staged[p]  BY <1>3, <2>2 DEF Swap, FailStaged
    <3>2. exe \in Releases /\ staged[p] > exe  BY <3>1 DEF InstallInv, Newer, Verified, Checked
    <3> QED  BY <1>1, <3>1, <3>2
  <2>3. CASE Finish(p)
    <3>1. pc[p] = "finish" /\ exe' \in {staged[p], previous}  BY <1>3, <2>3 DEF Finish, RollBack
    <3>2. exe \notin Releases /\ previous \in Releases /\ staged[p] > previous
      BY <3>1 DEF InstallInv, Newer, Verified, InstallAssumption
    <3> QED  BY <1>1, <3>1, <3>2
  <2>4. CASE MoveAside(p)
    <3>1. exe' = Missing  BY <1>3, <2>4 DEF MoveAside
    <3> QED  BY <3>1 DEF InstallAssumption
  <2>5. CASE Start(p) \/ Consent(p) \/ Decline(p) \/ Crash(p)
    BY <1>3, <2>5 DEF Start, Consent, Decline, Crash, disk
  <2>6. CASE TryLock(p) \/ CheckInstalled(p) \/ FetchManifest(p) \/ VerifyManifest(p)
             \/ FetchBinary(p) \/ VerifyAsset(p)
    BY <1>3, <2>6 DEF TryLock, CheckInstalled, FetchManifest, VerifyManifest, FetchBinary, VerifyAsset
  <2>7. CASE Stage(p) \/ Write(p) \/ CheckVersion(p)
    BY <1>3, <2>7 DEF Stage, Write, CheckVersion, FailStaged, disk
  <2> QED  BY <2>1, <2>2, <2>3, <2>4, <2>5, <2>6, <2>7 DEF Install
<1> QED  BY <1>2, <1>3

(* A process says how its upgrade ended in the step in which it ends.      *)
LEMMA OutcomeStep ==
  ASSUME InstallAssumption, InstallInv, [Next]_vars,
         NEW p \in Procs, pc[p] # "off", pc'[p] = "off", outcome'[p] = "upgraded"
  PROVE  exe' = target[p]
<1> USE DEF Goto, disk
<1>1. pc \in [Procs -> Locked \cup {"off", "ask", "lock"}] /\ staged \in [Procs -> Contents]
      /\ outcome \in [Procs -> {"none", "failed", "upgraded", "crashed"}]
  BY DEF InstallInv, Types
<1>2. PICK q \in Procs : Start(q) \/ Consent(q) \/ Decline(q) \/ Install(q) \/ Crash(q)
  BY DEF Next, vars, process
<1>3. \A what : EndProcess(q, what) =>
        pc' = [pc EXCEPT ![q] = "off"] /\ outcome' = [outcome EXCEPT ![q] = what]
  BY DEF EndProcess
<1>4. Fail(q) => EndProcess(q, "failed")  BY DEF Fail, End
<1>5. CASE Start(q) \/ Consent(q)  BY <1>1, <1>5 DEF Start, Consent
<1>6. CASE Decline(q) \/ Crash(q)
  <2>1. \/ EndProcess(q, "none") /\ pc[q] = "ask"
        \/ EndProcess(q, "crashed")
    BY <1>6 DEF Decline, Crash, End
  <2>2. q = p  BY <1>1, <1>3, <2>1
  <2> QED  BY <1>1, <1>3, <2>1, <2>2
<1>7. CASE TryLock(q) \/ CheckInstalled(q) \/ FetchManifest(q) \/ VerifyManifest(q)
           \/ FetchBinary(q) \/ VerifyAsset(q)
  <2>1. /\ pc[q] \in {"lock", "installed", "manifest", "verify", "binary", "digest"}
        /\ Fail(q) \/ pc' \in {[pc EXCEPT ![q] = where] : where \in Locked}
    BY <1>7 DEF TryLock, CheckInstalled, FetchManifest, VerifyManifest, FetchBinary, VerifyAsset,
                Locked, Checked
  <2>2. q = p /\ Fail(q)  BY <1>1, <1>3, <1>4, <2>1 DEF Locked, Checked
  <2> QED  BY <1>1, <1>3, <1>4, <2>2
<1>8. CASE Stage(q) \/ Write(q) \/ CheckVersion(q)
  <2>1. FailStaged(q) \/ pc' \in {[pc EXCEPT ![q] = where] : where \in Locked}
    BY <1>8 DEF Stage, Write, CheckVersion, Locked, Checked
  <2>2. q = p /\ FailStaged(q)  BY <1>1, <1>3, <1>4, <2>1 DEF Locked, Checked, FailStaged
  <2> QED  BY <1>1, <1>3, <1>4, <2>2 DEF FailStaged
<1>9. CASE Swap(q)
  <2>1. \/ FailStaged(q)
        \/ exe' = staged[q] /\ EndProcess(q, "upgraded") /\ pc[q] = "swap"
    BY <1>9 DEF Swap, End
  <2>2. q = p  BY <1>1, <1>3, <1>4, <2>1 DEF FailStaged
  <2>3. pc[p] = "swap" => staged[p] = target[p]  BY DEF InstallInv, Verified
  <2> QED  BY <1>1, <1>3, <1>4, <2>1, <2>2, <2>3 DEF FailStaged
<1>10. CASE MoveAside(q)
  <2>1. Fail(q) \/ pc' = [pc EXCEPT ![q] = "finish"]
    BY <1>10 DEF MoveAside
  <2>2. q = p /\ Fail(q)  BY <1>1, <1>3, <1>4, <2>1
  <2> QED  BY <1>1, <1>3, <1>4, <2>2
<1>11. CASE Finish(q)
  <2>1. /\ pc[q] = "finish"
        /\ \/ exe' = staged[q] /\ EndProcess(q, "upgraded")
           \/ EndProcess(q, "failed")
    BY <1>11 DEF Finish, RollBack, End, Fail
  <2>2. q = p  BY <1>1, <1>3, <2>1
  <2>3. staged[p] = target[p]  BY <2>1, <2>2 DEF InstallInv, Verified
  <2> QED  BY <1>1, <1>3, <2>1, <2>2, <2>3
<1> QED  BY <1>2, <1>5, <1>6, <1>7, <1>8, <1>9, <1>10, <1>11 DEF Install

(* What is installed changes in one step of an upgrade, its last rename,   *)
(* and the upgrade ends with it; every failure and every death keeps it.   *)
LEMMA InstalledStep ==
  ASSUME InstallAssumption, InstallInv, [Next]_vars, Installed' # Installed
  PROVE  \E p \in Procs : pc[p] # "off" /\ pc'[p] = "off" /\ outcome'[p] = "upgraded"
<1>1. ~UNCHANGED <<exe, previous>>  BY DEF Installed
<1>2. PICK p \in Procs : Start(p) \/ Consent(p) \/ Decline(p) \/ Install(p) \/ Crash(p)
  BY <1>1 DEF Next, vars, disk
<1>3. pc \in [Procs -> Locked \cup {"off", "ask", "lock"}]
      /\ outcome \in [Procs -> {"none", "failed", "upgraded", "crashed"}]
  BY DEF InstallInv, Types
<1>4. ASSUME exe \in Releases, exe' = exe PROVE FALSE
  BY <1>4 DEF Installed, InstallAssumption
<1>5. CASE Start(p)  BY <1>4, <1>5 DEF Start
<1>6. CASE Swap(p) \/ Finish(p)
  <2>1. CASE EndProcess(p, "upgraded")
    BY <1>3, <1>6, <2>1 DEF EndProcess, Goto, Swap, Finish
  <2>2. CASE FailStaged(p)  BY <1>1, <2>2 DEF FailStaged
  <2>3. CASE Finish(p) /\ RollBack(p)
    <3>1. exe = Missing /\ previous \in Releases  BY <2>3 DEF Finish, InstallInv, Newer
    <3> QED  BY <2>3, <3>1 DEF RollBack, Installed, InstallAssumption
  <2> QED  BY <1>6, <2>1, <2>2, <2>3 DEF Swap, Finish, End
<1>7. CASE MoveAside(p)
  <2>1. exe \in Releases  BY <1>7 DEF MoveAside, InstallInv, Newer, Checked
  <2>2. exe' = exe \/ (previous' = exe /\ exe' = Missing)  BY <1>7 DEF MoveAside
  <2> QED  BY <1>4, <2>1, <2>2 DEF Installed, InstallAssumption
<1>8. CASE Consent(p) \/ Decline(p) \/ Crash(p)
  BY <1>1, <1>8 DEF Consent, Decline, Crash, disk
<1>9. CASE TryLock(p) \/ CheckInstalled(p) \/ FetchManifest(p) \/ VerifyManifest(p)
           \/ FetchBinary(p) \/ VerifyAsset(p) \/ Stage(p) \/ Write(p) \/ CheckVersion(p)
  BY <1>1, <1>9 DEF TryLock, CheckInstalled, FetchManifest, VerifyManifest, FetchBinary, VerifyAsset,
                    Stage, Write, CheckVersion, FailStaged, disk
<1> QED  BY <1>2, <1>5, <1>6, <1>7, <1>8, <1>9 DEF Install

(* The place of the executable is left empty only by an upgrade that ends  *)
(* between its two renames with a fault: the lock keeps every other one    *)
(* from the files, and an upgrade that goes on brings one or moves it back. *)
LEMMA StrandedStep ==
  ASSUME InstallAssumption, InstallInv, [Next]_vars, ~Stranded, Stranded'
  PROVE  /\ exe = Missing /\ faults' > faults
         /\ \E p \in Procs : pc[p] = "finish" /\ outcome'[p] \in {"crashed", "failed"}
<1> USE DEF Goto, disk
<1>1. /\ pc \in [Procs -> Locked \cup {"off", "ask", "lock"}] /\ faults \in Nat
      /\ outcome \in [Procs -> {"none", "failed", "upgraded", "crashed"}]
  BY DEF InstallInv, Types
<1>2. exe' = Missing /\ \A p \in Procs : pc'[p] # "finish"  BY DEF Stranded
<1>3. PICK q \in Procs : Start(q) \/ Consent(q) \/ Decline(q) \/ Install(q) \/ Crash(q)
  BY DEF Next, vars, process, Stranded
<1>4. Missing \notin Releases  BY DEF InstallAssumption
<1>5. exe = Missing
  <2>1. CASE MoveAside(q)  BY <1>1, <1>2, <2>1 DEF MoveAside
  <2>2. CASE Swap(q)
    <3>1. pc[q] = "swap"  BY <2>2 DEF Swap
    <3>2. staged[q] \in Releases  BY <3>1 DEF InstallInv, Verified, Types
    <3> QED  BY <1>2, <1>4, <2>2, <3>2 DEF Swap, FailStaged
  <2>3. CASE Finish(q)  BY <2>3, <1>4 DEF Finish, InstallInv, Newer
  <2>4. CASE Start(q) \/ Consent(q) \/ Decline(q) \/ Crash(q)
    BY <1>2, <2>4 DEF Start, Consent, Decline, Crash
  <2>5. CASE TryLock(q) \/ CheckInstalled(q) \/ FetchManifest(q) \/ VerifyManifest(q)
             \/ FetchBinary(q) \/ VerifyAsset(q) \/ Stage(q) \/ Write(q) \/ CheckVersion(q)
    BY <1>2, <2>5 DEF TryLock, CheckInstalled, FetchManifest, VerifyManifest, FetchBinary, VerifyAsset,
                      Stage, Write, CheckVersion, FailStaged
  <2> QED  BY <1>3, <2>1, <2>2, <2>3, <2>4, <2>5 DEF Install
<1>6. PICK p \in Procs : pc[p] = "finish"  BY <1>5 DEF Stranded
<1>7. Finish(q) \/ Crash(q)
  <2>1. \A where : pc' = [pc EXCEPT ![q] = where] /\ pc[q] # "finish" => pc'[p] = "finish"
    BY <1>1, <1>6
  <2>2. pc'[p] # "finish" /\ exe \notin Releases  BY <1>2, <1>4, <1>5
  <2>3. CASE Start(q) \/ Consent(q) \/ Decline(q)
    BY <2>1, <2>2, <2>3 DEF Start, Consent, Decline, End, EndProcess
  <2>4. CASE TryLock(q) \/ CheckInstalled(q) \/ FetchManifest(q) \/ VerifyManifest(q)
             \/ FetchBinary(q) \/ VerifyAsset(q)
    BY <2>1, <2>2, <2>4 DEF TryLock, CheckInstalled, FetchManifest, VerifyManifest, FetchBinary,
                            VerifyAsset, Fail, End, EndProcess
  <2>5. CASE Stage(q) \/ Write(q) \/ CheckVersion(q) \/ Swap(q) \/ MoveAside(q)
    BY <2>1, <2>2, <2>5 DEF Stage, Write, CheckVersion, Swap, MoveAside, FailStaged, Fail, End,
                            EndProcess
  <2> QED  BY <1>3, <2>3, <2>4, <2>5 DEF Install
<1>8. q = p
  <2>1. pc' = [pc EXCEPT ![q] = "off"]
    BY <1>7 DEF Finish, RollBack, Crash, Fail, End, EndProcess
  <2> QED  BY <1>1, <1>2, <1>6, <2>1
<1>9. CASE Crash(q)
  BY <1>1, <1>5, <1>6, <1>8, <1>9 DEF Crash, EndProcess
<1>10. CASE Finish(q)
  <2>1. staged[p] \in Releases /\ previous \in Releases
    BY <1>6 DEF InstallInv, Verified, Types, Newer
  <2>2. faults' = faults + 1 /\ EndProcess(q, "failed")
    BY <1>2, <1>4, <1>8, <1>10, <2>1 DEF Finish, RollBack
  <2> QED  BY <1>1, <1>5, <1>6, <1>8, <2>2 DEF EndProcess
<1> QED  BY <1>7, <1>9, <1>10

-----------------------------------------------------------------------------
(* What the invariant says of the files, platform by platform.             *)
LEMMA InstallSafe ==
  ASSUME InstallAssumption, InstallInv
  PROVE  TypeOK /\ OnlyReleases /\ AlwaysInstalled
<1>1. \A p \in Procs : pc[p] \in Locked <=> pc[p] \notin {"off", "ask", "lock"}
  BY DEF InstallInv, Types, Locked, Checked
<1>2. TypeOK  BY <1>1 DEF InstallInv, Types, Holder, TypeOK, Contents
<1>3. OnlyReleases  BY DEF InstallInv, Types, Verified, OnlyReleases, InstallAssumption
<1> QED  BY <1>2, <1>3 DEF InstallInv

(* What stands at the place of the executable, and beside it, is a release *)
(* whose signature and digest were verified, whole; on Windows the place   *)
(* is empty only while such a release lies beside it, and nobody is about  *)
(* to fill it only when an upgrade died between the two renames or could   *)
(* not undo the first.                                                     *)
THEOREM InstalledIsWhole ==
  ASSUME InstallAssumption
  PROVE  Spec => [](TypeOK /\ OnlyReleases /\ AlwaysInstalled) /\ AwayOnlyInSwap
<1>1. Init => InstallInv  BY InstallInit
<1>2. InstallInv /\ [Next]_vars => InstallInv'  BY InstallStep
<1>3. InstallInv => TypeOK /\ OnlyReleases /\ AlwaysInstalled  BY InstallSafe
<1>4. InstallInv /\ [Next]_vars =>
        [~Stranded /\ Stranded' =>
           /\ exe = Missing /\ faults' > faults
           /\ \E p \in Procs : pc[p] = "finish" /\ outcome'[p] \in {"crashed", "failed"}]_vars
  BY StrandedStep
<1> QED  BY <1>1, <1>2, <1>3, <1>4, PTL DEF Spec, AwayOnlyInSwap

(* The installed version never goes back.                                  *)
THEOREM InstalledNeverOlder ==
  ASSUME InstallAssumption
  PROVE  Spec => NeverOlder
<1>1. Init => InstallInv  BY InstallInit
<1>2. InstallInv /\ [Next]_vars => InstallInv'  BY InstallStep
<1>3. InstallInv /\ [Next]_vars =>
        [exe' \in Releases => exe' >= (IF exe \in Releases THEN exe ELSE previous)]_vars
  BY OlderStep
<1> QED  BY <1>1, <1>2, <1>3, PTL DEF Spec, NeverOlder

(* What a process says of its upgrade as it ends is true, and nothing else *)
(* ever changes what is installed.                                         *)
THEOREM InstalledSaysTrue ==
  ASSUME InstallAssumption
  PROVE  Spec => UpgradeTrue
<1>1. Init => InstallInv  BY InstallInit
<1>2. InstallInv /\ [Next]_vars => InstallInv'  BY InstallStep
<1>3. InstallInv /\ [Next]_vars =>
        [/\ Installed' # Installed =>
              \E p \in Procs : pc[p] # "off" /\ pc'[p] = "off" /\ outcome'[p] = "upgraded"
         /\ \A p \in Procs : pc[p] # "off" /\ pc'[p] = "off" /\ outcome'[p] = "upgraded"
              => exe' = target[p]]_vars
  BY OutcomeStep, InstalledStep
<1> QED  BY <1>1, <1>2, <1>3, PTL DEF Spec, UpgradeTrue

=============================================================================
