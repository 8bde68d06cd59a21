# skilld, specified

TLA+ modules for [skilld](../src), the package manager for Agent Skills, the TLC
configurations that check them on small instances, and theorems that TLAPS
checks for every instance. Paths below are relative to `src/`; `local_store.rs`
is `crates/skilld-command/src/local_store.rs`. Three files are called
`remote.rs`: without a prefix it is the one of `skilld-command`.

Contents: [the system](#1-the-system), [the modules](#2-the-modules),
[how the store is modelled](#3-how-the-store-is-modelled),
[how the rest is modelled](#4-how-the-rest-is-modelled),
[the runs](#5-the-runs), [fairness](#6-fairness), [the proofs](#7-the-proofs),
[what the models show about the code](#8-what-the-models-show-about-the-code),
[what is not modelled](#9-what-is-not-modelled), [what could come next](#10-what-could-come-next).

## 1. The system

`skilld` installs Skills (directories of Markdown and scripts) into a store and
links or copies them into the target directories of coding Agents. A separate
JavaScript package, the Harness, generates Skills.

| Component | State | Operations | Talks to | What is hard |
| --- | --- | --- | --- | --- |
| **Skill store** (`local_store.rs`, `skilld-core/src/lock.rs`) | canonical Skills, Agent targets, `skilld-lock.yaml`, transaction journal, stages and backups, file lock | snapshot, list, view, verify, install, update batch, sync batch, remove; recovery before each | the file system, the command layer | atomic change of many directories and a lockfile by single renames; crashes anywhere, recovery included; stale plans; the user's own files |
| **Sync of declared Skills** (`skilld-command/src/sync.rs`) | none of its own: declarations and requirements in the lockfile | plan a declaration against a snapshot, apply as one batch | store, remote | the lock is free between snapshot and apply; declarations that share Skills |
| **Command layer** (`skilld-command/src/lib.rs`, `run.rs`) | none | install, add, restore, update, remove, verify, run, outdated | store, remote, behaviour consent | plans that are applied later; unguarded re-installs in restore; approvals of what moves |
| **Doctor actions** (`doctor_actions.rs`) | backup directory, receipt | migrate or remove an unmanaged installation | store, other tools' lockfiles | rollback by hand of several steps; no recovery after a crash |
| **Remote Artifact delivery** (`remote.rs`, `skilld-core/src/remote.rs`) | one deadline per Resolution, memo of direct access | resolve, poll, download, verify, compare updates, list | skilld.dev, Git hosts | retries and waits under a shared deadline; worker threads; a chain of signatures; tarballs as a shortcut |
| **Authentication** (`skilld-auth`, `native_auth.rs`) | credential in the keychain | login, refresh, logout, token | skilld.dev, browser callback, keychain | rotating refresh tokens, several processes, a crash after rotation |
| **CLI upgrade** (`skilld-native/src/upgrade.rs`, `skilld-command/src/upgrade.rs`) | cached check, worker lock file, the executable | plan, background check, install a release | release servers | concurrent commands, stale locks, replacing the running binary |
| **Terminal output and selection** (`update_ui.rs`, `doctor_ui.rs`, `select_ui.rs`, `status.rs`) | the model of a screen, effects under way | keys, resizes, messages of workers | command layer | results that come late, keys typed before what they answer is shown |
| **Weekly notice** (`weekly.rs`) | last shown, last checked | decide, record | command layer | little |
| **Configuration** (`config.rs`) | one file | read, set | command layer | fixed staging name, remove before rename |
| **Harness** (`packages/harness`) | output directory, lock file per Skill | collect, validate, promote | an AI SDK sandbox | two renames and a rollback without a journal |
| Behaviour detection, references, account and discovery commands, SDK, protocol, launcher, release scripts | none that lasts | parsing, formatting, single requests | | no protocol to check |

For each component, what makes it correct:

- **Store.** The canonical Skills, the targets and the lockfile change together
  or not at all, wherever a command stops; nothing of a transaction is left
  behind for good; a command decides on the recovered store only; a batch takes
  effect only on the store its plan saw; what a command reports is true; a
  user's directory in a target is never replaced; every command ends and every
  interrupted transaction is resolved.
- **Sync.** A declaration's Skills, targets and requirements are what the last
  sync of it declared; another declaration's are kept; a conflict is refused
  before anything is written.
- **Command layer.** An update goes forward from the reviewed files; what is
  installed or loaded is what the user approved; a report and an exit code are
  true; a restore leaves each Skill as it was recorded.
- **Doctor.** After a failure either everything moved is back, or the receipt
  names where it is (but for a transaction that the store left open: section 8).
- **Remote.** A preparation ends by its deadline, with the Artifact that was
  asked for and only with signed files; a comparison answers each input once, in
  its own place; a listing names each Skill once.
- **Authentication.** The entry of the keychain belongs to the account it names,
  a refresh token that has been replaced never comes back, and "signed in" and
  "signed out" are said only when they are so.
- **Upgrade.** At most one worker changes the state at a time, as long as no lock is
  stale; the executable is the old or the new one, and away only within a swap on
  Windows, or after one that was cut off.
- **Screens.** A key acts on what was shown when it was pressed; what was done is
  reported; the user always gets out.
- **Configuration, Harness.** A reader sees the old or the new file; an
  output directory is the old or the new Skill, and the next run is not blocked.

`PROJECT.json` lists the hazards behind these, each at its line, with the
properties that would catch it.

## 2. The modules

| Module | Holds |
| --- | --- |
| `SkillData` | Skills, places, lock documents, and what a document records for a place (`lock.rs`) |
| `SkillStore` | the store as the code runs it, call by call |
| `AtomicStore` | what the store promises: document and files change in one step |
| `SkillStoreProps` | the store's type invariant, safety and liveness properties, the refinement mapping |
| `SkillStoreInv` | its inductive invariant, in named layers |
| `SkillStoreProofs` | proofs: type correctness, the inductive invariant, six properties and the refinement |
| `MCSkillStore` | sets of commands for TLC |
| `Sorting` | what a loop over a sorted set, or over the elements that pass a filter, goes through |
| `ArtifactDelivery`, `Verification`, `DirectDownload`, `UpdateComparisons`, `Listings` | what the CLI asks of the service and of GitHub; composed in `Remote` |
| `InteractiveUpdate`, `DoctorScreen`, `SkillPicker`, `StatusLine` | what the terminal shows and which keys act; composed in `Screens` |
| `UpdateCommand`, `InstallCommand`, `AgentTargets`, `SyncCommand`, `DoctorAction`, `RunSession`, `CommandLine`, `AuthSession` | the commands and the account session; composed in `Commands` |
| `UpgradeCheck`, `UpgradeInstall`, `ReleaseVersions`, `ConfigStore`, `HarnessPromotion` | the CLI upgrade, and two places where a thing is replaced without a journal; composed in `Upgrade` |
| `MCRemote`, `MCScreens`, `MCCommands`, `MCUpgrade` | the constants of a small instance of `Remote`, `Screens`, `Commands` and `Upgrade` for TLC |
| `UpgradeInstallProofs`, `AuthSessionProofs` | proofs about one module each, instantiated in two settings |
| `UpgradeProofs`, `RemoteProofs`, `ScreensProofs`, `SourceCommandsProofs`, `CommandsProofs` | proofs about the compositions; `SourceCommandsProofs` has those of the install and update commands, which `CommandsProofs` extends |

Apart from the store, each module models one component, with its own state,
environment and properties. The four composing modules instantiate a family of them
and run **one of them per behaviour**: `part` is chosen at the start and never
changes, and the variables of the others keep an initial value. `Remote`, `Screens`,
`Commands` and `Upgrade` take the constants of their parts as CONSTANTS of their
own, with the assumptions of the parts, so that their properties are also theorems
about every value; an `MC` module gives them the small values. A run of a family
therefore explores the disjoint union of its parts. Where its properties are of the
same kind, one name states them for all parts (`ReplacedWhole` is `ConfigKept` in
one part, `SkillKept`, `PromotionAnswers` and `OneRunAtATime` in another), and each
has its own statement and comment in the module it is about.

Next to the definitions they change stand variants marked *Faulty*: each is what
a plausible slip in that function would do, and each makes TLC refute one
property of a run. They are not part of any specification.

## 3. How the store is modelled

A *place* is where one Skill lives at one site: the canonical store or one
Agent root. `dest`, `stage` and `backup` say what is at a place and in its two
siblings `.skilld-stage-<name>-<tx>` and `.skilld-backup-<name>-<tx>`;
`lockfile`, `lockStage`, `lockBackup` are the lock document and its siblings;
`journal` and `journalStage` are `.skilld-transaction` and the directory it is
built in. `holder`, `request`, `step`, `goal` and `newLock` are the process that
holds the file lock, its command, where it stands, what it returns to after a
recovery, and the document it is going to write. `seen` is each process's last
snapshot.

| Code | Actions |
| --- | --- |
| `acquire_store_lock` (1788) | `Acquire` |
| `recover_locked` (1132), `cleanup_orphan_journal_stages` (1145), `read_journal` (1096) | `CleanupOrphanJournalStages`, `RecoverNothing`, `RecoverPending`, `RecoverUnreadable` |
| `rollback` (1171), `restore_path` (1662), `restore_lockfile` (1678) | `RestoreRemoveStage`, `RestoreRemoveDest`, `RestoreBackup`, `RestoreLockStage`, `RestoreLockBackup` |
| `cleanup_committed` (1201) | `CleanupPlace`, `CleanupLock` |
| removal of the journal (1198, 1233) | `RemoveJournalAndGoOn`, `RemoveJournalAndReport`, `JournalRemovalStops` |
| `snapshot`, `list`, `view`, `verify_content` (230-347) | `ReadStore` |
| checks of install (421-426), batch (624-650), remove (773-790) | `Accepts`, `Refuse`, `StageJournal` |
| `write_journal` (1055) | `StageJournal`, `WriteJournal`, `WriteJournalFails` |
| staging (452-471, 677-696), `stage_target` (1381) | `StageTarget`, `VerifyStages`, `HashStageFails` |
| swap (472-492, 698-716, 815-826) | `SetAside`, `Promote`, `PassGate`, `RemoveCallFails` |
| `write_lock_atomic` (1030) | `StageLock`, `SetLockAside`, `CommitLock` (the commit point) |
| `rollback_error` (1158) | `RollbackError` |
| a process that dies, a call that fails | `Crash`, `RecoveryFails`, and the actions ending in `Fails` |

Decisions behind the abstraction:

- **A step is one call.** A crash may fall between any two. A call that copies
  or removes a tree may also stop inside (`CopyTears`, `RemovalTears`) and leave
  it `Torn`. Renames are atomic. A partly written `.skilld-lock-stage-<tx>` is
  not told apart from a complete one: the code never reads it before the rename,
  and recovery removes either.
- **One slot per place.** The slot names carry the transaction id; the model has
  one stage and one backup per place. `NoResidue` (checked and proved) says that
  no slot outlives its journal, and there is one journal, so two transactions
  never own slots at once.
- **Order.** The code visits Skills and targets in a fixed order. The model takes
  any order that puts a Skill's canonical place before its targets, and swaps one
  place at a time: more behaviours, fewer variables.
- **Data.** A tree is its digest. `Foreign` stands for a directory with other
  bytes. A link the user made is a record with the digest behind it, which only
  `--adopt` reads: it resolves the link first (892). Everywhere else `hash_skill_tree`
  refuses a link at its root (`validate_skill_files`, 1466), so such a link in place
  of a managed copy is a conflict. Agents that share a root are one root
  (`unique_locked_target_paths`). Requirements are the set of Skills that the
  recorded declaration requires.
- **The missing root** reads as an empty store.
- **Transaction ids** (time, process, counter) are unique; the model counts.
- **The user** writes while no command holds the lock. `EditsWhilePending` says
  whether also while an interrupted transaction waits for recovery.

Every bound is a constant: `MaxTx` transactions, `MaxFaults` crashes and I/O
errors together, `MaxEdits` writes by the user. `JournalTears` says whether a
crash may fall inside the removal of the journal directory.

## 4. How the rest is modelled

In every module below, what the network, a service, another process or the user
does is a choice of the environment, and what is called *history* in a
declaration of variables is not read by any action.

### What the CLI asks of others (`Remote`)

**`ArtifactDelivery`** (`remote.rs`, `prepare` 2899 and what it calls) is one
remote preparation. `pc` says where it stands, `req` and `reply` are the HTTP request
under way, `left` is what remains of the `ResolutionDeadline`, in ticks.

| Code | Actions |
| --- | --- |
| `execute_bounded`, `execute_with_retries` (928-1043) | `Rejected`, `NotSent`, `Exchange`, `StopAtReply`, `Retry`, `FollowRedirect`, `RejectReply`, `RejectBody` |
| `resolve` (1103), `resolve_once` (1247-1397) | `PostResolution`, `Ready`, `Stopped`, `FailedRetryably`, `Pending`, `PendingStalled`, `PollsEnd` |
| `download_grant` (1444), `prepare` (2904-2950), `read_linked_files` (1522) | `VerifyAttestation`, `Grant`, `TransferMismatch`, `Unverifiable`, `VerifyArtifact`, `ReadLinkedFile` |

**`Verification`** (`skilld-core/src/remote.rs`) is the chain from the pinned root
to the files: `VerifyTrustedRoot`, `VerifyAttestation`, `VerifyArtifact` (with the
ustar reader told by the blocks it accepts), `WithLinkedFiles`. A signature is the key that
made it, its domain and what it signs; a digest is the content. The instance
offers roots, attestations, archives and linked files that are right or wrong in
one respect each.

**`DirectDownload`** (`direct` 1893-2094) reads the Skills of one command
from GitHub: `Recall`, `Resolve` (one snapshot for a ref), `Plan`,
`FetchTarball`, `ReadTarball`, `FallBack`, `ReadBlob`, `PrepareBlobs`, while
`Push` moves the branch. A blob that is read on its own may come with other bytes of
its size (`WithBytes`). `CarriedAs` is what the tar reader makes of the long-name
headers of Git, and `AsGitWrites` what is assumed of an archive that Git wrote
(`GitAssumption`); archives that are cut short or of another commit are served too.

**`UpdateComparisons`** (`compare_updates` 3075): `Start`, per worker `Work`
(draw a task, lock the results, send, read pages or batches, deliver), `Collect`,
`Cancel`. **`Listings`** (`list_skills` 2845): `ReadCollection`, `LookUp`,
`ReadRegistryPage`, `UseRows`, `ReadGithub`, `Add`, `Done`.

### What the terminal shows (`Screens`)

**`InteractiveUpdate`** (`update_ui.rs`): `model` is `Model`, `UpdateKey`,
`Resized` and `Update` are the pure functions of the same names, and the loop
(`run_event_loop` 1555) is `LoopExit`, `LoopReceive`, `LoopStart`, `LoopKey`,
`LoopResize` with a queue of effects and one `Worker`. **`DoctorScreen`**
(`doctor_ui.rs`, `run_doctor` 989): one channel for scans, plans and actions
(`TakeProgress`, `TakeScan`, `TakePlan`, `TakeApplied`), one action per
kind of key, and a key that was typed before the plan was there (`Type`).
**`SkillPicker`** (`select_ui.rs`): one action per key, `Drain` for what was typed
before. **`StatusLine`** (`status.rs`, `main.rs:233-249`): the painter (`Wake`,
`Paint`), the command (`SetLabel`, `FinishStatus`, `Write` on standard error) and a
prompt (`OpenPrompt`, `ShowPrompt`) over one lock, and the answer on standard output,
which takes none (`Answer`, `EndAnswer`).

### The commands (`Commands`)

| Module | Code | Actions |
| --- | --- | --- |
| `UpdateCommand` | `update` (`lib.rs:3529`), `update_check`, `apply_update_selection`, `verify`; `skilld-core/src/update.rs` | `Look`, `AskSource`, `Compare`, `Judge`, `Gate`, `Apply`; `Environment`: other commands, the user's edits, sources that move |
| `InstallCommand` | `install`, `add`, `restore` (`lib.rs:2035-3301`) | `Begin`, `Choose`, `View`, `Fetch`, `Gate`, `Write`, `ReadBack`; `Others` |
| `AgentTargets` | `skilld-core/src/target.rs`, detection in `lib.rs:4673-4959` | `Select`, `Install`, over the whole table of Agents |
| `SyncCommand` | `sync.rs:167-407`, `apply_sync_batch` | `Begin`, `Plan`, `Commit` of each manifest; `ManifestChanges`, `LocalSourceChanges`, `Installs`, `Removes`, `UserTouches` |
| `DoctorAction` | `doctor_actions.rs:228-643` | `Plan`, `Confirm`, `Decline`, `CheckLinks`, `CheckFiles`, `MakeBackup`, `WriteReceipt`, `CopyLock`, `Move`, `Install`, `Verify`, `CheckLock`, `WriteLock`, `UndoInstall`, `Undo`; `Recovered` (another command recovers what the store left open), `Killed`, `SkillsShWrites`, `UserChanges` |
| `RunSession` | `run_skill` (`lib.rs:3344`), `run_remote`, `run.rs` | `Start` of a printed or typed command, `Prepare`, `ListLocal`, `ReadLocal`, `PullFiles`, `Gate`; `Approves`, `Moves` |
| `CommandLine` | `run_with_output` (`lib.rs:1040`), `dispatch`, `output.rs`, and what `main.rs` writes before and after | `Begin`, `ShowHelp`, `Parse`, `CheckOutput`, `Dispatch`, `PrintAnswer`, `PrintError`, `Notify`; each write may fail |
| `AuthSession` | `skilld-auth/src/flow.rs`, `callback.rs`, `keychain.rs`, `native_auth.rs` | `Start`, `OpenBrowser`, `Receive`, `CheckCallback`, the loads, `Lost`, `FollowRedirect`, `TakeCredential`, `Save`, `Accept`, `Delete` and the failures; the service's `Refuse`, `GrantLogin`, `Rotate`, `Replay`, `Revoke`; `Crash`, `Tick` |

Sync, update and install use the store as single atomic steps (`Commit`, `Apply`,
`Write`): that the store behaves so is what `SkillStore_two` checks and
`StoreIsAtomic` proves. A Skill's files are its version, and where consent matters
the *ask* behaviours of it. Commits are the nodes of a history (1, 2 after 1, 3
after 2, 4 on another branch).

### Upgrades, the configuration and the Harness (`Upgrade`)

**`UpgradeCheck`**: a command (`start_upgrade`, `main.rs:283`) reads
`upgrade.json`, may ask (`TakeKey`, `Choose`), records that it checks and spawns a
worker; a worker (`run_worker`, `upgrade.rs:103`) is `LookAtLock`,
`RemoveStaleLock`, `CreateLock`, `WorkerReads`, `Fetch`, `WorkerWrites`, `Unlock`,
`WorkerDies`. **`UpgradeInstall`** (`install_release`, `upgrade.rs:139`): `Start`,
`Consent`, `Decline`, the steps under `Install` from `TryLock` to `Finish`, `Crash`;
a failure may leave the staged file behind (`DropStaged`), and `Windows` chooses the
swap through `.old`. **`ReleaseVersions`** is `is_newer`, an
algorithm: identifiers are sequences of bytes, and it is compared with
semantic versioning, to which digits are a number however many, on all versions
whose numbers fit a `u64` (`NumbersFit`).

**`ConfigStore`** (`config.rs:102`): `StartSet` (read and change), `CreateStage`,
`WriteStage`, `RemoveOld`, `RenameStage`, `CallFails`, `Dies`, per process.
**`HarnessPromotion`** (`promoteSkill`, `promote.ts:32`): `FindRoot`, `MakeRoot`,
`Inspect`, `TakeLock`, `MakeStage`, `WriteFiles`, `SetAside`, `Promote`,
`RollBack`, `Unlock`, `DropPrevious`, `CleanUp`, `RemoveRoot`, `CallFails`,
`Dies` per run, and `UserWrites`.

## 5. The runs

The store, all with two digests; *Procs* are symmetric where no liveness is checked:

| Run | Instance | Shows |
| --- | --- | --- |
| `SkillStore_one` | 2 processes, 1 Skill, 2 targets, 2 transactions, 2 faults, 1 edit | `TypeOK`, `NoResidue`, `DecidesOnRecoveredStore`, `HonestResults`, `UserTargetsKept` |
| `SkillStore_two` | 2 processes, 2 Skills, 1 target, 2 transactions, 2 faults | `AtomicSpec` (refinement), `NoLostUpdate` |
| `SkillStore_edits` | 2 processes, 1 Skill, 1 target, 2 transactions, 2 faults, 2 edits, also while pending | `Agreement` |
| `SkillStore_live` | 2 processes, 1 Skill, 1 target, 2 transactions, 2 faults | `CommandsFinish`, `InterruptedChangesRecover` |
| `SkillStore_hollow` | 1 process, 1 transaction, 1 fault | a violation of `InterruptedChangesRecover` |
| `SkillStore_pending_edit` | 1 process, 1 transaction, 1 fault, 1 edit | a violation of `UserTargetsKept` |

Why the bounds are enough: a transaction only interacts with the one before it
(through the lockfile, the files and at most one journal), so two in a row cover
install over install, remove after update, and stale plans. Two faults cover a
crash of the recovery from a crash. Two processes cover a plan made by one and
changed by the other. Two Skills cover a batch that stops between them, and two
targets a Skill that is copied here and linked there.

The families:

| Run | Parts and their bounds | Properties |
| --- | --- | --- |
| `Remote` | a preparation (deadline 3 ticks, 1 retry, 1 new Resolution, 2 polls, 1 redirect, 2 downloads); the verification chain; two Skills of a Repository read directly while it changes, blobs with the tree's or other bytes; comparisons with 2 workers; listings over 3 Repositories and 2 pages | `TypesOK`, `DeliveredAsAsked`, `FilesAreTheSource`, `AnswersTheirOwn`, `Patience`, `CommandsEnd` |
| `Screens` | update, doctor, the picker of 3 Skills, the progress line | `TypesOK`, `ChangesWhatIsShown`, `OutcomesReported`, `WorkIsShown`, `KeysThatActAreListed`, `NothingStartsAfterwards`, `SelectionKept`, `TextStands`, `LeavingEnds` |
| `Screens_cursor` | the same | a violation of `CursorInViewport` |
| `Commands` | update and install of 2 Skills, the table of Agents with 1 marker, 2 manifests over 2 Skills and 2 Agents, 3 paths for the doctor, 3 commits for a session of run, the command lines, 2 processes with one account entry, 1 process with every account command, redirects and a crash; 1 or 2 changes by others | `TypesOK`, `OnlyReviewed`, `ReportsAreTrue`, `SyncKeepsAgreements`, `NothingIsLost`, `SessionsKeptApart`, `AnswersTrue`, `RotationNeverUndone` |
| `Commands_restore` | the same | a violation of `RestoreKeepsSource` |
| `Upgrade` | 1 command with 2 workers, 2 terminals and 3 releases on Unix and on Windows (2 faults each), triples of versions, 2 processes with 3 sets and 2 faults, 2 runs of the Harness with 2 faults and 2 writes of the user | `TypesOK`, `LockExcludes`, `AlwaysInstalled`, `NewerIsSemver`, `UserDecides`, `UpgradesTrue`, `ReplacedWhole` |

Why these are enough:

- *Two of a kind.* Two workers, terminals, processes, runs or manifests are what
  a lock, a counter or an agreement has to keep apart; a third takes the place of
  one of them. Two Skills show an answer given to the wrong one, and a command
  that stops between them.
- *Faults.* One fault reaches each failure path, a second one the failure of the
  clean-up of the first.
- *Counts.* Limits of the code (polls, retries, redirects, pages) are lowered to
  where one step reaches them and the next one exceeds them. `MaxChanges` of the
  environment is 1 where the command has one window (between its view and its
  commit) and 2 where it has two.
- *Versions.* The texts include numbers with a leading zero, numbers of different
  length, words, upper and lower case, and lists that are a prefix of another; a
  digit run worth more than `MaxU64` stands for one that overflows `u64`.

**Symmetry** is used for processes, accounts, workers and runs, never in a run
with a liveness property. Every property has a *Faulty* variant of a mapped
definition that violates it under the same bounds.

**Deadlock** is checked in the store's runs: a read is always possible when the
lock is free. It is off in the families: a preparation, a command, a screen or an
upgrade ends, and then nothing is left to do. That they do end is `CommandsEnd`
and `LeavingEnds`.

## 6. Fairness

- **Store.** `CommandsFinish` and `InterruptedChangesRecover` assume that the
  process that holds the lock keeps taking steps (it is a sequential program with
  no wait inside, and the operating system frees the lock of a dead one), and that
  somebody goes on using the store: the code has no daemon, recovery runs at the
  next access only. Faults, edits and writing commands are not fair; faults are
  finitely many, because an I/O error that comes back for ever lets nothing
  finish. `InterruptedChangesRecover` holds with `JournalTears = FALSE` only; see
  section 8.
- **Remote.** Weak fairness of the client of a preparation and of each worker and
  the caller of a comparison: threads that run go on, and every HTTP request has a
  timeout, so an exchange ends with an answer or without one. What the answer is,
  cancelling and signing out are not fair.
- **Screens.** Weak fairness of the loop's steps and of the worker (its requests
  have timeouts too), strong fairness of `LoopReceive`: each pass of the loop looks
  at the channel, however many keys come between. Keys are not fair, so
  `LeavingEnds` is about what happens once the user has asked to leave.
- **Commands, upgrades.** No liveness is claimed: these wait for users, browsers
  and other processes.

## 7. The proofs

TLAPS proves, for all sets of processes, runs, Skills, roots, digests, commits,
releases and commands and for all bounds:

| Theorem | Module | States |
| --- | --- | --- |
| `TypeCorrect` | `SkillStoreProofs` | `Spec => []TypeOK` |
| `InvCorrect` | | the inductive invariant `TypeOK /\ Layout /\ Progress /\ Agreement` |
| `ResidueFree`, `AgreementHolds`, `DecisionsSound` | | `Spec => []NoResidue`, `[]Agreement`, `[]DecidesOnRecoveredStore` |
| `ResultsHonest` | | `Spec => HonestResults` |
| `StrongCorrect` | | the same with `Admitted`, `Snapshots` and `OwnsTargets`, for the next three |
| `NoUpdateIsLost` | | `Spec => NoLostUpdate` |
| `UserTargetsAreKept` | | `Spec => UserTargetsKept`, if `~EditsWhilePending` |
| `StoreIsAtomic` | | `Spec => AtomicSpec`: the store implements `AtomicStore` |
| `InstalledIsWhole`, `InstalledNeverOlder`, `InstalledSaysTrue` | `UpgradeInstallProofs` | the executable is whole, and away only by a swap that died or could not be undone; it never gets older; and it changes only by an upgrade that says so |
| `UpgradeTypes`, `WorkersExcluded`, `UserHasDecided`, `ReleaseInstalled`, `UpgradesAreTrue`, `WholeIsKept`, `NewerIsAnOrder` | `UpgradeProofs` | every property of the run `Upgrade`; `ReleaseInstalled` is `Spec => AlwaysInstalled`, `NewerIsAnOrder` is `Spec => []NewerIsSemver` |
| `ConfigIsKept`, `RunsExcluded`, `SkillIsKept`, `AnswersSound` | | what `ReplacedWhole` is made of: `Config!ConfigKept`, `Harness!OneRunAtATime`, `Harness!SkillKept`, `Harness!PromotionAnswers` |
| `RemoteTypes`, `AskedIsDelivered`, `FilesAreOfTheSource`, `AnswersAreTheirOwn`, `RetriesArePatient` | `RemoteProofs` | every property of the run `Remote` but its liveness: `TypesOK`, `DeliveredAsAsked`, `FilesAreTheSource`, `AnswersTheirOwn`, `Patience` |
| `ScreenTypes`, `OutcomesAreReported`, `WorkIsOnTheScreen`, `ActingKeysAreListed`, `OnlyWhatIsShownChanges`, `NothingIsStarted`, `SelectionStays`, `TextIsNotPaintedOver` | `ScreensProofs` | every property of the run `Screens` but its liveness: `TypesOK`, `OutcomesReported`, `WorkIsShown`, `KeysThatActAreListed`, `ChangesWhatIsShown`, `NothingStartsAfterwards`, `SelectionKept`, `TextStands` |
| `AuthSafety` | `AuthSessionProofs` | types, `EntryOfItsSession`, `ExchangesOwnCode`, for any number of processes |
| `AccountsKeptApart`, `AccountAnswersTrue`, `AccountRotations` | `CommandsProofs` | `[]SessionsKeptApart`, `AnswersTrue`, `RotationNeverUndone` |
| `CommandTypes`, `CommandReports` | | `[]TypesOK`, `[]ReportsAreTrue` |
| `CommandsWriteReviewed`, `DoctorLosesNothing`, `SyncsKeepAgreements` | | `OnlyReviewed`, `[]NothingIsLost`, `SyncKeepsAgreements`: with the two rows above, every property of the run `Commands` |

**Assumptions.** Each module states in one named assumption what its constants
are: special values differ from each other and from the data, bounds are
numbers, sets that are counted or sorted are finite, commands are well formed
(`WellFormed`: an install names one Skill, a removal wants no entry, and so on).
The compositions assume those of their parts and TLC evaluates all of them in
every run; the theorems about one module have its assumption as a hypothesis.
Four say more than a shape: a commit is in its own history; a request for
targets comes with configured Agents of the table (`config.rs` keeps only what it
has parsed); what lists something lists it in an order (`VerificationAssumption`,
`DirectAssumption`); and `GitAssumption` says how Git writes the archive of a
commit, each file once with its name in its header or right before it.

**The store.** Agreement is about the store as a recovery would leave it
(`LogicalLock`, `Recovered`). Every step but two leaves that store alone
(`Unseen`, proved action by action), so Agreement can only be disturbed by
`UserEdit`, which it allows for, and by `CommitLock` (`CommitTakesEffect`). For
these two facts one has to know

- `Layout`: which slots may be full at which step, that ids tell the document
  under way from the recorded one, and that recovery goes in the direction the
  lockfile decides. Without it a rollback might meet a backup it does not know,
  or a committed document;
- `Progress`: that the running transaction writes the entries it was asked for
  (`Planned`), that its stages are what it will record (`Staging`), and that a
  swapped place holds it (`Swapping`, `Committing`). Without it the commit might
  record what is not there.

Both are proved one action at a time and were checked with TLC as invariants
first. `ResultsHonest` follows from `Layout` by looking at each way a command
can end.

**The configuration.** The invariant `ConfigInv` says, besides types, that at most
one process stands between the creation of the stage and its rename (`OneWriter`:
`create_new` of the fixed name is a lock, though nobody calls it one), and that
the stage of the one that has written it holds its whole configuration
(`Staged`). Without these, a second writer could leave a torn stage for the first
to rename.

**The Harness.** `PromotionInv` adds to the three properties that a run past
`WriteFiles` has a whole `.next` (`Prepared`) and that a run whose rename has not
happened has its files nowhere at the destination (`Unplaced`). That one run at a
time replaces the Skill rests on the lock file, which only its maker removes; a
rename over a directory that is there fails, which is why another run's or the
user's directory survives.

**The store as an atomic one.** `StoreIsAtomic` maps the store onto
`AtomicStore` by the recovered store: `CommitLock` is its commit, `UserEdit` its
edit, everything else a stutter (`Unseen` again). The abstract store decides at
the moment of its commit, the code when it writes the journal; so what `Accepts`
found there must still hold at the rename of the lockfile (`Admitted`). It does,
because no other process commits under the lock. `Snapshots` adds that a
transaction id names one document, without which a batch with a view of the
right id might be of another lockfile, and `OwnsTargets` that a pending
transaction's slots hold nothing of the user, which is what fails with
`EditsWhilePending`.

**The upgrade.** `InstallInv` is proved once for any `Windows` and instantiated
twice. Only the holder of the lock is between the look at the executable and the
swap, so what it found to be newer still is (`Newer`); and what it staged went
through both verifications (`Verified`). A place that stays empty is an action
property (`AwayOnlyInSwap`): every step that leaves nobody to fill it is looked at
(`StrandedStep`). For the check, `CheckInv` says that what
a command asks about is newer than what runs (`AskedIsNewer`), and that the
dismissal on disk is the user's last answer and each key at the prompt was
pressed there (`Answered`).

**The order of versions.** A comparison is an order if it answers `equal`, `less`
and `greater` as a total preorder does (`IsComparison`). Numbers and bytes compare
so; a comparison of sequences by the first element that decides is one when that
of the elements is (`SequencesCompared`, with the end of a shorter sequence as an
element below all others). Lifting it three times gives texts, cores and lists of
identifiers, so `is_newer` is a strict order on all release versions. That it is
semantic versioning's needs that every run of digits is a number to the code too
(`NumbersFit`): a longer one it takes for a word. That two core
numbers have the same value only if they have the same digits rests on the absence
of leading zeros (the values are unique by an induction on the digits).

**What the CLI asks of others.** `RemoteInv` has one invariant per part.

- `DeliveryInv`: only a request for a Resolution is made without one (`Resolved`), and
  the Artifact under way is of the last Resolution, at the commit that was asked for,
  and downloaded with a grant for it (`Matched`).
- `VerificationInv`: the stages that are past have held, and the files read so far are
  those the attestation declares, each once (`FilesFit`). That an accepted archive
  holds every declared file counts them: as many blocks as paths, no path twice.
- `DirectInv`: each Repository has one snapshot, of which all its Skills are
  (`OneSnapshot`). `Planned`: the plan is of the tree of that snapshot, and what has
  been read blob by blob is a beginning of the plan.
- `CompareInv`: every input is in one place of one task (`Covers`), no two workers have
  one task and none stops before the last (`WorkersApart`), each delivered task has one
  result for each of its inputs (`ResultsFit`), and the commits read so far are those of
  the pages before the next (`JobFits`).
- `ListingInv`: what has been looked up is remembered (`Remembered`), the rows
  of the pages that were read are there (`RowsRead`), each entry is awaited or stands in
  the listing (`EntriesKept`), and the listing has each Skill once (`ListedOnce`).

**The screens.** `ScreensInv` is `UpdateInv`, `DoctorInv`, `PickerInv` and `StatusInv`.
`UpdateInv` says what a model on the screen may be (`ModelOK`: the cursor and the
viewport are within the rows), how the queue, the worker and the channel stand to its
phase (`InOnePhase`: in each phase another effect is under way, known to the model), and
where a Ctrl+C is once it was typed (`UserLeft`). `DoctorInv` says the same of `doctor`:
at most one job, the one that is named (`OneUnderWay`), and a plan under review that is
the one shown, for the Skill that is marked (`UnderReview`). `PickerInv` relates the
cursor to the matches; `StatusInv` says that the line is stopped once a prompt or an
error stands on the terminal, and that a stopped line is not on it.

**The commands.** `CommandInv` is one invariant per part: a behaviour is of one
part, so a step of it keeps the invariant of that part, and nothing is claimed
of the others. What each needs beyond its types:

- `UpdateInv`: what is not edited shows the behaviours of its commit (`Pristine`);
  a pending or staged Skill is there once, with a view of a source that may be
  followed and a commit that is not the locked one (`Held`, `AskedOnce`); an
  answer is about the two commits it was asked about (`AnswersFit`); what is staged
  goes forward and asks for nothing new, if the store still is the one of its
  view (`Forward`, the condition that `StillReviewed` then finds); and the items of
  a check with what is pending are the Skills looked at (`PlanSoFar`).
- `InstallInv`: the Skills before the one at work are installed or failed, never
  both (`Progress`); what is about to be written was approved, or is a commit the
  lockfile has named (`Prepared`).
- `SyncInv`: what skilld manages is recorded (`Recorded`), the declarations in the
  lockfile agree with each other (`OwnedAgree`), and a snapshot with the store's
  transaction id is the store's, with a plan made of it (`Reads`).
- `DoctorInv`: which copies are at their paths and which in the backup, at each step
  forward and back (`Copies`), what is recorded before something moves (`Records`),
  whether the store has the Skill (`Stored`), and when a transaction may stand open
  and its recovery have taken something (`Unfinished`).
- `SessionInv`: a command that was printed or typed names the commit its approvals
  are for, and what a call has got is that commit.
- `LineInv`: nothing is written before the end, what is printed as JSON was asked for
  and has a JSON form, and an error is on stderr with a code that is not 0 before a
  notice follows.
- `TargetsInv`: the selection is of Agents of the table, and of exactly the detected ones
  when nothing was asked for or configured; each directory was written for the first
  selected Agent that reads it. About the table itself, row by row: no id twice
  (`BlocksDiffer`), only two Agents in a bare directory, and every directory of an Agent
  that is only named explicitly is also that of a detected one (`TableFits`).
- `AuthInv`: a credential that has been issued and not saved is the newest of its
  session, and one process has it (`NewestIssued`, `OneIssued`), so saving never
  goes back; and a login past its callback has its own (`OwnCode`). It is proved
  for any processes and carried over to the two settings of `Commands`.

All eight were checked with TLC as invariants of the run `Commands` before they
were proved.

What proving changed in the models: `AskSource` of `UpdateCommand` had no guard on
`pc`, so a command that had failed at one Skill could go on with it; the
invariant was not inductive until it had. Some `CASE`s had overlapping guards, of
which TLC takes the first while the meaning is any of them: they are `IF` chains
now, in the order of the code. The ustar reader was a fold over blocks, and
comparisons and listings kept their progress in places that no invariant could
name; both say now what the loop has reached.

**Induction.** The library's induction theorems take an operator as a parameter,
which the provers cannot instantiate. Where a number or a finite set has to be
exhausted, the proofs use `WFMin` instead, for a set of numbers: a smallest
counterexample is shown not to exist. So sorting (`InOrder`, `Picked`), the value of
a list of digits and the first place of an element in a list are proved, not
assumed. The lemmas on sorting are repeated in the three proof modules that use
them, so that each is read and checked on its own.

**Model-checked only**, and why:

- *Liveness* (`CommandsFinish`, `InterruptedChangesRecover`, `CommandsEnd`,
  `LeavingEnds`): it rests on fairness, which the prover cannot use.
- *What a fold computes*: the bytes of the linked files (`LinkedBytes`) are summed by
  a fold, of which the theorems say nothing; no property needs the sum.
- `UserTargetsKept` with `EditsWhilePending`, `RestoreKeepsSource`, `CursorInViewport`
  and `InterruptedChangesRecover` with `JournalTears` are false: section 8.

## 8. What the models show about the code

Four runs find a disagreement between the code and what the repository says:

- **A torn journal blocks the store** (`SkillStore_hollow`). Removing the journal
  is `remove_dir_all`: `state.json` goes before its directory. A process that
  dies between the two leaves `.skilld-transaction` without `state.json`, and
  `read_journal` (`local_store.rs:1109`) fails on every later access. `CONTEXT.md:57`
  says that interrupted changes recover from the journal. The transaction itself
  is complete at that point: `Agreement` and `NoResidue` hold there.
- **Recovery may delete a user's directory** (`SkillStore_pending_edit`). The
  rollback of an interrupted install removes whatever stands at a target that did
  not exist before (`local_store.rs:1672`), also what the user has put there
  since. `skills/skilld/references/declared-skills.md:64-66` says that existing
  unmanaged targets and directories block a sync.
- **The cursor leaves the screen of update** (`Screens_cursor`). A change of the tab
  sets the viewport to 0 (`update_ui.rs:919`) and nothing brings the cursor back into
  it; Space then toggles a row that is not drawn. The test at
  `crates/skilld-native/tests/update_ui.rs:112` says that the view keeps the cursor
  in the viewport.
- **A restore pins what followed a branch** (`Commands_restore`). `restore` prepares
  the locked commit through a selector whose ref it replaced by that commit
  (`lib.rs:3215-3229`), and the Skill's recorded source becomes that selector
  (`remote.rs:2968`); `prepare_exact` puts the original back (`remote.rs:3023`), restore
  does not. `docs/migrate-v2-to-v3.md:123` speaks of restoring the state of the
  lockfile.

What else a reader of the code may want to know, seen while modelling. The modules
allow these steps; no run is about them:

- *Store.* Two reported failures leave a transaction open (the `?` at
  `local_store.rs:465` and `:816`). The next access rolls it back, so `HonestResults`
  holds all the same.
- *Upgrade.* `is_newer` takes a run of digits that overflows `u64` for a word, which
  semantic versioning does not (`AgreesWithSemver` leaves such versions out). Two
  workers that both find a stale lock both work. A failed upgrade whose staged file
  cannot be removed leaves it (`upgrade.rs:252` says so); the next upgrade of another
  process is not in its way, one with the same process id fails once.
- *Comparisons.* A worker takes the lock of the results before it executes its task
  (`remote.rs:3157`), so one task at a time is under way whatever
  `UPDATE_CONCURRENCY` is.
- *Direct access.* A blob that was read on its own is checked by its encoding and size
  only (`remote.rs:2015-2040`), so `FilesAreTheTree` says nothing of its bytes. The
  comment on `direct_blob_files` calls this path the fallback for when "the tarball
  cannot be trusted to hold the exact tree bytes" (2013).
- *Listings.* What a Repository or a collection lists under a name that no selector can
  hold is left out without a word (2701-2710). Of one Repository, Skills whose
  spelling differs in case only are listed as two; of collections, as one.
- *Update screen.* PageUp and PageDown scroll, and `?` opens the help on a terminal too
  small to show it; neither is listed at the foot.
- *Progress line.* The answer goes to standard output, which does not stop the painter
  (`main.rs:233-237`): it may follow a frame on the same line, or have one painted into
  it. `TextStands` promises a whole answer after a prompt only, which stops the line.
- *Restore* re-installs Skill by Skill without a guard and overwrites an update that
  another process made meanwhile. *Add* counts a Skill that was written and whose
  read-back failed as failed. The command that *run* prints after an approval pins
  the commit.
- *Sync.* Two manifests that both move one shared Skill block each other, and
  removing a Skill leaves what was declared about it.
- *Doctor.* An installation that fails at the `?` of `local_store.rs:465`, or whose
  rollback fails (1158), leaves its transaction open, with a journal that says that the
  targets held nothing. The action then moves the originals back and reports a plain
  failure (`doctor_actions.rs:616-641`); the next access to the store rolls the
  transaction back and removes them (`restore_path`, 1672). `NothingIsLost` names this
  as its one exception (`taken`); it is the step that `SkillStore_pending_edit` shows.
  A write of skills.sh between the last comparison of its lockfile and the
  rename over it is lost; the backup stays after a success; a killed action is not
  recovered, the receipt says where things are.
- *Command line.* A broken pipe hides the exit code of a failure. `main.rs` writes
  besides: text on stderr, whatever `--json` says, when it cannot begin (76-83,
  111-123, 140-143), and notices after the answer (238-249). On a terminal the weekly
  notice may follow a JSON error; where stderr is piped a failure stays one document.
  A write to stderr that fails there ends skilld with 101 (`eprintln!`).
- *Add* ends at once, without its counts, when the record of a Skill that it wrote has
  become unreadable (`lib.rs:1611`).
- *Account.* A refresh saves what it was answered without looking at the keychain
  again: a late one may replace the credential of another login, or bring one back
  after a logout. `RotationNeverUndone` speaks of one session.
- *Configuration.* A `.config-stage` that a dead or failed set left behind blocks
  every later set; a reader in the gap between remove and rename gets the
  defaults; two sets at once can lose one, as each reads before it writes.
- *Harness.* The lock file of a dead run blocks later ones (`OutputBusy`); a run that
  looked before another one promoted fails at its rename; a run whose rollback
  finds a directory of the user does not say where the previous Skill lies.
- *Upgrade check.* A command records its check before it starts a worker, to stop
  duplicate workers (the comment in `before_command`, `upgrade.rs:92`). Two commands
  that both read before either records start one each all the same, and what a
  command records is the state it read, so a release that a worker found in between
  is hidden until the next check. The run of `UpgradeCheck` has one command; the
  lock keeps the workers apart.

## 9. What is not modelled

- **Store.** Hashing, parsing and validation of sources, file permissions, the
  Windows rename retry, writes by the user while a command holds the lock,
  commands that know different sets of Agents, and the replacement of an
  unrecorded canonical directory (the model has it; no property forbids it).
  Declarations are one here; several are in `SyncCommand`.
- **Sync.** Skills of one manifest with different sources; requirements are one flag.
- **Command layer.** `outdated`, which only reads; the wording of `list` and `view`; a
  source that lists one Skill name twice.
  An edit that is undone before the command looks again (update) is not told from
  none.
- **Doctor.** The scan: a walk over the disk without state of its own. Its report is
  an input of `DoctorAction` and `DoctorScreen`.
- **Remote.** Search; what is said about a failure beyond whether a retry helps; what the
  service makes of an idempotency key.
- **Authentication.** `SKILLD_TOKEN`, which bypasses all of it; PKCE values, JSON and
  HTTP framing. Cryptography is perfect everywhere.
- **Screens.** Layout, colour, wording, scrolling of the doctor's pages.
- **Harness.** Collection, validation and the Agent's turns: sequential reads and
  checks of one run.
- **Weekly notice.** One comparison of two times and a counter, which its unit tests
  enumerate, over a file that each run reads and writes without a lock: two runs at
  once may both print and count one notice; nothing in the repository promises otherwise.
- **Behaviour detection and references.** Text matching over the contents of files.
  A Skill's behaviours are an input of `UpdateCommand`, `InstallCommand` and
  `RunSession`.
- **Account and discovery commands, SDK, protocol, launcher, release scripts.**
  Single requests, data definitions and plain I/O without a protocol of their own.

## 10. What could come next

- `SyncCommand` and `UpdateCommand` over an instance of `AtomicStore` instead of their
  own atomic steps, so that `StoreIsAtomic` carries over by composition and not by
  the argument of section 4.
- Two commands at once in `UpgradeCheck`, with the duplicate workers of section 8 as a
  run of its own.
- The Agent's turns of the Harness (collection and validation), once they keep state
  between runs.
