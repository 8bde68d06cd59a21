------------------------------ MODULE Commands ------------------------------
(***************************************************************************)
(* The commands of skilld, one of them per behaviour (part): update,       *)
(* install and restore, the choice of Agent targets, sync, the doctor's    *)
(* actions, sessions of run, the command line, and the account session in  *)
(* two settings: of several processes (two), and of those that run every   *)
(* command (alone).  A variable that several of the modules declare is     *)
(* shared: one part runs.  The variables of the others stay None.          *)
(***************************************************************************)
EXTENDS Naturals, Sequences

CONSTANTS
  None, Skills,
  Commits, History, UpdateAsks, Allowed, Firsts, UpdateChanges,   \* update
  Revisions, InstallAsks, AskRules, Allows, InstallChanges,       \* install: its commits are Revisions
  Scopes, Requests, MaxMarkers,                                   \* Agent targets
  Agents, Declarations, Manifests, SyncChanges,                   \* sync
  Paths, Cases, DoctorChanges,                                    \* doctor
  RunCommits, RunAsks, Kinds, MaxMoves, MaxCalls,                 \* run
  Lines,                                                          \* command line
  Crowd, Single                                                   \* the two settings of the account session:
                  \* [procs, accounts, commands, timeout, lifetime, redirects, now, sessions, gen, crashes]

VARIABLES
  part,
  lock, tid, upstream, changes, at, view, approved, local, op, answer, saved, pc, outcome,
  disk, edited, command, selection, names, looking, pending, answers, staged, items,
  listing, fetched, failures, remaining, installed, recorded,
  scope, markers, request, selected, origin, written,
  manifest, owned, required, canonical, files, run, report,
  found, action, here, receipt, foreign, copied, store, journal, taken, plan,
  head, offered, call, got, seen, agreed, printed, said, moves, calls,
  line, mode, stdout, stderr, notices, exit,
  keychain, sessions, now, crashes, cred, hops, callback, deadline, result

updateVars == <<disk, edited, command, selection, names, looking, pending, answers, staged, items>>
installVars == <<listing, fetched, failures, remaining, installed, recorded>>
targetsVars == <<scope, markers, request, selected, origin, written>>
syncVars == <<manifest, owned, required, canonical, files, run, report>>
doctorVars == <<found, action, here, receipt, foreign, copied, store, journal, taken, plan>>
sessionVars == <<head, offered, call, got, seen, agreed, printed, said, moves, calls>>
lineVars == <<line, mode, stdout, stderr, notices, exit>>
authVars == <<keychain, sessions, now, crashes, cred, hops, callback, deadline, result>>
vars == <<part, lock, tid, upstream, changes, at, view, approved, local, op, answer, saved, pc, outcome,
          updateVars, installVars, targetsVars, syncVars, doctorVars, sessionVars, lineVars, authVars>>

-----------------------------------------------------------------------------
Update == INSTANCE UpdateCommand WITH Asks <- UpdateAsks, Absent <- None, MaxChanges <- UpdateChanges

Install == INSTANCE InstallCommand WITH
             Commits <- Revisions, Asks <- InstallAsks, Absent <- None, MaxChanges <- InstallChanges

Targets == INSTANCE AgentTargets

Sync == INSTANCE SyncCommand WITH Absent <- None, MaxChanges <- SyncChanges

Doctor == INSTANCE DoctorAction WITH Absent <- None, MaxChanges <- DoctorChanges

Session == INSTANCE RunSession WITH Commits <- RunCommits, Asks <- RunAsks, Absent <- None

Line == INSTANCE CommandLine

Two == INSTANCE AuthSession WITH
         Procs <- Crowd.procs, Accounts <- Crowd.accounts, Commands <- Crowd.commands,
         CallbackTimeout <- Crowd.timeout, Lifetime <- Crowd.lifetime, MaxRedirects <- Crowd.redirects,
         MaxNow <- Crowd.now, MaxSessions <- Crowd.sessions, MaxGen <- Crowd.gen, MaxCrashes <- Crowd.crashes

Alone == INSTANCE AuthSession WITH
           Procs <- Single.procs, Accounts <- Single.accounts, Commands <- Single.commands,
           CallbackTimeout <- Single.timeout, Lifetime <- Single.lifetime, MaxRedirects <- Single.redirects,
           MaxNow <- Single.now, MaxSessions <- Single.sessions, MaxGen <- Single.gen, MaxCrashes <- Single.crashes

ASSUME UpdateAssumption == Update!UpdateAssumption
ASSUME InstallAssumption == Install!InstallAssumption
ASSUME TargetsAssumption == Targets!TargetsAssumption
ASSUME SyncAssumption == Sync!SyncAssumption
ASSUME DoctorAssumption == Doctor!DoctorAssumption
ASSUME RunAssumption == Session!RunAssumption
ASSUME LinesAssumption == Line!LinesAssumption
ASSUME AuthAssumption == Two!AuthAssumption /\ Alone!AuthAssumption

-----------------------------------------------------------------------------
NoUpdate ==
  /\ disk = None /\ edited = None /\ command = None /\ selection = None /\ names = None
  /\ looking = None /\ pending = None /\ answers = None /\ staged = None /\ items = None
NoInstall ==
  /\ listing = None /\ fetched = None /\ failures = None /\ remaining = None /\ installed = None /\ recorded = None
NoTargets ==
  scope = None /\ markers = None /\ request = None /\ selected = None /\ origin = None /\ written = None
NoSync ==
  /\ manifest = None /\ owned = None /\ required = None /\ canonical = None /\ files = None
  /\ run = None /\ report = None
NoDoctor ==
  /\ found = None /\ action = None /\ here = None /\ receipt = None /\ foreign = None
  /\ copied = None /\ store = None /\ journal = None /\ taken = None /\ plan = None
NoSession ==
  /\ head = None /\ offered = None /\ call = None /\ got = None /\ seen = None /\ agreed = None
  /\ printed = None /\ said = None /\ moves = None /\ calls = None
NoLine == line = None /\ mode = None /\ stdout = None /\ stderr = None /\ notices = None /\ exit = None
NoAuth ==
  /\ keychain = None /\ sessions = None /\ now = None /\ crashes = None /\ cred = None /\ hops = None
  /\ callback = None /\ deadline = None /\ result = None

NoCommit == tid = None
NoView == upstream = None /\ view = None /\ approved = None
NoStep == pc = None
NoPlace == at = None /\ outcome = None

InitUpdate ==
  /\ part = "update" /\ Update!Init
  /\ local = None /\ op = None /\ answer = None /\ saved = None
  /\ NoInstall /\ NoTargets /\ NoSync /\ NoDoctor /\ NoSession /\ NoLine /\ NoAuth

InitInstall ==
  /\ part = "install" /\ Install!Init
  /\ NoCommit /\ local = None /\ answer = None /\ saved = None
  /\ NoUpdate /\ NoTargets /\ NoSync /\ NoDoctor /\ NoSession /\ NoLine /\ NoAuth

InitTargets ==
  /\ part = "targets" /\ Targets!Init
  /\ lock = None /\ NoCommit /\ changes = None /\ NoView /\ NoPlace
  /\ local = None /\ op = None /\ answer = None /\ saved = None
  /\ NoUpdate /\ NoInstall /\ NoSync /\ NoDoctor /\ NoSession /\ NoLine /\ NoAuth

InitSync ==
  /\ part = "sync" /\ Sync!Init
  /\ NoView /\ NoPlace /\ NoStep /\ op = None /\ answer = None /\ saved = None
  /\ NoUpdate /\ NoInstall /\ NoTargets /\ NoDoctor /\ NoSession /\ NoLine /\ NoAuth

InitDoctor ==
  /\ part = "doctor" /\ Doctor!Init
  /\ lock = None /\ NoCommit /\ NoView /\ local = None /\ op = None /\ answer = None
  /\ NoUpdate /\ NoInstall /\ NoTargets /\ NoSync /\ NoSession /\ NoLine /\ NoAuth

InitSession ==
  /\ part = "session" /\ Session!Init
  /\ lock = None /\ NoCommit /\ changes = None /\ NoView /\ NoPlace /\ NoStep
  /\ op = None /\ answer = None /\ saved = None
  /\ NoUpdate /\ NoInstall /\ NoTargets /\ NoSync /\ NoDoctor /\ NoLine /\ NoAuth

InitLine ==
  /\ part = "line" /\ Line!Init
  /\ lock = None /\ NoCommit /\ changes = None /\ NoView /\ NoPlace /\ local = None /\ op = None /\ saved = None
  /\ NoUpdate /\ NoInstall /\ NoTargets /\ NoSync /\ NoDoctor /\ NoSession /\ NoAuth

InitAuth ==
  /\ (part = "two" /\ Two!Init) \/ (part = "alone" /\ Alone!Init)
  /\ lock = None /\ NoCommit /\ changes = None /\ NoView /\ NoPlace /\ local = None
  /\ NoUpdate /\ NoInstall /\ NoTargets /\ NoSync /\ NoDoctor /\ NoSession /\ NoLine

Init ==
  InitUpdate \/ InitInstall \/ InitTargets \/ InitSync \/ InitDoctor \/ InitSession \/ InitLine \/ InitAuth

-----------------------------------------------------------------------------
Next ==
  \/ /\ part = "update" /\ Update!Next
     /\ UNCHANGED <<part, local, op, answer, saved,
                    installVars, targetsVars, syncVars, doctorVars, sessionVars, lineVars, authVars>>
  \/ /\ part = "install" /\ Install!Next
     /\ UNCHANGED <<part, tid, local, answer, saved,
                    updateVars, targetsVars, syncVars, doctorVars, sessionVars, lineVars, authVars>>
  \/ /\ part = "targets" /\ Targets!Next
     /\ UNCHANGED <<part, lock, tid, upstream, changes, at, view, approved, local, op, answer, saved, outcome,
                    updateVars, installVars, syncVars, doctorVars, sessionVars, lineVars, authVars>>
  \/ /\ part = "sync" /\ Sync!Next
     /\ UNCHANGED <<part, upstream, at, view, approved, op, answer, saved, pc, outcome,
                    updateVars, installVars, targetsVars, doctorVars, sessionVars, lineVars, authVars>>
  \/ /\ part = "doctor" /\ Doctor!Next
     /\ UNCHANGED <<part, lock, tid, upstream, view, approved, local, op, answer,
                    updateVars, installVars, targetsVars, syncVars, sessionVars, lineVars, authVars>>
  \/ /\ part = "session" /\ Session!Next
     /\ UNCHANGED <<part, lock, tid, upstream, changes, at, view, approved, op, answer, saved, pc, outcome,
                    updateVars, installVars, targetsVars, syncVars, doctorVars, lineVars, authVars>>
  \/ /\ part = "line" /\ Line!Next
     /\ UNCHANGED <<part, lock, tid, upstream, changes, at, view, approved, local, op, saved, outcome,
                    updateVars, installVars, targetsVars, syncVars, doctorVars, sessionVars, authVars>>
  \/ /\ (part = "two" /\ Two!Next) \/ (part = "alone" /\ Alone!Next)
     /\ UNCHANGED <<part, lock, tid, upstream, changes, at, view, approved, local, outcome,
                    updateVars, installVars, targetsVars, syncVars, doctorVars, sessionVars, lineVars>>

Spec == Init /\ [][Next]_vars

-----------------------------------------------------------------------------
TypesOK ==
  CASE part = "update"  -> Update!TypeOK
    [] part = "install" -> Install!TypeOK
    [] part = "targets" -> Targets!TypeOK
    [] part = "sync"    -> Sync!TypeOK
    [] part = "doctor"  -> Doctor!TypeOK
    [] part = "session" -> Session!TypeOK
    [] part = "line"    -> Line!TypeOK
    [] part = "two"     -> Two!TypeOK
    [] part = "alone"   -> Alone!TypeOK

(* Nothing is installed or loaded but what the user approved, as it was    *)
(* approved: an update goes forward from the reviewed files and says what  *)
(* it wrote; an install and a restore write the approved behaviours, the   *)
(* locked commits and what --direct asked for.                             *)
OnlyReviewed ==
  [][/\ part = "update" => Update!ForwardOnly /\ Update!SaysWhatItDid
     /\ part = "install" => Install!OnlyApproved]_vars

(* What the commands report is so: the plan of a check, the counts of add, *)
(* the Agents that are served, what a session of run gave the Agent, the   *)
(* exit code, and the JSON that was asked for.                             *)
ReportsAreTrue ==
  /\ part = "update" => Update!PlanIsTrue
  /\ part = "install" => Install!ReportComplete
  /\ part = "targets" => Targets!TargetsServed /\ Targets!BareSelectsNothing
  /\ part = "session" => Session!GivenAsApproved
  /\ part = "line" => Line!ExitIsTrue /\ Line!JsonIsJson

(* A sync that commits honours every declaration of its Skills, leaves     *)
(* nothing for the next sync, and writes over no file of the user.         *)
SyncKeepsAgreements ==
  [][part = "sync" => Sync!DeclarationsHonoured /\ Sync!SyncSettles /\ Sync!KeepsUserFiles]_vars

(* No action of the doctor loses a copy of a Skill, whichever step fails   *)
(* or is the last, but to the recovery of an installation that failed and  *)
(* left its transaction open; the Skill's record leaves the lockfile of    *)
(* skills.sh with a copy in the backup (what skills.sh writes just before  *)
(* the lockfile is replaced is not kept); and the answer says whether      *)
(* something is left to recover.                                           *)
NothingIsLost == part = "doctor" => Doctor!NothingIsLost /\ Doctor!DoctorAnswers

(* A restore puts the Skills of the lockfile back as they were recorded,   *)
(* and their sources stay what they were.                                  *)
RestoreKeepsSource == [][part = "install" => Install!RestoreKeepsSource]_vars

(* Whatever the service answers and however refreshes, logins and logouts  *)
(* of several processes interleave, the entry names the account that its   *)
(* session belongs to; and a code is exchanged only if it came with this   *)
(* login's own state, to its own port.                                     *)
SessionsKeptApart ==
  /\ part = "two" => Two!EntryOfItsSession /\ Two!ExchangesOwnCode
  /\ part = "alone" => Alone!EntryOfItsSession /\ Alone!ExchangesOwnCode

(* The browser and the user are told what happened: "signed in" only after *)
(* the credential has been saved, signed out only when the session was     *)
(* revoked and the keychain is empty, and public access never hides a      *)
(* refresh that failed.                                                    *)
AnswersTrue ==
  [][/\ part = "two" => Two!RepliesTrue /\ Two!LogoutTrue /\ Two!RefreshFailureShown
     /\ part = "alone" => Alone!RepliesTrue /\ Alone!LogoutTrue /\ Alone!RefreshFailureShown]_vars

(* A refresh token of a session that was in the keychain and has been      *)
(* replaced never comes back: no process undoes another's rotation of it.  *)
(* (The credential of another session may be written over.)                *)
RotationNeverUndone ==
  [][/\ part = "two" => Two!RotationNeverUndone
     /\ part = "alone" => Alone!RotationNeverUndone]_vars
=============================================================================
