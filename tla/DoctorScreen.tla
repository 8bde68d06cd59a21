---------------------------- MODULE DoctorScreen ----------------------------
(***************************************************************************)
(* The full screen of `skilld doctor` (native/src/doctor_ui.rs): groups of *)
(* Skills to browse, and one reviewed action at a time.  The loop starts   *)
(* jobs (a scan, a plan, an action) on threads of their own and takes      *)
(* their messages from one channel that does not say which job sent them.  *)
(*                                                                         *)
(* A report is a sequence of Skills, each with its owner and its paths.    *)
(* Messages, scrolling and drawing are left out.                           *)
(***************************************************************************)
EXTENDS Sorting, Sequences

CONSTANTS
  Reports,      \* what a scan may find
  FilterTexts,  \* what the user may type: the paths that match
  MaxJobs,      \* bound: jobs in one run
  None

ScreenAssumption ==
  /\ MaxJobs \in Nat
  /\ None \notin Reports
  /\ \A r \in Reports :
       /\ Len(r) \in Nat /\ DOMAIN r = 1..Len(r)
       /\ \A i \in DOMAIN r : /\ r[i].path # None
                            /\ IsFiniteSet(r[i].paths) /\ \A p \in r[i].paths : p.scope \in Nat
       /\ \A i, j \in DOMAIN r : r[i].path = r[j].path => i = j

Owners == <<"skills.sh", "Unknown", "Unavailable", "Duplicates", "skilld", "pnpm", "Plugin", "Source">>
Keys == {"up", "down", "left", "right", "enter", "esc", "tab", "slash", "letter", "erase", "page", "rescan",
         "migrate", "remove", "quit"}

VARIABLES
  report,      \* the last scan, or None
  selected, browse, history,
  pathFilter, filter, editingFilter, detailsFocused,
  screen,      \* "skills" or another page: help, problems, notices
  preview,     \* the plan that is shown for review, or None
  plan,        \* the plan that Enter applies, or None
  previousPath,
  work,        \* "scanning", "ready", "preparing", "applying"
  open,        \* the loop runs
  jobs,        \* the jobs that still run
  channel,     \* their messages
  typed,       \* a key that waits in the terminal while a plan is prepared, or none
  started,     \* bound counter, and the number of the next plan
  summaries,   \* numbers of the actions that are reported
  consent,     \* history: plans applied, with the preview when Enter was typed
  done         \* history: actions that ended

list == <<selected, browse, history, pathFilter, filter, editingFilter, detailsFocused, screen>>
review == <<preview, plan, previousPath>>
queues == <<jobs, channel, typed>>
past == <<started, summaries, consent, done>>
vars == <<report, list, review, work, open, queues, past>>

NoPath == None
NoKey == "none"
Root == [level |-> "owners"]

Init ==
  /\ report = None /\ selected = 1 /\ browse = Root /\ history = <<>>
  /\ pathFilter = "all" /\ filter = {} /\ editingFilter = FALSE /\ detailsFocused = FALSE
  /\ screen = "skills" /\ preview = None /\ plan = None /\ previousPath = NoPath
  /\ work = "scanning" /\ open = TRUE
  /\ jobs = {[type |-> "scan"]} /\ channel = <<>> /\ typed = NoKey
  /\ started = 1 /\ summaries = {} /\ consent = {} /\ done = {}

-----------------------------------------------------------------------------
(* Model: what is on the screen *)
InGroup(skill, owner) == IF owner = "Duplicates" THEN skill.duplicate ELSE skill.owner = owner

Locations(skill, pf) ==
  {p.scope : p \in {x \in skill.paths : CASE pf = "all" -> TRUE
                                          [] pf = "symlinks" -> x.linked
                                          [] pf = "directories" -> ~x.linked}}

Visible(r, b, pf, f) ==
  IF r = None THEN {}
  ELSE {i \in DOMAIN r :
          /\ Locations(r[i], pf) # {}
          /\ b.level # "owners" => InGroup(r[i], b.owner)
          /\ b.level = "skills" => b.location \in Locations(r[i], pf)
          /\ f = {} \/ r[i].path \in f}

(* The numbers of the owners, the scopes or the Skills to choose from, in  *)
(* the order of the screen.                                                *)
Choices(r, b, pf, f) ==
  LET visible == Visible(r, b, pf, f)
  IN CASE b.level = "owners"    -> {k \in DOMAIN Owners : \E i \in visible : InGroup(r[i], Owners[k])}
       [] b.level = "locations" -> UNION {Locations(r[i], pf) : i \in visible}
       [] b.level = "skills"    -> visible

Entries(r, b, pf, f) == InOrder(Choices(r, b, pf, f))

EntriesNow == Entries(report, browse, pathFilter, filter)
VisibleNow == Visible(report, browse, pathFilter, filter)

(* The group that an entry opens. *)
Opened(b, entry) ==
  IF b.level = "owners" THEN [level |-> "locations", owner |-> Owners[entry]]
  ELSE [level |-> "skills", owner |-> b.owner, location |-> entry]

SelectedSkill ==
  IF browse.level = "skills" /\ selected \in DOMAIN EntriesNow THEN EntriesNow[selected] ELSE 0
SelectedPath == IF SelectedSkill = 0 THEN NoPath ELSE report[SelectedSkill].path

AtLeast1(n) == IF n < 1 THEN 1 ELSE n

-----------------------------------------------------------------------------
(* Jobs, each on its own thread *)
Send(job, message) ==
  /\ jobs' = jobs \ {job} /\ channel' = Append(channel, message)
  /\ UNCHANGED <<report, list, review, work, open, typed, started, summaries, consent>>

ScanProgress ==
  /\ [type |-> "scan"] \in jobs /\ \A i \in DOMAIN channel : channel[i].type # "progress"
  /\ channel' = Append(channel, [type |-> "progress"])
  /\ UNCHANGED <<report, list, review, work, open, jobs, typed, past>>

ScanEnds ==
  \E job \in {j \in jobs : j.type = "scan"} :
    /\ \E found \in Reports \cup {None} : Send(job, [type |-> "scan", report |-> found])
    /\ UNCHANGED done

PlanEnds ==
  \E job \in {j \in jobs : j.type = "plan"}, prepared \in BOOLEAN :
    /\ Send(job, [type |-> "plan", plan |-> IF prepared THEN job.plan ELSE None])
    /\ UNCHANGED done

ActionEnds ==
  \E job \in {j \in jobs : j.type = "action"}, success \in BOOLEAN :
    /\ Send(job, [type |-> "applied", plan |-> job.plan, success |-> success])
    /\ done' = done \cup {job.plan.number}

StartScan == jobs' = jobs \cup {[type |-> "scan"]} /\ work' = "scanning" /\ started' = started + 1

-----------------------------------------------------------------------------
(* The loop takes all messages before it draws and reads a key. *)
Receives(type) == open /\ channel # <<>> /\ Head(channel).type = type /\ channel' = Tail(channel)
Quit == open' = FALSE

TakeProgress ==
  /\ Receives("progress") /\ work' = "scanning"
  /\ UNCHANGED <<report, list, review, open, jobs, typed, past>>

(* Faulty variant: each scan starts at the top of the list. *)
TakeScanAtTop ==
  /\ Receives("scan") /\ work' = "ready"
  /\ IF Head(channel).report = None THEN UNCHANGED <<report, selected, previousPath>>
     ELSE report' = Head(channel).report /\ previousPath' = NoPath /\ selected' = 1
  /\ UNCHANGED <<browse, history, pathFilter, filter, editingFilter, detailsFocused, screen, preview, plan, open, jobs, typed, past>>

TakeScan ==
  /\ Receives("scan") /\ work' = "ready"
  /\ LET found == Head(channel).report
         visible == InOrder(Visible(found, browse, pathFilter, filter))
         same == {k \in DOMAIN visible : found[visible[k]].path = previousPath}
     IN IF found = None THEN UNCHANGED <<report, selected, previousPath>>
        ELSE /\ report' = found /\ previousPath' = NoPath
             /\ selected' = IF same = {} THEN 1 ELSE CHOOSE k \in same : TRUE
  /\ UNCHANGED <<browse, history, pathFilter, filter, editingFilter, detailsFocused, screen, preview, plan, open, jobs, typed, past>>

(* Faulty variant: keys typed before the plan came are not thrown away. *)
ShowPlan ==
  /\ Receives("plan") /\ work' = "ready"
  /\ IF Head(channel).plan = None THEN UNCHANGED <<preview, plan>>
     ELSE plan' = Head(channel).plan /\ preview' = Head(channel).plan
  /\ UNCHANGED <<report, list, previousPath, open, jobs, typed, past>>

(* All keys that were typed before the plan came are thrown away, except   *)
(* that they may leave or cancel.                                          *)
TakePlan ==
  /\ Receives("plan") /\ work' = "ready"
  /\ IF Head(channel).plan = None THEN UNCHANGED <<preview, plan, open, typed>>
     ELSE IF typed = "quit" THEN Quit /\ typed' = NoKey /\ UNCHANGED <<preview, plan>>
     ELSE /\ typed' = NoKey /\ UNCHANGED open
          /\ IF typed = "esc" THEN UNCHANGED <<preview, plan>>
             ELSE plan' = Head(channel).plan /\ preview' = Head(channel).plan
  /\ UNCHANGED <<report, list, previousPath, jobs, past>>

(* A scan follows each action that was applied. *)
TakeApplied ==
  /\ open /\ channel # <<>> /\ Head(channel).type = "applied" /\ channel' = Tail(channel)
  /\ preview' = None
  /\ summaries' = summaries \cup {Head(channel).plan.number}
  /\ IF Head(channel).success THEN StartScan
     ELSE work' = "ready" /\ UNCHANGED <<jobs, started>>
  /\ UNCHANGED <<report, list, plan, previousPath, open, typed, consent, done>>

-----------------------------------------------------------------------------
(* Keys *)
(* A key that was typed before the preview could be seen is read first.    *)
Reads == open /\ channel = <<>>
Read(key) == Reads /\ typed \in {NoKey, key} /\ typed' = NoKey

EditFilter ==
  /\ editingFilter /\ selected' = 1
  /\ \/ Read("letter") /\ filter' \in FilterTexts /\ UNCHANGED editingFilter
     \/ Read("erase") /\ filter' \in FilterTexts \cup {{}} /\ UNCHANGED editingFilter
     \/ Read("esc") /\ filter' = {} /\ editingFilter' = FALSE
     \/ Read("enter") /\ editingFilter' = FALSE /\ UNCHANGED filter
     \/ Read("tab") /\ UNCHANGED <<filter, editingFilter>>   \* and all other keys
  /\ UNCHANGED <<report, browse, history, pathFilter, detailsFocused, screen, review, work, open,
                 jobs, channel, past>>

QuitKey ==
  /\ Read("quit")
  /\ open' = (work = "applying")
  /\ UNCHANGED <<report, list, review, work, jobs, channel, past>>

(* Faulty variant: keys act while a job runs. *)
TakesKeysAlways == TRUE

\* While the filter is edited, a key that comes with Control acts as well.
TakesKeys == work = "ready"

OnOtherScreen == {"esc", "up", "down", "page"}

(* Keys do nothing while a job runs, and when the terminal is smaller than *)
(* 60x18.                                                                  *)
IgnoredKey ==
  /\ \E key \in Keys \ {"quit"} : Read(key)
  /\ UNCHANGED <<report, list, review, work, open, jobs, channel, past>>

Takes(key) == Read(key) /\ TakesKeys /\ (screen = "skills" \/ key \in OnOtherScreen)

MoveSelection ==
  \E key \in {"up", "down"} :
    /\ Takes(key)
    /\ LET len == Len(EntriesNow)
       IN selected' = IF preview # None \/ detailsFocused \/ screen # "skills" \/ len = 0 THEN selected
                      ELSE IF key = "down" THEN (selected % len) + 1
                      ELSE IF selected = 1 THEN len ELSE selected - 1
    /\ UNCHANGED <<report, browse, history, pathFilter, filter, editingFilter, detailsFocused, screen, review,
                   work, open, jobs, channel, past>>

FocusDetails ==
  /\ \/ Takes("left") /\ detailsFocused' = FALSE
     \/ Takes("right") /\ detailsFocused' = TRUE
  /\ UNCHANGED <<report, selected, browse, history, pathFilter, filter, editingFilter, screen, review,
                 work, open, jobs, channel, past>>

StartFilter ==
  /\ Takes("slash") /\ editingFilter' = (preview = None)
  /\ UNCHANGED <<report, selected, browse, history, pathFilter, filter, detailsFocused, screen, review,
                 work, open, jobs, channel, past>>

NextFilter ==
  CASE pathFilter = "all" -> "symlinks" [] pathFilter = "symlinks" -> "directories" [] OTHER -> "all"

ToggleGroup ==
  /\ Takes("tab")
  /\ IF preview = None
     THEN /\ pathFilter' = NextFilter /\ browse' = Root /\ history' = <<>>
          /\ selected' = 1 /\ detailsFocused' = FALSE
     ELSE UNCHANGED list
  /\ UNCHANGED <<report, filter, editingFilter, screen, review, work, open, jobs, channel, past>>

OpenPage ==
  /\ Takes("page") /\ screen' = IF preview = None THEN "page" ELSE screen
  /\ UNCHANGED <<report, selected, browse, history, pathFilter, filter, editingFilter, detailsFocused, review,
                 work, open, jobs, channel, past>>

Parent == IF browse.level = "skills" THEN [level |-> "locations", owner |-> browse.owner] ELSE Root

LeaveGroup ==
  /\ browse' = Parent /\ detailsFocused' = FALSE
  /\ LET last == IF history = <<>> THEN 1 ELSE history[Len(history)]
         len == AtLeast1(Len(Entries(report, Parent, pathFilter, filter)))
     IN selected' = IF last > len THEN len ELSE last
  /\ history' = IF history = <<>> THEN history ELSE SubSeq(history, 1, Len(history) - 1)

Back ==
  /\ Takes("esc") /\ plan' = None
  /\ \/ screen # "skills" /\ screen' = "skills"
        /\ UNCHANGED <<preview, filter, selected, browse, history, detailsFocused>>
     \/ screen = "skills" /\ preview # None /\ preview' = None
        /\ UNCHANGED <<screen, filter, selected, browse, history, detailsFocused>>
     \/ screen = "skills" /\ preview = None /\ filter # {} /\ filter' = {}
        /\ UNCHANGED <<screen, preview, selected, browse, history, detailsFocused>>
     \/ screen = "skills" /\ preview = None /\ filter = {} /\ LeaveGroup
        /\ UNCHANGED <<screen, preview, filter>>
  /\ UNCHANGED <<report, pathFilter, editingFilter, previousPath, work, open, jobs, channel, past>>

ApplyPlan ==
  /\ Takes("enter") /\ plan # None
  /\ plan' = None /\ previousPath' = SelectedPath /\ work' = "applying"
  /\ jobs' = jobs \cup {[type |-> "action", plan |-> plan]}
  /\ consent' = consent \cup {[plan |-> plan, saw |-> IF typed = NoKey THEN preview ELSE None, selected |-> SelectedPath]}
  /\ UNCHANGED <<report, list, preview, open, channel, started, summaries, done>>

OpenGroup ==
  /\ Takes("enter") /\ plan = None
  /\ IF preview = None /\ browse.level # "skills" /\ selected \in DOMAIN EntriesNow
     THEN /\ history' = Append(history, selected) /\ browse' = Opened(browse, EntriesNow[selected])
          /\ selected' = 1 /\ detailsFocused' = FALSE
     ELSE UNCHANGED list
  /\ UNCHANGED <<report, pathFilter, filter, editingFilter, screen, review, work, open, jobs, channel, past>>

WithinJobs == started < MaxJobs

Rescan ==
  /\ Takes("rescan") /\ WithinJobs
  /\ IF preview = None
     THEN previousPath' = SelectedPath /\ StartScan
     ELSE UNCHANGED <<previousPath, jobs, work, started>>
  /\ UNCHANGED <<report, list, preview, plan, open, channel, summaries, consent, done>>

CanReviewAction == work = "ready" /\ screen = "skills" /\ preview = None /\ ~editingFilter /\ SelectedSkill # 0

MayAct(action, owner) ==
  owner = "skills.sh" \/ (owner = "Unknown" /\ action = "remove")

Prepare ==
  \E action \in {"migrate", "remove"} :
    /\ Takes(action) /\ WithinJobs
    /\ IF CanReviewAction /\ MayAct(action, report[SelectedSkill].owner)
       THEN /\ work' = "preparing" /\ started' = started + 1
            /\ jobs' = jobs \cup {[type |-> "plan",
                                   plan |-> [number |-> started, path |-> SelectedPath, action |-> action]]}
       ELSE UNCHANGED <<work, started, jobs>>
    /\ UNCHANGED <<report, list, review, open, channel, summaries, consent, done>>

-----------------------------------------------------------------------------
(* The user types while a plan is prepared.  At other times the key that   *)
(* is read is the one typed.                                               *)
Type ==
  /\ open /\ work = "preparing" /\ typed = NoKey
  /\ typed' \in {"enter", "esc", "quit"}
  /\ UNCHANGED <<report, list, review, work, open, jobs, channel, past>>

Threads == ScanEnds \/ PlanEnds \/ ActionEnds
Takings == TakeProgress \/ TakeScan \/ TakePlan \/ TakeApplied
KeyActions ==
  \/ EditFilter \/ QuitKey \/ IgnoredKey \/ MoveSelection \/ FocusDetails \/ StartFilter \/ ToggleGroup
  \/ OpenPage \/ Back \/ ApplyPlan \/ OpenGroup \/ Rescan \/ Prepare

Next == ScanProgress \/ Threads \/ Takings \/ KeyActions \/ Type

Spec == Init /\ [][Next]_vars
-----------------------------------------------------------------------------
TypeOK ==
  /\ work \in {"scanning", "ready", "preparing", "applying"}
  /\ browse.level \in {"owners", "locations", "skills"} /\ Len(history) <= 2
  /\ screen \in {"skills", "page"}
  /\ summaries \subseteq done

(* The channel does not say who sent a message, so no two jobs run, and    *)
(* the screen says which one does.                                         *)
OneJob ==
  /\ Cardinality(jobs) + Cardinality({i \in DOMAIN channel : channel[i].type # "progress"}) <= 1
  /\ open => \A job \in jobs : work = CASE job.type = "scan" -> "scanning"
                                        [] job.type = "plan" -> "preparing"
                                        [] job.type = "action" -> "applying"

(* Enter applies the plan that is shown, for the Skill that is marked, and *)
(* only when it was typed with that plan there: an Enter that was already  *)
(* waiting in the terminal confirms nothing.                               *)
AppliesWhatWasReviewed ==
  [][\A c \in consent' \ consent : c.saw = c.plan /\ c.selected = c.plan.path]_vars

(* The user cannot leave while an action moves files, and every action     *)
(* that ended is in the summaries that are printed at the end.             *)
ActionsReported ==
  ~open => /\ \A job \in jobs : job.type # "action"
           /\ {c.plan.number : c \in consent} = summaries

(* The marked entry exists, whatever scans, filters and groups come and go *)
(* (but in an empty list).                                                 *)
SelectionExists == selected \in 1..AtLeast1(Len(EntriesNow))

(* After a scan that follows another scan or an action, the Skill that was *)
(* marked before is marked again if it is still in the list.               *)
SelectionKept ==
  [][(report' # report /\ previousPath # NoPath) =>
       LET path == previousPath
       IN (\E i \in VisibleNow' : report'[i].path = path) => SelectedPath' = path]_vars

=============================================================================
