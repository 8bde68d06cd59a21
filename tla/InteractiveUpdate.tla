-------------------------- MODULE InteractiveUpdate --------------------------
(***************************************************************************)
(* The full screen of `skilld update` (native/src/update_ui.rs): a model   *)
(* that update turns into the next one for each message, a queue of        *)
(* effects, one worker thread for the effect under way, and the loop that  *)
(* joins them (run_event_loop).                                            *)
(*                                                                         *)
(* The host is CommandInteractiveUpdateHost.  The plan of the service is   *)
(* whatever it is at each load; Skills are numbered in the order of their  *)
(* names.  What is drawn is left out but for the lines it takes.           *)
(***************************************************************************)
EXTENDS Sorting, Sequences

CONSTANTS
  Skills,        \* the managed Skills, a set of numbers
  Comparisons,   \* commit ranges; two Skills of one repository may share one
  PageLines,     \* the lines of the commits of each range
  Sizes,         \* of the terminal, [width, height]
  MaxLoads,      \* bound: update plans loaded in one run
  None

UpdateAssumption ==
  /\ IsFiniteSet(Skills) /\ Skills \subseteq Nat /\ MaxLoads \in Nat
  /\ PageLines \in [Comparisons -> Nat] /\ None \notin Comparisons
  /\ \A s \in Sizes : s.width \in Nat \ {0} /\ s.height \in Nat \ {0}

Keys == {"up", "down", "pageUp", "pageDown", "nextTab", "previousTab", "select", "selectAll", "apply",
         "retry", "help", "cancel", "interrupt"}

VARIABLES
  model,
  queue,       \* effects still to start
  running,     \* "none", "load" or "apply": the effect the worker has
  work,        \* that effect
  channel,     \* the message of the worker, or NoMessage
  interruptAfterApply,
  plan,        \* CachedInteractivePlan: its number, and the Skills to update
  poisoned,    \* a worker died with the lock of the plan
  exit,        \* the summary that the loop returned
  applied,     \* history: names and plan number handed to update_selected
  loads,       \* bound counter
  interrupted, \* history: Ctrl+C was pressed
  leaving      \* history: the user gave up before any Skill was to be updated

vars == <<model, queue, running, work, channel, interruptAfterApply, plan, poisoned, exit, applied,
          loads, interrupted, leaving>>

NoMessage == [type |-> "none"]
NoEffect == [type |-> "none"]
LoadCandidates == [type |-> "loadCandidates"]
LoadCommits(ids) == [type |-> "loadCommits", ids |-> ids]
ApplyNames(names) == [type |-> "apply", names |-> names]
Exit(summary) == [type |-> "exit", summary |-> summary]

Summary(updated, failed, cancelled, byInterrupt) ==
  [updated |-> updated, failed |-> failed, cancelled |-> cancelled, interrupted |-> byInterrupt]
NotYet == Summary(0, 0, FALSE, FALSE)
ExitCode(summary) ==
  IF summary.interrupted THEN 130 ELSE IF summary.failed > 0 THEN 2 ELSE 0

Minimum(a, b) == IF a <= b THEN a ELSE b
Maximum(a, b) == IF a >= b THEN a ELSE b
Minus(a, b) == Maximum(a - b, 0)   \* saturating_sub

Init ==
  /\ \E s \in Sizes :
       model = [tab |-> "outdated", phase |-> "loading", rows |-> <<>>, commits |-> <<>>, cursor |-> 0,
                viewport |-> 0, width |-> s.width, height |-> s.height, help |-> FALSE]
  /\ queue = <<LoadCandidates>> /\ running = "none" /\ work = NoEffect /\ channel = NoMessage
  /\ interruptAfterApply = FALSE
  /\ plan = [number |-> 0, items |-> {}] /\ poisoned = FALSE
  /\ exit = NotYet /\ applied = [names |-> {}, number |-> 0] /\ loads = 0
  /\ interrupted = FALSE /\ leaving = FALSE

-----------------------------------------------------------------------------
(* Model *)
Available(row) == row.comparison # None
Rows(m) == {m.rows[i] : i \in DOMAIN m.rows}
SelectedNames(m) == {r.name : r \in {x \in Rows(m) : x.selected}}
ComparisonIds(rows) == {rows[i].comparison : i \in DOMAIN rows} \ {None}
CommitIds(m, state) == {id \in DOMAIN m.commits : m.commits[id] = state}

VisibleOutdatedRows(m) ==
  LET body == Maximum(m.height - 7, 1)
  IN IF m.width >= 60 THEN Maximum(body \div 2, 1) ELSE body

KeepCursorVisible(m) ==
  LET visible == VisibleOutdatedRows(m)
  IN IF m.cursor < m.viewport THEN [m EXCEPT !.viewport = m.cursor]
     ELSE IF m.cursor >= m.viewport + visible THEN [m EXCEPT !.viewport = Minus(m.cursor + 1, visible)]
     ELSE m

(* Each range takes its heading, its commits or one line of status, and an *)
(* empty line.                                                             *)
LinesOf(m, id) == {id} \X (1..(2 + IF m.commits[id] = "ready" THEN PageLines[id] ELSE 1))
CommitLineCount(m) == Cardinality(UNION {LinesOf(m, id) : id \in DOMAIN m.commits})

KeepCommitViewportValid(m) ==
  LET visible == Maximum(m.height - 9, 1)
  IN [m EXCEPT !.viewport = Minimum(@, Minus(CommitLineCount(m), visible))]

-----------------------------------------------------------------------------
(* update_key: the transition of a model, with the effects it asks for. *)
To(m, effects) == [model |-> m, effects |-> effects]
Small(m) == m.width < 20 \/ m.height < 7

MarkLoading(m, ids) ==
  [m EXCEPT !.commits = [id \in DOMAIN @ |-> IF id \in ids THEN "loading" ELSE @[id]]]

RequestCommits(m, ids) ==
  To(MarkLoading(m, ids), IF ids = {} THEN <<>> ELSE <<LoadCommits(ids)>>)

GiveUp(m, key) ==
  To([m EXCEPT !.phase = IF @ = "applying" THEN @ ELSE "finished"],
     <<Exit(Summary(0, 0, TRUE, key = "interrupt"))>>)

SwitchTab(m) ==
  LET other == [m EXCEPT !.tab = IF @ = "outdated" THEN "commits" ELSE "outdated", !.viewport = 0]
  IN IF other.tab = "commits" THEN RequestCommits(other, CommitIds(m, "not requested"))
     ELSE To(other, <<>>)

MoveCursor(m, key) ==
  KeepCursorVisible([m EXCEPT !.cursor = IF key = "up" THEN Minus(@, 1)
                                         ELSE Minimum(@ + 1, Minus(Len(m.rows), 1))])

Scroll(m, key) ==
  LET step == IF key \in {"up", "down"} THEN 1 ELSE Maximum(m.height, 1)
  IN IF key \in {"up", "pageUp"} THEN [m EXCEPT !.viewport = Minus(@, step)]
     ELSE KeepCommitViewportValid([m EXCEPT !.viewport = @ + step])

ToggleSelected(m) ==
  IF m.cursor < Len(m.rows) /\ Available(m.rows[m.cursor + 1])
  THEN [m EXCEPT !.rows[m.cursor + 1].selected = ~@] ELSE m

SelectAll(m) ==
  [m EXCEPT !.rows = [i \in DOMAIN @ |-> [@[i] EXCEPT !.selected = Available(m.rows[i])]]]

ApplySelected(m) ==
  IF SelectedNames(m) = {} THEN To(m, <<>>)
  ELSE To([m EXCEPT !.phase = "applying"], <<ApplyNames(SelectedNames(m))>>)

Reload(m) == To([m EXCEPT !.phase = "loading"], <<LoadCandidates>>)

OutdatedKey(m, key) ==
  CASE key \in {"up", "down"} -> To(MoveCursor(m, key), <<>>)
    [] key = "select"         -> To(ToggleSelected(m), <<>>)
    [] key = "selectAll"      -> To(SelectAll(m), <<>>)
    [] key = "apply"          -> ApplySelected(m)
    [] key = "retry" /\ (\E r \in Rows(m) : ~Available(r)) -> Reload(m)
    [] OTHER                  -> To(m, <<>>)

CommitsKey(m, key) ==
  CASE key \in {"up", "down", "pageUp", "pageDown"} -> To(Scroll(m, key), <<>>)
    [] key = "retry" -> RequestCommits(m, CommitIds(m, "failed"))
    [] OTHER         -> To(m, <<>>)

(* Faulty variant: a key acts on the rows of a plan that is being          *)
(* replaced.                                                               *)
KeyInAnyPhase(m, key) ==
  IF key \in {"cancel", "interrupt"} THEN GiveUp(m, key)
  ELSE IF m.tab = "outdated" THEN OutdatedKey(m, key) ELSE CommitsKey(m, key)

UpdateKey(m, key) ==
  IF key \in {"cancel", "interrupt"} /\ m.phase # "finished" THEN GiveUp(m, key)
  ELSE IF key = "help" THEN To([m EXCEPT !.help = ~@], <<>>)
  ELSE IF Small(m) THEN To(m, <<>>)
  ELSE IF m.phase = "failed" THEN IF key = "retry" THEN Reload(m) ELSE To(m, <<>>)
  ELSE IF m.phase # "browsing" THEN To(m, <<>>)
  ELSE IF key \in {"nextTab", "previousTab"} THEN SwitchTab(m)
  ELSE IF m.tab = "outdated" THEN OutdatedKey(m, key)
  ELSE CommitsKey(m, key)

-----------------------------------------------------------------------------
(* update: the messages of the worker and of the terminal. *)
RowsOf(candidates) ==
  LET names == InOrder(DOMAIN candidates)
  IN [i \in DOMAIN names |-> [name |-> names[i], comparison |-> candidates[names[i]],
                              selected |-> candidates[names[i]] # None]]

CandidatesLoaded(m, candidates) ==
  LET rows == RowsOf(candidates)
      loaded == [m EXCEPT !.rows = rows, !.cursor = 0, !.viewport = 0,
                          !.commits = [id \in ComparisonIds(rows) |-> "not requested"]]
  IN IF rows = <<>> THEN To([loaded EXCEPT !.phase = "finished"], <<Exit(NotYet)>>)
     ELSE To([loaded EXCEPT !.phase = "browsing"], <<>>)

CommitsLoaded(m, results) ==
  To(KeepCommitViewportValid(
       [m EXCEPT !.commits = [id \in DOMAIN @ |-> IF id \in DOMAIN results THEN results[id] ELSE @[id]]]), <<>>)

Applied(m, updated, failed) ==
  To([m EXCEPT !.phase = "finished"], <<Exit(Summary(updated, failed, FALSE, FALSE))>>)

Update(m, message) ==
  CASE message.type = "candidates" -> CandidatesLoaded(m, message.candidates)
    [] message.type = "loadFailed" -> To([m EXCEPT !.phase = "failed"], <<>>)
    [] message.type = "commits"    -> CommitsLoaded(m, message.results)
    [] message.type = "applied"    -> Applied(m, message.updated, message.failed)

Resized(m, size) ==
  LET resized == [m EXCEPT !.width = size.width, !.height = size.height]
  IN IF m.tab = "outdated" THEN KeepCursorVisible(resized) ELSE KeepCommitViewportValid(resized)

-----------------------------------------------------------------------------
(* The worker: resolve_effect, with failed_effect when it panics.          *)
(* prepare_interactive_plan: a Skill with a newer commit is a candidate    *)
(* with its range, or without one when its history is missing; one behind, *)
(* diverged or unreadable is shown as unavailable; others are not shown.   *)
Relations == Comparisons \cup {"no history", "unavailable", "not listed"}
Candidates(relation) ==
  [name \in {s \in Skills : relation[s] # "not listed"} |->
     IF relation[name] \in Comparisons THEN relation[name] ELSE None]
PlanItems(relation) == {s \in Skills : relation[s] \in Comparisons \cup {"no history"}}

Answer(message) == channel' = message /\ work' = NoEffect

WorkLoadCandidates ==
  /\ work.type = "loadCandidates"
  /\ loads' = loads + 1
  /\ \/ \E relation \in [Skills -> Relations] :
          /\ ~poisoned
          /\ plan' = [number |-> loads', items |-> PlanItems(relation)]
          /\ Answer([type |-> "candidates", candidates |-> Candidates(relation)])
     \/ UNCHANGED plan /\ Answer([type |-> "loadFailed"])   \* or the lock is poisoned, or the worker stopped
  /\ UNCHANGED <<model, queue, running, interruptAfterApply, poisoned, exit, applied, interrupted, leaving>>

WorkLoadCommits ==
  /\ work.type = "loadCommits"
  /\ \/ ~poisoned /\ UNCHANGED poisoned
        /\ Answer([type |-> "commits", results |-> [id \in work.ids |-> "ready"]])
     \/ poisoned' = TRUE   \* the worker stops while it has the plan
        /\ Answer([type |-> "commits", results |-> [id \in work.ids |-> "failed"]])
  /\ UNCHANGED <<model, queue, running, interruptAfterApply, plan, exit, applied, loads, interrupted, leaving>>

(* All the names are looked up before any Skill is updated, and one result *)
(* stands for all of them.                                                 *)
WorkApply ==
  /\ work.type = "apply"
  /\ LET n == Cardinality(work.names)
         failed == [type |-> "applied", updated |-> 0, failed |-> n]
     IN IF ~poisoned /\ work.names \subseteq plan.items
        THEN /\ applied' = [names |-> work.names, number |-> plan.number]
             /\ Answer([type |-> "applied", updated |-> n, failed |-> 0]) \/ Answer(failed)
        ELSE Answer(failed) /\ UNCHANGED applied
  /\ UNCHANGED <<model, queue, running, interruptAfterApply, plan, poisoned, exit, loads, interrupted, leaving>>

-----------------------------------------------------------------------------
(* run_event_loop *)
InLoop == exit = NotYet /\ model.phase # "closed"
ExitFirst == queue # <<>> /\ Head(queue).type = "exit"

(* Faulty variant: the effects in the queue are kept when the run ends. *)
KeepQueued(effects) == queue \o effects

Enqueue(effects) ==
  IF \E i \in DOMAIN effects : effects[i].type = "exit" THEN effects ELSE queue \o effects

Close(summary) == exit' = summary /\ model' = [model EXCEPT !.phase = "closed"]

(* Faulty variant: the last key decides whether the user interrupted. *)
ForgetInterrupt ==
  /\ InLoop /\ ExitFirst
  /\ queue' = Tail(queue)
  /\ IF running = "apply"
     THEN interruptAfterApply' = Head(queue).summary.interrupted /\ UNCHANGED <<exit, model>>
     ELSE Close(Head(queue).summary) /\ UNCHANGED interruptAfterApply
  /\ UNCHANGED <<running, work, channel, plan, poisoned, applied, loads, interrupted, leaving>>

(* Faulty variant: a run that loads goes on after the user left. *)
WaitForAnyWorker ==
  /\ InLoop /\ ExitFirst
  /\ queue' = Tail(queue)
  /\ IF running # "none" THEN UNCHANGED <<exit, model>> ELSE Close(Head(queue).summary)
  /\ UNCHANGED <<running, work, channel, interruptAfterApply, plan, poisoned, applied, loads,
                 interrupted, leaving>>

LoopExit ==
  /\ InLoop /\ ExitFirst
  /\ queue' = Tail(queue)
  /\ IF running = "apply"
     THEN /\ interruptAfterApply' = (interruptAfterApply \/ Head(queue).summary.interrupted)
          /\ UNCHANGED <<exit, model>>
     ELSE Close(Head(queue).summary) /\ UNCHANGED interruptAfterApply
  /\ UNCHANGED <<running, work, channel, plan, poisoned, applied, loads, interrupted, leaving>>

(* mark_interrupted *)
Marked(effects) ==
  IF interruptAfterApply
  THEN [i \in DOMAIN effects |-> IF effects[i].type = "exit"
                                 THEN [effects[i] EXCEPT !.summary.interrupted = TRUE] ELSE effects[i]]
  ELSE effects

LoopReceive ==
  /\ InLoop /\ ~ExitFirst /\ channel # NoMessage
  /\ LET next == Update(model, channel)
     IN model' = next.model /\ queue' = Enqueue(Marked(next.effects))
  /\ running' = "none" /\ channel' = NoMessage /\ interruptAfterApply' = FALSE
  /\ UNCHANGED <<work, plan, poisoned, exit, applied, loads, interrupted, leaving>>

LoopStart ==
  /\ InLoop /\ ~ExitFirst /\ running = "none" /\ queue # <<>>
  /\ running' = IF Head(queue).type = "apply" THEN "apply" ELSE "load"
  /\ work' = Head(queue) /\ queue' = Tail(queue)
  /\ UNCHANGED <<model, channel, interruptAfterApply, plan, poisoned, exit, applied, loads, interrupted, leaving>>

LoopReads == InLoop /\ ~ExitFirst /\ (running # "none" \/ queue = <<>>)

(* bound: no more plans are asked for than MaxLoads *)
WithinLoads(key) == key = "retry" => loads + Cardinality({i \in DOMAIN queue : queue[i] = LoadCandidates}) < MaxLoads

LoopKey(key) ==
  /\ LoopReads /\ WithinLoads(key)
  /\ LET next == UpdateKey(model, key)
     IN model' = next.model /\ queue' = Enqueue(next.effects)
  /\ interrupted' = (interrupted \/ key = "interrupt")
  /\ leaving' = (leaving \/ (key \in {"cancel", "interrupt"} /\ running # "apply"))
  /\ UNCHANGED <<running, work, channel, interruptAfterApply, plan, poisoned, exit, applied, loads>>

LoopResize ==
  /\ LoopReads
  /\ \E size \in Sizes : model' = Resized(model, size)
  /\ UNCHANGED <<queue, running, work, channel, interruptAfterApply, plan, poisoned, exit, applied, loads,
                 interrupted, leaving>>

Worker == WorkLoadCandidates \/ WorkLoadCommits \/ WorkApply
Loop == LoopExit \/ LoopReceive \/ LoopStart

Next == Worker \/ Loop \/ LoopResize \/ \E key \in Keys : LoopKey(key)

Spec == Init /\ [][Next]_vars

(* The loop always goes on, and looks at its channel in each pass (the     *)
(* strong fairness); a worker answers: its requests have timeouts.         *)
FairSpec == Spec /\ WF_vars(LoopExit) /\ SF_vars(LoopReceive) /\ WF_vars(LoopStart) /\ WF_vars(Worker)

-----------------------------------------------------------------------------
Phases == {"loading", "browsing", "applying", "failed", "finished", "closed"}

TypeOK ==
  /\ model.phase \in Phases /\ model.tab \in {"outdated", "commits"}
  /\ model.cursor \in 0..Minus(Len(model.rows), 1)
  /\ model.viewport \in 0..Maximum(Len(model.rows), CommitLineCount(model))
  /\ \A id \in DOMAIN model.commits : model.commits[id] \in {"not requested", "loading", "ready", "failed"}
  /\ running = "none" <=> work = NoEffect /\ channel = NoMessage
  /\ \A i \in DOMAIN queue : queue[i].type = "exit" => i = Len(queue)

(* What the worker updates is what the screen shows as selected, and the   *)
(* commits it takes are those of the plan on the screen (apply: "needs     *)
(* another commit review").                                                *)
AppliesWhatIsShown ==
  [][applied' # applied => /\ applied'.names = SelectedNames(model)
                           /\ applied'.number = loads]_vars

(* Each Skill handed to the update has its result in the summary: a run    *)
(* that updated one never reports that it was cancelled or had no work.    *)
ResultsComplete ==
  (model.phase = "closed" /\ applied.names # {}) =>
    exit.updated + exit.failed = Cardinality(applied.names)

(* A Ctrl+C is in the exit code, also when the update that was under way   *)
(* went on to its end and however many keys followed.                      *)
InterruptKept == (model.phase = "closed" /\ interrupted) => ExitCode(exit) = 130

(* After the user gave up, no effect starts, in particular no update that  *)
(* waited in the queue behind a load.                                      *)
NothingStartsAfterwards == [][leaving => work' \in {work, NoEffect}]_vars

(* A range is shown as loading only while a request for it is under way:   *)
(* no reload and no change of the tab leaves a spinner for good.           *)
LoadingIsUnderWay ==
  \A id \in CommitIds(model, "loading") :
    model.phase \notin {"finished", "closed"} =>
      \/ \E i \in DOMAIN queue : queue[i].type = "loadCommits" /\ id \in queue[i].ids
      \/ work.type = "loadCommits" /\ id \in work.ids
      \/ channel.type = "commits" /\ id \in DOMAIN channel.results

(* The keys that are listed at the foot of the screen; a terminal that is  *)
(* too small shows one only.                                               *)
Bindings(m) ==
  IF Small(m) THEN {"cancel"} ELSE {"help", "cancel"} \cup
  CASE m.phase = "failed" -> {"retry"}
    [] m.phase = "browsing" /\ m.tab = "outdated" ->
         {"up", "down", "select", "selectAll", "nextTab", "previousTab", "apply"}
           \cup IF \E r \in Rows(m) : ~Available(r) THEN {"retry"} ELSE {}
    [] m.phase = "browsing" /\ m.tab = "commits" ->
         {"up", "down", "nextTab", "previousTab"}
           \cup IF CommitIds(m, "failed") # {} THEN {"retry"} ELSE {}
    [] OTHER -> {}

(* A key that is not listed, Ctrl+C apart, starts no work and changes no   *)
(* row, tab or phase: it scrolls (PageUp and PageDown) or shows the help   *)
(* (on a terminal that is too small).                                      *)
OnlyShows(m, to) ==
  /\ to.effects = <<>>
  /\ to.model = [m EXCEPT !.viewport = to.model.viewport, !.help = to.model.help]

KeysThatActAreListed ==
  \A key \in Keys \ (Bindings(model) \cup {"interrupt"}) : OnlyShows(model, UpdateKey(model, key))

(* "keeps the cursor in the viewport" (tests/update_ui.rs:112): the row    *)
(* that Space toggles is one that is on the screen.                        *)
CursorInViewport ==
  (model.phase = "browsing" /\ model.tab = "outdated") =>
    model.cursor - model.viewport \in 0..(VisibleOutdatedRows(model) - 1)

(* The user always gets out: after a cancel or an interrupt, and when      *)
(* nothing more is to be done, the loop ends.                              *)
LeavingEnds ==
  (leaving \/ interrupted \/ model.phase = "finished") ~> model.phase = "closed"
=============================================================================
