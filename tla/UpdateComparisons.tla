-------------------------- MODULE UpdateComparisons --------------------------
(***************************************************************************)
(* compare_updates (command/src/remote.rs): what changed between two       *)
(* commits, for many Skills.  Public Repositories are asked about one by   *)
(* one and page by page at GitHub, private ones in batches at the service. *)
(* Workers draw the tasks from a counter.  A worker locks the result list  *)
(* before it executes its task, so one task at a time is under way.        *)
(*                                                                         *)
(* GitHub, the service and the network are external and answer anything.   *)
(* A commit is its place in the history from base to head.                 *)
(***************************************************************************)
EXTENDS Sorting, SequencesExt

CONSTANTS
  InputLists,      \* bound: lists of [id, access, valid, ahead, behind]; ahead = behind = 0 is one commit
  Workers,         \* UPDATE_CONCURRENCY threads
  ServiceBatch,    \* UPDATE_SERVICE_BATCH
  PerPage,         \* UPDATE_COMMITS_PER_PAGE
  MaxCommits,      \* MAX_UPDATE_COMMITS
  MaxComparisons,  \* MAX_UPDATE_COMPARISONS
  MaxRetries,
  Unknown,         \* an id that was not asked about
  None

InputIds == UNION {{list[i].id : i \in DOMAIN list} : list \in InputLists}

(* A page of a history: its commits, and what it says of all of them.      *)
Relations == {"identical", "ahead", "behind", "diverged"}
PageType == [relation : Relations, ahead : Nat, behind : Nat, commits : Seq(Nat)]

CompareAssumption ==
  /\ InputLists \subseteq
       Seq([id : InputIds, access : {"public", "hosted"}, valid : BOOLEAN, ahead : Nat, behind : Nat])
  /\ IsFiniteSet(Workers) /\ Workers # {} /\ None \notin Workers \cup PageType
  /\ {ServiceBatch, PerPage, MaxCommits} \subseteq Nat \ {0} /\ {MaxComparisons, MaxRetries} \subseteq Nat

VARIABLES
  inputs, signedIn, cancelled,
  pc,        \* of the caller
  tasks,     \* sequences of indices of inputs
  next,      \* the counter that the workers draw from
  at, drawn, \* where each worker is, and the task it drew
  holder,    \* the worker that holds the lock of the results
  job,       \* the request under way, and what came before it
  results, answer,
  spoiled    \* history: inputs whose own request or result went wrong

calls == <<inputs, signedIn, tasks, spoiled>>
vars == <<inputs, signedIn, cancelled, pc, tasks, next, at, drawn, holder, job, results, answer, spoiled>>

Min2(a, b) == IF a < b THEN a ELSE b
Max2(a, b) == IF a > b THEN a ELSE b
DivCeil(a, b) == (a + b - 1) \div b

NoJob == [page |-> 1, retries |-> 0, first |-> None, commits |-> <<>>, honest |-> TRUE]

Init ==
  /\ inputs \in InputLists /\ signedIn \in BOOLEAN /\ cancelled = FALSE
  /\ pc = "start" /\ tasks = <<>> /\ next = 1
  /\ at = [w \in Workers |-> "idle"] /\ drawn = [w \in Workers |-> 0]
  /\ holder = None /\ job = NoJob
  /\ results = <<>> /\ answer = <<>> /\ spoiled = {}

Outcome(tag, about, commits, total) ==
  [tag |-> tag, about |-> about, commits |-> commits, total |-> total]
Plain(tag, i) == Outcome(tag, inputs[i].id, <<>>, 0)

-----------------------------------------------------------------------------
(* From 1 to MaxComparisons valid comparisons, each id once. *)
MayCompare ==
  /\ Len(inputs) \in 1..MaxComparisons
  /\ \A i \in DOMAIN inputs : inputs[i].valid
  /\ \A i, j \in DOMAIN inputs : inputs[i].id = inputs[j].id => i = j

WithAccess(access) == InOrder({i \in DOMAIN inputs : inputs[i].access = access})

(* Public comparisons one by one, then the hosted ones in chunks. *)
Tasks ==
  LET public == WithAccess("public")
      hosted == WithAccess("hosted")
  IN [t \in DOMAIN public |-> <<public[t]>>]
     \o [t \in 1..DivCeil(Len(hosted), ServiceBatch) |->
           SubSeq(hosted, (t - 1) * ServiceBatch + 1, Min2(t * ServiceBatch, Len(hosted)))]

Start ==
  /\ pc = "start"
  /\ IF MayCompare
     THEN /\ pc' = "compare" /\ tasks' = Tasks
          /\ \E started \in SUBSET Workers :
               /\ Cardinality(started) = Min2(Cardinality(Workers), Len(Tasks))
               /\ at' = [w \in Workers |-> IF w \in started THEN "draw" ELSE "done"]
     ELSE pc' = "rejected" /\ UNCHANGED <<tasks, at>>
  /\ UNCHANGED <<inputs, signedIn, cancelled, next, drawn, holder, job, results, answer, spoiled>>

Draw(w) ==
  /\ at[w] = "draw" /\ next' = next + 1
  /\ IF next <= Len(tasks)
     THEN at' = [at EXCEPT ![w] = "lock"] /\ drawn' = [drawn EXCEPT ![w] = next]
     ELSE at' = [at EXCEPT ![w] = "done"] /\ UNCHANGED drawn
  /\ UNCHANGED <<calls, cancelled, pc, holder, job, results, answer>>

(* The receiver of extend is evaluated first, and with it the lock. *)
Lock(w) ==
  /\ at[w] = "lock" /\ holder = None
  /\ holder' = w /\ at' = [at EXCEPT ![w] = "ask"] /\ job' = NoJob
  /\ UNCHANGED <<calls, cancelled, pc, next, drawn, results, answer>>

Task(w) == tasks[drawn[w]]
IsPublic(w) == inputs[Task(w)[1]].access = "public"

(* One outcome for each input of the task; the lock is released. *)
Deliver(w, outcomes) ==
  /\ results' = results \o [k \in DOMAIN Task(w) |-> <<Task(w)[k], outcomes[k]>>]
  /\ holder' = None /\ at' = [at EXCEPT ![w] = "draw"] /\ job' = NoJob
  /\ UNCHANGED <<inputs, signedIn, cancelled, pc, tasks, next, drawn, answer>>

(* A task that fails fails for each of its inputs. *)
TaskFails(w) ==
  /\ Deliver(w, [k \in DOMAIN Task(w) |-> Plain("failed", Task(w)[k])])
  /\ spoiled' = spoiled \cup ToSet(Task(w))

Asks(w) == at[w] = "ask" /\ holder = w
MaySend(w) == ~cancelled /\ (IsPublic(w) \/ signedIn)

(* Cancelled, signed out, a transport error after the last attempt, a body *)
(* over its limit, a redirect.                                             *)
RequestFails(w) == Asks(w) /\ TaskFails(w)

Retry(w) ==
  /\ Asks(w) /\ MaySend(w) /\ job.retries < MaxRetries
  /\ job' = [job EXCEPT !.retries = @ + 1]
  /\ UNCHANGED <<calls, cancelled, pc, next, at, drawn, holder, results, answer>>

(* Rate limited (429, or 403 with the headers of a limit), not found, not  *)
(* comparable, or another status: for the hosted batch only the first.     *)
StatusOutcome(w) ==
  /\ Asks(w) /\ MaySend(w)
  /\ \E tag \in IF IsPublic(w) THEN {"rate_limited", "not_found", "invalid", "provider"}
                               ELSE {"rate_limited"} :
       Deliver(w, [k \in DOMAIN Task(w) |-> Plain(tag, Task(w)[k])])
  /\ UNCHANGED spoiled

-----------------------------------------------------------------------------
(* comparison_counts_match, with the relation that the counts call for. *)
CountsMatch(relation, same, ahead, behind) ==
  \/ relation = "identical" /\ same /\ ahead = 0 /\ behind = 0
  \/ relation = "ahead" /\ ~same /\ ahead > 0 /\ behind = 0
  \/ relation = "behind" /\ ~same /\ ahead = 0 /\ behind > 0
  \/ relation = "diverged" /\ ~same /\ ahead > 0 /\ behind > 0

Same(input) == input.ahead = 0 /\ input.behind = 0
RelationOf(ahead, behind) ==
  IF behind = 0 THEN IF ahead = 0 THEN "identical" ELSE "ahead"
  ELSE IF ahead = 0 THEN "behind" ELSE "diverged"

(* The commits of page p of a history, and what a page may come back as:   *)
(* the page asked for, another page, one that lacks a commit, one of       *)
(* another history, one with the wrong relation.                           *)
Page(ahead, p) ==
  [k \in 1..Max2(0, Min2(PerPage, ahead - (p - 1) * PerPage)) |-> (p - 1) * PerPage + k]
TruePage(input, p) ==
  [relation |-> RelationOf(input.ahead, input.behind), ahead |-> input.ahead,
   behind |-> input.behind, commits |-> Page(input.ahead, p)]
Pages(input, p) ==
  LET true == TruePage(input, p) IN
  {true, TruePage(input, Max2(1, p - 1)), [true EXCEPT !.relation = "diverged"],
   [true EXCEPT !.commits = SubSeq(@, 1, Max2(0, Len(@) - 1))],
   [TruePage([input EXCEPT !.ahead = @ + 1], p) EXCEPT !.behind = input.behind]}

PageIsValid(page, same) ==
  /\ Len(page.commits) <= PerPage
  /\ CountsMatch(page.relation, same, page.ahead, page.behind)

(* public_comparison: the pages that hold the last MaxCommits commits. *)
FirstIndex(total) == Max2(0, total - MaxCommits)
FirstPage(total) == FirstIndex(total) \div PerPage + 1
Offset(total) == FirstIndex(total) % PerPage
LastPage(total) == Max2(1, DivCeil(total, PerPage))
Agrees(page, first) == page.ahead = first.ahead /\ page.behind = first.behind /\ page.relation = first.relation

Taken(page, p, total) ==
  SubSeq(page.commits, IF p = FirstPage(total) THEN Offset(total) + 1 ELSE 1, Len(page.commits))

Finish(w, total, commits, honest) ==
  LET last == IF Len(commits) > MaxCommits
              THEN SubSeq(commits, Len(commits) - MaxCommits + 1, Len(commits)) ELSE commits
      i == Task(w)[1]
  IN IF Len(last) = Min2(total, MaxCommits) /\ Cardinality(ToSet(last)) = Len(last)
     THEN /\ Deliver(w, <<Outcome("ready", inputs[i].id, last, total)>>)
          /\ spoiled' = IF honest THEN spoiled ELSE spoiled \cup {i}
     ELSE TaskFails(w)

(* The first page tells the total; it is used again when it is itself one  *)
(* of the pages to read.                                                   *)
ReadPage(w) ==
  /\ Asks(w) /\ MaySend(w) /\ IsPublic(w)
  /\ LET input == inputs[Task(w)[1]] IN
     \E page \in Pages(input, job.page) :
       LET first == IF job.first = None THEN page ELSE job.first
           total == first.ahead
           honest == job.honest /\ page = TruePage(input, job.page)
           used == job.first # None \/ FirstPage(total) = 1
           commits == IF used THEN job.commits \o Taken(page, job.page, total) ELSE <<>>
           following == IF used THEN job.page + 1 ELSE FirstPage(total)
       IN IF ~PageIsValid(page, Same(input)) \/ ~Agrees(page, first)
          THEN TaskFails(w)
          ELSE IF following <= LastPage(total)
          THEN /\ job' = [page |-> following, retries |-> 0, first |-> first, commits |-> commits,
                          honest |-> honest]
               /\ UNCHANGED <<calls, cancelled, pc, next, at, drawn, holder, results, answer>>
          ELSE Finish(w, total, commits, honest)

-----------------------------------------------------------------------------
(* hosted_comparisons: the answer may hold results in any order, of other  *)
(* inputs, twice, or with an identity or counts that do not fit.           *)
HostedResults(w) ==
  LET ids == {inputs[i].id : i \in ToSet(Task(w))} IN
  UNION {[1..n -> [id : ids \cup {Unknown}, fits : BOOLEAN]] : n \in 1..Len(Task(w))}

(* Faulty variant: the results are taken in the order they came. *)
ByPlace(wire, w, k) == wire[k]

ById(wire, w, k) == CHOOSE r \in ToSet(wire) : r.id = inputs[Task(w)[k]].id

(* The identity and the counts of one result decide for this one alone. *)
HostedOutcome(r, i) ==
  IF r.fits THEN Outcome("ready", r.id, <<>>, 0) ELSE Plain("failed", i)

AnswerBatch(w) ==
  /\ Asks(w) /\ MaySend(w) /\ ~IsPublic(w)
  /\ \E wire \in HostedResults(w) :
       IF /\ Len(wire) = Len(Task(w)) /\ Len(wire) <= ServiceBatch
          /\ {r.id : r \in ToSet(wire)} = {inputs[i].id : i \in ToSet(Task(w))}
       THEN LET found == [k \in DOMAIN Task(w) |-> ById(wire, w, k)] IN
            /\ Deliver(w, [k \in DOMAIN Task(w) |-> HostedOutcome(found[k], Task(w)[k])])
            /\ spoiled' = spoiled \cup {Task(w)[k] : k \in {j \in DOMAIN Task(w) : ~found[j].fits}}
       ELSE TaskFails(w)

-----------------------------------------------------------------------------
(* Sorted by their indices, the results are those of the inputs, one each. *)
ResultsOf(i) == {r \in DOMAIN results : results[r][1] = i}
Complete == Len(results) = Len(inputs) /\ \A i \in DOMAIN inputs : ResultsOf(i) # {}

Collect ==
  /\ pc = "compare" /\ \A w \in Workers : at[w] = "done"
  /\ IF Complete
     THEN pc' = "answered" /\ answer' = [i \in DOMAIN inputs |-> results[CHOOSE r \in ResultsOf(i) : TRUE][2]]
     ELSE pc' = "incomplete" /\ UNCHANGED answer
  /\ UNCHANGED <<calls, cancelled, next, at, drawn, holder, job, results>>

Cancel ==
  /\ pc = "compare" /\ ~cancelled /\ cancelled' = TRUE
  /\ UNCHANGED <<calls, pc, next, at, drawn, holder, job, results, answer>>

Work(w) ==
  \/ Draw(w) \/ Lock(w) \/ RequestFails(w) \/ Retry(w) \/ StatusOutcome(w) \/ ReadPage(w)
  \/ AnswerBatch(w)

Next == Start \/ (\E w \in Workers : Work(w)) \/ Collect \/ Cancel

-----------------------------------------------------------------------------
(* One answer for each comparison, in its place, with its own outcome.     *)
AnswersMatch ==
  /\ pc # "incomplete"
  /\ pc = "answered" =>
       /\ Len(answer) = Len(inputs)
       /\ \A i \in DOMAIN inputs : answer[i].about = inputs[i].id

(* A comparison fails only with its own request or its own result.         *)
FailuresStayLocal ==
  \A i \in DOMAIN answer : answer[i].tag = "failed" => i \in spoiled

(* What is shown of a history are its last commits, in order.              *)
LatestCommits ==
  \A i \in DOMAIN answer :
    (answer[i].tag = "ready" /\ inputs[i].access = "public" /\ i \notin spoiled) =>
      LET total == inputs[i].ahead IN
      /\ answer[i].total = total
      /\ answer[i].commits = [k \in 1..Min2(total, MaxCommits) |-> Max2(0, total - MaxCommits) + k]
=============================================================================
