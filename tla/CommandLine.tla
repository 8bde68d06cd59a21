---------------------------- MODULE CommandLine ----------------------------
(***************************************************************************)
(* One run of skilld from its arguments to its exit code (lib.rs,          *)
(* run_with_output and dispatch, and main.rs around them): the output      *)
(* mode, the refusals, what the host answers, the notices that follow, and *)
(* the writes to stdout and stderr, each of which may fail.  Agents and    *)
(* scripts act on the exit code and parse the JSON.                        *)
(***************************************************************************)
EXTENDS Naturals

CONSTANT Lines \* the command lines: see LinesOf

VARIABLES
  line,    \* the command line
  mode,    \* "human", "plain" or "json"
  pc,
  answer,  \* what dispatch returned: kind, and for an error its class
  stdout, stderr, \* what they were given: "none", "human", "plain", "json", "raw", "cut"
  notices, \* what stderr was given besides
  exit     \* the exit code, or 256 while it is open

vars == <<line, mode, pc, answer, stdout, stderr, notices, exit>>

\* The commands about Skills on this machine, then those about skilld.dev.
SkillCommands ==
  {"doctor", "sync", "search", "install", "add", "run", "list", "view", "remove", "update", "verify", "outdated"}
RegistryCommands ==
  {"browse", "trending", "tracks", "index", "curators", "account", "like", "unlike", "likes", "watch", "unwatch",
   "watches", "changes", "stars", "collection", "tokens"}
OtherCommands == {"auth", "config"}
Names == SkillCommands \cup RegistryCommands \cup OtherCommands

\* A line: its command; "args", how they parse and what they ask ("interactive": the screen of
\* update, without its terminal); the flags; do the outputs go to a person's terminal.
LinesOf(names) ==
  [name : names, args : {"fine", "help", "wrong", "removed", "unfit", "check", "interactive", "registry", "badref"},
   json : BOOLEAN, plain : BOOLEAN, terminal : BOOLEAN]

LinesAssumption == Lines \subseteq LinesOf(Names)

NoAnswer == [kind |-> "none", class |-> "none"]
ErrorAnswer(class) == [kind |-> "error", class |-> class]

TypeOK ==
  /\ line \in Lines /\ mode \in {"human", "plain", "json"}
  /\ pc \in {"start", "begun", "parsed", "dispatch", "print", "error", "written", "done"}
  /\ answer.class \in {"none", "usage", "operation", "retryable"}
  /\ stdout \in {"none", "human", "plain", "json", "cut"}
  /\ stderr \in {"none", "human", "plain", "json", "raw", "cut"}
  /\ notices \subseteq {"access", "upgrade", "weekly"}
  /\ exit \in {0, 1, 2, 75, 101, 256}

\* resolve_mode; before the arguments are parsed, --json --plain is plain.
Resolved(json, plain, terminal) ==
  IF json THEN "json" ELSE IF plain \/ ~terminal THEN "plain" ELSE "human"
Requested(l) == Resolved(l.json /\ ~l.plain, l.plain, l.terminal)

Init ==
  /\ line \in Lines /\ mode = Requested(line) /\ pc = "start" /\ answer = NoAnswer
  /\ stdout = "none" /\ stderr = "none" /\ notices = {} /\ exit = 256

-----------------------------------------------------------------------------
ExitCode(class) ==
  CASE class = "usage" -> 2 [] class = "operation" -> 1 [] class = "retryable" -> 75

\* supports_json.
SupportsJson(l) ==
  \/ l.name \in {"doctor", "sync", "search", "run"} \cup RegistryCommands
  \/ l.name = "update" /\ l.args = "check"
  \/ l.name = "view" /\ l.args \in {"registry", "badref"}

Ready(step, a) == pc' = step /\ answer' = a /\ UNCHANGED <<line, mode, stdout, stderr, notices, exit>>
Fail(class) == Ready("error", ErrorAnswer(class))

(* main refuses a screen without a terminal, a directory it cannot read, a *)
(* wrong service address or token: text on stderr, whatever --json says.   *)
(* A write to stderr that fails there (eprintln!) ends skilld at once.     *)
Begin ==
  /\ pc = "start"
  /\ \/ line.args # "interactive" /\ Ready("begun", NoAnswer)
     \/ /\ (stderr' = "raw" /\ exit' = 2) \/ (stderr' = "cut" /\ exit' = 101)
        /\ pc' = "done" /\ UNCHANGED <<line, mode, answer, stdout, notices>>

(* Commands of v2 that are gone, --help, and arguments that clap refuses.  *)
ShowHelp ==
  /\ pc = "begun" /\ line.args = "help"
  /\ \/ stdout' = mode /\ exit' = 0
     \/ stdout' = "cut" /\ exit' = 1
  /\ pc' = "written" /\ UNCHANGED <<line, mode, answer, stderr, notices>>

Parse ==
  /\ pc = "begun" /\ line.args # "help"
  /\ IF line.args \in {"removed", "wrong"} \/ (line.json /\ line.plain) THEN Fail("usage")
     ELSE /\ mode' = Resolved(line.json, line.plain, line.terminal) /\ pc' = "parsed"
          /\ UNCHANGED <<line, answer, stdout, stderr, notices, exit>>

(* An output the command does not have is refused before anything is done. *)
CheckOutput ==
  /\ pc = "parsed"
  /\ IF (line.args = "check" /\ mode # "json") \/ (mode = "json" /\ ~SupportsJson(line))
     THEN Fail("usage") ELSE Ready("dispatch", NoAnswer)

\* What the command answers when nothing fails.
Answers(l) ==
  CASE l.name = "doctor" -> {"report", "report with problems"}
    [] l.name = "sync" -> {"current", "not current"}
    [] l.name = "search" -> {"search"}
    [] l.name = "run" -> {"run"}
    [] l.name = "add" -> {"screen", "incomplete screen"}
    [] l.name = "update" /\ l.args = "check" -> {"no changes", "changes", "incomplete check"}
    [] l.name \in RegistryCommands \/ (l.name = "view" /\ l.args = "registry") -> {"api"}
    [] OTHER -> {"screen"}

\* The errors that a dispatched command can end in.
Classes(l) == {"usage", "operation"} \cup (IF l.name = "run" THEN {"retryable"} ELSE {})

(* dispatch: the arguments that the command itself refuses, or the answer  *)
(* of the host.                                                            *)
Dispatch ==
  /\ pc = "dispatch"
  /\ IF line.args \in {"unfit", "badref"} THEN Fail("usage")
     ELSE \/ \E class \in Classes(line) : Fail(class)
          \/ \E kind \in Answers(line) : Ready("print", [kind |-> kind, class |-> "none"])

\* The exit code of an answer that was printed.
CodeOf(kind) ==
  CASE kind \in {"report with problems", "not current", "incomplete screen", "changes"} -> 1
    [] kind = "incomplete check" -> 2
    [] OTHER -> 0

\* How an answer is written: a screen has no JSON, a report no colors, a check only JSON.
Rendered(kind) ==
  CASE kind \in {"screen", "incomplete screen"} -> IF mode = "json" THEN "plain" ELSE mode
    [] kind \in {"report", "report with problems"} -> IF mode = "json" THEN "json" ELSE "plain"
    [] OTHER -> mode

(* write_success_with_exit: a reader that closed the pipe has what it      *)
(* wanted; any other failure to write is an error, on stderr.              *)
PrintAnswer ==
  /\ pc = "print"
  /\ \/ stdout' = Rendered(answer.kind) /\ exit' = CodeOf(answer.kind) /\ UNCHANGED stderr
     \/ stdout' = "cut" /\ exit' = 0 /\ UNCHANGED stderr
     \/ stdout' = "cut" /\ stderr' \in {mode, "cut"} /\ exit' = 1
     \/ /\ mode = "json"  \* the answer has no JSON encoding
        /\ stderr' \in {mode, "cut"} /\ UNCHANGED stdout
        /\ exit' = IF answer.kind \in {"report", "report with problems"} THEN 2 ELSE 1
  /\ pc' = "written" /\ UNCHANGED <<line, mode, answer, notices>>

PrintError ==
  /\ pc = "error" /\ stderr' \in {mode, "cut"} /\ exit' = ExitCode(answer.class)
  /\ pc' = "written" /\ UNCHANGED <<line, mode, answer, stdout, notices>>

(* main, after the command: that the keychain was not there, and on a      *)
(* person's terminal a new release and, whatever was asked and however it  *)
(* ended, the weekly email; again by eprintln!.                            *)
Notify ==
  /\ pc = "written"
  /\ notices' \in SUBSET {"access", "upgrade", "weekly"}
  /\ "access" \in notices' => exit = 0
  /\ "upgrade" \in notices' => line.terminal /\ ~line.json /\ ~line.plain /\ line.args # "help"
  /\ "weekly" \in notices' => line.terminal
  /\ exit' = exit \/ (notices' # {} /\ exit' = 101)
  /\ pc' = "done" /\ UNCHANGED <<line, mode, answer, stdout, stderr>>

Next == Begin \/ Notify \/ ShowHelp \/ Parse \/ CheckOutput \/ Dispatch \/ PrintAnswer \/ PrintError

Spec == Init /\ [][Next]_vars

-----------------------------------------------------------------------------
(* The exit code says what happened: 0 only when the command did all it    *)
(* was asked, and found nothing to report, or its reader left; 75 only for *)
(* a run that may pass later, and then nothing of the Skill was printed.   *)
ExitIsTrue ==
  /\ exit = 0 => stdout = "cut" \/ line.args = "help" \/ (answer.class = "none" /\ CodeOf(answer.kind) = 0)
  /\ exit = 75 => line.name = "run" /\ stdout = "none"
  /\ answer.class # "none" /\ exit # 256 => exit # 0

(* Who asked for JSON reads JSON: stdout holds nothing else, and answer    *)
(* and error are on one stream only, unless a write failed.  On stderr a   *)
(* failure that is piped is one document ("so JSON failures remain one     *)
(* document", native_auth.rs:174); on a terminal the weekly notice may     *)
(* follow it, after success a notice may stand there, and a failure before *)
(* the command begins is plain text, alone.                                *)
JsonIsJson ==
  /\ mode = "json" => stdout \in {"none", "json", "cut"} /\ stderr \in {"none", "json", "raw", "cut"}
  /\ mode = "json" /\ stderr # "none" => notices \subseteq (IF line.terminal THEN {"weekly"} ELSE {})
  /\ stderr = "raw" => stdout = "none" /\ notices = {} /\ answer = NoAnswer /\ exit # 0
  /\ stdout # "none" /\ stderr # "none" => stdout = "cut"
=============================================================================
