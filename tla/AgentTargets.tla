----------------------------- MODULE AgentTargets ----------------------------
(***************************************************************************)
(* Which Agents' directories skilld installs a Skill into (core target.rs, *)
(* lib.rs): the table of Agent targets, what shows that an Agent is used   *)
(* in a project or on this computer, and how the targets that the user     *)
(* named, the detected and the configured ones become the directories that *)
(* an installation writes.  A path is the sequence of its components, a    *)
(* global one under the root it is resolved from.                          *)
(***************************************************************************)
EXTENDS Naturals, Sequences, FiniteSets, SequencesExt, Sorting

CONSTANTS Scopes, Requests, MaxMarkers

VARIABLES
  scope,       \* "project" or "global"
  markers,     \* what exists: paths, and environment variables as <<"env", name>>
  request,     \* the values of --agent and the agent.targets of the configuration
  selected,    \* the Agents that were selected
  origin,      \* "explicit", "detected", "configured", or the error
  written,     \* the recorded installs: path of the directory -> Agent
  pc

vars == <<scope, markers, request, selected, origin, written, pc>>

Agent(id, project, global, installed) ==
  [id |-> id, project |-> project, global |-> global, installed |-> installed, detected |-> TRUE]

(* An Agent with a directory of its own, in the project as in the home.    *)
Own(id, dir) == Agent(id, <<dir, "skills">>, <<"home", dir, "skills">>, {<<"home", dir>>})

(* ExplicitOnly: another target already stands for the directory.          *)
Shared(id, project, global) ==
  [id |-> id, project |-> project, global |-> global, installed |-> {}, detected |-> FALSE]

CopilotExtensions ==
  {<<"home", editor, "extensions", "github.copilot-">> : editor \in {".vscode", ".vscode-server", ".cursor"}}

OriginalTargets == <<
  Agent("claude-code", <<".claude", "skills">>, <<"claude", "skills">>, {<<"claude">>}), Own("cursor", ".cursor"),
  Agent("windsurf", <<".windsurf", "skills">>, <<"home", ".codeium", "windsurf", "skills">>, {<<"home", ".codeium", "windsurf">>}),
  Own("cline", ".cline"),
  Agent("codex", <<".agents", "skills">>, <<"home", ".agents", "skills">>, {<<"home", ".codex">>}),
  Agent("github-copilot", <<".github", "skills">>, <<"home", ".copilot", "skills">>, {<<"home", ".copilot">>} \cup CopilotExtensions),
  Own("gemini-cli", ".gemini"),
  Agent("goose", <<".goose", "skills">>, <<"config", "goose", "skills">>, {<<"config", "goose">>}),
  Agent("amp", <<".agents", "skills">>, <<"config", "agents", "skills">>, {<<"config", "amp">>}),
  Agent("opencode", <<".opencode", "skills">>, <<"config", "opencode", "skills">>, {<<"config", "opencode">>}),
  Own("roo", ".roo"),
  Agent("antigravity", <<".agent", "skills">>, <<"home", ".gemini", "antigravity", "skills">>, {<<"home", ".gemini", "antigravity">>}),
  Agent("openclaw", <<"skills">>, <<"openclaw", "skills">>, {<<"openclaw">>}),
  Agent("hermes", <<".hermes", "skills">>, <<"hermes", "skills">>, {<<"hermes">>}),
  Agent("kiro", <<".kiro", "skills">>, <<"kiro", "skills">>, {<<"kiro">>}), Own("kilo", ".kilo"),
  Own("droid", ".factory"), Own("trae", ".trae"),
  Agent("zed", <<".agents", "skills">>, <<"home", ".agents", "skills">>, {<<"config", "zed">>})>>

TargetsAtoD == <<
  Own("aider-desk", ".aider-desk"),
  Shared("antigravity-cli", <<".agents", "skills">>, <<"home", ".gemini", "antigravity-cli", "skills">>),
  Agent("astrbot", <<"data", "skills">>, <<"home", ".astrbot", "data", "skills">>, {<<"home", ".astrbot">>}),
  Own("augment", ".augment"), Own("bob", ".bob"), Own("codearts-agent", ".codeartsdoer"),
  Own("codebuddy", ".codebuddy"), Own("codemaker", ".codemaker"), Own("codestudio", ".codestudio"),
  Own("command-code", ".commandcode"), Own("continue", ".continue"),
  Agent("cortex", <<".cortex", "skills">>, <<"home", ".snowflake", "cortex", "skills">>, {<<"home", ".snowflake", "cortex">>}),
  Agent("crush", <<".crush", "skills">>, <<"home", ".config", "crush", "skills">>, {<<"home", ".config", "crush">>}),
  Shared("deepagents", <<".agents", "skills">>, <<"home", ".deepagents", "agent", "skills">>),
  Agent("devin", <<".devin", "skills">>, <<"config", "devin", "skills">>, {<<"config", "devin">>}),
  Shared("dexto", <<".agents", "skills">>, <<"home", ".agents", "skills">>)>>

TargetsDtoM == <<
  Shared("firebender", <<".agents", "skills">>, <<"home", ".firebender", "skills">>), Own("forgecode", ".forge"),
  Own("fx", ".fx"), Own("inference-sh", ".inferencesh"), Own("jazz", ".jazz"), Own("junie", ".junie"),
  Own("iflow-cli", ".iflow"),
  Agent("kimchi", <<".kimchi", "skills">>, <<"home", ".config", "kimchi", "harness", "skills">>, {<<"home", ".config", "kimchi">>}),
  Shared("kimi-code-cli", <<".agents", "skills">>, <<"home", ".agents", "skills">>), Own("kode", ".kode"),
  Own("lingma", ".lingma"), Shared("loaf", <<".agents", "skills">>, <<"home", ".agents", "skills">>),
  Own("mcpjam", ".mcpjam"), Own("minimax-code", ".minimax"), Own("moxby", ".moxby"), Own("mux", ".mux"),
  Own("openhands", ".openhands")>>

TargetsMtoZ == <<
  Own("ona", ".ona"), Shared("pi", <<".agents", "skills">>, <<"home", ".agents", "skills">>),
  Agent("posit-assistant", <<".posit", "assistant", "skills">>, <<"home", ".posit", "assistant", "skills">>, {<<"home", ".posit", "assistant">>, <<"home", ".positai">>}),
  Own("qoder", ".qoder"), Shared("qoder-cn", <<".qoder", "skills">>, <<"home", ".qoder-cn", "skills">>),
  Own("qwen-code", ".qwen"), Shared("replit", <<".agents", "skills">>, <<"config", "agents", "skills">>),
  Own("reasonix", ".reasonix"), Own("rovodev", ".rovodev"),
  Shared("sarvam-code", <<".agents", "skills">>, <<"home", ".agents", "skills">>),
  Agent("tabnine-cli", <<".tabnine", "agent", "skills">>, <<"home", ".tabnine", "agent", "skills">>, {<<"home", ".tabnine">>}),
  Own("terramind", ".terramind"), Own("tinycloud", ".tinycloud"),
  Shared("trae-cn", <<".trae", "skills">>, <<"home", ".trae-cn", "skills">>),
  Shared("warp", <<".agents", "skills">>, <<"home", ".agents", "skills">>), Own("zcode", ".zcode"),
  Own("zencoder", ".zencoder"), Shared("zenflow", <<".zencoder", "skills">>, <<"home", ".zencoder", "skills">>),
  Own("neovate", ".neovate"), Own("pochi", ".pochi"), Own("adal", ".adal")>>

AGENT_TARGETS == OriginalTargets \o TargetsAtoD \o TargetsDtoM \o TargetsMtoZ
Rows == ToSet(AGENT_TARGETS)
Ids == [i \in DOMAIN AGENT_TARGETS |-> AGENT_TARGETS[i].id]
Row(id) == CHOOSE r \in Rows : r.id = id
Root(r) == IF scope = "project" THEN r.project ELSE r.global

-----------------------------------------------------------------------------
(* The environment variables and the project files that show an Agent.     *)
Variables(id) ==
  CASE id = "claude-code"    -> {"CLAUDE_CODE", "CLAUDECODE", "CLAUDE_CODE_ENTRYPOINT", "CLAUDE_CONFIG_DIR"}
    [] id = "cursor"         -> {"CURSOR_SESSION", "CURSOR_TRACE_ID"}
    [] id = "windsurf"       -> {"WINDSURF_SESSION"}
    [] id = "cline"          -> {"CLINE_TASK_ID", "CLINE_ACTIVE"}
    [] id = "github-copilot" -> {"COPILOT_RUN_APP"}
    [] id = "gemini-cli"     -> {"GEMINI_CLI"}
    [] id = "goose"          -> {"GOOSE_SESSION", "AGENT_SESSION_ID"}
    [] id = "amp"            -> {"AMP_SESSION"}
    [] id = "opencode"       -> {"OPENCODE_SESSION", "OPENCODE_SESSION_ID"}
    [] id = "roo"            -> {"ROO_SESSION"}
    [] id = "antigravity"    -> {"ANTIGRAVITY_CLI_ALIAS"}
    [] id = "openclaw"       -> {"OPENCLAW_SHELL", "OPENCLAW_CLI", "OPENCLAW_STATE_DIR"}
    [] id = "hermes"         -> {"HERMES_AGENT", "HERMES_SESSION_ID", "HERMES_HOME"}
    [] id = "kiro"           -> {"KIRO_HOME", "AGENT_CONTEXT_OUT"}
    [] id = "kilo"           -> {"KILO_RUN_ID", "KILO_PID"}
    [] id = "zed"            -> {"ZED_TERM"}
    [] OTHER                 -> {}

ProjectMarkers(id) ==
  CASE id = "claude-code"    -> {<<".claude">>}
    [] id = "cursor"         -> {<<".cursor">>, <<".cursorrules">>}
    [] id = "windsurf"       -> {<<".windsurf">>, <<".windsurfrules">>}
    [] id = "codex"          -> {<<".codex">>, <<"AGENTS.md">>, <<"AGENTS.override.md">>, <<".agents", "skills">>}
    [] id = "github-copilot" -> {<<".github", "copilot-instructions.md">>, <<".github", "skills">>, <<"AGENTS.md">>,
                                 <<".github", "instructions">>}
    [] id = "amp"            -> {<<".agents", "AGENTS.md">>}
    [] id = "zed"            -> {<<".zed">>}
    [] id = "openclaw"       -> {<<".openclaw">>}
    [] id \in {"cline", "gemini-cli", "goose", "opencode", "roo", "antigravity", "hermes", "kiro", "kilo", "droid",
               "trae", "codebuddy", "continue", "jazz"} -> {<<Row(id).project[1]>>}
    [] OTHER                 -> {}

Exists(path) == \E m \in markers : m[1] # "env" /\ IsPrefix(path, m)
DetectsEnvironment(id) == \E v \in Variables(id) : <<"env", v>> \in markers
DetectsProject(id) == \E p \in ProjectMarkers(id) : Exists(p)
DetectsInstalled(r) == \E p \in r.installed : Exists(p)

(* A bare directory, such as "skills", is a common one and shows nothing.  *)
Bare(r) == r.project[1] \in {"skills", "data"}

Detects(r) ==
  /\ r.detected
  /\ \/ DetectsEnvironment(r.id)
     \/ scope = "project" /\ (DetectsProject(r.id) \/ (~Bare(r) /\ Exists(r.project)))
     \/ scope = "global" /\ (DetectsInstalled(r) \/ Exists(r.global))

Detected == Picked(Ids, {i \in DOMAIN AGENT_TARGETS : Detects(AGENT_TARGETS[i])})

-----------------------------------------------------------------------------
(* parse_agent_targets: "all" stands for every Agent, but does not hide an *)
(* unknown name that comes with it.                                        *)
Parses(agents) == \A i \in DOMAIN agents : agents[i] = "all" \/ agents[i] \in ToSet(Ids)
Parsed(agents) == IF "all" \in ToSet(agents) THEN Ids ELSE agents

Deduplicated(ids) == Picked(ids, {i \in DOMAIN ids : \A j \in 1..(i - 1) : ids[j] # ids[i]})

(* The configuration keeps targets that were parsed.                       *)
TargetsAssumption ==
  /\ Scopes \subseteq {"project", "global"} /\ MaxMarkers \in 0..2
  /\ Requests \subseteq [agents : Seq(STRING), configured : Seq(ToSet(Ids))]

Markers(s) ==
  LET paths == UNION {IF s = "project" THEN {r.project} \cup ProjectMarkers(r.id) ELSE {r.global} \cup r.installed : r \in Rows}
      names == UNION {Variables(r.id) : r \in Rows}
  IN paths \cup {<<"env", v>> : v \in names}

Shown(s) ==
  CASE MaxMarkers = 0 -> {{}}
    [] MaxMarkers = 1 -> {{m} : m \in Markers(s)}
    [] OTHER          -> {{m, n} : m, n \in Markers(s)}

Init ==
  /\ scope \in Scopes /\ request \in Requests
  /\ markers \in (IF request.agents = <<>> THEN Shown(scope) \cup {{}} ELSE {{}})
  /\ selected = <<>> /\ origin = "none" /\ written = <<>> /\ pc = "select"

(* select_target_ids: what the user named, or else what was detected, or   *)
(* else what the configuration names.                                      *)
Select ==
  /\ pc = "select"
  /\ LET detected == Detected
         Chosen(from, ids) == origin' = from /\ selected' = Deduplicated(ids) /\ pc' = "install"
     IN IF ~Parses(request.agents) THEN origin' = "INVALID_TARGET" /\ pc' = "done" /\ UNCHANGED selected
        ELSE IF request.agents # <<>> THEN Chosen("explicit", Parsed(request.agents))
        ELSE IF detected # <<>> THEN Chosen("detected", detected)
        ELSE IF request.configured # <<>> THEN Chosen("configured", request.configured)
        ELSE origin' = "TARGET_REQUIRED" /\ pc' = "done" /\ UNCHANGED selected
  /\ UNCHANGED <<scope, markers, request, written>>

(* unique_target_installs: Agents that share a directory are one install,  *)
(* recorded for the first of them.                                         *)
Roots == {Root(Row(selected[i])) : i \in DOMAIN selected}
FirstAt(root) == selected[CHOOSE i \in DOMAIN selected :
                   Root(Row(selected[i])) = root /\ \A j \in 1..(i - 1) : Root(Row(selected[j])) # root]

Install ==
  /\ pc = "install"
  /\ written' = [root \in Roots |-> FirstAt(root)]
  /\ pc' = "done" /\ UNCHANGED <<scope, markers, request, selected, origin>>

Next == Select \/ Install

Spec == Init /\ [][Next]_vars

-----------------------------------------------------------------------------
TypeOK ==
  /\ origin \in {"none", "explicit", "detected", "configured", "INVALID_TARGET", "TARGET_REQUIRED"}
  /\ ToSet(selected) \subseteq ToSet(Ids)

(* Every Agent that was selected finds its Skills: its directory is        *)
(* written, once, for an Agent that was itself selected.  An Agent that    *)
(* only --agent or the configuration selects loses nothing by it: where    *)
(* its project directory is in use, a detected Agent stands for it.        *)
TargetsServed ==
  pc = "done" /\ selected # <<>> =>
    /\ \A id \in ToSet(selected) : Root(Row(id)) \in DOMAIN written
    /\ \A root \in DOMAIN written : Root(Row(written[root])) = root /\ written[root] \in ToSet(selected)
    /\ origin = "detected" => \A id \in ToSet(selected) : Row(id).detected
    /\ scope = "project" /\ origin = "detected" =>
         \A r \in Rows : ~r.detected /\ Exists(r.project) => r.project \in DOMAIN written

(* A bare directory alone selects no Agent.                                *)
BareSelectsNothing == pc = "done" /\ scope = "project" /\ (\A m \in markers : m[1] \in {"skills", "data"}) =>
                        origin # "detected"
=============================================================================
