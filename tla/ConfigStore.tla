----------------------------- MODULE ConfigStore -----------------------------
(***************************************************************************)
(* The local configuration (skilld-command/src/config.rs, config_set and   *)
(* select_installs of lib.rs): every process reads the whole file, and a   *)
(* set writes it again through .config-stage, a name that all of them      *)
(* share.  Nothing else locks the file, and a process may die at any step. *)
(***************************************************************************)
EXTENDS Naturals

CONSTANTS
  Procs,
  Requests,     \* what users set: records of a key and a value
  MaxSets, MaxFaults,   \* bounds: sets that are started; deaths and failed calls
  Absent

(* A value is the set of names in its text.                                *)
TargetIds == {"zed", "codex"}
Modes == {{"copy"}, {"link"}}
Defaults == [targets |-> {}, mode |-> {"copy"}]
Configs == [targets : SUBSET TargetIds, mode : Modes]
Torn == [torn |-> TRUE]

ConfigAssumption ==
  /\ Absent \notin Configs \cup {Torn} /\ {MaxSets, MaxFaults} \subseteq Nat
  /\ Requests \subseteq [key : {"agent.targets", "install.mode", "other"},
                         value : SUBSET (TargetIds \cup {"copy", "link", "?"})]

VARIABLES
  config,    \* config.json: a configuration, Torn, or Absent
  stage,     \* .config-stage
  at,        \* per process: where it stands
  asked,     \* ... the request it serves
  held,      \* ... the configuration it read, and then changed
  before,    \* history: what config.json held last
  sets, faults

vars == <<config, stage, at, asked, held, before, sets, faults>>

Init ==
  /\ config \in {Absent, Defaults} /\ before = config /\ stage = Absent
  /\ at = [p \in Procs |-> "idle"]
  /\ asked = [p \in Procs |-> Absent]
  /\ held = [p \in Procs |-> Absent]
  /\ sets = 0 /\ faults = 0

Goto(p, where) == at' = [at EXCEPT ![p] = where]

(* LocalConfig::set: an unknown key or a value that does not parse is an   *)
(* error; the other key keeps its value.                                   *)
Settable(r) ==
  \/ r.key = "agent.targets" /\ r.value \subseteq TargetIds
  \/ r.key = "install.mode" /\ r.value \in Modes

Set(c, r) == IF r.key = "install.mode" THEN [c EXCEPT !.mode = r.value] ELSE [c EXCEPT !.targets = r.value]

(* read: a file that is away is the defaults, and one that does not parse  *)
(* an error.                                                               *)
Read == IF config = Absent THEN Defaults ELSE config

StartSet(p) ==
  /\ at[p] \in {"idle", "ok", "failed"} /\ sets < MaxSets
  /\ \E r \in Requests :
       /\ asked' = [asked EXCEPT ![p] = r]
       /\ IF Read # Torn /\ Settable(r)
          THEN Goto(p, "create") /\ held' = [held EXCEPT ![p] = Set(Read, r)]
          ELSE Goto(p, "failed") /\ UNCHANGED held
  /\ sets' = sets + 1 /\ UNCHANGED <<config, stage, before, faults>>

(* write: the staged file must be new, so a set that finds one fails.      *)
CreateStage(p) ==
  /\ at[p] = "create"
  /\ IF stage = Absent THEN stage' = Torn /\ Goto(p, "write") ELSE Goto(p, "failed") /\ UNCHANGED stage
  /\ UNCHANGED <<config, asked, held, before, sets, faults>>

WriteStage(p) ==
  /\ at[p] = "write"
  /\ stage' = held[p] /\ Goto(p, "remove")
  /\ UNCHANGED <<config, asked, held, before, sets, faults>>

RemoveOld(p) ==
  /\ at[p] = "remove"
  /\ config' = Absent /\ Goto(p, "rename")
  /\ UNCHANGED <<stage, asked, held, before, sets, faults>>

RenameStage(p) ==
  /\ at[p] = "rename"
  /\ IF stage = Absent
     THEN Goto(p, "failed") /\ UNCHANGED <<config, stage, before>>
     ELSE Goto(p, "ok") /\ config' = stage /\ before' = stage /\ stage' = Absent
  /\ UNCHANGED <<asked, held, sets, faults>>

Writing == {"create", "write", "remove", "rename"}

(* A call fails, and the set reports it and leaves what there is.          *)
CallFails(p) ==
  /\ at[p] \in Writing /\ faults < MaxFaults
  /\ Goto(p, "failed") /\ faults' = faults + 1
  /\ UNCHANGED <<config, stage, asked, held, before, sets>>

Dies(p) ==
  /\ at[p] \in Writing /\ faults < MaxFaults
  /\ Goto(p, "dead") /\ faults' = faults + 1
  /\ UNCHANGED <<config, stage, asked, held, before, sets>>

Next ==
  \E p \in Procs :
    \/ StartSet(p) \/ CreateStage(p) \/ WriteStage(p) \/ RemoveOld(p) \/ RenameStage(p)
    \/ CallFails(p) \/ Dies(p)

Spec == Init /\ [][Next]_vars

-----------------------------------------------------------------------------
TypeOK ==
  /\ config \in Configs \cup {Absent, Torn}
  /\ stage \in Configs \cup {Absent, Torn}
  /\ before \in Configs \cup {Absent}
  /\ at \in [Procs -> {"idle", "ok", "failed", "dead"} \cup Writing]
  /\ asked \in [Procs -> Requests \cup {Absent}]
  /\ held \in [Procs -> Configs \cup {Absent}]
  /\ sets \in 0..MaxSets /\ faults \in 0..MaxFaults

(* However sets of several processes interleave, fail and die, config.json *)
(* is never a part of a configuration; and when it is away although there  *)
(* was one, the whole of the one that was to follow it lies in the stage.  *)
ConfigKept ==
  /\ config # Torn
  /\ config = Absent /\ before # Absent => stage \in Configs
=============================================================================
