------------------------------- MODULE Settings -------------------------------
(***************************************************************************)
(* What Poe's Options panel shows and what the router applies, over the    *)
(* boots of the relay: the probe and the wiring in cmd/poe-acp/main.go,    *)
(* internal/paramctl (Resolve, Build), and maybeRefetchSettings with its   *)
(* hash file (cmd/poe-acp/helpers.go).  A list of models is the set of its *)
(* members (the agent orders it), a hash the schema it was made of.        *)
(* bot_name is set; hide_thinking is like thinking and left out.           *)
(***************************************************************************)
CONSTANTS
  Models, NoModel,
  Levels, Unset,     \* thinking levels; the field is absent from config.json
  DefaultThinking,
  Configs,           \* the defaults the operator may configure
  Agents,            \* what the agent may offer: models and the current one
  None               \* no hash file (or an empty one); no panel at Poe

ASSUME SettingsConstants ==
  /\ NoModel \notin Models /\ Unset \notin Levels /\ DefaultThinking \in Levels
  /\ Configs \subseteq [model : Models \cup {NoModel}, thinking : Levels \cup {Unset}]
  /\ Agents \subseteq [list : SUBSET Models, current : Models \cup {NoModel}]

Schemas == [models : SUBSET Models, default : Models \cup {NoModel}, thinking : Levels]

ASSUME NoneIsNoSchema == None \notin Schemas

VARIABLES
  config,    \* config.json
  agent,     \* what the agent offers now
  models,    \* AgentProc.models, with an empty list for nil
  defaults,  \* what Resolve returned at boot, and Router.Defaults
  schema,    \* the controls maybeRefetchSettings was given
  refetch,   \* where maybeRefetchSettings is
  hashFile,  \* last_schema_hash
  poe,       \* the controls Poe has cached
  loose      \* history: Poe may show something that hashFile does not name

vars == <<config, agent, models, defaults, schema, refetch, hashFile, poe, loose>>
world == <<config, agent>>
boot  == <<defaults, schema>>

NoAgent == [list |-> {}, current |-> NoModel]

TypeOK ==
  /\ config \in Configs /\ agent \in Agents
  /\ models \in Agents \cup {NoAgent}
  /\ defaults \in [model : Models \cup {NoModel}, thinking : Levels]
  /\ schema \in Schemas
  /\ refetch \in {"down", "compare", "post", "kept", "dropped",
                  "skipped", "written", "assumed", "failed"}
  /\ hashFile \in Schemas \cup {None} /\ poe \in Schemas \cup {None}
  /\ loose \in BOOLEAN

(* The configured model, or else the agent's current one, if it is listed. *)
Resolve(cfg, m) ==
  LET wanted == IF cfg.model # NoModel THEN cfg.model ELSE m.current
  IN [model    |-> IF wanted \in m.list THEN wanted ELSE NoModel,
      thinking |-> IF cfg.thinking = Unset THEN DefaultThinking ELSE cfg.thinking]

(* Without models there is no model dropdown, and no default of it.        *)
Build(m, d) ==
  [models   |-> m.list,
   default  |-> IF m.list = {} THEN NoModel ELSE d.model,
   thinking |-> d.thinking]

Init ==
  /\ config \in Configs /\ agent \in Agents
  /\ models = NoAgent /\ refetch = "down"
  /\ defaults = Resolve(config, NoAgent) /\ schema = Build(NoAgent, defaults)
  /\ hashFile = None /\ poe = None /\ loose = FALSE

-----------------------------------------------------------------------------
(* The relay: main, and the requests that create sessions.                 *)

(* The probe may fail; what it finds decides the defaults of this boot.    *)
Boot ==
  /\ refetch = "down"
  /\ models' \in {agent, NoAgent}
  /\ defaults' = Resolve(config, models')
  /\ schema' = Build(models', defaults')
  /\ refetch' = "compare"
  /\ UNCHANGED <<world, hashFile, poe, loose>>

(* Every session/new brings the agent's list up to date.                   *)
NewSession ==
  /\ refetch # "down"
  /\ models' = agent
  /\ UNCHANGED <<world, boot, refetch, hashFile, poe, loose>>

(* The relay ends, by a signal or a crash, wherever the refetch is.        *)
Stop ==
  /\ refetch # "down"
  /\ refetch' = "down" /\ models' = NoAgent
  /\ UNCHANGED <<world, boot, hashFile, poe, loose>>

(* The operator edits config.json; the agent's logins or models change.    *)
WorldChanges ==
  /\ config' \in Configs /\ agent' \in Agents
  /\ UNCHANGED <<models, boot, refetch, hashFile, poe, loose>>

-----------------------------------------------------------------------------
(* maybeRefetchSettings.                                                   *)

(* Mutant of Compare: the hash is written before Poe is told. *)
CompareWrites ==
  /\ refetch = "compare"
  /\ refetch' = IF hashFile = schema THEN "skipped" ELSE "post"
  /\ hashFile' = schema
  /\ UNCHANGED <<world, models, boot, poe, loose>>

Compare ==
  /\ refetch = "compare"
  /\ refetch' = IF hashFile = schema THEN "skipped" ELSE "post"
  /\ UNCHANGED <<world, models, boot, hashFile, poe, loose>>

(* Mutant of Served: the provider resolves the defaults again. *)
ServedResolved == Build(models, Resolve(config, models))

(* ParameterControlsProvider: the models of now, the defaults of the boot. *)
Served == Build(models, defaults)

(* Poe asks the relay for its settings before it answers the POST, and may *)
(* find the controls invalid and drop them.                                *)
PoeFetches ==
  /\ refetch = "post"
  /\ \/ poe' = Served /\ refetch' = "kept"
     \/ poe' = None /\ refetch' = "dropped"
  /\ loose' = TRUE
  /\ UNCHANGED <<world, models, boot, hashFile>>

(* Outside the POST too: the operator may send one by hand, and one that   *)
(* timed out may be carried out late.                                      *)
PoeAsksAgain ==
  /\ refetch # "down"
  /\ poe' = Served
  /\ loose' = TRUE
  /\ UNCHANGED <<world, models, boot, refetch, hashFile>>

Posted == refetch \in {"post", "kept", "dropped"}

(* No connection, an error status, the 30 seconds, or an answer that lacks *)
(* the controls: Poe may also not have reached the relay, which starts to  *)
(* listen after the POST may be sent.                                      *)
PostFails ==
  /\ Posted
  /\ refetch' = "failed"
  /\ UNCHANGED <<world, models, boot, hashFile, poe, loose>>

(* Poe's answer has the controls; or its status is good and its body, cut  *)
(* short or no JSON, tells nothing of what Poe did ("assumed").            *)
WriteHash ==
  /\ \/ refetch = "kept" /\ refetch' = "written"
     \/ Posted /\ refetch' = "assumed"
  /\ hashFile' = schema
  /\ loose' = (poe # schema)
  /\ UNCHANGED <<world, models, boot, poe>>

(* WriteFile truncates before it writes.                                   *)
WriteFails ==
  /\ Posted
  /\ hashFile' \in {hashFile, None}
  /\ refetch' = "failed"
  /\ UNCHANGED <<world, models, boot, poe, loose>>

Next ==
  \/ Boot \/ NewSession \/ Stop \/ WorldChanges
  \/ Compare \/ PoeFetches \/ PoeAsksAgain \/ PostFails \/ WriteHash \/ WriteFails

Spec == Init /\ [][Next]_vars

-----------------------------------------------------------------------------
(* Properties.                                                             *)

(* A boot that finds the hash unchanged leaves Poe alone, and may: Poe     *)
(* shows this boot's schema.  Failed posts, torn files, restarts and edits *)
(* in between do not matter; what does (loose) is a fetch whose answer, or *)
(* hash, was lost, a list of models that changed under the POST, and a     *)
(* hash that was written for an answer nobody could read.                  *)
SkipIsRight == refetch = "skipped" /\ ~loose => poe = schema

(* paramctl.go:4-7: the default_value of the panel and what the relay      *)
(* applies "must agree".  They do once Poe has answered with the controls, *)
(* even if the agent's list changed while the refetch was under way: the   *)
(* default may then be missing from the list, but it is the relay's.       *)
(* After an answer that could not be read ("assumed") nothing is promised. *)
ShownIsApplied ==
  refetch = "written" \/ (refetch = "skipped" /\ ~loose) =>
    /\ poe # None
    /\ poe.thinking = defaults.thinking
    /\ poe.models # {} => poe.default = defaults.model

(* Not so, see the README: a skipped refetch leaves Poe with what it has.  *)
SkippedIsShown == refetch = "skipped" => poe = schema
=============================================================================
