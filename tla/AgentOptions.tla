----------------------------- MODULE AgentOptions -----------------------------
(***************************************************************************)
(* The options of a conversation and its inline system prompt              *)
(* (internal/router/router.go: ParseOptions, applyOptions, runOneTurn,     *)
(* getOrCreate): what the user's dropdowns say, what the router believes   *)
(* it has applied, and what the agent really runs with.  The runner owns   *)
(* all of this, so a session's turns follow one another (SessionQueue);    *)
(* what interleaves with them is the client that goes away and the session *)
(* that is evicted and created anew.  hide_thinking never reaches the      *)
(* agent and is left out.                                                  *)
(***************************************************************************)
CONSTANTS
  Models,       \* the models the agent offers
  Levels,       \* ThinkingLevels
  Supports,     \* agent: model -> the levels it accepts
  Phantom,      \* a model or level nobody offers
  Unset,        \* "", and a field no call has set
  Absent,       \* a key missing from Poe's parameters, or of another type
  Defaults,     \* Config.Defaults
  AgentDefaults,         \* agent: the options of a new session
  AgentTakesSystemPrompt \* capability session.systemPrompt

Options == [model : Models \cup {Phantom, Unset}, level : Levels \cup {Unset}]

ASSUME OptionConstants ==
  /\ Supports \in [Models -> SUBSET Levels]
  /\ {Phantom, Unset, Absent} \cap (Models \cup Levels) = {}
  /\ Phantom # Unset /\ Absent \notin {Phantom, Unset}
  /\ Defaults \in Options
  /\ AgentDefaults \in [model : Models, level : Levels]
  /\ AgentTakesSystemPrompt \in BOOLEAN

VARIABLES
  pc,            \* the runner: idle, model, level, prompt
  kind,          \* turnReq.kind of the turn at hand
  asked,         \* turnReq.opts
  gone,          \* turnReq.ctx is cancelled
  notice,        \* applyOptions returned an error, and the user was told
  applied,       \* sessionState.applied
  pendingInline, \* sessionState.pendingSystemPromptInline
  agent,         \* agent: the session's options
  knows,         \* agent: it was given the system prompt
  lost,          \* history: fields whose last call's outcome is not known
  rejected,      \* history: the level the agent has just refused
  failed         \* history: a prompt with the system prompt went unanswered

turn == <<kind, asked>>
vars == <<pc, turn, gone, notice, applied, pendingInline, agent, knows,
          lost, rejected, failed>>

TypeOK ==
  /\ pc \in {"idle", "model", "level", "prompt"}
  /\ kind \in {"user", "reaction"}
  /\ asked \in Options
  /\ gone \in BOOLEAN /\ notice \in BOOLEAN
  /\ applied \in Options
  /\ pendingInline \in BOOLEAN /\ knows \in BOOLEAN /\ failed \in BOOLEAN
  /\ agent \in [model : Models, level : Levels]
  /\ lost \subseteq {"model", "level"}
  /\ rejected \in Levels \cup {Unset}
  /\ pc \in {"model", "level"} => kind = "user" /\ ~notice
  /\ applied.model # Phantom

NothingApplied == [model |-> Unset, level |-> Unset]

Init ==
  /\ pc = "idle" /\ kind = "user" /\ asked = NothingApplied
  /\ gone = FALSE /\ notice = FALSE
  /\ applied = NothingApplied
  /\ pendingInline = ~AgentTakesSystemPrompt
  /\ agent = AgentDefaults
  /\ knows = AgentTakesSystemPrompt
  /\ lost = {} /\ rejected = Unset /\ failed = FALSE

-----------------------------------------------------------------------------
(* ParseOptions: any model is taken as it is, "" too; a level only if it   *)
(* is one of the list.                                                     *)
Parameters == [model : Models \cup {Phantom, Unset, Absent},
               level : Levels \cup {Phantom, Absent}]

ParseOptions(p) ==
  [model |-> IF p.model = Absent THEN Defaults.model ELSE p.model,
   level |-> IF p.level \in Levels THEN p.level ELSE Defaults.level]

BeginUser(p) ==
  /\ pc = "idle"
  /\ pc' = "model" /\ kind' = "user" /\ asked' = ParseOptions(p)
  /\ gone' = FALSE /\ notice' = FALSE
  /\ UNCHANGED <<applied, pendingInline, agent, knows, lost, rejected, failed>>

(* A reaction carries no options and none are applied for it.              *)
BeginReaction ==
  /\ pc = "idle"
  /\ pc' = "prompt" /\ kind' = "reaction"
  /\ gone' = FALSE /\ notice' = FALSE
  /\ UNCHANGED <<asked, applied, pendingInline, agent, knows, lost, rejected,
                 failed>>

(* The request's context ends while the turn waits for the agent.          *)
ClientLeaves ==
  /\ pc # "idle" /\ ~gone
  /\ gone' = TRUE
  /\ UNCHANGED <<pc, turn, notice, applied, pendingInline, agent, knows, lost,
                 rejected, failed>>

Wanted(field) == asked[field] # Unset /\ asked[field] # applied[field]

KeepAside == UNCHANGED <<turn, gone, pendingInline, knows, failed>>

(* applyOptions, the model.                                                *)
SkipModel ==
  /\ pc = "model" /\ ~Wanted("model")
  /\ pc' = "level"
  /\ UNCHANGED <<notice, applied, agent, lost, rejected>> /\ KeepAside

SetModel ==
  /\ pc = "model" /\ Wanted("model") /\ ~gone /\ asked.model \in Models
  /\ agent' = [agent EXCEPT !.model = asked.model]
  /\ applied' = [applied EXCEPT !.model = asked.model]
  /\ lost' = lost \ {"model"}
  /\ pc' = "level"
  /\ UNCHANGED <<notice, rejected>> /\ KeepAside

(* Mutant of SetModelRejected: the refused model counts as applied. *)
SetModelRejectedApplied ==
  /\ pc = "model" /\ Wanted("model") /\ ~gone /\ asked.model \in Models
  /\ applied' = [applied EXCEPT !.model = asked.model]
  /\ notice' = TRUE /\ pc' = "prompt"
  /\ UNCHANGED <<agent, lost, rejected>> /\ KeepAside

(* Mutant of SetModelRejected: the level is applied all the same. *)
SetModelRejectedGoesOn ==
  /\ pc = "model" /\ Wanted("model") /\ ~gone
  /\ notice' = TRUE /\ pc' = "level"
  /\ UNCHANGED <<applied, agent, lost, rejected>> /\ KeepAside

(* The agent refuses: not one of its models, or no credentials for it.     *)
(* applyOptions returns, and the level is not looked at.                   *)
SetModelRejected ==
  /\ pc = "model" /\ Wanted("model") /\ ~gone
  /\ notice' = TRUE /\ pc' = "prompt"
  /\ UNCHANGED <<applied, agent, lost, rejected>> /\ KeepAside

(* The client is gone: an error, whether or not the agent got the call.    *)
SetModelLost ==
  /\ pc = "model" /\ Wanted("model") /\ gone
  /\ notice' = TRUE /\ pc' = "prompt"
  /\ \/ UNCHANGED agent
     \/ /\ asked.model \in Models
        /\ agent' = [agent EXCEPT !.model = asked.model]
  /\ lost' = lost \cup {"model"}
  /\ UNCHANGED <<applied, rejected>> /\ KeepAside

(* applyOptions, the thinking level.                                       *)
SkipLevel ==
  /\ pc = "level" /\ ~Wanted("level")
  /\ pc' = "prompt"
  /\ UNCHANGED <<notice, applied, agent, lost, rejected>> /\ KeepAside

SetLevel ==
  /\ pc = "level" /\ Wanted("level") /\ ~gone
  /\ asked.level \in Supports[agent.model]
  /\ agent' = [agent EXCEPT !.level = asked.level]
  /\ applied' = [applied EXCEPT !.level = asked.level]
  /\ lost' = lost \ {"level"} /\ rejected' = Unset
  /\ pc' = "prompt"
  /\ UNCHANGED notice /\ KeepAside

(* A level the model does not support counts as applied, without a word.   *)
SetLevelRejected ==
  /\ pc = "level" /\ Wanted("level") /\ ~gone
  /\ asked.level \notin Supports[agent.model]
  /\ applied' = [applied EXCEPT !.level = asked.level]
  /\ lost' = lost \ {"level"} /\ rejected' = asked.level
  /\ pc' = "prompt"
  /\ UNCHANGED <<notice, agent>> /\ KeepAside

(* ... and so does one whose call failed because the client had gone.      *)
SetLevelLost ==
  /\ pc = "level" /\ Wanted("level") /\ gone
  /\ applied' = [applied EXCEPT !.level = asked.level]
  /\ \/ UNCHANGED agent
     \/ /\ asked.level \in Supports[agent.model]
        /\ agent' = [agent EXCEPT !.level = asked.level]
  /\ lost' = lost \cup {"level"} /\ rejected' = Unset
  /\ pc' = "prompt"
  /\ UNCHANGED notice /\ KeepAside

(* runOneTurn: the first user prompt carries the system prompt, and the    *)
(* flag is cleared before the agent has answered.                          *)
Carries == kind = "user" /\ pendingInline

(* Mutant of ClearInline: a reaction's turn clears the flag as well. *)
ClearInlineAlways == pendingInline' = FALSE

ClearInline == pendingInline' = (pendingInline /\ ~Carries)

PromptAnswered ==
  /\ pc = "prompt" /\ ~gone
  /\ pc' = "idle"
  /\ ClearInline
  /\ knows' = (knows \/ Carries)
  /\ UNCHANGED <<turn, gone, notice, applied, agent, lost, rejected, failed>>

(* The agent fails, or the client goes: the agent may have read the text.  *)
PromptFails ==
  /\ pc = "prompt"
  /\ pc' = "idle"
  /\ ClearInline
  /\ knows' \in {knows, knows \/ Carries}
  /\ failed' = (failed \/ Carries)
  /\ UNCHANGED <<turn, gone, notice, applied, agent, lost, rejected>>

(* Mutant of Recreate: the new session inherits the old one's options. *)
RecreateKeepsApplied ==
  /\ pc = "idle"
  /\ agent' = AgentDefaults /\ knows' = AgentTakesSystemPrompt
  /\ lost' = {} /\ rejected' = Unset /\ failed' = FALSE
  /\ pendingInline' = ~AgentTakesSystemPrompt
  /\ UNCHANGED <<pc, turn, gone, notice, applied>>

(* Eviction (gcOnce) and getOrCreate: a new sessionState, on the agent's   *)
(* old session, which has kept its options or not, or on a new one.        *)
Recreate ==
  /\ pc = "idle"
  /\ applied' = NothingApplied
  /\ pendingInline' = ~AgentTakesSystemPrompt
  /\ \/ agent' \in {agent, AgentDefaults} /\ UNCHANGED <<knows, failed>>
     \/ agent' = AgentDefaults /\ knows' = AgentTakesSystemPrompt
        /\ failed' = FALSE
  /\ lost' = {} /\ rejected' = Unset
  /\ UNCHANGED <<pc, turn, gone, notice>>

Next ==
  \/ \E p \in Parameters : BeginUser(p)
  \/ BeginReaction \/ ClientLeaves
  \/ SkipModel \/ SetModel \/ SetModelRejected \/ SetModelLost
  \/ SkipLevel \/ SetLevel \/ SetLevelRejected \/ SetLevelLost
  \/ PromptAnswered \/ PromptFails
  \/ Recreate

Spec == Init /\ [][Next]_vars

-----------------------------------------------------------------------------
(* Properties.                                                             *)

(* The agent is about to answer a user whose options were all accepted.    *)
Answering == pc = "prompt" /\ kind = "user" /\ ~gone /\ ~notice

(* Such a turn runs on the model the user asked for, whatever turns came   *)
(* before it: refused models, failed calls, a new session.  Only the       *)
(* answer to a set_model that was lost makes the router's belief unsure.   *)
ModelAsAsked ==
  Answering /\ asked.model # Unset /\ "model" \notin lost
    => agent.model = asked.model

(* ... and at the thinking level asked for, unless that is the level the   *)
(* agent refused last.                                                     *)
LevelAsAskedOrRejected ==
  Answering /\ asked.level # Unset /\ "level" \notin lost
    => asked.level \in {agent.level, rejected}

(* The agent has the system prompt once a user's prompt was to carry it    *)
(* and was answered; reactions before it do not use it up.                 *)
SystemPromptGiven == ~pendingInline /\ ~failed => knows

(* Not an invariant, and checked by no run: a level whose call failed, on  *)
(* a model that refused it or because the client had gone, is not sent     *)
(* when the user comes back to it on a model that supports it, although    *)
(* ParseOptions "keeps UI and agent in sync from turn 1" (router.go:806).  *)
LevelAsAsked ==
  Answering /\ asked.level \in Supports[agent.model]
    => agent.level = asked.level
=============================================================================
