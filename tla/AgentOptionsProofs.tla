-------------------------- MODULE AgentOptionsProofs --------------------------
(***************************************************************************)
(* AgentOptions, for every set of models and levels, and every agent: what *)
(* the router believes it has applied is what the agent has, except for    *)
(* the level refused last and for calls whose outcome was lost; hence a    *)
(* turn runs with what was asked for.                                      *)
(***************************************************************************)
EXTENDS AgentOptions, TLAPS

(* The router's record and the agent's options.                            *)
ModelBelief == "model" \notin lost => applied.model \in {Unset, agent.model}
LevelBelief == "level" \notin lost =>
                 applied.level \in {Unset, agent.level, rejected}

(* The level refused last is the one that counts as applied.               *)
RefusedIsApplied == rejected # Unset => applied.level = rejected

(* What applyOptions has established when it goes on, and when it returns. *)
ModelApplied ==
  pc \in {"level", "prompt"} /\ kind = "user" /\ ~notice /\ asked.model # Unset
    => applied.model = asked.model
LevelApplied ==
  pc = "prompt" /\ kind = "user" /\ ~notice /\ asked.level # Unset
    => applied.level = asked.level

(* With the capability the agent has the system prompt from the start: the *)
(* flag, which is then never set, says nothing about it.                   *)
GivenByCapability == AgentTakesSystemPrompt => knows

IInv ==
  /\ TypeOK
  /\ ModelBelief /\ LevelBelief /\ RefusedIsApplied
  /\ ModelApplied /\ LevelApplied
  /\ GivenByCapability /\ SystemPromptGiven

LEMMA ParsedOptions ==
  ASSUME NEW p \in Parameters PROVE ParseOptions(p) \in Options
  BY OptionConstants DEF ParseOptions, Parameters, Options

LEMMA NothingAppliedIsBelieved ==
  /\ NothingApplied \in Options
  /\ NothingApplied.model = Unset /\ NothingApplied.level = Unset
  BY DEF NothingApplied, Options

LEMMA InitIInv == Init => IInv
<1> SUFFICES ASSUME Init PROVE IInv
  OBVIOUS
<1> USE OptionConstants, NothingAppliedIsBelieved DEF Init
<1>1. TypeOK
  BY DEF TypeOK
<1>2. ModelBelief /\ LevelBelief /\ RefusedIsApplied
  BY DEF ModelBelief, LevelBelief, RefusedIsApplied
<1>3. ModelApplied /\ LevelApplied /\ GivenByCapability /\ SystemPromptGiven
  BY DEF ModelApplied, LevelApplied, GivenByCapability, SystemPromptGiven
<1> QED
  BY <1>1, <1>2, <1>3 DEF IInv

LEMMA NextIInv == IInv /\ [Next]_vars => IInv'
<1> SUFFICES ASSUME IInv, [Next]_vars PROVE IInv'
  OBVIOUS
<1> USE OptionConstants
    DEF IInv, TypeOK, Options, ModelBelief, LevelBelief, RefusedIsApplied,
        ModelApplied, LevelApplied, GivenByCapability, SystemPromptGiven
<1>1. ASSUME NEW p \in Parameters, BeginUser(p) PROVE IInv'
  BY <1>1, ParsedOptions DEF BeginUser
<1>2. CASE BeginReaction
  BY <1>2 DEF BeginReaction
<1>3. CASE ClientLeaves
  BY <1>3 DEF ClientLeaves, turn
<1>4. CASE SkipModel
  BY <1>4 DEF SkipModel, Wanted, KeepAside, turn
<1>5. CASE SetModel
  BY <1>5 DEF SetModel, Wanted, KeepAside, turn
<1>6. CASE SetModelRejected
  BY <1>6 DEF SetModelRejected, KeepAside, turn
<1>7. CASE SetModelLost
  BY <1>7 DEF SetModelLost, KeepAside, turn
<1>8. CASE SkipLevel
  BY <1>8 DEF SkipLevel, Wanted, KeepAside, turn
<1>9. CASE SetLevel
  BY <1>9 DEF SetLevel, Wanted, KeepAside, turn
<1>10. CASE SetLevelRejected
  BY <1>10 DEF SetLevelRejected, Wanted, KeepAside, turn
<1>11. CASE SetLevelLost
  BY <1>11 DEF SetLevelLost, Wanted, KeepAside, turn
<1>12. CASE PromptAnswered
  BY <1>12 DEF PromptAnswered, ClearInline, Carries, turn
<1>13. CASE PromptFails
  BY <1>13 DEF PromptFails, ClearInline, Carries, turn
<1>14. CASE Recreate
  <2> USE <1>14, NothingAppliedIsBelieved DEF Recreate, turn
  <2>1. agent' \in [model : Models, level : Levels]
    OBVIOUS
  <2>2. TypeOK'
    BY <2>1
  <2>3. SystemPromptGiven'
    OBVIOUS
  <2> QED
    BY <2>2, <2>3
<1>15. CASE UNCHANGED vars
  BY <1>15 DEF vars, turn
<1> QED
  BY <1>1, <1>2, <1>3, <1>4, <1>5, <1>6, <1>7, <1>8, <1>9, <1>10, <1>11,
     <1>12, <1>13, <1>14, <1>15 DEF Next

LEMMA Invariance == Spec => []IInv
  BY InitIInv, NextIInv, PTL DEF Spec

(* Type correctness; applyOptions is only ever at work on a user's turn    *)
(* that has met no refusal.                                                *)
THEOREM TypeCorrect == Spec => []TypeOK
<1>1. IInv => TypeOK
  BY DEF IInv
<1> QED
  BY Invariance, <1>1, PTL

(* A turn whose options were accepted runs on the model it asks for.       *)
THEOREM RightModel == Spec => []ModelAsAsked
<1>1. IInv => ModelAsAsked
  BY DEF IInv, ModelBelief, ModelApplied, ModelAsAsked, Answering
<1> QED
  BY Invariance, <1>1, PTL

(* ... and at the level it asks for, or else the agent refused that level. *)
THEOREM RightLevel == Spec => []LevelAsAskedOrRejected
<1>1. IInv => LevelAsAskedOrRejected
  BY DEF IInv, LevelBelief, LevelApplied, LevelAsAskedOrRejected, Answering
<1> QED
  BY Invariance, <1>1, PTL

(* The first answered user prompt has given the agent the system prompt.   *)
THEOREM SystemPromptKept == Spec => []SystemPromptGiven
<1>1. IInv => SystemPromptGiven
  BY DEF IInv
<1> QED
  BY Invariance, <1>1, PTL
=============================================================================
