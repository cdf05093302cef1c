------------------------------ MODULE MCSettings ------------------------------
EXTENDS Settings
CONSTANTS m1, m2

(* Nothing configured; a model the agent may lose; another, with a level.  *)
ThreeConfigs ==
  {[model |-> NoModel, thinking |-> Unset], [model |-> m1, thinking |-> Unset],
   [model |-> m2, thinking |-> "high"]}

(* Both models, one of them, or a login short of any.                      *)
ThreeAgents ==
  {[list |-> {m1, m2}, current |-> m1], [list |-> {m2}, current |-> m2], NoAgent}
=============================================================================
