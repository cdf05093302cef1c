--------------------------- MODULE MCAgentOptions ---------------------------
EXTENDS AgentOptions
CONSTANTS strong, weak, off, medium, high

TwoModels   == {strong, weak}
ThreeLevels == {off, medium, high}
WeakAcceptsOff == [m \in TwoModels |-> IF m = weak THEN {off} ELSE ThreeLevels]

(* paramctl.Resolve without a usable default model: thinking "medium".     *)
RelayDefaults   == [model |-> Unset, level |-> medium]
SessionDefaults == [model |-> weak, level |-> off]
=============================================================================
