CONSTANTS
  strong = strong
  weak = weak
  off = off
  medium = medium
  high = high
  Phantom = Phantom
  Unset = Unset
  Absent = Absent
  Models <- TwoModels
  Levels <- ThreeLevels
  Supports <- WeakAcceptsOff
  Defaults <- RelayDefaults
  AgentDefaults <- SessionDefaults
  AgentTakesSystemPrompt = FALSE
SPECIFICATION Spec
INVARIANTS
  TypeOK
  ModelAsAsked
  LevelAsAskedOrRejected
  SystemPromptGiven
