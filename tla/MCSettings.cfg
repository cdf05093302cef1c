CONSTANTS
  m1 = m1
  m2 = m2
  Models = {m1, m2}
  NoModel = NoModel
  Levels = {"medium", "high"}
  Unset = Unset
  DefaultThinking = "medium"
  Configs <- ThreeConfigs
  Agents <- ThreeAgents
  None = None
SPECIFICATION Spec
INVARIANTS
  SkipIsRight
  ShownIsApplied
