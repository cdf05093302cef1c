CONSTANTS
  p1 = p1
  p2 = p2
  p3 = p3
  r1 = r1
  r2 = r2
  Prompts <- MCPrompts
  Reactions <- MCReactions
  NoTurn = NoTurn
  sessionQueueCap = 2
SPECIFICATION FairSpec
INVARIANTS
  TypeOK
  DoneClosedOnce
  EveryTurnAccounted
  OnlyPromptsExceedCap
  WakeupPending
PROPERTIES
  AcceptedTurnsFinish
  ImplementsTurnService
