CONSTANTS
  p1 = p1
  p2 = p2
  x1 = x1
  Prompts <- TwoPrompts
  Reactions <- OneReaction
  OldSession = OldSession
  None = None
  CanResume = TRUE
SPECIFICATION Spec
INVARIANTS
  TypeOK
  EntryIsServing
  NoStrayGoroutines
  NeverDoubleSeeded
  UpdatesReachEntry
PROPERTY ImplementsConversation
