CONSTANTS
  Requests = {r1, r2}
  None = None
SPECIFICATION Spec
INVARIANT CancelHitsOwnPrompt
