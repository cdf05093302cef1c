CONSTANTS
  Requests = {r1, r2, r3}
  None = None
SPECIFICATION FairSpec
INVARIANTS
  TypeOK
  AgentServesOne
PROPERTIES
  LeaversReturn
  LeaversAreCancelled
