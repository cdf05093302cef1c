CONSTANTS
  Requests = {q1, q2, q3, q4}
  None = None
SPECIFICATION Spec
INVARIANTS
  LoginIsPending
  NoMessageSwallowed
