CONSTANT
  MaxTexts = 3
SPECIFICATION FairSpec
INVARIANTS
  TypeOK
  SpinnerNeverMixed
  NoFrozenSpinner
PROPERTIES
  ImplementsResponse
  HeartbeatDisarms
