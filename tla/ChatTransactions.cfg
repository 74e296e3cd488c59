CONSTANTS
  b1 = b1
  b2 = b2
  Backends = {b1, b2}
  LeaseTerm = 3
  CallTerm = 1
  Retention = 2
  ManualRetries = 2
SPECIFICATION Spec
SYMMETRY MCSymmetry
INVARIANTS
  AnsweredByLastAttempt
  StrayRunsExpired
PROPERTY ImplementsTurn
