CONSTANTS
  w1 = w1
  w2 = w2
  Workers = {w1, w2}
  Heartbeat = 1
  Lease = 3
  CallTerm = 1
  Stoppable = {}
SPECIFICATION Spec
SYMMETRY MCSymmetry
INVARIANTS
  OutcomesAreTrue
  PublishedOnce
  BeatingIsLeased
PROPERTY RenewedByOwner
