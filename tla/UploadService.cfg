CONSTANTS
  q1 = q1
  q2 = q2
  q3 = q3
  k1 = k1
  Requests = {q1, q2, q3}
  Keys = {k1}
  Key <- MCOneKey
SPECIFICATION Spec
SYMMETRY MCSymmetry
INVARIANTS
  TypeOK
  SourceAvailable
  AnswersAreTrue
PROPERTY CleanupAfterDelete
CHECK_DEADLOCK FALSE
