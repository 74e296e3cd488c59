CONSTANTS
  b1 = b1
  b2 = b2
  j1 = j1
  j2 = j2
  j3 = j3
  j4 = j4
  NoJob = NoJob
  Backends = {b1, b2}
  Jobs = {j1, j2, j3, j4}
  Limit = 1
  Ttl = 2
  CallTerm = 1
SPECIFICATION Spec
SYMMETRY MCSymmetry
INVARIANTS
  AdmissionBound
  ExcessBound
