CONSTANTS
  r1 = r1
  r2 = r2
  r3 = r3
  u1 = u1
  u2 = u2
  Runs <- MCRuns
  Users = {u1, u2}
  Owner <- MCOwner
  QueueLimit = 2
  LeaseTerm = 1
SPECIFICATION FairSpec
INVARIANTS
  TypeOK
  AttemptHistory
  RunsAndSessionsExclude
  AdmissionBound
PROPERTIES
  History
  LeaseHolderDecides
  ImplementsWorkspace
  QueuedRunsEnd
