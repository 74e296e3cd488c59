CONSTANTS
  m1 = m1
  m2 = m2
  s1 = s1
  Messages = {m1, m2}
  Sessions = {s1}
  Session <- MCSession
  QueueLimit = 2
  LeaseTerm = 1
SPECIFICATION FairSpec
INVARIANTS
  TypeOK
  OneLiveAttempt
  AnsweredByLastAttempt
  WorkBudget
  AdmissionBound
PROPERTIES
  ImplementsTurns
  TurnsEnd
