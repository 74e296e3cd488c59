CONSTANTS
  k1 = k1
  Cases = {c1}
  Cleaners = {k1}
  Nobody = Nobody
  Removable = {c1}
  LeaseTerm = 1
  MaxAttempts = 2
SPECIFICATION FairSpec
INVARIANTS
  TypeOK
  PublishedByLastAttempt
  ReadyIsSafe
  SweptForGood
PROPERTIES
  ImplementsDownloads
  ReportsEnd
  StrayObjectsGo
