CONSTANTS
  w1 = w1
  w2 = w2
  Workers = {w1, w2}
  Heartbeat = 1
  Lease = 3
  CallTerm = 0
  Stoppable = {w1}
SPECIFICATION FairSpec
PROPERTIES
  JobsEnd
  StopEnds
