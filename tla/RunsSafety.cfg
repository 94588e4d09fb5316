SPECIFICATION Spec
CONSTANTS
  e1 = e1
  e2 = e2
  m1 = m1
  m2 = m2
  Endpoints = {e1}
  Models = {m1, m2}
  Null = Null
  RunGap = 1
  Retention = 1
  SampleEvery = 1
  PruneEvery = 1
  Skews <- ClockJumps
  Start = 2
  MaxTime = 5
  MaxWork = 2
SYMMETRY MCSymmetry
INVARIANTS TypeOK OneOpenRun SessionsHonest TokensHonest Bounded
PROPERTY HistoryKept
