SPECIFICATION FairSpec
CONSTANTS
  c1 = c1
  c2 = c2
  m1 = m1
  Conns <- MCConns
  Messages <- OneMessage
  NoConn = NoConn
  NoError = NoError
  MaxBackoff = 1
  MaxUpdates = 1
  MaxOrphans = 1
CHECK_DEADLOCK FALSE
INVARIANTS TypeOK ConnectionInv PollingAlive
PROPERTIES StopQuiesces Recovers
