SPECIFICATION FairSpec
CONSTANTS
  Session = {s1, s2}
  Conn = {c1, c2}
  Token = {t1, t2}
  MaxUnused = 2
  MaxUnusedGlobal = 2
  MaxConnections = 2
  None = None
INVARIANTS
  TokenOnce
  AttachmentTracked
PROPERTIES
  ClosedConnFreesSession
  RevokedIsClosed
CHECK_DEADLOCK FALSE
