SPECIFICATION Spec
CONSTANTS
  Conn = {c1, c2}
  LogicalId = {l1, l2}
  Session = {s1, s2}
  TTL = 2
  ProvisionalTTL = 1
  PersistEvery = 2
  MaintainEvery = 1
  MaxPerLink = 1
  MaxProvisional = 1
  MaxNew = 1
  None = None
INVARIANTS IndexesAgree RowsFollowSessions WithinLimits LinkedDoNotExpire
SYMMETRY Symmetry
PROPERTIES LivesAreOrderly
