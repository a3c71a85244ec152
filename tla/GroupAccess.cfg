SPECIFICATION FairSpec
CONSTANTS
  addr = addr
  g1 = g1
  Address = {addr}
  Session = {s1}
  Account <- OneAccount
  Group = {g1, g2}
  Memberships <- InOrOut
  CoreCount = 2
  Requester = {t1}
  Worker = {w1}
  CacheTime = 1
  Interval = 1
  Grace = 2
  MaxDelay = 1
  None = None
INVARIANTS ServedIsBacked DenialIsConfirmed
PROPERTIES RemovedIsRevoked
