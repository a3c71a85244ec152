SPECIFICATION FairSpec
CONSTANTS
  c1 = c1
  c2 = c2
  d1 = d1
  d2 = d2
  File = {f1}
  Owner = {u1}
  Chunk = {c1, c2}
  Digest = {d1, d2}
  Batch <- ThreeBatches
  Op = {o1, o2}
  MaxActive = 1
  MaxLeases = 1
  MaxFaults = 1
  Hole = Hole
  Torn = Torn
  None = None
INVARIANTS
  IndexedIsStored
  AckedIsIndexed
  DownloadsAreWhole
PROPERTIES
  LeftoversGo
