SPECIFICATION Spec
CONSTANTS
  d1 = d1  d2 = d2  ack = ack
  Frame = {d1, d2, ack}
  Data = {d1, d2}
  Size <- Lengths
  Workers = 1
  Capacity = 1
  None = None
  MaxUnacked = 2
  MaxBytes = 2
CHECK_DEADLOCK FALSE
INVARIANTS Accounted PendingWatched ReturnedIsWhole
PROPERTIES NothingAfterTorn SendsEnd PendingEnds
