SPECIFICATION FairSpec
CONSTANTS
  c1 = c1  c2 = c2  p1 = p1  p2 = p2
  Conn = {c1, c2}
  Participant = {p1, p2}
  ParticipantOf <- OneParticipant
  Wanted <- OneRecipient
  MaxSubscriptions = 1
  MaxQueue = 2
  MaxObjects = 3
  None = None
CHECK_DEADLOCK FALSE
INVARIANT SentInOrder
PROPERTY ClosingEnds
