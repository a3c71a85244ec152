SPECIFICATION ControlSpec
CONSTANTS
  a = a  b = b  c = c  s1 = s1  s2 = s2  s3 = s3
  User = {a, b}
  Session = {s1, s2}
  RoomId = {r1}
  Invite = {i1}
  Key = {k1, k2}
  ShareId = {h1}
  None = None
  Accounts <- TwoSessions
  WriteOutcome = {"ok"}
  SendFaults = FALSE
  Movers = {}
  MaxGen = 1
  MaxMoves = 1
  MaxRooms = 1
  MaxMembers = 3
  MaxModerated = 2
  MaxRevision = 3
  MaxScreenRevision = 1
CHECK_DEADLOCK FALSE
INVARIANT DisconnectedAreOut
