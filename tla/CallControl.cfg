SPECIFICATION ControlSpec
CONSTANTS
  a = a  b = b  c = c  s1 = s1  s2 = s2  s3 = s3
  User = {a, b}
  Session = {s1, s2}
  RoomId = {r1}
  Invite = {i1}
  Key = {k1}
  ShareId = {h1}
  None = None
  Accounts <- TwoSessions
  WriteOutcome = {"ok", "failed"}
  SendFaults = TRUE
  Movers = {s2}
  MaxGen = 1
  MaxMoves = 1
  MaxRooms = 1
  MaxMembers = 3
  MaxModerated = 2
  MaxRevision = 3
  MaxScreenRevision = 1
CHECK_DEADLOCK FALSE
INVARIANTS NoKeyForRemoved 
