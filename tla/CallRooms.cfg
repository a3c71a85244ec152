SPECIFICATION FairSpec
CONSTANTS
  a = a  b = b s1 = s1   s2 = s2
  User = {a, b}
  Session = {s1, s2}
  RoomId = {r1}
  Invite = {i1}
  Key = {k1}
  ShareId = {h1}
  None = None
  Accounts <- OneOrEither
  WriteOutcome = {"ok", "failed"}
  MaxRooms = 1
  MaxMembers = 2
  MaxModerated = 1
  MaxRevision = 4
  MaxScreenRevision = 3
INVARIANTS TypeOK MembersAreBound RemovedStayOut PolicyIsCurrent
  ScreenIsLeased 
PROPERTIES HostPresent SnapshotsAreOrdered RenewedLeaseSurvives MuteSticks ExpiredRoomEnds LapsedLeaseEnds 
