--------------------------- MODULE CallStepsProofs ---------------------------
(***************************************************************************)
(* What one step of CallRooms may do to a room: the action properties, the *)
(* screen-share slot, and the steps that move nobody.                      *)
(***************************************************************************)
EXTENDS CallRoomsProofs

-----------------------------------------------------------------------------
(* What one step may do to a room that survives it *)

\* Revisions do not go back, and advance with what they number.
Ordered(new, old) ==
  /\ new.initiator = old.initiator
  /\ new.revision >= old.revision
  /\ new.members # old.members \/ new.muted # old.muted =>
       new.revision > old.revision
  /\ new.screen_revision >= old.screen_revision
  /\ ScreenSeen(new) # ScreenSeen(old) =>
       new.screen_revision > old.screen_revision

\* A mute is lifted by allow_mic or by the removal that blocks the account.
KeepsMutes(new, old) ==
  \A u \in old.muted \ new.muted :
    u \in new.blocked \/ (u \in Participants(old) /\ new.members = old.members)

\* A lease that has not run out is not taken away.
KeepsLease(new, old) ==
  old.screen # None /\ ~old.screen.due => new.screen # None

Evolves(r) ==
  rooms[r] # None /\ rooms'[r] # None =>
    /\ Ordered(rooms'[r], rooms[r]) /\ KeepsMutes(rooms'[r], rooms[r])
    /\ KeepsLease(rooms'[r], rooms[r]) \/ UNCHANGED screen_expiring

\* A room that no step touched.
LEMMA EvolvesStill ==
  ASSUME NEW rm \in Room
  PROVE  Ordered(rm, rm) /\ KeepsMutes(rm, rm) /\ KeepsLease(rm, rm)
<1>1. rm.revision \in Nat /\ rm.screen_revision \in Nat
  BY RoomFields
<1> QED BY <1>1 DEF Ordered, KeepsMutes, KeepsLease

\* A step that replaces one room, or creates or ends one.
LEMMA EvolvesOne ==
  ASSUME TypeOK, NEW r \in RoomId, NEW rm, rooms' = [rooms EXCEPT ![r] = rm],
         \/ rooms[r] = None \/ rm = None
         \/ /\ Ordered(rm, rooms[r]) /\ KeepsMutes(rm, rooms[r])
            /\ KeepsLease(rm, rooms[r]) \/ UNCHANGED screen_expiring
  PROVE  \A q \in RoomId : Evolves(q)
<1> SUFFICES ASSUME NEW q \in RoomId PROVE Evolves(q)
  OBVIOUS
<1>1. CASE q = r
  BY <1>1 DEF Evolves, TypeOK
<1>2. CASE q # r
  BY <1>2, EvolvesStill DEF Evolves, TypeOK
<1> QED BY <1>1, <1>2

\* A step that leaves the rooms alone.
LEMMA EvolvesNone ==
  ASSUME TypeOK, UNCHANGED rooms PROVE \A q \in RoomId : Evolves(q)
BY EvolvesStill DEF Evolves, TypeOK

\* join replaces one member; an identical member changes nothing.
LEMMA JoinedEvolves ==
  ASSUME NEW rm \in Room, NEW u \in User, NEW s \in Session, NEW k \in Key
  PROVE  LET new == Joined(rm, u, s, k)
         IN  Ordered(new, rm) /\ KeepsMutes(new, rm) /\ KeepsLease(new, rm)
<1> DEFINE new == Joined(rm, u, s, k)
           m == [session |-> s, key |-> k]
<1>1. /\ SameTimer(new, rm) /\ SameScreen(new, rm) /\ SameLists(new, rm)
      /\ new.members = [rm.members EXCEPT ![u] = m]
      /\ new.revision = IF rm.members[u] = m THEN rm.revision ELSE rm.revision + 1
  BY JoinedFacts
<1>2. /\ rm.revision \in Nat /\ rm.screen_revision \in Nat
      /\ rm.members \in [User -> Member \cup {None}]
  BY RoomFields
<1> HIDE DEF new, m
<1>3. new.members # rm.members => rm.members[u] # m
  BY <1>1, <1>2
<1>4. Ordered(new, rm)
  BY <1>1, <1>2, <1>3 DEF Ordered, ScreenSeen, SameTimer, SameScreen, SameLists
<1> QED BY <1>1, <1>4 DEF KeepsMutes, KeepsLease, SameScreen, SameLists, new

\* A departure takes the member out, and the share with it.
LEMMA WithoutMemberEvolves ==
  ASSUME NEW rm \in Room, NEW u \in User
  PROVE  LET new == WithoutMember(rm, u)
         IN  Ordered(new, rm) /\ KeepsMutes(new, rm)
<1> DEFINE new == WithoutMember(rm, u)
<1>1. /\ SameTimer(new, rm) /\ SameLists(new, rm)
      /\ new.revision = rm.revision + 1
      /\ \/ SameScreen(new, rm)
         \/ new.screen = None /\ new.screen_revision = rm.screen_revision + 1
  BY WithoutMemberFacts, Zenon
<1>2. rm.revision \in Nat /\ rm.screen_revision \in Nat
  BY RoomFields
<1> HIDE DEF new
<1>3. Ordered(new, rm)
  BY <1>1, <1>2 DEF Ordered, ScreenSeen, SameTimer, SameScreen, SameLists
<1>4. KeepsMutes(new, rm)
  BY <1>1 DEF KeepsMutes, SameLists
<1> QED BY <1>3, <1>4 DEF new

\* What the three edits have in common: only a participant's mute is lifted,
\* and nobody is added to the block list.
Edited(r, t, rm) ==
  /\ rooms' = [rooms EXCEPT ![r] = rm]
  /\ SameTimer(rm, rooms[r]) /\ SameScreen(rm, rooms[r])
  /\ rm.members = rooms[r].members /\ rm.revision = rooms[r].revision + 1
  /\ \/ rm.muted \in {rooms[r].muted \cup {t}, rooms[r].muted}
     \/ rm.muted = rooms[r].muted \ {t} /\ t \in Participants(rooms[r])
  /\ rm.blocked \subseteq rooms[r].blocked

\* mute, allow_mic and readmit edit one list of one room.
LEMMA EditShape ==
  ASSUME TypeOK, NEW s \in Session, NEW r \in RoomId, NEW t \in User,
         NEW o \in WriteOutcome,
         Mute(s, r, t, o) \/ AllowMic(s, r, t, o) \/ Readmit(s, r, t, o)
  PROVE  /\ rooms[r] \in Room /\ rooms[r] # None
         /\ UNCHANGED <<session_rooms, call_room_id, authenticated_user,
                        expiring, screen_expiring>>
         /\ \E rm \in Room : Edited(r, t, rm)
<1>1. /\ rooms[r] \in Room /\ rooms[r] # None
      /\ UNCHANGED <<session_rooms, call_room_id, authenticated_user,
                     expiring, screen_expiring>>
  BY DEF Mute, AllowMic, Readmit, MayModerate, EditRoom, timerVars, TypeOK
<1>2. CASE Mute(s, r, t, o)
  <2> DEFINE new == [rooms[r] EXCEPT !.muted = @ \cup {t}, !.revision = @ + 1]
  <2>1. new \in Room /\ Edited(r, t, new)
    <3>1. /\ new \in Room /\ SameTimer(new, rooms[r]) /\ SameScreen(new, rooms[r])
          /\ new.members = rooms[r].members /\ new.revision = rooms[r].revision + 1
          /\ new.muted = rooms[r].muted \cup {t} /\ new.blocked = rooms[r].blocked
      BY <1>1, EditFacts, ZenonT(30)
    <3>2. rooms' = [rooms EXCEPT ![r] = new]
      BY <1>2, Zenon DEF Mute, EditRoom
    <3> HIDE DEF new
    <3> QED BY <3>1, <3>2 DEF Edited
  <2> HIDE DEF new
  <2> QED BY <1>1, <2>1
<1>3. CASE AllowMic(s, r, t, o)
  <2> DEFINE new == [rooms[r] EXCEPT !.muted = @ \ {t}, !.revision = @ + 1]
  <2>1. new \in Room /\ Edited(r, t, new)
    <3>1. /\ new \in Room /\ SameTimer(new, rooms[r]) /\ SameScreen(new, rooms[r])
          /\ new.members = rooms[r].members /\ new.revision = rooms[r].revision + 1
          /\ new.muted = rooms[r].muted \ {t} /\ new.blocked = rooms[r].blocked
      BY <1>1, EditFacts, ZenonT(30)
    <3>2. rooms' = [rooms EXCEPT ![r] = new] /\ t \in Participants(rooms[r])
      BY <1>3, Zenon DEF AllowMic, EditRoom
    <3> HIDE DEF new
    <3> QED BY <3>1, <3>2 DEF Edited
  <2> HIDE DEF new
  <2> QED BY <1>1, <2>1
<1>4. CASE Readmit(s, r, t, o)
  <2> DEFINE new == [rooms[r] EXCEPT !.blocked = @ \ {t}, !.revision = @ + 1]
  <2>1. new \in Room /\ Edited(r, t, new)
    <3>1. /\ new \in Room /\ SameTimer(new, rooms[r]) /\ SameScreen(new, rooms[r])
          /\ new.members = rooms[r].members /\ new.revision = rooms[r].revision + 1
          /\ new.muted = rooms[r].muted /\ new.blocked = rooms[r].blocked \ {t}
      BY <1>1, EditFacts, ZenonT(30)
    <3>2. rooms' = [rooms EXCEPT ![r] = new]
      BY <1>4, Zenon DEF Readmit, EditRoom
    <3> HIDE DEF new
    <3> QED BY <3>1, <3>2 DEF Edited
  <2> HIDE DEF new
  <2> QED BY <1>1, <2>1
<1> QED BY <1>2, <1>3, <1>4

\* Such an edit advances the revision.
LEMMA EditEvolves ==
  ASSUME NEW r, rooms[r] \in Room, NEW t \in User, NEW rm, Edited(r, t, rm)
  PROVE  /\ Ordered(rm, rooms[r]) /\ KeepsMutes(rm, rooms[r])
         /\ KeepsLease(rm, rooms[r])
<1>1. rooms[r].revision \in Nat /\ rooms[r].screen_revision \in Nat
  BY RoomFields
<1>2. Ordered(rm, rooms[r])
  BY <1>1 DEF Edited, Ordered, ScreenSeen, SameTimer, SameScreen
<1>3. KeepsMutes(rm, rooms[r])
  BY DEF Edited, KeepsMutes
<1> QED BY <1>2, <1>3 DEF Edited, KeepsLease, SameScreen

\* remove blocks the account, drops at most one member and lifts the mute.
LEMMA RemovedEvolves ==
  ASSUME TypeOK, NEW r \in RoomId, rooms[r] # None, NEW t \in User,
         NEW new \in {Dropped(r, t), Lifted(Dropped(r, t), t)}
  PROVE  Ordered(new, rooms[r]) /\ KeepsMutes(new, rooms[r])
<1> DEFINE rm == rooms[r]  d == Dropped(r, t)
<1>1. rm \in Room /\ rm.revision \in Nat /\ rm.screen_revision \in Nat
  BY RoomFields DEF TypeOK
<1>2. /\ d \in Room /\ d.initiator = rm.initiator
      /\ d.muted = rm.muted /\ d.blocked = rm.blocked \cup {t}
      /\ \/ d.members = rm.members /\ d.revision = rm.revision
         \/ d.revision = rm.revision + 1
      /\ \/ SameScreen(d, rm)
         \/ d.screen = None /\ d.screen_revision = rm.screen_revision + 1
  BY DroppedFacts, Zenon DEF SameTimer
<1>3. LET l == Lifted(d, t)
      IN  /\ l.initiator = d.initiator /\ SameScreen(l, d)
          /\ l.members = d.members /\ l.revision = d.revision + 1
          /\ l.muted = d.muted \ {t} /\ l.blocked = d.blocked
  BY <1>2, LiftedFacts DEF SameTimer
<1> HIDE DEF d, rm
<1>4. Ordered(d, rm) /\ KeepsMutes(d, rm)
  BY <1>1, <1>2 DEF Ordered, KeepsMutes, ScreenSeen, SameScreen
<1>5. Ordered(Lifted(d, t), rm) /\ KeepsMutes(Lifted(d, t), rm)
  BY <1>1, <1>2, <1>3 DEF Ordered, KeepsMutes, ScreenSeen, SameScreen
<1> QED BY <1>4, <1>5 DEF d, rm

\* Clearing the slot, and settling it first, advance its revision.
LEMMA SlotEvolves ==
  ASSUME NEW rm \in Room, NEW u \in User, NEW sh \in ShareId,
         NEW new \in {Settled(rm), ClearScreen(Settled(rm)), ClearScreen(rm),
                      Leased(Settled(rm), u, sh)}
  PROVE  /\ new \in Room /\ Ordered(new, rm) /\ KeepsMutes(new, rm)
         /\ new \in {Settled(rm), Leased(Settled(rm), u, sh)} => KeepsLease(new, rm)
<1> DEFINE set == Settled(rm)
<1>1. /\ rm.revision \in Nat /\ rm.screen_revision \in Nat
  BY RoomFields
<1>2. /\ set \in Room /\ SameTimer(set, rm) /\ SameLists(set, rm)
      /\ set.revision = rm.revision /\ set.members = rm.members
      /\ \/ SameScreen(set, rm)
         \/ set.screen = None /\ set.screen_revision = rm.screen_revision + 1
  BY SettledFacts, Zenon
<1>3. rm.screen # None /\ ~rm.screen.due => set = rm
  BY DEF Settled
<1> HIDE DEF set
<1>4. ASSUME NEW c, NEW b \in {set, rm}, c = ClearScreen(b)
      PROVE  /\ c \in Room /\ SameTimer(c, rm) /\ SameLists(c, rm)
             /\ c.revision = rm.revision /\ c.members = rm.members
             /\ c.screen = None /\ c.screen_revision = b.screen_revision + 1
  BY <1>2, <1>4, ClearScreenFacts DEF SameTimer, SameLists
<1>5. LET l == Leased(set, u, sh)
      IN  /\ l \in Room /\ SameTimer(l, rm) /\ SameLists(l, rm)
          /\ l.revision = rm.revision /\ l.members = rm.members
          /\ l.screen # None /\ l.screen.owner = u /\ l.screen.share = sh
          /\ l.screen_revision = IF Owns(set, u, sh) THEN set.screen_revision
                                 ELSE set.screen_revision + 1
  <2>1. LET l == Leased(set, u, sh)
        IN  /\ l \in Room /\ SameTimer(l, set) /\ SameLists(l, set)
            /\ l.revision = set.revision /\ l.members = set.members
            /\ l.screen = [owner |-> u, share |-> sh, due |-> FALSE, timer |-> "armed"]
            /\ l.screen_revision = IF Owns(set, u, sh) THEN set.screen_revision
                                   ELSE set.screen_revision + 1
    BY <1>2, LeasedFacts
  <2>2. LET sc == [owner |-> u, share |-> sh, due |-> FALSE, timer |-> "armed"]
        IN  sc # None /\ sc.owner = u /\ sc.share = sh
    <3>1. [owner |-> u, share |-> sh, due |-> FALSE, timer |-> "armed"] \in Screen
      BY DEF Screen
    <3> QED BY <3>1, NoneIsFresh, ZenonT(30)
  <2> QED BY <1>2, <2>1, <2>2, ZenonT(30) DEF SameTimer, SameLists
<1>6. CASE new = set
  <2>1. Ordered(set, rm) /\ KeepsMutes(set, rm)
    BY <1>1, <1>2 DEF Ordered, KeepsMutes, ScreenSeen, SameTimer, SameScreen, SameLists
  <2> QED BY <1>2, <1>3, <1>6, <2>1 DEF KeepsLease
<1>7. ASSUME NEW b \in {set, rm}, new = ClearScreen(b)
      PROVE  new \in Room /\ Ordered(new, rm) /\ KeepsMutes(new, rm)
  BY <1>1, <1>2, <1>4, <1>7, SMTT(30)
  DEF Ordered, KeepsMutes, ScreenSeen, SameTimer, SameScreen, SameLists
<1>8. CASE new = Leased(set, u, sh)
  <2>1. Ordered(new, rm)
    <3>1. CASE Owns(set, u, sh)
      BY <1>1, <1>2, <1>5, <1>8, <3>1, SMTT(30)
      DEF Ordered, ScreenSeen, SameTimer, SameScreen, SameLists, Owns
    <3>2. CASE ~Owns(set, u, sh)
      BY <1>1, <1>2, <1>5, <1>8, <3>2
      DEF Ordered, ScreenSeen, SameTimer, SameScreen, SameLists
    <3> QED BY <3>1, <3>2
  <2> QED BY <1>5, <1>8, <2>1 DEF KeepsMutes, KeepsLease, SameLists
<1> QED BY <1>6, <1>7, <1>8 DEF set

\* The flags that time raises number nothing.
LEMMA FlagsEvolve ==
  ASSUME NEW rm \in Room
  PROVE  /\ \A new \in {[rm EXCEPT !.expired = TRUE], [rm EXCEPT !.timer = "fired"]} :
              Ordered(new, rm) /\ KeepsMutes(new, rm) /\ KeepsLease(new, rm)
         /\ rm.screen # None =>
              \A new \in {[rm EXCEPT !.screen.due = TRUE],
                          [rm EXCEPT !.screen.timer = "fired"]} :
                Ordered(new, rm) /\ KeepsMutes(new, rm) /\ KeepsLease(new, rm)
<1>1. rm.revision \in Nat /\ rm.screen_revision \in Nat
  BY RoomFields
<1>2. ASSUME NEW new \in {[rm EXCEPT !.expired = TRUE], [rm EXCEPT !.timer = "fired"]}
      PROVE  Ordered(new, rm) /\ KeepsMutes(new, rm) /\ KeepsLease(new, rm)
  <2>1. /\ SameScreen(new, rm) /\ SameLists(new, rm) /\ new.initiator = rm.initiator
        /\ new.members = rm.members /\ new.revision = rm.revision
    BY <1>2, FlagFacts, ZenonT(30)
  <2> QED BY <1>1, <2>1
          DEF Ordered, KeepsMutes, KeepsLease, ScreenSeen, SameScreen, SameLists
<1>3. ASSUME rm.screen # None,
             NEW new \in {[rm EXCEPT !.screen.due = TRUE],
                          [rm EXCEPT !.screen.timer = "fired"]}
      PROVE  Ordered(new, rm) /\ KeepsMutes(new, rm) /\ KeepsLease(new, rm)
  <2>1. SameShare(new, rm)
    BY <1>3, DueFacts, FiredFacts, Zenon
  <2> QED BY <1>1, <1>3, <2>1
          DEF Ordered, KeepsMutes, KeepsLease, ScreenSeen, SameShare, SameTimer, SameLists
<1> QED BY <1>2, <1>3

\* Every step moves every room it leaves alive forward.
LEMMA EvolvesStep ==
  ASSUME TypeOK, [Next]_vars PROVE \A q \in RoomId : Evolves(q)
<1> DEFINE Goal == \A q \in RoomId : Evolves(q)
<1> SUFFICES Goal
  OBVIOUS
<1> HIDE DEF Goal
<1>o. ASSUME NEW r \in RoomId, NEW rm, rooms' = [rooms EXCEPT ![r] = rm],
             \/ rooms[r] = None \/ rm = None
             \/ /\ Ordered(rm, rooms[r]) /\ KeepsMutes(rm, rooms[r])
                /\ KeepsLease(rm, rooms[r]) \/ UNCHANGED screen_expiring
      PROVE  Goal
  BY <1>o, EvolvesOne, Zenon DEF Goal
<1>n. ASSUME UNCHANGED rooms PROVE Goal
  BY <1>n, EvolvesNone DEF Goal
<1>r. ASSUME NEW r \in RoomId, rooms[r] # None PROVE rooms[r] \in Room
  BY <1>r DEF TypeOK
<1>1. ASSUME NEW s \in Session, NEW u \in User, Authenticate(s, u) PROVE Goal
  BY <1>1, <1>n DEF Authenticate, roomVars
<1>2. ASSUME NEW s \in Session, NEW r \in RoomId, NEW inv \in Invite,
             NEW k \in Key, NEW o \in WriteOutcome, Create(s, r, inv, k, o)
      PROVE  Goal
  BY <1>2, <1>n, <1>o, Zenon DEF Create
<1>3. ASSUME NEW s \in Session, NEW r \in RoomId, NEW inv \in Invite,
             NEW k \in Key, NEW o \in WriteOutcome, Join(s, r, inv, k, o)
      PROVE  Goal
  <2>1. authenticated_user[s] \in User /\ rooms[r] \in Room
    BY <1>3, <1>r DEF Join, MayJoin, TypeOK
  <2> QED BY <1>3, <1>o, <2>1, JoinedEvolves, ZenonT(30) DEF Join
<1>4. ASSUME NEW s \in Session, NEW r \in RoomId, NEW o \in WriteOutcome,
             rooms[r] # None, Depart(s, r, o)
      PROVE  Goal
  <2>1. CASE authenticated_user[s] = rooms[r].initiator
    BY <1>4, <1>o, <2>1, Zenon DEF Depart, EndRoom
  <2>2. CASE authenticated_user[s] # rooms[r].initiator
    <3>1. RemoveMember(s, r, o) /\ UNCHANGED screen_expiring
      BY <1>4, <2>2 DEF Depart
    <3>2. CASE IsMember(rooms[r], authenticated_user[s], s)
      <4>1. authenticated_user[s] \in User /\ rooms[r] \in Room
        BY <1>4, <1>r, <3>2 DEF IsMember
      <4>2. rooms' = [rooms EXCEPT ![r] = WithoutMember(rooms[r], authenticated_user[s])]
        BY <3>1, <3>2 DEF RemoveMember
      <4> QED BY <1>o, <3>1, <4>1, <4>2, WithoutMemberEvolves, ZenonT(30)
    <3>3. CASE ~IsMember(rooms[r], authenticated_user[s], s)
      BY <1>n, <3>1, <3>3 DEF RemoveMember
    <3> QED BY <3>2, <3>3, SMTT(30)
  <2> QED BY <2>1, <2>2
<1>5. ASSUME NEW s \in Session, NEW r \in RoomId, NEW t \in User,
             NEW o \in WriteOutcome,
             Mute(s, r, t, o) \/ AllowMic(s, r, t, o) \/ Readmit(s, r, t, o)
      PROVE  Goal
  <2>1. PICK rm \in Room : Edited(r, t, rm)
    BY <1>5, EditShape
  <2>2. rooms[r] \in Room
    BY <1>5, EditShape
  <2>3. Ordered(rm, rooms[r]) /\ KeepsMutes(rm, rooms[r]) /\ KeepsLease(rm, rooms[r])
    BY <2>1, <2>2, EditEvolves
  <2> QED BY <1>o, <2>1, <2>3, Zenon DEF Edited
<1>6. ASSUME NEW s \in Session, NEW r \in RoomId, NEW t \in User,
             NEW o1 \in WriteOutcome, NEW o2 \in WriteOutcome,
             Remove(s, r, t, o1, o2)
      PROVE  Goal
  <2>1. rooms[r] # None /\ UNCHANGED screen_expiring
    BY <1>6, Zenon DEF Remove, MayModerate, timerVars
  <2>2. PICK new \in {Dropped(r, t), Lifted(Dropped(r, t), t)} :
          rooms' = [rooms EXCEPT ![r] = new]
    BY <1>6, RemoveWrites, Zenon
  <2>3. Ordered(new, rooms[r]) /\ KeepsMutes(new, rooms[r])
    BY <2>1, RemovedEvolves, Zenon
  <2> QED BY <1>o, <2>1, <2>2, <2>3, Zenon
<1>7. ASSUME NEW s \in Session, NEW r \in RoomId, NEW sh \in ShareId,
             \/ ScreenStart(s, r, sh) \/ ScreenStop(s, r, sh)
             \/ ScreenRenew(s, r, sh)
      PROVE  Goal
  <2>1. /\ rooms[r] \in Room /\ authenticated_user[s] \in User
        /\ UNCHANGED screen_expiring
    BY <1>7, <1>r, SMTT(30)
    DEF ScreenStart, ScreenStop, ScreenRenew, MayShare, IsMember, SetScreen, timerVars
  <2>2. PICK new \in {Settled(rooms[r]), ClearScreen(Settled(rooms[r])),
                      Leased(Settled(rooms[r]), authenticated_user[s], sh)} :
          rooms' = [rooms EXCEPT ![r] = new]
    BY <1>7 DEF ScreenStart, ScreenStop, ScreenRenew, SetScreen
  <2>3. Ordered(new, rooms[r]) /\ KeepsMutes(new, rooms[r])
    BY <2>1, <2>2, SlotEvolves, Zenon
  <2> QED BY <1>o, <2>1, <2>2, <2>3, ZenonT(30)
<1>8. ASSUME NEW r \in RoomId, RoomDeadline(r) \/ RoomTimerFires(r) PROVE Goal
  <2>1. rooms[r] \in Room
    BY <1>8, <1>r DEF RoomDeadline, RoomTimerFires
  <2>2. PICK new \in {[rooms[r] EXCEPT !.expired = TRUE],
                      [rooms[r] EXCEPT !.timer = "fired"]} :
          rooms' = [rooms EXCEPT ![r] = new]
    BY <1>8 DEF RoomDeadline, RoomTimerFires
  <2>3. Ordered(new, rooms[r]) /\ KeepsMutes(new, rooms[r]) /\ KeepsLease(new, rooms[r])
    BY <2>1, <2>2, FlagsEvolve, Zenon
  <2> QED BY <1>o, <2>2, <2>3, Zenon
<1>9. ASSUME NEW r \in RoomId, LeaseElapses(r) \/ ScreenTimerFires(r) PROVE Goal
  <2>1. rooms[r] \in Room /\ rooms[r].screen # None
    BY <1>9, <1>r, SMTT(30) DEF LeaseElapses, ScreenTimerFires
  <2>2. PICK new \in {[rooms[r] EXCEPT !.screen.due = TRUE],
                      [rooms[r] EXCEPT !.screen.timer = "fired"]} :
          rooms' = [rooms EXCEPT ![r] = new]
    BY <1>9 DEF LeaseElapses, ScreenTimerFires
  <2>3. Ordered(new, rooms[r]) /\ KeepsMutes(new, rooms[r]) /\ KeepsLease(new, rooms[r])
    BY <2>1, <2>2, FlagsEvolve, Zenon
  <2> QED BY <1>o, <2>2, <2>3, Zenon
<1>10. ASSUME NEW r \in RoomId, NEW o \in WriteOutcome, ExpireRoom(r, o) PROVE Goal
  BY <1>10, <1>n, <1>o, Zenon DEF ExpireRoom, EndRoom, roomVars
<1>11. ASSUME NEW r \in RoomId, NEW sh \in ShareId, ExpireScreen(r, sh) PROVE Goal
  <2>1. CASE ScreenLapsed(r, sh)
    <3>1. rooms[r] \in Room /\ rooms[r].screen # None /\ rooms[r].screen.due
      BY <1>r, <2>1 DEF ScreenLapsed
    <3>2. rooms[r].screen.owner \in User
      BY <3>1, RoomFields DEF Screen
    <3>3. /\ Ordered(ClearScreen(rooms[r]), rooms[r])
          /\ KeepsMutes(ClearScreen(rooms[r]), rooms[r])
      BY <3>1, <3>2, SlotEvolves, ZenonT(30)
    <3>4. KeepsLease(ClearScreen(rooms[r]), rooms[r])
      BY <3>1 DEF KeepsLease
    <3> QED BY <1>11, <1>o, <2>1, <3>3, <3>4, ZenonT(30) DEF ExpireScreen
  <2>2. CASE ~ScreenLapsed(r, sh)
    BY <1>11, <1>n, <2>2 DEF ExpireScreen
  <2> QED BY <2>1, <2>2
<1>12. CASE Crash
  BY <1>12 DEF Crash, Goal, Evolves
<1>13. CASE Boot
  BY <1>13, <1>n DEF Boot
<1>14. CASE UNCHANGED vars
  BY <1>14, <1>n DEF vars, roomVars
<1>15. ASSUME NEW s \in Session, NEW o \in WriteOutcome,
              Disconnected(s, o) \/ \E r \in RoomId : Leave(s, r, o)
       PROVE  Goal
  BY <1>4, <1>15, SMTT(30) DEF Disconnected, Leave, TypeOK
<1>16. ASSUME NEW s \in Session, Request(s) PROVE Goal
  BY <1>1, <1>2, <1>3, <1>5, <1>6, <1>7, <1>15, <1>16, SMTT(30) DEF Request
<1>17. ASSUME NEW r \in RoomId, Timer(r) PROVE Goal
  BY <1>8, <1>9, <1>10, <1>11, <1>17 DEF Timer
<1> QED BY <1>12, <1>13, <1>14, <1>15, <1>16, <1>17 DEF Next, Step

\* Revisions order what clients are sent of a room (service.py, every handler
\* that bumps room.revision or room.screen_revision).
THEOREM SnapshotsOrdered == Spec => SnapshotsAreOrdered
<1>1. TypeOK /\ [Next]_vars =>
        [\A r \in RoomId : rooms[r] # None /\ rooms'[r] # None =>
           /\ rooms'[r].revision >= rooms[r].revision
           /\ MembershipSeen(rooms'[r]) # MembershipSeen(rooms[r]) =>
                rooms'[r].revision > rooms[r].revision
           /\ rooms'[r].screen_revision >= rooms[r].screen_revision
           /\ ScreenSeen(rooms'[r]) # ScreenSeen(rooms[r]) =>
                rooms'[r].screen_revision > rooms[r].screen_revision]_vars
  <2> SUFFICES ASSUME TypeOK, [Next]_vars, NEW r \in RoomId,
                      rooms[r] # None, rooms'[r] # None
               PROVE  /\ rooms'[r].revision >= rooms[r].revision
                      /\ MembershipSeen(rooms'[r]) # MembershipSeen(rooms[r]) =>
                           rooms'[r].revision > rooms[r].revision
                      /\ rooms'[r].screen_revision >= rooms[r].screen_revision
                      /\ ScreenSeen(rooms'[r]) # ScreenSeen(rooms[r]) =>
                           rooms'[r].screen_revision > rooms[r].screen_revision
    OBVIOUS
  <2>1. Ordered(rooms'[r], rooms[r])
    BY EvolvesStep DEF Evolves
  <2> QED BY <2>1 DEF Ordered, MembershipSeen, Participants
<1> QED BY <1>1, TypeCorrect, PTL DEF Spec, SnapshotsAreOrdered

\* A mute outlives a departure and a return (service.py, moderate and join).
THEOREM MutesStick == Spec => MuteSticks
<1>1. TypeOK /\ [Next]_vars =>
        [\A r \in RoomId : rooms[r] # None /\ rooms'[r] # None =>
           \A u \in rooms[r].muted \ rooms'[r].muted :
             \/ u \in rooms'[r].blocked
             \/ /\ u \in Participants(rooms[r])
                /\ rooms'[r].members = rooms[r].members]_vars
  BY EvolvesStep DEF Evolves, KeepsMutes
<1> QED BY <1>1, TypeCorrect, PTL DEF Spec, MuteSticks

\* _expire_screen never ends a lease that was renewed while it waited.
THEOREM RenewedLeasesSurvive == Spec => RenewedLeaseSurvives
<1>1. TypeOK /\ [Next]_vars =>
        [\A r \in RoomId :
           (/\ rooms[r] # None /\ rooms'[r] # None
            /\ rooms[r].screen # None /\ ~rooms[r].screen.due
            /\ rooms'[r].screen = None)
           => screen_expiring' = screen_expiring]_vars
  BY EvolvesStep DEF Evolves, KeepsLease
<1> QED BY <1>1, TypeCorrect, PTL DEF Spec, RenewedLeaseSurvives

-----------------------------------------------------------------------------
(* The screen-share slot *)

\* The lease of room r, with the lease callbacks that wait for the lock.
SlotOK(r, rm, waiting) ==
  rm.screen # None =>
    /\ rm.members[rm.screen.owner] # None
    /\ rm.screen.timer = "fired" =>
         rm.screen.due /\ <<r, rm.screen.share>> \in waiting

\* ScreenIsLeased says SlotOK of every room.
LEMMA SlotsAre ==
  ASSUME TypeOK
  PROVE  ScreenIsLeased <=>
           \A r \in RoomId : rooms[r] # None => SlotOK(r, rooms[r], screen_expiring)
<1>1. ASSUME NEW r \in RoomId, rooms[r] # None, rooms[r].screen # None
      PROVE  rooms[r].screen.owner \in User
  BY <1>1, RoomFields, SMTT(30) DEF TypeOK, Screen
<1> QED BY <1>1 DEF ScreenIsLeased, SlotOK, LiveRooms, Participants

\* A step that replaces one room and runs or queues callbacks of that room.
LEMMA SlotOne ==
  ASSUME TypeOK, TypeOK', ScreenIsLeased, NEW r \in RoomId, NEW rm,
         rooms' = [rooms EXCEPT ![r] = rm],
         rm # None => SlotOK(r, rm, screen_expiring'),
         \A q \in RoomId, sh \in ShareId :
           q # r /\ <<q, sh>> \in screen_expiring => <<q, sh>> \in screen_expiring'
  PROVE  ScreenIsLeased'
<1>1. ASSUME NEW q \in RoomId, rooms'[q] # None
      PROVE  SlotOK(q, rooms'[q], screen_expiring')
  <2>1. CASE q = r
    BY <1>1, <2>1, SMTT(30) DEF TypeOK
  <2>2. CASE q # r
    <3>1. rooms'[q] = rooms[q] /\ rooms[q] \in Room
      BY <1>1, <2>2 DEF TypeOK
    <3>2. SlotOK(q, rooms[q], screen_expiring)
      BY <1>1, <3>1, SlotsAre
    <3>3. rooms[q].screen # None => rooms[q].screen.share \in ShareId
      BY <3>1, RoomFields DEF Screen
    <3> QED BY <2>2, <3>1, <3>2, <3>3 DEF SlotOK
  <2> QED BY <2>1, <2>2
<1>2. ASSUME NEW q \in RoomId, rooms'[q] # None, rooms'[q].screen # None
      PROVE  rooms'[q].screen.owner \in User
  BY <1>2, RoomFields DEF TypeOK, Screen
<1> QED BY <1>1, <1>2 DEF ScreenIsLeased, SlotOK, LiveRooms, Participants

\* A room that keeps its slot, its presenter and its callbacks.
LEMMA SlotKept ==
  ASSUME NEW r, NEW rm, NEW new, NEW waiting,
         SlotOK(r, rm, waiting), new.screen = rm.screen,
         rm.screen # None => new.members[rm.screen.owner] # None
  PROVE  SlotOK(r, new, waiting)
BY DEF SlotOK

\* Every step keeps every share leased.
LEMMA LeaseStep ==
  ASSUME TypeOK, TypeOK', ScreenIsLeased, [Next]_vars PROVE ScreenIsLeased'
<1>o. ASSUME NEW r \in RoomId, NEW rm, rooms' = [rooms EXCEPT ![r] = rm],
             rm # None => SlotOK(r, rm, screen_expiring), UNCHANGED screen_expiring
      PROVE  ScreenIsLeased'
  BY <1>o, SlotOne, ZenonT(30)
<1>n. ASSUME UNCHANGED <<rooms, screen_expiring>> PROVE ScreenIsLeased'
  BY <1>n DEF ScreenIsLeased, LiveRooms, Participants
<1>r. ASSUME NEW r \in RoomId, rooms[r] # None
      PROVE  /\ rooms[r] \in Room /\ SlotOK(r, rooms[r], screen_expiring)
             /\ rooms[r].members \in [User -> Member \cup {None}]
             /\ rooms[r].screen # None =>
                  rooms[r].screen \in Screen /\ rooms[r].screen.owner \in User
  <2>1. rooms[r] \in Room
    BY <1>r DEF TypeOK
  <2> QED BY <1>r, <2>1, RoomFields, SlotsAre DEF Screen
<1>1. ASSUME NEW s \in Session, NEW u \in User, Authenticate(s, u)
      PROVE  ScreenIsLeased'
  BY <1>1, <1>n DEF Authenticate, roomVars, timerVars
<1>2. ASSUME NEW s \in Session, NEW r \in RoomId, NEW inv \in Invite,
             NEW k \in Key, NEW o \in WriteOutcome, Create(s, r, inv, k, o)
      PROVE  ScreenIsLeased'
  <2> DEFINE rm == NewRoom(s, authenticated_user[s], inv, k)
  <2>1. SlotOK(r, rm, screen_expiring)
    BY DEF NewRoom, SlotOK
  <2> HIDE DEF rm
  <2>2. UNCHANGED screen_expiring
    BY <1>2, Zenon DEF Create, timerVars
  <2>3. UNCHANGED rooms \/ rooms' = [rooms EXCEPT ![r] = rm]
    BY <1>2, Zenon DEF Create, rm
  <2> QED BY <1>n, <1>o, <2>1, <2>2, <2>3, SMTT(30)
<1>3. ASSUME NEW s \in Session, NEW r \in RoomId, NEW inv \in Invite,
             NEW k \in Key, NEW o \in WriteOutcome, Join(s, r, inv, k, o)
      PROVE  ScreenIsLeased'
  <2> DEFINE rm == Joined(rooms[r], authenticated_user[s], s, k)
  <2>1. authenticated_user[s] \in User /\ rooms[r] # None
    BY <1>3 DEF Join, MayJoin, TypeOK
  <2>2. /\ rm.screen = rooms[r].screen
        /\ rm.members = [rooms[r].members EXCEPT ![authenticated_user[s]] =
                           [session |-> s, key |-> k]]
    <3>1. rooms[r] \in Room
      BY <1>r, <2>1
    <3> QED BY <2>1, <3>1, JoinedFacts DEF SameScreen
  <2>3. rooms' = [rooms EXCEPT ![r] = rm] /\ UNCHANGED screen_expiring
    BY <1>3, ZenonT(30) DEF Join, timerVars
  <2> HIDE DEF rm
  <2>4. rooms[r].screen # None => rm.members[rooms[r].screen.owner] # None
    <3>1. [session |-> s, key |-> k] # None
      BY <1>3, MemberValue
    <3>2. rooms[r].screen # None =>
            /\ rooms[r].members \in [User -> Member \cup {None}]
            /\ rooms[r].screen.owner \in User
            /\ rooms[r].members[rooms[r].screen.owner] # None
      BY <1>r, <2>1, ZenonT(30) DEF SlotOK
    <3> QED BY <2>2, <3>1, <3>2
  <2>5. SlotOK(r, rm, screen_expiring)
    BY <1>r, <2>1, <2>2, <2>4, SlotKept
  <2> QED BY <1>o, <2>3, <2>5, ZenonT(30)
<1>4. ASSUME NEW r \in RoomId, rooms[r] # None, NEW rm, NEW u \in User,
             rooms' = [rooms EXCEPT ![r] = rm], UNCHANGED screen_expiring,
             rm.members = [rooms[r].members EXCEPT ![u] = None],
             \/ rm.screen = None
             \/ /\ rm.screen = rooms[r].screen
                /\ rooms[r].screen # None => rooms[r].screen.owner # u
      PROVE  ScreenIsLeased'
  <2>1. SlotOK(r, rm, screen_expiring)
    <3>1. CASE rm.screen = None
      BY <3>1 DEF SlotOK
    <3>2. CASE rm.screen = rooms[r].screen /\ rm.screen # None
      <4>1. rm.members[rooms[r].screen.owner] # None
        BY <1>4, <1>r, <3>2, ZenonT(30) DEF SlotOK
      <4> QED BY <1>4, <1>r, <3>2, <4>1, SlotKept
    <3> QED BY <1>4, <3>1, <3>2
  <2> QED BY <1>4, <1>o, <2>1, ZenonT(30)
<1>5. ASSUME NEW r \in RoomId, rooms[r] # None, NEW rm, rm.members = rooms[r].members,
             rooms' = [rooms EXCEPT ![r] = rm], UNCHANGED screen_expiring,
             rm.screen = None \/ rm.screen = rooms[r].screen
      PROVE  ScreenIsLeased'
  <2>1. SlotOK(r, rm, screen_expiring)
    BY <1>5, <1>r DEF SlotOK
  <2> QED BY <1>5, <1>o, <2>1, Zenon
<1>6. ASSUME NEW s \in Session, NEW r \in RoomId, NEW o \in WriteOutcome,
             rooms[r] # None, Depart(s, r, o)
      PROVE  ScreenIsLeased'
  <2>0. UNCHANGED screen_expiring
    BY <1>6 DEF Depart
  <2>1. CASE authenticated_user[s] = rooms[r].initiator
    BY <1>6, <1>o, <2>0, <2>1, Zenon DEF Depart, EndRoom
  <2>2. CASE authenticated_user[s] # rooms[r].initiator
    <3>1. RemoveMember(s, r, o)
      BY <1>6, <2>2 DEF Depart
    <3>2. CASE IsMember(rooms[r], authenticated_user[s], s)
      <4> DEFINE rm == WithoutMember(rooms[r], authenticated_user[s])
      <4>1. authenticated_user[s] \in User
        BY <3>2 DEF IsMember
      <4>2. rooms' = [rooms EXCEPT ![r] = rm]
        BY <3>1, <3>2 DEF RemoveMember
      <4>3. /\ rm.members = [rooms[r].members EXCEPT ![authenticated_user[s]] = None]
            /\ \/ rm.screen = None
               \/ /\ rm.screen = rooms[r].screen
                  /\ rooms[r].screen # None =>
                       rooms[r].screen.owner # authenticated_user[s]
        BY <1>6, <1>r, <4>1, WithoutMemberFacts, ZenonT(30) DEF SameScreen
      <4> HIDE DEF rm
      <4> QED BY <1>4, <1>6, <2>0, <4>1, <4>2, <4>3, Zenon
    <3>3. CASE ~IsMember(rooms[r], authenticated_user[s], s)
      BY <1>n, <2>0, <3>1, <3>3 DEF RemoveMember
    <3> QED BY <3>2, <3>3, Zenon
  <2> QED BY <2>1, <2>2
<1>7. ASSUME NEW s \in Session, NEW r \in RoomId, NEW t \in User,
             NEW o \in WriteOutcome,
             Mute(s, r, t, o) \/ AllowMic(s, r, t, o) \/ Readmit(s, r, t, o)
      PROVE  ScreenIsLeased'
  <2>1. PICK rm \in Room : Edited(r, t, rm)
    BY <1>7, EditShape
  <2>2. rooms[r] # None /\ UNCHANGED screen_expiring
    BY <1>7, EditShape
  <2> QED BY <1>5, <2>1, <2>2, Zenon DEF Edited, SameScreen
<1>8. ASSUME NEW s \in Session, NEW r \in RoomId, NEW t \in User,
             NEW o1 \in WriteOutcome, NEW o2 \in WriteOutcome,
             Remove(s, r, t, o1, o2)
      PROVE  ScreenIsLeased'
  <2> DEFINE d == Dropped(r, t)  l == Lifted(d, t)
             tu == authenticated_user[rooms[r].members[t].session]
  <2>1. rooms[r] # None /\ rooms[r] \in Room /\ UNCHANGED screen_expiring
    BY <1>8, <1>r, Zenon DEF Remove, MayModerate, timerVars
  <2>2. /\ d \in Room
        /\ \/ d.members = rooms[r].members /\ d.screen = rooms[r].screen
           \/ /\ tu \in User /\ d.members = [rooms[r].members EXCEPT ![tu] = None]
              /\ \/ d.screen = None
                 \/ /\ d.screen = rooms[r].screen
                    /\ rooms[r].screen # None => rooms[r].screen.owner # tu
    BY <2>1, DroppedFacts, Zenon DEF SameScreen, IsMember
  <2>3. l.members = d.members /\ l.screen = d.screen
    BY <2>2, LiftedFacts, Zenon DEF SameScreen
  <2>4. rooms' = [rooms EXCEPT ![r] = d] \/ rooms' = [rooms EXCEPT ![r] = l]
    BY <1>8, RemoveWrites, Zenon
  <2> HIDE DEF d, l, tu
  <2>5. PICK rm \in {d, l} : rooms' = [rooms EXCEPT ![r] = rm]
    BY <2>4
  <2>6. rm.members = d.members /\ rm.screen = d.screen
    BY <2>3
  <2>7. CASE d.members = rooms[r].members /\ d.screen = rooms[r].screen
    BY <1>5, <2>1, <2>5, <2>6, <2>7, Zenon
  <2>8. CASE ~(d.members = rooms[r].members /\ d.screen = rooms[r].screen)
    BY <1>4, <2>1, <2>2, <2>5, <2>6, <2>8, ZenonT(30)
  <2> QED BY <2>7, <2>8
<1>9. ASSUME NEW s \in Session, NEW r \in RoomId, NEW sh \in ShareId,
             \/ ScreenStart(s, r, sh) \/ ScreenStop(s, r, sh)
             \/ ScreenRenew(s, r, sh)
      PROVE  ScreenIsLeased'
  <2> DEFINE u == authenticated_user[s]
             set == Settled(rooms[r])  clear == ClearScreen(set)
             lease == Leased(set, u, sh)
  <2>1. /\ rooms[r] # None /\ rooms[r] \in Room /\ u \in User
        /\ rooms[r].members[u] # None /\ UNCHANGED screen_expiring
    BY <1>9, <1>r
    DEF ScreenStart, ScreenStop, ScreenRenew, MayShare, IsMember, SetScreen, timerVars
  <2>2. /\ set \in Room /\ set.members = rooms[r].members
        /\ set.screen = None \/ set.screen = rooms[r].screen
    BY <2>1, SettledFacts, Zenon DEF SameScreen
  <2>3. \/ rooms' = [rooms EXCEPT ![r] = set]
        \/ rooms' = [rooms EXCEPT ![r] = clear]
        \/ rooms' = [rooms EXCEPT ![r] = lease]
    BY <1>9 DEF ScreenStart, ScreenStop, ScreenRenew, SetScreen
  <2> HIDE DEF set
  <2>4. clear.screen = None /\ clear.members = rooms[r].members
    BY <2>2, ClearScreenFacts
  <2>5. /\ lease.members = rooms[r].members
        /\ lease.screen = [owner |-> u, share |-> sh, due |-> FALSE, timer |-> "armed"]
    BY <2>1, <2>2, LeasedFacts, ZenonT(30)
  <2> HIDE DEF clear, lease, u
  <2>6. SlotOK(r, lease, screen_expiring)
    BY <2>1, <2>5 DEF SlotOK
  <2> QED BY <1>5, <1>o, <2>1, <2>2, <2>3, <2>4, <2>6, ZenonT(30)
<1>10. ASSUME NEW r \in RoomId, RoomDeadline(r) \/ RoomTimerFires(r)
       PROVE  ScreenIsLeased'
  <2> DEFINE a == [rooms[r] EXCEPT !.expired = TRUE]
             b == [rooms[r] EXCEPT !.timer = "fired"]
  <2>1. rooms[r] # None /\ rooms[r] \in Room /\ UNCHANGED screen_expiring
    BY <1>10, <1>r DEF RoomDeadline, RoomTimerFires, timerVars
  <2>2. rooms' = [rooms EXCEPT ![r] = a] \/ rooms' = [rooms EXCEPT ![r] = b]
    BY <1>10 DEF RoomDeadline, RoomTimerFires
  <2>3. /\ a.members = rooms[r].members /\ a.screen = rooms[r].screen
        /\ b.members = rooms[r].members /\ b.screen = rooms[r].screen
    BY <2>1, FlagFacts, Zenon DEF SameScreen
  <2> HIDE DEF a, b
  <2> QED BY <1>5, <2>1, <2>2, <2>3, SMTT(30)
<1>11. ASSUME NEW r \in RoomId, LeaseElapses(r) PROVE ScreenIsLeased'
  <2> DEFINE rm == [rooms[r] EXCEPT !.screen.due = TRUE]
  <2>1. /\ rooms[r] # None /\ rooms[r] \in Room /\ rooms[r].screen # None
        /\ UNCHANGED screen_expiring /\ rooms' = [rooms EXCEPT ![r] = rm]
    BY <1>11, <1>r DEF LeaseElapses, timerVars
  <2>2. /\ rm.members = rooms[r].members /\ rm.screen # None
        /\ rm.screen.owner = rooms[r].screen.owner
        /\ rm.screen.share = rooms[r].screen.share
        /\ rm.screen.due = TRUE /\ rm.screen.timer = rooms[r].screen.timer
    BY <2>1, DueFacts, Zenon DEF SameShare
  <2> HIDE DEF rm
  <2>3. SlotOK(r, rm, screen_expiring)
    BY <1>r, <2>1, <2>2, Zenon DEF SlotOK
  <2> QED BY <1>o, <2>1, <2>3, ZenonT(30)
<1>12. ASSUME NEW r \in RoomId, ScreenTimerFires(r) PROVE ScreenIsLeased'
  <2> DEFINE rm == [rooms[r] EXCEPT !.screen.timer = "fired"]
  <2>1. /\ rooms[r] # None /\ rooms[r] \in Room /\ rooms[r].screen # None
        /\ rooms[r].screen.due
        /\ screen_expiring' = screen_expiring \cup {<<r, rooms[r].screen.share>>}
        /\ rooms' = [rooms EXCEPT ![r] = rm]
    BY <1>12, <1>r DEF ScreenTimerFires
  <2>2. /\ rm.members = rooms[r].members /\ rm.screen # None
        /\ rm.screen.owner = rooms[r].screen.owner
        /\ rm.screen.share = rooms[r].screen.share
        /\ rm.screen.due = rooms[r].screen.due
    BY <2>1, FiredFacts, Zenon DEF SameShare
  <2> HIDE DEF rm
  <2>3. SlotOK(r, rm, screen_expiring')
    BY <1>r, <2>1, <2>2, Zenon DEF SlotOK
  <2> QED BY <2>1, <2>3, SlotOne, ZenonT(30)
<1>13. ASSUME NEW r \in RoomId, NEW o \in WriteOutcome, ExpireRoom(r, o)
       PROVE  ScreenIsLeased'
  BY <1>13, <1>n, <1>o, ZenonT(30) DEF ExpireRoom, EndRoom, roomVars
<1>14. ASSUME NEW r \in RoomId, NEW sh \in ShareId, ExpireScreen(r, sh)
       PROVE  ScreenIsLeased'
  <2>0. \A q \in RoomId, h \in ShareId :
          q # r /\ <<q, h>> \in screen_expiring => <<q, h>> \in screen_expiring'
    BY <1>14 DEF ExpireScreen
  <2>1. CASE ScreenLapsed(r, sh)
    <3>1. rooms[r] \in Room
      BY <1>r, <2>1, SMTT(30) DEF ScreenLapsed
    <3>2. SlotOK(r, ClearScreen(rooms[r]), screen_expiring')
      BY <3>1, ClearScreenFacts DEF SlotOK
    <3> QED BY <1>14, <2>0, <2>1, <3>2, SlotOne, ZenonT(30) DEF ExpireScreen
  <2>2. CASE ~ScreenLapsed(r, sh)
    <3>1. rooms' = [rooms EXCEPT ![r] = rooms[r]]
      BY <1>14, <2>2, Zenon DEF ExpireScreen, TypeOK
    <3>2. rooms[r] # None => SlotOK(r, rooms[r], screen_expiring')
      <4> SUFFICES ASSUME rooms[r] # None, rooms[r].screen # None
                   PROVE  SlotOK(r, rooms[r], screen_expiring')
        BY DEF SlotOK
      <4>1. SlotOK(r, rooms[r], screen_expiring)
        BY <1>r
      <4>2. ~(rooms[r].screen.share = sh /\ rooms[r].screen.due)
        BY <2>2, Zenon DEF ScreenLapsed
      <4>3. CASE rooms[r].screen.timer = "fired"
        <5>1. rooms[r].screen.share # sh
          BY <4>1, <4>2, <4>3, Zenon DEF SlotOK
        <5>2. <<r, rooms[r].screen.share>> \in screen_expiring'
          BY <1>14, <4>1, <4>3, <5>1, SMTT(30) DEF SlotOK, ExpireScreen
        <5> QED BY <4>1, <4>3, <5>2, Zenon DEF SlotOK
      <4>4. CASE rooms[r].screen.timer # "fired"
        BY <4>1, <4>4 DEF SlotOK
      <4> QED BY <4>3, <4>4, Zenon
    <3> QED BY <2>0, <3>1, <3>2, SlotOne, ZenonT(30)
  <2> QED BY <2>1, <2>2, SMTT(30)
<1>15. CASE Crash
  BY <1>15 DEF Crash, ScreenIsLeased, LiveRooms
<1>16. CASE Boot
  BY <1>16, <1>n DEF Boot, timerVars
<1>17. CASE UNCHANGED vars
  BY <1>17, <1>n DEF vars, roomVars, timerVars
<1>18. ASSUME NEW s \in Session, NEW o \in WriteOutcome,
              Disconnected(s, o) \/ \E r \in RoomId : Leave(s, r, o)
       PROVE  ScreenIsLeased'
  BY <1>6, <1>18, Zenon DEF Disconnected, Leave, TypeOK
<1>19. ASSUME NEW s \in Session, Request(s) PROVE ScreenIsLeased'
  BY <1>1, <1>2, <1>3, <1>7, <1>8, <1>9, <1>18, <1>19, Zenon DEF Request
<1>20. ASSUME NEW r \in RoomId, Timer(r) PROVE ScreenIsLeased'
  BY <1>10, <1>11, <1>12, <1>13, <1>14, <1>20, SMTT(30) DEF Timer
<1> QED BY <1>15, <1>16, <1>17, <1>18, <1>19, <1>20 DEF Next, Step

\* The presenter is always a member, and a lease always has a timer or a
\* waiting callback that ends it, whatever timers fired and were cancelled
\* late and whatever policy writes failed (screen_control, _expire_screen,
\* _remove_member_locked).
THEOREM ScreenLeased == Spec => []ScreenIsLeased
<1>1. Init => ScreenIsLeased
  BY DEF Init, ScreenIsLeased, LiveRooms
<1>2. TypeOK /\ TypeOK' /\ ScreenIsLeased /\ [Next]_vars => ScreenIsLeased'
  BY LeaseStep
<1> QED BY <1>1, <1>2, TypeCorrect, PTL DEF Spec

-----------------------------------------------------------------------------
(* The steps that move nobody *)

\* A step that moves nobody: no session is bound or released, and at most one
\* room changes, which keeps its members and its initiator and blocks nobody.
Quiet ==
  /\ UNCHANGED <<session_rooms, call_room_id, authenticated_user>>
  /\ \/ UNCHANGED rooms
     \/ \E r \in RoomId : \E rm \in Room :
          /\ rooms[r] # None /\ rooms' = [rooms EXCEPT ![r] = rm]
          /\ rm.members = rooms[r].members /\ rm.initiator = rooms[r].initiator
          /\ rm.blocked \subseteq rooms[r].blocked

\* One room changed that way.
LEMMA QuietOne ==
  ASSUME NEW r \in RoomId, NEW rm \in Room, rooms[r] # None,
         rooms' = [rooms EXCEPT ![r] = rm], SameTimer(rm, rooms[r]) \/
           rm.initiator = rooms[r].initiator,
         rm.members = rooms[r].members, rm.blocked \subseteq rooms[r].blocked,
         UNCHANGED <<session_rooms, call_room_id, authenticated_user>>
  PROVE  Quiet
BY Zenon DEF Quiet, SameTimer

\* The edits of the moderation lists, the screen requests, and everything that
\* timers do short of ending a room.
LEMMA QuietSteps ==
  ASSUME TypeOK
  PROVE  /\ \A s \in Session, r \in RoomId, t \in User, o \in WriteOutcome :
              Mute(s, r, t, o) \/ AllowMic(s, r, t, o) \/ Readmit(s, r, t, o) => Quiet
         /\ \A s \in Session, r \in RoomId, sh \in ShareId :
              (\/ ScreenStart(s, r, sh) \/ ScreenStop(s, r, sh)
               \/ ScreenRenew(s, r, sh)) => Quiet
         /\ \A r \in RoomId :
              (\/ RoomDeadline(r) \/ RoomTimerFires(r) \/ LeaseElapses(r)
               \/ ScreenTimerFires(r) \/ \E sh \in ShareId : ExpireScreen(r, sh))
              => Quiet
<1>1. ASSUME NEW s \in Session, NEW r \in RoomId, NEW t \in User,
             NEW o \in WriteOutcome,
             Mute(s, r, t, o) \/ AllowMic(s, r, t, o) \/ Readmit(s, r, t, o)
      PROVE  Quiet
  <2>1. PICK rm \in Room : Edited(r, t, rm)
    BY <1>1, EditShape
  <2>2. rooms[r] # None /\ UNCHANGED <<session_rooms, call_room_id, authenticated_user>>
    BY <1>1, EditShape, Zenon
  <2> QED BY <2>1, <2>2, QuietOne, Zenon DEF Edited
<1>2. ASSUME NEW s \in Session, NEW r \in RoomId, NEW sh \in ShareId,
             \/ ScreenStart(s, r, sh) \/ ScreenStop(s, r, sh)
             \/ ScreenRenew(s, r, sh)
      PROVE  Quiet
  <2> DEFINE u == authenticated_user[s]
             set == Settled(rooms[r])  clear == ClearScreen(set)
             lease == Leased(set, u, sh)
  <2>1. /\ rooms[r] # None /\ rooms[r] \in Room /\ u \in User
        /\ UNCHANGED <<session_rooms, call_room_id, authenticated_user>>
    BY <1>2, Zenon
    DEF ScreenStart, ScreenStop, ScreenRenew, MayShare, IsMember, SetScreen, TypeOK
  <2>2. \/ rooms' = [rooms EXCEPT ![r] = set]
        \/ rooms' = [rooms EXCEPT ![r] = clear]
        \/ rooms' = [rooms EXCEPT ![r] = lease]
    BY <1>2 DEF ScreenStart, ScreenStop, ScreenRenew, SetScreen
  <2>3. /\ set \in Room /\ set.members = rooms[r].members
        /\ set.initiator = rooms[r].initiator /\ set.blocked = rooms[r].blocked
    BY <2>1, SettledFacts, Zenon DEF SameTimer, SameLists
  <2> HIDE DEF set, u
  <2>4. /\ clear \in Room /\ clear.members = set.members
        /\ clear.initiator = set.initiator /\ clear.blocked = set.blocked
    BY <2>3, ClearScreenFacts, Zenon DEF SameTimer, SameLists
  <2>5. /\ lease \in Room /\ lease.members = set.members
        /\ lease.initiator = set.initiator /\ lease.blocked = set.blocked
    BY <2>1, <2>3, LeasedFacts, ZenonT(30) DEF SameTimer, SameLists
  <2> HIDE DEF clear, lease
  <2> QED BY <2>1, <2>2, <2>3, <2>4, <2>5, QuietOne, Zenon
<1>3. ASSUME NEW r \in RoomId, RoomDeadline(r) \/ RoomTimerFires(r) PROVE Quiet
  <2> DEFINE a == [rooms[r] EXCEPT !.expired = TRUE]
             b == [rooms[r] EXCEPT !.timer = "fired"]
  <2>1. /\ rooms[r] # None /\ rooms[r] \in Room
        /\ UNCHANGED <<session_rooms, call_room_id, authenticated_user>>
    BY <1>3 DEF RoomDeadline, RoomTimerFires, TypeOK
  <2>2. rooms' = [rooms EXCEPT ![r] = a] \/ rooms' = [rooms EXCEPT ![r] = b]
    BY <1>3 DEF RoomDeadline, RoomTimerFires
  <2>3. /\ a \in Room /\ a.members = rooms[r].members
        /\ a.initiator = rooms[r].initiator /\ a.blocked = rooms[r].blocked
        /\ b \in Room /\ b.members = rooms[r].members
        /\ b.initiator = rooms[r].initiator /\ b.blocked = rooms[r].blocked
    BY <2>1, FlagFacts, ZenonT(30) DEF SameLists
  <2> HIDE DEF a, b
  <2> QED BY <2>1, <2>2, <2>3, QuietOne
<1>4. ASSUME NEW r \in RoomId, LeaseElapses(r) \/ ScreenTimerFires(r) PROVE Quiet
  <2> DEFINE a == [rooms[r] EXCEPT !.screen.due = TRUE]
             b == [rooms[r] EXCEPT !.screen.timer = "fired"]
  <2>1. /\ rooms[r] # None /\ rooms[r] \in Room /\ rooms[r].screen # None
        /\ UNCHANGED <<session_rooms, call_room_id, authenticated_user>>
    BY <1>4, SMTT(30) DEF LeaseElapses, ScreenTimerFires, TypeOK
  <2>2. rooms' = [rooms EXCEPT ![r] = a] \/ rooms' = [rooms EXCEPT ![r] = b]
    BY <1>4 DEF LeaseElapses, ScreenTimerFires
  <2>3. a \in Room /\ SameShare(a, rooms[r]) /\ b \in Room /\ SameShare(b, rooms[r])
    BY <2>1, DueFacts, FiredFacts, Zenon
  <2> HIDE DEF a, b
  <2> QED BY <2>1, <2>2, <2>3, QuietOne, SMTT(30) DEF SameShare, SameTimer, SameLists
<1>5. ASSUME NEW r \in RoomId, NEW sh \in ShareId, ExpireScreen(r, sh) PROVE Quiet
  <2>1. UNCHANGED <<session_rooms, call_room_id, authenticated_user>>
    BY <1>5 DEF ExpireScreen
  <2>2. CASE ScreenLapsed(r, sh)
    <3>1. /\ rooms[r] # None /\ rooms[r] \in Room
          /\ rooms' = [rooms EXCEPT ![r] = ClearScreen(rooms[r])]
      BY <1>5, <2>2 DEF ScreenLapsed, ExpireScreen, TypeOK
    <3> QED BY <2>1, <3>1, ClearScreenFacts, QuietOne, ZenonT(30) DEF SameTimer, SameLists
  <2>3. CASE ~ScreenLapsed(r, sh)
    BY <1>5, <2>1, <2>3, Zenon DEF ExpireScreen, Quiet
  <2> QED BY <2>2, <2>3
<1> QED BY <1>1, <1>2, <1>3, <1>4, <1>5

\* What is left is to create or end a room, to join, to depart and to remove.
LEMMA StepKinds ==
  ASSUME TypeOK, [Next]_vars
  PROVE  \/ Quiet \/ Crash
         \/ \E s \in Session, u \in User : Authenticate(s, u)
         \/ \E s \in Session, r \in RoomId, inv \in Invite, k \in Key,
               o \in WriteOutcome : Create(s, r, inv, k, o) \/ Join(s, r, inv, k, o)
         \/ \E s \in Session, r \in RoomId, o \in WriteOutcome :
              session_rooms[s] = r /\ rooms[r] # None /\ Depart(s, r, o)
         \/ \E s \in Session, r \in RoomId, t \in User,
               o1 \in WriteOutcome, o2 \in WriteOutcome : Remove(s, r, t, o1, o2)
         \/ \E r \in RoomId, o \in WriteOutcome :
              rooms[r] # None /\ EndRoom(r, o, {}) /\ UNCHANGED authenticated_user
<1>1. CASE UNCHANGED vars \/ Boot
  BY <1>1, Zenon DEF vars, roomVars, Boot, Quiet
<1>2. ASSUME NEW s \in Session, NEW o \in WriteOutcome, Disconnected(s, o)
      PROVE  \E r \in RoomId : session_rooms[s] = r /\ rooms[r] # None /\ Depart(s, r, o)
  BY <1>2, Zenon DEF Disconnected, TypeOK
<1>3. ASSUME NEW r \in RoomId, NEW o \in WriteOutcome, ExpireRoom(r, o)
      PROVE  Quiet \/ (rooms[r] # None /\ EndRoom(r, o, {}) /\ UNCHANGED authenticated_user)
  BY <1>3, Zenon DEF ExpireRoom, Quiet, roomVars
<1>4. CASE \E r \in RoomId : Timer(r)
  BY <1>3, <1>4, QuietSteps, Zenon DEF Timer
<1>5. CASE \E s \in Session : Request(s)
  <2>1. PICK s \in Session : Request(s)
    BY <1>5, Zenon
  <2>2. CASE \E u \in User : Authenticate(s, u)
    BY <2>2, Zenon
  <2>3. CASE \E r \in RoomId, o \in WriteOutcome : Leave(s, r, o)
    BY <2>3, Zenon DEF Leave
  <2>4. CASE \E r \in RoomId, o \in WriteOutcome, inv \in Invite, k \in Key :
               Create(s, r, inv, k, o) \/ Join(s, r, inv, k, o)
    BY <2>4, Zenon
  <2>5. CASE \E r \in RoomId, o \in WriteOutcome, t \in User :
               Mute(s, r, t, o) \/ AllowMic(s, r, t, o) \/ Readmit(s, r, t, o)
    BY <2>5, QuietSteps, Zenon
  <2>6. CASE \E r \in RoomId, o \in WriteOutcome, t \in User, o2 \in WriteOutcome :
               Remove(s, r, t, o, o2)
    BY <2>6, Zenon
  <2>7. CASE \E r \in RoomId, sh \in ShareId :
               \/ ScreenStart(s, r, sh) \/ ScreenStop(s, r, sh)
               \/ ScreenRenew(s, r, sh)
    BY <2>7, QuietSteps, Zenon
  <2> QED BY <2>1, <2>2, <2>3, <2>4, <2>5, <2>6, <2>7, ZenonT(30) DEF Request
<1> QED BY <1>1, <1>2, <1>4, <1>5, Zenon DEF Next, Step

=============================================================================
