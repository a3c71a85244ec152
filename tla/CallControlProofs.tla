-------------------------- MODULE CallControlProofs --------------------------
(***************************************************************************)
(* Who is in a room, which several handlers decide together, and that call *)
(* control implements the room state machine: whatever links close,        *)
(* sessions move, requests wait and sends fail around the lock, what        *)
(* happens under it is a step of CallRooms, so what is proved of CallRooms  *)
(* holds of CallControl.                                                   *)
(***************************************************************************)
EXTENDS CallControl, CallStepsProofs

-----------------------------------------------------------------------------
(* Members and their sessions *)

\* Member u of room r is in it with a session that proves u and, when it proves
\* no other address, is bound to r and still holds the account u.
Held(r, u, s) ==
  /\ u \in Accounts[s]
  /\ Steady(s) => /\ session_rooms[s] = r /\ call_room_id[s] = r
                  /\ authenticated_user[s] = u

StillHeld(r, u, s) ==
  /\ u \in Accounts[s]
  /\ Steady(s) => /\ session_rooms'[s] = r /\ call_room_id'[s] = r
                  /\ authenticated_user'[s] = u

\* The first half of MembersAreBound, with the accounts that make it hold.  It
\* needs no unlink to work: what a failed unlink leaves behind is a session
\* bound to a room that is gone, not a member that is not bound.
MembersHold ==
  /\ \A s \in Session :
       authenticated_user[s] # None => authenticated_user[s] \in Accounts[s]
  /\ \A r \in RoomId, u \in User :
       rooms[r] # None /\ rooms[r].members[u] # None =>
         Held(r, u, rooms[r].members[u].session)

\* A step that replaces one room and, of the sessions with one account, binds
\* or releases only those that are in no other room.
LEMMA HoldOne ==
  ASSUME TypeOK, MembersHold, UNCHANGED authenticated_user,
         NEW r \in RoomId, NEW rm, rooms' = [rooms EXCEPT ![r] = rm],
         \A s \in Session : Steady(s) =>
           \/ session_rooms[s] \in {None, r}
           \/ /\ session_rooms'[s] = session_rooms[s]
              /\ call_room_id'[s] = call_room_id[s],
         rm # None => \A u \in User : rm.members[u] # None =>
           StillHeld(r, u, rm.members[u].session)
  PROVE  MembersHold'
<1>1. ASSUME NEW q \in RoomId, NEW u \in User, rooms'[q] # None,
             rooms'[q].members[u] # None
      PROVE  StillHeld(q, u, rooms'[q].members[u].session)
  <2>1. CASE q = r
    <3>1. rooms'[q] = rm
      BY <2>1 DEF TypeOK
    <3> QED BY <1>1, <2>1, <3>1
  <2>2. CASE q # r
    <3> DEFINE s == rooms[q].members[u].session
    <3>1. rooms'[q] = rooms[q]
      BY <2>2 DEF TypeOK
    <3>2. rooms[q] \in Room
      BY <1>1, <3>1 DEF TypeOK
    <3>3. s \in Session
      BY <1>1, <3>1, <3>2, RoomFields DEF Member
    <3>4. Held(q, u, s)
      BY <1>1, <3>1 DEF MembersHold
    <3> HIDE DEF s
    <3>5. Steady(s) => session_rooms[s] \notin {None, r}
      BY <2>2, <3>4, NoneIsFresh DEF Held
    <3>6. StillHeld(q, u, s)
      BY <3>3, <3>4, <3>5 DEF Held, StillHeld
    <3> QED BY <3>1, <3>6 DEF s
  <2> QED BY <2>1, <2>2
<1> QED BY <1>1 DEF MembersHold, Held, StillHeld

\* Who is in a room once an account has joined it (RoomService.join).
LEMMA JoinedMembers ==
  ASSUME NEW rm \in Room, NEW u \in User, NEW s \in Session, NEW k \in Key
  PROVE  /\ Joined(rm, u, s, k) \in Room
         /\ Joined(rm, u, s, k).members =
              [rm.members EXCEPT ![u] = [session |-> s, key |-> k]]
         /\ Joined(rm, u, s, k).initiator = rm.initiator
         /\ Joined(rm, u, s, k).blocked = rm.blocked
<1> DEFINE m == [session |-> s, key |-> k]
           f == [rm.members EXCEPT ![u] = m]
           v == IF rm.members[u] = m THEN rm.revision ELSE rm.revision + 1
<1>1. f \in [User -> Member \cup {None}] /\ v \in Nat
  BY RoomFields DEF Member
<1>2. Joined(rm, u, s, k) = [rm EXCEPT !.members = f, !.revision = v]
  BY DEF Joined
<1> HIDE DEF f, v
<1>3. [rm EXCEPT !.members = f, !.revision = v] \in Room
  BY <1>1, SetMembers, Zenon
<1>4. LET new == [rm EXCEPT !.members = f, !.revision = v]
      IN  new.members = f /\ new.initiator = rm.initiator /\ new.blocked = rm.blocked
  BY DEF Room
<1> QED BY <1>2, <1>3, <1>4, Zenon DEF f

\* The same for a room that there is.
LEMMA JoinedRoom ==
  ASSUME TypeOK, NEW r \in RoomId, rooms[r] # None,
         NEW u \in User, NEW s \in Session, NEW k \in Key
  PROVE  /\ Joined(rooms[r], u, s, k) \in Room
         /\ Joined(rooms[r], u, s, k).members =
              [rooms[r].members EXCEPT ![u] = [session |-> s, key |-> k]]
         /\ Joined(rooms[r], u, s, k).initiator = rooms[r].initiator
         /\ Joined(rooms[r], u, s, k).blocked = rooms[r].blocked
<1>1. rooms[r] \in Room
  BY MemberFacts, Zenon
<1> QED BY <1>1, JoinedMembers, SMTT(30)

\* Every step keeps the members bound, whoever else changes accounts.
LEMMA HoldStep ==
  ASSUME TypeOK, MembersHold, [Next]_vars
  PROVE  MembersHold'
<1>1. CASE Quiet
  <2>1. CASE UNCHANGED rooms
    BY <1>1, <2>1 DEF Quiet, MembersHold, Held, StillHeld
  <2>2. ASSUME NEW r \in RoomId, NEW rm \in Room, rooms[r] # None,
               rooms' = [rooms EXCEPT ![r] = rm], rm.members = rooms[r].members
        PROVE  MembersHold'
    <3>1. \A u \in User : rm.members[u] # None => StillHeld(r, u, rm.members[u].session)
      BY <1>1, <2>2, SMTT(30) DEF MembersHold, Quiet, Held, StillHeld
    <3> QED BY <1>1, <2>2, <3>1, HoldOne, ZenonT(30) DEF Quiet
  <2> QED BY <1>1, <2>1, <2>2, SMTT(30) DEF Quiet
<1>2. CASE Crash
  BY <1>2, SMTT(30) DEF Crash, MembersHold, Held, StillHeld
<1>3. ASSUME NEW s \in Session, NEW u \in User, Authenticate(s, u)
      PROVE  MembersHold'
  <2>1. \A t \in Session : authenticated_user'[t] # None =>
          authenticated_user'[t] \in Accounts[t]
    BY <1>3 DEF Authenticate, MembersHold, TypeOK
  <2>2. ASSUME NEW r \in RoomId, NEW v \in User, rooms[r] # None,
               rooms[r].members[v] # None
        PROVE  StillHeld(r, v, rooms[r].members[v].session)
    <3> DEFINE t == rooms[r].members[v].session
    <3>1. t \in Session /\ Held(r, v, t)
      BY <2>2, MemberFacts DEF MembersHold
    <3> HIDE DEF t
    <3>2. CASE t = s
      <4>1. v \in Accounts[s] /\ u \in Accounts[s] /\ authenticated_user'[s] = u
        BY <1>3, <3>1, <3>2, Zenon DEF Authenticate, Held, TypeOK
      <4>2. Steady(s) => u = v
        BY <4>1, Zenon DEF Steady
      <4>3. StillHeld(r, v, t)
        BY <1>3, <3>1, <3>2, <4>1, <4>2, Zenon DEF Authenticate, roomVars, Held, StillHeld
      <4> QED BY <4>3 DEF t, Authenticate, roomVars
    <3>3. CASE t # s
      <4>1. StillHeld(r, v, t)
        BY <1>3, <3>1, <3>3 DEF Authenticate, roomVars, Held, StillHeld, TypeOK
      <4> QED BY <4>1 DEF t, Authenticate, roomVars
    <3> QED BY <3>2, <3>3
  <2> QED BY <1>3, <2>1, <2>2
          DEF MembersHold, Held, StillHeld, Authenticate, roomVars
<1>4. ASSUME NEW s \in Session, NEW r \in RoomId, NEW inv \in Invite,
             NEW k \in Key, NEW o \in WriteOutcome, Create(s, r, inv, k, o)
      PROVE  MembersHold'
  <2> DEFINE rm == NewRoom(s, authenticated_user[s], inv, k)
  <2>1. /\ session_rooms[s] = None /\ rooms[r] = None /\ UNCHANGED authenticated_user
        /\ authenticated_user[s] \in User /\ authenticated_user[s] \in Accounts[s]
    BY <1>4, Zenon DEF Create, TypeOK, MembersHold
  <2>2. \A t \in Session \ {s} : /\ session_rooms'[t] = session_rooms[t]
                                 /\ call_room_id'[t] = call_room_id[t]
    BY <1>4 DEF Create, TypeOK
  <2>3. CASE o = "ok"
    <3>1. /\ rooms' = [rooms EXCEPT ![r] = rm]
          /\ session_rooms'[s] = r /\ call_room_id'[s] = r
      BY <1>4, <2>3 DEF Create, TypeOK
    <3>2. \A u \in User : rm.members[u] =
            IF u = authenticated_user[s] THEN [session |-> s, key |-> k] ELSE None
      BY DEF NewRoom
    <3> HIDE DEF rm
    <3>3. \A u \in User : rm.members[u] # None => StillHeld(r, u, rm.members[u].session)
      BY MemberValue, <2>1, <3>1, <3>2 DEF Held, StillHeld
    <3> QED BY <2>1, <2>2, <3>1, <3>3, HoldOne, ZenonT(30)
  <2>4. CASE o # "ok"
    <3>1. rooms' = [rooms EXCEPT ![r] = None]
      BY <1>4, <2>1, <2>4 DEF Create, TypeOK
    <3> QED BY <2>1, <2>2, <3>1, HoldOne, ZenonT(30)
  <2> QED BY <2>3, <2>4
<1>5. ASSUME NEW s \in Session, NEW r \in RoomId, NEW inv \in Invite,
             NEW k \in Key, NEW o \in WriteOutcome, Join(s, r, inv, k, o)
      PROVE  MembersHold'
  <2> DEFINE u == authenticated_user[s]
             rm == Joined(rooms[r], u, s, k)
  <2>1. /\ session_rooms[s] \in {None, r} /\ rooms[r] # None /\ u \in User
        /\ u \in Accounts[s] /\ UNCHANGED authenticated_user
        /\ rooms' = [rooms EXCEPT ![r] = rm]
        /\ session_rooms'[s] = r /\ call_room_id'[s] = r
        /\ \A t \in Session \ {s} : /\ session_rooms'[t] = session_rooms[t]
                                    /\ call_room_id'[t] = call_room_id[t]
    BY <1>5, Zenon DEF Join, MayJoin, TypeOK, MembersHold
  <2>2. rm.members = [rooms[r].members EXCEPT ![u] = [session |-> s, key |-> k]]
    BY <1>5, <2>1, JoinedRoom, SMTT(30)
  <2> HIDE DEF rm
  <2>3. ASSUME NEW v \in User, rm.members[v] # None
        PROVE  StillHeld(r, v, rm.members[v].session)
    <3>1. CASE v = u
      <4>1. rm.members[v].session = s
        BY MemberValue, <1>5, <2>1, <2>2, <3>1, MemberFacts, SMTT(30)
      <4> QED BY <2>1, <3>1, <4>1, Zenon DEF Held, StillHeld
    <3>2. CASE v # u
      <4> DEFINE t == rooms[r].members[v].session
      <4>1. rm.members[v] = rooms[r].members[v]
        BY <2>1, <2>2, <3>2, MemberFacts, Zenon
      <4>2. t \in Session /\ Held(r, v, t)
        BY <2>1, <2>3, <4>1, MemberFacts DEF MembersHold
      <4> HIDE DEF t
      <4>3. Steady(t) => t # s
        BY <3>2, <4>2, Zenon DEF Held
      <4>4. StillHeld(r, v, t)
        BY <2>1, <4>2, <4>3, ZenonT(30) DEF Held, StillHeld
      <4> QED BY <4>1, <4>4, Zenon DEF t
    <3> QED BY <3>1, <3>2
  <2> QED BY <2>1, <2>3, HoldOne, ZenonT(30)
<1>6. ASSUME NEW r \in RoomId, rooms[r] # None, NEW rm, NEW u \in User,
             rooms[r].members[u] # None, NEW s \in Session,
             s = rooms[r].members[u].session,
             rooms' = [rooms EXCEPT ![r] = rm],
             rm.members = [rooms[r].members EXCEPT ![u] = None],
             \A t \in Session \ {s} : /\ session_rooms'[t] = session_rooms[t]
                                      /\ call_room_id'[t] = call_room_id[t],
             UNCHANGED authenticated_user
      PROVE  MembersHold'
  <2>1. Held(r, u, s)
    BY <1>6 DEF MembersHold
  <2>2. ASSUME NEW v \in User, rm.members[v] # None
        PROVE  StillHeld(r, v, rm.members[v].session)
    <3> DEFINE t == rooms[r].members[v].session
    <3>1. v # u /\ rm.members[v] = rooms[r].members[v]
      BY <1>6, <2>2, MemberFacts, ZenonT(30)
    <3>2. t \in Session /\ Held(r, v, t)
      BY <1>6, <2>2, <3>1, MemberFacts, SMTT(30) DEF MembersHold
    <3> HIDE DEF t
    <3>3. Steady(t) => t # s
      BY <2>1, <3>1, <3>2, Zenon DEF Held
    <3>4. StillHeld(r, v, t)
      BY <1>6, <3>2, <3>3, ZenonT(30) DEF Held, StillHeld
    <3> QED BY <3>1, <3>4, SMTT(30) DEF t
  <2>3. Steady(s) => session_rooms[s] = r
    BY <2>1, Zenon DEF Held
  <2> QED BY <1>6, <2>2, <2>3, HoldOne, ZenonT(30)
<1>7. ASSUME NEW r \in RoomId, NEW o \in WriteOutcome, NEW actor \in SUBSET Session,
             rooms[r] # None, EndRoom(r, o, actor), UNCHANGED authenticated_user,
             \A s \in actor : session_rooms[s] = r
      PROVE  MembersHold'
  <2> DEFINE S == SessionsOf(rooms[r]) \cup actor
  <2>1. rooms' = [rooms EXCEPT ![r] = None]
    BY <1>7, SMTT(30) DEF EndRoom
  <2>2. \A s \in S : Steady(s) => session_rooms[s] \in {None, r}
    BY <1>7 DEF SessionsOf, Participants, MembersHold, Held
  <2>3. \A s \in Session \ S : /\ session_rooms'[s] = session_rooms[s]
                               /\ call_room_id'[s] = call_room_id[s]
    BY <1>7 DEF EndRoom, Unbind
  <2> HIDE DEF S
  <2> QED BY <1>7, <2>1, <2>2, <2>3, HoldOne, ZenonT(30)
<1>8. ASSUME NEW s \in Session, NEW r \in RoomId, NEW o \in WriteOutcome,
             session_rooms[s] = r, rooms[r] # None, Depart(s, r, o)
      PROVE  MembersHold'
  <2> DEFINE u == authenticated_user[s]  rm == WithoutMember(rooms[r], u)
  <2>0. UNCHANGED authenticated_user /\ rooms[r] # None
    BY <1>8, SMTT(30) DEF Depart
  <2>1. CASE u = rooms[r].initiator
    <3>1. EndRoom(r, o, {s})
      BY <1>8, <2>1 DEF Depart
    <3> QED BY <1>7, <1>8, <2>0, <3>1, SMTT(30)
  <2>2. CASE u # rooms[r].initiator
    <3>1. RemoveMember(s, r, o)
      BY <1>8, <2>2, SMTT(30) DEF Depart
    <3>2. CASE IsMember(rooms[r], u, s)
      <4>0. \A t \in Session \ {s} : /\ session_rooms'[t] = session_rooms[t]
                                     /\ call_room_id'[t] = call_room_id[t]
        BY <3>1, <3>2 DEF RemoveMember, TypeOK
      <4>1. rooms' = [rooms EXCEPT ![r] = rm]
        BY <3>1, <3>2 DEF RemoveMember
      <4>2. u \in User /\ rooms[r].members[u] # None /\ s = rooms[r].members[u].session
        BY <3>2 DEF IsMember
      <4>3. rm.members = [rooms[r].members EXCEPT ![u] = None]
        BY <1>8, <4>2, MemberFacts, WithoutMemberFacts, ZenonT(30)
      <4>4. PICK v \in User :
              /\ rooms[r].members[v] # None /\ s = rooms[r].members[v].session
              /\ \E new : /\ rooms' = [rooms EXCEPT ![r] = new]
                          /\ new.members = [rooms[r].members EXCEPT ![v] = None]
        BY <4>1, <4>2, <4>3, ZenonT(30)
      <4>5. PICK new : /\ rooms' = [rooms EXCEPT ![r] = new]
                       /\ new.members = [rooms[r].members EXCEPT ![v] = None]
        BY <4>4, Zenon
      <4>6. /\ rooms[r] # None /\ rooms[r].members[v] # None /\ s = rooms[r].members[v].session
            /\ UNCHANGED authenticated_user
        BY <2>0, <4>4, Zenon
      <4> HIDE DEF u, rm
      <4> QED BY <1>6, <4>0, <4>5, <4>6, ZenonT(30)
    <3>3. CASE ~IsMember(rooms[r], u, s)
      <4>1. /\ UNCHANGED rooms /\ UNCHANGED session_rooms
            /\ call_room_id' = [call_room_id EXCEPT ![s] = None]
        BY <3>1, <3>3, SMTT(30) DEF RemoveMember
      <4>2. rooms' = [rooms EXCEPT ![r] = rooms[r]]
        BY <4>1 DEF TypeOK
      <4>3. ASSUME NEW v \in User, rooms[r].members[v] # None
            PROVE  StillHeld(r, v, rooms[r].members[v].session)
        <5> DEFINE t == rooms[r].members[v].session
        <5>1. t \in Session /\ Held(r, v, t)
          BY <1>8, <4>3, MemberFacts, SMTT(30) DEF MembersHold
        <5>2. Steady(t) => t # s
          BY <3>3, <4>3, <5>1, Zenon DEF IsMember, Held
        <5> HIDE DEF t
        <5>3. StillHeld(r, v, t)
          BY <2>0, <4>1, <5>1, <5>2, Zenon DEF Held, StillHeld, TypeOK
        <5> QED BY <4>1, <5>3, SMTT(30) DEF t
      <4>4. \A t \in Session \ {s} : /\ session_rooms'[t] = session_rooms[t]
                                     /\ call_room_id'[t] = call_room_id[t]
        BY <4>1 DEF TypeOK
      <4> QED BY <1>8, <2>0, <4>2, <4>3, <4>4, HoldOne, ZenonT(30)
    <3> QED BY <3>2, <3>3, SMTT(30)
  <2> QED BY <2>1, <2>2
<1>9. ASSUME NEW s \in Session, NEW r \in RoomId, NEW t \in User,
             NEW o1 \in WriteOutcome, NEW o2 \in WriteOutcome,
             Remove(s, r, t, o1, o2)
      PROVE  MembersHold'
  <2> DEFINE ts == rooms[r].members[t].session  tu == authenticated_user[ts]
             d == Dropped(r, t)  l == Lifted(d, t)
             drop == t \in Participants(rooms[r]) /\ IsMember(rooms[r], tu, ts)
  <2>1. rooms[r] # None /\ UNCHANGED authenticated_user
    BY <1>9, Zenon DEF Remove, MayModerate
  <2>2. rooms' = [rooms EXCEPT ![r] = d] \/ rooms' = [rooms EXCEPT ![r] = l]
    BY <1>9, RemoveWrites, Zenon
  <2>3. d \in Room
    BY <2>1, DroppedFacts, ZenonT(30)
  <2>4. l.members = d.members
    BY <2>3, LiftedFacts, Zenon
  <2>s. session_rooms' = IF drop THEN [session_rooms EXCEPT ![ts] = None]
                         ELSE session_rooms
    BY <1>9, Zenon DEF Remove
  <2>c. \/ call_room_id' = call_room_id
        \/ /\ t \in Participants(rooms[r])
           /\ call_room_id' = [call_room_id EXCEPT ![ts] = None]
    BY <1>9, Zenon DEF Remove
  <2>5. CASE drop
    <3>1. /\ tu \in User /\ rooms[r].members[tu] # None
          /\ ts = rooms[r].members[tu].session /\ ts \in Session
      BY <2>1, <2>5, MemberFacts, Zenon DEF IsMember, Participants
    <3>2. d.members = [rooms[r].members EXCEPT ![tu] = None]
      BY <2>1, <2>5, DroppedFacts, ZenonT(30)
    <3>3. \A x \in Session \ {ts} : /\ session_rooms'[x] = session_rooms[x]
                                    /\ call_room_id'[x] = call_room_id[x]
      BY <2>5, <2>s, <2>c, Zenon DEF TypeOK
    <3> HIDE DEF d, l, ts, tu, drop
    <3>4. PICK rm : /\ rooms' = [rooms EXCEPT ![r] = rm]
                    /\ rm.members = [rooms[r].members EXCEPT ![tu] = None]
      BY <2>2, <2>4, <3>2, Zenon
    <3> QED BY <1>6, <2>1, <3>1, <3>3, <3>4, ZenonT(30)
  <2>6. CASE ~drop
    <3>1. d.members = rooms[r].members
      BY <2>1, <2>6, DroppedFacts, ZenonT(30)
    <3>2. UNCHANGED session_rooms
      BY <2>6, <2>s, Zenon
    <3>3. t \in Participants(rooms[r]) => ~Steady(ts)
      BY <2>1, <2>6, MemberFacts, Zenon
         DEF MembersHold, Held, IsMember, Participants
    <3>4. \A x \in Session : Steady(x) => call_room_id'[x] = call_room_id[x]
      BY <2>c, <3>3, Zenon DEF TypeOK
    <3> HIDE DEF d, l, ts, tu, drop
    <3>5. PICK rm : rooms' = [rooms EXCEPT ![r] = rm] /\ rm.members = rooms[r].members
      BY <2>2, <2>4, <3>1, Zenon
    <3>6. \A u \in User : rm.members[u] # None => StillHeld(r, u, rm.members[u].session)
      <4> SUFFICES ASSUME NEW u \in User, rm.members[u] # None
                   PROVE  StillHeld(r, u, rm.members[u].session)
        OBVIOUS
      <4>1. rm.members[u] = rooms[r].members[u]
        BY <3>5, Zenon
      <4>2. /\ rooms[r].members[u].session \in Session
            /\ Held(r, u, rooms[r].members[u].session)
        BY <2>1, <4>1, MemberFacts, Zenon DEF MembersHold
      <4> QED BY <2>1, <3>2, <3>4, <4>1, <4>2, Zenon DEF Held, StillHeld
    <3> QED BY <2>1, <3>2, <3>4, <3>5, <3>6, HoldOne, ZenonT(30)
  <2> QED BY <2>5, <2>6
<1>10. ASSUME NEW r \in RoomId, NEW o \in WriteOutcome, rooms[r] # None,
              EndRoom(r, o, {}), UNCHANGED authenticated_user
       PROVE  MembersHold'
  BY <1>7, <1>10
<1> QED BY <1>1, <1>2, <1>3, <1>4, <1>5, <1>8, <1>9, <1>10, StepKinds, ZenonT(30)

-----------------------------------------------------------------------------
(* Who may be in a room *)

\* Who is blocked is not in the room, but for a session with several accounts.
Rules(rm) ==
  \A u \in rm.blocked : rm.members[u] # None => ~Steady(rm.members[u].session)

RulesHold == \A r \in RoomId : rooms[r] # None => Rules(rooms[r])

\* What a step does to a room's host: it stays, if its session proves no other
\* address.
KeepsHost(old, new) ==
  LET h == old.initiator
  IN  old.members[h] # None /\ Steady(old.members[h].session)
        => new.members[h] # None

HostsKept ==
  \A r \in RoomId : rooms[r] # None /\ rooms'[r] # None =>
    KeepsHost(rooms[r], rooms'[r])

\* That is RemovedStayOut, and the step of HostPresent.
LEMMA RulesAre ==
  ASSUME TypeOK PROVE RulesHold => RemovedStayOut
<1>1. ASSUME NEW r \in RoomId, rooms[r] # None
      PROVE  rooms[r].blocked \in SUBSET User
  BY <1>1, RoomFields, Zenon DEF TypeOK
<1> QED BY <1>1, Zenon DEF RulesHold, Rules, RemovedStayOut, LiveRooms, Participants

\* A step that replaces one room.
LEMMA RulesOne ==
  ASSUME TypeOK, RulesHold, NEW r \in RoomId, NEW rm,
         rooms' = [rooms EXCEPT ![r] = rm], rm # None => Rules(rm),
         rooms[r] # None /\ rm # None => KeepsHost(rooms[r], rm)
  PROVE  RulesHold' /\ HostsKept
<1>1. ASSUME NEW q \in RoomId, rooms'[q] # None
      PROVE  Rules(rooms'[q]) /\ (rooms[q] # None => KeepsHost(rooms[q], rooms'[q]))
  <2>1. CASE q = r
    <3>1. rooms'[q] = rm
      BY <2>1, Zenon DEF TypeOK
    <3> QED BY <1>1, <2>1, <3>1, Zenon
  <2>2. CASE q # r
    <3>1. rooms'[q] = rooms[q]
      BY <2>2, Zenon DEF TypeOK
    <3> QED BY <1>1, <3>1, Zenon DEF RulesHold, KeepsHost
  <2> QED BY <2>1, <2>2
<1> QED BY <1>1, Zenon DEF RulesHold, Rules, HostsKept

\* A step that leaves the rooms alone.
LEMMA RulesSame ==
  ASSUME RulesHold, UNCHANGED rooms PROVE RulesHold' /\ HostsKept
BY Zenon DEF RulesHold, Rules, HostsKept, KeepsHost

\* Every step keeps the host in and the removed out, because a member's
\* session holds the member's account, when it has no other: a removal then
\* takes out its target and nobody else.
LEMMA RulesStep ==
  ASSUME TypeOK, MembersHold, RulesHold, [Next]_vars PROVE RulesHold' /\ HostsKept
<1>1. CASE Quiet
  <2>1. CASE UNCHANGED rooms
    BY <2>1, RulesSame, Zenon
  <2>2. ASSUME NEW r \in RoomId, NEW rm \in Room, rooms[r] # None,
               rooms' = [rooms EXCEPT ![r] = rm], rm.members = rooms[r].members,
               rm.initiator = rooms[r].initiator, rm.blocked \subseteq rooms[r].blocked
        PROVE  RulesHold' /\ HostsKept
    <3>1. Rules(rm) /\ KeepsHost(rooms[r], rm)
      BY <2>2, Zenon DEF RulesHold, Rules, KeepsHost
    <3> QED BY <2>2, <3>1, RulesOne, ZenonT(30)
  <2> QED BY <1>1, <2>1, <2>2, Zenon DEF Quiet
<1>2. CASE Crash
  BY <1>2, Zenon DEF Crash, RulesHold, HostsKept
<1>3. ASSUME NEW s \in Session, NEW u \in User, Authenticate(s, u)
      PROVE  RulesHold' /\ HostsKept
  BY <1>3, RulesSame, Zenon DEF Authenticate, roomVars
<1>4. ASSUME NEW s \in Session, NEW r \in RoomId, NEW inv \in Invite,
             NEW k \in Key, NEW o \in WriteOutcome, Create(s, r, inv, k, o)
      PROVE  RulesHold' /\ HostsKept
  <2> DEFINE rm == NewRoom(s, authenticated_user[s], inv, k)
  <2>1. rm.blocked = {}
    BY Zenon DEF NewRoom
  <2>2. /\ rooms[r] = None
        /\ UNCHANGED rooms \/ rooms' = [rooms EXCEPT ![r] = rm]
    BY <1>4, Zenon DEF Create
  <2> HIDE DEF rm
  <2>3. Rules(rm)
    BY <2>1, Zenon DEF Rules
  <2> QED BY <2>2, <2>3, RulesOne, RulesSame, ZenonT(30)
<1>5. ASSUME NEW s \in Session, NEW r \in RoomId, NEW inv \in Invite,
             NEW k \in Key, NEW o \in WriteOutcome, Join(s, r, inv, k, o)
      PROVE  RulesHold' /\ HostsKept
  <2> DEFINE u == authenticated_user[s]  rm == Joined(rooms[r], u, s, k)
             m == [session |-> s, key |-> k]
  <2>1. /\ rooms[r] # None /\ u \in User /\ u \notin rooms[r].blocked
        /\ rooms' = [rooms EXCEPT ![r] = rm]
    BY <1>5, Zenon DEF Join, MayJoin, TypeOK
  <2>2. /\ rm.initiator = rooms[r].initiator /\ rm.blocked = rooms[r].blocked
        /\ rm.members = [rooms[r].members EXCEPT ![u] = m]
    BY <1>5, <2>1, JoinedRoom, SMTT(30)
  <2>3. m # None
    BY <1>5, MemberValue, Zenon
  <2> HIDE DEF rm, u, m
  <2>4. /\ rooms[r].members \in [User -> Member \cup {None}] /\ Rules(rooms[r])
        /\ rooms[r].initiator \in User /\ rooms[r].blocked \in SUBSET User
    BY <2>1, MemberFacts, RoomFields, Zenon DEF RulesHold
  <2>5. /\ rm.members[u] = m
        /\ \A v \in User \ {u} : rm.members[v] = rooms[r].members[v]
    BY <2>1, <2>2, <2>4, Zenon
  <2>6. Rules(rm)
    BY <2>1, <2>2, <2>4, <2>5, Zenon DEF Rules
  <2>7. KeepsHost(rooms[r], rm)
    BY <2>3, <2>4, <2>5, Zenon DEF KeepsHost
  <2> QED BY <2>1, <2>6, <2>7, RulesOne, ZenonT(30)
<1>6. ASSUME NEW r \in RoomId, rooms[r] # None, NEW rm, NEW u \in User,
             rooms' = [rooms EXCEPT ![r] = rm],
             rm.members \in {rooms[r].members, [rooms[r].members EXCEPT ![u] = None]},
             KeepsHost(rooms[r], rm),
             \A v \in rm.blocked : \/ v \in rooms[r].blocked
                                   \/ rm.members[v] = None
                                   \/ ~Steady(rm.members[v].session)
      PROVE  RulesHold' /\ HostsKept
  <2>1. /\ rooms[r].members \in [User -> Member \cup {None}] /\ Rules(rooms[r])
        /\ rooms[r].blocked \in SUBSET User
    BY <1>6, MemberFacts, RoomFields, Zenon DEF RulesHold
  <2>2. \A v \in User : rm.members[v] # None => rm.members[v] = rooms[r].members[v]
    BY <1>6, <2>1, ZenonT(30)
  <2>3. Rules(rm)
    BY <1>6, <2>1, <2>2, Zenon DEF Rules
  <2> QED BY <1>6, <2>3, RulesOne, ZenonT(30)
<1>7. ASSUME NEW s \in Session, NEW r \in RoomId, NEW o \in WriteOutcome,
             rooms[r] # None, Depart(s, r, o)
      PROVE  RulesHold' /\ HostsKept
  <2> DEFINE u == authenticated_user[s]  rm == WithoutMember(rooms[r], u)
  <2>1. CASE u = rooms[r].initiator
    <3>1. rooms' = [rooms EXCEPT ![r] = None]
      BY <1>7, <2>1 DEF Depart, EndRoom
    <3> QED BY <3>1, RulesOne, ZenonT(30)
  <2>2. CASE u # rooms[r].initiator
    <3>1. RemoveMember(s, r, o)
      BY <1>7, <2>2, Zenon DEF Depart
    <3>2. CASE IsMember(rooms[r], u, s)
      <4>1. rooms' = [rooms EXCEPT ![r] = rm] /\ u \in User
        BY <3>1, <3>2, Zenon DEF RemoveMember, IsMember
      <4>2. /\ rm.members = [rooms[r].members EXCEPT ![u] = None]
            /\ rm.blocked = rooms[r].blocked
        BY <1>7, <4>1, MemberFacts, WithoutMemberFacts, ZenonT(30) DEF SameTimer, SameLists
      <4>3. /\ rooms[r].members \in [User -> Member \cup {None}]
            /\ rooms[r].initiator \in User
        BY <1>7, MemberFacts, RoomFields, Zenon
      <4> HIDE DEF rm, u
      <4>4. rm.members[rooms[r].initiator] = rooms[r].members[rooms[r].initiator]
        BY <2>2, <4>2, <4>3, Zenon
      <4>5. KeepsHost(rooms[r], rm)
        BY <4>4, Zenon DEF KeepsHost
      <4> QED BY <1>6, <1>7, <4>1, <4>2, <4>5, ZenonT(30)
    <3>3. CASE ~IsMember(rooms[r], u, s)
      BY <3>1, <3>3, RulesSame, Zenon DEF RemoveMember
    <3> QED BY <3>2, <3>3, Zenon
  <2> QED BY <2>1, <2>2
<1>8. ASSUME NEW s \in Session, NEW r \in RoomId, NEW t \in User,
             NEW o1 \in WriteOutcome, NEW o2 \in WriteOutcome,
             Remove(s, r, t, o1, o2)
      PROVE  RulesHold' /\ HostsKept
  <2> DEFINE ts == rooms[r].members[t].session  tu == authenticated_user[ts]
             h == rooms[r].initiator
             d == Dropped(r, t)  l == Lifted(d, t)
             drop == t \in Participants(rooms[r]) /\ IsMember(rooms[r], tu, ts)
  <2>1. rooms[r] # None /\ t # h
    BY <1>8, Zenon DEF Remove, MayModerate
  <2>2. rooms' = [rooms EXCEPT ![r] = d] \/ rooms' = [rooms EXCEPT ![r] = l]
    BY <1>8, RemoveWrites, Zenon
  <2>3. d \in Room /\ d.blocked = rooms[r].blocked \cup {t}
    BY <2>1, DroppedFacts, ZenonT(30)
  <2>4. l.members = d.members /\ l.blocked = d.blocked
    BY <2>3, LiftedFacts
  <2>5. /\ ~drop => d.members = rooms[r].members
        /\ drop => d.members = [rooms[r].members EXCEPT ![tu] = None]
    BY <2>1, DroppedFacts, ZenonT(30)
  <2>6. rooms[r].members \in [User -> Member \cup {None}] /\ h \in User
    BY <2>1, MemberFacts, RoomFields, Zenon
  <2>7. rooms[r].members[t] # None =>
          /\ t \in Accounts[ts] /\ t \in Participants(rooms[r])
          /\ Steady(ts) => drop /\ tu = t
    <3>1. rooms[r].members[t] # None => Held(r, t, ts)
      BY <2>1, <1>8, Zenon DEF MembersHold
    <3> QED BY <1>8, <3>1, Zenon DEF Held, IsMember, Participants
  <2>8. drop => /\ tu \in User /\ rooms[r].members[t] # None
                /\ rooms[r].members[tu] # None /\ rooms[r].members[tu].session = ts
                /\ tu \in Accounts[ts]
    BY <2>1, Zenon DEF MembersHold, Held, IsMember, Participants
  <2>9. \A v \in User : d.members[v] = IF drop /\ v = tu THEN None
                                       ELSE rooms[r].members[v]
    <3> HIDE DEF d, tu, drop
    <3> QED BY <2>5, <2>6, Zenon
  <2>10. drop /\ tu = h => ~Steady(ts)
    BY <2>1, <2>7, <2>8, Zenon DEF Steady
  <2>11. d.members[t] = None \/ ~Steady(d.members[t].session)
    BY <2>7, <2>9, Zenon
  <2>12. KeepsHost(rooms[r], d)
    BY <2>6, <2>8, <2>9, <2>10, Zenon DEF KeepsHost
  <2>13. KeepsHost(rooms[r], l)
    BY <2>4, <2>12, Zenon DEF KeepsHost
  <2>u. PICK u \in User :
          d.members \in {rooms[r].members, [rooms[r].members EXCEPT ![u] = None]}
    BY <2>5, <2>8, <1>8, Zenon
  <2> HIDE DEF d, l, ts, tu, h, drop
  <2>14. PICK rm : /\ rooms' = [rooms EXCEPT ![r] = rm]
                   /\ rm.members = d.members /\ rm.blocked = d.blocked
                   /\ KeepsHost(rooms[r], rm)
    BY <2>2, <2>4, <2>12, <2>13, Zenon
  <2>15. \A v \in rm.blocked : \/ v \in rooms[r].blocked
                               \/ rm.members[v] = None
                               \/ ~Steady(rm.members[v].session)
    BY <2>3, <2>11, <2>14, Zenon
  <2> QED BY <1>6, <2>1, <2>u, <2>14, <2>15, ZenonT(30)
<1>9. ASSUME NEW r \in RoomId, NEW o \in WriteOutcome, EndRoom(r, o, {})
      PROVE  RulesHold' /\ HostsKept
  BY <1>9, RulesOne, Zenon DEF EndRoom
<1> QED BY <1>1, <1>2, <1>3, <1>4, <1>5, <1>7, <1>8, <1>9, StepKinds, ZenonT(30)

\* The members are bound and the removed are out, in every reachable state.
LEMMA MembershipInvariant == Spec => [](MembersHold /\ RulesHold)
<1>1. Init => MembersHold /\ RulesHold
  BY DEF Init, MembersHold, RulesHold
<1>2. TypeOK /\ MembersHold /\ RulesHold /\ [Next]_vars => (MembersHold /\ RulesHold)'
  BY HoldStep, RulesStep
<1> QED BY <1>1, <1>2, TypeCorrect, PTL DEF Spec

\* A room never outlives its initiator's membership, however requests, timers,
\* disconnects, crashes, failing policy writes and account changes of other
\* sessions interleave (leave, disconnected, moderate): only an initiator whose
\* own session proves another address can be dropped.
THEOREM HostStays == Spec => HostPresent
<1>1. TypeOK /\ MembersHold /\ RulesHold /\ [Next]_vars =>
        [\A r \in RoomId : rooms[r] # None /\ rooms'[r] # None =>
           LET h == rooms[r].initiator
           IN  h \in Participants(rooms[r]) /\ Steady(rooms[r].members[h].session)
                 => h \in Participants(rooms'[r])]_vars
  <2> SUFFICES ASSUME TypeOK, MembersHold, RulesHold, [Next]_vars,
                      NEW r \in RoomId, rooms[r] # None, rooms'[r] # None,
                      rooms[r].initiator \in Participants(rooms[r]),
                      Steady(rooms[r].members[rooms[r].initiator].session)
               PROVE  rooms[r].initiator \in Participants(rooms'[r])
    BY Zenon
  <2>1. HostsKept
    BY RulesStep, Zenon
  <2> QED BY <2>1, Zenon DEF HostsKept, KeepsHost, Participants
<1> QED BY <1>1, MembershipInvariant, TypeCorrect, PTL DEF Spec, HostPresent

\* An account that moderate removed is in the room again only after readmit
\* and a new join, also when the policy write of the removal failed half way,
\* unless it was in the room with a session that proves another address too.
THEOREM RemovedOut == Spec => []RemovedStayOut
<1>1. TypeOK /\ RulesHold => RemovedStayOut
  BY RulesAre, Zenon
<1> QED BY <1>1, MembershipInvariant, TypeCorrect, PTL

\* The second half of MembersAreBound: a bound session is a member.
SessionsBound ==
  \A s \in Session : session_rooms[s] # None =>
    /\ rooms[session_rooms[s]] # None
    /\ \E u \in User : IsMember(rooms[session_rooms[s]], u, s)

\* The two halves are MembersAreBound.
LEMMA BoundAre ==
  ASSUME TypeOK, MembersHold, UnlinkWorks => SessionsBound PROVE MembersAreBound
<1>1. \A r \in LiveRooms : \A u \in Participants(rooms[r]) :
        Held(r, u, rooms[r].members[u].session)
  BY DEF LiveRooms, Participants, MembersHold
<1>2. ASSUME UnlinkWorks, NEW s \in Session, session_rooms[s] # None
      PROVE  /\ session_rooms[s] \in LiveRooms
             /\ s \in SessionsOf(rooms[session_rooms[s]])
  <2>1. session_rooms[s] \in RoomId /\ rooms[session_rooms[s]] # None
    BY <1>2 DEF TypeOK, SessionsBound
  <2>2. PICK u \in User : IsMember(rooms[session_rooms[s]], u, s)
    BY <1>2, Zenon DEF SessionsBound
  <2> QED BY <2>1, <2>2 DEF LiveRooms, SessionsOf, Participants, IsMember
<1> QED BY <1>1, <1>2, Zenon DEF MembersAreBound, Held

\* A step that replaces one room: sessions bound elsewhere stay as they were.
LEMMA BoundOne ==
  ASSUME TypeOK, SessionsBound, NEW r \in RoomId, NEW rm,
         rooms' = [rooms EXCEPT ![r] = rm],
         \A s \in Session :
           \/ session_rooms'[s] = None
           \/ session_rooms'[s] = session_rooms[s] /\ session_rooms[s] # r
           \/ /\ session_rooms'[s] = r /\ rm # None
              /\ \E u \in User : IsMember(rm, u, s)
  PROVE  SessionsBound'
<1> SUFFICES ASSUME NEW s \in Session, session_rooms'[s] # None
             PROVE  /\ rooms'[session_rooms'[s]] # None
                    /\ \E u \in User : IsMember(rooms'[session_rooms'[s]], u, s)
  BY DEF SessionsBound, IsMember
<1>1. CASE session_rooms'[s] = session_rooms[s] /\ session_rooms[s] # r
  <2>1. session_rooms[s] \in RoomId
    BY <1>1 DEF TypeOK
  <2>2. rooms'[session_rooms'[s]] = rooms[session_rooms[s]]
    BY <1>1, <2>1 DEF TypeOK
  <2> QED BY <1>1, <2>2 DEF SessionsBound
<1>2. CASE session_rooms'[s] = r /\ rm # None /\ \E u \in User : IsMember(rm, u, s)
  <2>1. rooms'[session_rooms'[s]] = rm
    BY <1>2 DEF TypeOK
  <2> QED BY <1>2, <2>1
<1> QED BY <1>1, <1>2, ZenonT(30)

\* While every unlink works, every step keeps the bound sessions members, also
\* those that change accounts.
LEMMA BoundStep ==
  ASSUME UnlinkWorks, TypeOK, SessionsBound, [Next]_vars
  PROVE  SessionsBound'
<1>m. ASSUME NEW r \in RoomId, rooms[r] # None, NEW s \in Session, session_rooms[s] = r
      PROVE  \E u \in User : IsMember(rooms[r], u, s)
  BY <1>m, NoneIsFresh DEF SessionsBound
<1>1. CASE Quiet
  <2>1. CASE UNCHANGED rooms
    BY <1>1, <2>1 DEF Quiet, SessionsBound, IsMember
  <2>2. ASSUME NEW r \in RoomId, NEW rm \in Room, rooms[r] # None,
               rooms' = [rooms EXCEPT ![r] = rm], rm.members = rooms[r].members
        PROVE  SessionsBound'
    <3>1. ASSUME NEW s \in Session, session_rooms[s] = r
          PROVE  rm # None /\ \E u \in User : IsMember(rm, u, s)
      BY <1>m, <2>2, <3>1, NoneIsFresh, SMTT(30) DEF IsMember
    <3> QED BY <1>1, <2>2, <3>1, BoundOne, ZenonT(30) DEF Quiet
  <2> QED BY <1>1, <2>1, <2>2, ZenonT(30) DEF Quiet
<1>2. CASE Crash
  BY <1>2, Zenon DEF Crash, SessionsBound
<1>3. ASSUME NEW s \in Session, NEW u \in User, Authenticate(s, u) PROVE SessionsBound'
  BY <1>3 DEF Authenticate, roomVars, SessionsBound, IsMember
<1>4. ASSUME NEW s \in Session, NEW r \in RoomId, NEW inv \in Invite,
             NEW k \in Key, NEW o \in WriteOutcome, Create(s, r, inv, k, o)
      PROVE  SessionsBound'
  <2> DEFINE u == authenticated_user[s]  rm == NewRoom(s, u, inv, k)
  <2>1. u \in User /\ rooms[r] = None
    BY <1>4, Zenon DEF Create, TypeOK
  <2>2. rm \in Room /\ rm.members[u] = [session |-> s, key |-> k]
    BY <2>1, NewRoomFacts, SMTT(30)
  <2>3. \/ UNCHANGED <<rooms, session_rooms>>
        \/ /\ rooms' = [rooms EXCEPT ![r] = rm]
           /\ session_rooms' = [session_rooms EXCEPT ![s] = r]
    BY <1>4, Zenon DEF Create
  <2> HIDE DEF rm, u
  <2>4. CASE UNCHANGED <<rooms, session_rooms>>
    BY <2>4 DEF SessionsBound, IsMember
  <2>5. CASE /\ rooms' = [rooms EXCEPT ![r] = rm]
             /\ session_rooms' = [session_rooms EXCEPT ![s] = r]
    <3>1. rm # None /\ IsMember(rm, u, s)
      BY MemberValue, <1>4, <2>1, <2>2, NoneIsFresh, SMTT(30) DEF IsMember
    <3>2. \A t \in Session : session_rooms[t] # r
      BY <2>1, NoneIsFresh DEF SessionsBound
    <3>3. \A t \in Session : t # s => session_rooms'[t] = session_rooms[t]
      BY <2>5 DEF TypeOK
    <3>4. session_rooms'[s] = r
      BY <2>5, Zenon DEF TypeOK
    <3>5. \A t \in Session :
            \/ session_rooms'[t] = session_rooms[t] /\ session_rooms[t] # r
            \/ /\ session_rooms'[t] = r /\ rm # None
               /\ \E v \in User : IsMember(rm, v, t)
      BY <2>1, <3>1, <3>2, <3>3, <3>4, Zenon
    <3> QED BY <2>5, <3>5, BoundOne, ZenonT(30)
  <2> QED BY <2>3, <2>4, <2>5, SMTT(30)
<1>5. ASSUME NEW s \in Session, NEW r \in RoomId, NEW inv \in Invite,
             NEW k \in Key, NEW o \in WriteOutcome, Join(s, r, inv, k, o)
      PROVE  SessionsBound'
  <2> DEFINE u == authenticated_user[s]  rm == Joined(rooms[r], u, s, k)
  <2>1. /\ rooms[r] # None /\ u \in User
        /\ rooms[r].members[u] # None => rooms[r].members[u].session = s
        /\ rooms' = [rooms EXCEPT ![r] = rm]
        /\ session_rooms' = [session_rooms EXCEPT ![s] = r]
    BY <1>5, Zenon DEF Join, MayJoin, TypeOK
  <2>2. /\ rm \in Room
        /\ rm.members = [rooms[r].members EXCEPT ![u] = [session |-> s, key |-> k]]
    BY <1>5, <2>1, JoinedRoom, SMTT(30)
  <2> HIDE DEF rm, u
  <2>3. rm # None /\ IsMember(rm, u, s)
    BY MemberValue, <1>5, <2>1, <2>2, NoneIsFresh, MemberFacts, SMTT(30) DEF IsMember
  <2>4. ASSUME NEW t \in Session, t # s
        PROVE  /\ session_rooms'[t] = session_rooms[t]
               /\ session_rooms[t] = r => \E v \in User : IsMember(rm, v, t)
    <3>1. session_rooms'[t] = session_rooms[t]
      BY <2>1, <2>4 DEF TypeOK
    <3>2. ASSUME session_rooms[t] = r PROVE \E v \in User : IsMember(rm, v, t)
      <4>1. PICK v \in User : IsMember(rooms[r], v, t)
        BY <1>m, <2>1, <3>2, Zenon
      <4>2. v # u
        BY <2>1, <2>4, <4>1, Zenon DEF IsMember
      <4>3. IsMember(rm, v, t)
        BY <2>1, <2>2, <4>1, <4>2, MemberFacts, Zenon DEF IsMember
      <4> QED BY <4>3
    <3> QED BY <3>1, <3>2, Zenon
  <2>5. session_rooms'[s] = r
    BY <2>1, Zenon DEF TypeOK
  <2>6. \A t \in Session :
          \/ session_rooms'[t] = session_rooms[t] /\ session_rooms[t] # r
          \/ /\ session_rooms'[t] = r /\ rm # None
             /\ \E v \in User : IsMember(rm, v, t)
    BY <2>1, <2>3, <2>4, <2>5, SMTT(30)
  <2> QED BY <2>1, <2>6, BoundOne, ZenonT(30)
<1>6. ASSUME NEW r \in RoomId, rooms[r] # None, NEW rm, rm # None, NEW u \in User,
             rooms' = [rooms EXCEPT ![r] = rm],
             rm.members = [rooms[r].members EXCEPT ![u] = None],
             \A t \in Session : \/ session_rooms'[t] = None
                                \/ /\ session_rooms'[t] = session_rooms[t]
                                   /\ ~IsMember(rooms[r], u, t)
      PROVE  SessionsBound'
  <2>1. ASSUME NEW t \in Session, session_rooms[t] = r, ~IsMember(rooms[r], u, t)
        PROVE  \E v \in User : IsMember(rm, v, t)
    <3>1. PICK v \in User : IsMember(rooms[r], v, t)
      BY <1>m, <1>6, <2>1, Zenon
    <3>2. v # u
      BY <2>1, <3>1, Zenon
    <3>3. IsMember(rm, v, t)
      BY <1>6, <3>1, <3>2, MemberFacts, SMTT(30) DEF IsMember
    <3> QED BY <3>3
  <2> QED BY <1>6, <2>1, BoundOne, ZenonT(30)
<1>7. ASSUME NEW r \in RoomId, NEW o \in WriteOutcome, NEW actor,
             rooms[r] # None, EndRoom(r, o, actor)
      PROVE  SessionsBound'
  <2>1. /\ rooms' = [rooms EXCEPT ![r] = None]
        /\ session_rooms' = Unbind(session_rooms, SessionsOf(rooms[r]))
    BY <1>7, Zenon DEF EndRoom, UnlinkWorks
  <2>2. ASSUME NEW t \in Session, session_rooms[t] = r
        PROVE  t \in SessionsOf(rooms[r])
    BY <1>m, <1>7, <2>2, SMTT(30) DEF SessionsOf, Participants, IsMember
  <2>3. \A t \in Session : \/ session_rooms'[t] = None
                           \/ /\ session_rooms'[t] = session_rooms[t]
                              /\ session_rooms[t] # r
    BY <2>1, <2>2, Zenon DEF Unbind
  <2> QED BY <2>1, <2>3, BoundOne, ZenonT(30)
<1>8. ASSUME NEW s \in Session, NEW r \in RoomId, NEW o \in WriteOutcome,
             session_rooms[s] = r, rooms[r] # None, Depart(s, r, o)
      PROVE  SessionsBound'
  <2> DEFINE u == authenticated_user[s]  rm == WithoutMember(rooms[r], u)
  <2>0. rooms[r] # None
    BY <1>8
  <2>1. CASE u = rooms[r].initiator
    <3>1. EndRoom(r, o, {s})
      BY <1>8, <2>1 DEF Depart
    <3> QED BY <1>7, <2>0, <3>1, ZenonT(30)
  <2>2. CASE u # rooms[r].initiator
    <3>1. RemoveMember(s, r, o)
      BY <1>8, <2>2, SMTT(30) DEF Depart
    <3>2. CASE IsMember(rooms[r], u, s)
      <4>1. /\ rooms' = [rooms EXCEPT ![r] = rm] /\ u \in User
            /\ session_rooms' = [session_rooms EXCEPT ![s] = None]
        BY <3>1, <3>2 DEF RemoveMember, IsMember
      <4>2. rm \in Room /\ rm.members = [rooms[r].members EXCEPT ![u] = None]
        BY <2>0, <4>1, MemberFacts, WithoutMemberFacts, ZenonT(30)
      <4> HIDE DEF rm, u
      <4>3. \A t \in Session : \/ session_rooms'[t] = None
                               \/ /\ session_rooms'[t] = session_rooms[t]
                                  /\ ~IsMember(rooms[r], u, t)
        BY <3>2, <4>1, Zenon DEF IsMember, TypeOK
      <4>4. rm # None
        BY <4>2, NoneIsFresh, ZenonT(30)
      <4> QED BY <1>6, <2>0, <4>1, <4>2, <4>3, <4>4, ZenonT(30)
    <3>3. CASE ~IsMember(rooms[r], u, s)
      BY <3>1, <3>3, SMTT(30) DEF RemoveMember, SessionsBound, IsMember
    <3> QED BY <3>2, <3>3, Zenon
  <2> QED BY <2>1, <2>2
<1>9. ASSUME NEW s \in Session, NEW r \in RoomId, NEW t \in User,
             NEW o1 \in WriteOutcome, NEW o2 \in WriteOutcome,
             Remove(s, r, t, o1, o2)
      PROVE  SessionsBound'
  <2> DEFINE ts == rooms[r].members[t].session  tu == authenticated_user[ts]
             d == Dropped(r, t)  l == Lifted(d, t)
             drop == t \in Participants(rooms[r]) /\ IsMember(rooms[r], tu, ts)
  <2>1. rooms[r] # None
    BY <1>9, Zenon DEF Remove, MayModerate
  <2>2. rooms' = [rooms EXCEPT ![r] = d] \/ rooms' = [rooms EXCEPT ![r] = l]
    BY <1>9, RemoveWrites, ZenonT(30)
  <2>3. d \in Room
    BY <2>1, DroppedFacts, ZenonT(30)
  <2>4. l \in Room /\ l.members = d.members
    BY <2>3, LiftedFacts
  <2>s. session_rooms' = IF drop THEN [session_rooms EXCEPT ![ts] = None]
                         ELSE session_rooms
    BY <1>9, Zenon DEF Remove
  <2>5. CASE drop
    <3>1. /\ tu \in User /\ rooms[r].members[tu] # None
          /\ rooms[r].members[tu].session = ts
      BY <2>5, Zenon DEF IsMember
    <3>2. d.members = [rooms[r].members EXCEPT ![tu] = None]
      BY <2>1, <2>5, DroppedFacts, ZenonT(30)
    <3>3. \A x \in Session : \/ session_rooms'[x] = None
                             \/ /\ session_rooms'[x] = session_rooms[x]
                                /\ ~IsMember(rooms[r], tu, x)
      BY <2>5, <2>s, <3>1, Zenon DEF IsMember, TypeOK
    <3> HIDE DEF d, l, ts, tu, drop
    <3>4. PICK rm \in Room : /\ rooms' = [rooms EXCEPT ![r] = rm]
                             /\ rm.members = [rooms[r].members EXCEPT ![tu] = None]
      BY <2>2, <2>3, <2>4, <3>2, Zenon
    <3>5. rm # None
      BY NoneIsFresh
    <3> QED BY <1>6, <2>1, <3>1, <3>3, <3>4, <3>5, ZenonT(30)
  <2>6. CASE ~drop
    <3>1. d.members = rooms[r].members
      BY <2>1, <2>6, DroppedFacts, ZenonT(30)
    <3>2. UNCHANGED session_rooms
      BY <2>6, <2>s, Zenon
    <3> HIDE DEF d, l, ts, tu, drop
    <3>3. PICK rm \in Room : /\ rooms' = [rooms EXCEPT ![r] = rm]
                             /\ rm.members = rooms[r].members
      BY <2>2, <2>3, <2>4, <3>1, Zenon
    <3>4. \A x \in Session :
            \/ session_rooms'[x] = session_rooms[x] /\ session_rooms[x] # r
            \/ /\ session_rooms'[x] = r /\ rm # None
               /\ \E u \in User : IsMember(rm, u, x)
      BY <1>m, <2>1, <3>2, <3>3, NoneIsFresh, SMTT(30) DEF IsMember
    <3> QED BY <3>3, <3>4, BoundOne, ZenonT(30)
  <2> QED BY <2>5, <2>6
<1> QED BY <1>1, <1>2, <1>3, <1>4, <1>5, <1>7, <1>8, <1>9, StepKinds, ZenonT(30)

\* _rooms and _session_rooms stay one relation, and the session of a member
\* that proves no other address holds its account and its room, whatever other
\* sessions do (create, join, leave, disconnected, moderate, _expire_room).
THEOREM MembersBound == Spec => []MembersAreBound
<1>1. Init => SessionsBound
  BY DEF Init, SessionsBound
<1>2. TypeOK /\ (UnlinkWorks => SessionsBound) /\ [Next]_vars
        => (UnlinkWorks => SessionsBound)'
  BY BoundStep, Zenon DEF UnlinkWorks
<1>3. TypeOK /\ MembersHold /\ (UnlinkWorks => SessionsBound) => MembersAreBound
  BY BoundAre, Zenon
<1> QED BY <1>1, <1>2, <1>3, MembershipInvariant, TypeCorrect, PTL DEF Spec

-----------------------------------------------------------------------------
(* Call control implements the rooms *)

\* A handler that got the lock and is not refused takes a step of the room
\* state machine, also when its policy write raises (service.py, every handler).
LEMMA HandleStep ==
  ASSUME NEW w \in Receivers, Handle(w)
  PROVE  [Next]_vars
<1> USE CallConstants DEF Step
<1> DEFINE s == w.session
<1>0. up /\ UNCHANGED up /\ s \in Session
  BY DEF Handle, Receivers
<1>1. CASE Refused(s)
  BY <1>0, <1>1, Zenon DEF Refused, vars
<1>2. CASE DoAuthenticate(s)
  BY <1>0, <1>2, Zenon DEF DoAuthenticate, Request, Next
<1>3. SUFFICES ASSUME NEW r \in RoomId,
                      \/ Fails(s, r) \/ DoCreate(w, s, r) \/ DoJoin(w, s, r)
                      \/ DoLeave(w, s, r) \/ DoModerate(w, s, r)
                      \/ DoScreen(w, s, r) \/ DoGroupKey(w, s, r)
               PROVE  [Next]_vars
  BY <1>1, <1>2, Zenon DEF Handle
<1> HIDE DEF s
<1>4. "ok" \in WriteOutcome
  OBVIOUS
<1>5. ASSUME Request(s) PROVE Next
  BY <1>0, <1>5, Zenon DEF Next
<1>6. CASE Fails(s, r)
  BY <1>5, <1>6, Zenon DEF Fails, Request
<1>7. CASE DoCreate(w, s, r) \/ DoJoin(w, s, r)
  BY <1>4, <1>5, <1>7, Zenon DEF DoCreate, DoJoin, Request
<1>8. CASE DoLeave(w, s, r)
  BY <1>4, <1>5, <1>8, Zenon DEF DoLeave, Request
<1>9. CASE DoModerate(w, s, r)
  BY <1>4, <1>5, <1>9 DEF DoModerate, Request
<1>10. CASE DoScreen(w, s, r)
  BY <1>5, <1>10, Zenon DEF DoScreen, Request
<1>11. CASE DoGroupKey(w, s, r)
  BY <1>0, <1>11 DEF DoGroupKey, vars
<1> QED BY <1>3, <1>6, <1>7, <1>8, <1>9, <1>10, <1>11, Zenon

\* The disconnect handler is CallService.disconnected, or finds nothing to do.
LEMMA DisconnectStep ==
  ASSUME NEW s \in Session, RunDisconnect(s)
  PROVE  [Next]_vars
<1>1. CASE session_rooms[s] # None /\ rooms[session_rooms[s]] # None
  BY <1>1, Zenon DEF RunDisconnect, Next, Step
<1>2. CASE ~(session_rooms[s] # None /\ rooms[session_rooms[s]] # None)
  BY <1>2, Zenon DEF RunDisconnect, vars
<1> QED BY <1>1, <1>2, Zenon

\* A timer that fires, and the callback that then gets the lock, are the
\* timer steps of the room state machine.
LEMMA TimerIsTimer ==
  ASSUME NEW r \in RoomId, TimerStep(r)
  PROVE  [Next]_vars
BY Zenon DEF TimerStep, Timer, Next, Step

\* Dispatching, also on a link that takes a session over, closing a link and
\* sending touch no room.
LEMMA OutsideTheLock ==
  /\ \A s \in Session : Dispatch(s) \/ TakeOver(s) \/ CloseLink(s) => UNCHANGED vars
  /\ \A t \in sending : \A s \in Session :
       SendOne(t, s) \/ SendFails(t, s) => UNCHANGED vars
BY Zenon DEF Dispatch, TakeOver, CloseLink, SendOne, SendFails

\* Every behaviour of call control is a behaviour of the room state machine:
\* late requests, closing links, sessions that move between links with both
\* threads at work, and failing sends cannot take a room where the handlers
\* under CallService._lock alone could not.
THEOREM RoomsImplemented == ControlSpec => RoomsRefined
<1>1. ControlInit => Init
  BY DEF ControlInit
<1>2. [ControlNext]_allVars => [Next]_vars
  <2>1. CASE ControlNext
    BY <2>1, HandleStep, DisconnectStep, TimerIsTimer, OutsideTheLock
    DEF ControlNext
  <2>2. CASE UNCHANGED allVars
    BY <2>2 DEF allVars
  <2> QED BY <2>1, <2>2
<1> QED BY <1>1, <1>2, PTL DEF ControlSpec, RoomsRefined, Spec

\* With links that close at any time and sends that fail, the media service
\* still never finds a policy other than the live room's (service.py:435).
THEOREM ControlPolicyCurrent == UnlinkWorks /\ ControlSpec => []PolicyIsCurrent
<1> SUFFICES ASSUME UnlinkWorks PROVE ControlSpec => []PolicyIsCurrent
  OBVIOUS
<1>1. Spec => []PolicyIsCurrent
  BY PolicyCurrent
<1> QED BY <1>1, RoomsImplemented, PTL DEF RoomsRefined

\* With links that close, sessions that move and requests that are handled
\* late, the initiator of a live room stays in it, nobody who was removed is in
\* it and its members are bound (_remove_member_locked, disconnected), as far
\* as the sessions concerned prove one address.
THEOREM ControlMembership ==
  ControlSpec => HostPresent /\ [](RemovedStayOut /\ MembersAreBound)
BY HostStays, RemovedOut, MembersBound, RoomsImplemented, PTL DEF RoomsRefined

=============================================================================
