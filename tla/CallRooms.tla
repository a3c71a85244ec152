------------------------------ MODULE CallRooms ------------------------------
(***************************************************************************)
(* The room state of CallService (call/service.py): membership, moderation,*)
(* the screen-share slot, the two kinds of timers, and the policy file the *)
(* media service reads.  Every handler runs its state change under         *)
(* CallService._lock, so each is one action; what a handler sends after it *)
(* releases the lock is added by module CallControl.  A request that is    *)
(* refused changes nothing and is not an action.                           *)
(*                                                                         *)
(* Time is abstract.  A deadline is a flag that an action of its own       *)
(* raises; a threading.Timer is armed until it fires, and once its         *)
(* callback thread exists Timer.cancel() no longer stops it, so fired      *)
(* callbacks wait for the lock in `expiring' and `screen_expiring'.  Two   *)
(* callbacks of one room id that wait at the same time are one element.    *)
(***************************************************************************)
EXTENDS Naturals, FiniteSets

CONSTANTS
  User,              \* Qortal addresses (participant ids)
  Session,           \* application session ids
  RoomId,
  Invite,            \* invitation token hashes
  Key,               \* a participant's pair of public keys
  ShareId,
  None,
  Accounts,          \* Accounts[s]: the addresses session s can prove
  WriteOutcome,      \* how an update of a policy file may end
  MaxRooms,          \* MAX_ROOMS
  MaxMembers,        \* MAX_PARTICIPANTS_PER_ROOM
  MaxModerated,      \* the limit on each moderation list
  MaxRevision,       \* bound of the model: requests stop at this revision
  MaxScreenRevision  \* bound of the model: shares stop at this revision

\* "ok": written.  "failed": OSError, the old file is unlinked and the error
\* propagates.  "stuck": OSError, and unlinking fails too (the filesystem
\* was remounted read-only), so the old file stays.
Outcomes == {"ok", "failed", "stuck"}

Member == [session: Session, key: Key]

Screen == [owner: User, share: ShareId,
           due: BOOLEAN,                    \* screen_expires_at has passed
           timer: {"armed", "fired"}]

Room == [initiator: User, invite: Invite,
         expired: BOOLEAN,                  \* expires_at_ms has passed
         timer: {"armed", "fired"},         \* expiry_timer
         revision: Nat,
         members: [User -> Member \cup {None}],
         screen: Screen \cup {None}, screen_revision: Nat,
         blocked: SUBSET User, muted: SUBSET User]

Policy == [members: [User -> Session \cup {None}], muted: SUBSET User]

ASSUME CallConstants ==
  /\ IsFiniteSet(User) /\ IsFiniteSet(RoomId)
  /\ Accounts \in [Session -> SUBSET User]
  /\ WriteOutcome \subseteq Outcomes /\ "ok" \in WriteOutcome
  /\ MaxRooms \in Nat /\ MaxMembers \in Nat \ {0} /\ MaxModerated \in Nat
  /\ MaxRevision \in Nat /\ MaxScreenRevision \in Nat

ASSUME NoneIsFresh ==
  /\ None \notin User /\ None \notin Session /\ None \notin RoomId
  /\ None \notin Room /\ None \notin Member /\ None \notin Screen
  /\ None \notin Policy

VARIABLES
  up,                 \* the backend process runs
  rooms,              \* _rooms; None when the id has no room
  session_rooms,      \* _session_rooms
  call_room_id,       \* session.metadata["call_room_id"]
  authenticated_user, \* session.authenticated_user
  policy,             \* rooms/<hash>.json; None when there is no file
  expiring,           \* rooms whose expiry callback waits for the lock
  screen_expiring     \* <<room, share>> whose lease callback waits for it

roomVars == <<rooms, session_rooms, call_room_id, policy>>
timerVars == <<expiring, screen_expiring>>
vars == <<up, roomVars, authenticated_user, timerVars>>

-----------------------------------------------------------------------------
(* Parts of a room *)

Participants(rm) == {u \in User : rm.members[u] # None}

SessionsOf(rm) == {rm.members[u].session : u \in Participants(rm)}

LiveRooms == {r \in RoomId : rooms[r] # None}

\* room.members.get(u) is bound to session s
IsMember(rm, u, s) ==
  /\ u \in User
  /\ rm.members[u] # None
  /\ rm.members[u].session = s

NewRoom(s, u, inv, k) ==
  [initiator |-> u, invite |-> inv, expired |-> FALSE, timer |-> "armed",
   revision |-> 1,
   members |-> [v \in User |->
                  IF v = u THEN [session |-> s, key |-> k] ELSE None],
   screen |-> None, screen_revision |-> 1, blocked |-> {}, muted |-> {}]

\* _write_policy's document
PolicyOf(rm) ==
  [members |-> [u \in User |-> IF rm.members[u] = None
                               THEN None ELSE rm.members[u].session],
   muted |-> rm.muted \cap Participants(rm)]

\* mutant: a failed update leaves the previous document in place
WritePolicyKeepsOld(pol, r, rm, o) ==
  IF o = "ok" THEN [pol EXCEPT ![r] = PolicyOf(rm)] ELSE pol

WritePolicy(pol, r, rm, o) ==
  CASE o = "ok"     -> [pol EXCEPT ![r] = PolicyOf(rm)]
    [] o = "failed" -> [pol EXCEPT ![r] = None]
    [] o = "stuck"  -> pol

\* mutant: the share is cleared but its presenter is kept
ClearScreenKeepsOwner(rm) ==
  [rm EXCEPT !.screen.share = None, !.screen_revision = @ + 1]

\* _clear_screen_locked
ClearScreen(rm) ==
  [rm EXCEPT !.screen = None, !.screen_revision = @ + 1]

\* mutant: a leaving presenter keeps the slot
WithoutMemberKeepsScreen(rm, u) ==
  [rm EXCEPT !.members[u] = None, !.revision = @ + 1]

\* mutant: a departure forgets the mute
WithoutMemberUnmutes(rm, u) ==
  [rm EXCEPT !.members[u] = None, !.revision = @ + 1, !.muted = @ \ {u},
             !.screen = None, !.screen_revision = @ + 1]

\* mutant: a departure that also ends a share counts once
WithoutMemberCountsOnce(rm, u) ==
  LET left == [rm EXCEPT !.members[u] = None]
  IN  IF rm.screen # None /\ rm.screen.owner = u
      THEN ClearScreen(left) ELSE [left EXCEPT !.revision = @ + 1]

\* the part of _remove_member_locked that changes the room
WithoutMember(rm, u) ==
  LET left == [rm EXCEPT !.members[u] = None, !.revision = @ + 1]
  IN  IF rm.screen # None /\ rm.screen.owner = u
      THEN ClearScreen(left) ELSE left

-----------------------------------------------------------------------------
(* Endings *)

Unbind(f, S) == [s \in Session |-> IF s \in S THEN None ELSE f[s]]

\* mutant: the members' sessions stay bound to the ended room
EndRoomKeepsSessions(r, o, actor) ==
  /\ o = "ok"
  /\ rooms' = [rooms EXCEPT ![r] = None]
  /\ policy' = [policy EXCEPT ![r] = None]
  /\ UNCHANGED <<session_rooms, call_room_id>>

\* _end_room_locked, and _clear_session_metadata for the session that acted.
\* Unlinking the policy either works or raises OSError, which leaves the
\* members bound to a room that is gone.
EndRoom(r, o, actor) ==
  /\ o # "failed"
  /\ rooms' = [rooms EXCEPT ![r] = None]
  /\ IF o = "stuck"
     THEN UNCHANGED <<policy, session_rooms, call_room_id>>
     ELSE /\ policy' = [policy EXCEPT ![r] = None]
          /\ session_rooms' = Unbind(session_rooms, SessionsOf(rooms[r]))
          /\ call_room_id' = Unbind(call_room_id, SessionsOf(rooms[r]) \cup actor)

\* the callbacks still to run after EndRoom: when unlink raised, the room's
\* timer was not cancelled and runs its callback later
CallbacksAfterEnd(r, o, waiting) ==
  IF o = "stuck" /\ rooms[r].timer = "armed" THEN waiting \cup {r} ELSE waiting

\* _remove_member_locked for the account the session holds NOW, followed by
\* _clear_session_metadata unless the policy write raised
RemoveMember(s, r, o) ==
  LET u == authenticated_user[s]
      left == WithoutMember(rooms[r], u)
  IN  IF IsMember(rooms[r], u, s)
      THEN /\ rooms' = [rooms EXCEPT ![r] = left]
           /\ session_rooms' = [session_rooms EXCEPT ![s] = None]
           /\ policy' = WritePolicy(policy, r, left, o)
           /\ call_room_id' = IF o = "ok"
                              THEN [call_room_id EXCEPT ![s] = None]
                              ELSE call_room_id
      ELSE /\ call_room_id' = [call_room_id EXCEPT ![s] = None]
           /\ UNCHANGED <<rooms, session_rooms, policy>>

\* what leave and disconnected do to the room the session is bound to
Depart(s, r, o) ==
  /\ IF authenticated_user[s] = rooms[r].initiator
     THEN /\ EndRoom(r, o, {s})
          /\ expiring' = CallbacksAfterEnd(r, o, expiring)
     ELSE /\ RemoveMember(s, r, o)
          /\ UNCHANGED expiring
  /\ UNCHANGED <<authenticated_user, screen_expiring>>

-----------------------------------------------------------------------------
(* Requests of clients *)

\* AuthenticationService.authenticate succeeded: SessionManager.promote
Authenticate(s, u) ==
  /\ u \in Accounts[s] /\ authenticated_user[s] # u
  /\ authenticated_user' = [authenticated_user EXCEPT ![s] = u]
  /\ UNCHANGED <<roomVars, timerVars>>

\* A policy that cannot be written undoes the creation.
Create(s, r, inv, k, o) ==
  LET rm == NewRoom(s, authenticated_user[s], inv, k)
  IN  /\ authenticated_user[s] # None
      /\ session_rooms[s] = None
      /\ rooms[r] = None
      /\ Cardinality(LiveRooms) < MaxRooms
      /\ policy' = WritePolicy(policy, r, rm, o)
      /\ IF o = "ok"
         THEN /\ rooms' = [rooms EXCEPT ![r] = rm]
              /\ session_rooms' = [session_rooms EXCEPT ![s] = r]
              /\ call_room_id' = [call_room_id EXCEPT ![s] = r]
         ELSE /\ call_room_id' = [call_room_id EXCEPT ![s] = None]
              /\ UNCHANGED <<rooms, session_rooms>>
      /\ UNCHANGED <<authenticated_user, timerVars>>

HasSpace(rm, u) ==
  rm.members[u] = None => Cardinality(Participants(rm)) < MaxMembers

\* mutant: a removed account may use its invitation again
MayJoinIgnoresBlock(s, r, inv) ==
  LET u == authenticated_user[s]  rm == rooms[r]
  IN  /\ u # None /\ session_rooms[s] \in {None, r}
      /\ rm # None /\ ~rm.expired /\ inv = rm.invite
      /\ rm.members[u] # None => rm.members[u].session = s
      /\ HasSpace(rm, u)

\* the checks of join that let it through
MayJoin(s, r, inv) ==
  LET u == authenticated_user[s]  rm == rooms[r]
  IN  /\ u # None
      /\ session_rooms[s] \in {None, r}
      /\ rm # None /\ ~rm.expired
      /\ inv = rm.invite
      /\ u \notin rm.blocked
      /\ rm.members[u] # None => rm.members[u].session = s
      /\ HasSpace(rm, u)

\* the room after join; the revision counts changes of a member
Joined(rm, u, s, k) ==
  LET m == [session |-> s, key |-> k]
  IN  [rm EXCEPT !.members[u] = m,
                 !.revision = IF rm.members[u] = m THEN @ ELSE @ + 1]

\* A failed policy write is raised after the member is in place.
Join(s, r, inv, k, o) ==
  LET left == Joined(rooms[r], authenticated_user[s], s, k)
  IN  /\ MayJoin(s, r, inv)
      /\ rooms[r].revision < MaxRevision
      /\ rooms' = [rooms EXCEPT ![r] = left]
      /\ session_rooms' = [session_rooms EXCEPT ![s] = r]
      /\ call_room_id' = [call_room_id EXCEPT ![s] = r]
      /\ policy' = WritePolicy(policy, r, left, o)
      /\ UNCHANGED <<authenticated_user, timerVars>>

Leave(s, r, o) ==
  /\ authenticated_user[s] # None
  /\ session_rooms[s] = r /\ rooms[r] # None
  /\ Depart(s, r, o)

\* The server's disconnect handler: the link closed or access was revoked.
Disconnected(s, o) ==
  /\ session_rooms[s] # None /\ rooms[session_rooms[s]] # None
  /\ Depart(s, session_rooms[s], o)

-----------------------------------------------------------------------------
(* Moderation *)

\* mutant: the creator can be the target
MayModerateAnyone(s, r, t) ==
  /\ rooms[r] # None /\ ~rooms[r].expired
  /\ authenticated_user[s] = rooms[r].initiator
  /\ IsMember(rooms[r], authenticated_user[s], s)
  /\ rooms[r].revision < MaxRevision

\* the active creator's own session, and a target other than the creator
MayModerate(s, r, t) ==
  /\ rooms[r] # None /\ ~rooms[r].expired
  /\ authenticated_user[s] = rooms[r].initiator
  /\ IsMember(rooms[r], authenticated_user[s], s)
  /\ t # authenticated_user[s]
  /\ rooms[r].revision < MaxRevision

\* a moderation that only edits the lists of the room
EditRoom(r, edited, o) ==
  /\ rooms' = [rooms EXCEPT ![r] = edited]
  /\ policy' = WritePolicy(policy, r, edited, o)
  /\ UNCHANGED <<session_rooms, call_room_id, authenticated_user, timerVars>>

Mute(s, r, t, o) ==
  /\ MayModerate(s, r, t) /\ t \in Participants(rooms[r])
  /\ t \in rooms[r].muted \/ Cardinality(rooms[r].muted) < MaxModerated
  /\ EditRoom(r, [rooms[r] EXCEPT !.muted = @ \cup {t}, !.revision = @ + 1], o)

AllowMic(s, r, t, o) ==
  /\ MayModerate(s, r, t) /\ t \in Participants(rooms[r])
  /\ EditRoom(r, [rooms[r] EXCEPT !.muted = @ \ {t}, !.revision = @ + 1], o)

Readmit(s, r, t, o) ==
  /\ MayModerate(s, r, t)
  /\ EditRoom(r, [rooms[r] EXCEPT !.blocked = @ \ {t}, !.revision = @ + 1], o)

\* Remove writes the policy twice: o1 inside _remove_member_locked, o2 at the
\* end.  A failure of the first leaves the metadata and the mute as they were.
Remove(s, r, t, o1, o2) ==
  LET present == t \in Participants(rooms[r])
      ts == rooms[r].members[t].session
      tu == authenticated_user[ts]
      drop == present /\ IsMember(rooms[r], tu, ts)
      banned == [rooms[r] EXCEPT !.blocked = @ \cup {t}]
      dropped == IF drop THEN WithoutMember(banned, tu) ELSE banned
      done == [dropped EXCEPT !.muted = @ \ {t}, !.revision = @ + 1]
      first == IF drop THEN WritePolicy(policy, r, dropped, o1) ELSE policy
  IN  /\ MayModerate(s, r, t)
      /\ present \/ t \in rooms[r].blocked
      /\ t \in rooms[r].blocked \/ Cardinality(rooms[r].blocked) < MaxModerated
      /\ session_rooms' = IF drop THEN [session_rooms EXCEPT ![ts] = None]
                                  ELSE session_rooms
      /\ IF drop /\ o1 # "ok"
         THEN /\ rooms' = [rooms EXCEPT ![r] = dropped]
              /\ policy' = first
              /\ UNCHANGED call_room_id
         ELSE /\ rooms' = [rooms EXCEPT ![r] = done]
              /\ policy' = WritePolicy(first, r, done, o2)
              /\ call_room_id' = IF present
                                 THEN [call_room_id EXCEPT ![ts] = None]
                                 ELSE call_room_id
      /\ UNCHANGED <<authenticated_user, timerVars>>

-----------------------------------------------------------------------------
(* The screen-share slot *)

MayShare(s, r) ==
  /\ rooms[r] # None /\ ~rooms[r].expired
  /\ IsMember(rooms[r], authenticated_user[s], s)
  /\ rooms[r].screen_revision < MaxScreenRevision

\* screen_control first releases a slot whose lease has run out.
Settled(rm) ==
  IF rm.screen # None /\ rm.screen.due THEN ClearScreen(rm) ELSE rm

Owns(rm, u, sh) ==
  rm.screen # None /\ rm.screen.owner = u /\ rm.screen.share = sh

\* a new lease and its timer; cancelling the old one works while it is armed
Leased(rm, u, sh) ==
  [rm EXCEPT !.screen = [owner |-> u, share |-> sh,
                         due |-> FALSE, timer |-> "armed"],
             !.screen_revision = IF Owns(rm, u, sh) THEN @ ELSE @ + 1]

SetScreen(r, rm) ==
  /\ rooms' = [rooms EXCEPT ![r] = rm]
  /\ UNCHANGED <<session_rooms, call_room_id, policy, authenticated_user,
                 timerVars>>

ScreenStart(s, r, sh) ==
  LET rm == Settled(rooms[r])  u == authenticated_user[s]
  IN  /\ MayShare(s, r)
      /\ SetScreen(r, IF rm.screen = None \/ Owns(rm, u, sh)
                      THEN Leased(rm, u, sh) ELSE rm)

ScreenStop(s, r, sh) ==
  LET rm == Settled(rooms[r])  u == authenticated_user[s]
  IN  /\ MayShare(s, r)
      /\ SetScreen(r, IF Owns(rm, u, sh) THEN ClearScreen(rm) ELSE rm)

ScreenRenew(s, r, sh) ==
  LET rm == Settled(rooms[r])  u == authenticated_user[s]
  IN  /\ MayShare(s, r)
      /\ SetScreen(r, IF Owns(rm, u, sh) THEN Leased(rm, u, sh) ELSE rm)

-----------------------------------------------------------------------------
(* Time and timers *)

\* expires_at_ms passes
RoomDeadline(r) ==
  /\ rooms[r] # None /\ ~rooms[r].expired
  /\ rooms' = [rooms EXCEPT ![r].expired = TRUE]
  /\ UNCHANGED <<session_rooms, call_room_id, policy, authenticated_user,
                 timerVars>>

\* mutant: timer.start() is missing
RoomTimerUnstarted(r) == FALSE

\* the expiry timer's thread starts _expire_room
RoomTimerFires(r) ==
  /\ rooms[r] # None /\ rooms[r].expired /\ rooms[r].timer = "armed"
  /\ rooms' = [rooms EXCEPT ![r].timer = "fired"]
  /\ expiring' = expiring \cup {r}
  /\ UNCHANGED <<session_rooms, call_room_id, policy, authenticated_user,
                 screen_expiring>>

\* _expire_room: ends whatever room has this id by now
ExpireRoom(r, o) ==
  /\ r \in expiring
  /\ IF rooms[r] = None
     THEN /\ o = "ok" /\ UNCHANGED roomVars
          /\ expiring' = expiring \ {r}
     ELSE /\ EndRoom(r, o, {})
          /\ expiring' = CallbacksAfterEnd(r, o, expiring \ {r})
  /\ UNCHANGED <<authenticated_user, screen_expiring>>

\* screen_expires_at passes
LeaseElapses(r) ==
  /\ rooms[r] # None /\ rooms[r].screen # None /\ ~rooms[r].screen.due
  /\ rooms' = [rooms EXCEPT ![r].screen.due = TRUE]
  /\ UNCHANGED <<session_rooms, call_room_id, policy, authenticated_user,
                 timerVars>>

\* mutant: timer.start() is missing
ScreenTimerUnstarted(r) == FALSE

\* the lease timer's thread starts _expire_screen
ScreenTimerFires(r) ==
  /\ rooms[r] # None /\ rooms[r].screen # None
  /\ rooms[r].screen.due /\ rooms[r].screen.timer = "armed"
  /\ rooms' = [rooms EXCEPT ![r].screen.timer = "fired"]
  /\ screen_expiring' = screen_expiring \cup {<<r, rooms[r].screen.share>>}
  /\ UNCHANGED <<session_rooms, call_room_id, policy, authenticated_user,
                 expiring>>

\* mutant: the callback trusts that it was not overtaken by a renewal
ScreenLapsedUnchecked(r, sh) ==
  rooms[r] # None /\ rooms[r].screen # None

\* the test of _expire_screen
ScreenLapsed(r, sh) ==
  /\ rooms[r] # None /\ rooms[r].screen # None
  /\ rooms[r].screen.share = sh /\ rooms[r].screen.due

ExpireScreen(r, sh) ==
  /\ <<r, sh>> \in screen_expiring
  /\ screen_expiring' = screen_expiring \ {<<r, sh>>}
  /\ rooms' = IF ScreenLapsed(r, sh)
              THEN [rooms EXCEPT ![r] = ClearScreen(rooms[r])] ELSE rooms
  /\ UNCHANGED <<session_rooms, call_room_id, policy, authenticated_user,
                 expiring>>

-----------------------------------------------------------------------------
(* The process *)

\* The process dies: rooms, sessions in use and timers are gone, the policy
\* files are not.
Crash ==
  /\ up' = FALSE
  /\ rooms' = [r \in RoomId |-> None]
  /\ session_rooms' = [s \in Session |-> None]
  /\ call_room_id' = [s \in Session |-> None]
  /\ authenticated_user' = [s \in Session |-> None]
  /\ expiring' = {} /\ screen_expiring' = {}
  /\ UNCHANGED policy

\* CallService.__init__ unlinks every policy before it registers a handler.
Boot ==
  /\ ~up /\ up' = TRUE
  /\ policy' = [r \in RoomId |-> None]
  /\ UNCHANGED <<rooms, session_rooms, call_room_id, authenticated_user,
                 timerVars>>

Init ==
  /\ up = TRUE
  /\ rooms = [r \in RoomId |-> None]
  /\ session_rooms = [s \in Session |-> None]
  /\ call_room_id = [s \in Session |-> None]
  /\ authenticated_user = [s \in Session |-> None]
  /\ policy = [r \in RoomId |-> None]
  /\ expiring = {} /\ screen_expiring = {}

Request(s) ==
  \/ \E u \in User : Authenticate(s, u)
  \/ \E r \in RoomId, o \in WriteOutcome :
       \/ Leave(s, r, o)
       \/ \E inv \in Invite, k \in Key :
            Create(s, r, inv, k, o) \/ Join(s, r, inv, k, o)
       \/ \E t \in User :
            \/ Mute(s, r, t, o) \/ AllowMic(s, r, t, o) \/ Readmit(s, r, t, o)
            \/ \E o2 \in WriteOutcome : Remove(s, r, t, o, o2)
  \/ \E r \in RoomId, sh \in ShareId :
       ScreenStart(s, r, sh) \/ ScreenStop(s, r, sh) \/ ScreenRenew(s, r, sh)

Timer(r) ==
  \/ RoomDeadline(r) \/ RoomTimerFires(r)
  \/ LeaseElapses(r) \/ ScreenTimerFires(r)
  \/ \E o \in WriteOutcome : ExpireRoom(r, o)
  \/ \E sh \in ShareId : ExpireScreen(r, sh)

Step ==
  /\ up /\ UNCHANGED up
  /\ \/ \E s \in Session : Request(s)
     \/ \E s \in Session, o \in WriteOutcome : Disconnected(s, o)
     \/ \E r \in RoomId : Timer(r)

Next == Step \/ (up /\ Crash) \/ Boot

Spec == Init /\ [][Next]_vars

\* Timers fire and their threads get the lock: threading.Timer threads run
\* on their own, and every holder of _lock releases it.
TimerFairness ==
  \A r \in RoomId :
    /\ WF_vars(up /\ UNCHANGED up /\ RoomTimerFires(r))
    /\ WF_vars(up /\ UNCHANGED up /\ \E o \in WriteOutcome : ExpireRoom(r, o))
    /\ WF_vars(up /\ UNCHANGED up /\ ScreenTimerFires(r))
    /\ \A sh \in ShareId : WF_vars(up /\ UNCHANGED up /\ ExpireScreen(r, sh))

FairSpec == Spec /\ TimerFairness

-----------------------------------------------------------------------------
(* Properties *)

\* Every variable has its type; in particular a share has an owner, an id, a
\* lease and a timer, or none of them (_clear_screen_locked resets all).
TypeOK ==
  /\ up \in BOOLEAN
  /\ rooms \in [RoomId -> Room \cup {None}]
  /\ session_rooms \in [Session -> RoomId \cup {None}]
  /\ call_room_id \in [Session -> RoomId \cup {None}]
  /\ authenticated_user \in [Session -> User \cup {None}]
  /\ policy \in [RoomId -> Policy \cup {None}]
  /\ expiring \subseteq RoomId
  /\ screen_expiring \subseteq RoomId \X ShareId

\* Session s proves one address only.  authenticate lets a session prove
\* another one and promote then replaces its authenticated_user
\* (sessions.py:135), while the rooms keep the session under the old one.
Steady(s) == \A u, v \in Accounts[s] : u = v

\* No unlink of a policy file ever fails.
UnlinkWorks == "stuck" \notin WriteOutcome

\* _rooms and _session_rooms are one relation seen from both sides.  A member
\* whose session proves no other address is bound to exactly that room, still
\* holds the account it joined as, and carries the room in its metadata,
\* however other sessions change accounts.  A bound session is a member, also
\* one that changes accounts, unless an ending that raised in unlink left it
\* behind.
MembersAreBound ==
  /\ \A r \in LiveRooms : \A u \in Participants(rooms[r]) :
       LET s == rooms[r].members[u].session
       IN  Steady(s) => /\ session_rooms[s] = r /\ call_room_id[s] = r
                        /\ authenticated_user[s] = u
  /\ UnlinkWorks => \A s \in Session : session_rooms[s] # None =>
       /\ session_rooms[s] \in LiveRooms
       /\ s \in SessionsOf(rooms[session_rooms[s]])

\* A room lives only while its initiator is in it: leave and disconnected end
\* the room, and moderation cannot target the creator.  The one exception is
\* an initiator in the room with a session that proves another address too,
\* since removing that other account drops the account the session holds now.
HostPresent ==
  [][\A r \in RoomId : rooms[r] # None /\ rooms'[r] # None =>
       LET h == rooms[r].initiator
       IN  h \in Participants(rooms[r]) /\ Steady(rooms[r].members[h].session)
             => h \in Participants(rooms'[r])]_vars

\* A removed account is out of the room until it is readmitted and joins.  It
\* can only stay in with a session that proves another address too, which the
\* removal looks for instead.
RemovedStayOut ==
  \A r \in LiveRooms : \A u \in rooms[r].blocked \cap Participants(rooms[r]) :
    ~Steady(rooms[r].members[u].session)

\* While the backend runs, the media service finds either no policy or the
\* policy of the room as it is now, whatever updates failed before
\* (service.py:435), and none for a room that ended or did not survive a
\* restart.
PolicyIsCurrent ==
  up => \A r \in RoomId : policy[r] # None =>
          rooms[r] # None /\ policy[r] = PolicyOf(rooms[r])

\* The presenter is a member, and the lease has a timer that will release it:
\* one that has not fired, or one whose callback waits and will find the
\* lease lapsed.
ScreenIsLeased ==
  \A r \in LiveRooms : rooms[r].screen # None =>
    LET sc == rooms[r].screen
    IN  /\ sc.owner \in Participants(rooms[r])
        /\ sc.timer = "fired" => sc.due /\ <<r, sc.share>> \in screen_expiring

\* what a client sees of a room in a membership snapshot and in a screen state
MembershipSeen(rm) ==
  <<rm.initiator, rm.members, rm.muted \cap Participants(rm)>>

ScreenSeen(rm) ==
  IF rm.screen = None THEN None ELSE <<rm.screen.owner, rm.screen.share>>

\* Revisions order snapshots: they never go back, and two snapshots of a room
\* with the same revision are equal (docs/call-protocol.md, "monotonically
\* increasing revision").
SnapshotsAreOrdered ==
  [][\A r \in RoomId : rooms[r] # None /\ rooms'[r] # None =>
       /\ rooms'[r].revision >= rooms[r].revision
       /\ MembershipSeen(rooms'[r]) # MembershipSeen(rooms[r]) =>
            rooms'[r].revision > rooms[r].revision
       /\ rooms'[r].screen_revision >= rooms[r].screen_revision
       /\ ScreenSeen(rooms'[r]) # ScreenSeen(rooms[r]) =>
            rooms'[r].screen_revision > rooms[r].screen_revision]_vars

\* Only allow_mic, and the removal that blocks the account, lift a mute:
\* leaving and joining again does not (docs/call-moderation.md).
MuteSticks ==
  [][\A r \in RoomId : rooms[r] # None /\ rooms'[r] # None =>
       \A u \in rooms[r].muted \ rooms'[r].muted :
         \/ u \in rooms'[r].blocked
         \/ /\ u \in Participants(rooms[r])
            /\ rooms'[r].members = rooms[r].members]_vars

\* A callback that waited for the lock never ends a lease that was renewed
\* meanwhile: a share that is not due ends only by its owner's stop or
\* departure, or with the room.
RenewedLeaseSurvives ==
  [][\A r \in RoomId :
       (/\ rooms[r] # None /\ rooms'[r] # None
        /\ rooms[r].screen # None /\ ~rooms[r].screen.due
        /\ rooms'[r].screen = None)
       => screen_expiring' = screen_expiring]_vars

\* A room whose deadline passed ends (the three-hour timer), unless the process
\* dies first, which ends it too.
ExpiredRoomEnds ==
  \A r \in RoomId :
    (rooms[r] # None /\ rooms[r].expired) ~> (rooms[r] = None)

\* A share whose lease ran out gives the slot back, without waiting for the
\* room to end.
LapsedLeaseEnds ==
  \A r \in RoomId :
    (rooms[r] # None /\ rooms[r].screen # None /\ rooms[r].screen.due)
      ~> ~(rooms[r] # None /\ rooms[r].screen # None /\ rooms[r].screen.due)

=============================================================================
