--------------------------- MODULE CallRoomsProofs ---------------------------
(***************************************************************************)
(* Theorems about CallRooms for every value of its constants.              *)
(***************************************************************************)
EXTENDS CallRooms, TLAPS

-----------------------------------------------------------------------------
(* The transformations rooms undergo: what each keeps and what it changes *)

SameTimer(new, old) ==
  /\ new.initiator = old.initiator /\ new.invite = old.invite
  /\ new.expired = old.expired /\ new.timer = old.timer

SameScreen(new, old) ==
  new.screen = old.screen /\ new.screen_revision = old.screen_revision

SameLists(new, old) == new.blocked = old.blocked /\ new.muted = old.muted

\* Storing members and a revision yields a room (join, _remove_member_locked).
LEMMA SetMembers ==
  ASSUME NEW rm \in Room, NEW f \in [User -> Member \cup {None}], NEW v \in Nat
  PROVE  [rm EXCEPT !.members = f, !.revision = v] \in Room
BY Zenon DEF Room

\* Storing a share and its revision yields a room (screen_control).
LEMMA SetSlot ==
  ASSUME NEW rm \in Room, NEW sc \in Screen \cup {None}, NEW v \in Nat
  PROVE  [rm EXCEPT !.screen = sc, !.screen_revision = v] \in Room
BY Zenon DEF Room

\* Storing a mute list and a revision yields a room (moderate).
LEMMA SetMuted ==
  ASSUME NEW rm \in Room, NEW S \in SUBSET User, NEW v \in Nat
  PROVE  [rm EXCEPT !.muted = S, !.revision = v] \in Room
BY Zenon DEF Room

\* Storing a block list and a revision yields a room (moderate).
LEMMA SetBlocked ==
  ASSUME NEW rm \in Room, NEW S \in SUBSET User, NEW v \in Nat
  PROVE  [rm EXCEPT !.blocked = S, !.revision = v] \in Room
BY Zenon DEF Room

\* Every field of a room has its type.
LEMMA RoomFields ==
  ASSUME NEW rm \in Room
  PROVE  /\ rm.initiator \in User /\ rm.invite \in Invite
         /\ rm.expired \in BOOLEAN /\ rm.timer \in {"armed", "fired"}
         /\ rm.revision \in Nat /\ rm.screen_revision \in Nat
         /\ rm.members \in [User -> Member \cup {None}]
         /\ rm.screen \in Screen \cup {None}
         /\ rm.blocked \in SUBSET User /\ rm.muted \in SUBSET User
BY DEF Room

\* create starts a room with its initiator as the only member.
LEMMA NewRoomFacts ==
  ASSUME NEW s \in Session, NEW u \in User, NEW inv \in Invite, NEW k \in Key
  PROVE  LET rm == NewRoom(s, u, inv, k)
         IN  /\ rm \in Room
             /\ rm.initiator = u /\ rm.timer = "armed" /\ rm.screen = None
             /\ rm.blocked = {} /\ rm.muted = {}
             /\ rm.members[u] = [session |-> s, key |-> k]
             /\ \A v \in User : rm.members[v] =
                   IF v = u THEN [session |-> s, key |-> k] ELSE None
BY DEF NewRoom, Room, Member

\* _clear_screen_locked releases the slot and advances its revision.
LEMMA ClearScreenFacts ==
  ASSUME NEW rm \in Room
  PROVE  LET new == ClearScreen(rm)
         IN  /\ new \in Room /\ SameTimer(new, rm) /\ SameLists(new, rm)
             /\ new.revision = rm.revision /\ new.members = rm.members
             /\ new.screen = None
             /\ new.screen_revision = rm.screen_revision + 1
<1>1. ClearScreen(rm) \in Room
  <2>1. rm.screen_revision + 1 \in Nat
    BY RoomFields
  <2> QED BY <2>1, SetSlot, Zenon DEF ClearScreen
<1> QED BY <1>1 DEF ClearScreen, Room, SameTimer, SameLists

\* _remove_member_locked takes one member out, and the slot if it held it.
LEMMA WithoutMemberFacts ==
  ASSUME NEW rm \in Room, NEW u \in User
  PROVE  LET new == WithoutMember(rm, u)
         IN  /\ new \in Room /\ SameTimer(new, rm) /\ SameLists(new, rm)
             /\ new.revision = rm.revision + 1
             /\ new.members = [rm.members EXCEPT ![u] = None]
             /\ \/ SameScreen(new, rm) /\ (rm.screen # None => rm.screen.owner # u)
                \/ /\ new.screen = None
                   /\ new.screen_revision = rm.screen_revision + 1
<1> DEFINE f == [rm.members EXCEPT ![u] = None]
           left == [rm EXCEPT !.members[u] = None, !.revision = @ + 1]
<1>1. left \in Room
  <2>1. f \in [User -> Member \cup {None}] /\ rm.revision + 1 \in Nat
    BY RoomFields
  <2>2. left = [rm EXCEPT !.members = f, !.revision = rm.revision + 1]
    OBVIOUS
  <2>3. [rm EXCEPT !.members = f, !.revision = rm.revision + 1] \in Room
    BY <2>1, SetMembers, Zenon
  <2> QED BY <2>2, <2>3
<1>2. /\ SameTimer(left, rm) /\ SameScreen(left, rm) /\ SameLists(left, rm)
      /\ left.members = f /\ left.revision = rm.revision + 1
  BY DEF Room, SameTimer, SameScreen, SameLists
<1>3. WithoutMember(rm, u) = IF rm.screen # None /\ rm.screen.owner = u
                             THEN ClearScreen(left) ELSE left
  BY DEF WithoutMember
<1> HIDE DEF left, f
<1>4. CASE rm.screen # None /\ rm.screen.owner = u
  <2>1. WithoutMember(rm, u) = ClearScreen(left)
    BY <1>3, <1>4
  <2>2. LET new == ClearScreen(left)
        IN  /\ new \in Room /\ SameTimer(new, left) /\ SameLists(new, left)
            /\ new.revision = left.revision /\ new.members = left.members
            /\ new.screen = None
            /\ new.screen_revision = left.screen_revision + 1
    BY <1>1, ClearScreenFacts
  <2> QED BY <1>2, <2>1, <2>2 DEF f, SameTimer, SameScreen, SameLists
<1>5. CASE ~(rm.screen # None /\ rm.screen.owner = u)
  BY <1>1, <1>2, <1>3, <1>5 DEF f
<1> QED BY <1>4, <1>5

\* join stores the member; the revision advances when the member changed.
LEMMA JoinedFacts ==
  ASSUME NEW rm \in Room, NEW u \in User, NEW s \in Session, NEW k \in Key
  PROVE  LET new == Joined(rm, u, s, k)
             m == [session |-> s, key |-> k]
         IN  /\ new \in Room /\ SameTimer(new, rm)
             /\ SameScreen(new, rm) /\ SameLists(new, rm)
             /\ new.members = [rm.members EXCEPT ![u] = m]
             /\ new.revision = IF rm.members[u] = m THEN rm.revision
                                                    ELSE rm.revision + 1
<1> DEFINE m == [session |-> s, key |-> k]
           f == [rm.members EXCEPT ![u] = m]
           v == IF rm.members[u] = m THEN rm.revision ELSE rm.revision + 1
<1>1. f \in [User -> Member \cup {None}] /\ v \in Nat
  BY RoomFields DEF Member
<1>2. Joined(rm, u, s, k) = [rm EXCEPT !.members = f, !.revision = v]
  BY DEF Joined
<1> HIDE DEF f, v
<1>3. [rm EXCEPT !.members = f, !.revision = v] \in Room
  BY <1>1, SetMembers, Zenon
<1>4. LET new == [rm EXCEPT !.members = f, !.revision = v]
      IN  /\ SameTimer(new, rm) /\ SameScreen(new, rm) /\ SameLists(new, rm)
          /\ new.members = f /\ new.revision = v
  BY DEF Room, SameTimer, SameScreen, SameLists
<1> QED BY <1>2, <1>3, <1>4 DEF f, v

\* screen_control first releases a slot that is due.
LEMMA SettledFacts ==
  ASSUME NEW rm \in Room
  PROVE  LET new == Settled(rm)
         IN  /\ new \in Room /\ SameTimer(new, rm) /\ SameLists(new, rm)
             /\ new.revision = rm.revision /\ new.members = rm.members
             /\ \/ SameScreen(new, rm)
                \/ /\ new.screen = None
                   /\ new.screen_revision = rm.screen_revision + 1
BY ClearScreenFacts DEF Settled, SameTimer, SameScreen, SameLists

\* A lease gets an armed timer; the revision advances when the share changed.
LEMMA LeasedFacts ==
  ASSUME NEW rm \in Room, NEW u \in User, NEW sh \in ShareId
  PROVE  LET new == Leased(rm, u, sh)
         IN  /\ new \in Room /\ SameTimer(new, rm) /\ SameLists(new, rm)
             /\ new.revision = rm.revision /\ new.members = rm.members
             /\ new.screen = [owner |-> u, share |-> sh,
                              due |-> FALSE, timer |-> "armed"]
             /\ new.screen_revision = IF Owns(rm, u, sh) THEN rm.screen_revision
                                      ELSE rm.screen_revision + 1
<1> DEFINE sc == [owner |-> u, share |-> sh, due |-> FALSE, timer |-> "armed"]
           v == IF Owns(rm, u, sh) THEN rm.screen_revision
                ELSE rm.screen_revision + 1
<1>1. sc \in Screen \cup {None} /\ v \in Nat
  BY RoomFields DEF Screen
<1>2. Leased(rm, u, sh) = [rm EXCEPT !.screen = sc, !.screen_revision = v]
  BY DEF Leased
<1> HIDE DEF sc, v
<1>3. [rm EXCEPT !.screen = sc, !.screen_revision = v] \in Room
  BY <1>1, SetSlot, Zenon
<1>4. LET new == [rm EXCEPT !.screen = sc, !.screen_revision = v]
      IN  /\ SameTimer(new, rm) /\ SameLists(new, rm)
          /\ new.revision = rm.revision /\ new.members = rm.members
          /\ new.screen = sc /\ new.screen_revision = v
  BY DEF Room, SameTimer, SameLists
<1> QED BY <1>2, <1>3, <1>4 DEF sc, v

\* The policy of a room is a policy.
LEMMA PolicyOfType ==
  ASSUME NEW rm \in Room PROVE PolicyOf(rm) \in Policy
<1>1. \A u \in User : rm.members[u] # None => rm.members[u].session \in Session
  BY DEF Room, Member
<1> QED BY <1>1 DEF PolicyOf, Policy, Participants, Room

\* _write_policy replaces one file: by the room's policy or by nothing.
LEMMA WritePolicyFacts ==
  ASSUME NEW pol \in [RoomId -> Policy \cup {None}], NEW r \in RoomId,
         NEW rm \in Room, NEW o \in Outcomes
  PROVE  LET new == WritePolicy(pol, r, rm, o)
         IN  /\ new \in [RoomId -> Policy \cup {None}]
             /\ \A q \in RoomId : q # r => new[q] = pol[q]
             /\ o # "stuck" => new[r] \in {PolicyOf(rm), None}
BY PolicyOfType DEF WritePolicy, Outcomes

\* A moderation step that edits one list yields a room that differs from the
\* old one in that list and in its revision.
LEMMA EditFacts ==
  ASSUME NEW rm \in Room, NEW t \in User
  PROVE  LET mute == [rm EXCEPT !.muted = @ \cup {t}, !.revision = @ + 1]
             unmute == [rm EXCEPT !.muted = @ \ {t}, !.revision = @ + 1]
             readmit == [rm EXCEPT !.blocked = @ \ {t}, !.revision = @ + 1]
         IN  /\ \A new \in {mute, unmute, readmit} :
                  /\ new \in Room /\ SameTimer(new, rm) /\ SameScreen(new, rm)
                  /\ new.members = rm.members /\ new.revision = rm.revision + 1
             /\ mute.muted = rm.muted \cup {t} /\ mute.blocked = rm.blocked
             /\ unmute.muted = rm.muted \ {t} /\ unmute.blocked = rm.blocked
             /\ readmit.muted = rm.muted /\ readmit.blocked = rm.blocked \ {t}
<1>1. rm.revision + 1 \in Nat
  BY RoomFields
<1>2. [rm EXCEPT !.muted = @ \cup {t}, !.revision = @ + 1] \in Room
  <2>1. rm.muted \cup {t} \in SUBSET User
    BY RoomFields
  <2> QED BY <1>1, <2>1, SetMuted, Zenon
<1>3. [rm EXCEPT !.muted = @ \ {t}, !.revision = @ + 1] \in Room
  <2>1. rm.muted \ {t} \in SUBSET User
    BY RoomFields
  <2> QED BY <1>1, <2>1, SetMuted, Zenon
<1>4. [rm EXCEPT !.blocked = @ \ {t}, !.revision = @ + 1] \in Room
  <2>1. rm.blocked \ {t} \in SUBSET User
    BY RoomFields
  <2> QED BY <1>1, <2>1, SetBlocked, Zenon
<1>5. LET new == [rm EXCEPT !.muted = @ \cup {t}, !.revision = @ + 1]
      IN  /\ SameTimer(new, rm) /\ SameScreen(new, rm)
          /\ new.members = rm.members /\ new.revision = rm.revision + 1
          /\ new.muted = rm.muted \cup {t} /\ new.blocked = rm.blocked
  BY DEF Room, SameTimer, SameScreen
<1>6. LET new == [rm EXCEPT !.muted = @ \ {t}, !.revision = @ + 1]
      IN  /\ SameTimer(new, rm) /\ SameScreen(new, rm)
          /\ new.members = rm.members /\ new.revision = rm.revision + 1
          /\ new.muted = rm.muted \ {t} /\ new.blocked = rm.blocked
  BY DEF Room, SameTimer, SameScreen
<1>7. LET new == [rm EXCEPT !.blocked = @ \ {t}, !.revision = @ + 1]
      IN  /\ SameTimer(new, rm) /\ SameScreen(new, rm)
          /\ new.members = rm.members /\ new.revision = rm.revision + 1
          /\ new.muted = rm.muted /\ new.blocked = rm.blocked \ {t}
  BY DEF Room, SameTimer, SameScreen
<1> QED BY <1>2, <1>3, <1>4, <1>5, <1>6, <1>7

\* The room while and after moderate removes an account: blocked, without the
\* member that was dropped, and in the end without the mute.
Banned(rm, t) == [rm EXCEPT !.blocked = @ \cup {t}]

Lifted(rm, t) == [rm EXCEPT !.muted = @ \ {t}, !.revision = @ + 1]

\* Banned only adds to the block list.
LEMMA BannedFacts ==
  ASSUME NEW rm \in Room, NEW t \in User
  PROVE  LET new == Banned(rm, t)
         IN  /\ new \in Room /\ SameTimer(new, rm) /\ SameScreen(new, rm)
             /\ new.members = rm.members /\ new.revision = rm.revision
             /\ new.muted = rm.muted /\ new.blocked = rm.blocked \cup {t}
<1>1. rm.blocked \cup {t} \in SUBSET User
  BY RoomFields
<1>2. Banned(rm, t) \in Room
  BY <1>1 DEF Room, Banned
<1> QED BY <1>2 DEF Room, Banned, SameTimer, SameScreen

\* The four flags time raises leave the rest of a room alone.
LEMMA FlagFacts ==
  ASSUME NEW rm \in Room
  PROVE  /\ LET new == [rm EXCEPT !.expired = TRUE]
            IN  /\ new \in Room /\ SameScreen(new, rm) /\ SameLists(new, rm)
                /\ new.initiator = rm.initiator
                /\ new.members = rm.members /\ new.revision = rm.revision
                /\ new.timer = rm.timer /\ new.expired = TRUE
         /\ LET new == [rm EXCEPT !.timer = "fired"]
            IN  /\ new \in Room /\ SameScreen(new, rm) /\ SameLists(new, rm)
                /\ new.initiator = rm.initiator
                /\ new.members = rm.members /\ new.revision = rm.revision
                /\ new.expired = rm.expired
<1>1. [rm EXCEPT !.expired = TRUE] \in Room
  BY Zenon DEF Room
<1>2. [rm EXCEPT !.timer = "fired"] \in Room
  BY DEF Room
<1> QED BY <1>1, <1>2 DEF Room, SameScreen, SameLists

\* The lease's flags change nothing of who presents what.
SameShare(new, old) ==
  /\ SameTimer(new, old) /\ SameLists(new, old)
  /\ new.members = old.members /\ new.revision = old.revision
  /\ new.screen_revision = old.screen_revision
  /\ new.screen # None /\ new.screen \in Screen
  /\ new.screen.owner = old.screen.owner /\ new.screen.share = old.screen.share

\* Replacing the share record by one of the same owner and id.
LEMMA ReplaceShare ==
  ASSUME NEW rm \in Room, NEW sc \in Screen, sc.owner = rm.screen.owner,
         sc.share = rm.screen.share
  PROVE  LET new == [rm EXCEPT !.screen = sc]
         IN  new \in Room /\ SameShare(new, rm) /\ new.screen = sc
<1>1. [rm EXCEPT !.screen = sc] \in Room
  BY DEF Room
<1>2. sc # None
  BY NoneIsFresh
<1> QED BY <1>1, <1>2 DEF Room, SameShare, SameTimer, SameLists

\* LeaseElapses raises `due' and leaves the timer.
LEMMA DueFacts ==
  ASSUME NEW rm \in Room, rm.screen # None
  PROVE  LET new == [rm EXCEPT !.screen.due = TRUE]
         IN  /\ new \in Room /\ SameShare(new, rm)
             /\ new.screen.due = TRUE /\ new.screen.timer = rm.screen.timer
<1> DEFINE sc == [rm.screen EXCEPT !.due = TRUE]
<1>1. rm.screen \in Screen
  BY RoomFields
<1>2. /\ sc \in Screen /\ sc.owner = rm.screen.owner
      /\ sc.share = rm.screen.share /\ sc.due = TRUE
      /\ sc.timer = rm.screen.timer
  BY <1>1, Zenon DEF Screen
<1>3. [rm EXCEPT !.screen.due = TRUE] = [rm EXCEPT !.screen = sc]
  OBVIOUS
<1> HIDE DEF sc
<1>4. LET new == [rm EXCEPT !.screen = sc]
      IN  new \in Room /\ SameShare(new, rm) /\ new.screen = sc
  BY <1>2, ReplaceShare
<1> QED BY <1>2, <1>3, <1>4, Zenon

\* ScreenTimerFires marks the timer and leaves `due'.
LEMMA FiredFacts ==
  ASSUME NEW rm \in Room, rm.screen # None
  PROVE  LET new == [rm EXCEPT !.screen.timer = "fired"]
         IN  /\ new \in Room /\ SameShare(new, rm)
             /\ new.screen.due = rm.screen.due
<1> DEFINE sc == [rm.screen EXCEPT !.timer = "fired"]
<1>1. rm.screen \in Screen
  BY RoomFields
<1>2. /\ sc \in Screen /\ sc.owner = rm.screen.owner
      /\ sc.share = rm.screen.share /\ sc.due = rm.screen.due
  BY <1>1 DEF Screen
<1>3. [rm EXCEPT !.screen.timer = "fired"] = [rm EXCEPT !.screen = sc]
  OBVIOUS
<1> HIDE DEF sc
<1>4. LET new == [rm EXCEPT !.screen = sc]
      IN  new \in Room /\ SameShare(new, rm) /\ new.screen = sc
  BY <1>2, ReplaceShare
<1> QED BY <1>2, <1>3, <1>4, Zenon

-----------------------------------------------------------------------------
(* Type correctness *)

\* The outcomes the constants allow are the three the model knows.
LEMMA OutcomesKnown == ASSUME NEW o \in WriteOutcome PROVE o \in Outcomes
BY CallConstants, ZenonT(30)

\* The room after the removal: before the second policy write, and at its end.
Dropped(r, t) ==
  LET tu == authenticated_user[rooms[r].members[t].session]
  IN  IF /\ t \in Participants(rooms[r])
         /\ IsMember(rooms[r], tu, rooms[r].members[t].session)
      THEN WithoutMember(Banned(rooms[r], t), tu) ELSE Banned(rooms[r], t)

\* The removal blocks the account, and takes out at most one member.
LEMMA DroppedFacts ==
  ASSUME TypeOK, NEW r \in RoomId, rooms[r] # None, NEW t \in User
  PROVE  LET new == Dropped(r, t)  rm == rooms[r]
             tu == authenticated_user[rm.members[t].session]
         IN  /\ new \in Room /\ SameTimer(new, rm)
             /\ new.muted = rm.muted /\ new.blocked = rm.blocked \cup {t}
             /\ \/ /\ new.members = rm.members /\ new.revision = rm.revision
                   /\ SameScreen(new, rm)
                   /\ ~(/\ t \in Participants(rm)
                        /\ IsMember(rm, tu, rm.members[t].session))
                \/ /\ t \in Participants(rm)
                   /\ IsMember(rm, tu, rm.members[t].session)
                   /\ new.members = [rm.members EXCEPT ![tu] = None]
                   /\ new.revision = rm.revision + 1
                   /\ \/ SameScreen(new, rm)
                         /\ (rm.screen # None => rm.screen.owner # tu)
                      \/ /\ new.screen = None
                         /\ new.screen_revision = rm.screen_revision + 1
<1> DEFINE rm == rooms[r]
           tu == authenticated_user[rm.members[t].session]
           ban == Banned(rm, t)
<1>1. rm \in Room
  BY DEF TypeOK
<1>2. /\ ban \in Room /\ SameTimer(ban, rm) /\ SameScreen(ban, rm)
      /\ ban.members = rm.members /\ ban.revision = rm.revision
      /\ ban.muted = rm.muted /\ ban.blocked = rm.blocked \cup {t}
  BY <1>1, BannedFacts, SMTT(30)
<1>3. CASE t \in Participants(rm) /\ IsMember(rm, tu, rm.members[t].session)
  <2>1. tu \in User
    BY <1>3 DEF IsMember
  <2>2. Dropped(r, t) = WithoutMember(ban, tu)
    BY <1>3 DEF Dropped
  <2> HIDE DEF ban, tu
  <2>3. LET new == WithoutMember(ban, tu)
        IN  /\ new \in Room /\ SameTimer(new, ban) /\ SameLists(new, ban)
            /\ new.revision = ban.revision + 1
            /\ new.members = [ban.members EXCEPT ![tu] = None]
            /\ \/ /\ SameScreen(new, ban)
                  /\ ban.screen # None => ban.screen.owner # tu
               \/ /\ new.screen = None
                  /\ new.screen_revision = ban.screen_revision + 1
    BY <1>2, <2>1, WithoutMemberFacts, SMTT(30)
  <2>4. LET new == Dropped(r, t)
        IN  /\ new \in Room /\ SameTimer(new, rm)
            /\ new.muted = rm.muted /\ new.blocked = rm.blocked \cup {t}
            /\ new.members = [rm.members EXCEPT ![tu] = None]
            /\ new.revision = rm.revision + 1
            /\ \/ SameScreen(new, rm) /\ (rm.screen # None => rm.screen.owner # tu)
               \/ /\ new.screen = None
                  /\ new.screen_revision = rm.screen_revision + 1
    BY <1>2, <2>2, <2>3, Zenon DEF SameTimer, SameScreen, SameLists
  <2> QED BY <1>3, <2>4, SMTT(30) DEF tu
<1>4. CASE ~(t \in Participants(rm) /\ IsMember(rm, tu, rm.members[t].session))
  <2>1. Dropped(r, t) = ban
    BY <1>4 DEF Dropped
  <2> QED BY <1>2, <1>4, <2>1, SMTT(30)
<1> QED BY <1>3, <1>4

\* Lifted only clears a mute.
LEMMA LiftedFacts ==
  ASSUME NEW rm \in Room, NEW t \in User
  PROVE  LET new == Lifted(rm, t)
         IN  /\ new \in Room /\ SameTimer(new, rm) /\ SameScreen(new, rm)
             /\ new.members = rm.members /\ new.revision = rm.revision + 1
             /\ new.muted = rm.muted \ {t} /\ new.blocked = rm.blocked
BY EditFacts, ZenonT(30) DEF Lifted

\* Remove, in terms of Dropped and Lifted.
LEMMA RemoveShape ==
  ASSUME TypeOK, NEW s \in Session, NEW r \in RoomId, NEW t \in User,
         NEW o1 \in WriteOutcome, NEW o2 \in WriteOutcome,
         Remove(s, r, t, o1, o2)
  PROVE  LET rm == rooms[r]
             ts == rm.members[t].session
             tu == authenticated_user[ts]
             present == t \in Participants(rm)
             drop == present /\ IsMember(rm, tu, ts)
             first == IF drop THEN WritePolicy(policy, r, Dropped(r, t), o1)
                      ELSE policy
             done == Lifted(Dropped(r, t), t)
         IN  /\ MayModerate(s, r, t)
             /\ UNCHANGED <<authenticated_user, expiring, screen_expiring>>
             /\ session_rooms' = IF drop THEN [session_rooms EXCEPT ![ts] = None]
                                 ELSE session_rooms
             /\ \/ /\ drop /\ o1 # "ok"
                   /\ rooms' = [rooms EXCEPT ![r] = Dropped(r, t)]
                   /\ policy' = first
                   /\ UNCHANGED call_room_id
                \/ /\ drop => o1 = "ok"
                   /\ rooms' = [rooms EXCEPT ![r] = done]
                   /\ policy' = WritePolicy(first, r, done, o2)
                   /\ call_room_id' = IF present
                                      THEN [call_room_id EXCEPT ![ts] = None]
                                      ELSE call_room_id
BY Zenon DEF Remove, Dropped, Banned, Lifted, timerVars

\* the policies after the first of Remove's two writes, which is made only
\* when the target is dropped
AfterDrop(r, t, o) ==
  LET ts == rooms[r].members[t].session
  IN  IF t \in Participants(rooms[r]) /\ IsMember(rooms[r], authenticated_user[ts], ts)
      THEN WritePolicy(policy, r, Dropped(r, t), o) ELSE policy

\* Remove stops after its first write when that fails, or makes the second.
LEMMA RemoveWrites ==
  ASSUME NEW s \in Session, NEW r \in RoomId, NEW t \in User,
         NEW o1 \in WriteOutcome, NEW o2 \in WriteOutcome,
         Remove(s, r, t, o1, o2)
  PROVE  \/ /\ rooms' = [rooms EXCEPT ![r] = Dropped(r, t)]
            /\ policy' = WritePolicy(policy, r, Dropped(r, t), o1)
         \/ /\ rooms' = [rooms EXCEPT ![r] = Lifted(Dropped(r, t), t)]
            /\ policy' = WritePolicy(AfterDrop(r, t, o1), r,
                                     Lifted(Dropped(r, t), t), o2)
BY Zenon DEF Remove, Dropped, Banned, Lifted, AfterDrop

\* Every step leaves every variable in its type.
LEMMA TypeStep == TypeOK /\ [Next]_vars => TypeOK'
<1> SUFFICES ASSUME TypeOK, [Next]_vars PROVE TypeOK'
  OBVIOUS
<1> USE OutcomesKnown
<1>1. ASSUME NEW s \in Session, NEW u \in User, Authenticate(s, u),
             UNCHANGED up
      PROVE  TypeOK'
  BY <1>1 DEF Authenticate, TypeOK, roomVars, timerVars
<1>2. ASSUME NEW s \in Session, NEW r \in RoomId, NEW inv \in Invite,
             NEW k \in Key, NEW o \in WriteOutcome, Create(s, r, inv, k, o),
             UNCHANGED up
      PROVE  TypeOK'
  <2>1. authenticated_user[s] \in User
    BY <1>2 DEF Create, TypeOK
  <2> DEFINE rm == NewRoom(s, authenticated_user[s], inv, k)
  <2>2. rm \in Room
    BY <2>1, NewRoomFacts, Zenon
  <2>3. policy' \in [RoomId -> Policy \cup {None}]
    BY <1>2, <2>2, WritePolicyFacts DEF Create, TypeOK
  <2>4. rooms' \in [RoomId -> Room \cup {None}]
    BY <1>2, <2>2 DEF Create, TypeOK
  <2>5. /\ session_rooms' \in [Session -> RoomId \cup {None}]
        /\ call_room_id' \in [Session -> RoomId \cup {None}]
    BY <1>2 DEF Create, TypeOK
  <2> QED BY <1>2, <2>3, <2>4, <2>5 DEF Create, TypeOK, timerVars
<1>3. ASSUME NEW s \in Session, NEW r \in RoomId, NEW inv \in Invite,
             NEW k \in Key, NEW o \in WriteOutcome, Join(s, r, inv, k, o),
             UNCHANGED up
      PROVE  TypeOK'
  <2>1. authenticated_user[s] \in User /\ rooms[r] \in Room
    BY <1>3 DEF Join, MayJoin, TypeOK
  <2> DEFINE rm == Joined(rooms[r], authenticated_user[s], s, k)
  <2>2. rm \in Room
    BY <2>1, JoinedFacts, Zenon
  <2>3. policy' \in [RoomId -> Policy \cup {None}]
    BY <1>3, <2>2, WritePolicyFacts DEF Join, TypeOK
  <2> QED BY <1>3, <2>2, <2>3 DEF Join, TypeOK, timerVars
<1>4. ASSUME NEW s \in Session, NEW r \in RoomId, NEW o \in WriteOutcome,
             rooms[r] # None, Depart(s, r, o), UNCHANGED up
      PROVE  TypeOK'
  <2>1. CASE authenticated_user[s] = rooms[r].initiator
    BY <1>4, <2>1 DEF Depart, EndRoom, Unbind, CallbacksAfterEnd, TypeOK
  <2>2. CASE authenticated_user[s] # rooms[r].initiator
    <3>1. rooms[r] \in Room
      BY <1>4 DEF TypeOK
    <3>2. CASE IsMember(rooms[r], authenticated_user[s], s)
      <4> DEFINE rm == WithoutMember(rooms[r], authenticated_user[s])
      <4>1. rm \in Room
        BY <3>1, <3>2, WithoutMemberFacts, Zenon DEF IsMember
      <4>2. policy' \in [RoomId -> Policy \cup {None}]
        <5>1. policy' = WritePolicy(policy, r, rm, o)
          BY <1>4, <2>2, <3>2, SMTT(30) DEF Depart, RemoveMember
        <5> QED BY <4>1, <5>1, WritePolicyFacts DEF TypeOK
      <4> QED BY <1>4, <2>2, <3>2, <4>1, <4>2 DEF Depart, RemoveMember, TypeOK
    <3>3. CASE ~IsMember(rooms[r], authenticated_user[s], s)
      BY <1>4, <2>2, <3>3 DEF Depart, RemoveMember, TypeOK
    <3> QED BY <3>2, <3>3
  <2> QED BY <2>1, <2>2
<1>5. ASSUME NEW r \in RoomId, NEW rm \in Room, NEW o \in WriteOutcome,
             EditRoom(r, rm, o), UNCHANGED up
      PROVE  TypeOK'
  <2>1. policy' \in [RoomId -> Policy \cup {None}]
    BY <1>5, WritePolicyFacts DEF EditRoom, TypeOK
  <2> QED BY <1>5, <2>1, Zenon DEF EditRoom, TypeOK, timerVars
<1>6. ASSUME NEW s \in Session, NEW r \in RoomId, NEW t \in User,
             NEW o \in WriteOutcome, UNCHANGED up,
             Mute(s, r, t, o) \/ AllowMic(s, r, t, o) \/ Readmit(s, r, t, o)
      PROVE  TypeOK'
  <2>1. rooms[r] \in Room
    BY <1>6 DEF Mute, AllowMic, Readmit, MayModerate, TypeOK
  <2>2. CASE Mute(s, r, t, o)
    <3> DEFINE rm == [rooms[r] EXCEPT !.muted = @ \cup {t}, !.revision = @ + 1]
    <3>1. rm \in Room /\ EditRoom(r, rm, o)
      BY <2>1, <2>2, EditFacts, Zenon DEF Mute
    <3> QED BY <1>5, <1>6, <3>1
  <2>3. CASE AllowMic(s, r, t, o)
    <3> DEFINE rm == [rooms[r] EXCEPT !.muted = @ \ {t}, !.revision = @ + 1]
    <3>1. rm \in Room /\ EditRoom(r, rm, o)
      BY <2>1, <2>3, EditFacts, Zenon DEF AllowMic
    <3> QED BY <1>5, <1>6, <3>1
  <2>4. CASE Readmit(s, r, t, o)
    <3> DEFINE rm == [rooms[r] EXCEPT !.blocked = @ \ {t}, !.revision = @ + 1]
    <3>1. rm \in Room /\ EditRoom(r, rm, o)
      BY <2>1, <2>4, EditFacts, Zenon DEF Readmit
    <3> QED BY <1>5, <1>6, <3>1
  <2> QED BY <1>6, <2>2, <2>3, <2>4
<1>7. ASSUME NEW s \in Session, NEW r \in RoomId, NEW t \in User,
             NEW o1 \in WriteOutcome, NEW o2 \in WriteOutcome,
             Remove(s, r, t, o1, o2), UNCHANGED up
      PROVE  TypeOK'
  <2> DEFINE ts == rooms[r].members[t].session
             present == t \in Participants(rooms[r])
             done == Lifted(Dropped(r, t), t)
  <2>1. rooms[r] \in Room
    BY <1>7, Zenon DEF Remove, MayModerate, TypeOK
  <2>2. Dropped(r, t) \in Room
    BY <2>1, DroppedFacts, NoneIsFresh, Zenon
  <2>3. done \in Room
    BY <2>2, LiftedFacts
  <2>4. /\ WritePolicy(policy, r, Dropped(r, t), o1) \in [RoomId -> Policy \cup {None}]
        /\ AfterDrop(r, t, o1) \in [RoomId -> Policy \cup {None}]
    BY <2>2, WritePolicyFacts DEF TypeOK, AfterDrop
  <2>5. WritePolicy(AfterDrop(r, t, o1), r, done, o2) \in [RoomId -> Policy \cup {None}]
    <3> HIDE DEF done
    <3> QED BY <2>3, <2>4, WritePolicyFacts
  <2>6. present => ts \in Session
    BY <2>1 DEF Participants, Room, Member
  <2>7. /\ rooms' \in [RoomId -> Room \cup {None}]
        /\ policy' \in [RoomId -> Policy \cup {None}]
    <3>1. \/ /\ rooms' = [rooms EXCEPT ![r] = Dropped(r, t)]
             /\ policy' = WritePolicy(policy, r, Dropped(r, t), o1)
          \/ /\ rooms' = [rooms EXCEPT ![r] = done]
             /\ policy' = WritePolicy(AfterDrop(r, t, o1), r, done, o2)
      BY <1>7, RemoveWrites
    <3> HIDE DEF done
    <3> QED BY <2>2, <2>3, <2>4, <2>5, <3>1 DEF TypeOK
  <2>8. /\ session_rooms' \in [Session -> RoomId \cup {None}]
        /\ call_room_id' \in [Session -> RoomId \cup {None}]
    BY <1>7, <2>6, RemoveShape, ZenonT(30) DEF TypeOK
  <2> QED BY <1>7, <2>7, <2>8, RemoveShape, Zenon DEF TypeOK
<1>8. ASSUME NEW s \in Session, NEW r \in RoomId, NEW sh \in ShareId,
             UNCHANGED up,
             \/ ScreenStart(s, r, sh) \/ ScreenStop(s, r, sh)
             \/ ScreenRenew(s, r, sh)
      PROVE  TypeOK'
  <2>1. rooms[r] \in Room /\ authenticated_user[s] \in User
    BY <1>8, SMTT(30)
    DEF ScreenStart, ScreenStop, ScreenRenew, MayShare, IsMember, TypeOK
  <2>2. Settled(rooms[r]) \in Room
    BY <2>1, SettledFacts
  <2>3. /\ ClearScreen(Settled(rooms[r])) \in Room
        /\ Leased(Settled(rooms[r]), authenticated_user[s], sh) \in Room
    BY <2>1, <2>2, ClearScreenFacts, LeasedFacts, Zenon
  <2>4. PICK rm \in Room : SetScreen(r, rm)
    BY <1>8, <2>2, <2>3 DEF ScreenStart, ScreenStop, ScreenRenew
  <2> QED BY <1>8, <2>4 DEF SetScreen, TypeOK, timerVars
<1>9. ASSUME NEW r \in RoomId, RoomDeadline(r) \/ RoomTimerFires(r), UNCHANGED up
      PROVE  TypeOK'
  <2>1. rooms[r] \in Room
    BY <1>9 DEF RoomDeadline, RoomTimerFires, TypeOK
  <2>2. /\ [rooms[r] EXCEPT !.expired = TRUE] \in Room
        /\ [rooms[r] EXCEPT !.timer = "fired"] \in Room
    BY <2>1, FlagFacts
  <2> QED BY <1>9, <2>2, ZenonT(30) DEF RoomDeadline, RoomTimerFires, TypeOK, timerVars
<1>10. ASSUME NEW r \in RoomId, LeaseElapses(r) \/ ScreenTimerFires(r),
              UNCHANGED up
       PROVE  TypeOK'
  <2>1. rooms[r] \in Room /\ rooms[r].screen # None
    BY <1>10 DEF LeaseElapses, ScreenTimerFires, TypeOK
  <2>2. /\ [rooms[r] EXCEPT !.screen.due = TRUE] \in Room
        /\ [rooms[r] EXCEPT !.screen.timer = "fired"] \in Room
    BY <2>1, DueFacts, FiredFacts, Zenon
  <2>3. rooms[r].screen.share \in ShareId
    BY <2>1, RoomFields DEF Screen
  <2>4. rooms' \in [RoomId -> Room \cup {None}]
    <3>1. \/ rooms' = [rooms EXCEPT ![r] = [rooms[r] EXCEPT !.screen.due = TRUE]]
          \/ rooms' = [rooms EXCEPT
                         ![r] = [rooms[r] EXCEPT !.screen.timer = "fired"]]
      BY <1>10 DEF LeaseElapses, ScreenTimerFires
    <3> QED BY <2>2, <3>1, Zenon DEF TypeOK
  <2> QED BY <1>10, <2>3, <2>4
          DEF LeaseElapses, ScreenTimerFires, TypeOK, timerVars
<1>11. ASSUME NEW r \in RoomId, NEW o \in WriteOutcome, ExpireRoom(r, o),
              UNCHANGED up
       PROVE  TypeOK'
  <2>1. CASE rooms[r] = None
    BY <1>11, <2>1, SMTT(30) DEF ExpireRoom, roomVars, TypeOK
  <2>2. CASE rooms[r] # None
    BY <1>11, <2>2, SMTT(30) DEF ExpireRoom, EndRoom, Unbind, CallbacksAfterEnd, TypeOK
  <2> QED BY <2>1, <2>2
<1>12. ASSUME NEW r \in RoomId, NEW sh \in ShareId, ExpireScreen(r, sh),
              UNCHANGED up
       PROVE  TypeOK'
  <2>1. ScreenLapsed(r, sh) => ClearScreen(rooms[r]) \in Room
    BY ClearScreenFacts DEF ScreenLapsed, TypeOK
  <2> QED BY <1>12, <2>1, SMTT(30) DEF ExpireScreen, TypeOK
<1>13. CASE Crash
  BY <1>13, Zenon DEF Crash, TypeOK
<1>14. CASE Boot
  BY <1>14 DEF Boot, TypeOK, timerVars
<1>15. CASE UNCHANGED vars
  BY <1>15 DEF vars, roomVars, timerVars, TypeOK
<1>16. ASSUME NEW s \in Session, NEW o \in WriteOutcome, UNCHANGED up,
              Disconnected(s, o) \/ \E r \in RoomId : Leave(s, r, o)
       PROVE  TypeOK'
  BY <1>4, <1>16, SMTT(30) DEF Disconnected, Leave, TypeOK
<1>17. ASSUME NEW s \in Session, Request(s), UNCHANGED up PROVE TypeOK'
  BY <1>1, <1>2, <1>3, <1>6, <1>7, <1>8, <1>16, <1>17, SMTT(30) DEF Request
<1>18. ASSUME NEW r \in RoomId, Timer(r), UNCHANGED up PROVE TypeOK'
  BY <1>9, <1>10, <1>11, <1>12, <1>18 DEF Timer
<1> QED BY <1>13, <1>14, <1>15, <1>16, <1>17, <1>18 DEF Next, Step

\* Every reachable state of the room state machine is well typed.
THEOREM TypeCorrect == Spec => []TypeOK
<1>1. Init => TypeOK
  BY DEF Init, TypeOK
<1> QED BY <1>1, TypeStep, PTL DEF Spec

-----------------------------------------------------------------------------
(* The policy the media service reads *)

\* PolicyOf looks at members and mutes only.
LEMMA PolicyOfSame ==
  ASSUME NEW rm, NEW new, new.members = rm.members, new.muted = rm.muted
  PROVE  PolicyOf(new) = PolicyOf(rm)
BY SMTT(30) DEF PolicyOf, Participants

\* A step that changes one room and its file keeps every policy current when
\* it leaves that file absent or equal to the room's policy.
LEMMA OnePolicy ==
  ASSUME TypeOK, up, PolicyIsCurrent, NEW r \in RoomId,
         NEW rm \in Room \cup {None},
         rooms' = [rooms EXCEPT ![r] = rm],
         \A q \in RoomId : q # r => policy'[q] = policy[q],
         policy'[r] = None \/ (rm # None /\ policy'[r] = PolicyOf(rm))
  PROVE  PolicyIsCurrent'
<1>1. ASSUME NEW q \in RoomId, policy'[q] # None
      PROVE  rooms'[q] # None /\ policy'[q] = PolicyOf(rooms'[q])
  <2>1. CASE q = r
    BY <1>1, <2>1 DEF TypeOK
  <2>2. CASE q # r
    BY <1>1, <2>2 DEF TypeOK, PolicyIsCurrent
  <2> QED BY <2>1, <2>2
<1> QED BY <1>1 DEF PolicyIsCurrent, PolicyOf, Participants

\* A step that touches neither a file nor anything PolicyOf looks at.
LEMMA NoPolicy ==
  ASSUME TypeOK, up, PolicyIsCurrent, NEW r \in RoomId, NEW rm \in Room,
         rooms[r] # None, rooms' = [rooms EXCEPT ![r] = rm],
         rm.members = rooms[r].members, rm.muted = rooms[r].muted,
         UNCHANGED policy
  PROVE  PolicyIsCurrent'
<1>1. PolicyOf(rm) = PolicyOf(rooms[r])
  BY PolicyOfSame
<1>2. rm # None
  BY NoneIsFresh
<1>3. policy'[r] = None \/ (rm # None /\ policy'[r] = PolicyOf(rm))
  BY <1>1, <1>2 DEF PolicyIsCurrent
<1> QED BY <1>3, OnePolicy, Zenon

\* When unlinking works, every step keeps every policy absent or current.
LEMMA PolicyStep ==
  ASSUME UnlinkWorks
  PROVE  TypeOK /\ PolicyIsCurrent /\ [Next]_vars => PolicyIsCurrent'
<1> SUFFICES ASSUME TypeOK, PolicyIsCurrent, [Next]_vars PROVE PolicyIsCurrent'
  OBVIOUS
<1>a. \A o \in WriteOutcome : o \in Outcomes /\ o # "stuck"
  BY CallConstants DEF UnlinkWorks
<1>w. ASSUME up, NEW r \in RoomId, NEW rm \in Room, NEW o \in WriteOutcome,
             NEW pol \in [RoomId -> Policy \cup {None}],
             \A q \in RoomId : q # r => pol[q] = policy[q],
             rooms' = [rooms EXCEPT ![r] = rm],
             policy' = WritePolicy(pol, r, rm, o)
      PROVE  PolicyIsCurrent'
  <2>1. /\ \A q \in RoomId : q # r => policy'[q] = policy[q]
        /\ policy'[r] \in {PolicyOf(rm), None}
    BY <1>a, <1>w, WritePolicyFacts
  <2>2. rm # None
    BY NoneIsFresh
  <2> QED BY <1>w, <2>1, <2>2, OnePolicy, ZenonT(30)
<1>e. ASSUME up, NEW r \in RoomId, NEW o \in WriteOutcome, NEW S,
             EndRoom(r, o, S)
      PROVE  PolicyIsCurrent'
  <2>1. policy' = [policy EXCEPT ![r] = None]
    BY <1>a, <1>e DEF EndRoom
  <2>2. policy'[r] = None /\ \A q \in RoomId : q # r => policy'[q] = policy[q]
    BY <2>1, SMTT(30) DEF TypeOK
  <2> QED BY <1>e, <2>2, OnePolicy, Zenon DEF EndRoom
<1>1. ASSUME up, NEW s \in Session, NEW u \in User, Authenticate(s, u),
             UNCHANGED up
      PROVE  PolicyIsCurrent'
  BY <1>1 DEF Authenticate, PolicyIsCurrent, PolicyOf, Participants, roomVars
<1>2. ASSUME up, NEW s \in Session, NEW r \in RoomId, NEW inv \in Invite,
             NEW k \in Key, NEW o \in WriteOutcome, Create(s, r, inv, k, o)
      PROVE  PolicyIsCurrent'
  <2> DEFINE rm == NewRoom(s, authenticated_user[s], inv, k)
  <2>1. authenticated_user[s] \in User
    BY <1>2 DEF Create, TypeOK
  <2>2. rm \in Room
    BY <2>1, NewRoomFacts, ZenonT(30)
  <2>3. policy' = WritePolicy(policy, r, rm, o)
    BY <1>2 DEF Create
  <2>4. CASE o = "ok"
    <3>1. rooms' = [rooms EXCEPT ![r] = rm]
      BY <1>2, <2>4 DEF Create
    <3> HIDE DEF rm
    <3> QED BY <1>2, <1>w, <2>2, <2>3, <3>1, ZenonT(30) DEF TypeOK
  <2>5. CASE o # "ok"
    <3>1. rooms[r] = None /\ UNCHANGED rooms
      BY <1>2, <2>5 DEF Create
    <3>2. policy' = [policy EXCEPT ![r] = None]
      BY <1>a, <2>3, <2>5 DEF WritePolicy, Outcomes
    <3>3. rooms' = [rooms EXCEPT ![r] = None]
      BY <3>1 DEF TypeOK
    <3> QED BY <1>2, <3>2, <3>3, OnePolicy, ZenonT(30) DEF TypeOK
  <2> QED BY <2>4, <2>5, SMTT(30)
<1>3. ASSUME up, NEW s \in Session, NEW r \in RoomId, NEW inv \in Invite,
             NEW k \in Key, NEW o \in WriteOutcome, Join(s, r, inv, k, o)
      PROVE  PolicyIsCurrent'
  <2> DEFINE rm == Joined(rooms[r], authenticated_user[s], s, k)
  <2>1. authenticated_user[s] \in User /\ rooms[r] \in Room
    BY <1>3 DEF Join, MayJoin, TypeOK
  <2>2. rm \in Room
    BY <2>1, JoinedFacts, Zenon
  <2>3. /\ rooms' = [rooms EXCEPT ![r] = rm]
        /\ policy' = WritePolicy(policy, r, rm, o)
    BY <1>3 DEF Join
  <2> HIDE DEF rm
  <2> QED BY <1>3, <1>w, <2>2, <2>3, ZenonT(30) DEF TypeOK
<1>4. ASSUME up, NEW s \in Session, NEW r \in RoomId, NEW o \in WriteOutcome,
             rooms[r] # None, Depart(s, r, o)
      PROVE  PolicyIsCurrent'
  <2>1. CASE authenticated_user[s] = rooms[r].initiator
    BY <1>4, <1>e, <2>1 DEF Depart
  <2>2. CASE authenticated_user[s] # rooms[r].initiator
    <3>1. RemoveMember(s, r, o)
      BY <1>4, <2>2 DEF Depart
    <3>2. CASE IsMember(rooms[r], authenticated_user[s], s)
      <4> DEFINE rm == WithoutMember(rooms[r], authenticated_user[s])
      <4>1. rooms[r] \in Room
        BY <1>4 DEF TypeOK
      <4>2. rm \in Room
        BY <3>2, <4>1, WithoutMemberFacts, Zenon DEF IsMember
      <4>3. /\ rooms' = [rooms EXCEPT ![r] = rm]
            /\ policy' = WritePolicy(policy, r, rm, o)
        BY <3>1, <3>2 DEF RemoveMember
      <4> HIDE DEF rm
      <4> QED BY <1>4, <1>w, <4>2, <4>3, Zenon DEF TypeOK
    <3>3. CASE ~IsMember(rooms[r], authenticated_user[s], s)
      <4>1. UNCHANGED <<rooms, policy>>
        BY <3>1, <3>3 DEF RemoveMember
      <4>2. rooms' = [rooms EXCEPT ![r] = rooms[r]]
        BY <4>1 DEF TypeOK
      <4>3. rooms[r] \in Room
        BY <1>4 DEF TypeOK
      <4> QED BY <1>4, <4>1, <4>2, <4>3, NoPolicy, ZenonT(30)
    <3> QED BY <3>2, <3>3
  <2> QED BY <2>1, <2>2, SMTT(30)
<1>5. ASSUME up, NEW s \in Session, NEW r \in RoomId, NEW t \in User,
             NEW o \in WriteOutcome,
             Mute(s, r, t, o) \/ AllowMic(s, r, t, o) \/ Readmit(s, r, t, o)
      PROVE  PolicyIsCurrent'
  <2>1. rooms[r] \in Room
    BY <1>5 DEF Mute, AllowMic, Readmit, MayModerate, TypeOK
  <2>2. PICK rm \in Room : EditRoom(r, rm, o)
    BY <1>5, <2>1, EditFacts, ZenonT(30) DEF Mute, AllowMic, Readmit
  <2> QED BY <1>5, <1>w, <2>2, Zenon DEF EditRoom, TypeOK
<1>6. ASSUME up, NEW s \in Session, NEW r \in RoomId, NEW t \in User,
             NEW o1 \in WriteOutcome, NEW o2 \in WriteOutcome,
             Remove(s, r, t, o1, o2)
      PROVE  PolicyIsCurrent'
  <2> DEFINE first == AfterDrop(r, t, o1)
             done == Lifted(Dropped(r, t), t)
  <2>1. rooms[r] # None
    BY <1>6, Zenon DEF Remove, MayModerate
  <2>2. Dropped(r, t) \in Room
    BY <2>1, DroppedFacts, ZenonT(30)
  <2>3. done \in Room
    BY <2>2, LiftedFacts, SMTT(30)
  <2>4. /\ first \in [RoomId -> Policy \cup {None}]
        /\ \A q \in RoomId : q # r => first[q] = policy[q]
    BY <1>a, <2>2, WritePolicyFacts, SMTT(30) DEF TypeOK, AfterDrop
  <2>5. \/ /\ rooms' = [rooms EXCEPT ![r] = Dropped(r, t)]
           /\ policy' = WritePolicy(policy, r, Dropped(r, t), o1)
        \/ /\ rooms' = [rooms EXCEPT ![r] = done]
           /\ policy' = WritePolicy(first, r, done, o2)
    BY <1>6, RemoveWrites
  <2> HIDE DEF first, done
  <2> QED BY <1>6, <1>w, <2>2, <2>3, <2>4, <2>5 DEF TypeOK
<1>7. ASSUME up, NEW s \in Session, NEW r \in RoomId, NEW sh \in ShareId,
             \/ ScreenStart(s, r, sh) \/ ScreenStop(s, r, sh)
             \/ ScreenRenew(s, r, sh)
      PROVE  PolicyIsCurrent'
  <2> DEFINE old == Settled(rooms[r])
             Same(rm) == /\ rm \in Room /\ rm.members = rooms[r].members
                         /\ rm.muted = rooms[r].muted
  <2>1. /\ rooms[r] \in Room /\ rooms[r] # None
        /\ authenticated_user[s] \in User
    BY <1>7, SMTT(30)
    DEF ScreenStart, ScreenStop, ScreenRenew, MayShare, IsMember, TypeOK
  <2>2. Same(old)
    BY <2>1, SettledFacts DEF SameLists
  <2> HIDE DEF old
  <2>3. Same(ClearScreen(old)) /\ Same(Leased(old, authenticated_user[s], sh))
    BY <2>1, <2>2, ClearScreenFacts, LeasedFacts, ZenonT(30) DEF SameLists
  <2>4. \E rm \in {old, ClearScreen(old), Leased(old, authenticated_user[s], sh)} :
          SetScreen(r, rm)
    <3>1. CASE ScreenStart(s, r, sh)
      BY <3>1 DEF ScreenStart, old
    <3>2. CASE ScreenStop(s, r, sh)
      BY <3>2 DEF ScreenStop, old
    <3>3. CASE ScreenRenew(s, r, sh)
      BY <3>3 DEF ScreenRenew, old
    <3> QED BY <1>7, <3>1, <3>2, <3>3
  <2> QED BY <1>7, <2>1, <2>2, <2>3, <2>4, NoPolicy, ZenonT(30) DEF SetScreen
<1>8. ASSUME up, NEW r \in RoomId, RoomDeadline(r) \/ RoomTimerFires(r)
      PROVE  PolicyIsCurrent'
  <2>1. rooms[r] \in Room /\ rooms[r] # None /\ UNCHANGED policy
    BY <1>8 DEF RoomDeadline, RoomTimerFires, TypeOK
  <2>2. \/ rooms' = [rooms EXCEPT ![r] = [rooms[r] EXCEPT !.expired = TRUE]]
        \/ rooms' = [rooms EXCEPT ![r] = [rooms[r] EXCEPT !.timer = "fired"]]
    BY <1>8 DEF RoomDeadline, RoomTimerFires
  <2> QED BY <1>8, <2>1, <2>2, FlagFacts, NoPolicy, Zenon DEF SameLists
<1>9. ASSUME up, NEW r \in RoomId, LeaseElapses(r) \/ ScreenTimerFires(r)
      PROVE  PolicyIsCurrent'
  <2>1. /\ rooms[r] \in Room /\ rooms[r] # None /\ rooms[r].screen # None
        /\ UNCHANGED policy
    BY <1>9 DEF LeaseElapses, ScreenTimerFires, TypeOK
  <2>2. \/ rooms' = [rooms EXCEPT ![r] = [rooms[r] EXCEPT !.screen.due = TRUE]]
        \/ rooms' = [rooms EXCEPT
                       ![r] = [rooms[r] EXCEPT !.screen.timer = "fired"]]
    BY <1>9 DEF LeaseElapses, ScreenTimerFires
  <2> QED BY <1>9, <2>1, <2>2, DueFacts, FiredFacts, NoPolicy, Zenon
          DEF SameShare, SameLists
<1>10. ASSUME up, NEW r \in RoomId, NEW o \in WriteOutcome, ExpireRoom(r, o),
              UNCHANGED up
       PROVE  PolicyIsCurrent'
  <2>1. CASE rooms[r] = None
    BY <1>10, <2>1
    DEF ExpireRoom, roomVars, PolicyIsCurrent, PolicyOf, Participants
  <2>2. CASE rooms[r] # None
    BY <1>10, <1>e, <2>2 DEF ExpireRoom
  <2> QED BY <2>1, <2>2, SMTT(30)
<1>11. ASSUME up, NEW r \in RoomId, NEW sh \in ShareId, ExpireScreen(r, sh),
              UNCHANGED up
       PROVE  PolicyIsCurrent'
  <2>1. CASE ScreenLapsed(r, sh)
    <3>1. rooms[r] \in Room /\ rooms[r] # None
      BY <2>1, SMTT(30) DEF ScreenLapsed, TypeOK
    <3> QED BY <1>11, <2>1, <3>1, ClearScreenFacts, NoPolicy, ZenonT(30)
            DEF ExpireScreen, SameLists
  <2>2. CASE ~ScreenLapsed(r, sh)
    BY <1>11, <2>2, SMTT(30) DEF ExpireScreen, PolicyIsCurrent, PolicyOf, Participants
  <2> QED BY <2>1, <2>2
<1>12. CASE Crash
  BY <1>12 DEF Crash, PolicyIsCurrent
<1>13. CASE Boot
  BY <1>13, SMTT(30) DEF Boot, PolicyIsCurrent
<1>14. CASE UNCHANGED vars
  BY <1>14 DEF vars, roomVars, PolicyIsCurrent, PolicyOf, Participants
<1>15. ASSUME up, NEW s \in Session, NEW o \in WriteOutcome,
              Disconnected(s, o) \/ \E r \in RoomId : Leave(s, r, o)
       PROVE  PolicyIsCurrent'
  BY <1>4, <1>15, SMTT(30) DEF Disconnected, Leave, TypeOK
<1>16. ASSUME up, UNCHANGED up, NEW s \in Session, Request(s)
       PROVE  PolicyIsCurrent'
  BY <1>1, <1>2, <1>3, <1>5, <1>6, <1>7, <1>15, <1>16, SMTT(30) DEF Request
<1>17. ASSUME up, UNCHANGED up, NEW r \in RoomId, Timer(r)
       PROVE  PolicyIsCurrent'
  BY <1>8, <1>9, <1>10, <1>11, <1>17 DEF Timer
<1> QED BY <1>12, <1>13, <1>14, <1>15, <1>16, <1>17 DEF Next, Step

\* While the backend runs, the media service never finds a policy other than
\* that of the room as it is now, provided a file that cannot be rewritten can
\* be unlinked (_write_policy, _end_room_locked, CallService.__init__).
THEOREM PolicyCurrent == UnlinkWorks /\ Spec => []PolicyIsCurrent
<1> SUFFICES ASSUME UnlinkWorks PROVE Spec => []PolicyIsCurrent
  OBVIOUS
<1>1. Init => PolicyIsCurrent
  BY DEF Init, PolicyIsCurrent
<1>2. TypeOK /\ PolicyIsCurrent /\ [Next]_vars => PolicyIsCurrent'
  BY PolicyStep
<1> QED BY <1>1, <1>2, TypeCorrect, PTL DEF Spec

-----------------------------------------------------------------------------
(* Members *)

\* What create and join store is a member.
LEMMA MemberValue ==
  \A s \in Session, k \in Key :
    /\ [session |-> s, key |-> k] # None
    /\ [session |-> s, key |-> k].session = s
<1>1. \A s \in Session, k \in Key : [session |-> s, key |-> k] \in Member
  BY SMTT(30) DEF Member
<1> QED BY <1>1, NoneIsFresh

\* A member's session is in the types.
LEMMA MemberFacts ==
  ASSUME TypeOK, NEW r \in RoomId, rooms[r] # None
  PROVE  /\ rooms[r] \in Room /\ rooms[r].members \in [User -> Member \cup {None}]
         /\ \A u \in User : rooms[r].members[u] # None =>
              /\ rooms[r].members[u] \in Member
              /\ rooms[r].members[u].session \in Session
<1>1. rooms[r] \in Room
  BY DEF TypeOK
<1> QED BY <1>1, RoomFields DEF Member

=============================================================================
