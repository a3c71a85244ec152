----------------------------- MODULE CallControl -----------------------------
(***************************************************************************)
(* Call control over links: CallRooms plus what surrounds the lock.  A      *)
(* request is dispatched on the receive thread of its link                  *)
(* (server._application_message) and only later gets CallService._lock; a   *)
(* link is closed by any thread, and the closing thread later runs the      *)
(* disconnect handler, unless a frame on another link has taken the session *)
(* over by then; the thread of the link it left may still wait for the lock *)
(* or send.  Replies and broadcasts go out after the lock is released, one  *)
(* recipient at a time, from a tuple of sessions that was captured under it.*)
(***************************************************************************)
EXTENDS CallRooms, Sequences

CONSTANTS
  SendFaults,  \* may a send to a live link fail
  Movers,      \* sessions whose client may come back on another link
  MaxGen,      \* bound of the model: rooms created under one id
  MaxMoves     \* bound of the model: moves of a session to another link

ASSUME ControlConstants ==
  /\ SendFaults \in BOOLEAN /\ Movers \subseteq Session
  /\ MaxGen \in Nat /\ MaxMoves \in Nat

VARIABLES
  link,     \* link[s]: "up"; "closing", closed and the disconnect handler has
            \* not run; "closed", it has
  moves,    \* moves[s]: the number of the link the session is on
  busy,     \* threads whose dispatched request waits for the lock
  sending,  \* [by, queue]: what a thread that released the lock still sends
  gen,      \* gen[r]: how many rooms had id r (tells recreated rooms apart)
  knows,    \* knows[s]: newest state of a call that was sent to s; None once
            \* something it had to be told was not sent to it, or it is gone
  owed      \* <<s, r, g>>: s was in generation g of r when it ended, was not
            \* sent that ending yet and has not refused a message since

controlVars == <<link, moves, busy, sending, gen, knows, owed>>
allVars == <<vars, controlVars>>

Nothing == [room |-> None, gen |-> 0, revision |-> 0, screen_revision |-> 0]

-----------------------------------------------------------------------------
(* Messages: a state of a call, an ending, or something clients keep no     *)
(* state from (a result, an opaque group key).                              *)

Send(to, kind, body) == [to |-> to, kind |-> kind, body |-> body]

\* _snapshot, and the screen state it contains, after the step
Snapshot(r) ==
  [room |-> r, gen |-> gen'[r], revision |-> rooms'[r].revision,
   screen_revision |-> rooms'[r].screen_revision]

\* _screen_snapshot, which says nothing about the membership
ScreenState(r) == [Snapshot(r) EXCEPT !.revision = 0]

ToMembers(r) == Send(SessionsOf(rooms'[r]), "state", Snapshot(r))

Others(r) == SessionsOf([rooms[r] EXCEPT !.members[rooms[r].initiator] = None])

ToGuests(r) == Send(Others(r), "ended", [room |-> r, gen |-> gen[r]])

\* the receive thread of the link that session s is on
Receiver(s) == [session |-> s, link |-> moves[s]]

Receivers == [session : Session, link : 0..MaxMoves]

\* thread w, which still has to send `queue'; none when that is nothing
Thread(w, queue) ==
  LET q == SelectSeq(queue, LAMBDA m : m.to # {})
  IN  IF q = <<>> THEN {} ELSE {[by |-> w, queue |-> q]}

Idle(w) == w \notin busy /\ \A t \in sending : t.by # w

\* an ended room owes its guests call_ended
Ends(r) ==
  owed' = IF rooms[r] # None /\ rooms'[r] = None
          THEN owed \cup {<<s, r, gen[r]>> : s \in Others(r)} ELSE owed

\* knowledge when the sessions S are not told what they should be
Losing(S) == [s \in Session |-> IF s \in S THEN None ELSE knows[s]]

\* the sessions a handler would have told about the step
Told(r) ==
  IF rooms'[r] # None THEN SessionsOf(rooms'[r])
  ELSE IF rooms[r] # None THEN Others(r) ELSE {}

-----------------------------------------------------------------------------
(* Requests *)

\* mutant: a second request is handled while the first one still sends
DispatchEarly(s) ==
  /\ link[s] = "up" /\ Receiver(s) \notin busy
  /\ busy' = busy \cup {Receiver(s)}
  /\ UNCHANGED <<vars, link, moves, sending, gen, knows, owed>>

\* server._application_message dispatches a request of s.  Reticulum delivers
\* the data of one link one callback at a time.
Dispatch(s) ==
  /\ link[s] = "up" /\ Idle(Receiver(s))
  /\ busy' = busy \cup {Receiver(s)}
  /\ UNCHANGED <<vars, link, moves, sending, gen, knows, owed>>

\* A frame of s on another link: the session's own link is closed and was not
\* cleaned up, so the session goes on on the new one, and the request is
\* dispatched on that link's thread whatever the old one is doing.
TakeOver(s) ==
  /\ link[s] = "closing" /\ s \in Movers /\ moves[s] < MaxMoves
  /\ link' = [link EXCEPT ![s] = "up"]
  /\ moves' = [moves EXCEPT ![s] = @ + 1]
  /\ busy' = busy \cup {[session |-> s, link |-> moves[s] + 1]}
  /\ UNCHANGED <<vars, sending, gen, knows, owed>>

\* the handler is refused and changes nothing
Refused(s) ==
  UNCHANGED <<roomVars, authenticated_user, timerVars, sending, gen, knows, owed>>

\* a policy write raises after the handler changed the room: nothing is sent
Fails(s, r) ==
  /\ \E o \in WriteOutcome, o2 \in WriteOutcome :
       /\ o # "ok" \/ o2 # "ok"
       /\ \/ \E t \in User : Remove(s, r, t, o, o2)
          \/ /\ o # "ok"
             /\ \/ Leave(s, r, o)
                \/ \E inv \in Invite, k \in Key :
                     Create(s, r, inv, k, o) \/ Join(s, r, inv, k, o)
                \/ \E t \in User : \/ Mute(s, r, t, o) \/ AllowMic(s, r, t, o)
                                   \/ Readmit(s, r, t, o)
  /\ knows' = Losing(Told(r))
  /\ Ends(r) /\ UNCHANGED <<sending, gen>>

DoAuthenticate(s) ==
  /\ \E u \in User : Authenticate(s, u)
  /\ UNCHANGED <<sending, gen, knows, owed>>

DoCreate(w, s, r) ==
  /\ gen[r] < MaxGen
  /\ \E inv \in Invite, k \in Key : Create(s, r, inv, k, "ok")
  /\ gen' = [gen EXCEPT ![r] = @ + 1]
  /\ sending' = sending \cup Thread(w, <<Send({s}, "state", Snapshot(r))>>)
  /\ UNCHANGED <<knows, owed>>

\* `changed' in join
JoinIsNews(r, u) == rooms'[r].members[u] # rooms[r].members[u]

DoJoin(w, s, r) ==
  /\ \E inv \in Invite, k \in Key : Join(s, r, inv, k, "ok")
  /\ UNCHANGED <<gen, knows, owed>>
  /\ sending' = sending \cup Thread(w,
       <<Send({s}, "state", Snapshot(r))>> \o
       (IF JoinIsNews(r, authenticated_user[s]) THEN <<ToMembers(r)>> ELSE <<>>))


\* what leave and disconnected send to those who stay or stayed too long
Departed(s, r) ==
  IF rooms'[r] = None THEN <<ToGuests(r)>>
  ELSE IF rooms'[r].revision # rooms[r].revision THEN <<ToMembers(r)>> ELSE <<>>

DoLeave(w, s, r) ==
  /\ Leave(s, r, "ok")
  /\ Ends(r) /\ UNCHANGED <<gen, knows>>
  /\ sending' = sending \cup Thread(w,
       <<Send({s}, "result", None)>> \o Departed(s, r))

DoModerate(w, s, r) ==
  \E t \in User :
    LET removed == rooms[r].members[t]
        told == <<ToMembers(r), Send({s}, "result", None)>>
    IN  /\ UNCHANGED <<gen, knows, owed>>
        /\ \/ /\ \/ Mute(s, r, t, "ok") \/ AllowMic(s, r, t, "ok")
                 \/ Readmit(s, r, t, "ok")
              /\ sending' = sending \cup Thread(w, told)
           \/ /\ Remove(s, r, t, "ok", "ok")
              /\ sending' = sending \cup Thread(w,
                   (IF removed = None THEN <<>>
                    ELSE <<Send({removed.session}, "result", None)>>) \o told)

DoScreen(w, s, r) ==
  /\ \E sh \in ShareId : \/ ScreenStart(s, r, sh) \/ ScreenStop(s, r, sh)
                         \/ ScreenRenew(s, r, sh)
  /\ UNCHANGED <<gen, knows, owed>>
  /\ sending' = sending \cup Thread(w,
       <<Send({s}, "state", ScreenState(r))>> \o
       (IF rooms'[r].screen_revision # rooms[r].screen_revision
        THEN <<Send(SessionsOf(rooms'[r]), "state", ScreenState(r))>> ELSE <<>>))

\* forward_group_key: from the initiator's session to one current member
DoGroupKey(w, s, r) ==
  /\ rooms[r] # None /\ authenticated_user[s] = rooms[r].initiator
  /\ IsMember(rooms[r], authenticated_user[s], s)
  /\ \E t \in Participants(rooms[r]) \ {rooms[r].initiator} :
       sending' = sending \cup Thread(w,
         <<Send({rooms[r].members[t].session}, "group_key",
                [room |-> r, gen |-> gen[r]])>>)
  /\ UNCHANGED <<roomVars, authenticated_user, timerVars, gen, knows, owed>>

\* The handler of the request that thread w dispatched gets the lock.  Nothing
\* in it asks whether the session is still connected, or on which link.
Handle(w) ==
  LET s == w.session
  IN  /\ up /\ UNCHANGED up
      /\ w \in busy /\ busy' = busy \ {w}
      /\ \/ Refused(s) \/ DoAuthenticate(s)
         \/ \E r \in RoomId :
              \/ Fails(s, r) \/ DoCreate(w, s, r) \/ DoJoin(w, s, r)
              \/ DoLeave(w, s, r) \/ DoModerate(w, s, r) \/ DoScreen(w, s, r)
              \/ DoGroupKey(w, s, r)
      /\ UNCHANGED <<link, moves>>

-----------------------------------------------------------------------------
(* Links and timers *)

\* PhysicalConnection.close, by any thread
CloseLink(s) ==
  /\ link[s] = "up"
  /\ link' = [link EXCEPT ![s] = "closing"]
  /\ UNCHANGED <<vars, moves, busy, sending, gen, knows, owed>>

\* _disconnect_logical_session reaches CallService.disconnected, for a link
\* that closed or for a logical connection that is closed on a link that stays
\* up; revoke_session calls it too.  For a session that moved to another link
\* the clean-up of the old link does nothing, and is no step; neither is a
\* clean-up that raises before the handlers (invalidate_session unlinks files),
\* after which the session stays as it is until a frame takes it over.
RunDisconnect(s) ==
  LET r == session_rooms[s]
  IN  /\ up /\ UNCHANGED <<up, moves, busy, gen>>
      /\ link[s] \in {"up", "closing"} /\ link' = [link EXCEPT ![s] = "closed"]
      /\ IF r # None /\ rooms[r] # None
         THEN \E o \in WriteOutcome :
                /\ Disconnected(s, o)
                /\ sending' = IF o = "ok" THEN sending \cup Thread(None, Departed(s, r))
                              ELSE sending
                /\ knows' = Losing(IF o = "ok" THEN {s} ELSE Told(r) \cup {s})
                /\ Ends(r)
         ELSE /\ knows' = Losing({s})
              /\ UNCHANGED <<roomVars, authenticated_user, timerVars, sending, owed>>

TimerStep(r) ==
  /\ up /\ UNCHANGED <<up, link, moves, busy, gen>>
  /\ \/ /\ \/ RoomDeadline(r) \/ RoomTimerFires(r)
           \/ LeaseElapses(r) \/ ScreenTimerFires(r)
        /\ UNCHANGED <<sending, knows>>
     \/ \E o \in WriteOutcome :
          /\ ExpireRoom(r, o)
          /\ sending' = IF o = "ok" /\ rooms[r] # None
                        THEN sending \cup Thread(None, <<ToGuests(r)>>)
                        ELSE sending
          /\ knows' = IF o = "ok" THEN knows ELSE Losing(Told(r))
     \/ \E sh \in ShareId :
          /\ ExpireScreen(r, sh)
          /\ sending' = IF rooms' # rooms
                        THEN sending \cup Thread(None,
                               <<Send(SessionsOf(rooms'[r]), "state", ScreenState(r))>>)
                        ELSE sending
          /\ UNCHANGED knows
  /\ Ends(r)

-----------------------------------------------------------------------------
(* Sends *)

\* the thread with one recipient of its first send done
After(t, s) ==
  LET m == Head(t.queue)
  IN  Thread(t.by, <<[m EXCEPT !.to = @ \ {s}]>> \o Tail(t.queue))

\* a client keeps the newest revisions it was sent of one call
Newer(old, new) ==
  IF old.room # new.room \/ old.gen # new.gen
  THEN IF old.room = new.room /\ old.gen > new.gen THEN old ELSE new
  ELSE [new EXCEPT
          !.revision = IF old.revision > @ THEN old.revision ELSE @,
          !.screen_revision = IF old.screen_revision > @
                              THEN old.screen_revision ELSE @]

\* _safe_send: delivered to a live link, skipped (RuntimeError) on a dead one,
\* which is a loss to a session that may go on on another link
SendOne(t, s) ==
  LET m == Head(t.queue)
  IN  /\ s \in m.to
      /\ sending' = (sending \ {t}) \cup After(t, s)
      /\ knows' = CASE link[s] = "closing" -> Losing({s})
                    [] link[s] = "up" /\ m.kind = "state" /\ knows[s] # None ->
                         [knows EXCEPT ![s] = Newer(@, m.body)]
                    [] OTHER -> knows
      /\ owed' = IF link[s] = "up" /\ m.kind = "ended"
                 THEN owed \ {<<s, m.body.room, m.body.gen>>} ELSE owed
      /\ UNCHANGED <<vars, link, moves, busy, gen>>

\* A send raises something other than RuntimeError (BackpressureError, a write
\* that failed): it leaves _safe_send, _broadcast and the handler, and a
\* failed write closes the recipient's link.
SendFails(t, s) ==
  /\ SendFaults
  /\ s \in Head(t.queue).to /\ link[s] = "up"
  /\ sending' = sending \ {t}
  /\ link' \in {link, [link EXCEPT ![s] = "closing"]}
  /\ owed' = {e \in owed : e[1] # s}
  /\ knows' = Losing(UNION {t.queue[i].to : i \in DOMAIN t.queue})
  /\ UNCHANGED <<vars, moves, busy, gen>>

ControlInit ==
  /\ Init
  /\ link = [s \in Session |-> "up"] /\ moves = [s \in Session |-> 0]
  /\ busy = {} /\ sending = {}
  /\ gen = [r \in RoomId |-> 0]
  /\ knows = [s \in Session |-> Nothing]
  /\ owed = {}

ControlNext ==
  \/ \E s \in Session :
       \/ Dispatch(s) \/ TakeOver(s)
       \/ CloseLink(s) \/ RunDisconnect(s)
  \/ \E w \in Receivers : Handle(w)
  \/ \E r \in RoomId : TimerStep(r)
  \/ \E t \in sending : \E s \in Session : SendOne(t, s) \/ SendFails(t, s)

ControlSpec == ControlInit /\ [][ControlNext]_allVars

-----------------------------------------------------------------------------
(* Properties *)

\* Every variable of this module has its type.
ControlTypeOK ==
  /\ link \in [Session -> {"up", "closing", "closed"}]
  /\ moves \in [Session -> 0..MaxMoves] /\ busy \subseteq Receivers
  /\ \A t \in sending :
       /\ t.by \in Receivers \cup {None}
       /\ \A i \in DOMAIN t.queue :
            /\ t.queue[i].to \subseteq Session
            /\ t.queue[i].kind \in {"state", "ended", "result", "group_key"}
  /\ gen \in [RoomId -> 0..MaxGen]
  /\ \A s \in Session : knows[s] = None \/ knows[s].room \in RoomId \cup {None}
  /\ owed \subseteq Session \X RoomId \X (1..MaxGen)


\* Once nothing is being sent, every guest of a room that ended was sent
\* call_ended, unless its own link is gone or refused a message itself
\* (docs/call-protocol.md:41-43).
EndingAnnounced ==
  sending = {} =>
    \A e \in owed : link[e[1]] # "up"

\* A session whose disconnect handler ran is in no room: nobody would ever
\* take it out again (docs/call-protocol.md:41-42).
DisconnectedAreOut ==
  \A s \in Session : link[s] = "closed" =>
    session_rooms[s] = None \/ rooms[session_rooms[s]] = None

\* No group key is still on its way to an account the host has removed, as long
\* as the host stays on one link: its requests are then handled one after the
\* other, sends included.  Once the host has moved, the thread of the link it
\* left may still send a key while the new one removes the account, or remove
\* it while the new one sends.
NoKeyForRemoved ==
  \A t \in sending : \A i \in DOMAIN t.queue :
    LET m == t.queue[i]
    IN  (/\ m.kind = "group_key" /\ moves[t.by.session] = 0
         /\ rooms[m.body.room] # None /\ gen[m.body.room] = m.body.gen)
        => \A s \in m.to :
             authenticated_user[s] \notin rooms[m.body.room].blocked

\* Every step is a step of CallRooms or leaves its variables alone.
RoomsRefined == Spec

=============================================================================
