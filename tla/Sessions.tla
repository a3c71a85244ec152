------------------------------ MODULE Sessions ------------------------------
(***************************************************************************)
(* Application sessions of the Reticulum server: SessionManager and its    *)
(* table in the database, the index of logical connections, and the        *)
(* threads that use them: the receiver of each link, whoever closes a      *)
(* link, maintenance, revocation, shutdown and restart.                    *)
(*                                                                         *)
(* Times are kept as what is left of them: Tick takes one from each expiry.*)
(***************************************************************************)
EXTENDS Integers, FiniteSets

CONSTANTS
  Conn,           \* physical connections; a closed one stands for the next
  LogicalId,
  Session,        \* session objects; one that nothing refers to is reused
  TTL,            \* session_ttl
  ProvisionalTTL, \* unauthenticated_session_ttl
  PersistEvery,   \* SESSION_PERSIST_INTERVAL
  MaintainEvery,  \* the interval of the maintenance timer
  MaxPerLink,     \* max_logical_sessions_per_link
  MaxProvisional, \* max_unauthenticated_sessions
  MaxNew,         \* max_new_sessions_per_link_per_minute; Tick is that minute
  None

\* A session outlives the time between two maintenance runs, which touch the
\* sessions with an open link (the defaults: a day, 30 seconds).
ASSUME SessionConstants ==
  /\ TTL \in Nat /\ ProvisionalTTL \in 1..TTL /\ PersistEvery \in 0..TTL
  /\ MaintainEvery \in 1..(TTL - 1)
  /\ MaxPerLink \in Nat /\ MaxProvisional \in Nat /\ MaxNew \in Nat
  /\ None \notin Conn \cup LogicalId \cup Session

VARIABLES
  mode,        \* up, stopping (shutting_down) or down
  conn,        \* open; closing: closed is set, on_close has not run; closed
  ids,         \* logical_connection_ids of a connection
  closedIds,   \* closed_logical_connection_ids
  recent,      \* new_logical_session_times: how many in the last minute
  frame,       \* the frame the receiver of a connection works on
  logical,     \* logical_sessions
  life,        \* none, provisional or authenticated, as registered
  link,        \* session.connection
  lid,         \* session.metadata["qapp_connection_id"]
  exp,         \* expires_at: time left
  row,         \* the session's row in the database: time left of expires_at
  maintaining, \* _maintain is between its touches and its expiry
  unmaintained, \* time since _maintain ran, while its timer is set
  moved        \* history: sessions that came over from a closed link and
               \* were not touched since

vars == <<mode, conn, ids, closedIds, recent, frame, logical,
          life, link, lid, exp, row, maintaining, unmaintained, moved>>
registry == <<logical, life, link, lid, exp, row>>

NoRow == -1
Rest == [pc |-> "none", lid |-> None, session |-> None]
Authenticated == {s \in Session : life[s] = "authenticated"}
Provisional == {s \in Session : life[s] = "provisional"}
Expired == {s \in Session : life[s] # "none" /\ exp[s] = 0}
Referenced(s) == \E c \in Conn : frame[c].session = s

-----------------------------------------------------------------------------
(* SessionManager and the indexes of the server *)

\* mutant: the link keeps the ids of removed sessions
IdsStay(S) == ids

\* _remove_session_indexes, for every session of S
IdsWithout(S) == [c \in Conn |-> ids[c] \ {lid[s] : s \in {r \in S : link[r] = c}}]
LogicalWithout(S) == [l \in LogicalId |-> IF logical[l] \in S THEN None ELSE logical[l]]

\* the sessions of S leave the registry and the index; their links are cut
Drop(S) ==
  /\ logical' = LogicalWithout(S) /\ moved' = moved \ S
  /\ life' = [s \in Session |-> IF s \in S THEN "none" ELSE life[s]]
  /\ link' = [s \in Session |-> IF s \in S THEN None ELSE link[s]]
  /\ lid' = [s \in Session |-> IF s \in S THEN None ELSE lid[s]]
  /\ exp' = [s \in Session |-> IF s \in S THEN 0 ELSE exp[s]]

\* the rows without those that `delete_session' and, if stale, also
\* `delete_expired_sessions' remove
Rows(deleted, stale) ==
  [s \in Session |-> IF s \in deleted \/ (stale /\ row[s] = 0) THEN NoRow ELSE row[s]]

\* touch and promote give the session its full time; the row follows when
\* the last write is PersistEvery old (or was already deleted as expired)
Touched(S) == [s \in Session |-> IF s \in S THEN TTL ELSE exp[s]]
Saved(S) ==
  [s \in Session |-> IF s \in S /\ TTL - row[s] >= PersistEvery THEN TTL ELSE row[s]]

-----------------------------------------------------------------------------
(* Links *)

\* _link_established: a new connection, in place of one nothing refers to
Established(c) ==
  /\ mode = "up" /\ conn[c] = "closed"
  /\ frame[c] = Rest /\ \A s \in Session : link[s] # c
  /\ conn' = [conn EXCEPT ![c] = "open"]
  /\ ids' = [ids EXCEPT ![c] = {}] /\ recent' = [recent EXCEPT ![c] = 0]
  /\ UNCHANGED <<mode, closedIds, frame, registry, maintaining, unmaintained, moved>>

\* PhysicalConnection.close: the peer, a timeout, maintenance or shutdown.  No
\* frame is taken from a closed connection any more, so the model forgets its
\* closed ids.
Close(c) ==
  /\ conn[c] = "open" /\ conn' = [conn EXCEPT ![c] = "closing"]
  /\ closedIds' = [closedIds EXCEPT ![c] = {}]
  /\ UNCHANGED <<mode, ids, recent, frame, registry, maintaining, unmaintained, moved>>

\* the sessions _disconnect_logical_session finds for these ids of c
Lost(c, L) == {s \in Session : link[s] = c /\ \E l \in L : logical[l] = s}

\* _disconnect_logical_session: a provisional session is discarded, another
\* one detached, touched and persisted
Disconnect(c, L) ==
  LET D == Lost(c, L)
      detached == D \cap Authenticated
  IN  /\ life' = [s \in Session |-> IF s \in D \ detached THEN "none" ELSE life[s]]
      /\ link' = [s \in Session |-> IF s \in D THEN None ELSE link[s]]
      /\ lid' = [s \in Session |-> IF s \in D THEN None ELSE lid[s]]
      /\ exp' = [s \in Session |-> IF s \in detached THEN TTL
                                   ELSE IF s \in D THEN 0 ELSE exp[s]]
      /\ logical' = LogicalWithout(D) /\ moved' = moved \ D
      /\ row' = [s \in Session |-> IF s \in detached THEN TTL ELSE row[s]]

\* _connection_closed, under the session lock
Closed(c) ==
  /\ conn[c] = "closing" /\ conn' = [conn EXCEPT ![c] = "closed"]
  /\ Disconnect(c, ids[c])
  /\ ids' = [ids EXCEPT ![c] = {}] /\ recent' = [recent EXCEPT ![c] = 0]
  /\ UNCHANGED <<mode, closedIds, frame, maintaining, unmaintained>>

-----------------------------------------------------------------------------
(* The receiver of a link: one frame after the other *)

\* receive, _dispatch: the link was open and the id not closed when looked at
Receive(c, l) ==
  /\ conn[c] = "open" /\ frame[c] = Rest /\ l \notin closedIds[c]
  /\ frame' = [frame EXCEPT ![c] = [Rest EXCEPT !.pc = "route", !.lid = l]]
  /\ UNCHANGED <<mode, conn, ids, closedIds, recent, registry, maintaining, unmaintained, moved>>

\* close_logical, under the connection's lock
ReceiveClose(c, l) ==
  /\ conn[c] = "open" /\ frame[c] = Rest /\ l \in ids[c]
  /\ ids' = [ids EXCEPT ![c] = @ \ {l}]
  /\ closedIds' = [closedIds EXCEPT ![c] = @ \cup {l}]
  /\ frame' = [frame EXCEPT ![c] = [Rest EXCEPT !.pc = "unroute", !.lid = l]]
  /\ UNCHANGED <<mode, conn, recent, registry, maintaining, unmaintained, moved>>

\* _logical_connection_closed
Unroute(c) ==
  /\ frame[c].pc = "unroute"
  /\ Disconnect(c, {frame[c].lid})
  /\ ids' = [ids EXCEPT ![c] = @ \ {frame[c].lid}]
  /\ frame' = [frame EXCEPT ![c] = Rest]
  /\ UNCHANGED <<mode, conn, closedIds, recent, maintaining, unmaintained>>

Found(c) == logical[frame[c].lid]
Creating(c) == Found(c) = None \/ Found(c) \in Expired
Swept(c) == IF Creating(c) THEN Expired ELSE {}
SweptRows(c) ==
  Rows(Swept(c) \cap {Found(c)}, \E s \in Swept(c) \ {Found(c)} : life[s] = "authenticated")
Kept(c) == IdsWithout(Swept(c))[c]

\* the provisional sessions are at their limit
Full(c) == Creating(c) /\ Cardinality(Provisional \ Swept(c)) >= MaxProvisional

\* mutant: the limit per link is checked too late
AdmitsOneMore(c) ==
  \/ frame[c].lid \in Kept(c)
  \/ /\ Cardinality(Kept(c)) <= MaxPerLink
     /\ Creating(c) => recent[c] < MaxNew

\* _admit_logical_id
Admits(c) ==
  \/ frame[c].lid \in Kept(c)
  \/ /\ Cardinality(Kept(c)) < MaxPerLink
     /\ Creating(c) => recent[c] < MaxNew

\* the id is in use on another link that is still open
Taken(c) ==
  /\ ~Creating(c) /\ link[Found(c)] # c
  /\ link[Found(c)] # None /\ conn[link[Found(c)]] = "open"

\* the locked part of _application_message fails with a ProtocolError, which
\* closes the link
RouteRefused(c) ==
  /\ frame[c].pc = "route"
  /\ Full(c) \/ ~Admits(c) \/ Taken(c)
  /\ Drop(Swept(c)) /\ row' = SweptRows(c)
  /\ ids' = IF Full(c) \/ ~Admits(c) THEN IdsWithout(Swept(c))
            ELSE [ids EXCEPT ![c] = @ \ {frame[c].lid}]
  /\ conn' = [conn EXCEPT ![c] = IF @ = "open" THEN "closing" ELSE @]
  /\ closedIds' = [closedIds EXCEPT ![c] = {}]
  /\ frame' = [frame EXCEPT ![c] = Rest]
  /\ UNCHANGED <<mode, recent, maintaining, unmaintained>>

\* it creates a provisional session
RouteNew(c, s) ==
  LET l == frame[c].lid
      S == Swept(c)
  IN  /\ frame[c].pc = "route" /\ Creating(c) /\ ~Full(c) /\ Admits(c)
      /\ life[s] = "none" /\ row[s] = NoRow /\ ~Referenced(s)
      /\ life' = [r \in Session |-> IF r = s THEN "provisional"
                                    ELSE IF r \in S THEN "none" ELSE life[r]]
      /\ link' = [r \in Session |-> IF r = s THEN c ELSE IF r \in S THEN None ELSE link[r]]
      /\ lid' = [r \in Session |-> IF r = s THEN l ELSE IF r \in S THEN None ELSE lid[r]]
      /\ exp' = [r \in Session |-> IF r = s THEN ProvisionalTTL
                                   ELSE IF r \in S THEN 0 ELSE exp[r]]
      /\ logical' = [LogicalWithout(S) EXCEPT ![l] = s]
      /\ row' = SweptRows(c) /\ moved' = moved \ S
      /\ ids' = [IdsWithout(S) EXCEPT ![c] = @ \cup {l}]
      /\ recent' = [recent EXCEPT ![c] = IF l \in Kept(c) THEN @ ELSE @ + 1]
      /\ frame' = [frame EXCEPT ![c] = [Rest EXCEPT !.pc = "touch", !.session = s]]
      /\ UNCHANGED <<mode, conn, closedIds, maintaining, unmaintained>>

\* it finds the session of this link, or of a link that is closed
RouteFound(c) ==
  /\ frame[c].pc = "route" /\ ~Creating(c) /\ Admits(c) /\ ~Taken(c)
  /\ link' = [link EXCEPT ![Found(c)] = c]
  /\ moved' = IF link[Found(c)] = c THEN moved ELSE moved \cup {Found(c)}
  /\ ids' = [ids EXCEPT ![c] = @ \cup {frame[c].lid}]
  /\ frame' = [frame EXCEPT ![c] = [Rest EXCEPT !.pc = "touch", !.session = Found(c)]]
  /\ UNCHANGED <<mode, conn, closedIds, recent, logical, life, lid, exp, row,
                 maintaining, unmaintained>>

\* seen_message: a duplicate is not handled
Duplicate(c) ==
  /\ frame[c].pc = "touch" /\ frame' = [frame EXCEPT ![c] = Rest]
  /\ UNCHANGED <<mode, conn, ids, closedIds, recent, registry, maintaining, unmaintained, moved>>

\* touch: a session that has left the registry or is provisional keeps its time
Touch(c) ==
  LET S == {frame[c].session} \cap Authenticated
  IN  /\ frame[c].pc = "touch" /\ frame' = [frame EXCEPT ![c].pc = "handle"]
      /\ exp' = Touched(S) /\ row' = Saved(S) /\ moved' = moved \ S
      /\ UNCHANGED <<mode, conn, ids, closedIds, recent, logical, life, link, lid,
                     maintaining, unmaintained>>

\* a handler that leaves the registry alone
Handle(c) ==
  /\ frame[c].pc = "handle" /\ frame' = [frame EXCEPT ![c] = Rest]
  /\ UNCHANGED <<mode, conn, ids, closedIds, recent, registry, maintaining, unmaintained, moved>>

\* mutant: a session that was dropped meanwhile is put back
PromoteAnyway(c) ==
  LET s == frame[c].session
  IN  /\ frame[c].pc = "handle" /\ frame' = [frame EXCEPT ![c] = Rest]
      /\ life' = [life EXCEPT ![s] = "authenticated"]
      /\ exp' = [exp EXCEPT ![s] = TTL] /\ row' = [row EXCEPT ![s] = TTL]
      /\ moved' = moved \ {s}
      /\ UNCHANGED <<mode, conn, ids, closedIds, recent, logical, link, lid,
                     maintaining, unmaintained>>

\* authenticate, once the proof is accepted: promote, persist
Promote(c) ==
  LET s == frame[c].session
  IN  /\ frame[c].pc = "handle" /\ frame' = [frame EXCEPT ![c] = Rest]
      /\ life[s] # "none"
      /\ life' = [life EXCEPT ![s] = "authenticated"]
      /\ exp' = [exp EXCEPT ![s] = TTL] /\ row' = [row EXCEPT ![s] = TTL]
      /\ moved' = moved \ {s}
      /\ UNCHANGED <<mode, conn, ids, closedIds, recent, logical, link, lid,
                     maintaining, unmaintained>>

-----------------------------------------------------------------------------
(* Other threads *)

\* require_authorized stores the time of its check
Persist(s) ==
  /\ mode # "down" /\ life[s] = "authenticated" /\ row' = [row EXCEPT ![s] = exp[s]]
  /\ UNCHANGED <<mode, conn, ids, closedIds, recent, frame, logical, life, link, lid, exp,
                 maintaining, unmaintained, moved>>

\* mutant: the row of a revoked session stays
RevokeInMemory(s) ==
  /\ life[s] = "authenticated" /\ Drop({s}) /\ ids' = IdsWithout({s}) /\ row' = row
  /\ UNCHANGED <<mode, conn, closedIds, recent, frame, maintaining, unmaintained>>

\* revoke_session
Revoke(s) ==
  /\ life[s] = "authenticated" /\ Drop({s}) /\ ids' = IdsWithout({s})
  /\ row' = Rows({s}, FALSE)
  /\ UNCHANGED <<mode, conn, closedIds, recent, frame, maintaining, unmaintained>>

\* authenticated sessions whose link is open
Linked == {s \in Authenticated : link[s] # None /\ conn[link[s]] = "open"}

\* mutant: the touch that keeps a session in use is forgotten
MaintainNoTouch ==
  /\ mode = "up" /\ ~maintaining /\ maintaining' = TRUE
  /\ UNCHANGED <<mode, conn, ids, closedIds, recent, frame, registry, unmaintained, moved>>

\* the first part of _maintain: sessions in use are kept
MaintainTouch ==
  /\ mode = "up" /\ ~maintaining /\ maintaining' = TRUE
  /\ exp' = Touched(Linked) /\ row' = Saved(Linked) /\ moved' = moved \ Linked
  /\ UNCHANGED <<mode, conn, ids, closedIds, recent, frame, logical, life, link, lid,
                 unmaintained>>

\* the second part, under the session lock: the others may expire
MaintainExpire ==
  /\ maintaining /\ maintaining' = FALSE /\ unmaintained' = 0
  /\ Drop(Expired) /\ ids' = IdsWithout(Expired) /\ row' = Rows({}, TRUE)
  /\ UNCHANGED <<mode, conn, closedIds, recent, frame>>

\* Time passes; not while maintenance runs, or between the lookup and the
\* touch of a session, which use one reading of the clock.
Tick ==
  /\ mode # "stopping" /\ ~maintaining
  /\ mode = "up" => unmaintained < MaintainEvery
  /\ \A c \in Conn : frame[c].pc # "touch"
  /\ unmaintained' = IF mode = "up" THEN unmaintained + 1 ELSE 0
  /\ exp' = [s \in Session |-> IF exp[s] > 0 THEN exp[s] - 1 ELSE 0]
  /\ row' = [s \in Session |-> IF row[s] > 0 THEN row[s] - 1 ELSE row[s]]
  /\ recent' = [c \in Conn |-> 0]
  /\ UNCHANGED <<mode, conn, ids, closedIds, frame, logical, life, link, lid, maintaining, moved>>

\* shutdown sets shutting_down, closes the links (Close, Closed) and then
\* persists what is left
Shutdown ==
  /\ mode = "up" /\ mode' = "stopping" /\ unmaintained' = 0
  /\ UNCHANGED <<conn, ids, closedIds, recent, frame, registry, maintaining, moved>>

\* what a process that has ended leaves of its memory
Forget ==
  /\ mode' = "down" /\ maintaining' = FALSE /\ unmaintained' = 0
  /\ conn' = [c \in Conn |-> "closed"] /\ frame' = [c \in Conn |-> Rest]
  /\ ids' = [c \in Conn |-> {}] /\ closedIds' = [c \in Conn |-> {}]
  /\ recent' = [c \in Conn |-> 0] /\ Drop(Session)

Stop ==
  /\ mode = "stopping" /\ \A c \in Conn : conn[c] = "closed"
  /\ row' = [s \in Session |-> IF s \in Authenticated THEN exp[s] ELSE row[s]]
  /\ Forget

Crash == mode # "down" /\ Forget /\ row' = row

\* a new process: load
Restart ==
  /\ mode = "down" /\ mode' = "up"
  /\ life' = [s \in Session |-> IF row[s] > 0 THEN "authenticated" ELSE "none"]
  /\ exp' = [s \in Session |-> IF row[s] > 0 THEN row[s] ELSE 0]
  /\ UNCHANGED <<conn, ids, closedIds, recent, frame, logical, link, lid, row,
                 maintaining, unmaintained, moved>>

Init ==
  /\ mode = "up" /\ maintaining = FALSE /\ unmaintained = 0 /\ moved = {}
  /\ conn = [c \in Conn |-> "closed"] /\ frame = [c \in Conn |-> Rest]
  /\ ids = [c \in Conn |-> {}] /\ closedIds = [c \in Conn |-> {}]
  /\ recent = [c \in Conn |-> 0]
  /\ logical = [l \in LogicalId |-> None]
  /\ life = [s \in Session |-> "none"] /\ exp = [s \in Session |-> 0]
  /\ link = [s \in Session |-> None] /\ lid = [s \in Session |-> None]
  /\ row = [s \in Session |-> NoRow]

Receiver(c) ==
  \/ Unroute(c) \/ RouteRefused(c) \/ RouteFound(c) \/ Duplicate(c) \/ Touch(c)
  \/ Handle(c) \/ Promote(c) \/ \E s \in Session : RouteNew(c, s)

Next ==
  \/ \E c \in Conn :
       \/ Established(c) \/ Close(c) \/ Closed(c) \/ Receiver(c)
       \/ \E l \in LogicalId : Receive(c, l) \/ ReceiveClose(c, l)
  \/ \E s \in Session : Persist(s) \/ Revoke(s)
  \/ MaintainTouch \/ MaintainExpire \/ Tick
  \/ Shutdown \/ Stop \/ Crash \/ Restart

Spec == Init /\ [][Next]_vars

-----------------------------------------------------------------------------
(* Properties *)

\* The index of logical connections, the ids of each link and the sessions
\* agree: an indexed session is registered under that id and has a link; an
\* open link holds only ids of its own sessions; and every session of an open
\* link is found when the link, or its logical connection, closes
\* (_disconnect_logical_session works from the ids).
IndexesAgree ==
  /\ \A l \in LogicalId : logical[l] # None =>
       LET s == logical[l] IN life[s] # "none" /\ lid[s] = l /\ link[s] # None
  /\ \A c \in Conn, l \in LogicalId : conn[c] = "open" /\ l \in ids[c] =>
       logical[l] # None /\ link[logical[l]] = c
  /\ \A s \in Session : link[s] # None /\ conn[link[s]] = "open" =>
       /\ logical[lid[s]] = s
       /\ \/ lid[s] \in ids[link[s]]
          \/ frame[link[s]].pc = "unroute" /\ frame[link[s]].lid = lid[s]

\* No row of the database outlives its session: a session that was revoked,
\* expired or discarded is not there to be loaded by the next process, and a
\* provisional session was never stored (SessionManager.expire deletes by
\* the time in the row, which only some touches write).
RowsFollowSessions ==
  mode # "down" => \A s \in Session : row[s] > 0 =>
    life[s] = "authenticated" /\ row[s] <= exp[s]

\* The sessions that nobody has proved an identity for, and the logical
\* connections of one link, stay within their limits, whatever expires,
\* reconnects or closes between the check and the creation.
WithinLimits ==
  /\ Cardinality(Provisional) <= MaxProvisional
  /\ \A c \in Conn : Cardinality(ids[c]) <= MaxPerLink

\* An authenticated session on an open link does not expire: expiry, which runs
\* no disconnect handler, never takes a session that is in use. (One that has
\* just come over from a closed link, where nothing touched it, may be about
\* to expire until its next message or maintenance.)
LinkedDoNotExpire == mode = "up" => \A s \in Linked \ moved : exp[s] > 0

\* The registry implements SessionLife. Between two processes a session is
\* what the next one will load.
SessionState ==
  [s \in Session |->
     IF mode = "down" THEN (IF row[s] > 0 THEN "detached" ELSE "absent")
     ELSE IF life[s] = "none" THEN "absent"
     ELSE IF life[s] = "provisional" THEN "provisional"
     ELSE IF link[s] = None THEN "detached" ELSE "attached"]

Life == INSTANCE SessionLife WITH state <- SessionState

\* Every step of the registry is a step of SessionLife: no session survives its
\* link before its identity is proved, none is attached a second time, none
\* comes back after its end, crashes and restarts included.
LivesAreOrderly == Life!Spec

=============================================================================
