--------------------------- MODULE MediaAdmission ---------------------------
(***************************************************************************)
(* Who the media relay serves, for one room.  Python and the relay share   *)
(* three kinds of files: one-time grants, revocation markers, and the      *)
(* policy of the room, which the relay caches for 250 ms.  A connection    *)
(* consumes a grant, passes the checks and is served until a check of its  *)
(* one second ticker fails.                                                *)
(*                                                                         *)
(* The sessions are those of guests; the host, whose leaving ends the room *)
(* for all, is not among them.  A session stands for its participant too:  *)
(* the policy names, for each member, the one session whose media it lets  *)
(* through.                                                                *)
(***************************************************************************)
EXTENDS Naturals

CONSTANTS
  Session,
  MaxTokens,  \* bound on the grants written
  MaxConns,   \* bound on the connections that present one
  None

ASSUME AdmissionConstants ==
  MaxTokens \in Nat /\ MaxConns \in Nat /\ None \notin Session

Token == 1..MaxTokens  \* in the order they are written
Conn == 1..MaxConns    \* in the order they present a grant

VARIABLES
  session,     \* "live", or how far it has come in going (below)
  members,     \* of the room, in CallService
  bound,       \* sessions whose metadata has call_room_id
  holds,       \* sessions with an entry in _media_grant_files
  late,        \* history: sessions that joined after they were removed
  policy,      \* those the room's policy file lets in; {} without a file
  grants,      \* <token>.json: the session it admits
  issued,      \* how many grants were written
  stale,       \* history: grants Python has lost track of and not deleted
  markers,     \* sessions with a revocation marker
  cached,      \* roomPolicyStore.cached, None when older than 250 ms
  conn,        \* handleConnection of each connection
  uses         \* how many connections each token admitted

room == <<session, members, bound, holds, late>>
files == <<policy, grants, issued, stale, markers>>
vars == <<room, files, cached, conn, uses>>

\* A session goes in one of three ways.  Its link closes: invalidate_session
\* ("closed"), then the disconnect handler ("notified").  It is revoked: the
\* handler ("revoked"), then invalidate_session ("discard").  It expires:
\* invalidate_session only ("lapsed").
Going == {"closed", "notified", "revoked", "discard", "lapsed"}

-----------------------------------------------------------------------------
(* Python *)

\* bootstrap and _write_media_grant
Grant(s, t) ==
  /\ session[s] = "live" /\ s \in bound /\ t = issued + 1
  /\ grants' = [grants EXCEPT ![t] = s]
  /\ issued' = t
  /\ holds' = holds \cup {s}
  /\ UNCHANGED <<session, members, bound, late, policy, stale, markers, cached, conn, uses>>

\* _connection_closed, revoke_session, _expire_sessions
Goes(s) ==
  /\ \/ session[s] = "live" /\ \E how \in {"closed", "revoked"} : session' = [session EXCEPT ![s] = how]
     \/ session[s] \in {"live", "stranded"} /\ session' = [session EXCEPT ![s] = "lapsed"]
  /\ UNCHANGED <<members, bound, holds, late, files, cached, conn, uses>>

\* where invalidate_session leads to
Invalidated(s) ==
  CASE session[s] = "closed"  -> "notified"
    [] session[s] = "discard" -> "left"
    [] session[s] = "lapsed"  -> "expired"

\* The same when it raised: the disconnect handler is skipped, and a session
\* that was to be discarded is still there.
Raised(s) ==
  CASE session[s] = "closed"  -> "stranded"
    [] session[s] = "discard" -> "live"
    [] session[s] = "lapsed"  -> "expired"

\* the unused grants of s that Python remembers
Unused(s) == {t \in Token : grants[t] = s /\ t \notin stale}

\* mutant: the unused grants of the session stay
KeepGrants(ts) == UNCHANGED grants

Unlink(ts) == grants' = [t \in Token |-> IF t \in ts THEN None ELSE grants[t]]

\* invalidate_session: the grants are unlinked, the marker is written.  An
\* OSError of the write is logged, one of an unlink or of mkdir is raised.
InvalidateSession(s) ==
  /\ session[s] \in {"closed", "discard", "lapsed"}
  /\ holds' = holds \ {s}
  /\ \/ /\ session' = [session EXCEPT ![s] = Invalidated(s)]
        /\ Unlink(Unused(s))
        /\ \/ s \in holds \cup bound /\ markers' = markers \cup {s}
           \/ UNCHANGED markers
        /\ UNCHANGED stale
     \/ /\ s \in holds \cup bound
        /\ session' = [session EXCEPT ![s] = Raised(s)]
        /\ \E ts \in SUBSET Unused(s) :
             /\ Unlink(ts)
             /\ stale' = stale \cup (Unused(s) \ ts)
        /\ UNCHANGED markers
  /\ UNCHANGED <<members, bound, late, policy, issued, cached, conn, uses>>

\* A frame on a new link takes over the session whose clean-up raised
TakenOver(s) ==
  /\ session[s] = "stranded"
  /\ session' = [session EXCEPT ![s] = "live"]
  /\ UNCHANGED <<members, bound, holds, late, files, cached, conn, uses>>

\* CallService changes the membership: _write_policy, which unlinks the file
\* when it fails and raises, or _end_room_locked, which only unlinks it.  The
\* unlink may raise, too.  What raised leaves call_room_id as it is.
WritePolicy(m) ==
  /\ members' = m
  /\ \/ policy' = m /\ bound' = (bound \ members) \cup m
     \/ policy' \in {{}, policy} /\ bound' = bound \cup m
  /\ UNCHANGED <<holds, grants, issued, stale, markers, cached, conn, uses>>

\* join, also when the host has opened the room again; one that was dispatched
\* in time may run when its session is already gone
Join(s) ==
  /\ session[s] # "lost"
  /\ late' = IF session[s] \in {"discard", "left"} THEN late \cup {s} ELSE late
  /\ WritePolicy(members \cup {s})
  /\ UNCHANGED session

\* leave and moderation; the host leaves or the room expires
Removed ==
  /\ \E m \in {members \ {s} : s \in members} \cup {{}} : WritePolicy(m)
  /\ UNCHANGED <<session, late>>

\* CallService.disconnected, once for a session
Disconnected(s) ==
  /\ session[s] \in {"notified", "revoked"}
  /\ session' = [session EXCEPT ![s] = IF @ = "notified" THEN "left" ELSE "discard"]
  /\ late' = late
  /\ \/ s \in members /\ WritePolicy(members \ {s})
     \/ s \notin members /\ UNCHANGED <<members, bound, holds, files, cached, conn, uses>>

\* The process dies and is started again: sessions, rooms and what it knew of
\* the grants are gone, and CallService deletes the policies it finds.
Restart ==
  /\ session' = [s \in Session |-> "lost"]
  /\ members' = {} /\ bound' = {} /\ holds' = {} /\ late' = {}
  /\ policy' = {}
  /\ stale' = {t \in Token : grants[t] # None}
  /\ UNCHANGED <<grants, issued, markers, cached, conn, uses>>

-----------------------------------------------------------------------------
(* roomPolicyStore and the attachment *)

\* what access goes by, and leaves in the cache
Policy == IF cached = None THEN [value |-> policy] ELSE cached
Allowed(s) == s \in Policy.value

CacheLapses ==
  /\ cached # None
  /\ cached' = None
  /\ UNCHANGED <<room, files, conn, uses>>

\* the file goes when a grant is refused, too (purgeExpired, consume)
GrantExpires(t) ==
  /\ grants[t] # None
  /\ grants' = [grants EXCEPT ![t] = None]
  /\ UNCHANGED <<room, policy, issued, stale, markers, cached, conn, uses>>

\* mutant: the grant is read and not renamed away
ConsumeReads(c, t) ==
  /\ conn[c].pc = "new" /\ \A d \in Conn : d < c => conn[d].pc # "new"
  /\ grants[t] # None
  /\ conn' = [conn EXCEPT ![c] = [pc |-> "consumed", principal |-> grants[t]]]
  /\ uses' = [uses EXCEPT ![t] = @ + 1]
  /\ UNCHANGED <<room, files, cached>>

Consume(c, t) ==
  /\ conn[c].pc = "new" /\ \A d \in Conn : d < c => conn[d].pc # "new"
  /\ grants[t] # None
  /\ conn' = [conn EXCEPT ![c] = [pc |-> "consumed", principal |-> grants[t]]]
  /\ grants' = [grants EXCEPT ![t] = None]
  /\ uses' = [uses EXCEPT ![t] = @ + 1]
  /\ UNCHANGED <<room, policy, issued, stale, markers, cached>>

\* handleConnection returns
Closed == [pc |-> "closed", principal |-> None]

CheckRevoked(c) ==
  /\ conn[c].pc = "consumed"
  /\ conn' = [conn EXCEPT ![c] = IF @.principal \in markers THEN Closed
                                 ELSE [@ EXCEPT !.pc = "checked"]]
  /\ UNCHANGED <<room, files, cached, uses>>

CheckPolicy(c) ==
  /\ conn[c].pc = "checked"
  /\ cached' = Policy
  /\ conn' = [conn EXCEPT ![c] = IF Allowed(@.principal) THEN [@ EXCEPT !.pc = "ready"]
                                 ELSE Closed]
  /\ UNCHANGED <<room, files, uses>>

\* guardAttachment's deadline passes or the peer goes before the checks are done
TooLate(c) ==
  /\ conn[c].pc = "checked"
  /\ cached' = Policy
  /\ conn' = [conn EXCEPT ![c] = Closed]
  /\ UNCHANGED <<room, files, uses>>

\* mutant: the ticker looks for a marker only
TickMarkerOnly(c) ==
  /\ conn[c].pc = "ready"
  /\ conn[c].principal \in markers
  /\ conn' = [conn EXCEPT ![c] = Closed]
  /\ UNCHANGED <<room, files, cached, uses>>

\* the ticker of handleConnection; removeOwner is in module MediaBroker
Tick(c) ==
  /\ conn[c].pc = "ready"
  /\ cached' = Policy
  /\ conn' = [conn EXCEPT ![c] =
       IF Allowed(@.principal) /\ @.principal \notin markers THEN @ ELSE Closed]
  /\ UNCHANGED <<room, files, uses>>

PeerCloses(c) ==
  /\ conn[c].pc = "ready"
  /\ conn' = [conn EXCEPT ![c] = Closed]
  /\ UNCHANGED <<room, files, cached, uses>>

\* A marker lives ten minutes: a connection it concerns has ticked by then
MarkerLapses(s) ==
  /\ s \in markers
  /\ \A c \in Conn : conn[c].principal # s
  /\ markers' = markers \ {s}
  /\ UNCHANGED <<room, policy, grants, issued, stale, cached, conn, uses>>

-----------------------------------------------------------------------------

Init ==
  /\ session = [s \in Session |-> "live"]
  /\ members = Session /\ policy = Session /\ bound = Session
  /\ holds = {} /\ late = {} /\ stale = {}
  /\ grants = [t \in Token |-> None]
  /\ issued = 0
  /\ markers = {}
  /\ cached = None
  /\ conn = [c \in Conn |-> [pc |-> "new", principal |-> None]]
  /\ uses = [t \in Token |-> 0]

CleanUp(s) == InvalidateSession(s) \/ Disconnected(s)

Python ==
  \/ \E s \in Session : \/ Goes(s) \/ CleanUp(s) \/ TakenOver(s) \/ Join(s) \/ MarkerLapses(s)
                        \/ \E t \in Token : Grant(s, t)
  \/ Removed \/ Restart

Handle(c) ==
  \/ \E t \in Token : Consume(c, t)
  \/ CheckRevoked(c) \/ CheckPolicy(c) \/ TooLate(c)
  \/ Tick(c) \/ PeerCloses(c)

Next ==
  \/ Python \/ CacheLapses
  \/ \E t \in Token : GrantExpires(t)
  \/ \E c \in Conn : Handle(c)

Spec == Init /\ [][Next]_vars

\* A clean-up that was begun goes on, the cache ages and every ticker ticks.
FairSpec ==
  /\ Spec
  /\ \A s \in Session : WF_vars(CleanUp(s))
  /\ WF_vars(CacheLapses)
  /\ \A c \in Conn : WF_vars(Tick(c))

-----------------------------------------------------------------------------
(* Properties *)

\* Every variable has its type; a connection past the grant has a principal.
TypeOK ==
  /\ session \in [Session -> {"live", "stranded", "left", "expired", "lost"} \cup Going]
  /\ members \subseteq Session /\ bound \subseteq Session /\ holds \subseteq Session
  /\ late \subseteq Session /\ policy \subseteq Session
  /\ grants \in [Token -> Session \cup {None}] /\ issued \in 0..MaxTokens
  /\ stale \subseteq Token /\ markers \subseteq Session
  /\ cached = None \/ cached \in [value : SUBSET Session]
  /\ conn \in [Conn -> [pc : {"new", "closed"}, principal : {None}] \cup
                       [pc : {"consumed", "checked", "ready"}, principal : Session]]
  /\ uses \in [Token -> 0..MaxConns]

\* A grant admits one connection (grantStore.consume renames the file away).
GrantOnce == \A t \in Token : uses[t] <= 1

\* A session that is gone has no grant left to connect with, other than one
\* whose unlink raised, or was skipped by one that did, and those of before a
\* restart (invalidate_session; such a grant lives until it expires).
GoneHasNoGrant ==
  \A s \in Session, t \in Token :
    session[s] \notin {"live"} \cup Going /\ grants[t] = s => t \in stale

Served(c) == conn[c].pc = "ready"

\* the room's policy file is an old one: its update and its unlink both failed
PolicyStuck == policy \notin {members, {}}

\* A session whose link closed, or that was revoked, loses its media connections,
\* and so does every session when the backend is restarted ("must not leave old
\* media sessions authorized", call/service.py:114-115).  That the marker could
\* not be written, or was looked for just before it was, does not matter: the
\* ticker of handleConnection goes by the policy, too.  What does: that
\* invalidate_session raised, so that the clean-up was given up; that a late join
\* made the session a member again; that the old policy could not be deleted.
GoneLosesMedia ==
  \A s \in Session, c \in Conn :
    (/\ session[s] \in {"closed", "notified", "revoked", "discard", "left", "lost"}
     /\ Served(c) /\ conn[c].principal = s)
    ~> \/ ~Served(c)
       \/ session[s] \in {"stranded", "live"} \/ s \in late \/ PolicyStuck

=============================================================================
