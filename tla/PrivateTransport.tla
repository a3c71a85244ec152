-------------------------- MODULE PrivateTransport --------------------------
(***************************************************************************)
(* How a QUIC connection of the native child is bound to an application    *)
(* session, and unbound: attach tokens (AttachTokenAuthority), the private *)
(* transport of a session (PrivateTransportService), and the socketpair    *)
(* between the child and Python (NativeQuicServer, control.go).  Python's  *)
(* reader thread takes requests in the order they were written and answers *)
(* a detach itself; an attach is done later by a pool thread.              *)
(***************************************************************************)
EXTENDS Naturals, Sequences, FiniteSets

CONSTANTS
  Session,         \* authenticated application sessions
  Conn,            \* QUIC connections
  Token,           \* attach tokens
  MaxUnused,       \* max_unused_per_session
  MaxUnusedGlobal, \* max_unused_global
  MaxConnections,  \* 256
  None

ASSUME TransportConstants ==
  /\ MaxUnused \in Nat /\ MaxUnusedGlobal \in Nat /\ MaxConnections \in Nat
  /\ IsFiniteSet(Token) /\ IsFiniteSet(Conn)
  /\ None \notin Session \cup Conn \cup Token
  /\ None \notin {"pending", "queued"}

VARIABLES
  session,            \* registered with a link, or not any more
  grants,             \* the session each outstanding token is for
  issued,             \* the tokens handed out so far
  private_transport,  \* of each session
  conn,               \* what serve has come to with each connection
  cred,               \* the token each connection presented
  toPython,           \* requests on the socket
  attaching,          \* NativeQuicServer.attaching
  connections,        \* NativeQuicServer.connections: the transport's session
  worker,             \* the pool thread with the attach request
  reply,              \* the answer to the attach request
  closeEvents,        \* "close" events on their way to the child
  uses,               \* the connections whose request used up each token
  lost                \* what could not be sent: a detach to Python, a close to the child

python == <<session, grants, issued, private_transport>>
bridge == <<attaching, connections, worker>>
vars == <<python, bridge, conn, cred, toPython, reply, closeEvents, uses, lost>>

-----------------------------------------------------------------------------
(* AttachTokenAuthority and PrivateTransportService *)

Unused(s) == {t \in Token : grants[t] = s}
Outstanding == {t \in Token : grants[t] # None}

\* issue: a new token for s, within the limits on unused ones
Issue(s, t) ==
  /\ t \notin issued
  /\ Cardinality(Unused(s)) < MaxUnused
  /\ Cardinality(Outstanding) < MaxUnusedGlobal
  /\ grants' = [grants EXCEPT ![t] = s]
  /\ issued' = issued \cup {t}

\* bootstrap, for a purpose other than realtime
Bootstrap(s, t) ==
  /\ session[s] = "live" /\ private_transport[s] = None
  /\ Issue(s, t)
  /\ UNCHANGED <<session, private_transport, bridge, conn, cred, toPython, reply,
                 closeEvents, uses, lost>>

\* _expire_locked
TokenExpires(t) ==
  /\ grants[t] # None
  /\ grants' = [grants EXCEPT ![t] = None]
  /\ UNCHANGED <<session, issued, private_transport, bridge, conn, cred, toPython,
                 reply, closeEvents, uses, lost>>

\* mutant: the attached connection is not told
InvalidateSilently(s) ==
  /\ session[s] = "live"
  /\ session' = [session EXCEPT ![s] = "closed"]
  /\ grants' = [t \in Token |-> IF grants[t] = s THEN None ELSE grants[t]]
  /\ private_transport' = [private_transport EXCEPT ![s] = None]
  /\ UNCHANGED <<issued, bridge, conn, cred, toPython, reply, closeEvents, uses, lost>>

\* The link closes, the session expires or is revoked: invalidate_session, and
\* the session leaves the registry or loses its connection
Invalidate(s) ==
  /\ session[s] = "live"
  /\ session' = [session EXCEPT ![s] = "closed"]
  /\ grants' = [t \in Token |-> IF grants[t] = s THEN None ELSE grants[t]]
  /\ private_transport' = [private_transport EXCEPT ![s] = None]
  /\ closeEvents' = closeEvents \cup ({private_transport[s]} \ {None})
  /\ UNCHANGED <<issued, bridge, conn, cred, toPython, reply, uses, lost>>

\* Removing its media grants fails (unlink, mkdir): the attached connection is
\* not told, and the session stays what it was if its link did
InvalidateRaises(s) ==
  /\ session[s] = "live"
  /\ \E now \in {"live", "closed"} : session' = [session EXCEPT ![s] = now]
  /\ grants' = [t \in Token |-> IF grants[t] = s THEN None ELSE grants[t]]
  /\ private_transport' = [private_transport EXCEPT ![s] = None]
  /\ lost' = lost \cup
       {[op |-> "close", conn |-> c] : c \in {private_transport[s]} \ {None}}
  /\ UNCHANGED <<issued, bridge, conn, cred, toPython, reply, closeEvents, uses>>

-----------------------------------------------------------------------------
(* The child: serve *)

SendAttach(c, t) ==
  /\ conn[c] = "new" /\ t \in issued
  /\ conn' = [conn EXCEPT ![c] = "asking"]
  /\ cred' = [cred EXCEPT ![c] = t]
  /\ toPython' = Append(toPython, [op |-> "attach", conn |-> c])
  /\ UNCHANGED <<python, bridge, reply, closeEvents, uses, lost>>

\* the deferred close of serve; nobody learns of a write that misses its deadline
Closes(c) ==
  /\ conn' = [conn EXCEPT ![c] = "closed"]
  /\ \/ /\ toPython' = Append(toPython, [op |-> "detach", conn |-> c])
        /\ UNCHANGED lost
     \/ /\ lost' = lost \cup {[op |-> "detach", conn |-> c]}
        /\ UNCHANGED toPython

\* The peer goes, the attachment deadline or another timeout passes
Drop(c) ==
  /\ conn[c] # "closed"
  /\ Closes(c)
  /\ UNCHANGED <<python, bridge, cred, reply, closeEvents, uses>>

Attached(c) ==
  /\ reply[c] = "ok" /\ conn[c] = "asking"
  /\ conn' = [conn EXCEPT ![c] = "attached"]
  /\ UNCHANGED <<python, bridge, cred, toPython, reply, closeEvents, uses, lost>>

Rejected(c) ==
  /\ reply[c] = "error" /\ conn[c] = "asking"
  /\ Closes(c)
  /\ UNCHANGED <<python, bridge, cred, reply, closeEvents, uses>>

\* control.read calls the closer of the connection, if it still has one
CloseEvent(c) ==
  /\ c \in closeEvents
  /\ closeEvents' = closeEvents \ {c}
  /\ IF conn[c] = "closed" THEN UNCHANGED <<conn, toPython, lost>> ELSE Closes(c)
  /\ UNCHANGED <<python, bridge, cred, reply, uses>>

\* watchSession: at the deadline it was told, Python no longer vouches for it
WatchEnds(c) ==
  /\ conn[c] = "attached"
  /\ \A s \in Session : private_transport[s] # c
  /\ Closes(c)
  /\ UNCHANGED <<python, bridge, cred, reply, closeEvents, uses>>

-----------------------------------------------------------------------------
(* Python: _read, _dispatch, _detach *)

Incoming(op, c) == toPython # <<>> /\ Head(toPython) = [op |-> op, conn |-> c]

ReadAttach(c) ==
  /\ Incoming("attach", c)
  /\ toPython' = Tail(toPython)
  /\ \/ /\ attaching' = [attaching EXCEPT ![c] = "pending"]
        /\ worker' = [worker EXCEPT ![c] = "queued"]
        /\ UNCHANGED reply
     \/ /\ reply' = [reply EXCEPT ![c] = "error"]     \* no slot: BUSY
        /\ UNCHANGED <<attaching, worker>>
  /\ UNCHANGED <<python, connections, conn, cred, closeEvents, uses, lost>>

\* the transport of c, as service.detach leaves it
Detached(c) ==
  [s \in Session |-> IF connections[c] = s /\ private_transport[s] = c
                       THEN None ELSE private_transport[s]]

\* mutant: only an attachment that was made is undone
ReadDetachMadeOnly(c) ==
  /\ Incoming("detach", c)
  /\ toPython' = Tail(toPython)
  /\ connections' = [connections EXCEPT ![c] = None]
  /\ private_transport' = Detached(c)
  /\ UNCHANGED <<session, grants, issued, attaching, worker, conn, cred, reply,
                 closeEvents, uses, lost>>

\* mutant: the reader fails on a connection that never attached
ReadDetachKnown(c) ==
  /\ Incoming("detach", c) /\ (connections[c] # None \/ attaching[c] # None)
  /\ toPython' = Tail(toPython)
  /\ attaching' = [attaching EXCEPT ![c] = IF @ = None THEN None ELSE "set"]
  /\ connections' = [connections EXCEPT ![c] = None]
  /\ private_transport' = Detached(c)
  /\ UNCHANGED <<session, grants, issued, worker, conn, cred, reply, closeEvents, uses, lost>>

ReadDetach(c) ==
  /\ Incoming("detach", c)
  /\ toPython' = Tail(toPython)
  /\ attaching' = [attaching EXCEPT ![c] = IF @ = None THEN None ELSE "set"]
  /\ connections' = [connections EXCEPT ![c] = None]
  /\ private_transport' = Detached(c)
  /\ UNCHANGED <<session, grants, issued, worker, conn, cred, reply, closeEvents, uses, lost>>

Available(c) ==
  /\ attaching[c] = "pending" /\ connections[c] = None
  /\ Cardinality({d \in Conn : connections[d] # None}) < MaxConnections

\* mutant: the token survives its use
ConsumeKeeps(t) == grants

\* consume: a real token is used up whatever else is wrong
Consume(t) == [grants EXCEPT ![t] = None]

\* the request of c found the token it presents, if that was still there
UsedBy(c) == [uses EXCEPT ![cred[c]] = IF grants[cred[c]] = None THEN @ ELSE @ \cup {c}]

Attachable(s) == s # None /\ session[s] = "live" /\ private_transport[s] = None

\* attach, under the bridge's and the session lock
DispatchAttach(c) ==
  /\ worker[c] = "queued" /\ Available(c)
  /\ LET t == cred[c]
         s == grants[t]
     IN  /\ Attachable(s)
         /\ grants' = Consume(t)
         /\ private_transport' = [private_transport EXCEPT ![s] = c]
         /\ connections' = [connections EXCEPT ![c] = s]
  /\ uses' = UsedBy(c)
  /\ worker' = [worker EXCEPT ![c] = "recheck"]
  /\ UNCHANGED <<session, issued, attaching, conn, cred, toPython, reply, closeEvents, lost>>

\* The connection is unavailable or the request is malformed; or the token is
\* gone, another field is not the one it was issued for, or the session cannot
\* attach
DispatchRefused(c) ==
  /\ worker[c] = "queued"
  /\ \/ UNCHANGED <<grants, uses>>
     \/ /\ Available(c)
        /\ grants' = Consume(cred[c])
        /\ uses' = UsedBy(c)
  /\ worker' = [worker EXCEPT ![c] = None]
  /\ attaching' = [attaching EXCEPT ![c] = None]
  /\ reply' = [reply EXCEPT ![c] = "error"]
  /\ UNCHANGED <<session, issued, private_transport, connections, conn, cred, toPython,
                 closeEvents, lost>>

\* _authorized: the attachment still stands and the account has access
Recheck(c) ==
  /\ worker[c] = "recheck"
  /\ \E s \in Session : private_transport[s] = c
  /\ worker' = [worker EXCEPT ![c] = None]
  /\ attaching' = [attaching EXCEPT ![c] = None]
  /\ reply' = [reply EXCEPT ![c] = "ok"]
  /\ UNCHANGED <<python, connections, conn, cred, toPython, closeEvents, uses, lost>>

\* it does not, or the group check says no or cannot be made
RecheckFails(c) ==
  /\ worker[c] = "recheck"
  /\ worker' = [worker EXCEPT ![c] = None]
  /\ attaching' = [attaching EXCEPT ![c] = None]
  /\ connections' = [connections EXCEPT ![c] = None]
  /\ private_transport' = Detached(c)
  /\ reply' = [reply EXCEPT ![c] = "error"]
  /\ UNCHANGED <<session, grants, issued, conn, cred, toPython, closeEvents, uses, lost>>

\* any other exception of it is answered, and the detach left to the child
RecheckRaises(c) ==
  /\ worker[c] = "recheck"
  /\ worker' = [worker EXCEPT ![c] = None]
  /\ attaching' = [attaching EXCEPT ![c] = None]
  /\ reply' = [reply EXCEPT ![c] = "error"]
  /\ UNCHANGED <<python, connections, conn, cred, toPython, closeEvents, uses, lost>>

-----------------------------------------------------------------------------

Init ==
  /\ session = [s \in Session |-> "live"]
  /\ grants = [t \in Token |-> None]
  /\ issued = {}
  /\ private_transport = [s \in Session |-> None]
  /\ conn = [c \in Conn |-> "new"]
  /\ cred = [c \in Conn |-> None]
  /\ toPython = <<>>
  /\ attaching = [c \in Conn |-> None]
  /\ connections = [c \in Conn |-> None]
  /\ worker = [c \in Conn |-> None]
  /\ reply = [c \in Conn |-> None]
  /\ closeEvents = {}
  /\ uses = [t \in Token |-> {}]
  /\ lost = {}

Reader == \E c \in Conn : ReadAttach(c) \/ ReadDetach(c)
Worker(c) ==
  \/ DispatchAttach(c) \/ DispatchRefused(c)
  \/ Recheck(c) \/ RecheckFails(c) \/ RecheckRaises(c)
Child(c) == Attached(c) \/ Rejected(c) \/ CloseEvent(c)

Next ==
  \/ \E s \in Session : \/ Invalidate(s) \/ InvalidateRaises(s)
                        \/ \E t \in Token : Bootstrap(s, t)
  \/ \E t \in Token : TokenExpires(t)
  \/ \E c \in Conn : \/ \E t \in Token : SendAttach(c, t)
                     \/ Drop(c) \/ WatchEnds(c) \/ Child(c) \/ Worker(c)
  \/ Reader

Spec == Init /\ [][Next]_vars

\* The reader thread and the child read their ends of the socket; a pool thread
\* takes every request it was given.
FairSpec ==
  /\ Spec
  /\ WF_vars(Reader)
  /\ \A c \in Conn : WF_vars(Worker(c)) /\ WF_vars(Child(c))

-----------------------------------------------------------------------------
(* Properties *)

\* Every variable has its type.
TypeOK ==
  /\ session \in [Session -> {"live", "closed"}]
  /\ grants \in [Token -> Session \cup {None}]
  /\ issued \subseteq Token
  /\ private_transport \in [Session -> Conn \cup {None}]
  /\ conn \in [Conn -> {"new", "asking", "attached", "closed"}]
  /\ cred \in [Conn -> Token \cup {None}]
  /\ \A i \in DOMAIN toPython : toPython[i] \in [op : {"attach", "detach"}, conn : Conn]
  /\ attaching \in [Conn -> {None, "pending", "set"}]
  /\ connections \in [Conn -> Session \cup {None}]
  /\ worker \in [Conn -> {None, "queued", "recheck"}]
  /\ reply \in [Conn -> {None, "ok", "error"}]
  /\ closeEvents \subseteq Conn
  /\ uses \in [Token -> SUBSET Conn]
  /\ lost \subseteq [op : {"detach", "close"}, conn : Conn]

\* A token serves one attach request, right or wrong: once a request that
\* presents it has been looked at, no other one finds it, whoever sends it
\* (AttachTokenAuthority.consume pops before it checks the other fields).
TokenOnce == \A t \in Token : Cardinality(uses[t]) <= 1

DetachLost(c) == [op |-> "detach", conn |-> c] \in lost

\* the detach of c is still to be read, or could not be written
DetachDue(c) ==
  \/ conn[c] # "closed"
  \/ \E i \in DOMAIN toPython : toPython[i] = [op |-> "detach", conn |-> c]
  \/ DetachLost(c)

\* The transport of a session is one the bridge knows and will still hear the
\* end of: no attach that overtakes, or is overtaken by, its own detach leaves
\* the session with a connection nobody will take away, which would refuse
\* every later bootstrap as `transport_already_attached' (attaching events in
\* NativeQuicServer._read and _dispatch).  Only a detach the child could not
\* write does.
AttachmentTracked ==
  \A s \in Session : \A c \in Conn : private_transport[s] = c =>
    connections[c] = s /\ DetachDue(c)

\* A session whose connection is closed can attach another one after a while,
\* if the child could write the detach (NativeQuicServer._detach).
ClosedConnFreesSession ==
  \A s \in Session, c \in Conn :
    (private_transport[s] = c /\ conn[c] = "closed" /\ ~DetachLost(c))
      ~> private_transport[s] # c

\* The connection attached to a session that is revoked, has expired or has
\* lost its link is closed ("closes the attached private transport",
\* docs/private-transport.md:52), if removing the session's media did not fail
\* before (PrivateTransportService.invalidate_session).
RevokedIsClosed ==
  \A s \in Session, c \in Conn :
    (session[s] = "closed" /\ connections[c] = s /\ [op |-> "close", conn |-> c] \notin lost)
      ~> conn[c] = "closed"

=============================================================================
