--------------------------- MODULE SessionsProofs ---------------------------
(***************************************************************************)
(* The session registry implements SessionLife, for any number of links,   *)
(* sessions and logical connections and any limits and times.              *)
(*                                                                         *)
(* That a detached session is not attached again rests on the index: it    *)
(* only leads to sessions that have a link (Indexed).  That none comes     *)
(* back from the database rests on the rows: a row that can still be       *)
(* loaded belongs to a registered session and expires no later than it     *)
(* does (RowsFollowSessions), since expiry deletes rows by the time in the row.      *)
(***************************************************************************)
EXTENDS Sessions, TLAPS

Frames == [pc : {"none", "route", "unroute", "touch", "handle"},
           lid : LogicalId \cup {None}, session : Session \cup {None}]

Types ==
  /\ mode \in {"up", "stopping", "down"}
  /\ conn \in [Conn -> {"open", "closing", "closed"}]
  /\ frame \in [Conn -> Frames]
  /\ logical \in [LogicalId -> Session \cup {None}]
  /\ life \in [Session -> {"none", "provisional", "authenticated"}]
  /\ link \in [Session -> Conn \cup {None}]
  /\ exp \in [Session -> 0..TTL] /\ row \in [Session -> -1..TTL]

\* a frame that was routed has a session, one to be routed an id
FramesFilled ==
  \A c \in Conn :
    /\ frame[c].pc \in {"touch", "handle"} => frame[c].session \in Session
    /\ frame[c].pc \in {"route", "unroute"} => frame[c].lid \in LogicalId

\* the index leads to registered sessions that have a link
Indexed ==
  \A l \in LogicalId : logical[l] # None =>
    life[logical[l]] # "none" /\ link[logical[l]] # None

ProvisionalLinked == \A s \in Session : life[s] = "provisional" => link[s] # None

\* between two processes there is nothing but the database
DownIsEmpty ==
  mode = "down" =>
    /\ \A c \in Conn : frame[c].pc = "none" /\ conn[c] = "closed"
    /\ \A s \in Session : life[s] = "none" /\ link[s] = None
    /\ maintaining = FALSE

IInv == Types /\ FramesFilled /\ Indexed /\ ProvisionalLinked /\ DownIsEmpty /\ RowsFollowSessions

\* what a step must do to each session to be a step of SessionLife
Orderly ==
  \A s \in Session :
    SessionState'[s] = SessionState[s] \/ <<SessionState[s], SessionState'[s]>> \in Life!Steps

\* A step that treats every session orderly is a step of SessionLife.
LEMMA OrderlyIsLife == Orderly => Life!Next
  BY DEF Orderly, Life!Next, SessionState

USE SessionConstants DEF SessionConstants

\* The empty registry satisfies the invariant.
LEMMA InitIInv == Init => IInv
<1> SUFFICES ASSUME Init PROVE IInv
  OBVIOUS
<1>1. Types
  <2>1. Rest \in Frames
    BY DEF Rest, Frames
  <2> QED  BY <2>1 DEF Init, Types, NoRow
<1>2. FramesFilled /\ Indexed
  BY DEF Init, FramesFilled, Indexed, Rest
<1>3. ProvisionalLinked /\ DownIsEmpty
  BY DEF Init, ProvisionalLinked, DownIsEmpty
<1>4. RowsFollowSessions
  BY DEF Init, RowsFollowSessions, NoRow
<1> QED  BY <1>1, <1>2, <1>3, <1>4 DEF IInv

\* A step that leaves the registry alone keeps the invariant and is a stutter.
LEMMA QuietStep ==
  ASSUME IInv, UNCHANGED <<registry, maintaining>>,
         mode' = mode \/ (mode = "up" /\ mode' = "stopping"),
         conn' \in [Conn -> {"open", "closing", "closed"}],
         frame' \in [Conn -> Frames], FramesFilled',
         mode = "down" => UNCHANGED <<conn, frame>>
  PROVE  IInv' /\ Orderly
<1>1. IInv'
  BY DEF IInv, Types, Indexed, ProvisionalLinked, DownIsEmpty, RowsFollowSessions, registry
<1>2. Orderly
  BY DEF Orderly, SessionState, IInv, Types, registry
<1> QED  BY <1>1, <1>2

\* The steps of links and receivers that leave the registry alone.
LEMMA QuietSteps ==
  ASSUME IInv, NEW c \in Conn,
         \/ Established(c) \/ Close(c) \/ Duplicate(c) \/ Handle(c)
         \/ \E l \in LogicalId : Receive(c, l) \/ ReceiveClose(c, l)
  PROVE  IInv' /\ Orderly
<1> USE DEF IInv, Types
<1>0. Rest \in Frames /\ \A pc \in {"route", "unroute"}, l \in LogicalId :
        [Rest EXCEPT !.pc = pc, !.lid = l] \in Frames
  BY ZenonT(30) DEF Rest, Frames
<1>1. UNCHANGED <<registry, maintaining, mode>>
  BY ZenonT(30) DEF Established, Close, Receive, ReceiveClose, Duplicate, Handle
<1>2. conn' \in [Conn -> {"open", "closing", "closed"}]
  BY Zenon DEF Established, Close, Receive, ReceiveClose, Duplicate, Handle
<1>3. frame' \in [Conn -> Frames] /\ FramesFilled'
  <2>1. CASE Established(c) \/ Close(c) \/ Duplicate(c) \/ Handle(c)
    <3>1. frame' = frame \/ frame' = [frame EXCEPT ![c] = Rest]
      BY <2>1 DEF Established, Close, Duplicate, Handle
    <3>2. CASE frame' = frame
      BY <3>2 DEF FramesFilled
    <3>3. CASE frame' = [frame EXCEPT ![c] = Rest]
      <4>1. frame' \in [Conn -> Frames]
        BY <1>0, <3>3, Zenon
      <4>2. FramesFilled'
        BY <3>3, SMTT(30) DEF FramesFilled, Rest
      <4> QED  BY <4>1, <4>2, SMTT(30)
    <3> QED  BY <3>1, <3>2, <3>3
  <2>2. ASSUME NEW l \in LogicalId, Receive(c, l) \/ ReceiveClose(c, l)
        PROVE  frame' \in [Conn -> Frames] /\ FramesFilled'
    <3>1. PICK pc \in {"route", "unroute"} :
            frame' = [frame EXCEPT ![c] = [Rest EXCEPT !.pc = pc, !.lid = l]]
      BY <2>2, ZenonT(30) DEF Receive, ReceiveClose
    <3> QED  BY <1>0, <3>1, ZenonT(30) DEF FramesFilled, Rest
  <2> QED  BY <2>1, <2>2
<1>4. mode # "down"
  BY Zenon DEF DownIsEmpty, Established, Close, Receive, ReceiveClose, Duplicate, Handle
<1> QED  BY <1>1, <1>2, <1>3, <1>4, QuietStep, SMTT(30)

\* Shutdown begins with a flag.
LEMMA ShutdownStep ==
  ASSUME IInv, Shutdown PROVE IInv' /\ Orderly
  BY QuietStep, SMTT(30) DEF Shutdown, IInv, Types, FramesFilled

\* A link's clean-up discards its provisional sessions and detaches the others.
LEMMA ClosedStep ==
  ASSUME NEW c \in Conn, IInv, Closed(c)
  PROVE  IInv' /\ Orderly
<1> USE DEF IInv, Closed, Disconnect, Lost, LogicalWithout, Authenticated
<1>1. Types'
  BY DEF Types, Frames
<1>2. FramesFilled'
  BY SMTT(30) DEF Types, Frames, FramesFilled
<1>3. Indexed'
  BY DEF Types, Indexed, DownIsEmpty
<1>4. ProvisionalLinked' /\ DownIsEmpty'
  BY DEF Types, ProvisionalLinked, DownIsEmpty
<1>5. RowsFollowSessions'
  BY SMTT(30) DEF Types, RowsFollowSessions, DownIsEmpty
<1>6. Orderly
  BY DEF Orderly, SessionState, Life!Steps, Types, FramesFilled, Indexed, ProvisionalLinked,
         DownIsEmpty, RowsFollowSessions
<1> QED  BY <1>1, <1>2, <1>3, <1>4, <1>5, <1>6

\* So does the clean-up of one logical connection.
LEMMA UnrouteStep ==
  ASSUME NEW c \in Conn, IInv, Unroute(c)
  PROVE  IInv' /\ Orderly
<1> USE DEF IInv, Unroute, Disconnect, Lost, LogicalWithout, Authenticated, Rest
<1>1. Types'
  BY SMTT(30) DEF Types, Frames
<1>2. FramesFilled'
  BY SMTT(30) DEF Types, Frames, FramesFilled
<1>3. Indexed'
  BY DEF Types, Indexed, DownIsEmpty
<1>4. ProvisionalLinked' /\ DownIsEmpty'
  BY DEF Types, ProvisionalLinked, DownIsEmpty
<1>5. RowsFollowSessions'
  BY SMTT(30) DEF Types, RowsFollowSessions, DownIsEmpty
<1>6. Orderly
  BY ZenonT(30) DEF Orderly, SessionState, Life!Steps, Types, FramesFilled, Indexed, ProvisionalLinked,
         DownIsEmpty, RowsFollowSessions
<1> QED  BY <1>1, <1>2, <1>3, <1>4, <1>5, <1>6, SMTT(30)

\* A refused frame only sweeps expired sessions.
LEMMA RouteRefusedStep ==
  ASSUME NEW c \in Conn, IInv, RouteRefused(c)
  PROVE  IInv' /\ Orderly
<1> USE DEF IInv, RouteRefused, Drop, LogicalWithout, SweptRows, Swept, Expired, Rows, NoRow, Rest
<1>1. Types'
  BY SMTT(30) DEF Types, Frames
<1>2. FramesFilled'
  BY Zenon DEF Types, Frames, FramesFilled
<1>3. Indexed'
  BY Zenon DEF Types, Indexed, DownIsEmpty
<1>4. ProvisionalLinked' /\ DownIsEmpty'
  BY ZenonT(30) DEF Types, ProvisionalLinked, DownIsEmpty
<1>5. RowsFollowSessions'
  BY SMTT(30) DEF Types, RowsFollowSessions, DownIsEmpty
<1>6. Orderly
  BY DEF Orderly, SessionState, Life!Steps, Types, FramesFilled, Indexed, ProvisionalLinked,
         DownIsEmpty, RowsFollowSessions
<1> QED  BY <1>1, <1>2, <1>3, <1>4, <1>5, <1>6, Zenon

\* A frame with a new id creates a provisional session that no row stands for.
LEMMA RouteNewStep ==
  ASSUME NEW c \in Conn, NEW s \in Session, IInv, RouteNew(c, s)
  PROVE  IInv' /\ Orderly
<1> USE DEF IInv, RouteNew, LogicalWithout, SweptRows, Swept, Expired, Rows, NoRow, Rest
<1>1. Types'
  <2>1. frame' \in [Conn -> Frames]
    BY Zenon DEF Types, Frames, FramesFilled
  <2>2. life' \in [Session -> {"none", "provisional", "authenticated"}]
    BY DEF Types
  <2>3. exp' \in [Session -> 0..TTL] /\ row' \in [Session -> -1..TTL]
    <3>1. TTL \in 0..TTL /\ TTL \in -1..TTL
      OBVIOUS
    <3> QED  BY <3>1 DEF Types
  <2>4. /\ logical' \in [LogicalId -> Session \cup {None}]
        /\ link' \in [Session -> Conn \cup {None}]
    BY Zenon DEF Types
  <2> QED  BY <2>1, <2>2, <2>3, <2>4 DEF Types
<1>2. FramesFilled'
  BY ZenonT(30) DEF Types, Frames, FramesFilled
<1>3. Indexed'
  BY DEF Types, Indexed, DownIsEmpty
<1>4. ProvisionalLinked' /\ DownIsEmpty'
  BY DEF Types, ProvisionalLinked, DownIsEmpty
<1>5. RowsFollowSessions'
  BY DEF Types, RowsFollowSessions, DownIsEmpty
<1>6. Orderly
  BY DEF Orderly, SessionState, Life!Steps, Types, FramesFilled, Indexed, ProvisionalLinked,
         DownIsEmpty, RowsFollowSessions
<1> QED  BY <1>1, <1>2, <1>3, <1>4, <1>5, <1>6, SMTT(30)

\* A frame with a known id leads to a session that has a link, which it may
\* change: a detached session is not found.
LEMMA RouteFoundStep ==
  ASSUME NEW c \in Conn, IInv, RouteFound(c)
  PROVE  IInv' /\ Orderly
<1> USE DEF IInv, RouteFound, Found, Creating, Rest
<1>1. Types'
  <2>1. frame' \in [Conn -> Frames]
    BY Zenon DEF Types, Frames, FramesFilled
  <2>2. life' \in [Session -> {"none", "provisional", "authenticated"}]
    BY DEF Types
  <2>3. exp' \in [Session -> 0..TTL] /\ row' \in [Session -> -1..TTL]
    <3>1. TTL \in 0..TTL /\ TTL \in -1..TTL
      OBVIOUS
    <3> QED  BY <3>1 DEF Types
  <2>4. /\ logical' \in [LogicalId -> Session \cup {None}]
        /\ link' \in [Session -> Conn \cup {None}]
    BY Zenon DEF Types
  <2> QED  BY <2>1, <2>2, <2>3, <2>4 DEF Types
<1>2. FramesFilled'
  BY DEF Types, Frames, FramesFilled
<1>3. Indexed'
  BY DEF Types, Indexed, DownIsEmpty
<1>4. ProvisionalLinked' /\ DownIsEmpty'
  BY DEF Types, ProvisionalLinked, DownIsEmpty
<1>5. RowsFollowSessions'
  BY DEF Types, RowsFollowSessions, DownIsEmpty
<1>6. Orderly
  BY DEF Orderly, SessionState, Life!Steps, Types, FramesFilled, Indexed, ProvisionalLinked,
         DownIsEmpty, RowsFollowSessions
<1> QED  BY <1>1, <1>2, <1>3, <1>4, <1>5, <1>6

\* A touch renews a registered session; its row follows or stays behind.
LEMMA TouchStep ==
  ASSUME NEW c \in Conn, IInv, Touch(c)
  PROVE  IInv' /\ Orderly
<1> USE DEF IInv, Touch, Touched, Saved, Authenticated
<1>1. Types'
  BY SMTT(30) DEF Types, Frames
<1>2. FramesFilled'
  BY DEF Types, Frames, FramesFilled
<1>3. Indexed'
  BY DEF Types, Indexed, DownIsEmpty
<1>4. ProvisionalLinked' /\ DownIsEmpty'
  BY DEF Types, ProvisionalLinked, DownIsEmpty
<1>5. RowsFollowSessions'
  BY DEF Types, RowsFollowSessions, DownIsEmpty
<1>6. Orderly
  BY DEF Orderly, SessionState, Life!Steps, Types, FramesFilled, Indexed, ProvisionalLinked,
         DownIsEmpty, RowsFollowSessions
<1> QED  BY <1>1, <1>2, <1>3, <1>4, <1>5, <1>6

\* Only a session that is still registered is promoted; it has a link, unless
\* it was authenticated before.
LEMMA PromoteStep ==
  ASSUME NEW c \in Conn, IInv, Promote(c)
  PROVE  IInv' /\ Orderly
<1> USE DEF IInv, Promote, Rest
<1>1. Types'
  <2>1. frame' \in [Conn -> Frames]
    BY DEF Types, Frames, FramesFilled
  <2>2. life' \in [Session -> {"none", "provisional", "authenticated"}]
    BY Zenon DEF Types
  <2>3. exp' \in [Session -> 0..TTL] /\ row' \in [Session -> -1..TTL]
    <3>1. TTL \in 0..TTL /\ TTL \in -1..TTL
      OBVIOUS
    <3> QED  BY <3>1, Zenon DEF Types
  <2>4. /\ logical' \in [LogicalId -> Session \cup {None}]
        /\ link' \in [Session -> Conn \cup {None}]
    BY DEF Types
  <2> QED  BY <2>1, <2>2, <2>3, <2>4 DEF Types
<1>2. FramesFilled'
  BY DEF Types, Frames, FramesFilled
<1>3. Indexed'
  BY DEF Types, Indexed, DownIsEmpty
<1>4. ProvisionalLinked' /\ DownIsEmpty'
  BY DEF Types, ProvisionalLinked, DownIsEmpty
<1>5. RowsFollowSessions'
  BY SMTT(30) DEF Types, RowsFollowSessions, DownIsEmpty
<1>6. Orderly
  BY Zenon DEF Orderly, SessionState, Life!Steps, Types, FramesFilled, Indexed, ProvisionalLinked,
         DownIsEmpty, RowsFollowSessions
<1> QED  BY <1>1, <1>2, <1>3, <1>4, <1>5, <1>6, SMTT(30)

\* A row written by persist expires with its session.
LEMMA PersistStep ==
  ASSUME NEW s \in Session, IInv, Persist(s)
  PROVE  IInv' /\ Orderly
<1> USE DEF IInv, Persist
<1>1. Types'
  BY DEF Types, Frames
<1>2. FramesFilled'
  BY DEF Types, Frames, FramesFilled
<1>3. Indexed'
  BY DEF Types, Indexed, DownIsEmpty
<1>4. ProvisionalLinked' /\ DownIsEmpty'
  BY DEF Types, ProvisionalLinked, DownIsEmpty
<1>5. RowsFollowSessions'
  BY SMTT(30) DEF Types, RowsFollowSessions, DownIsEmpty
<1>6. Orderly
  BY ZenonT(30) DEF Orderly, SessionState, Life!Steps, Types, FramesFilled, Indexed, ProvisionalLinked,
         DownIsEmpty, RowsFollowSessions
<1> QED  BY <1>1, <1>2, <1>3, <1>4, <1>5, <1>6

\* A revoked session loses its row in the same step.
LEMMA RevokeStep ==
  ASSUME NEW s \in Session, IInv, Revoke(s)
  PROVE  IInv' /\ Orderly
<1> USE DEF IInv, Revoke, Drop, LogicalWithout, Rows, NoRow
<1>1. Types'
  BY DEF Types, Frames
<1>2. FramesFilled'
  BY SMTT(30) DEF Types, Frames, FramesFilled
<1>3. Indexed'
  BY SMTT(30) DEF Types, Indexed, DownIsEmpty
<1>4. ProvisionalLinked' /\ DownIsEmpty'
  BY SMTT(30) DEF Types, ProvisionalLinked, DownIsEmpty
<1>5. RowsFollowSessions'
  BY SMTT(30) DEF Types, RowsFollowSessions, DownIsEmpty
<1>6. Orderly
  BY SMTT(30) DEF Orderly, SessionState, Life!Steps, Types, FramesFilled, Indexed, ProvisionalLinked,
         DownIsEmpty, RowsFollowSessions
<1> QED  BY <1>1, <1>2, <1>3, <1>4, <1>5, <1>6

\* Maintenance renews like a touch.
LEMMA MaintainTouchStep ==
  ASSUME IInv, MaintainTouch
  PROVE  IInv' /\ Orderly
<1> USE DEF IInv, MaintainTouch, Touched, Saved, Linked, Authenticated
<1>1. Types'
  BY DEF Types, Frames
<1>2. FramesFilled'
  BY DEF Types, Frames, FramesFilled
<1>3. Indexed'
  BY DEF Types, Indexed, DownIsEmpty
<1>4. ProvisionalLinked' /\ DownIsEmpty'
  BY DEF Types, ProvisionalLinked, DownIsEmpty
<1>5. RowsFollowSessions'
  BY SMTT(30) DEF Types, RowsFollowSessions, DownIsEmpty
<1>6. Orderly
  BY SMTT(30) DEF Orderly, SessionState, Life!Steps, Types, FramesFilled, Indexed, ProvisionalLinked,
         DownIsEmpty, RowsFollowSessions
<1> QED  BY <1>1, <1>2, <1>3, <1>4, <1>5, <1>6

\* An expired session has no row that can still be loaded.
LEMMA MaintainExpireStep ==
  ASSUME IInv, MaintainExpire
  PROVE  IInv' /\ Orderly
<1> USE DEF IInv, MaintainExpire, Drop, LogicalWithout, Rows, NoRow, Expired
<1>1. Types'
  BY SMTT(30) DEF Types, Frames
<1>2. FramesFilled'
  BY SMTT(30) DEF Types, Frames, FramesFilled
<1>3. Indexed'
  BY SMTT(30) DEF Types, Indexed, DownIsEmpty
<1>4. ProvisionalLinked' /\ DownIsEmpty'
  BY ZenonT(30) DEF Types, ProvisionalLinked, DownIsEmpty
<1>5. RowsFollowSessions'
  BY SMTT(30) DEF Types, RowsFollowSessions, DownIsEmpty
<1>6. Orderly
  BY ZenonT(30) DEF Orderly, SessionState, Life!Steps, Types, FramesFilled, Indexed, ProvisionalLinked,
         DownIsEmpty, RowsFollowSessions
<1> QED  BY <1>1, <1>2, <1>3, <1>4, <1>5, <1>6, SMTT(30)

\* Time takes from rows and sessions alike.
LEMMA TickStep ==
  ASSUME IInv, Tick
  PROVE  IInv' /\ Orderly
<1> USE DEF IInv, Tick
<1>1. Types'
  BY DEF Types, Frames
<1>2. FramesFilled'
  BY DEF Types, Frames, FramesFilled
<1>3. Indexed'
  BY DEF Types, Indexed, DownIsEmpty
<1>4. ProvisionalLinked' /\ DownIsEmpty'
  BY DEF Types, ProvisionalLinked, DownIsEmpty
<1>5. RowsFollowSessions'
  BY SMTT(30) DEF Types, RowsFollowSessions, DownIsEmpty
<1>6. Orderly
  BY Zenon DEF Orderly, SessionState, Life!Steps, Types, FramesFilled, Indexed, ProvisionalLinked,
         DownIsEmpty, RowsFollowSessions
<1> QED  BY <1>1, <1>2, <1>3, <1>4, <1>5, <1>6

\* Shutdown leaves rows of registered sessions only.
LEMMA StopStep ==
  ASSUME IInv, Stop
  PROVE  IInv' /\ Orderly
<1> USE DEF IInv, Stop, Forget, Drop, LogicalWithout, Authenticated, Rest
<1>1. Types'
  BY SMTT(30) DEF Types, Frames
<1>2. FramesFilled'
  BY SMTT(30) DEF Types, Frames, FramesFilled
<1>3. Indexed'
  BY SMTT(30) DEF Types, Indexed, DownIsEmpty
<1>4. ProvisionalLinked' /\ DownIsEmpty'
  BY Zenon DEF Types, ProvisionalLinked, DownIsEmpty
<1>5. RowsFollowSessions'
  BY Zenon DEF Types, RowsFollowSessions, DownIsEmpty
<1>6. Orderly
  BY ZenonT(30) DEF Orderly, SessionState, Life!Steps, Types, FramesFilled, Indexed, ProvisionalLinked,
         DownIsEmpty, RowsFollowSessions
<1> QED  BY <1>1, <1>2, <1>3, <1>4, <1>5, <1>6, SMTT(30)

\* A crash leaves the rows as they are, all of authenticated sessions.
LEMMA CrashStep ==
  ASSUME IInv, Crash
  PROVE  IInv' /\ Orderly
<1> USE DEF IInv, Crash, Forget, Drop, LogicalWithout, Rest
<1>1. Types'
  BY SMTT(30) DEF Types, Frames
<1>2. FramesFilled'
  BY Zenon DEF Types, Frames, FramesFilled
<1>3. Indexed'
  BY Zenon DEF Types, Indexed, DownIsEmpty
<1>4. ProvisionalLinked' /\ DownIsEmpty'
  BY ZenonT(30) DEF Types, ProvisionalLinked, DownIsEmpty
<1>5. RowsFollowSessions'
  BY SMTT(30) DEF Types, RowsFollowSessions, DownIsEmpty
<1>6. Orderly
  BY DEF Orderly, SessionState, Life!Steps, Types, FramesFilled, Indexed, ProvisionalLinked,
         DownIsEmpty, RowsFollowSessions
<1> QED  BY <1>1, <1>2, <1>3, <1>4, <1>5, <1>6, SMTT(30)

\* A new process loads detached sessions only.
LEMMA RestartStep ==
  ASSUME IInv, Restart
  PROVE  IInv' /\ Orderly
<1> USE DEF IInv, Restart
<1>1. Types'
  BY DEF Types, Frames
<1>2. FramesFilled'
  BY DEF Types, Frames, FramesFilled
<1>3. Indexed'
  BY DEF Types, Indexed, DownIsEmpty
<1>4. ProvisionalLinked' /\ DownIsEmpty'
  BY SMTT(30) DEF Types, ProvisionalLinked, DownIsEmpty
<1>5. RowsFollowSessions'
  BY SMTT(30) DEF Types, RowsFollowSessions, DownIsEmpty
<1>6. Orderly
  BY DEF Orderly, SessionState, Life!Steps, Types, FramesFilled, Indexed, ProvisionalLinked,
         DownIsEmpty, RowsFollowSessions
<1> QED  BY <1>1, <1>2, <1>3, <1>4, <1>5, <1>6

\* Every step keeps the invariant and is a step of SessionLife.
LEMMA NextStep == IInv /\ [Next]_vars => IInv' /\ [Life!Next]_SessionState
<1> SUFFICES ASSUME IInv, [Next]_vars PROVE IInv' /\ [Life!Next]_SessionState
  OBVIOUS
<1>1. CASE UNCHANGED vars
  <2>1. IInv'
    BY <1>1, ZenonT(30) DEF vars, IInv, Types, FramesFilled, Indexed, ProvisionalLinked, DownIsEmpty,
                RowsFollowSessions
  <2>2. SessionState' = SessionState
    BY <1>1 DEF vars, SessionState
  <2> QED  BY <2>1, <2>2, Zenon
<1>2. CASE Next
  <2>1. IInv' /\ Orderly
    BY <1>2, QuietSteps, ClosedStep, UnrouteStep, RouteRefusedStep, RouteNewStep, RouteFoundStep,
       TouchStep, PromoteStep, PersistStep, RevokeStep, MaintainTouchStep, MaintainExpireStep,
       TickStep, ShutdownStep, StopStep, CrashStep, RestartStep DEF Next, Receiver
  <2> QED  BY <2>1, OrderlyIsLife, SMTT(30)
<1> QED  BY <1>1, <1>2

\* For any links, sessions, limits and times: every behaviour of the registry,
\* with its closing links, late frames, expiry, revocation, crashes and restarts,
\* is a behaviour of SessionLife.
THEOREM Implements == Spec => LivesAreOrderly
<1>1. Init => Life!Init
  BY DEF Init, Life!Init, SessionState
<1>2. QED
  BY <1>1, InitIInv, NextStep, PTL DEF Spec, LivesAreOrderly, Life!Spec

\* For any links, sessions, limits and times: a row that can still be loaded
\* belongs to an authenticated session of the registry and does not outlive it.
THEOREM RowsFollow == Spec => []RowsFollowSessions
<1>1. IInv => RowsFollowSessions
  BY DEF IInv
<1>2. QED
  BY <1>1, InitIInv, NextStep, PTL DEF Spec

=============================================================================
