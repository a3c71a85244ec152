------------------------- MODULE SessionIndexProofs -------------------------
(***************************************************************************)
(* What the session registry keeps true between its steps, for any links,  *)
(* sessions, limits and times: a session in use does not expire (Fresh),   *)
(* the three indexes it is reached by agree (Agree), and the limits hold   *)
(* although they are checked before they are used (Limits).                *)
(***************************************************************************)
EXTENDS SessionsProofs, FiniteSetTheorems

USE SessionConstants DEF SessionConstants

-----------------------------------------------------------------------------
(* Sessions in use do not expire *)

\* Every session in use was touched since maintenance last ran; while it runs
\* no time passes, so what it touched still has its full time.
Fresh ==
  /\ unmaintained \in 0..MaintainEvery
  /\ mode = "up" => \A s \in Linked \ moved :
       IF maintaining THEN exp[s] = TTL ELSE exp[s] + unmaintained >= TTL

\* s is in use after the step only if it was before, with the same time, or if
\* the step gave it its full time.
StaysFresh(s) ==
  life'[s] = "authenticated" /\ link'[s] # None /\ conn'[link'[s]] = "open" /\ s \notin moved' =>
    \/ exp'[s] = TTL
    \/ /\ life[s] = "authenticated" /\ link[s] # None /\ conn[link[s]] = "open"
       /\ s \notin moved /\ exp'[s] = exp[s]

\* Steps in which no time passes and no maintenance begins or ends.
LEMMA FreshKept ==
  ASSUME IInv, Fresh, UNCHANGED <<mode, maintaining, unmaintained>>,
         \A s \in Session : StaysFresh(s)
  PROVE  Fresh'
<1> SUFFICES ASSUME mode = "up", NEW s \in Linked' \ moved'
             PROVE  IF maintaining THEN exp'[s] = TTL ELSE exp'[s] + unmaintained >= TTL
  BY DEF Fresh
<1>1. s \in Session /\ StaysFresh(s)
  BY DEF Linked, Authenticated
<1>2. exp'[s] = TTL \/ (s \in Linked \ moved /\ exp'[s] = exp[s])
  BY <1>1 DEF StaysFresh, Linked, Authenticated
<1> QED BY <1>2 DEF Fresh

\* Links come up and go down; a session's link is not an established one's.
LEMMA FreshLinks ==
  ASSUME IInv, Fresh, NEW c \in Conn,
         Established(c) \/ Close(c) \/ Closed(c) \/ Unroute(c)
  PROVE  Fresh'
<1> USE DEF IInv, Types, StaysFresh
<1>1. CASE Established(c)
  <2>1. \A s \in Session : StaysFresh(s)
    BY <1>1, Zenon DEF Established, registry
  <2> QED BY <1>1, <2>1, FreshKept, Zenon DEF Established
<1>2. CASE Close(c)
  <2>1. \A s \in Session : StaysFresh(s)
    BY <1>2, Zenon DEF Close, registry
  <2> QED BY <1>2, <2>1, FreshKept, Zenon DEF Close
<1>3. CASE Closed(c)
  <2>1. \A s \in Session : StaysFresh(s)
    BY <1>3, Zenon DEF Closed, Disconnect, Lost, Authenticated
  <2> QED BY <1>3, <2>1, FreshKept, Zenon DEF Closed
<1>4. CASE Unroute(c)
  <2>1. \A s \in Session : StaysFresh(s)
    BY <1>4, Zenon DEF Unroute, Disconnect, Lost, Authenticated
  <2> QED BY <1>4, <2>1, FreshKept, Zenon DEF Unroute
<1> QED BY <1>1, <1>2, <1>3, <1>4, Zenon

\* A frame that finds its session on a closed link marks it as moved; every
\* other one leaves the time of a session alone or renews it.
LEMMA FreshFrames ==
  ASSUME IInv, Fresh, NEW c \in Conn,
         \/ RouteRefused(c) \/ RouteFound(c) \/ Duplicate(c) \/ Touch(c)
         \/ Handle(c) \/ Promote(c)
         \/ \E l \in LogicalId : Receive(c, l) \/ ReceiveClose(c, l)
  PROVE  Fresh'
<1> USE DEF IInv, Types, StaysFresh
<1>1. CASE RouteRefused(c)
  <2>1. \A s \in Session : StaysFresh(s)
    BY <1>1, Zenon DEF RouteRefused, Drop
  <2> QED BY <1>1, <2>1, FreshKept, Zenon DEF RouteRefused
<1>2. CASE RouteFound(c)
  <2>1. \A s \in Session : StaysFresh(s)
    BY <1>2 DEF RouteFound
  <2> QED BY <1>2, <2>1, FreshKept, Zenon DEF RouteFound
<1>3. CASE Touch(c)
  <2>1. \A s \in Session : StaysFresh(s)
    BY <1>3 DEF Touch, Touched, Authenticated
  <2> QED BY <1>3, <2>1, FreshKept, Zenon DEF Touch
<1>4. CASE Promote(c)
  <2>1. \A s \in Session : StaysFresh(s)
    BY <1>4 DEF Promote, FramesFilled
  <2> QED BY <1>4, <2>1, FreshKept DEF Promote
<1>5. CASE \/ Duplicate(c) \/ Handle(c)
           \/ \E l \in LogicalId : Receive(c, l) \/ ReceiveClose(c, l)
  <2>1. UNCHANGED <<mode, conn, registry, maintaining, unmaintained, moved>>
    BY <1>5, Zenon DEF Duplicate, Handle, Receive, ReceiveClose
  <2>2. \A s \in Session : StaysFresh(s)
    BY <2>1, Zenon DEF registry
  <2> QED BY <2>1, <2>2, FreshKept, Zenon
<1> QED BY <1>1, <1>2, <1>3, <1>4, <1>5, Zenon

\* A new session is provisional.
LEMMA FreshNew ==
  ASSUME IInv, Fresh, NEW c \in Conn, NEW s \in Session, RouteNew(c, s)
  PROVE  Fresh'
<1>1. \A r \in Session : StaysFresh(r)
  BY Zenon DEF RouteNew, StaysFresh, IInv, Types
<1> QED BY <1>1, FreshKept, Zenon DEF RouteNew

\* Time passes only so long as maintenance is due.
LEMMA FreshRest ==
  ASSUME IInv, Fresh,
         \/ \E s \in Session : Persist(s) \/ Revoke(s)
         \/ MaintainTouch \/ MaintainExpire \/ Tick
         \/ Shutdown \/ Stop \/ Crash \/ Restart
  PROVE  Fresh'
<1> USE DEF IInv, Types
<1>1. ASSUME NEW s \in Session, Persist(s) PROVE Fresh'
  <2>1. \A r \in Session : StaysFresh(r)
    BY <1>1, Zenon DEF Persist, StaysFresh
  <2> QED BY <1>1, <2>1, FreshKept, Zenon DEF Persist
<1>2. ASSUME NEW s \in Session, Revoke(s) PROVE Fresh'
  <2>1. \A r \in Session : StaysFresh(r)
    BY <1>2, Zenon DEF Revoke, Drop, StaysFresh
  <2> QED BY <1>2, <2>1, FreshKept, Zenon DEF Revoke
<1>3. CASE MaintainTouch
  BY <1>3, Zenon DEF MaintainTouch, Touched, Fresh, Linked, Authenticated
<1>4. CASE MaintainExpire
  BY <1>4 DEF MaintainExpire, Drop, Fresh, Linked, Authenticated
<1>5. CASE Tick
  <2>1. unmaintained' \in 0..MaintainEvery
    BY <1>5 DEF Tick, Fresh
  <2>2. ASSUME mode = "up", NEW s \in Linked \ moved
        PROVE  exp'[s] + unmaintained' >= TTL
    BY <1>5, <2>2 DEF Tick, Fresh, Linked, Authenticated
  <2> QED BY <1>5, <2>1, <2>2, Zenon DEF Tick, Fresh, Linked, Authenticated
<1>6. CASE Shutdown \/ Stop \/ Crash
  BY <1>6 DEF Shutdown, Stop, Crash, Forget, Fresh
<1>7. CASE Restart
  <2>1. Linked' = {}
    BY <1>7, Zenon DEF Restart, Linked, Authenticated, DownIsEmpty
  <2> QED BY <1>7, <2>1, Zenon DEF Restart, Fresh
<1> QED BY <1>1, <1>2, <1>3, <1>4, <1>5, <1>6, <1>7, Zenon

\* An authenticated session on an open link never reaches its expiry, however
\* links, messages, maintenance and time interleave: no session that is in use
\* is taken from its link without a disconnect handler (SessionManager.expire).
THEOREM LinkedStay == Spec => []LinkedDoNotExpire
<1>1. ASSUME Init PROVE Fresh
  <2>1. Linked = {}
    BY <1>1, Zenon DEF Init, Linked, Authenticated
  <2> QED BY <1>1, <2>1 DEF Init, Fresh
<1>2. IInv /\ Fresh /\ [Next]_vars => Fresh'
  <2> SUFFICES ASSUME IInv, Fresh, [Next]_vars PROVE Fresh'
    BY Zenon
  <2>1. CASE UNCHANGED vars
    BY <2>1, Zenon DEF vars, Fresh, Linked, Authenticated
  <2>2. CASE Next
    BY <2>2, FreshLinks, FreshFrames, FreshNew, FreshRest, Zenon DEF Next, Receiver
  <2> QED BY <2>1, <2>2, Zenon
<1>3. IInv /\ Fresh => LinkedDoNotExpire
  BY DEF IInv, Types, Fresh, LinkedDoNotExpire, Linked, Authenticated
<1> QED BY <1>1, <1>2, <1>3, InitIInv, NextStep, PTL DEF Spec

-----------------------------------------------------------------------------
(* The indexes *)

\* the three parts of IndexesAgree
IndexHas(l) ==
  logical[l] # None =>
    /\ life[logical[l]] # "none" /\ lid[logical[l]] = l /\ link[logical[l]] # None

OwnIds(c, l) ==
  conn[c] = "open" /\ l \in ids[c] => logical[l] # None /\ link[logical[l]] = c

FoundByIds(s) ==
  link[s] # None /\ conn[link[s]] = "open" =>
    /\ logical[lid[s]] = s
    /\ \/ lid[s] \in ids[link[s]]
       \/ frame[link[s]].pc = "unroute" /\ frame[link[s]].lid = lid[s]

\* a session with a link has the id it was reached by
IdTypes ==
  /\ ids \in [Conn -> SUBSET LogicalId] /\ lid \in [Session -> LogicalId \cup {None}]
  /\ \A s \in Session : link[s] # None => lid[s] # None

Agree ==
  /\ IdTypes
  /\ \A l \in LogicalId : IndexHas(l)
  /\ \A c \in Conn, l \in LogicalId : OwnIds(c, l)
  /\ \A s \in Session : FoundByIds(s)

\* Sessions that are dropped leave the index, their links and the ids of their
\* links together (_remove_session_indexes); a link the step closed is not open.
LEMMA DropAgrees ==
  ASSUME IInv, Agree, NEW S \in SUBSET Session, Drop(S),
         ids' \in [Conn -> SUBSET LogicalId],
         \A c \in Conn : conn'[c] = "open" =>
           /\ conn[c] = "open" /\ frame'[c] = frame[c]
           /\ ids'[c] = ids[c] \ {lid[s] : s \in {r \in S : link[r] = c}}
  PROVE  Agree'
<1> USE DEF IInv, Types, Drop, LogicalWithout
<1>1. IdTypes'
  BY Zenon DEF Agree, IdTypes
<1>2. ASSUME NEW l \in LogicalId PROVE IndexHas(l)'
  <2>1. IndexHas(l)
    BY Zenon DEF Agree
  <2> QED BY <2>1 DEF IndexHas
<1>3. ASSUME NEW c \in Conn, NEW l \in LogicalId PROVE OwnIds(c, l)'
  <2> SUFFICES ASSUME conn'[c] = "open", l \in ids'[c]
               PROVE  logical'[l] # None /\ link'[logical'[l]] = c
    BY Zenon DEF OwnIds
  <2>1. logical[l] # None /\ link[logical[l]] = c /\ lid[logical[l]] = l
    BY DEF Agree, OwnIds, IndexHas
  <2>2. logical[l] \in Session /\ logical[l] \notin S
    BY <2>1
  <2> QED BY <2>1, <2>2, Zenon
<1>4. ASSUME NEW s \in Session PROVE FoundByIds(s)'
  <2> SUFFICES ASSUME link'[s] # None, conn'[link'[s]] = "open"
               PROVE  /\ logical'[lid'[s]] = s
                      /\ \/ lid'[s] \in ids'[link'[s]]
                         \/ frame'[link'[s]].pc = "unroute" /\ frame'[link'[s]].lid = lid'[s]
    BY Zenon DEF FoundByIds
  <2> DEFINE c == link[s]  l == lid[s]
  <2>1. s \notin S /\ link'[s] = c /\ lid'[s] = l /\ c \in Conn /\ l \in LogicalId
    BY DEF Agree, IdTypes
  <2>2. conn[c] = "open" /\ frame'[c] = frame[c] /\ logical[l] = s
    BY <2>1, Zenon DEF Agree, FoundByIds
  <2>3. \A r \in S : link[r] = c => lid[r] # l
    BY <2>1, <2>2 DEF Agree, FoundByIds
  <2>4. l \in ids[c] => l \in ids'[c]
    BY <2>1, <2>2, <2>3
  <2>5. l \in ids[c] \/ (frame[c].pc = "unroute" /\ frame[c].lid = l)
    BY <2>1, <2>2, Zenon DEF Agree, FoundByIds
  <2> QED BY <2>1, <2>2, <2>4, <2>5, Zenon
<1> QED BY <1>1, <1>2, <1>3, <1>4, Zenon DEF Agree

\* Sessions that are disconnected leave the index and their link; the link
\* closed, or its receiver took their only id out before (close_logical).
LEMMA DisconnectAgrees ==
  ASSUME IInv, Agree, NEW c \in Conn, NEW L \in SUBSET LogicalId, Disconnect(c, L),
         ids' \in [Conn -> SUBSET LogicalId],
         \A d \in Conn \ {c} : conn'[d] = conn[d] /\ ids'[d] = ids[d] /\ frame'[d] = frame[d],
         conn'[c] = "open" =>
           /\ conn[c] = "open" /\ ids'[c] = ids[c] \ L
           /\ frame[c].pc = "unroute" => frame[c].lid \in L
  PROVE  Agree'
<1> USE DEF IInv, Types, LogicalWithout
<1> DEFINE D == Lost(c, L)
<1>0. /\ D \in SUBSET Session
      /\ \A s \in D : link[s] = c /\ life'[s] \in {"none", "authenticated"}
      /\ \A s \in Session : s \in D <=> link[s] = c /\ \E l \in L : logical[l] = s
      /\ link' = [s \in Session |-> IF s \in D THEN None ELSE link[s]]
      /\ lid' = [s \in Session |-> IF s \in D THEN None ELSE lid[s]]
      /\ logical' = [l \in LogicalId |-> IF logical[l] \in D THEN None ELSE logical[l]]
      /\ \A s \in Session \ D : life'[s] = life[s]
  BY Zenon DEF Disconnect, Lost, Authenticated
<1> HIDE DEF D
<1>1. IdTypes'
  BY <1>0, Zenon DEF Agree, IdTypes
<1>2. ASSUME NEW l \in LogicalId PROVE IndexHas(l)'
  <2>1. IndexHas(l)
    BY Zenon DEF Agree
  <2> QED BY <1>0, <2>1 DEF IndexHas
<1>3. ASSUME NEW d \in Conn, NEW l \in LogicalId PROVE OwnIds(d, l)'
  <2> SUFFICES ASSUME conn'[d] = "open", l \in ids'[d]
               PROVE  logical'[l] # None /\ link'[logical'[l]] = d
    BY Zenon DEF OwnIds
  <2>1. conn[d] = "open" /\ l \in ids[d] /\ (d = c => l \notin L)
    BY Zenon
  <2>2. logical[l] # None /\ link[logical[l]] = d /\ lid[logical[l]] = l
    BY <2>1 DEF Agree, OwnIds, IndexHas
  <2>3. logical[l] \in Session /\ logical[l] \notin D
    <3>1. ASSUME NEW k \in L, d = c PROVE logical[k] # logical[l]
      BY <2>1, <2>2, <3>1 DEF Agree, IndexHas
    <3> QED BY <1>0, <2>2, <3>1
  <2> QED BY <1>0, <2>2, <2>3, Zenon
<1>4. ASSUME NEW s \in Session PROVE FoundByIds(s)'
  <2> SUFFICES ASSUME link'[s] # None, conn'[link'[s]] = "open"
               PROVE  /\ logical'[lid'[s]] = s
                      /\ \/ lid'[s] \in ids'[link'[s]]
                         \/ frame'[link'[s]].pc = "unroute" /\ frame'[link'[s]].lid = lid'[s]
    BY Zenon DEF FoundByIds
  <2> DEFINE d == link[s]  l == lid[s]
  <2>1. s \notin D /\ link'[s] = d /\ lid'[s] = l /\ d \in Conn /\ l \in LogicalId
    BY <1>0 DEF Agree, IdTypes
  <2>2. conn[d] = "open" /\ logical[l] = s
    BY <2>1 DEF Agree, FoundByIds
  <2>3. l \in ids[d] \/ (frame[d].pc = "unroute" /\ frame[d].lid = l)
    BY <2>1, <2>2, Zenon DEF Agree, FoundByIds
  <2>4. d = c => l \notin L
    BY <1>0, <2>1, <2>2, Zenon
  <2> QED BY <1>0, <2>1, <2>2, <2>3, <2>4
<1> QED BY <1>1, <1>2, <1>3, <1>4, Zenon DEF Agree

\* A step that leaves the index, the links of sessions and their ids alone, and
\* the ids of every link that stays open.
LEMMA SameIndexAgrees ==
  ASSUME IInv, Agree, UNCHANGED <<logical, link, lid>>,
         ids' \in [Conn -> SUBSET LogicalId],
         \A s \in Session : life[s] # "none" => life'[s] # "none",
         \A c \in Conn : conn'[c] = "open" =>
           /\ conn[c] = "open" /\ ids'[c] = ids[c]
           /\ frame[c].pc = "unroute" => frame'[c] = frame[c]
  PROVE  Agree'
<1> USE DEF IInv, Types
<1>1. IdTypes'
  BY Zenon DEF Agree, IdTypes
<1>2. ASSUME NEW l \in LogicalId PROVE IndexHas(l)'
  BY DEF Agree, IndexHas
<1>3. ASSUME NEW c \in Conn, NEW l \in LogicalId PROVE OwnIds(c, l)'
  BY Zenon DEF Agree, OwnIds
<1>4. ASSUME NEW s \in Session PROVE FoundByIds(s)'
  BY DEF Agree, FoundByIds
<1> QED BY <1>1, <1>2, <1>3, <1>4, Zenon DEF Agree

\* A new link has no ids, and no session refers to it yet.
LEMMA EstablishedAgrees ==
  ASSUME IInv, Agree, NEW c \in Conn, Established(c) PROVE Agree'
<1> USE DEF IInv, Types, Established, registry
<1>1. IdTypes'
  BY Zenon DEF Agree, IdTypes
<1>2. ASSUME NEW l \in LogicalId PROVE IndexHas(l)'
  BY Zenon DEF Agree, IndexHas
<1>3. ASSUME NEW d \in Conn, NEW l \in LogicalId PROVE OwnIds(d, l)'
  BY Zenon DEF Agree, OwnIds, IdTypes
<1>4. ASSUME NEW s \in Session PROVE FoundByIds(s)'
  BY DEF Agree, FoundByIds, IdTypes
<1> QED BY <1>1, <1>2, <1>3, <1>4, Zenon DEF Agree

\* The receiver that takes an id out of its link is about to disconnect it.
LEMMA ReceiveCloseAgrees ==
  ASSUME IInv, Agree, NEW c \in Conn, NEW l \in LogicalId, ReceiveClose(c, l) PROVE Agree'
<1> USE DEF IInv, Types, ReceiveClose, registry, Rest
<1>1. IdTypes'
  BY Zenon DEF Agree, IdTypes
<1>2. ASSUME NEW k \in LogicalId PROVE IndexHas(k)'
  BY Zenon DEF Agree, IndexHas
<1>3. ASSUME NEW d \in Conn, NEW k \in LogicalId PROVE OwnIds(d, k)'
  BY Zenon DEF Agree, OwnIds, IdTypes
<1>4. ASSUME NEW s \in Session PROVE FoundByIds(s)'
  BY DEF Agree, FoundByIds, IdTypes
<1> QED BY <1>1, <1>2, <1>3, <1>4, Zenon DEF Agree

\* A frame that finds a session takes it to its link, from this link or from
\* one that is not open.
LEMMA RouteFoundAgrees ==
  ASSUME IInv, Agree, NEW c \in Conn, RouteFound(c) PROVE Agree'
<1> USE DEF IInv, Types
<1> DEFINE l == frame[c].lid  s == logical[l]
<1>1. /\ l \in LogicalId /\ s \in Session /\ frame[c].pc = "route"
      /\ link[s] = c \/ conn[link[s]] # "open"
      /\ link' = [link EXCEPT ![s] = c] /\ ids' = [ids EXCEPT ![c] = @ \cup {l}]
      /\ UNCHANGED <<conn, logical, life, lid>>
  BY Zenon DEF RouteFound, FramesFilled, Found, Creating, Taken, Indexed
<1>2. lid[s] = l /\ link[s] \in Conn
  BY <1>1 DEF Agree, IndexHas
<1>f. \A d \in Conn : frame[d].pc = "unroute" => frame'[d] = frame[d]
  BY <1>1, Zenon DEF RouteFound
<1> HIDE DEF l, s
<1>3. IdTypes'
  BY <1>1, <1>2, Zenon DEF Agree, IdTypes
<1>4. ASSUME NEW k \in LogicalId PROVE IndexHas(k)'
  BY <1>1 DEF Agree, IndexHas
<1>5. ASSUME NEW d \in Conn, NEW k \in LogicalId PROVE OwnIds(d, k)'
  <2>1. CASE k = l
    BY <1>1, <1>2, <2>1 DEF Agree, OwnIds, IdTypes, s
  <2>2. CASE k # l
    <3>1. logical[k] # None => logical[k] # s
      BY <1>2, <2>2, Zenon DEF Agree, IndexHas
    <3> QED BY <1>1, <2>2, <3>1 DEF Agree, OwnIds, IdTypes
  <2> QED BY <2>1, <2>2, Zenon
<1>6. ASSUME NEW r \in Session PROVE FoundByIds(r)'
  <2>1. CASE r = s
    BY <1>1, <1>2, <2>1 DEF FoundByIds, Agree, IdTypes, s
  <2>2. CASE r # s
    <3>1. FoundByIds(r) /\ link'[r] = link[r]
      BY <1>1, <2>2, Zenon DEF Agree
    <3> QED BY <1>1, <1>f, <3>1 DEF Agree, FoundByIds, IdTypes
  <2> QED BY <2>1, <2>2, Zenon
<1> QED BY <1>3, <1>4, <1>5, <1>6, Zenon DEF Agree

\* A frame whose id leads nowhere, or to a session that has expired and is
\* swept, gets a new session under that id.
LEMMA RouteNewAgrees ==
  ASSUME IInv, Agree, NEW c \in Conn, NEW s \in Session, RouteNew(c, s) PROVE Agree'
<1> USE DEF IInv, Types
<1> DEFINE l == frame[c].lid  S == Swept(c)
<1>1. /\ l \in LogicalId /\ frame[c].pc = "route" /\ life[s] = "none"
      /\ S \in SUBSET Session /\ s \notin S
      /\ logical[l] # None => logical[l] \in S
  BY Zenon DEF RouteNew, FramesFilled, Found, Creating, Swept, Expired
<1>2. /\ link' = [r \in Session |-> IF r = s THEN c ELSE IF r \in S THEN None ELSE link[r]]
      /\ lid' = [r \in Session |-> IF r = s THEN l ELSE IF r \in S THEN None ELSE lid[r]]
      /\ life' = [r \in Session |-> IF r = s THEN "provisional"
                                    ELSE IF r \in S THEN "none" ELSE life[r]]
      /\ UNCHANGED conn
  BY Zenon DEF RouteNew
<1>3. logical' = [k \in LogicalId |-> IF k = l THEN s
                                      ELSE IF logical[k] \in S THEN None ELSE logical[k]]
  BY <1>1, Zenon DEF RouteNew, LogicalWithout
<1>4. \A d \in Conn : ids'[d] = (ids[d] \ {lid[r] : r \in {q \in S : link[q] = d}})
                                \cup (IF d = c THEN {l} ELSE {})
  BY DEF RouteNew, IdsWithout
<1>5. ids' \in [Conn -> SUBSET LogicalId]
  BY <1>1 DEF RouteNew, IdsWithout, Agree, IdTypes
<1>f. \A d \in Conn : frame[d].pc = "unroute" => frame'[d] = frame[d]
  BY <1>1, Zenon DEF RouteNew
<1>s. \A k \in LogicalId : logical[k] # s
  BY <1>1 DEF Agree, IndexHas
<1> HIDE DEF l, S
<1>6. IdTypes'
  BY <1>1, <1>2, <1>5, Zenon DEF Agree, IdTypes
<1>7. ASSUME NEW k \in LogicalId PROVE IndexHas(k)'
  <2>1. IndexHas(k) /\ logical[k] # s
    BY <1>s, Zenon DEF Agree
  <2> QED BY <1>1, <1>2, <1>3, <2>1, Zenon DEF IndexHas
<1>8. ASSUME NEW d \in Conn, NEW k \in LogicalId PROVE OwnIds(d, k)'
  <2> SUFFICES ASSUME conn[d] = "open", k \in ids'[d]
               PROVE  logical'[k] # None /\ link'[logical'[k]] = d
    BY <1>2, Zenon DEF OwnIds
  <2>1. CASE k = l /\ d = c
    BY <1>1, <1>2, <1>3, <2>1, Zenon
  <2>2. CASE k # l \/ d # c
    <3>1. k \in ids[d] /\ \A r \in S : link[r] = d => lid[r] # k
      BY <1>4, <2>2
    <3>2. logical[k] # None /\ link[logical[k]] = d /\ lid[logical[k]] = k
      BY <3>1, Zenon DEF Agree, OwnIds, IndexHas
    <3>3. logical[k] \in Session /\ logical[k] \notin S /\ k # l /\ logical[k] # s
      BY <1>1, <1>s, <3>1, <3>2, Zenon
    <3> QED BY <1>2, <1>3, <3>2, <3>3, Zenon
  <2> QED BY <2>1, <2>2, Zenon
<1>9. ASSUME NEW r \in Session PROVE FoundByIds(r)'
  <2> SUFFICES ASSUME link'[r] # None, conn'[link'[r]] = "open"
               PROVE  /\ logical'[lid'[r]] = r
                      /\ \/ lid'[r] \in ids'[link'[r]]
                         \/ frame'[link'[r]].pc = "unroute" /\ frame'[link'[r]].lid = lid'[r]
    BY Zenon DEF FoundByIds
  <2>1. CASE r = s
    BY <1>1, <1>2, <1>3, <1>4, <2>1, Zenon
  <2>2. CASE r # s
    <3> DEFINE d == link[r]  k == lid[r]
    <3>1. r \notin S /\ link'[r] = d /\ lid'[r] = k /\ d \in Conn /\ k \in LogicalId
      BY <1>2, <2>2, Zenon DEF Agree, IdTypes
    <3>2. conn[d] = "open" /\ logical[k] = r
      BY <1>2, <3>1, Zenon DEF Agree, FoundByIds
    <3>3. k # l /\ logical'[k] = r
      BY <1>1, <1>3, <3>1, <3>2, Zenon
    <3>4. \A q \in S : link[q] = d => lid[q] # k
      BY <1>1, <3>1, <3>2 DEF Agree, FoundByIds
    <3>5. k \in ids[d] => k \in ids'[d]
      BY <1>4, <3>1, <3>4
    <3>6. k \in ids[d] \/ (frame[d].pc = "unroute" /\ frame[d].lid = k)
      BY <3>1, <3>2 DEF Agree, FoundByIds
    <3> QED BY <1>f, <3>1, <3>3, <3>5, <3>6, Zenon
  <2> QED BY <2>1, <2>2, Zenon
<1> QED BY <1>6, <1>7, <1>8, <1>9, Zenon DEF Agree

\* Every step of a link and its receiver keeps the indexes in agreement.
LEMMA LinkAgrees ==
  ASSUME IInv, Agree, NEW c \in Conn,
         \/ Established(c) \/ Close(c) \/ Closed(c) \/ Receiver(c)
         \/ \E l \in LogicalId : Receive(c, l) \/ ReceiveClose(c, l)
  PROVE  Agree'
<1> USE DEF IInv, Types
<1>t. ids \in [Conn -> SUBSET LogicalId]
  BY Zenon DEF Agree, IdTypes
<1>1. CASE Close(c)
  BY <1>1, <1>t, SameIndexAgrees, Zenon DEF Close, registry
<1>2. CASE Closed(c)
  <2>1. ids' \in [Conn -> SUBSET LogicalId] /\ ids[c] \in SUBSET LogicalId
    BY <1>2, <1>t, Zenon DEF Closed
  <2>2. /\ Disconnect(c, ids[c]) /\ conn'[c] # "open"
        /\ \A d \in Conn \ {c} : conn'[d] = conn[d] /\ ids'[d] = ids[d] /\ frame'[d] = frame[d]
    BY <1>2, <1>t, Zenon DEF Closed
  <2> QED BY <2>1, <2>2, DisconnectAgrees
<1>3. CASE Unroute(c)
  <2> DEFINE L == {frame[c].lid}
  <2>1. ids' \in [Conn -> SUBSET LogicalId] /\ L \in SUBSET LogicalId
    BY <1>3, <1>t, Zenon DEF Unroute, FramesFilled
  <2>2. /\ Disconnect(c, L) /\ conn' = conn /\ ids'[c] = ids[c] \ L
        /\ frame[c].lid \in L
        /\ \A d \in Conn \ {c} : ids'[d] = ids[d] /\ frame'[d] = frame[d]
    BY <1>3, <1>t, Zenon DEF Unroute
  <2> HIDE DEF L
  <2> QED BY <2>1, <2>2, DisconnectAgrees, Zenon
<1>4. CASE RouteRefused(c)
  <2> DEFINE S == Swept(c)
  <2>1. S \in SUBSET Session /\ Drop(S)
    BY <1>4, Zenon DEF RouteRefused, Swept, Expired
  <2>2. Full(c) \/ ~Admits(c) \/ S = {}
    BY <1>4, Zenon DEF RouteRefused, Taken, Swept
  <2>3. ids' \in [Conn -> SUBSET LogicalId]
    BY <1>4, <1>t, Zenon DEF RouteRefused, IdsWithout
  <2>4. ASSUME NEW d \in Conn, conn'[d] = "open"
        PROVE  /\ conn[d] = "open" /\ frame'[d] = frame[d]
               /\ ids'[d] = ids[d] \ {lid[s] : s \in {r \in S : link[r] = d}}
    <3>1. d # c /\ conn[d] = "open" /\ frame'[d] = frame[d]
      BY <1>4, <2>4, Zenon DEF RouteRefused
    <3>2. CASE Full(c) \/ ~Admits(c)
      BY <1>4, <3>1, <3>2, Zenon DEF RouteRefused, IdsWithout
    <3>3. CASE ~(Full(c) \/ ~Admits(c))
      <4>1. ids'[d] = ids[d] /\ S = {}
        BY <1>4, <1>t, <2>2, <3>1, <3>3, Zenon DEF RouteRefused
      <4> QED BY <3>1, <4>1
    <3> QED BY <3>2, <3>3, Zenon
  <2> HIDE DEF S
  <2> QED BY <2>1, <2>3, <2>4, DropAgrees, Zenon
<1>5. CASE Duplicate(c) \/ Touch(c) \/ Handle(c) \/ Promote(c) \/ \E l \in LogicalId : Receive(c, l)
  <2>0. Rest.pc = "none"
    BY Zenon DEF Rest
  <2>1. /\ UNCHANGED <<conn, ids, logical, link, lid>>
        /\ frame[c].pc # "unroute" /\ \A d \in Conn \ {c} : frame'[d] = frame[d]
    BY <1>5, <2>0, Zenon DEF Duplicate, Touch, Handle, Promote, Receive, registry
  <2>2. \A s \in Session : life[s] # "none" => life'[s] # "none"
    BY <1>5, Zenon DEF Duplicate, Touch, Handle, Promote, Receive, registry
  <2> QED BY <1>t, <2>1, <2>2, SameIndexAgrees, Zenon
<1> QED BY <1>1, <1>2, <1>3, <1>4, <1>5, EstablishedAgrees, ReceiveCloseAgrees,
     RouteFoundAgrees, RouteNewAgrees, Zenon DEF Receiver

\* So does every step of another thread, a crash and a restart.
LEMMA RestAgrees ==
  ASSUME IInv, Agree,
         \/ \E s \in Session : Persist(s) \/ Revoke(s)
         \/ MaintainTouch \/ MaintainExpire \/ Tick
         \/ Shutdown \/ Stop \/ Crash \/ Restart
  PROVE  Agree'
<1> USE DEF IInv, Types
<1>t. ids \in [Conn -> SUBSET LogicalId]
  BY Zenon DEF Agree, IdTypes
<1>1. CASE (\E s \in Session : Persist(s)) \/ MaintainTouch \/ Tick \/ Shutdown
  <2>1. UNCHANGED <<conn, ids, frame, logical, life, link, lid>>
    BY <1>1, Zenon DEF Persist, MaintainTouch, Tick, Shutdown, registry
  <2> QED BY <1>t, <2>1, SameIndexAgrees, Zenon
<1>2. ASSUME NEW s \in Session, Revoke(s) PROVE Agree'
  <2> DEFINE S == {s}
  <2>1. S \in SUBSET Session /\ Drop(S) /\ UNCHANGED <<conn, frame>> /\ ids' = IdsWithout(S)
    BY <1>2, Zenon DEF Revoke
  <2> HIDE DEF S
  <2> QED BY <1>t, <2>1, DropAgrees, Zenon DEF IdsWithout
<1>3. CASE MaintainExpire
  <2> DEFINE S == Expired
  <2>1. S \in SUBSET Session /\ Drop(S) /\ UNCHANGED <<conn, frame>> /\ ids' = IdsWithout(S)
    BY <1>3, Zenon DEF MaintainExpire, Expired
  <2> HIDE DEF S
  <2> QED BY <1>t, <2>1, DropAgrees DEF IdsWithout
<1>4. CASE Stop \/ Crash
  <2> DEFINE S == Session
  <2>1. /\ S \in SUBSET Session /\ Drop(S) /\ \A c \in Conn : conn'[c] # "open"
        /\ ids' \in [Conn -> SUBSET LogicalId]
    BY <1>4, Zenon DEF Stop, Crash, Forget
  <2> HIDE DEF S
  <2> QED BY <2>1, DropAgrees, Zenon
<1>5. CASE Restart
  BY <1>5, <1>t, SameIndexAgrees, Zenon DEF Restart, DownIsEmpty
<1> QED BY <1>1, <1>2, <1>3, <1>4, <1>5, Zenon

\* A server with no links agrees with itself.
LEMMA AgreeStarts == Init => Agree
<1> SUFFICES ASSUME Init PROVE Agree
  OBVIOUS
<1>1. IdTypes
  BY DEF Init, IdTypes
<1> QED BY <1>1 DEF Init, Agree, IndexHas, OwnIds, FoundByIds

\* Every step keeps the indexes in agreement.
LEMMA AgreeKept == IInv /\ Agree /\ [Next]_vars => Agree'
<1> SUFFICES ASSUME IInv, Agree, [Next]_vars PROVE Agree'
  OBVIOUS
<1>1. CASE UNCHANGED vars
  <2>1. /\ UNCHANGED <<conn, ids, frame, logical, life, link, lid>>
        /\ ids \in [Conn -> SUBSET LogicalId]
    BY <1>1, Zenon DEF vars, Agree, IdTypes
  <2> QED BY <2>1, SameIndexAgrees, Zenon
<1>2. CASE Next
  BY <1>2, LinkAgrees, RestAgrees, Zenon DEF Next
<1> QED BY <1>1, <1>2

\* Whatever links close, frames arrive late, sessions expire or are revoked:
\* the index of logical connections, the ids of every open link and the links
\* of the sessions agree, so that _disconnect_logical_session, which works
\* from the ids, finds every session of the link that closes.
THEOREM IndexesStayTrue == Spec => []IndexesAgree
<1>1. Agree => IndexesAgree
  BY Zenon DEF Agree, IndexesAgree, IndexHas, OwnIds, FoundByIds
<1> QED BY <1>1, AgreeStarts, AgreeKept, InitIInv, NextStep, PTL DEF Spec

-----------------------------------------------------------------------------
(* Limits *)

\* WithinLimits, of sets that are finite
Limits ==
  /\ IsFiniteSet(Provisional) /\ Cardinality(Provisional) <= MaxProvisional
  /\ \A c \in Conn : IsFiniteSet(ids[c]) /\ Cardinality(ids[c]) <= MaxPerLink

\* Where nothing is added, nothing can exceed a limit.
LEMMA FewerWithin ==
  ASSUME Limits, Provisional' \subseteq Provisional, \A c \in Conn : ids'[c] \subseteq ids[c]
  PROVE  Limits'
<1>1. IsFiniteSet(Provisional') /\ Cardinality(Provisional') <= MaxProvisional
  <2>1. /\ IsFiniteSet(Provisional') /\ Cardinality(Provisional') <= Cardinality(Provisional)
        /\ Cardinality(Provisional') \in Nat /\ Cardinality(Provisional) \in Nat
    BY FS_Subset, FS_CardinalityType, Zenon DEF Limits
  <2> QED BY <2>1 DEF Limits
<1>2. ASSUME NEW c \in Conn PROVE IsFiniteSet(ids'[c]) /\ Cardinality(ids'[c]) <= MaxPerLink
  <2>1. /\ IsFiniteSet(ids'[c]) /\ Cardinality(ids'[c]) <= Cardinality(ids[c])
        /\ Cardinality(ids'[c]) \in Nat /\ Cardinality(ids[c]) \in Nat
    BY FS_Subset, FS_CardinalityType, Zenon DEF Limits
  <2> QED BY <2>1 DEF Limits
<1> QED BY <1>1, <1>2, Zenon DEF Limits

\* _admit_logical_id: the id is there already, or there is a place for it.
LEMMA AdmittedWithin ==
  ASSUME Limits, Agree, NEW c \in Conn, Admits(c),
         ids'[c] = Kept(c) \cup {frame[c].lid}
  PROVE  IsFiniteSet(ids'[c]) /\ Cardinality(ids'[c]) <= MaxPerLink
<1>1. Kept(c) \subseteq ids[c]
  BY Zenon DEF Kept, IdsWithout
<1>2. /\ IsFiniteSet(Kept(c)) /\ Cardinality(Kept(c)) \in Nat
      /\ Cardinality(Kept(c)) <= MaxPerLink
  <2>1. /\ IsFiniteSet(Kept(c)) /\ Cardinality(Kept(c)) <= Cardinality(ids[c])
        /\ Cardinality(Kept(c)) \in Nat /\ Cardinality(ids[c]) \in Nat
    BY <1>1, FS_Subset, FS_CardinalityType, Zenon DEF Limits
  <2> QED BY <2>1 DEF Limits
<1>3. CASE frame[c].lid \in Kept(c)
  <2>1. ids'[c] = Kept(c)
    BY <1>3
  <2> QED BY <1>2, <2>1, Zenon
<1>4. CASE frame[c].lid \notin Kept(c)
  <2>1. Cardinality(Kept(c)) < MaxPerLink
    BY <1>4 DEF Admits
  <2>2. IsFiniteSet(ids'[c]) /\ Cardinality(ids'[c]) = Cardinality(Kept(c)) + 1
    <3> DEFINE K == Kept(c)
               l == frame[c].lid
    <3>1. IsFiniteSet(K) /\ l \notin K /\ ids'[c] = K \cup {l}
      BY <1>2, <1>4
    <3> HIDE DEF K, l
    <3>2. IsFiniteSet(K \cup {l}) /\ Cardinality(K \cup {l}) = Cardinality(K) + 1
      BY <3>1, FS_AddElement
    <3> QED BY <3>1, <3>2, Zenon DEF K
  <2> QED BY <1>2, <2>1, <2>2
<1> QED BY <1>3, <1>4, Zenon

\* A provisional session is created only below the limit, counted after the
\* expired ones were swept.
LEMMA RouteNewWithin ==
  ASSUME IInv, Agree, Limits, NEW c \in Conn, NEW s \in Session, RouteNew(c, s)
  PROVE  Limits'
<1> USE DEF IInv, Types
<1>1. IsFiniteSet(Provisional') /\ Cardinality(Provisional') <= MaxProvisional
  <2> DEFINE P == Provisional \ Swept(c)
  <2>1. Provisional' = P \cup {s} /\ s \notin P
    BY DEF RouteNew, Provisional
  <2>2. P \subseteq Provisional /\ Cardinality(P) < MaxProvisional
    <3>1. ~(Cardinality(P) >= MaxProvisional)
      BY Zenon DEF RouteNew, Full
    <3>2. IsFiniteSet(P)
      BY FS_Subset, Zenon DEF Limits
    <3> QED BY <3>1, <3>2, FS_CardinalityType
  <2> HIDE DEF P
  <2>3. IsFiniteSet(P) /\ Cardinality(P) \in Nat
    BY <2>2, FS_Subset, FS_CardinalityType, Zenon DEF Limits
  <2>4. IsFiniteSet(Provisional') /\ Cardinality(Provisional') = Cardinality(P) + 1
    BY <2>1, <2>3, FS_AddElement, Zenon
  <2> QED BY <2>2, <2>3, <2>4
<1>2. ASSUME NEW d \in Conn PROVE IsFiniteSet(ids'[d]) /\ Cardinality(ids'[d]) <= MaxPerLink
  <2>1. CASE d = c
    <3>1. Admits(c) /\ ids'[c] = Kept(c) \cup {frame[c].lid}
      BY DEF RouteNew, Kept, IdsWithout
    <3> QED BY <2>1, <3>1, AdmittedWithin, Zenon
  <2>2. CASE d # c
    <3>1. ids'[d] \subseteq ids[d]
      BY <2>2 DEF RouteNew, IdsWithout
    <3>2. /\ IsFiniteSet(ids'[d]) /\ Cardinality(ids'[d]) <= Cardinality(ids[d])
          /\ Cardinality(ids'[d]) \in Nat /\ Cardinality(ids[d]) \in Nat
      BY <3>1, FS_Subset, FS_CardinalityType, Zenon DEF Limits
    <3> QED BY <3>2 DEF Limits
  <2> QED BY <2>1, <2>2, Zenon
<1> QED BY <1>1, <1>2 DEF Limits

\* A session that comes over from another link is counted on its new one.
LEMMA RouteFoundWithin ==
  ASSUME IInv, Agree, Limits, NEW c \in Conn, RouteFound(c)
  PROVE  Limits'
<1>1. ids[c] = Kept(c) /\ Admits(c)
  BY DEF RouteFound, Kept, IdsWithout, Swept
<1>2. ids' = [ids EXCEPT ![c] = ids[c] \cup {frame[c].lid}] /\ Provisional' = Provisional
  BY Zenon DEF RouteFound, Provisional
<1>3. IsFiniteSet(ids'[c]) /\ Cardinality(ids'[c]) <= MaxPerLink
  BY <1>1, <1>2, AdmittedWithin, Zenon DEF Agree, IdTypes
<1> QED BY <1>2, <1>3 DEF Limits, Agree, IdTypes

\* Every other step leaves both counts or lowers them.
LEMMA OthersWithin ==
  ASSUME IInv, Agree, [Next]_vars
  PROVE  \/ \E c \in Conn : RouteFound(c) \/ \E s \in Session : RouteNew(c, s)
         \/ Provisional' \subseteq Provisional /\ \A c \in Conn : ids'[c] \subseteq ids[c]
<1> DEFINE Fewer == Provisional' \subseteq Provisional /\ \A c \in Conn : ids'[c] \subseteq ids[c]
<1>t. ids \in [Conn -> SUBSET LogicalId] /\ life \in [Session -> {"none", "provisional", "authenticated"}]
  BY Zenon DEF Agree, IdTypes, IInv, Types
<1>1. ASSUME NEW c \in Conn, Closed(c) \/ Unroute(c) PROVE Fewer
  <2>1. \E L : Disconnect(c, L)
    BY <1>1, Zenon DEF Closed, Unroute
  <2>2. \A s \in Session : life'[s] \in {"none", life[s]}
    BY <2>1, Zenon DEF Disconnect
  <2>3. ids' = [ids EXCEPT ![c] = {}] \/ \E l : ids' = [ids EXCEPT ![c] = ids[c] \ {l}]
    BY <1>1, Zenon DEF Closed, Unroute
  <2> QED BY <2>2, <2>3, <1>t DEF Provisional
<1>2. ASSUME NEW c \in Conn, RouteRefused(c) PROVE Fewer
  BY <1>2, <1>t, Zenon DEF RouteRefused, Drop, IdsWithout, Provisional
<1>3. ASSUME NEW c \in Conn, Promote(c) PROVE Fewer
  BY <1>3, <1>t, Zenon DEF Promote, Provisional
<1>4. ASSUME NEW c \in Conn, Established(c) \/ \E l \in LogicalId : ReceiveClose(c, l)
      PROVE  Fewer
  <2>1. life' = life /\ \E S : ids' = [ids EXCEPT ![c] = ids[c] \ S]
    <3>1. CASE Established(c)
      <4>1. ids' = [ids EXCEPT ![c] = ids[c] \ ids[c]]
        BY <3>1, Zenon DEF Established
      <4> QED BY <3>1, <4>1, Zenon DEF Established, registry
    <3>2. CASE \E l \in LogicalId : ReceiveClose(c, l)
      BY <3>2, Zenon DEF ReceiveClose, registry
    <3> QED BY <1>4, <3>1, <3>2, Zenon
  <2> QED BY <2>1, <1>t, Zenon DEF Provisional
<1>5. ASSUME \/ \E c \in Conn : Close(c) \/ Duplicate(c) \/ Touch(c) \/ Handle(c)
             \/ \E c \in Conn, l \in LogicalId : Receive(c, l)
             \/ \E s \in Session : Persist(s)
             \/ MaintainTouch \/ Tick \/ Shutdown \/ UNCHANGED vars
      PROVE  Fewer
  <2>1. UNCHANGED <<life, ids>>
    BY <1>5, Zenon DEF Close, Duplicate, Touch, Handle, Receive, Persist, MaintainTouch, Tick,
      Shutdown, registry, vars
  <2> QED BY <2>1 DEF Provisional
<1>6. ASSUME MaintainExpire \/ \E s \in Session : Revoke(s) PROVE Fewer
  <2>1. PICK S : Drop(S) /\ ids' = IdsWithout(S)
    BY <1>6, Zenon DEF MaintainExpire, Revoke
  <2> QED BY <2>1, <1>t, Zenon DEF Drop, IdsWithout, Provisional
<1>7. ASSUME Stop \/ Crash PROVE Fewer
  BY <1>7, <1>t DEF Stop, Crash, Forget, Drop, Provisional
<1>8. ASSUME Restart PROVE Fewer
  BY <1>8, <1>t DEF Restart, Provisional
<1> HIDE DEF Fewer
<1>9. (\E c \in Conn : RouteFound(c) \/ \E s \in Session : RouteNew(c, s)) \/ Fewer
  BY <1>1, <1>2, <1>3, <1>4, <1>5, <1>6, <1>7, <1>8, ZenonT(30) DEF Next, Receiver
<1> QED BY <1>9, Zenon DEF Fewer

\* However sessions expire, reconnect and close between the check of a limit
\* and the creation it allows, no more provisional sessions exist and no more
\* logical connections share a link than configured (_admit_logical_id,
\* SessionManager.create).
THEOREM LimitsHold == Spec => []WithinLimits
<1>1. ASSUME Init PROVE Limits
  <2>1. Provisional = {} /\ \A c \in Conn : ids[c] = {}
    BY <1>1, Zenon DEF Init, Provisional
  <2> QED BY <2>1, FS_EmptySet DEF Limits
<1>2. IInv /\ Agree /\ Limits /\ [Next]_vars => Limits'
  BY OthersWithin, FewerWithin, RouteNewWithin, RouteFoundWithin, Zenon
<1>3. Limits => WithinLimits
  BY DEF Limits, WithinLimits
<1> QED BY <1>1, <1>2, <1>3, AgreeStarts, AgreeKept, InitIInv, NextStep, PTL DEF Spec

=============================================================================
