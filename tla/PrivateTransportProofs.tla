----------------------- MODULE PrivateTransportProofs -----------------------
(***************************************************************************)
(* For any number of sessions, connections and tokens and any limits: no   *)
(* session is left with a connection nobody will take away, and no token   *)
(* serves two requests.                                                    *)
(*                                                                         *)
(* The detach of a connection follows its attach on the socket, and only   *)
(* one of each is sent.  So an attach request that is still to be read, or *)
(* that a pool thread may still carry out, has its detach behind it, or    *)
(* the connection is open, or the detach could not be written; a detach    *)
(* that is read first marks the request.                                   *)
(***************************************************************************)
EXTENDS PrivateTransport, FiniteSetTheorems, TLAPS

Msg(o, c) == [op |-> o, conn |-> c]
Msgs == [op : {"attach", "detach"}, conn : Conn]

Queued(o, c) == \E i \in DOMAIN toPython : toPython[i] = Msg(o, c)

Types ==
  /\ toPython \in Seq(Msgs)
  /\ grants \in [Token -> Session \cup {None}]
  /\ private_transport \in [Session -> Conn \cup {None}]
  /\ conn \in [Conn -> {"new", "asking", "attached", "closed"}]
  /\ cred \in [Conn -> Token \cup {None}]
  /\ attaching \in [Conn -> {None, "pending", "set"}]
  /\ connections \in [Conn -> Session \cup {None}]
  /\ worker \in [Conn -> {None, "queued", "recheck"}]
  /\ uses \in [Token -> SUBSET Conn]

\* the requests of a connection: no detach before its end, none before its attach
InOrder ==
  \A c \in Conn :
    /\ conn[c] # "closed" => ~Queued("detach", c)
    /\ \A i, j \in DOMAIN toPython :
         toPython[i] = Msg("attach", c) /\ toPython[j] = Msg("detach", c) => i < j

\* the detach of a request that may still attach is still to be read
DetachFollows ==
  \A c \in Conn : Queued("attach", c) \/ attaching[c] = "pending" => DetachDue(c)

TransportInv == Types /\ InOrder /\ DetachFollows /\ AttachmentTracked

\* a token that a request used up is spent, and was handed out
Spent ==
  /\ \A c \in Conn : Queued("attach", c) \/ worker[c] = "queued" => cred[c] \in Token
  /\ \A t \in Token : grants[t] # None \/ t \notin issued => uses[t] = {}
  /\ \A t \in Token : uses[t] = {} \/ \E c \in Conn : uses[t] = {c}
  /\ \A t \in Token : grants[t] # None => t \in issued

-----------------------------------------------------------------------------


\* Requests with different operations or connections are different.
LEMMA MsgInjective ==
  /\ \A c \in Conn : Msg("attach", c) \in Msgs /\ Msg("detach", c) \in Msgs
  /\ \A c, d : Msg("attach", c) # Msg("detach", d)
  /\ \A o, c, d : Msg(o, c) = Msg(o, d) => c = d
<1>1. \A c \in Conn : Msg("attach", c) \in Msgs /\ Msg("detach", c) \in Msgs
  BY DEF Msg, Msgs
<1>2. \A o, c : Msg(o, c).op = o /\ Msg(o, c).conn = c
  BY DEF Msg
<1>3. \A c, d : Msg("attach", c) # Msg("detach", d)
  BY <1>2
<1>4. \A o, c, d : Msg(o, c) = Msg(o, d) => c = d
  BY <1>2
<1> QED BY <1>1, <1>3, <1>4

\* control.send puts a request at the end of the socket.
LEMMA Sending ==
  ASSUME toPython \in Seq(Msgs), NEW m \in Msgs, toPython' = Append(toPython, m)
  PROVE  /\ toPython' \in Seq(Msgs)
         /\ DOMAIN toPython' = DOMAIN toPython \cup {Len(toPython) + 1}
         /\ \A i \in DOMAIN toPython : toPython'[i] = toPython[i] /\ i < Len(toPython) + 1
         /\ toPython'[Len(toPython) + 1] = m
  OBVIOUS

\* The reader takes the first request; the others keep their order.
LEMMA Reading ==
  ASSUME toPython \in Seq(Msgs), toPython # <<>>, toPython' = Tail(toPython)
  PROVE  /\ toPython' \in Seq(Msgs) /\ 1 \in DOMAIN toPython /\ toPython[1] = Head(toPython)
         /\ \A i \in DOMAIN toPython' : /\ i + 1 \in DOMAIN toPython /\ i \in Nat
                                        /\ 1 < i + 1 /\ toPython'[i] = toPython[i + 1]
         /\ \A i \in DOMAIN toPython : i = 1 \/ (i - 1 \in DOMAIN toPython'
                                                 /\ toPython'[i - 1] = toPython[i])
  OBVIOUS

\* A step that leaves the socket and the connections of the child alone.
LEMMA SocketSame ==
  ASSUME TransportInv, Types', UNCHANGED toPython, lost \subseteq lost',
         \A c \in Conn : conn'[c] = "closed" <=> conn[c] = "closed",
         \A c \in Conn : attaching'[c] = "pending" => attaching[c] = "pending",
         \A s \in Session, c \in Conn : private_transport'[s] = c =>
           connections'[c] = s /\ DetachDue(c)
  PROVE  TransportInv'
<1> USE DEF TransportInv
<1>1. \A c : DetachDue(c) <=> (conn[c] # "closed" \/ Queued("detach", c) \/ DetachLost(c))
  BY Zenon DEF DetachDue, Queued, Msg
<1>2. \A c : /\ DetachDue(c)' <=> (conn'[c] # "closed" \/ Queued("detach", c)' \/ DetachLost(c)')
             /\ DetachLost(c) => DetachLost(c)'
  BY Zenon DEF DetachDue, DetachLost, Queued, Msg
<1>3. \A o, c : Queued(o, c)' <=> Queued(o, c)
  BY DEF Queued
<1>4. InOrder'
  BY <1>3 DEF InOrder
<1>5. DetachFollows'
  BY <1>1, <1>2, <1>3 DEF DetachFollows
<1>6. AttachmentTracked'
  <2>1. \A c \in Conn : DetachDue(c) => DetachDue(c)'
    BY <1>1, <1>2, <1>3, Zenon
  <2> QED BY <2>1, Zenon DEF AttachmentTracked
<1> QED BY <1>4, <1>5, <1>6

\* A connection ends and its detach cannot be written.
LEMMA LostStep ==
  ASSUME TransportInv, NEW c \in Conn, conn' = [conn EXCEPT ![c] = "closed"],
         lost' = lost \cup {Msg("detach", c)},
         UNCHANGED <<python, bridge, cred, uses, toPython>>
  PROVE  TransportInv'
<1> USE DEF TransportInv
<1>1. Types'
  BY SMTT(30) DEF Types, python, bridge
<1>2. \A o, d : Queued(o, d)' <=> Queued(o, d)
  BY Zenon DEF Queued
<1>3. \A d \in Conn : conn'[d] = IF d = c THEN "closed" ELSE conn[d]
  BY Zenon DEF Types
<1>4. \A d \in Conn : DetachDue(d) => DetachDue(d)'
  <2>1. \A d \in Conn : DetachLost(d)' <=> (Msg("detach", d) \in lost')
    BY Zenon DEF DetachLost, Msg
  <2>2. \A d \in Conn : DetachLost(d) => DetachLost(d)'
    BY <2>1, Zenon DEF DetachLost, Msg
  <2>3. DetachLost(c)'
    BY <2>1, Zenon
  <2>4. \A d \in Conn :
          /\ DetachDue(d) <=> (conn[d] # "closed" \/ Queued("detach", d) \/ DetachLost(d))
          /\ DetachDue(d)' <=> (conn'[d] # "closed" \/ Queued("detach", d)' \/ DetachLost(d)')
    BY Zenon DEF DetachDue, Queued, Msg
  <2> QED BY <1>2, <1>3, <2>2, <2>3, <2>4, Zenon
<1>5. InOrder'
  BY <1>2, <1>3, Zenon DEF InOrder
<1>6. DetachFollows'
  BY <1>2, <1>4, Zenon DEF DetachFollows, bridge
<1>7. AttachmentTracked'
  BY <1>4, Zenon DEF AttachmentTracked, python, bridge
<1> QED BY <1>1, <1>5, <1>6, <1>7, Zenon

\* A connection ends and sends its detach.
LEMMA DetachStep ==
  ASSUME TransportInv, NEW c \in Conn, conn[c] # "closed",
         conn' = [conn EXCEPT ![c] = "closed"],
         toPython' = Append(toPython, Msg("detach", c)),
         UNCHANGED <<python, bridge, cred, uses, lost>>
  PROVE  TransportInv'
<1> USE DEF TransportInv
<1>1. Msg("detach", c) \in Msgs /\ toPython' = Append(toPython, Msg("detach", c))
  BY MsgInjective, Zenon
<1>2. /\ toPython' \in Seq(Msgs) /\ DOMAIN toPython' = DOMAIN toPython \cup {Len(toPython) + 1}
      /\ \A i \in DOMAIN toPython : toPython'[i] = toPython[i] /\ i < Len(toPython) + 1
      /\ toPython'[Len(toPython) + 1] = Msg("detach", c)
  BY <1>1, Sending DEF Types
<1>3. Types'
  BY <1>2 DEF Types, python, bridge
<1>4. \A d \in Conn : /\ Queued("attach", d)' <=> Queued("attach", d)
                      /\ Queued("detach", d)' <=> (d = c \/ Queued("detach", d))
  BY <1>2, MsgInjective DEF Queued
<1>5. \A d \in Conn : d # c => conn'[d] = conn[d]
  BY DEF Types
<1>6. conn'[c] = "closed"
  BY DEF Types
<1>7. \A d \in Conn : DetachDue(d)' <=> (d = c \/ DetachDue(d))
  <2>1. \A d : /\ DetachDue(d) <=> (conn[d] # "closed" \/ Queued("detach", d) \/ DetachLost(d))
               /\ DetachDue(d)' <=> (conn'[d] # "closed" \/ Queued("detach", d)' \/ DetachLost(d)')
    BY Zenon DEF DetachDue, Queued, Msg
  <2>2. \A d : DetachLost(d)' <=> DetachLost(d)
    BY Zenon DEF DetachLost
  <2> QED BY <1>4, <1>5, <1>6, <2>1, <2>2
<1>8. InOrder'
  <2> SUFFICES ASSUME NEW d \in Conn
               PROVE  /\ conn'[d] # "closed" => ~Queued("detach", d)'
                      /\ \A i, j \in DOMAIN toPython' :
                           toPython'[i] = Msg("attach", d) /\ toPython'[j] = Msg("detach", d) => i < j
    BY DEF InOrder
  <2>1. conn'[d] # "closed" => ~Queued("detach", d)'
    BY <1>4, <1>5, <1>6 DEF InOrder
  <2>2. ASSUME NEW i \in DOMAIN toPython', NEW j \in DOMAIN toPython',
               toPython'[i] = Msg("attach", d), toPython'[j] = Msg("detach", d)
        PROVE  i < j
    <3>1. i \in DOMAIN toPython /\ toPython[i] = Msg("attach", d)
      BY <1>2, <2>2, MsgInjective
    <3>2. CASE j = Len(toPython) + 1
      BY <1>2, <3>1, <3>2
    <3>3. CASE j \in DOMAIN toPython
      BY <1>2, <2>2, <3>1, <3>3 DEF InOrder
    <3> QED BY <1>2, <3>2, <3>3
  <2> QED BY <2>1, <2>2
<1>9. DetachFollows'
  BY <1>4, <1>7 DEF DetachFollows, bridge
<1>10. AttachmentTracked'
  BY <1>7 DEF AttachmentTracked, python, bridge
<1> QED BY <1>3, <1>8, <1>9, <1>10

\* The deferred close of serve, whether or not the detach is written.
LEMMA CloseStep ==
  ASSUME TransportInv, NEW c \in Conn, conn[c] # "closed", Closes(c),
         UNCHANGED <<python, bridge, cred, uses>>
  PROVE  TransportInv'
<1>1. conn' = [conn EXCEPT ![c] = "closed"]
  BY Zenon DEF Closes
<1>2. CASE toPython' = Append(toPython, Msg("detach", c)) /\ UNCHANGED lost
  BY <1>1, <1>2, DetachStep, Zenon
<1>3. CASE lost' = lost \cup {Msg("detach", c)} /\ UNCHANGED toPython
  BY <1>1, <1>3, LostStep, Zenon
<1> QED BY <1>2, <1>3, Zenon DEF Closes, Msg

\* The invariant holds before anything was bootstrapped.
LEMMA InitTransport == Init => TransportInv /\ Spent
<1> SUFFICES ASSUME Init PROVE TransportInv /\ Spent
  OBVIOUS
<1>1. DOMAIN toPython = {} /\ toPython \in Seq(Msgs)
  BY DEF Init
<1>2. \A o, c : ~Queued(o, c)
  BY <1>1 DEF Queued
<1>3. Types
  BY <1>1 DEF Init, Types
<1>4. InOrder /\ DetachFollows /\ AttachmentTracked
  BY TransportConstants, <1>1, <1>2 DEF Init, InOrder, DetachFollows, AttachmentTracked, DetachDue, TransportConstants
<1>5. Spent
  BY TransportConstants, <1>2 DEF Init, Spent, TransportConstants
<1> QED BY <1>3, <1>4, <1>5 DEF TransportInv

\* SendAttach: the first request of a connection.
LEMMA SendAttachStep ==
  ASSUME TransportInv, NEW c \in Conn, NEW t \in Token, SendAttach(c, t)
  PROVE  TransportInv'
<1> USE DEF TransportInv
<1>1. Msg("attach", c) \in Msgs /\ toPython' = Append(toPython, Msg("attach", c))
  BY MsgInjective, Zenon DEF SendAttach, Msg
<1>2. /\ toPython' \in Seq(Msgs) /\ DOMAIN toPython' = DOMAIN toPython \cup {Len(toPython) + 1}
      /\ \A i \in DOMAIN toPython : toPython'[i] = toPython[i] /\ i < Len(toPython) + 1
      /\ toPython'[Len(toPython) + 1] = Msg("attach", c)
  BY <1>1, Sending DEF Types
<1>3. Types'
  BY <1>2 DEF Types, SendAttach, python, bridge
<1>4. \A d \in Conn : /\ Queued("attach", d)' <=> (d = c \/ Queued("attach", d))
                      /\ Queued("detach", d)' <=> Queued("detach", d)
  BY <1>2, MsgInjective DEF Queued
<1>5. /\ \A d \in Conn : conn'[d] = "closed" <=> conn[d] = "closed"
      /\ conn[c] # "closed" /\ conn'[c] # "closed"
  BY DEF SendAttach, Types
<1>6. \A d \in Conn : DetachDue(d)' <=> DetachDue(d)
  <2>1. \A d : /\ DetachDue(d) <=> (conn[d] # "closed" \/ Queued("detach", d) \/ DetachLost(d))
               /\ DetachDue(d)' <=> (conn'[d] # "closed" \/ Queued("detach", d)' \/ DetachLost(d)')
    BY Zenon DEF DetachDue, Queued, Msg
  <2>2. \A d : DetachLost(d)' <=> DetachLost(d)
    BY Zenon DEF DetachLost, SendAttach
  <2> QED BY <1>4, <1>5, <2>1, <2>2
<1>7. InOrder'
  <2> SUFFICES ASSUME NEW d \in Conn
               PROVE  /\ conn'[d] # "closed" => ~Queued("detach", d)'
                      /\ \A i, j \in DOMAIN toPython' :
                           toPython'[i] = Msg("attach", d) /\ toPython'[j] = Msg("detach", d) => i < j
    BY DEF InOrder
  <2>1. conn'[d] # "closed" => ~Queued("detach", d)'
    BY <1>4, <1>5 DEF InOrder
  <2>2. ASSUME NEW i \in DOMAIN toPython', NEW j \in DOMAIN toPython',
               toPython'[i] = Msg("attach", d), toPython'[j] = Msg("detach", d)
        PROVE  i < j
    <3>1. j \in DOMAIN toPython /\ toPython[j] = Msg("detach", d)
      BY <1>2, <2>2, MsgInjective
    <3>2. d # c
      BY <1>5, <3>1 DEF InOrder, Queued
    <3>3. i \in DOMAIN toPython /\ toPython[i] = Msg("attach", d)
      BY <1>2, <2>2, <3>2, MsgInjective
    <3> QED BY <3>1, <3>3 DEF InOrder
  <2> QED BY <2>1, <2>2
<1>8. DetachDue(c)
  BY <1>5 DEF DetachDue
<1>9. DetachFollows'
  BY <1>4, <1>6, <1>8, SMTT(30) DEF DetachFollows, SendAttach, bridge
<1>10. AttachmentTracked'
  BY <1>6 DEF AttachmentTracked, SendAttach, python, bridge
<1> QED BY <1>3, <1>7, <1>9, <1>10

\* NativeQuicServer._read: a request leaves the socket.
LEMMA ReadStep ==
  ASSUME TransportInv, NEW c \in Conn, ReadAttach(c) \/ ReadDetach(c)
  PROVE  TransportInv'
<1> USE DEF TransportInv
<1>1. /\ toPython # <<>> /\ toPython' = Tail(toPython) /\ UNCHANGED <<conn, cred, grants, uses, lost>>
      /\ Head(toPython) = Msg("attach", c) \/ Head(toPython) = Msg("detach", c)
  BY DEF ReadAttach, ReadDetach, Incoming, Msg, python
<1>2. /\ toPython' \in Seq(Msgs) /\ 1 \in DOMAIN toPython /\ toPython[1] = Head(toPython)
      /\ \A i \in DOMAIN toPython' : /\ i + 1 \in DOMAIN toPython /\ i \in Nat
                                     /\ 1 < i + 1 /\ toPython'[i] = toPython[i + 1]
      /\ \A i \in DOMAIN toPython : i = 1 \/ (i - 1 \in DOMAIN toPython'
                                              /\ toPython'[i - 1] = toPython[i])
  BY <1>1, Reading DEF Types
<1>3. \A o, d : /\ Queued(o, d)' => Queued(o, d)
                /\ Queued(o, d) => Queued(o, d)' \/ Head(toPython) = Msg(o, d)
  <2> TAKE o, d
  <2>1. Queued(o, d)' => Queued(o, d)
    BY <1>2 DEF Queued
  <2>2. Queued(o, d) => Queued(o, d)' \/ Head(toPython) = Msg(o, d)
    BY <1>2 DEF Queued
  <2> QED BY <2>1, <2>2
<1>4. \A d : /\ DetachDue(d) <=> (conn[d] # "closed" \/ Queued("detach", d) \/ DetachLost(d))
             /\ DetachDue(d)' <=> (conn[d] # "closed" \/ Queued("detach", d)' \/ DetachLost(d))
  BY <1>1, Zenon DEF DetachDue, DetachLost, Queued, Msg
<1>5. \A d \in Conn : DetachDue(d) => DetachDue(d)' \/ Head(toPython) = Msg("detach", d)
  BY <1>3, <1>4
<1>6. InOrder'
  <2> SUFFICES ASSUME NEW d \in Conn
               PROVE  /\ conn'[d] # "closed" => ~Queued("detach", d)'
                      /\ \A i, j \in DOMAIN toPython' :
                           toPython'[i] = Msg("attach", d) /\ toPython'[j] = Msg("detach", d) => i < j
    BY DEF InOrder
  <2>1. conn'[d] # "closed" => ~Queued("detach", d)'
    BY <1>1, <1>3 DEF InOrder
  <2>2. ASSUME NEW i \in DOMAIN toPython', NEW j \in DOMAIN toPython',
               toPython'[i] = Msg("attach", d), toPython'[j] = Msg("detach", d)
        PROVE  i < j
    <3>1. i + 1 \in DOMAIN toPython /\ j + 1 \in DOMAIN toPython /\ i \in Nat /\ j \in Nat
          /\ toPython[i + 1] = Msg("attach", d) /\ toPython[j + 1] = Msg("detach", d)
      BY <1>2, <2>2
    <3>2. i + 1 < j + 1
      BY <3>1 DEF InOrder
    <3> QED BY <3>1, <3>2
  <2> QED BY <2>1, <2>2
<1>7. CASE ReadAttach(c)
  <2>1. Head(toPython) = Msg("attach", c) /\ UNCHANGED <<private_transport, connections>>
    BY <1>7 DEF ReadAttach, Incoming, Msg, python
  <2>2. \A d \in Conn : DetachDue(d) => DetachDue(d)'
    BY <1>5, <2>1, MsgInjective
  <2>3. Queued("attach", c)
    BY <1>2, <2>1 DEF Queued
  <2>4. \A d \in Conn : attaching'[d] = "pending" => d = c \/ attaching[d] = "pending"
    BY <1>7, SMTT(30) DEF ReadAttach, Types
  <2>5. Types'
    <3>1. /\ attaching' = attaching \/ attaching' = [attaching EXCEPT ![c] = "pending"]
          /\ worker' = worker \/ worker' = [worker EXCEPT ![c] = "queued"]
      BY <1>7 DEF ReadAttach
    <3>2. attaching' \in [Conn -> {None, "pending", "set"}]
      BY <3>1 DEF Types
    <3>3. worker' \in [Conn -> {None, "queued", "recheck"}]
      BY <3>1 DEF Types
    <3> QED BY <1>1, <1>2, <2>1, <3>2, <3>3 DEF Types
  <2>6. DetachFollows'
    BY <1>3, <2>2, <2>3, <2>4, SMTT(30) DEF DetachFollows
  <2>7. AttachmentTracked'
    BY <2>1, <2>2, SMTT(30) DEF AttachmentTracked
  <2> QED BY <1>6, <2>5, <2>6, <2>7, SMTT(30)
<1>8. CASE ReadDetach(c)
  <2>1. Head(toPython) = Msg("detach", c)
    BY <1>8 DEF ReadDetach, Incoming, Msg
  <2>2. \A d \in Conn : d # c /\ DetachDue(d) => DetachDue(d)'
    BY <1>5, <2>1, MsgInjective
  <2>3. ~Queued("attach", c)'
    <3> SUFFICES ASSUME NEW i \in DOMAIN toPython', toPython'[i] = Msg("attach", c) PROVE FALSE
      BY DEF Queued
    <3>1. i + 1 \in DOMAIN toPython /\ i \in Nat /\ toPython[i + 1] = Msg("attach", c) /\ 1 < i + 1
      BY <1>2
    <3>2. i + 1 < 1
      BY <1>2, <2>1, <3>1, SMTT(30) DEF InOrder
    <3> QED BY <3>1, <3>2
  <2>4. \A d \in Conn : attaching'[d] = "pending" => d # c /\ attaching[d] = "pending"
    BY TransportConstants, <1>8 DEF ReadDetach, Types, TransportConstants
  <2>5. /\ \A s \in Session : private_transport'[s] # c
        /\ \A s \in Session, d \in Conn : private_transport'[s] = d =>
             private_transport[s] = d /\ connections'[d] = connections[d]
    <3>1. private_transport' = Detached(c) /\ connections' = [connections EXCEPT ![c] = None]
      BY <1>8 DEF ReadDetach
    <3>2. \A s \in Session : private_transport'[s] # c
      BY TransportConstants, <3>1 DEF Detached, AttachmentTracked, TransportConstants
    <3>3. \A s \in Session : private_transport'[s] \in {None, private_transport[s]}
      BY <3>1, Zenon DEF Detached
    <3> QED BY TransportConstants, <3>1, <3>2, <3>3, SMTT(30) DEF Types, TransportConstants
  <2>6. Types'
    BY <1>1, <1>2, <1>8, SMTT(30) DEF Types, ReadDetach, Detached
  <2>7. DetachFollows'
    BY <1>3, <2>2, <2>3, <2>4 DEF DetachFollows
  <2>8. AttachmentTracked'
    BY <2>2, <2>5 DEF AttachmentTracked
  <2> QED BY <1>6, <2>6, <2>7, <2>8
<1> QED BY <1>7, <1>8

\* The connections that used up a token are connections.
LEMMA UsedType ==
  ASSUME uses \in [Token -> SUBSET Conn], NEW c \in Conn
  PROVE  UsedBy(c) \in [Token -> SUBSET Conn]
<1> DEFINE now == IF grants[cred[c]] = None THEN uses[cred[c]] ELSE uses[cred[c]] \cup {c}
<1>1. UsedBy(c) = [uses EXCEPT ![cred[c]] = now]
  BY Zenon DEF UsedBy
<1>2. cred[c] \in Token => now \in SUBSET Conn
  BY SMTT(30)
<1> HIDE DEF now
<1> QED BY <1>1, <1>2, Zenon

\* The pool thread: attach, and what becomes of it.
LEMMA WorkerStep ==
  ASSUME TransportInv, NEW c \in Conn, Worker(c), cred[c] \in Token \/ worker[c] # "queued"
  PROVE  TransportInv'
<1> USE DEF TransportInv
<1>1. CASE DispatchAttach(c)
  <2> DEFINE t == cred[c]
             s == grants[t]
  <2>1. /\ worker[c] = "queued" /\ attaching[c] = "pending" /\ connections[c] = None
        /\ s # None /\ private_transport[s] = None
        /\ grants' = [grants EXCEPT ![t] = None]
        /\ private_transport' = [private_transport EXCEPT ![s] = c]
        /\ connections' = [connections EXCEPT ![c] = s]
        /\ uses' = UsedBy(c)
        /\ worker' = [worker EXCEPT ![c] = "recheck"]
        /\ UNCHANGED <<attaching, conn, cred, toPython, lost>>
    BY <1>1, SMTT(30) DEF DispatchAttach, Available, Attachable, Consume
  <2>2. t \in Token /\ s \in Session
    BY <2>1, SMTT(30) DEF Types
  <2>3. Types'
    <3>1. uses' \in [Token -> SUBSET Conn]
      BY <2>1, UsedType, Zenon DEF Types
    <3> HIDE DEF s, t
    <3>2. /\ grants' \in [Token -> Session \cup {None}]
          /\ private_transport' \in [Session -> Conn \cup {None}]
          /\ connections' \in [Conn -> Session \cup {None}]
      BY <2>1, <2>2, Zenon DEF Types
    <3>3. worker' \in [Conn -> {None, "queued", "recheck"}]
      BY <2>1, Zenon DEF Types
    <3> QED BY <2>1, <3>1, <3>2, <3>3, Zenon DEF Types
  <2>4. DetachDue(c)
    BY <2>1 DEF DetachFollows
  <2>5. ASSUME NEW r \in Session, NEW d \in Conn, private_transport'[r] = d
        PROVE  connections'[d] = r /\ DetachDue(d)
    <3> HIDE DEF s, t
    <3>1. CASE r = s
      <4>1. d = c
        BY <2>1, <2>2, <2>5, <3>1, SMTT(30) DEF Types
      <4> QED BY <2>1, <2>2, <2>4, <3>1, <4>1, Zenon DEF Types
    <3>2. CASE r # s
      <4>1. private_transport[r] = d
        BY <2>1, <2>2, <2>5, <3>2, SMTT(30) DEF Types
      <4>2. connections[d] = r /\ DetachDue(d)
        BY <4>1 DEF AttachmentTracked
      <4>3. d # c
        BY TransportConstants, <2>1, <4>2, ZenonT(30) DEF TransportConstants
      <4> QED BY <2>1, <4>2, <4>3, SMTT(30) DEF Types
    <3> QED BY <3>1, <3>2, SMTT(30)
  <2> QED BY <2>1, <2>3, <2>5, SocketSame, Zenon
<1>2. CASE DispatchRefused(c)
  <2>1. /\ UNCHANGED <<private_transport, connections, conn, cred, toPython, lost>>
        /\ worker' = [worker EXCEPT ![c] = None] /\ attaching' = [attaching EXCEPT ![c] = None]
        /\ grants' = grants \/ grants' = [grants EXCEPT ![cred[c]] = None]
        /\ uses' = uses \/ uses' = UsedBy(c)
    BY <1>2, Zenon DEF DispatchRefused, Consume
  <2>2. grants' \in [Token -> Session \cup {None}]
    BY <2>1, ZenonT(30) DEF Types
  <2>3. Types'
    BY <2>1, <2>2, UsedType, ZenonT(30) DEF Types
  <2> QED BY TransportConstants, <2>1, <2>3, SocketSame, SMTT(30) DEF Types, AttachmentTracked, TransportConstants
<1>3. CASE Recheck(c) \/ RecheckRaises(c)
  <2>1. /\ UNCHANGED <<grants, private_transport, connections, conn, cred, toPython, uses, lost>>
        /\ worker' = [worker EXCEPT ![c] = None] /\ attaching' = [attaching EXCEPT ![c] = None]
    BY <1>3 DEF Recheck, RecheckRaises, python
  <2>2. Types'
    BY <2>1, ZenonT(30) DEF Types
  <2> QED BY TransportConstants, <2>1, <2>2, SocketSame, SMTT(30) DEF Types, AttachmentTracked, TransportConstants
<1>4. CASE RecheckFails(c)
  <2>1. /\ UNCHANGED <<grants, conn, cred, toPython, uses, lost>>
        /\ worker' = [worker EXCEPT ![c] = None] /\ attaching' = [attaching EXCEPT ![c] = None]
        /\ connections' = [connections EXCEPT ![c] = None]
        /\ private_transport' = Detached(c)
    BY <1>4, Zenon DEF RecheckFails
  <2>2. Types'
    BY <2>1, SMTT(30) DEF Types, Detached
  <2>3. ASSUME NEW r \in Session, NEW d \in Conn, private_transport'[r] = d
        PROVE  connections'[d] = r /\ DetachDue(d)
    <3>1. private_transport[r] = d /\ d # c
      BY TransportConstants, <2>1, <2>3, ZenonT(30) DEF Detached, AttachmentTracked, TransportConstants
    <3> QED BY <2>1, <3>1, SMTT(30) DEF AttachmentTracked, Types
  <2> QED BY TransportConstants, <2>1, <2>2, <2>3, SocketSame, SMTT(30) DEF Types, TransportConstants
<1> QED BY <1>1, <1>2, <1>3, <1>4, Zenon DEF Worker

\* Every step keeps what is known of the socket and of the attachments.
LEMMA NextTransport == TransportInv /\ Spent /\ [Next]_vars => TransportInv'
<1> SUFFICES ASSUME TransportInv, Spent, [Next]_vars PROVE TransportInv'
  BY SMTT(30)
<1> USE DEF TransportInv
<1>1. CASE UNCHANGED vars
  <2>1. Types'
    BY <1>1, ZenonT(30) DEF vars, python, bridge, Types
  <2> QED BY <1>1, <2>1, SocketSame, Zenon DEF vars, python, bridge, AttachmentTracked
<1>2. ASSUME NEW s \in Session, Invalidate(s) \/ InvalidateRaises(s) PROVE TransportInv'
  <2>1. Types'
    BY <1>2, Zenon DEF Invalidate, InvalidateRaises, bridge, Types
  <2>2. /\ UNCHANGED <<toPython, conn, attaching, connections>> /\ lost \subseteq lost'
        /\ private_transport' = [private_transport EXCEPT ![s] = None]
    BY <1>2, Zenon DEF Invalidate, InvalidateRaises, bridge
  <2>3. \A r \in Session, c \in Conn : private_transport'[r] = c => private_transport[r] = c
    BY TransportConstants, <2>2, SMTT(30) DEF Types, TransportConstants
  <2> QED BY <2>1, <2>2, <2>3, SocketSame, Zenon DEF AttachmentTracked
<1>3. ASSUME NEW s \in Session, NEW t \in Token, Bootstrap(s, t) PROVE TransportInv'
  <2>1. Types'
    BY <1>3, Zenon DEF Bootstrap, Issue, bridge, Types
  <2> QED BY <1>3, <2>1, SocketSame, Zenon DEF Bootstrap, bridge, AttachmentTracked
<1>4. ASSUME NEW t \in Token, TokenExpires(t) PROVE TransportInv'
  <2>1. Types'
    BY <1>4, ZenonT(30) DEF TokenExpires, bridge, Types
  <2> QED BY <1>4, <2>1, SocketSame, Zenon DEF TokenExpires, bridge, AttachmentTracked
<1>5. ASSUME NEW c \in Conn, NEW t \in Token, SendAttach(c, t) PROVE TransportInv'
  BY <1>5, SendAttachStep, SMTT(30)
<1>6. ASSUME NEW c \in Conn, Drop(c) \/ WatchEnds(c) \/ Rejected(c) PROVE TransportInv'
  BY <1>6, CloseStep, Zenon DEF Drop, WatchEnds, Rejected
<1>7. ASSUME NEW c \in Conn, Attached(c) PROVE TransportInv'
  <2>1. Types'
    BY <1>7, SMTT(30) DEF Attached, python, bridge, Types
  <2>2. \A d \in Conn : conn'[d] = "closed" <=> conn[d] = "closed"
    BY <1>7 DEF Attached, Types
  <2> QED BY <1>7, <2>1, <2>2, SocketSame, Zenon DEF Attached, python, bridge, AttachmentTracked
<1>8. ASSUME NEW c \in Conn, CloseEvent(c) PROVE TransportInv'
  <2>1. CASE conn[c] = "closed"
    <3>1. Types'
      BY <1>8, <2>1, SMTT(30) DEF CloseEvent, python, bridge, Types
    <3> QED BY <1>8, <2>1, <3>1, SocketSame, ZenonT(30) DEF CloseEvent, python, bridge, AttachmentTracked
  <2>2. CASE conn[c] # "closed"
    BY <1>8, <2>2, CloseStep, SMTT(30) DEF CloseEvent
  <2> QED BY <2>1, <2>2, Zenon
<1>9. ASSUME NEW c \in Conn, Worker(c) PROVE TransportInv'
  BY <1>9, WorkerStep, SMTT(30) DEF Spent
<1>10. CASE Reader
  BY <1>10, ReadStep, Zenon DEF Reader
<1> QED BY <1>1, <1>2, <1>3, <1>4, <1>5, <1>6, <1>7, <1>8, <1>9, <1>10, SMTT(30) DEF Next, Child

-----------------------------------------------------------------------------

\* A request that is queued after a step was queued before, or was just sent.
LEMMA QueuedBefore ==
  ASSUME Types, [Next]_vars, NEW c \in Conn, Queued("attach", c)'
  PROVE  Queued("attach", c) \/ \E t \in Token : SendAttach(c, t)
<1> DEFINE Old == Queued("attach", c)
<1>1. ASSUME toPython' = toPython PROVE Old
  BY <1>1, Zenon DEF Queued
<1>2. ASSUME NEW d \in Conn, toPython' = Append(toPython, Msg("detach", d)) PROVE Old
  BY <1>2, Sending, MsgInjective, SMTT(30) DEF Queued, Types
<1>3. ASSUME NEW d \in Conn, NEW t \in Token, SendAttach(d, t)
      PROVE  Old \/ \E u \in Token : SendAttach(c, u)
  <2>1. toPython' = Append(toPython, Msg("attach", d))
    BY <1>3, Zenon DEF SendAttach, Msg
  <2>2. Old \/ c = d
    BY <2>1, Sending, MsgInjective, SMTT(30) DEF Queued, Types
  <2> QED BY <1>3, <2>2
<1>4. ASSUME toPython # <<>>, toPython' = Tail(toPython) PROVE Old
  BY <1>4, Reading, SMTT(30) DEF Queued, Types
<1>5. ASSUME NEW d \in Conn, Closes(d) PROVE Old
  BY <1>1, <1>2, <1>5, Zenon DEF Closes, Msg
<1>6. CASE UNCHANGED vars
  BY <1>1, <1>6, Zenon DEF vars
<1>7. ASSUME NEW s \in Session,
             Invalidate(s) \/ InvalidateRaises(s) \/ \E t \in Token : Bootstrap(s, t)
      PROVE  Old
  BY <1>1, <1>7, ZenonT(30) DEF Invalidate, InvalidateRaises, Bootstrap
<1>8. ASSUME NEW t \in Token, TokenExpires(t) PROVE Old
  BY <1>1, <1>8, SMTT(30) DEF TokenExpires
<1>9. ASSUME NEW d \in Conn, Drop(d) \/ WatchEnds(d) \/ Rejected(d) PROVE Old
  BY <1>5, <1>9, Zenon DEF Drop, WatchEnds, Rejected
<1>10. ASSUME NEW d \in Conn, Attached(d) \/ CloseEvent(d) PROVE Old
  BY <1>1, <1>5, <1>10, ZenonT(30) DEF Attached, CloseEvent
<1>11. ASSUME NEW d \in Conn, Worker(d) PROVE Old
  BY <1>1, <1>11, SMTT(30) DEF Worker, DispatchAttach, DispatchRefused, Recheck, RecheckFails, RecheckRaises
<1>12. CASE Reader
  BY <1>4, <1>12, ZenonT(30) DEF Reader, ReadAttach, ReadDetach, Incoming
<1> QED BY <1>3, <1>6, <1>7, <1>8, <1>9, <1>10, <1>11, <1>12, Zenon DEF Next, Child

\* A request a pool thread has now, it had before or the reader just gave it.
LEMMA WorkerBefore ==
  ASSUME Types, [Next]_vars, NEW c \in Conn, worker'[c] = "queued"
  PROVE  worker[c] = "queued" \/ Queued("attach", c)
<1>1. CASE worker' = worker
  BY <1>1, Zenon
<1>2. ASSUME NEW d \in Conn, Worker(d) PROVE worker[c] = "queued"
  <2>1. worker' = [worker EXCEPT ![d] = None] \/ worker' = [worker EXCEPT ![d] = "recheck"]
    BY <1>2, SMTT(30) DEF Worker, DispatchAttach, DispatchRefused, Recheck, RecheckFails, RecheckRaises
  <2> QED BY TransportConstants, <2>1, ZenonT(30) DEF Types, TransportConstants
<1>3. ASSUME NEW d \in Conn, ReadAttach(d) PROVE worker[c] = "queued" \/ Queued("attach", c)
  <2>1. worker' = worker \/ worker' = [worker EXCEPT ![d] = "queued"]
    BY <1>3, SMTT(30) DEF ReadAttach
  <2>2. Queued("attach", d)
    BY <1>3, Reading, ZenonT(30) DEF ReadAttach, Incoming, Queued, Msg, Types
  <2> QED BY <2>1, <2>2, Zenon DEF Types
<1>4. CASE UNCHANGED vars
  BY <1>1, <1>4, Zenon DEF vars, bridge
<1>5. CASE \E s \in Session :
             Invalidate(s) \/ InvalidateRaises(s) \/ \E t \in Token : Bootstrap(s, t)
  BY <1>1, <1>5, Zenon DEF Invalidate, InvalidateRaises, Bootstrap, bridge
<1>6. CASE \E t \in Token : TokenExpires(t)
  BY <1>1, <1>6, Zenon DEF TokenExpires, bridge
<1>7. ASSUME NEW d \in Conn, (\E t \in Token : SendAttach(d, t)) \/ Drop(d) \/ WatchEnds(d) \/ Child(d)
      PROVE  worker' = worker
  BY <1>7, Zenon DEF SendAttach, Drop, WatchEnds, Child, Attached, Rejected, CloseEvent, bridge
<1>8. ASSUME NEW d \in Conn, ReadDetach(d) PROVE worker' = worker
  BY <1>8, ZenonT(30) DEF ReadDetach
<1> QED BY <1>1, <1>2, <1>3, <1>4, <1>5, <1>6, <1>7, <1>8, ZenonT(30) DEF Next, Reader

\* Tokens that are spent stay so, and no other step spends one.
LEMMA NextSpent == TransportInv /\ Spent /\ [Next]_vars => Spent'
<1> SUFFICES ASSUME Types, Spent, [Next]_vars PROVE Spent'
  BY SMTT(30) DEF TransportInv
<1> DEFINE Rest == /\ \A t \in Token : grants[t] # None \/ t \notin issued => uses[t] = {}
                   /\ \A t \in Token : uses[t] = {} \/ \E c \in Conn : uses[t] = {c}
                   /\ \A t \in Token : grants[t] # None => t \in issued
<1>1. cred' = cred \/ \E c \in Conn, t \in Token : SendAttach(c, t)
  BY Zenon DEF Next, vars, Invalidate, InvalidateRaises, Bootstrap, TokenExpires, Drop, WatchEnds, Child, Attached,
         Rejected, CloseEvent, Worker, DispatchAttach, DispatchRefused, Recheck, RecheckFails, RecheckRaises,
         Reader, ReadAttach, ReadDetach
<1>2. ASSUME NEW c \in Conn, Queued("attach", c)' \/ worker'[c] = "queued"
      PROVE  cred'[c] \in Token
  <2>1. CASE \E t \in Token : SendAttach(c, t)
    BY <2>1, ZenonT(30) DEF SendAttach, Types
  <2>2. CASE ~ \E t \in Token : SendAttach(c, t)
    <3>1. cred[c] \in Token
      BY <1>2, <2>2, QueuedBefore, WorkerBefore, SMTT(30) DEF Spent
    <3>2. cred'[c] = cred[c]
      BY <1>1, <2>2, ZenonT(30) DEF SendAttach, Types
    <3> QED BY <3>1, <3>2, Zenon
  <2> QED BY <2>1, <2>2, SMTT(30)
<1>3. ASSUME issued' = issued, uses' = uses, \A t \in Token : grants'[t] \in {None, grants[t]}
      PROVE  Rest'
  BY <1>3 DEF Spent
<1>4. Rest'
  <2>1. CASE UNCHANGED <<grants, issued, uses>>
    BY <1>3, <2>1, ZenonT(30)
  <2>2. ASSUME NEW s \in Session, Invalidate(s) \/ InvalidateRaises(s) PROVE Rest'
    BY <1>3, <2>2, Zenon DEF Invalidate, InvalidateRaises
  <2>3. ASSUME NEW s \in Session, NEW t \in Token, Bootstrap(s, t) PROVE Rest'
    <3>1. /\ t \notin issued /\ issued' = issued \cup {t} /\ uses' = uses
          /\ grants' = [grants EXCEPT ![t] = s]
      BY <2>3, Zenon DEF Bootstrap, Issue
    <3> QED BY <3>1, Zenon DEF Spent, Types
  <2>4. ASSUME NEW t \in Token, TokenExpires(t) PROVE Rest'
    BY <1>3, <2>4, ZenonT(30) DEF TokenExpires, Types
  <2>5. ASSUME NEW c \in Conn, worker[c] = "queued", issued' = issued,
               grants' = [grants EXCEPT ![cred[c]] = None], uses' = UsedBy(c)
        PROVE  Rest'
    <3>1. cred[c] \in Token
      BY <2>5, Zenon DEF Spent
    <3>2. /\ grants'[cred[c]] = None /\ \A t \in Token \ {cred[c]} : grants'[t] = grants[t]
          /\ \A t \in Token \ {cred[c]} : uses'[t] = uses[t]
      BY <2>5, <3>1, Zenon DEF Types, UsedBy
    <3>3. CASE grants[cred[c]] = None
      <4>1. uses'[cred[c]] = uses[cred[c]]
        BY <2>5, <3>1, <3>3, Zenon DEF Types, UsedBy
      <4>2. uses' = uses
        BY <2>5, <3>1, <3>3, SMTT(30) DEF Types, UsedBy
      <4> QED BY <1>3, <2>5, <3>2, <4>2, Zenon
    <3>4. CASE grants[cred[c]] # None
      <4>1. cred[c] \in issued /\ uses[cred[c]] = {}
        BY <3>1, <3>4, Zenon DEF Spent
      <4>2. uses'[cred[c]] = {c}
        BY <2>5, <3>1, <3>4, <4>1, SMTT(30) DEF Types, UsedBy
      <4> QED BY <2>5, <3>1, <3>2, <4>1, <4>2, SMTT(30) DEF Spent
    <3> QED BY <3>3, <3>4, Zenon
  <2>6. ASSUME NEW c \in Conn, DispatchAttach(c) \/ DispatchRefused(c) PROVE Rest'
    <3>1. \/ UNCHANGED <<grants, issued, uses>>
          \/ /\ worker[c] = "queued" /\ issued' = issued
             /\ grants' = [grants EXCEPT ![cred[c]] = None] /\ uses' = UsedBy(c)
      BY <2>6, Zenon DEF DispatchAttach, DispatchRefused, Consume
    <3> QED BY <2>1, <2>5, <3>1, Zenon
  <2>7. ASSUME NEW c \in Conn, Recheck(c) \/ RecheckFails(c) \/ RecheckRaises(c) \/ ReadAttach(c) \/ ReadDetach(c)
        PROVE  Rest'
    BY <2>1, <2>7, Zenon DEF Recheck, RecheckFails, RecheckRaises, ReadAttach, ReadDetach, python
  <2>8. ASSUME NEW c \in Conn, (\E t \in Token : SendAttach(c, t)) \/ Drop(c) \/ WatchEnds(c) \/ Child(c)
        PROVE  Rest'
    BY <2>1, <2>8, ZenonT(30) DEF SendAttach, Drop, WatchEnds, Child, Attached, Rejected, CloseEvent, python
  <2>9. CASE UNCHANGED vars
    BY <2>1, <2>9 DEF vars, python
  <2> QED BY <2>2, <2>3, <2>4, <2>6, <2>7, <2>8, <2>9, Zenon DEF Next, Worker, Reader
<1> QED BY <1>2, <1>4, Zenon DEF Spent

\* Both, initially and for ever.
LEMMA AlwaysTransport == Spec => [](TransportInv /\ Spent)
<1>1. Init => TransportInv /\ Spent
  BY InitTransport DEF Init, Spent, Queued
<1> QED BY <1>1, NextTransport, NextSpent, PTL DEF Spec

\* However attach and detach requests, the pool threads, expiry and revocation
\* interleave, the transport of a session is one the bridge knows and will hear
\* the end of, unless the detach could not be written (the attaching events of
\* NativeQuicServer._read and _dispatch).
THEOREM EveryAttachmentTracked == Spec => []AttachmentTracked
BY AlwaysTransport, PTL DEF TransportInv

\* An attach token serves one attach request at most, whether or not the rest
\* of the request is right, whoever presents it and however often
\* (AttachTokenAuthority.consume).
THEOREM TokensSpentOnce == Spec => []TokenOnce
<1>1. Spent => TokenOnce
  <2> SUFFICES ASSUME Spent, NEW t \in Token PROVE Cardinality(uses[t]) <= 1
    BY DEF TokenOnce
  <2>1. CASE uses[t] = {}
    BY <2>1, FS_EmptySet, SMTT(30)
  <2>2. CASE \E c \in Conn : uses[t] = {c}
    BY TransportConstants, <2>2, FS_Singleton DEF TransportConstants
  <2> QED BY <2>1, <2>2 DEF Spent
<1> QED BY <1>1, AlwaysTransport, PTL

=============================================================================
