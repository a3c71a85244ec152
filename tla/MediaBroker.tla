---------------------------- MODULE MediaBroker ----------------------------
(***************************************************************************)
(* The broker of the media relay: how objects of a participant's track     *)
(* reach the subscriptions to it, one room and one track.  Every           *)
(* connection that is served has a reader; publish hands an object to each *)
(* subscription's queue without ever waiting for it, and the subscription's*)
(* own goroutine forwards from there.  What the policy says at each look   *)
(* is left open (module MediaAdmission).  Datagrams bypass the queues and  *)
(* are not modelled.                                                       *)
(***************************************************************************)
EXTENDS Naturals, Sequences, FiniteSets

CONSTANTS
  Conn,
  Participant,
  ParticipantOf,     \* the participant each connection was admitted for
  Wanted,            \* the subscriptions clients ask for: <<owner, participant>>
  MaxSubscriptions,  \* 128 per connection
  MaxQueue,          \* 2
  MaxObjects,        \* bound on the objects a connection publishes
  None

ASSUME BrokerConstants ==
  /\ ParticipantOf \in [Conn -> Participant] /\ Wanted \subseteq Conn \X Participant
  /\ MaxSubscriptions \in Nat /\ MaxQueue \in Nat \ {0} /\ MaxObjects \in Nat
  /\ IsFiniteSet(Conn) /\ IsFiniteSet(Participant)

VARIABLES
  conn,        \* ready, being closed by the relay or left by the peer, and then
  subscribing, \* subscriptions HandleSubscribe has let in and not yet added
  subs,        \* broker.subscriptions
  removed,     \* subscriptions whose `done' is closed
  queue,       \* of each subscription
  publishing,  \* the object each connection's reader is handing out
  sent,        \* objects published by each connection
  forwarded    \* history: the objects of each connection sent on a subscription

broker == <<subscribing, subs, removed>>
vars == <<conn, broker, queue, publishing, sent, forwarded>>

Idle == [pc |-> "idle", at |-> None, todo |-> {}]

-----------------------------------------------------------------------------
\* the ticker of handleConnection finds the session revoked
Closes(c) ==
  /\ conn[c] = "ready"
  /\ conn' = [conn EXCEPT ![c] = "closing"]
  /\ UNCHANGED <<broker, queue, publishing, sent, forwarded>>

PeerCloses(c) ==
  /\ conn[c] = "ready"
  /\ conn' = [conn EXCEPT ![c] = "leaving"]
  /\ UNCHANGED <<broker, queue, publishing, sent, forwarded>>

\* readers.Wait(), then the deferred removeOwner
RemoveOwner(c) ==
  /\ conn[c] \in {"closing", "leaving"}
  /\ publishing[c] = Idle
  /\ conn' = [conn EXCEPT ![c] = IF @ = "closing" THEN "closed" ELSE "left"]
  /\ removed' = removed \cup {p \in subs : p[1] = c}
  /\ subs' = {p \in subs : p[1] # c}
  /\ UNCHANGED <<subscribing, queue, publishing, sent, forwarded>>

SubscriptionCount(c) ==
  Cardinality({p \in subs \cup subscribing \cup removed : p[1] = c})

\* HandleSubscribe, up to the call of add; `ready' outlives a connection that
\* the peer closed
Subscribe(p) ==
  /\ conn[p[1]] \in {"ready", "leaving", "left"}
  /\ p \notin subs \cup subscribing \cup removed
  /\ SubscriptionCount(p[1]) < MaxSubscriptions
  /\ subscribing' = subscribing \cup {p}
  /\ UNCHANGED <<conn, subs, removed, queue, publishing, sent, forwarded>>

\* add: its owner may have been removed meanwhile
Add(p) ==
  /\ p \in subscribing
  /\ subscribing' = subscribing \ {p}
  /\ subs' = subs \cup {p}
  /\ UNCHANGED <<conn, removed, queue, publishing, sent, forwarded>>

\* ReadObject and the first half of publish: the source is checked, the
\* subscriptions are copied.  Nothing is handed out for a source that the policy
\* denies, audio of a muted one, or an object of the wrong size.
Publish(c) ==
  /\ conn[c] \in {"ready", "closing", "leaving"}
  /\ publishing[c] = Idle /\ sent[c] < MaxObjects
  /\ sent' = [sent EXCEPT ![c] = @ + 1]
  /\ \/ publishing' = [publishing EXCEPT ![c] =
          [pc |-> "next", at |-> None, todo |-> {p \in subs : p[2] = ParticipantOf[c]}]]
     \/ UNCHANGED publishing
  /\ UNCHANGED <<conn, broker, queue, forwarded>>

\* the next recipient: its policy and `done' are looked at
Recipient(c, p) ==
  /\ publishing[c].pc = "next" /\ p \in publishing[c].todo
  /\ \/ /\ p \notin removed
        /\ publishing' = [publishing EXCEPT ![c] =
             [pc |-> "push", at |-> p, todo |-> @.todo \ {p}]]
     \/ publishing' = [publishing EXCEPT ![c].todo = @ \ {p}]
  /\ UNCHANGED <<conn, broker, queue, sent, forwarded>>

\* the reader goes on to the recipients left
Handed(c) == [publishing EXCEPT ![c] = [@ EXCEPT !.pc = "next", !.at = None]]

Full(p) == Len(queue[p]) = MaxQueue

\* mutant: waits for room in the queue
PushWaits(c) ==
  /\ publishing[c].pc \in {"push", "again"} /\ ~Full(publishing[c].at)
  /\ queue' = [queue EXCEPT ![publishing[c].at] = Append(@, <<c, sent[c]>>)]
  /\ publishing' = Handed(c)
  /\ UNCHANGED <<conn, broker, sent, forwarded>>

\* the first select: into the queue if it has room, otherwise the oldest goes
Push(c) ==
  /\ publishing[c].pc = "push"
  /\ LET p == publishing[c].at
     IN  IF Full(p)
           THEN /\ publishing' = [publishing EXCEPT ![c].pc = "discard"]
                /\ UNCHANGED queue
           ELSE /\ queue' = [queue EXCEPT ![p] = Append(@, <<c, sent[c]>>)]
                /\ publishing' = Handed(c)
  /\ UNCHANGED <<conn, broker, sent, forwarded>>

\* the second select: forward may have emptied it in between
Discard(c) ==
  /\ publishing[c].pc = "discard"
  /\ queue' = [queue EXCEPT ![publishing[c].at] = IF @ = <<>> THEN @ ELSE Tail(@)]
  /\ publishing' = [publishing EXCEPT ![c].pc = "again"]
  /\ UNCHANGED <<conn, broker, sent, forwarded>>

\* the third select
PushAgain(c) ==
  /\ publishing[c].pc = "again"
  /\ LET p == publishing[c].at
     IN queue' = [queue EXCEPT ![p] = IF Full(p) THEN @ ELSE Append(@, <<c, sent[c]>>)]
  /\ publishing' = Handed(c)
  /\ UNCHANGED <<conn, broker, sent, forwarded>>

Published(c) ==
  /\ publishing[c].pc = "next" /\ publishing[c].todo = {}
  /\ publishing' = [publishing EXCEPT ![c] = Idle]
  /\ UNCHANGED <<conn, broker, queue, sent, forwarded>>

\* the object at the head is handed to SendGroupObject
Sent(p) ==
  forwarded' = [forwarded EXCEPT ![p][Head(queue[p])[1]] = Append(@, Head(queue[p])[2])]

\* mutant: an object whose send failed is queued again
ForwardRetries(p) ==
  /\ p \in subs \cup removed /\ queue[p] # <<>>
  /\ \/ queue' = [queue EXCEPT ![p] = Tail(@)] /\ Sent(p)
     \/ /\ queue' = [queue EXCEPT ![p] = Append(Tail(@), Head(@))]
        /\ UNCHANGED forwarded
  /\ UNCHANGED <<conn, broker, publishing, sent>>

\* forward: an object that waited too long is dropped, and one may still be
\* sent after `done' was closed
Forward(p) ==
  /\ p \in subs \cup removed /\ queue[p] # <<>>
  /\ queue' = [queue EXCEPT ![p] = Tail(@)]
  /\ Sent(p) \/ UNCHANGED forwarded
  /\ UNCHANGED <<conn, broker, publishing, sent>>

-----------------------------------------------------------------------------

Init ==
  /\ conn = [c \in Conn |-> "ready"]
  /\ subscribing = {} /\ subs = {} /\ removed = {}
  /\ queue = [p \in Wanted |-> <<>>]
  /\ publishing = [c \in Conn |-> Idle]
  /\ sent = [c \in Conn |-> 0]
  /\ forwarded = [p \in Wanted |-> [c \in Conn |-> <<>>]]

Publisher(c) ==
  \/ \E p \in Wanted : Recipient(c, p)
  \/ Push(c) \/ Discard(c) \/ PushAgain(c) \/ Published(c)

Next ==
  \/ \E c \in Conn : \/ Closes(c) \/ PeerCloses(c) \/ RemoveOwner(c)
                     \/ Publish(c) \/ Publisher(c)
  \/ \E p \in Wanted : Subscribe(p) \/ Add(p) \/ Forward(p)

Spec == Init /\ [][Next]_vars

\* Goroutines run.  Nothing is assumed of the recipients (Forward).
FairSpec ==
  /\ Spec
  /\ \A c \in Conn : WF_vars(Publisher(c)) /\ WF_vars(RemoveOwner(c))

-----------------------------------------------------------------------------
(* Properties *)

\* Every variable has its type, and no queue is longer than it may be.
TypeOK ==
  /\ conn \in [Conn -> {"ready", "closing", "leaving", "closed", "left"}]
  /\ subscribing \subseteq Wanted /\ subs \subseteq Wanted /\ removed \subseteq Wanted
  /\ \A p \in Wanted : /\ queue[p] \in Seq(Conn \X (1..MaxObjects))
                    /\ Len(queue[p]) <= MaxQueue
  /\ sent \in [Conn -> 0..MaxObjects]
  /\ forwarded \in [Wanted -> [Conn -> Seq(1..MaxObjects)]]

\* The relay sends the objects of a source on a subscription in the order they
\* were published and each at most once, whatever was dropped on the way: the
\* three selects of publish and forward share the queue without a lock, and a
\* send that failed is not tried again.  (Each object has a subgroup stream of
\* its own, so this says nothing of the order in which they arrive.)
SentInOrder ==
  \A p \in Wanted, c \in Conn :
    \A i \in 2..Len(forwarded[p][c]) : forwarded[p][c][i - 1] < forwarded[p][c][i]

\* A connection that is being closed is taken out of the broker although its
\* readers are waited for and no recipient takes anything from its queue
\* ("A slow recipient cannot stall another recipient", main.go:286-287).
ClosingEnds ==
  \A c \in Conn : conn[c] \in {"closing", "leaving"} ~> conn[c] \in {"closed", "left"}

=============================================================================
