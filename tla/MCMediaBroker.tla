---------------------------- MODULE MCMediaBroker ----------------------------
(* Small instance of MediaBroker for TLC. *)
EXTENDS MediaBroker, TLC

CONSTANTS c1, c2, p1, p2

\* both connections are admitted for the same participant: two readers publish
\* to the same subscriptions
OneParticipant == c1 :> p1 @@ c2 :> p1

\* one of them subscribes to it, and asks for a second subscription
OneRecipient == {<<c2, p1>>, <<c2, p2>>}

=============================================================================
