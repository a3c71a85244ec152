------------------------ MODULE MCPhysicalConnection ------------------------
(* A small instance of PhysicalConnection for TLC. *)
EXTENDS PhysicalConnection, TLC

CONSTANTS d1, d2, ack

\* a message of two units, one of one unit, and an ACK
Lengths == d1 :> 2 @@ d2 :> 1 @@ ack :> 1

=============================================================================
