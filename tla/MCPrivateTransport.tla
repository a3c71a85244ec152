------------------------- MODULE MCPrivateTransport -------------------------
(* Instance of PrivateTransport for model checking. *)
EXTENDS PrivateTransport

=============================================================================
