---------------------------- MODULE MCGroupAccess ----------------------------
(* A small instance of GroupAccess for TLC. *)
EXTENDS GroupAccess

CONSTANTS addr, g1

OneAccount == [s \in Session |-> addr]
InOrOut == {{}, {g1}}

=============================================================================
