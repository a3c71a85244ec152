----------------------------- MODULE MCCallRooms -----------------------------
(* Small instances of CallRooms for TLC. *)
EXTENDS CallRooms, TLC

CONSTANTS a, b, s1, s2

\* s1 proves a only; s2 may prove either account, and change between them
OneOrEither == s1 :> {a} @@ s2 :> {a, b}

=============================================================================
