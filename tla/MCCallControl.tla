---------------------------- MODULE MCCallControl ----------------------------
(* Small instances of CallControl for TLC. *)
EXTENDS CallControl, TLC

CONSTANTS a, b, c, s1, s2, s3

TwoSessions == s1 :> {a} @@ s2 :> {b}

ThreeAccounts == s1 :> {a} @@ s2 :> {b} @@ s3 :> {c}

=============================================================================
