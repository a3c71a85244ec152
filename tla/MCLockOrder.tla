----------------------------- MODULE MCLockOrder -----------------------------
(* A small instance of LockOrder for TLC. *)
EXTENDS LockOrder, TLC

CONSTANTS t1, t2

CloseAndRefusal == t1 :> "close" @@ t2 :> "refusal"

=============================================================================
