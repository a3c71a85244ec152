----------------------------- MODULE MCSessions -----------------------------
(* The instance of Sessions that TLC checks. *)
EXTENDS Sessions, TLC

Symmetry ==
  Permutations(Conn) \cup Permutations(LogicalId) \cup Permutations(Session)

=============================================================================
