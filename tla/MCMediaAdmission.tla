-------------------------- MODULE MCMediaAdmission --------------------------
(* Small instance of MediaAdmission for TLC. *)
EXTENDS MediaAdmission

=============================================================================
