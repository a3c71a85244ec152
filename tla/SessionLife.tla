----------------------------- MODULE SessionLife -----------------------------
(***************************************************************************)
(* What the session registry promises about the life of a session.  It     *)
(* starts provisional, becomes attached when its identity is proved, and   *)
(* may outlive its link, or the process, only after that.  A detached      *)
(* session is never attached again and a session that ended never returns: *)
(* whoever comes back over a new link starts with a new session and a new  *)
(* proof (test_successful_authentication_persists_but_cannot_resume_by_    *)
(* logical_id, tests/test_session_admission.py:74).                        *)
(***************************************************************************)
CONSTANTS Session

VARIABLE state

Steps ==
  { <<"absent", "provisional">>,
    <<"provisional", "attached">>, <<"provisional", "absent">>,
    <<"attached", "detached">>, <<"attached", "absent">>,
    <<"detached", "absent">> }

Init == state = [s \in Session |-> "absent"]

\* one step may end or detach many sessions: a link closes, the process stops
Next ==
  /\ state' \in [Session -> {"absent", "provisional", "attached", "detached"}]
  /\ \A s \in Session : state'[s] = state[s] \/ <<state[s], state'[s]>> \in Steps

Spec == Init /\ [][Next]_state

=============================================================================
