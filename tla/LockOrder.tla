------------------------------ MODULE LockOrder ------------------------------
(***************************************************************************)
(* The two locks call control crosses: CallService._lock ("call") and      *)
(* QAppServer._session_lock ("session").  Every thread is the list of lock *)
(* and send operations it still has to do.  A send that fails closes the   *)
(* recipient's connection on the sending thread, which takes the session   *)
(* lock and, in the disconnect handler, the call lock.                     *)
(***************************************************************************)
EXTENDS Naturals, Sequences

CONSTANTS
  Thread,
  Kind,        \* Kind[t]: the code thread t runs
  None,
  MaxFailures  \* how many links a write can fail on

Lock == {"call", "session"}

Op == ({"acquire", "release"} \X Lock) \cup {<<"send">>}

VARIABLES
  todo,      \* todo[t]: the operations thread t has not done yet
  locks,     \* owner and depth of each RLock
  failures

vars == <<todo, locks, failures>>

-----------------------------------------------------------------------------

\* _connection_closed and revoke_session: CallService.disconnected runs, with
\* its broadcast, while the session lock is held
Close == <<<<"acquire", "session">>, <<"acquire", "call">>, <<"release", "call">>,
           <<"send">>, <<"release", "session">>>>

\* create, join, leave, moderate, screen_control, the expiry callbacks
Handler == <<<<"acquire", "call">>, <<"release", "call">>, <<"send">>>>

\* join on an unavailable room or a removed account, moderate on an absent
\* one: the reply is sent inside the `with' block
Refusal == <<<<"acquire", "call">>, <<"send">>, <<"release", "call">>>>

Program(kind) ==
  CASE kind = "close" -> Close
    [] kind = "handler" -> Handler
    [] kind = "refusal" -> Refusal

-----------------------------------------------------------------------------

Doing(t, op) == todo[t] # <<>> /\ Head(todo[t]) = op

\* RLock.acquire: reentrant
Acquire(t, l) ==
  /\ Doing(t, <<"acquire", l>>)
  /\ locks[l].owner \in {None, t}
  /\ locks' = [locks EXCEPT ![l] = [owner |-> t, depth |-> @.depth + 1]]
  /\ todo' = [todo EXCEPT ![t] = Tail(@)]
  /\ UNCHANGED failures

Release(t, l) ==
  /\ Doing(t, <<"release", l>>)
  /\ locks' = [locks EXCEPT ![l] =
       [owner |-> IF @.depth = 1 THEN None ELSE t, depth |-> @.depth - 1]]
  /\ todo' = [todo EXCEPT ![t] = Tail(@)]
  /\ UNCHANGED failures

SendWorks(t) ==
  /\ Doing(t, <<"send">>)
  /\ todo' = [todo EXCEPT ![t] = Tail(@)]
  /\ UNCHANGED <<locks, failures>>

\* PhysicalConnection._write: close("buffer_write_failed"), whose on_close is
\* QAppServer._connection_closed
SendFails(t) ==
  /\ Doing(t, <<"send">>) /\ failures < MaxFailures
  /\ todo' = [todo EXCEPT ![t] = Close \o Tail(@)]
  /\ failures' = failures + 1
  /\ UNCHANGED locks

Init ==
  /\ todo = [t \in Thread |-> Program(Kind[t])]
  /\ locks = [l \in Lock |-> [owner |-> None, depth |-> 0]]
  /\ failures = 0

Step(t) ==
  \/ \E l \in Lock : Acquire(t, l) \/ Release(t, l)
  \/ SendWorks(t) \/ SendFails(t)

Next == \E t \in Thread : Step(t)

Spec == Init /\ [][Next]_vars

-----------------------------------------------------------------------------
(* Properties *)

Waits(t, u) ==
  \E l \in Lock : Doing(t, <<"acquire", l>>) /\ locks[l].owner = u

\* No two threads wait for each other's lock (docs/protocol.md:37-39, "Connection
\* state locks are not held during writes, so ACK processing and close remain
\* available").
NoCircularWait ==
  \A t, u \in Thread : t # u => ~(Waits(t, u) /\ Waits(u, t))

\* every thread closes a link or sends after it released the call lock
NoRefusals == \A t \in Thread : Kind[t] \in {"close", "handler"}

=============================================================================
