-------------------------- MODULE PhysicalConnection --------------------------
(***************************************************************************)
(* PhysicalConnection (reticulum/connection.py): sending over one link.  It *)
(* adds to ReticulumWriter what send_data does around a write: a bounded    *)
(* table of unacknowledged messages, a timer for each, and the closing of   *)
(* the connection.  _lock is held only for single steps, never during a     *)
(* write, so acknowledgements, timers and close run in between.             *)
(***************************************************************************)
EXTENDS ReticulumWriter, FiniteSetsExt

CONSTANTS
  Data,        \* the frames that await an ACK; the others are ACK and CONTROL
  MaxUnacked,  \* max_unacked_messages
  MaxBytes     \* max_queue_bytes

ASSUME ConnectionConstants ==
  /\ Data \subseteq Frame /\ IsFiniteSet(Frame)
  /\ MaxUnacked \in Nat /\ MaxBytes \in Nat

VARIABLES
  closed,
  pending,        \* the keys of the pending table
  pending_bytes,
  timer,          \* messages whose ACK timer is armed
  expiring,       \* messages whose timer fired and waits for _lock
  pc              \* pc[f]: where the thread that sends f is

connectionVars == <<closed, pending, pending_bytes, timer, expiring, pc>>
vars == <<writerVars, connectionVars>>

Pc == {"idle", "write", "writing", "arm", "closing", "unwind", "sent", "raised"}

Goto(f, where) == pc' = [pc EXCEPT ![f] = where]

\* pending.pop(message_id, None) and the bytes it gives back
Pop(f) ==
  /\ pending' = pending \ {f}
  /\ pending_bytes' = IF f \in pending THEN pending_bytes - Size[f]
                                       ELSE pending_bytes

-----------------------------------------------------------------------------
(* send_data and send_control *)

\* mutant: the byte budget is compared before the message is added
HasRoomBefore(f) ==
  Cardinality(pending) < MaxUnacked /\ pending_bytes <= MaxBytes

HasRoom(f) ==
  /\ Cardinality(pending) < MaxUnacked
  /\ pending_bytes + Size[f] <= MaxBytes

Register(f) ==
  /\ f \in Data /\ pc[f] = "idle"
  /\ IF ~closed /\ HasRoom(f)
     THEN /\ pending' = pending \cup {f}
          /\ pending_bytes' = pending_bytes + Size[f]
          /\ Goto(f, "write")
     ELSE /\ Goto(f, "raised")
          /\ UNCHANGED <<pending, pending_bytes>>
  /\ UNCHANGED <<writerVars, closed, timer, expiring>>

\* an ACK or a CONTROL frame is written without an entry in the table
Reply(f) ==
  /\ f \notin Data /\ pc[f] = "idle"
  /\ Goto(f, "write")
  /\ UNCHANGED <<writerVars, closed, pending, pending_bytes, timer, expiring>>

\* _write: the first look at `closed', then the writer
StartWrite(f) ==
  /\ pc[f] = "write"
  /\ IF closed THEN Goto(f, "unwind") /\ UNCHANGED writerVars
               ELSE Goto(f, "writing") /\ Call(f)
  /\ UNCHANGED <<closed, pending, pending_bytes, timer, expiring>>

WriterStep(f) == pc[f] = "writing" /\ Running(f) /\ UNCHANGED connectionVars

\* a job goes on after its call raised
StrayJob(f) == pc[f] # "writing" /\ Job(f) /\ UNCHANGED connectionVars

\* close: the first caller cancels the writer and the timers
Close ==
  IF closed THEN UNCHANGED <<writerVars, closed, timer>>
  ELSE closed' = TRUE /\ Cancel /\ timer' = {}

\* _write: the connection is closed; who closes it first calls on_close
WriteRaised(f) ==
  /\ pc[f] = "writing" /\ call[f] = "raised"
  /\ Close /\ Goto(f, IF closed THEN "unwind" ELSE "closing")
  /\ UNCHANGED <<pending, pending_bytes, expiring>>

\* on_close comes back or raises: _connection_closed waits for _session_lock and
\* runs the disconnect handlers on the sending thread
OnCloseDone(f) ==
  /\ pc[f] = "closing" /\ Goto(f, "unwind")
  /\ UNCHANGED <<writerVars, closed, pending, pending_bytes, timer, expiring>>

\* _write: the second look at `closed'
WriteReturned(f) ==
  /\ pc[f] = "writing" /\ call[f] = "returned"
  /\ Goto(f, IF closed THEN "unwind" ELSE IF f \in Data THEN "arm" ELSE "sent")
  /\ UNCHANGED <<writerVars, closed, pending, pending_bytes, timer, expiring>>

Unwind(f) ==
  /\ pc[f] = "unwind"
  /\ Pop(f) /\ Goto(f, "raised")
  /\ UNCHANGED <<writerVars, closed, timer, expiring>>

\* mutant: the timer is armed although the ACK was faster
ArmAlways(f) ==
  /\ pc[f] = "arm"
  /\ timer' = IF closed THEN timer ELSE timer \cup {f}
  /\ Goto(f, "sent")
  /\ UNCHANGED <<writerVars, closed, pending, pending_bytes, expiring>>

\* mutant: the timer is created and never started
ArmForgets(f) ==
  /\ pc[f] = "arm" /\ Goto(f, "sent")
  /\ UNCHANGED <<writerVars, closed, pending, pending_bytes, timer, expiring>>

Arm(f) ==
  /\ pc[f] = "arm"
  /\ timer' = IF ~closed /\ f \in pending THEN timer \cup {f} ELSE timer
  /\ Goto(f, "sent")
  /\ UNCHANGED <<writerVars, closed, pending, pending_bytes, expiring>>

-----------------------------------------------------------------------------
(* Other threads *)

\* the ACK of a frame the peer has whole, on the receive thread
Acknowledge(f) ==
  /\ f \in Data /\ sent[f] = Size[f] /\ ~closed
  /\ Pop(f) /\ timer' = timer \ {f}
  /\ UNCHANGED <<writerVars, closed, expiring, pc>>

TimerFires(f) ==
  /\ f \in timer
  /\ timer' = timer \ {f} /\ expiring' = expiring \cup {f}
  /\ UNCHANGED <<writerVars, closed, pending, pending_bytes, pc>>

\* _ack_timeout
AckTimeout(f) ==
  /\ f \in expiring
  /\ expiring' = expiring \ {f} /\ Pop(f)
  /\ UNCHANGED <<writerVars, closed, timer, pc>>

\* the link closed, the idle timeout or shutdown, on a thread that sends nothing
LinkClosed ==
  /\ ~closed /\ Close
  /\ UNCHANGED <<pending, pending_bytes, expiring, pc>>

Init ==
  /\ WriterInit
  /\ closed = FALSE /\ pending = {} /\ pending_bytes = 0
  /\ timer = {} /\ expiring = {}
  /\ pc = [f \in Frame |-> "idle"]

\* the sending thread's own steps
Sender(f) ==
  \/ StartWrite(f) \/ WriteRaised(f) \/ WriteReturned(f)
  \/ Unwind(f) \/ Arm(f)

Next ==
  \/ LinkClosed
  \/ \E f \in Frame :
       \/ Register(f) \/ Reply(f) \/ Sender(f) \/ OnCloseDone(f)
       \/ WriterStep(f) \/ StrayJob(f)
       \/ Acknowledge(f) \/ TimerFires(f) \/ AckTimeout(f)

\* Threads run, deadlines pass and timers fire.  Nothing is assumed of the
\* pool, where raw.write may block for ever, nor of on_close, which waits for
\* other threads.
Fairness ==
  \A f \in Frame :
    /\ WF_vars(Sender(f))
    /\ WF_vars(pc[f] = "writing" /\ Caller(f) /\ UNCHANGED connectionVars)
    /\ WF_vars(pc[f] = "writing" /\ DeadlinePasses(f) /\ UNCHANGED connectionVars)
    /\ WF_vars(TimerFires(f)) /\ WF_vars(AckTimeout(f))

Spec == Init /\ [][Next]_vars /\ Fairness

-----------------------------------------------------------------------------
(* Properties *)

\* Every variable of this module has its type.
TypeOK ==
  /\ closed \in BOOLEAN
  /\ pending \subseteq Data /\ timer \subseteq Data /\ expiring \subseteq Data
  /\ pending_bytes \in Nat
  /\ pc \in [Frame -> Pc]

\* pending_bytes counts exactly the pending frames, whichever of the ACK, the
\* timeout and the failed send takes a message out, and both stay in bounds.
Accounted ==
  /\ pending_bytes = MapThenSumSet(LAMBDA f : Size[f], pending)
  /\ pending_bytes <= MaxBytes /\ Cardinality(pending) <= MaxUnacked

\* While the connection is open every pending message is still being sent or
\* has a timer that will give its place back; a timer never watches a message
\* that is not pending, and none is armed on a closed connection.
PendingWatched ==
  /\ ~closed => \A f \in pending :
       pc[f] \in {"write", "writing", "arm", "closing", "unwind"} \/ f \in timer \cup expiring
  /\ timer \subseteq pending
  /\ closed => timer = {}

\* A cancelled stream belongs to a closed connection as soon as the call that
\* cancelled it has come back (docs/protocol.md:35, "A failed or timed-out
\* write cancels that physical writer and closes its connection").
CancelledIsClosed ==
  cancelled => closed \/ \E f \in Frame : pc[f] = "writing" /\ call[f] = "raised"

\* Every send comes back within its deadlines, also when raw.write never does,
\* with one exception: the one whose failed write closed the connection runs
\* on_close before it raises, and comes back when on_close does.
SendsEnd ==
  \A f \in Frame : (pc[f] # "idle") ~> (pc[f] \in {"sent", "raised", "closing"})

\* No message stays pending for ever on an open connection.
PendingEnds ==
  \A f \in Data : (f \in pending) ~> (f \notin pending \/ closed)

\* Every step is a step of the writer or leaves it alone.
WriterRefined == WriterSpec

=============================================================================
