--------------------------- MODULE ReticulumWriter ---------------------------
(***************************************************************************)
(* ReticulumWriter (reticulum/writer.py): the frames of one physical stream *)
(* are written by jobs of a bounded worker pool.  A call takes the gate,    *)
(* submits a job and waits for it up to a deadline; the job may outlive its *)
(* call, because a blocked native write cannot be interrupted.              *)
(*                                                                          *)
(* Every frame is written by one call.  The length of a frame is counted in *)
(* units that raw.write accepts whole.  `late' says that a call's deadline  *)
(* has passed.                                                              *)
(***************************************************************************)
EXTENDS Naturals, FiniteSets

CONSTANTS
  Frame,     \* the frames to write
  Size,      \* Size[f]: the length of frame f
  Workers,   \* threads of the pool
  Capacity,  \* jobs the pool's queue holds
  None

ASSUME WriterConstants ==
  /\ Size \in [Frame -> Nat \ {0}]
  /\ Workers \in Nat /\ Capacity \in Nat
  /\ None \notin Frame

VARIABLES
  cancelled,  \* the Event: the stream must not be used any more
  gate,       \* who holds the gate, or None
  call,       \* call[f]: where the call that writes f is
  late,       \* late[f]: its deadline has passed
  job,        \* job[f]: where its job in the pool is
  sent        \* sent[f]: how much of f is on the stream

writerVars == <<cancelled, gate, call, late, job, sent>>

CallState == {"idle", "gate", "holding", "waiting", "returned", "raised"}

\* "checked": past check() and inside raw.write
JobState == {"none", "queued", "running", "checked", "written", "failed"}

Queued == {f \in Frame : job[f] = "queued"}

Busy == {f \in Frame : job[f] \in {"running", "checked"}}

\* part of the frame is on the stream, part of it is not
Torn(f) == sent[f] \notin {0, Size[f]}

-----------------------------------------------------------------------------
(* The calling thread *)

Call(f) ==
  /\ call[f] = "idle"
  /\ call' = [call EXCEPT ![f] = "gate"]
  /\ UNCHANGED <<cancelled, gate, late, job, sent>>

DeadlinePasses(f) ==
  /\ call[f] \in {"gate", "holding", "waiting"} /\ ~late[f]
  /\ late' = [late EXCEPT ![f] = TRUE]
  /\ UNCHANGED <<cancelled, gate, call, job, sent>>

Acquire(f) ==
  /\ call[f] = "gate" /\ gate = None
  /\ gate' = f
  /\ call' = [call EXCEPT ![f] = "holding"]
  /\ UNCHANGED <<cancelled, late, job, sent>>

GateTimesOut(f) ==
  /\ call[f] = "gate" /\ gate # None /\ late[f]
  /\ cancelled' = TRUE
  /\ call' = [call EXCEPT ![f] = "raised"]
  /\ UNCHANGED <<gate, late, job, sent>>

\* mutant: nothing looks at the deadline
CheckFailsNoDeadline(f) == cancelled

\* check(), of the calling thread and of the job
CheckFails(f) == cancelled \/ late[f]

Submit(f) ==
  /\ call[f] = "holding" /\ ~CheckFails(f)
  /\ Cardinality(Queued) < Capacity
  /\ job' = [job EXCEPT ![f] = "queued"]
  /\ call' = [call EXCEPT ![f] = "waiting"]
  /\ UNCHANGED <<cancelled, gate, late, sent>>

\* mutant: a call that timed out only gives the gate back
RaiseKeepsStream(f) ==
  /\ call[f] = "waiting" /\ (CheckFails(f) \/ job[f] = "failed")
  /\ gate' = None
  /\ call' = [call EXCEPT ![f] = "raised"]
  /\ UNCHANGED <<cancelled, late, job, sent>>

\* The call raises: check() failed, the queue was full or the job failed.  The
\* stream is cancelled before the gate is released.
Raise(f) ==
  /\ \/ call[f] = "holding" /\ (CheckFails(f) \/ Cardinality(Queued) >= Capacity)
     \/ call[f] = "waiting" /\ (CheckFails(f) \/ job[f] = "failed")
  /\ cancelled' = TRUE
  /\ gate' = None
  /\ call' = [call EXCEPT ![f] = "raised"]
  /\ UNCHANGED <<late, job, sent>>

Return(f) ==
  /\ call[f] = "waiting" /\ job[f] = "written" /\ ~CheckFails(f)
  /\ gate' = None
  /\ call' = [call EXCEPT ![f] = "returned"]
  /\ UNCHANGED <<cancelled, late, job, sent>>

\* PhysicalConnection.close, on any thread
Cancel ==
  /\ cancelled' = TRUE
  /\ UNCHANGED <<gate, call, late, job, sent>>

-----------------------------------------------------------------------------
(* The pool *)

StartJob(f) ==
  /\ job[f] = "queued" /\ Cardinality(Busy) < Workers
  /\ job' = [job EXCEPT ![f] = "running"]
  /\ UNCHANGED <<cancelled, gate, call, late, sent>>

\* mutant: raw.write is called once, whatever it accepts
CheckOnce(f) ==
  /\ job[f] = "running"
  /\ job' = [job EXCEPT ![f] = IF sent[f] = 0 THEN "checked" ELSE "written"]
  /\ UNCHANGED <<cancelled, gate, call, late, sent>>

\* check(), before every raw.write and once after the last
Check(f) ==
  /\ job[f] = "running"
  /\ job' = [job EXCEPT ![f] = IF CheckFails(f) THEN "failed"
                               ELSE IF sent[f] = Size[f] THEN "written"
                               ELSE "checked"]
  /\ UNCHANGED <<cancelled, gate, call, late, sent>>

\* raw.write takes n units, possibly long after the check
Write(f, n) ==
  /\ job[f] = "checked" /\ sent[f] + n <= Size[f]
  /\ sent' = [sent EXCEPT ![f] = @ + n]
  /\ job' = [job EXCEPT ![f] = "running"]
  /\ UNCHANGED <<cancelled, gate, call, late>>

\* raw.write raises or reports an impossible length
WriteError(f) ==
  /\ job[f] = "checked"
  /\ job' = [job EXCEPT ![f] = "failed"]
  /\ UNCHANGED <<cancelled, gate, call, late, sent>>

WriterInit ==
  /\ cancelled = FALSE /\ gate = None
  /\ call = [f \in Frame |-> "idle"]
  /\ late = [f \in Frame |-> FALSE]
  /\ job = [f \in Frame |-> "none"]
  /\ sent = [f \in Frame |-> 0]

Caller(f) ==
  \/ Acquire(f) \/ GateTimesOut(f) \/ Submit(f) \/ Raise(f) \/ Return(f)

Job(f) ==
  \/ StartJob(f) \/ Check(f) \/ WriteError(f)
  \/ \E n \in 0..Size[f] : Write(f, n)

\* what happens to a call that is under way
Running(f) == DeadlinePasses(f) \/ Caller(f) \/ Job(f)

WriterNext == Cancel \/ \E f \in Frame : Call(f) \/ Running(f)

WriterSpec == WriterInit /\ [][WriterNext]_writerVars

-----------------------------------------------------------------------------
(* Properties *)

\* Every variable has its type, and no more of a frame is on the stream than
\* it has.
WriterTypeOK ==
  /\ cancelled \in BOOLEAN
  /\ gate \in Frame \cup {None}
  /\ call \in [Frame -> CallState]
  /\ late \in [Frame -> BOOLEAN]
  /\ job \in [Frame -> JobState]
  /\ sent \in [Frame -> Nat]
  /\ \A f \in Frame : sent[f] <= Size[f]

\* Nothing is written behind a partial frame (docs/protocol.md:35-36, "partial
\* frames are never followed by new frames on that stream"), also by a job
\* that was stuck in raw.write while its call gave up.
NothingAfterTorn ==
  [][\A f \in Frame : sent'[f] # sent[f] =>
       \A g \in Frame \ {f} : ~Torn(g)]_writerVars

\* A write that returned put its whole frame on the stream.
ReturnedIsWhole == \A f \in Frame : call[f] = "returned" => sent[f] = Size[f]

=============================================================================
