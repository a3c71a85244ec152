---------------------- MODULE PhysicalConnectionProofs ----------------------
(***************************************************************************)
(* For any set of messages, any lengths, any limits and any size of the    *)
(* pool: nothing is written behind a partial frame, a connection uses its  *)
(* writer as the writer promises, and no unacknowledged message is left    *)
(* unwatched.  The invariant of the writer says who may touch the stream:  *)
(* while it is not cancelled only the holder of the gate, and after that   *)
(* at most one job, which passed its check before.                         *)
(***************************************************************************)
EXTENDS PhysicalConnection, SequenceTheorems, TLAPS

-----------------------------------------------------------------------------
(* The writer *)

Holders == \A f \in Frame : call[f] \in {"holding", "waiting"} <=> gate = f

\* while the stream is usable, work on it and partial frames are the holder's
HolderOnly ==
  ~cancelled => \A f \in Frame :
    (job[f] \in {"queued", "running", "checked"} \/ Torn(f)) => gate = f

\* a job inside raw.write is alone, and every other frame is whole or absent
AloneInWrite ==
  \A f \in Frame : job[f] = "checked" =>
    \A g \in Frame \ {f} : ~Torn(g) /\ job[g] # "checked"

WrittenIsWhole ==
  \A f \in Frame :
    /\ job[f] = "written" => sent[f] = Size[f]
    /\ call[f] = "returned" => job[f] = "written"

WriterInv ==
  WriterTypeOK /\ Holders /\ HolderOnly /\ AloneInWrite /\ WrittenIsWhole

\* A fresh ReticulumWriter satisfies the invariant.
LEMMA WriterStarts == WriterInit => WriterInv
<1> SUFFICES ASSUME WriterInit PROVE WriterInv
  OBVIOUS
<1> USE WriterConstants DEF WriterInit
<1>0. late \in [Frame -> BOOLEAN] /\ cancelled \in BOOLEAN
  BY Zenon
<1>1. WriterTypeOK
  BY <1>0 DEF WriterTypeOK, CallState, JobState
<1>2. Holders
  BY DEF Holders
<1>3. HolderOnly /\ AloneInWrite /\ WrittenIsWhole
  BY SMTT(30) DEF HolderOnly, AloneInWrite, WrittenIsWhole, Torn
<1> QED
  BY <1>1, <1>2, <1>3 DEF WriterInv

\* Every step of a call, of a job or of close keeps the invariant.
LEMMA WriterKeeps == WriterInv /\ [WriterNext]_writerVars => WriterInv'
<1> SUFFICES ASSUME WriterInv, [WriterNext]_writerVars PROVE WriterInv'
  OBVIOUS
<1> USE WriterConstants DEF WriterInv
<1> USE DEF WriterTypeOK, CallState, JobState, Torn
<1>0. CASE UNCHANGED writerVars
  BY <1>0 DEF writerVars, Holders, HolderOnly, AloneInWrite, WrittenIsWhole
<1>1. CASE Cancel
  BY <1>1 DEF Cancel, Holders, HolderOnly, AloneInWrite, WrittenIsWhole
<1>2. ASSUME NEW f \in Frame, Call(f) PROVE WriterInv'
  BY <1>2 DEF Call, Holders, HolderOnly, AloneInWrite, WrittenIsWhole
<1>3. ASSUME NEW f \in Frame, DeadlinePasses(f) PROVE WriterInv'
  BY <1>3 DEF DeadlinePasses, Holders, HolderOnly, AloneInWrite, WrittenIsWhole
<1>4. ASSUME NEW f \in Frame, Acquire(f) PROVE WriterInv'
  BY <1>4 DEF Acquire, Holders, HolderOnly, AloneInWrite, WrittenIsWhole
<1>5. ASSUME NEW f \in Frame, GateTimesOut(f) PROVE WriterInv'
  BY <1>5 DEF GateTimesOut, Holders, HolderOnly, AloneInWrite, WrittenIsWhole
<1>6. ASSUME NEW f \in Frame, Submit(f) PROVE WriterInv'
  BY <1>6 DEF Submit, Holders, HolderOnly, AloneInWrite, WrittenIsWhole
<1>7. ASSUME NEW f \in Frame, Raise(f) PROVE WriterInv'
  BY <1>7 DEF Raise, Holders, HolderOnly, AloneInWrite, WrittenIsWhole
<1>8. ASSUME NEW f \in Frame, Return(f) PROVE WriterInv'
  BY <1>8 DEF Return, Holders, HolderOnly, AloneInWrite, WrittenIsWhole
<1>9. ASSUME NEW f \in Frame, StartJob(f) PROVE WriterInv'
  BY <1>9 DEF StartJob, Holders, HolderOnly, AloneInWrite, WrittenIsWhole
<1>10. ASSUME NEW f \in Frame, Check(f) PROVE WriterInv'
  BY <1>10 DEF Check, CheckFails, Holders, HolderOnly, AloneInWrite, WrittenIsWhole
<1>11. ASSUME NEW f \in Frame, WriteError(f) PROVE WriterInv'
  BY <1>11 DEF WriteError, Holders, HolderOnly, AloneInWrite, WrittenIsWhole
<1>12. ASSUME NEW f \in Frame, NEW n \in 0..Size[f], Write(f, n) PROVE WriterInv'
  BY <1>12 DEF Write, Holders, HolderOnly, AloneInWrite, WrittenIsWhole
<1> QED
  BY <1>0, <1>1, <1>2, <1>3, <1>4, <1>5, <1>6, <1>7, <1>8, <1>9, <1>10, <1>11,
     <1>12 DEF WriterNext, Running, Caller, Job

\* The invariant holds in every reachable state of ReticulumWriter.
LEMMA WriterInvariant == WriterSpec => []WriterInv
BY WriterStarts, WriterKeeps, PTL DEF WriterSpec

\* A write that returned normally put its whole frame on the stream
\* (ReticulumWriter.__call__ returns only after the job's last check).
THEOREM WholeWhenReturned == WriterSpec => []ReturnedIsWhole
<1>1. WriterInv => ReturnedIsWhole
  BY DEF WriterInv, WrittenIsWhole, ReturnedIsWhole
<1> QED
  BY <1>1, WriterInvariant, PTL

\* No step of any job writes behind a partial frame (docs/protocol.md:35-36):
\* the units of the stream are whole frames, except perhaps the last one.
THEOREM StreamIntact == WriterSpec => NothingAfterTorn
<1> DEFINE Quiet == \A f \in Frame : sent'[f] # sent[f] =>
                      \A g \in Frame \ {f} : ~Torn(g)
<1>1. WriterInv /\ [WriterNext]_writerVars => [Quiet]_writerVars
  <2> SUFFICES ASSUME WriterInv, WriterNext, NEW f \in Frame, sent'[f] # sent[f]
               PROVE  job[f] = "checked"
    BY DEF WriterInv, AloneInWrite
  <2>1. PICK h \in Frame : sent' = sent \/ \E n \in 0..Size[h] : Write(h, n)
    BY DEF WriterNext, Running, Caller, Job, Cancel, Call, DeadlinePasses, Acquire,
       GateTimesOut, Submit, Raise, Return, StartJob, Check, WriteError
  <2> QED
    BY <2>1 DEF Write, WriterInv, WriterTypeOK
<1> QED
  BY <1>1, WriterInvariant, PTL DEF WriterSpec, NothingAfterTorn

-----------------------------------------------------------------------------
(* The writer under a connection *)

\* Whatever send_data, _write, an ACK, a timer or close does to the writer is a
\* step of ReticulumWriter.
LEMMA WriterStepOrNone == [Next]_vars => [WriterNext]_writerVars
<1> SUFFICES ASSUME [Next]_vars PROVE [WriterNext]_writerVars
  OBVIOUS
<1> USE DEF WriterNext
<1>1. CASE UNCHANGED vars
  BY <1>1 DEF vars
<1>2. CASE LinkClosed
  BY <1>2 DEF LinkClosed, Close
<1>3. ASSUME NEW f \in Frame, Register(f) \/ Reply(f) \/ OnCloseDone(f)
      PROVE  UNCHANGED writerVars
  BY <1>3 DEF Register, Reply, OnCloseDone
<1>4. ASSUME NEW f \in Frame, Sender(f) PROVE [WriterNext]_writerVars
  BY <1>4 DEF Sender, StartWrite, WriteRaised, Close, WriteReturned, Unwind, Arm
<1>5. ASSUME NEW f \in Frame, WriterStep(f) \/ StrayJob(f) PROVE WriterNext
  BY <1>5 DEF WriterStep, StrayJob, Running
<1>6. ASSUME NEW f \in Frame, Acknowledge(f) \/ TimerFires(f) \/ AckTimeout(f)
      PROVE  UNCHANGED writerVars
  BY <1>6 DEF Acknowledge, TimerFires, AckTimeout
<1> QED BY <1>1, <1>2, <1>3, <1>4, <1>5, <1>6 DEF Next

\* A connection is a behaviour of its writer: closing, acknowledging and
\* timing out never take the gate, a job or the stream away from a write.
THEOREM WriterImplemented == Spec => WriterRefined
<1>1. Init => WriterInit
  BY DEF Init
<1> QED BY <1>1, WriterStepOrNone, PTL DEF Spec, WriterRefined, WriterSpec

\* On a connection that closes at any moment, with ACK timers running, nothing
\* is written behind a partial frame (docs/protocol.md:35-36).
THEOREM ConnectionStreamIntact == Spec => NothingAfterTorn
BY WriterImplemented, StreamIntact, PTL DEF WriterRefined

-----------------------------------------------------------------------------
(* The table of unacknowledged messages *)

\* an ACK timer belongs to a send that is over, and to one of its two lists
Timed ==
  /\ \A f \in timer \cup expiring : pc[f] = "sent"
  /\ timer \cap expiring = {}
  /\ pending \subseteq Data /\ timer \cup expiring \subseteq Data

ConnectionInv ==
  /\ pc \in [Frame -> Pc] /\ call \in [Frame -> CallState]
  /\ Timed /\ PendingWatched /\ CancelledIsClosed

\* A caller's steps keep the types of calls, and a call that raised stays so.
LEMMA RaisedStays ==
  ASSUME call \in [Frame -> CallState], [WriterNext]_writerVars
  PROVE  /\ call' \in [Frame -> CallState]
         /\ \A f \in Frame : call[f] = "raised" => call'[f] = "raised"
BY DEF WriterNext, Running, Caller, Job, Cancel, Call, DeadlinePasses, Acquire,
   GateTimesOut, Submit, Raise, Return, StartJob, Check, Write, WriteError,
   CallState, writerVars

\* Only a call that raises, and close, cancel the stream.
LEMMA OnlyRaiseCancels ==
  ASSUME call \in [Frame -> CallState], NEW f \in Frame, Running(f), ~cancelled, cancelled'
  PROVE  call'[f] = "raised"
BY Zenon DEF Running, Caller, Job, DeadlinePasses, Acquire, GateTimesOut, Submit, Raise,
   Return, StartJob, Check, Write, WriteError

\* A new connection satisfies the invariant.
LEMMA ConnectionStarts == Init => ConnectionInv
BY DEF Init, WriterInit, ConnectionInv, Timed, PendingWatched, CancelledIsClosed,
   Pc, CallState

\* Every critical section of the connection, and every step of its writer, keeps
\* the invariant.
LEMMA ConnectionKeeps == ConnectionInv /\ [Next]_vars => ConnectionInv'
<1> SUFFICES ASSUME ConnectionInv, [Next]_vars PROVE ConnectionInv'
  OBVIOUS
<1> USE ConnectionConstants DEF ConnectionConstants, ConnectionInv, Pc, Goto
<1>w. /\ call' \in [Frame -> CallState]
      /\ \A f \in Frame : call[f] = "raised" => call'[f] = "raised"
  BY WriterStepOrNone, RaisedStays
<1>1. CASE UNCHANGED vars
  BY <1>1, <1>w DEF vars, connectionVars, writerVars, Timed, PendingWatched, CancelledIsClosed
<1>2. CASE LinkClosed
  BY <1>2, <1>w DEF LinkClosed, Close, Cancel, Timed, PendingWatched, CancelledIsClosed
<1>3. ASSUME NEW f \in Frame, Register(f) PROVE ConnectionInv'
  BY <1>3, <1>w DEF Register, writerVars, Timed, PendingWatched,
     CancelledIsClosed
<1>4. ASSUME NEW f \in Frame, Reply(f) PROVE ConnectionInv'
  BY <1>4, <1>w DEF Reply, writerVars, Timed, PendingWatched, CancelledIsClosed
<1>5. ASSUME NEW f \in Frame, StartWrite(f) PROVE ConnectionInv'
  BY <1>5, <1>w DEF StartWrite, Call, writerVars, Timed, PendingWatched,
     CancelledIsClosed
<1>6. ASSUME NEW f \in Frame, WriterStep(f) PROVE ConnectionInv'
  BY <1>6, <1>w, OnlyRaiseCancels
  DEF WriterStep, connectionVars, Timed, PendingWatched, CancelledIsClosed
<1>7. ASSUME NEW f \in Frame, StrayJob(f) PROVE ConnectionInv'
  BY <1>7, <1>w DEF StrayJob, Job, StartJob, Check, Write, WriteError, connectionVars,
     Timed, PendingWatched, CancelledIsClosed
<1>8. ASSUME NEW f \in Frame, WriteRaised(f) PROVE ConnectionInv'
  BY <1>8, <1>w, Zenon DEF WriteRaised, Close, Cancel, writerVars, Timed, PendingWatched,
     CancelledIsClosed
<1>9. ASSUME NEW f \in Frame, WriteReturned(f) PROVE ConnectionInv'
  BY <1>9, <1>w DEF WriteReturned, writerVars, Timed, PendingWatched, CancelledIsClosed
<1>10. ASSUME NEW f \in Frame, Unwind(f) PROVE ConnectionInv'
  BY <1>10, <1>w DEF Unwind, Pop, writerVars, Timed, PendingWatched, CancelledIsClosed
<1>11. ASSUME NEW f \in Frame, Arm(f) PROVE ConnectionInv'
  BY <1>11, <1>w DEF Arm, writerVars, Timed, PendingWatched, CancelledIsClosed
<1>12. ASSUME NEW f \in Frame, Acknowledge(f) PROVE ConnectionInv'
  BY <1>12, <1>w DEF Acknowledge, Pop, writerVars, Timed, PendingWatched, CancelledIsClosed
<1>13. ASSUME NEW f \in Frame, TimerFires(f) PROVE ConnectionInv'
  BY <1>13, <1>w DEF TimerFires, writerVars, Timed, PendingWatched, CancelledIsClosed
<1>14. ASSUME NEW f \in Frame, AckTimeout(f) PROVE ConnectionInv'
  BY <1>14, <1>w DEF AckTimeout, Pop, writerVars, Timed, PendingWatched, CancelledIsClosed
<1>15. ASSUME NEW f \in Frame, OnCloseDone(f) PROVE ConnectionInv'
  BY <1>15, <1>w DEF OnCloseDone, writerVars, Timed, PendingWatched, CancelledIsClosed
<1> QED
  BY <1>1, <1>2, <1>3, <1>4, <1>5, <1>6, <1>7, <1>8, <1>9, <1>10, <1>11, <1>12,
     <1>13, <1>14, <1>15 DEF Next, Sender

\* While a connection is open, every message in the table is being sent or has
\* a timer that gives its place back, whichever of ACK, timeout, failed write
\* and close comes first (send_data, acknowledge, _ack_timeout, close).
THEOREM EveryPendingWatched == Spec => []PendingWatched
<1>1. ConnectionInv => PendingWatched
  BY DEF ConnectionInv
<1> QED BY <1>1, ConnectionStarts, ConnectionKeeps, PTL DEF Spec

\* A stream that was cancelled belongs to a closed connection as soon as the
\* call that cancelled it came back (_write closes on every exception).
THEOREM CancelledStreamCloses == Spec => []CancelledIsClosed
<1>1. ConnectionInv => CancelledIsClosed
  BY DEF ConnectionInv
<1> QED BY <1>1, ConnectionStarts, ConnectionKeeps, PTL DEF Spec

-----------------------------------------------------------------------------
(* The locks a failing send takes: threads that close links, or send after  *)
(* they released the call lock, never wait for each other in a circle,      *)
(* because nothing happens between taking that lock and releasing it.       *)

CONSTANTS Thread, Kind, MaxFailures
VARIABLES todo, locks, failures

Locks == INSTANCE LockOrder

TakeCall == <<"acquire", "call">>
DropCall == <<"release", "call">>

\* the call lock is released right after it was taken, and only then
Brief(q) ==
  /\ \A i \in 1..Len(q) : q[i] = TakeCall => i < Len(q) /\ q[i + 1] = DropCall
  /\ \A i \in 2..Len(q) : q[i] = DropCall => q[i - 1] = TakeCall

LockInv ==
  /\ todo \in [Thread -> Seq(Locks!Op)]
  /\ locks \in [Locks!Lock -> [owner: Thread \cup {None}, depth: Int]]
  /\ \A t \in Thread : Brief(todo[t])
  /\ locks["call"].depth = IF locks["call"].owner = None THEN 0 ELSE 1
  /\ \A t \in Thread : locks["call"].owner = t <=> Locks!Doing(t, DropCall)

\* What a thread still has to do stays brief when its first operation is done.
LEMMA BriefTail ==
  ASSUME NEW q \in Seq(Locks!Op), q # <<>>, Brief(q)
  PROVE  /\ Tail(q) \in Seq(Locks!Op) /\ Brief(Tail(q))
         /\ Head(q) = TakeCall <=> Tail(q) # <<>> /\ Head(Tail(q)) = DropCall
<1>1. /\ Tail(q) \in Seq(Locks!Op) /\ Len(Tail(q)) = Len(q) - 1 /\ Len(q) \in Nat \ {0}
      /\ \A i \in 1..Len(Tail(q)) : Tail(q)[i] = q[i + 1]
  OBVIOUS
<1>2. Brief(Tail(q))
  BY <1>1 DEF Brief
<1>3. Head(q) = q[1] /\ (Tail(q) # <<>> <=> 2 <= Len(q))
  <2>1. Tail(q) # <<>> => Len(Tail(q)) \in Nat \ {0}
    BY <1>1, EmptySeq
  <2>2. Tail(q) = <<>> => Len(Tail(q)) = 0
    BY EmptySeq, Zenon
  <2> QED BY <1>1, <2>1, <2>2
<1>4. ASSUME 2 <= Len(q) PROVE Head(Tail(q)) = q[2]
  BY <1>1, <1>4
<1>5. Head(q) = TakeCall => Tail(q) # <<>> /\ Head(Tail(q)) = DropCall
  BY <1>1, <1>3, <1>4 DEF Brief
<1>6. Tail(q) # <<>> /\ Head(Tail(q)) = DropCall => Head(q) = TakeCall
  BY <1>1, <1>3, <1>4 DEF Brief
<1> QED BY <1>1, <1>2, <1>5, <1>6

\* A failed write puts a close in front of it, which is brief as well.
LEMMA BriefClose ==
  ASSUME NEW q \in Seq(Locks!Op), Brief(q), q # <<>> => Head(q) # DropCall
  PROVE  /\ Locks!Close \o q \in Seq(Locks!Op) /\ Brief(Locks!Close \o q)
         /\ Head(Locks!Close \o q) # DropCall
<1> DEFINE w == Locks!Close \o q
<1>1. Locks!Close \in Seq(Locks!Op) /\ Len(Locks!Close) = 5
  BY DEF Locks!Close, Locks!Op, Locks!Lock
<1>2. /\ w \in Seq(Locks!Op) /\ Len(w) = 5 + Len(q) /\ Len(q) \in Nat
      /\ \A i \in 1..5 : w[i] = Locks!Close[i]
      /\ \A i \in 6..(5 + Len(q)) : w[i] = q[i - 5]
  <2>1. /\ w \in Seq(Locks!Op) /\ Len(w) = Len(Locks!Close) + Len(q)
        /\ \A i \in 1..(Len(Locks!Close) + Len(q)) :
             w[i] = IF i <= Len(Locks!Close) THEN Locks!Close[i] ELSE q[i - Len(Locks!Close)]
    BY <1>1, ConcatProperties, Zenon
  <2> HIDE DEF w
  <2> QED BY <1>1, <2>1
<1>3. /\ Locks!Close[1] \notin {TakeCall, DropCall}
      /\ Locks!Close[2] = TakeCall /\ Locks!Close[3] = DropCall
      /\ Locks!Close[4] \notin {TakeCall, DropCall}
      /\ Locks!Close[5] \notin {TakeCall, DropCall}
  BY DEF Locks!Close, TakeCall, DropCall
<1>4. 1 <= Len(q) => q[1] # DropCall
  OBVIOUS
<1> HIDE DEF w
<1>5. ASSUME NEW i \in 1..Len(w), w[i] = TakeCall
      PROVE  i < Len(w) /\ w[i + 1] = DropCall
  <2>1. CASE i \in 1..5
    <3>1. i = 1 \/ i = 2 \/ i = 3 \/ i = 4 \/ i = 5
      BY <2>1
    <3>2. Locks!Close[i] = TakeCall
      BY <1>2, <1>5, <2>1
    <3>3. i = 2
      BY <3>1, <3>2 DEF Locks!Close, TakeCall
    <3> QED BY <1>2, <1>3, <3>3
  <2>2. CASE i \notin 1..5
    <3>1. i - 5 \in 1..Len(q) /\ q[i - 5] = TakeCall
      BY <1>2, <1>5, <2>2, SMTT(30)
    <3>2. i - 5 < Len(q) /\ q[i - 5 + 1] = DropCall
      BY <3>1 DEF Brief
    <3>3. i + 1 \in 6..(5 + Len(q)) /\ i + 1 - 5 = i - 5 + 1
      BY <1>2, <2>2, <3>2
    <3> QED BY <1>2, <3>2, <3>3
  <2> QED BY <2>1, <2>2
<1>6. ASSUME NEW i \in 2..Len(w), w[i] = DropCall
      PROVE  w[i - 1] = TakeCall
  <2>1. CASE i \in 2..5
    <3>1. i = 2 \/ i = 3 \/ i = 4 \/ i = 5
      BY <2>1
    <3>2. Locks!Close[i] = DropCall
      BY <1>2, <1>6, <2>1
    <3>3. i = 3
      BY <3>1, <3>2 DEF Locks!Close, DropCall
    <3> QED BY <1>2, <1>3, <3>3
  <2>2. CASE i \notin 2..5
    <3>1. i - 5 \in 1..Len(q) /\ q[i - 5] = DropCall
      BY <1>2, <1>6, <2>2
    <3>2. i - 5 \in 2..Len(q)
      BY <1>2, <1>4, <3>1
    <3>3. q[i - 5 - 1] = TakeCall
      BY <3>1, <3>2 DEF Brief
    <3>4. i - 1 \in 6..(5 + Len(q)) /\ i - 1 - 5 = i - 5 - 1
      BY <1>2, <3>2
    <3> QED BY <1>2, <3>3, <3>4, Zenon
  <2> QED BY <2>1, <2>2
<1>7. Head(w) = w[1] /\ w[1] = Locks!Close[1]
  BY <1>2
<1> QED BY <1>2, <1>3, <1>5, <1>6, <1>7, Zenon DEF w, Brief

\* Closes and handlers start with brief programs and free locks.
LEMMA LocksStart == Locks!NoRefusals /\ None \notin Thread /\ Locks!Init => LockInv
<1> SUFFICES ASSUME Locks!NoRefusals, None \notin Thread, Locks!Init PROVE LockInv
  OBVIOUS
<1>1. Locks!Close \in Seq(Locks!Op) /\ Locks!Handler \in Seq(Locks!Op)
  BY DEF Locks!Close, Locks!Handler, Locks!Op, Locks!Lock
<1>2. Brief(Locks!Close) /\ Brief(Locks!Handler)
  BY DEF Brief, Locks!Close, Locks!Handler, TakeCall, DropCall
<1>3. \A t \in Thread : todo[t] \in {Locks!Close, Locks!Handler}
  BY Zenon DEF Locks!Init, Locks!NoRefusals, Locks!Program
<1>4. todo \in [Thread -> Seq(Locks!Op)] /\ \A t \in Thread : Brief(todo[t])
  BY <1>1, <1>2, <1>3 DEF Locks!Init
<1>5. /\ locks \in [Locks!Lock -> [owner: Thread \cup {None}, depth: Int]]
      /\ locks["call"] = [owner |-> None, depth |-> 0]
  BY DEF Locks!Init, Locks!Lock
<1>6. \A t \in Thread : Head(todo[t]) # DropCall
  <2>1. Head(Locks!Close) # DropCall /\ Head(Locks!Handler) # DropCall
    BY DEF Locks!Close, Locks!Handler, DropCall
  <2> QED BY <1>3, <2>1, Zenon
<1>7. \A t \in Thread : locks["call"].owner # t
  BY <1>5
<1> QED BY <1>4, <1>5, <1>6, <1>7 DEF LockInv, Locks!Doing

\* Every operation on a lock and every send, failed ones included, keeps the
\* call lock with a thread that is about to release it.
LEMMA LocksKeep == None \notin Thread /\ LockInv /\ [Locks!Next]_(Locks!vars) => LockInv'
<1> SUFFICES ASSUME None \notin Thread, LockInv, [Locks!Next]_(Locks!vars) PROVE LockInv'
  OBVIOUS
<1>1. CASE UNCHANGED Locks!vars
  BY <1>1 DEF Locks!vars, LockInv, Locks!Doing
<1>2. SUFFICES ASSUME NEW t \in Thread, Locks!Step(t) PROVE LockInv'
  BY <1>1 DEF Locks!Next
<1> DEFINE q == todo[t]
<1>3. q \in Seq(Locks!Op) /\ Brief(q)
  BY DEF LockInv
<1>4. ASSUME q # <<>>
      PROVE  /\ Tail(q) \in Seq(Locks!Op) /\ Brief(Tail(q))
             /\ Head(q) = TakeCall <=> Tail(q) # <<>> /\ Head(Tail(q)) = DropCall
  BY <1>3, <1>4, BriefTail
<1>5. ASSUME NEW new \in Seq(Locks!Op), Brief(new), todo' = [todo EXCEPT ![t] = new]
      PROVE  /\ todo' \in [Thread -> Seq(Locks!Op)] /\ \A u \in Thread : Brief(todo'[u])
             /\ todo'[t] = new /\ \A u \in Thread \ {t} : todo'[u] = todo[u]
  BY <1>5 DEF LockInv
<1>6. CASE Locks!SendWorks(t) \/ Locks!SendFails(t)
  <2>1. q # <<>> /\ Head(q) = <<"send">> /\ UNCHANGED locks
    BY <1>6 DEF Locks!SendWorks, Locks!SendFails, Locks!Doing
  <2>2. Head(q) # TakeCall /\ Head(q) # DropCall
    BY <2>1 DEF TakeCall, DropCall
  <2>3. locks["call"].owner # t
    BY <2>1, <2>2 DEF LockInv, Locks!Doing
  <2>4. PICK new \in Seq(Locks!Op) : /\ Brief(new) /\ todo' = [todo EXCEPT ![t] = new]
                                     /\ new # <<>> => Head(new) # DropCall
    <3>1. CASE Locks!SendWorks(t)
      BY <1>4, <2>1, <2>2, <3>1, Zenon DEF Locks!SendWorks
    <3>2. CASE Locks!SendFails(t)
      BY <1>4, <2>1, <2>2, <3>2, BriefClose, Zenon DEF Locks!SendFails
    <3> QED BY <1>6, <3>1, <3>2
  <2>5. /\ todo' \in [Thread -> Seq(Locks!Op)] /\ \A u \in Thread : Brief(todo'[u])
        /\ todo'[t] = new /\ \A u \in Thread \ {t} : todo'[u] = todo[u]
    BY <1>5, <2>4, Zenon
  <2>6. ~(todo'[t] # <<>> /\ Head(todo'[t]) = DropCall)
    BY <2>4, <2>5, Zenon
  <2> QED BY <2>1, <2>3, <2>5, <2>6, Zenon DEF LockInv, Locks!Doing
<1>7. ASSUME NEW l \in Locks!Lock, Locks!Acquire(t, l) PROVE LockInv'
  <2>1. /\ q # <<>> /\ Head(q) = <<"acquire", l>> /\ locks[l].owner \in {None, t}
        /\ locks' = [locks EXCEPT ![l] = [owner |-> t, depth |-> @.depth + 1]]
        /\ todo' = [todo EXCEPT ![t] = Tail(q)]
    BY <1>7 DEF Locks!Acquire, Locks!Doing
  <2>2. locks["call"].owner # t
    BY <2>1 DEF LockInv, Locks!Doing, DropCall
  <2>3. locks' \in [Locks!Lock -> [owner: Thread \cup {None}, depth: Int]]
    BY <2>1 DEF LockInv
  <2>4. /\ todo' \in [Thread -> Seq(Locks!Op)] /\ \A u \in Thread : Brief(todo'[u])
        /\ todo'[t] = Tail(q) /\ \A u \in Thread \ {t} : todo'[u] = todo[u]
    BY <1>4, <1>5, <2>1, Zenon
  <2>5. CASE l = "call"
    <3>1. locks["call"] = [owner |-> None, depth |-> 0]
      BY <2>1, <2>2, <2>5 DEF LockInv, Locks!Lock
    <3>2. locks'["call"] = [owner |-> t, depth |-> 1]
      BY <2>1, <2>5, <3>1 DEF LockInv, Locks!Lock
    <3>3. Tail(q) # <<>> /\ Head(Tail(q)) = DropCall
      BY <1>4, <2>1, <2>5 DEF TakeCall
    <3>4. \A u \in Thread : locks'["call"].owner = u <=> Locks!Doing(u, DropCall)'
      <4>1. locks'["call"].owner = t /\ Locks!Doing(t, DropCall)'
        BY <2>4, <3>2, <3>3 DEF Locks!Doing
      <4>2. ASSUME NEW u \in Thread \ {t}
            PROVE  locks'["call"].owner # u /\ ~Locks!Doing(u, DropCall)'
        <5>1. ~Locks!Doing(u, DropCall)
          BY <3>1 DEF LockInv
        <5> QED BY <2>4, <3>2, <5>1 DEF Locks!Doing
      <4> QED BY <4>1, <4>2
    <3> QED BY <2>3, <2>4, <3>2, <3>4 DEF LockInv
  <2>6. CASE l = "session"
    <3>1. locks'["call"] = locks["call"]
      BY <2>1, <2>6 DEF LockInv, Locks!Lock
    <3>2. ~(Tail(q) # <<>> /\ Head(Tail(q)) = DropCall)
      BY <1>4, <2>1, <2>6 DEF TakeCall
    <3> QED BY <2>2, <2>3, <2>4, <3>1, <3>2, Zenon DEF LockInv, Locks!Doing
  <2> QED BY <2>5, <2>6 DEF Locks!Lock
<1>8. ASSUME NEW l \in Locks!Lock, Locks!Release(t, l) PROVE LockInv'
  <2>1. /\ q # <<>> /\ Head(q) = <<"release", l>>
        /\ locks' = [locks EXCEPT ![l] =
             [owner |-> IF @.depth = 1 THEN None ELSE t, depth |-> @.depth - 1]]
        /\ todo' = [todo EXCEPT ![t] = Tail(q)]
    BY <1>8 DEF Locks!Release, Locks!Doing
  <2>2. locks' \in [Locks!Lock -> [owner: Thread \cup {None}, depth: Int]]
    BY <2>1 DEF LockInv
  <2>3. /\ todo' \in [Thread -> Seq(Locks!Op)] /\ \A u \in Thread : Brief(todo'[u])
        /\ todo'[t] = Tail(q) /\ \A u \in Thread \ {t} : todo'[u] = todo[u]
    BY <1>4, <1>5, <2>1, Zenon
  <2>4. ~(Tail(q) # <<>> /\ Head(Tail(q)) = DropCall)
    BY <1>4, <2>1 DEF TakeCall
  <2>5. CASE l = "call"
    <3>1. locks["call"] = [owner |-> t, depth |-> 1]
      BY <2>1, <2>5 DEF LockInv, Locks!Doing, DropCall, Locks!Lock
    <3>2. locks'["call"] = [owner |-> None, depth |-> 0]
      BY <2>1, <2>5, <3>1 DEF LockInv, Locks!Lock
    <3>3. \A u \in Thread : locks'["call"].owner = u <=> Locks!Doing(u, DropCall)'
      <4>1. locks'["call"].owner # t /\ ~Locks!Doing(t, DropCall)'
        BY <2>3, <2>4, <3>2 DEF Locks!Doing
      <4>2. ASSUME NEW u \in Thread \ {t}
            PROVE  locks'["call"].owner # u /\ ~Locks!Doing(u, DropCall)'
        <5>1. ~Locks!Doing(u, DropCall)
          BY <3>1 DEF LockInv
        <5> QED BY <2>3, <3>2, <5>1 DEF Locks!Doing
      <4> QED BY <4>1, <4>2
    <3> QED BY <2>2, <2>3, <3>2, <3>3 DEF LockInv
  <2>6. CASE l = "session"
    <3>1. locks'["call"] = locks["call"] /\ locks["call"].owner # t
      BY <2>1, <2>6 DEF LockInv, Locks!Lock, Locks!Doing, DropCall
    <3> QED BY <2>2, <2>3, <2>4, <3>1, Zenon DEF LockInv, Locks!Doing
  <2> QED BY <2>5, <2>6 DEF Locks!Lock
<1> QED BY <1>2, <1>6, <1>7, <1>8 DEF Locks!Step

\* Threads that close links, and handlers that send after they released
\* CallService._lock, never wait for each other in a circle, however many
\* there are and however many of their writes fail (_connection_closed,
\* CallService.disconnected and the handlers' broadcasts).
THEOREM NoDeadlockWithoutRefusals ==
  Locks!NoRefusals /\ None \notin Thread /\ Locks!Spec => []Locks!NoCircularWait
<1> SUFFICES ASSUME Locks!NoRefusals, None \notin Thread
             PROVE  Locks!Spec => []Locks!NoCircularWait
  OBVIOUS
<1>1. LockInv => Locks!NoCircularWait
  <2> SUFFICES ASSUME LockInv, NEW t \in Thread, NEW u \in Thread, t # u,
                      Locks!Waits(t, u), Locks!Waits(u, t)
               PROVE  FALSE
    BY DEF Locks!NoCircularWait
  <2>1. PICK l \in Locks!Lock : Locks!Doing(t, <<"acquire", l>>) /\ locks[l].owner = u
    BY DEF Locks!Waits
  <2>2. PICK m \in Locks!Lock : Locks!Doing(u, <<"acquire", m>>) /\ locks[m].owner = t
    BY DEF Locks!Waits
  <2>3. l # "call" /\ m # "call"
    BY <2>1, <2>2 DEF LockInv, Locks!Doing, DropCall
  <2> QED BY <2>1, <2>2, <2>3 DEF Locks!Lock
<1> QED BY <1>1, LocksStart, LocksKeep, PTL DEF Locks!Spec

=============================================================================
