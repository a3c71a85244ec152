------------------------------ MODULE FileStore ------------------------------
(***************************************************************************)
(* Encrypted file storage.  Python owns the SQLite tables `files' and      *)
(* `chunks' and answers metadata requests; the Go child writes and reads   *)
(* the blobs under a flock that Python's control requests and cleanup take *)
(* too.  A Go operation that gives up drops the flock although the request *)
(* it sent may still be queued in Python, so a commit can be served late.  *)
(*                                                                         *)
(* One stripe lock per file; a blob range of a chunk holds a digest, or    *)
(* Hole (never written), or Torn (half written or lost).  The lock is held *)
(* exactly while an operation or the sweep is between acquire and close,   *)
(* so it is read off their program counters.                               *)
(***************************************************************************)
EXTENDS Naturals, FiniteSets

CONSTANTS
  File, Owner, Chunk, Digest,
  Batch,       \* the uploads tried: Chunk -> Digest, None where a batch has none
  Op,          \* the operations of the Go child
  MaxActive,   \* MAX_ACTIVE_FILES_PER_OWNER
  MaxLeases,   \* entries of native_writes (2048)
  MaxFaults,   \* bound on I/O errors, restarts and power losses
  Hole, Torn, None

ASSUME FileConstants ==
  /\ Batch \subseteq [Chunk -> Digest \cup {None}]
  /\ MaxActive \in Nat \ {0} /\ MaxLeases \in Nat \ {0} /\ MaxFaults \in Nat
  /\ IsFiniteSet(File)
  /\ Hole \notin Digest /\ Torn \notin Digest /\ Hole # Torn
  /\ None \notin File \cup Owner \cup Digest \cup Op
  /\ None \notin [Chunk -> Digest \cup {Hole, Torn}]

VARIABLES
  rows,           \* the files table: owner, state, age of each id
  chunks,         \* the chunks table: the digest indexed for each chunk
  blob,           \* <id>.bin
  dirty,          \* blob ranges written and not yet synced
  native_writes,  \* the lease of the last prepare of each file
  op,             \* fileOperation, fileDownloadBatch
  ipc,            \* the request of an operation that Python has not served
  sweep,          \* cleanup
  acked,          \* what clients were told is stored
  asked,          \* files whose deletion was requested
  faults

tables == <<rows, chunks>>
disk == <<blob, dirty>>
told == <<acked, asked>>
vars == <<tables, disk, native_writes, op, ipc, sweep, told, faults>>

Row == [owner : Owner, state : {"uploading", "ready", "expired", "deleted"},
        age : {"live", "lapsed", "old"}]
Lease == [token : Op, owner : Owner, batch : Batch]
Idle == [pc |-> "idle"]
Done == [pc |-> "done"]
Upload == [pc : {"prepare", "write", "commit"}, file : File, user : Owner,
           batch : Batch, plan : SUBSET Chunk, attached : BOOLEAN]
Download == [pc : {"read", "disk"}, file : File, attached : BOOLEAN]
Nothing == [i \in Chunk |-> None]

-----------------------------------------------------------------------------
(* The flock *)

Holding(o) == op[o].pc \in {"prepare", "write", "commit", "read", "disk"}
Writing(o) == op[o].pc \in {"prepare", "write", "commit"}

\* LOCK_SH for a download, LOCK_EX for everything else
Shareable(f) ==
  /\ sweep.at # f
  /\ \A o \in Op : Writing(o) => op[o].file # f

Free(f) ==
  /\ sweep.at # f
  /\ \A o \in Op : Holding(o) => op[o].file # f

-----------------------------------------------------------------------------
(* FileStore: control requests, each one transaction under the flock *)

Exists(f) == rows[f] # None /\ rows[f].state # "deleted"
Servable(f) == Exists(f) /\ rows[f].state # "expired" /\ rows[f].age = "live"
Active(u) == {f \in File : /\ rows[f] # None /\ rows[f].owner = u
                           /\ rows[f].state \in {"uploading", "ready"}
                           /\ rows[f].age = "live"}

UnderLimit(u) == Cardinality(Active(u)) < MaxActive

\* create: open(`xb'), fsync of the directory, INSERT
Create(f, u) ==
  /\ Free(f) /\ rows[f] = None /\ UnderLimit(u)
  /\ blob[f] = None
  /\ rows' = [rows EXCEPT ![f] = [owner |-> u, state |-> "uploading", age |-> "live"]]
  /\ blob' = [blob EXCEPT ![f] = [i \in Chunk |-> Hole]]
  /\ native_writes' = [native_writes EXCEPT ![f] = None]
  /\ acked' = [acked EXCEPT ![f] = Nothing]
  /\ asked' = asked \ {f}
  /\ UNCHANGED <<chunks, dirty, op, ipc, sweep, faults>>

\* The blob is there already, or an error follows its creation: the
\* transaction rolls back and the blob stays
CreateFails(f, u) ==
  /\ Free(f) /\ rows[f] = None /\ UnderLimit(u)
  /\ IF blob[f] = None
       THEN /\ faults < MaxFaults
            /\ blob' = [blob EXCEPT ![f] = [i \in Chunk |-> Hole]]
            /\ faults' = faults + 1
       ELSE UNCHANGED <<blob, faults>>
  /\ native_writes' = [native_writes EXCEPT ![f] = None]
  /\ UNCHANGED <<tables, dirty, op, ipc, sweep, told>>

Delete(f, u) ==
  /\ Free(f) /\ Exists(f) /\ rows[f].owner = u
  /\ rows' = [rows EXCEPT ![f].state = "deleted"]
  /\ chunks' = [chunks EXCEPT ![f] = Nothing]
  /\ blob' = [blob EXCEPT ![f] = None]
  /\ dirty' = [dirty EXCEPT ![f] = {}]
  /\ native_writes' = [native_writes EXCEPT ![f] = None]
  /\ asked' = asked \cup {f}
  /\ UNCHANGED <<op, ipc, sweep, acked, faults>>

\* An error, or the end of the process, before the commit: the rows roll back,
\* the lease and perhaps the blob are gone
DeleteFails(f, u) ==
  /\ Free(f) /\ Exists(f) /\ rows[f].owner = u /\ faults < MaxFaults
  /\ \/ UNCHANGED disk
     \/ /\ blob' = [blob EXCEPT ![f] = None]
        /\ dirty' = [dirty EXCEPT ![f] = {}]
  /\ native_writes' = [native_writes EXCEPT ![f] = None]
  /\ asked' = asked \cup {f}
  /\ faults' = faults + 1
  /\ UNCHANGED <<tables, op, ipc, sweep, acked>>

Finish(f, u) ==
  /\ Free(f) /\ Servable(f) /\ rows[f].owner = u
  /\ \A i \in Chunk : chunks[f][i] # None
  /\ rows' = [rows EXCEPT ![f].state = "ready"]
  /\ UNCHANGED <<chunks, disk, native_writes, op, ipc, sweep, told, faults>>

\* `expires' passes, then seven more days
Lapse(f) ==
  /\ rows[f] # None /\ rows[f].age # "old"
  /\ rows' = [rows EXCEPT ![f].age = IF @ = "live" THEN "lapsed" ELSE "old"]
  /\ UNCHANGED <<chunks, disk, native_writes, op, ipc, sweep, told, faults>>

-----------------------------------------------------------------------------
(* cleanup *)

SweepBegin ==
  /\ sweep.pc = "idle"
  /\ sweep' = [pc |-> "rows", at |-> None,
               todo |-> {f \in File : /\ rows[f] # None
                                      /\ \/ rows[f].age # "live"
                                         \/ rows[f].state \in {"expired", "deleted"}},
               purge |-> {f \in File : rows[f] # None /\ rows[f].age = "old"}]
  /\ UNCHANGED <<tables, disk, native_writes, op, ipc, told, faults>>

\* mutant: the blob goes without the flock
SweepUnlinkUnlocked(f) ==
  /\ sweep.pc = "rows" /\ sweep.at = None /\ f \in sweep.todo
  /\ sweep' = [sweep EXCEPT !.at = f, !.todo = @ \ {f}]
  /\ blob' = [blob EXCEPT ![f] = None]
  /\ dirty' = [dirty EXCEPT ![f] = {}]
  /\ UNCHANGED <<tables, native_writes, op, ipc, told, faults>>

SweepUnlink(f) ==
  /\ sweep.pc = "rows" /\ sweep.at = None /\ f \in sweep.todo /\ Free(f)
  /\ sweep' = [sweep EXCEPT !.at = f, !.todo = @ \ {f}]
  /\ blob' = [blob EXCEPT ![f] = None]
  /\ dirty' = [dirty EXCEPT ![f] = {}]
  /\ UNCHANGED <<tables, native_writes, op, ipc, told, faults>>

Swept(f) ==
  IF rows[f].state = "deleted" \/ f \in sweep.purge
    THEN None
    ELSE [rows[f] EXCEPT !.state = "expired"]

SweepCommit(f) ==
  /\ sweep.at = f
  /\ rows' = [rows EXCEPT ![f] = IF @ = None THEN None ELSE Swept(f)]
  /\ chunks' = [chunks EXCEPT ![f] = Nothing]
  /\ native_writes' = [native_writes EXCEPT ![f] = None]
  /\ sweep' = [sweep EXCEPT !.at = None]
  /\ UNCHANGED <<disk, op, ipc, told, faults>>

\* mutant: blobs without a row are not looked for
SweepGlobNothing ==
  /\ sweep.pc = "rows" /\ sweep.at = None /\ sweep.todo = {}
  /\ sweep' = [sweep EXCEPT !.pc = "blobs"]
  /\ UNCHANGED <<tables, disk, native_writes, op, ipc, told, faults>>

SweepGlob ==
  /\ sweep.pc = "rows" /\ sweep.at = None /\ sweep.todo = {}
  /\ sweep' = [sweep EXCEPT !.pc = "blobs", !.todo = {f \in File : blob[f] # None}]
  /\ UNCHANGED <<tables, disk, native_writes, op, ipc, told, faults>>

SweepOrphan(f) ==
  /\ sweep.pc = "blobs" /\ f \in sweep.todo /\ Free(f)
  /\ IF rows[f] # None
       THEN UNCHANGED disk
       ELSE /\ blob' = [blob EXCEPT ![f] = None]
            /\ dirty' = [dirty EXCEPT ![f] = {}]
  /\ sweep' = [sweep EXCEPT !.todo = @ \ {f}]
  /\ UNCHANGED <<tables, native_writes, op, ipc, told, faults>>

NoSweep == [pc |-> "idle", at |-> None, todo |-> {}, purge |-> {}]

SweepEnd ==
  /\ sweep.pc = "blobs" /\ sweep.todo = {}
  /\ sweep' = NoSweep
  /\ UNCHANGED <<tables, disk, native_writes, op, ipc, told, faults>>

\* cleanup_loop logs the exception and tries again after CLEANUP_INTERVAL
SweepFails ==
  /\ sweep.pc # "idle" /\ faults < MaxFaults
  /\ sweep' = NoSweep
  /\ faults' = faults + 1
  /\ UNCHANGED <<tables, disk, native_writes, op, ipc, told>>

-----------------------------------------------------------------------------
(* fileOperation and fileDownloadBatch, and the requests they send *)

\* lockFile, then the prepare request
StartUpload(o, f, u, b) ==
  /\ op[o] = Idle /\ Free(f)
  /\ op' = [op EXCEPT ![o] = [pc |-> "prepare", file |-> f, user |-> u, batch |-> b,
                              plan |-> {}, attached |-> TRUE]]
  /\ ipc' = [ipc EXCEPT ![o] = [kind |-> "prepare", file |-> f, user |-> u, batch |-> b]]
  /\ UNCHANGED <<tables, disk, native_writes, sweep, told, faults>>

StartDownload(o, f) ==
  /\ op[o] = Idle /\ Shareable(f)
  /\ op' = [op EXCEPT ![o] = [pc |-> "read", file |-> f, attached |-> TRUE]]
  /\ ipc' = [ipc EXCEPT ![o] = [kind |-> "read", file |-> f]]
  /\ UNCHANGED <<tables, disk, native_writes, sweep, told, faults>>

\* the checks native_file_request makes of a prepare and of a commit
Acceptable(r) ==
  /\ Servable(r.file)
  /\ rows[r.file].owner = r.user
  /\ rows[r.file].state = "uploading"
  /\ \A i \in Chunk : r.batch[i] # None => chunks[r.file][i] \in {None, r.batch[i]}

Unindexed(r) == {i \in Chunk : r.batch[i] # None /\ chunks[r.file][i] = None}

Asks(o, kind) == ipc[o] # None /\ ipc[o].kind = kind

\* secrets.token_hex: an operation prepares once, so its name will do
Token(o) == o

\* A newer prepare replaces the lease.  The reply reaches the operation if it
\* still waits; with nothing to write it sends its commit at once.
Prepare(o) ==
  /\ Asks(o, "prepare") /\ Acceptable(ipc[o])
  /\ LET f == ipc[o].file
         plan == Unindexed(ipc[o])
         waits == op[o].pc = "prepare"
     IN  /\ \/ native_writes[f] # None
            \/ Cardinality({g \in File : native_writes[g] # None}) < MaxLeases
         /\ native_writes' = [native_writes EXCEPT ![f] =
              [token |-> Token(o), owner |-> rows[f].owner, batch |-> ipc[o].batch]]
         /\ op' = IF waits THEN [op EXCEPT ![o].pc = IF plan = {} THEN "commit" ELSE "write",
                                           ![o].plan = plan]
                           ELSE op
         /\ ipc' = IF waits /\ plan = {} THEN [ipc EXCEPT ![o].kind = "commit"]
                                         ELSE [ipc EXCEPT ![o] = None]
  /\ UNCHANGED <<tables, disk, sweep, told, faults>>

WriteAt(o, i) ==
  /\ op[o].pc = "write" /\ i \in op[o].plan /\ blob[op[o].file] # None
  /\ blob' = [blob EXCEPT ![op[o].file][i] = op[o].batch[i]]
  /\ dirty' = [dirty EXCEPT ![op[o].file] = @ \cup {i}]
  /\ op' = [op EXCEPT ![o].plan = @ \ {i}]
  /\ UNCHANGED <<tables, native_writes, ipc, sweep, told, faults>>

\* a short write, or an error
WriteFails(o, i) ==
  /\ op[o].pc = "write" /\ i \in op[o].plan /\ blob[op[o].file] # None
  /\ faults < MaxFaults
  /\ blob' = [blob EXCEPT ![op[o].file][i] = Torn]
  /\ dirty' = [dirty EXCEPT ![op[o].file] = @ \cup {i}]
  /\ op' = [op EXCEPT ![o] = Done]
  /\ faults' = faults + 1
  /\ UNCHANGED <<tables, native_writes, ipc, sweep, told>>

Committing(o) ==
  /\ op' = [op EXCEPT ![o].pc = "commit"]
  /\ ipc' = [ipc EXCEPT ![o] = [kind |-> "commit", file |-> op[o].file,
                                user |-> op[o].user, batch |-> op[o].batch]]

\* mutant: the client is answered before the commit
SyncAcksEarly(o) ==
  /\ op[o].pc = "write" /\ op[o].plan = {} /\ op[o].attached
  /\ dirty' = [dirty EXCEPT ![op[o].file] = {}]
  /\ Committing(o)
  /\ acked' = [acked EXCEPT ![op[o].file] =
       [i \in Chunk |-> IF op[o].batch[i] # None THEN op[o].batch[i] ELSE @[i]]]
  /\ UNCHANGED <<tables, blob, native_writes, sweep, asked, faults>>

\* f.Sync(), then the commit request
SyncAndCommit(o) ==
  /\ op[o].pc = "write" /\ op[o].plan = {} /\ op[o].attached
  /\ dirty' = [dirty EXCEPT ![op[o].file] = {}]
  /\ Committing(o)
  /\ UNCHANGED <<tables, blob, native_writes, sweep, told, faults>>

\* mutant: any lease will do
LeaseAny(o) ==
  LET l == native_writes[ipc[o].file] IN l # None /\ l.owner = ipc[o].user

LeaseIs(o) ==
  LET l == native_writes[ipc[o].file]
  IN  l # None /\ l.token = o /\ l.owner = ipc[o].user /\ l.batch = ipc[o].batch

\* served late when the operation no longer waits: nobody hears of it
Commit(o) ==
  /\ Asks(o, "commit") /\ Acceptable(ipc[o]) /\ LeaseIs(o)
  /\ LET f == ipc[o].file
         b == ipc[o].batch
     IN  /\ chunks' = [chunks EXCEPT ![f] =
              [i \in Chunk |-> IF b[i] # None THEN b[i] ELSE @[i]]]
         /\ native_writes' = [native_writes EXCEPT ![f] = None]
         /\ acked' = IF op[o].pc = "commit"
                       THEN [acked EXCEPT ![f] =
                              [i \in Chunk |-> IF b[i] # None THEN b[i] ELSE @[i]]]
                       ELSE acked
  /\ op' = IF op[o].pc = "commit" THEN [op EXCEPT ![o] = Done] ELSE op
  /\ ipc' = [ipc EXCEPT ![o] = None]
  /\ UNCHANGED <<rows, disk, sweep, asked, faults>>

\* read, read_batch
Read(o) ==
  /\ Asks(o, "read") /\ Servable(ipc[o].file) /\ rows[ipc[o].file].state = "ready"
  /\ op' = IF op[o].pc = "read" THEN [op EXCEPT ![o].pc = "disk"] ELSE op
  /\ ipc' = [ipc EXCEPT ![o] = None]
  /\ UNCHANGED <<tables, disk, native_writes, sweep, told, faults>>

ReadAt(o) ==
  /\ op[o].pc = "disk"
  /\ op' = [op EXCEPT ![o] = Done]
  /\ UNCHANGED <<tables, disk, native_writes, ipc, sweep, told, faults>>

\* A request is refused: by the checks above, for want of an attached session
\* or of a slot, or because SQLite failed
Refuse(o) ==
  /\ ipc[o] # None
  /\ ipc' = [ipc EXCEPT ![o] = None]
  /\ op' = IF op[o].pc = ipc[o].kind THEN [op EXCEPT ![o] = Done] ELSE op
  /\ UNCHANGED <<tables, disk, native_writes, sweep, told, faults>>

\* ctx is done after 30 s or with its connection, or the blob cannot be opened:
\* the deferred Close drops the flock, and the request stays in Python's queue
GiveUp(o) ==
  /\ Holding(o)
  /\ op' = [op EXCEPT ![o] = Done]
  /\ UNCHANGED <<tables, disk, native_writes, ipc, sweep, told, faults>>

\* the 120 s of a lease are over
LeaseLapses(f) ==
  /\ native_writes[f] # None
  /\ native_writes' = [native_writes EXCEPT ![f] = None]
  /\ UNCHANGED <<tables, disk, op, ipc, sweep, told, faults>>

-----------------------------------------------------------------------------
(* Restarts *)

\* Python ends and is started again with a new child.  An operation of the old
\* child that waits for Python fails; one at the disk goes on, under its flock.
Restart ==
  /\ faults < MaxFaults
  /\ native_writes' = [f \in File |-> None]
  /\ ipc' = [o \in Op |-> None]
  /\ op' = [o \in Op |-> IF op[o].pc \in {"prepare", "commit", "read"} THEN Done
                         ELSE IF op[o].pc \in {"write", "disk"}
                                THEN [op[o] EXCEPT !.attached = FALSE]
                         ELSE op[o]]
  /\ sweep' = NoSweep
  /\ faults' = faults + 1
  /\ UNCHANGED <<tables, disk, told>>

\* The machine stops: what was not synced may be lost, in part or in whole
PowerLoss ==
  /\ faults < MaxFaults
  /\ \E lost \in [File -> SUBSET Chunk] :
       /\ \A f \in File : lost[f] \subseteq dirty[f]
       /\ blob' = [f \in File |->
            IF blob[f] = None THEN None
            ELSE [i \in Chunk |-> IF i \in lost[f] THEN Torn ELSE blob[f][i]]]
  /\ dirty' = [f \in File |-> {}]
  /\ native_writes' = [f \in File |-> None]
  /\ ipc' = [o \in Op |-> None]
  /\ op' = [o \in Op |-> IF Holding(o) THEN Done ELSE op[o]]
  /\ sweep' = NoSweep
  /\ faults' = faults + 1
  /\ UNCHANGED <<tables, told>>

-----------------------------------------------------------------------------

Init ==
  /\ rows = [f \in File |-> None]
  /\ chunks = [f \in File |-> Nothing]
  /\ blob = [f \in File |-> None]
  /\ dirty = [f \in File |-> {}]
  /\ native_writes = [f \in File |-> None]
  /\ op = [o \in Op |-> Idle]
  /\ ipc = [o \in Op |-> None]
  /\ sweep = NoSweep
  /\ acked = [f \in File |-> Nothing]
  /\ asked = {}
  /\ faults = 0

Control ==
  \/ \E f \in File, u \in Owner : \/ Create(f, u) \/ CreateFails(f, u)
                                  \/ Delete(f, u) \/ DeleteFails(f, u)
                                  \/ Finish(f, u)
  \/ \E f \in File : Lapse(f) \/ LeaseLapses(f)

Sweep ==
  \/ SweepBegin \/ SweepGlob \/ SweepEnd
  \/ \E f \in File : SweepUnlink(f) \/ SweepCommit(f) \/ SweepOrphan(f)

Serve(o) == Prepare(o) \/ Commit(o) \/ Read(o) \/ Refuse(o)

Work(o) ==
  \/ SyncAndCommit(o) \/ ReadAt(o)
  \/ \E i \in Chunk : WriteAt(o, i)

Operation(o) ==
  \/ \E f \in File, u \in Owner, b \in Batch : StartUpload(o, f, u, b)
  \/ \E f \in File : StartDownload(o, f)
  \/ Serve(o) \/ Work(o) \/ GiveUp(o)
  \/ \E i \in Chunk : WriteFails(o, i)

Next ==
  \/ Control \/ Sweep \/ SweepFails
  \/ \E o \in Op : Operation(o)
  \/ Restart \/ PowerLoss

Spec == Init /\ [][Next]_vars

\* The cleanup thread loops; an operation ends at the latest with its timeout.
FairSpec ==
  /\ Spec
  /\ WF_vars(Sweep)
  /\ \A o \in Op : WF_vars(GiveUp(o))

-----------------------------------------------------------------------------
(* Properties *)

Request == [kind : {"prepare", "commit"}, file : File, user : Owner, batch : Batch]
             \cup [kind : {"read"}, file : File]

\* Every variable has its type.
TypeOK ==
  /\ rows \in [File -> Row \cup {None}]
  /\ chunks \in [File -> [Chunk -> Digest \cup {None}]]
  /\ blob \in [File -> [Chunk -> Digest \cup {Hole, Torn}] \cup {None}]
  /\ dirty \in [File -> SUBSET Chunk]
  /\ native_writes \in [File -> Lease \cup {None}]
  /\ op \in [Op -> Upload \cup Download \cup {Idle, Done}]
  /\ ipc \in [Op -> Request \cup {None}]
  /\ sweep \in [pc : {"idle", "rows", "blobs"}, at : File \cup {None},
               todo : SUBSET File, purge : SUBSET File]
  /\ acked \in [File -> [Chunk -> Digest \cup {None}]]
  /\ asked \subseteq File
  /\ faults \in 0..MaxFaults

Stored(f, i) ==
  \/ blob[f] = None /\ f \in asked
  \/ blob[f] # None /\ blob[f][i] = chunks[f][i] /\ i \notin dirty[f]

\* What the index says of a file that can be used is on the disk, synced,
\* whatever was retried, served late, interrupted or lost: the bytes under an
\* indexed chunk are the ones its digest was taken from (native_files.py,
\* prepare and commit).  A blob may be missing only where its owner asked for
\* the deletion and it broke off after the unlink.
IndexedIsStored ==
  \A f \in File : Servable(f) =>
    \A i \in Chunk : chunks[f][i] # None => Stored(f, i)

\* A chunk the client was told is stored stays in the index, under the digest
\* it was sent with, for as long as the file can be used (fileOperation
\* answers only after the commit; files.py never replaces an entry).
AckedIsIndexed ==
  \A f \in File : Servable(f) =>
    \A i \in Chunk : acked[f][i] # None => chunks[f][i] = acked[f][i]

\* A download that passed Python's check reads every chunk of the finished
\* file, intact: neither an upload, a deletion nor the sweep gets at the blob
\* before the read is over (lockFile, LOCK_SH).
DownloadsAreWhole ==
  \A o \in Op : op[o].pc = "disk" =>
    \A i \in Chunk : chunks[op[o].file][i] # None /\ Stored(op[o].file, i)

\* The ciphertext of a file that is deleted, has expired, or was never
\* published by its create leaves the disk (cleanup).
LeftoversGo ==
  \A f \in File : (blob[f] # None /\ ~Servable(f)) ~> (blob[f] = None \/ Servable(f))

=============================================================================
