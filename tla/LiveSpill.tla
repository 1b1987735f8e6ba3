----------------------------- MODULE LiveSpill -----------------------------
(***************************************************************************)
(* Live observation that writes its traces to files: for every state of a   *)
(* job the generation worker makes a file, starts a writer thread, pushes   *)
(* the activations it taps to a bounded queue, closes the queue, joins the  *)
(* writer and publishes the file; the main thread takes it or cancels       *)
(* (rebirth-llm/src/live_spill.rs, live_file.rs, live_capture.rs,           *)
(* async_job.rs).                                                          *)
(*                                                                         *)
(* An action is one critical section of a mutex, or the native stretch      *)
(* between two.  The mutex of the queue is never held between two actions;  *)
(* that of LiveCancel is (`latch'), and the Control mutex is while the main *)
(* thread cancels (main # "idle").  A row counts one in the queue, whose    *)
(* other bound, on bytes, is met in the same place.  The wait of            *)
(* publish_live on Control.space is a guard: LiveHandshake has its wakeups. *)
(***************************************************************************)
EXTENDS Naturals

CONSTANTS
  States,    \* live states of the job
  Targets,   \* rows of a state: one per selected layer and component
  Batches,   \* Arrow batches of a row
  Capacity,  \* rows that the queue holds
  Budget,    \* LIVE_SPILL_BYTES.min(estimate.spill_bytes)
  Sizes      \* bytes of one write: schema, batch or end of stream

ASSUME SpillAssumption ==
  /\ States \in Nat \ {0} /\ Targets \in Nat
  /\ Batches \in Nat \ {0} /\ Capacity \in Nat \ {0}
  /\ Budget \in Nat /\ Sizes \subseteq Nat

VARIABLES
  \* the generation worker
  pc,         \* where it stands
  state,      \* state_id, of the state that it decodes
  pushed,     \* rows of it that were pushed
  parked,     \* it waits on Queue.space
  spent,      \* Capture.spill_written
  \* Queue of this state, and its writer thread
  rows,       \* QueueState.rows
  closed,     \* QueueState.closed
  aborted,    \* QueueState.cancelled
  error,      \* QueueState.error
  wpc,        \* where the writer stands
  waits,      \* it waits on Queue.ready
  left,       \* batches of the row in hand still to write
  batches,    \* batches written to the file
  \* the files, one per state
  file,       \* "none", "partial", "whole" or "gone" from the disk
  holder,     \* who has its OwnedLiveFile
  bytes,      \* its length
  \* LiveCancel
  flag,       \* cancelled
  registered, \* writer: the state whose queue it points to, 0 for None
  latch,      \* who has the mutex of writer
  \* Control, and the main thread
  accepted,   \* cancellation_accepted, with the atomic cancel
  pending,    \* LiveSlot.pending: the state published, 0 for None
  unanswered, \* LiveSlot.outstanding
  drained,    \* LiveSlot.drained
  main        \* where the main thread stands in AsyncJob::cancel

worker  == <<pc, state, pushed, parked, spent>>
queue   == <<rows, closed, aborted, error>>
writer  == <<wpc, waits, left, batches>>
disk    == <<file, holder, bytes>>
cancel  == <<flag, registered, latch>>
control == <<accepted, pending, unanswered, drained, main>>
vars    == <<worker, queue, writer, disk, cancel, control>>

Ids == 1 .. States

(* Operators named Mutant... are not part of the system.  Each is the       *)
(* operator defined after it with one plausible defect, and shows that the  *)
(* properties notice that defect.                                          *)
(* Every file has the whole budget.                                         *)
MutantLimit == Budget

(* Capture.remaining, given to the LimitedFile of the state.                *)
Limit == Budget - spent

TypeOK ==
  /\ pc \in {"decode", "opened", "register", "registering", "spawn", "tap", "push",
             "sampled", "closing", "join", "publish", "waiting", "dropping", "unwind",
             "unwinding", "dropJoin", "ending", "returned"}
  /\ state \in Ids /\ pushed \in 0 .. Targets /\ parked \in BOOLEAN
  /\ spent \in 0 .. Budget
  /\ rows \in 0 .. Capacity
  /\ closed \in BOOLEAN /\ aborted \in BOOLEAN /\ error \in BOOLEAN
  /\ wpc \in {"none", "schema", "pop", "write", "end", "failing", "failed", "tell", "done"}
  /\ waits \in BOOLEAN /\ left \in 0 .. Batches /\ batches \in Nat
  /\ file \in [Ids -> {"none", "partial", "whole", "gone"}]
  /\ holder \in [Ids -> {"nobody", "worker", "writer", "thread", "slot", "caller"}]
  /\ bytes \in [Ids -> 0 .. Budget]
  /\ flag \in BOOLEAN /\ registered \in 0 .. States
  /\ latch \in {"free", "worker", "main"}
  /\ accepted \in BOOLEAN /\ pending \in 0 .. States
  /\ unanswered \in BOOLEAN /\ drained \in BOOLEAN
  /\ main \in {"idle", "store", "lock", "abort", "wake"}

Init ==
  /\ pc = "decode" /\ state = 1 /\ pushed = 0 /\ parked = FALSE /\ spent = 0
  /\ rows = 0 /\ closed = FALSE /\ aborted = FALSE /\ error = FALSE
  /\ wpc = "none" /\ waits = FALSE /\ left = 0 /\ batches = 0
  /\ file = [k \in Ids |-> "none"]
  /\ holder = [k \in Ids |-> "nobody"]
  /\ bytes = [k \in Ids |-> 0]
  /\ flag = FALSE /\ registered = 0 /\ latch = "free"
  /\ accepted = FALSE /\ pending = 0 /\ unanswered = FALSE /\ drained = FALSE
  /\ main = "idle"

Unlocked == main = "idle"

Goto(place) == pc' = place /\ UNCHANGED <<state, pushed, parked, spent>>

Own(who) == holder' = [holder EXCEPT ![state] = who] /\ UNCHANGED <<file, bytes>>

(* Drop of OwnedLiveFile.                                                   *)
Remove ==
  /\ file' = [file EXCEPT ![state] = "gone"]
  /\ holder' = [holder EXCEPT ![state] = "nobody"]
  /\ UNCHANGED bytes

-----------------------------------------------------------------------------
(* begin_decode: LiveSpillSink::new.                                        *)

\* The checkpoint fails, the file cannot be made, or the estimate is spent.
CannotOpen ==
  /\ pc = "decode"
  /\ Goto("ending")
  /\ UNCHANGED <<queue, writer, disk, cancel, control>>

OpenFile ==
  /\ pc = "decode" /\ ~accepted
  /\ Goto("opened")
  /\ file' = [file EXCEPT ![state] = "partial"]
  /\ UNCHANGED <<holder, bytes, queue, writer, cancel, control>>

\* OwnedLiveFile::new reads the identity of the file.
OwnFile ==
  /\ pc = "opened"
  /\ Goto("register") /\ Own("worker")
  /\ UNCHANGED <<queue, writer, cancel, control>>

\* It cannot, and nothing owns the file.
CannotOwn ==
  /\ pc = "opened"
  /\ Goto("ending")
  /\ UNCHANGED <<queue, writer, disk, cancel, control>>

\* LiveCancel::register: the lock and the store of the new queue.
Register ==
  /\ pc = "register" /\ latch = "free"
  /\ Goto("registering")
  /\ rows' = 0 /\ closed' = FALSE /\ aborted' = FALSE /\ error' = FALSE
  /\ registered' = state /\ latch' = "worker"
  /\ UNCHANGED <<flag, writer, disk, control>>

\* Its look at the flag; nobody waits on the new queue yet.
Registered ==
  /\ pc = "registering"
  /\ Goto("spawn")
  /\ aborted' = (aborted \/ flag)
  /\ latch' = "free"
  /\ UNCHANGED <<rows, closed, error, flag, registered, writer, disk, control>>

Spawn ==
  /\ pc = "spawn"
  /\ Goto("tap") /\ Own("writer")
  /\ wpc' = "schema" /\ waits' = FALSE /\ left' = 0 /\ batches' = 0
  /\ UNCHANGED <<queue, cancel, control>>

\* No thread: the closure, with the file in it, is dropped.
CannotSpawn ==
  /\ pc = "spawn"
  /\ Goto("ending") /\ Remove
  /\ UNCHANGED <<queue, writer, cancel, control>>

-----------------------------------------------------------------------------
(* The taps of the decode: on_node, LiveSpillSink::push.                    *)

Tap ==
  /\ pc = "tap" /\ pushed < Targets /\ ~accepted
  /\ Goto("push")
  /\ UNCHANGED <<queue, writer, disk, cancel, control>>

Refuses == error \/ aborted \/ closed

PushRefused ==
  /\ pc = "push" /\ ~parked /\ Refuses
  /\ Goto("unwind")
  /\ UNCHANGED <<queue, writer, disk, cancel, control>>

Push ==
  /\ pc = "push" /\ ~parked /\ ~Refuses /\ rows < Capacity
  /\ pc' = "tap" /\ pushed' = pushed + 1
  /\ rows' = rows + 1
  /\ waits' = FALSE
  /\ UNCHANGED <<state, parked, spent, closed, aborted, error, wpc, left, batches,
                 disk, cancel, control>>

PushWaits ==
  /\ pc = "push" /\ ~parked /\ ~Refuses /\ rows = Capacity
  /\ parked' = TRUE
  /\ UNCHANGED <<pc, state, pushed, spent, queue, writer, disk, cancel, control>>

\* A checkpoint fails, the decode fails, a tap is missing or the model ends
\* the text: the capture is dropped with its sink.
LeaveDecode ==
  /\ pc = "tap"
  /\ Goto("unwind")
  /\ UNCHANGED <<queue, writer, disk, cancel, control>>

Sampled ==
  /\ pc = "tap" /\ pushed = Targets /\ ~accepted
  /\ Goto("sampled")
  /\ UNCHANGED <<queue, writer, disk, cancel, control>>

-----------------------------------------------------------------------------
(* snapshot: LiveSpillSink::finish.                                         *)

Close ==
  /\ pc = "sampled"
  /\ Goto("closing")
  /\ closed' = TRUE
  /\ UNCHANGED <<rows, aborted, error, writer, disk, cancel, control>>

(* The queue is closed without a notification.                              *)
MutantWakeWriter ==
  /\ pc = "closing"
  /\ Goto("join")
  /\ UNCHANGED <<queue, writer, disk, cancel, control>>

WakeWriter ==
  /\ pc = "closing"
  /\ Goto("join")
  /\ waits' = FALSE
  /\ UNCHANGED <<wpc, left, batches, queue, disk, cancel, control>>

Complete == holder[state] = "thread" /\ batches = Targets * Batches

Joined ==
  /\ pc = "join" /\ wpc = "done" /\ Complete
  /\ pc' = "publish" /\ spent' = spent + bytes[state]
  /\ Own("worker")
  /\ UNCHANGED <<state, pushed, parked, queue, writer, cancel, control>>

DropThread == IF holder[state] = "thread" THEN Remove ELSE UNCHANGED disk

JoinedFailure ==
  /\ pc = "join" /\ wpc = "done" /\ ~Complete
  /\ Goto("ending") /\ DropThread
  /\ UNCHANGED <<queue, writer, cancel, control>>

-----------------------------------------------------------------------------
(* publish_live.                                                            *)

Publish ==
  /\ pc = "publish" /\ Unlocked /\ ~accepted
  /\ Goto("waiting") /\ Own("slot")
  /\ pending' = state /\ unanswered' = TRUE /\ drained' = FALSE
  /\ UNCHANGED <<accepted, main, queue, writer, cancel>>

PublishCancelled ==
  /\ pc = "publish" /\ Unlocked /\ accepted
  /\ Goto("ending") /\ Remove
  /\ UNCHANGED <<queue, writer, cancel, control>>

\* The answer; the next decode follows unless the generation is over.
Answered ==
  /\ pc = "waiting" /\ Unlocked /\ ~accepted /\ ~unanswered
  /\ \/ pc' = "ending" /\ UNCHANGED <<state, pushed>>
     \/ state < States /\ pc' = "decode" /\ state' = state + 1 /\ pushed' = 0
  /\ UNCHANGED <<parked, spent, queue, writer, disk, cancel, control>>

(* The file is removed whether the state was taken or not.                  *)
MutantWaitCancelled ==
  /\ pc = "waiting" /\ Unlocked /\ accepted
  /\ Goto("dropping") /\ Own("worker")
  /\ pending' = 0
  /\ UNCHANGED <<accepted, unanswered, drained, main, queue, writer, cancel>>

\* Cancelled: what is still pending is taken, and dropped without the lock.
WaitCancelled ==
  /\ pc = "waiting" /\ Unlocked /\ accepted
  /\ IF pending = 0 THEN Goto("ending") /\ UNCHANGED disk
                     ELSE Goto("dropping") /\ Own("worker")
  /\ pending' = 0
  /\ UNCHANGED <<accepted, unanswered, drained, main, queue, writer, cancel>>

DropAbandoned ==
  /\ pc = "dropping"
  /\ Goto("ending") /\ Remove
  /\ UNCHANGED <<queue, writer, cancel, control>>

-----------------------------------------------------------------------------
(* Drop of LiveSession: of a LiveSpillSink, and the end of the job.         *)

AbortQueue ==
  /\ pc = "unwind"
  /\ Goto("unwinding")
  /\ aborted' = TRUE
  /\ UNCHANGED <<rows, closed, error, writer, disk, cancel, control>>

WakeAborted ==
  /\ pc = "unwinding"
  /\ Goto("dropJoin")
  /\ waits' = FALSE
  /\ UNCHANGED <<wpc, left, batches, queue, disk, cancel, control>>

(* The thread is detached instead of joined.                                *)
MutantJoinDropped ==
  /\ pc = "dropJoin"
  /\ Goto("ending")
  /\ UNCHANGED <<queue, writer, disk, cancel, control>>

JoinDropped ==
  /\ pc = "dropJoin" /\ wpc = "done"
  /\ Goto("ending") /\ DropThread
  /\ UNCHANGED <<queue, writer, cancel, control>>

\* Control::publish.
Return ==
  /\ pc = "ending" /\ Unlocked
  /\ Goto("returned")
  /\ UNCHANGED <<queue, writer, disk, cancel, control>>

Worker ==
  \/ CannotOpen \/ OpenFile \/ OwnFile \/ CannotOwn \/ Register \/ Registered
  \/ Spawn \/ CannotSpawn \/ Tap \/ PushRefused \/ Push \/ PushWaits \/ LeaveDecode
  \/ Sampled \/ Close \/ WakeWriter \/ Joined \/ JoinedFailure \/ Publish
  \/ PublishCancelled \/ Answered \/ WaitCancelled \/ DropAbandoned \/ AbortQueue
  \/ WakeAborted \/ JoinDropped \/ Return

-----------------------------------------------------------------------------
(* The writer: writer_loop and the closure around it.                       *)

\* LimitedFile::write of n bytes.
Write(n) ==
  /\ bytes[state] + n <= Limit
  /\ bytes' = [bytes EXCEPT ![state] = @ + n]

\* Any write fails, over the limit or for a reason of the file system.
WriteFails ==
  /\ wpc \in {"schema", "write", "end"}
  /\ wpc' = "failing"
  /\ UNCHANGED <<waits, left, batches, worker, queue, disk, cancel, control>>

WriteSchema ==
  /\ wpc = "schema"
  /\ wpc' = "pop"
  /\ \E n \in Sizes : Write(n)
  /\ UNCHANGED <<waits, left, batches, file, holder, worker, queue, cancel, control>>

SeesAbort ==
  /\ wpc \in {"pop", "write"} /\ ~waits /\ aborted
  /\ wpc' = "failing"
  /\ UNCHANGED <<waits, left, batches, worker, queue, disk, cancel, control>>

Pop ==
  /\ wpc = "pop" /\ ~waits /\ ~aborted /\ rows > 0
  /\ wpc' = "write" /\ left' = Batches
  /\ rows' = rows - 1
  /\ parked' = FALSE
  /\ UNCHANGED <<waits, batches, pc, state, pushed, spent, closed, aborted, error, disk,
                 cancel, control>>

SeesClosed ==
  /\ wpc = "pop" /\ ~waits /\ ~aborted /\ rows = 0 /\ closed
  /\ wpc' = "end"
  /\ UNCHANGED <<waits, left, batches, worker, queue, disk, cancel, control>>

PopWaits ==
  /\ wpc = "pop" /\ ~waits /\ ~aborted /\ rows = 0 /\ ~closed
  /\ waits' = TRUE
  /\ UNCHANGED <<wpc, left, batches, worker, queue, disk, cancel, control>>

WriteBatch ==
  /\ wpc = "write" /\ ~aborted
  /\ \E n \in Sizes : Write(n)
  /\ batches' = batches + 1 /\ left' = left - 1
  /\ wpc' = IF left = 1 THEN "pop" ELSE "write"
  /\ UNCHANGED <<waits, file, holder, worker, queue, cancel, control>>

\* writer.finish; the file goes to Complete, the result of the thread.
WriteEnd ==
  /\ wpc = "end"
  /\ wpc' = "done"
  /\ \E n \in Sizes : Write(n)
  /\ file' = [file EXCEPT ![state] = "whole"]
  /\ holder' = [holder EXCEPT ![state] = "thread"]
  /\ UNCHANGED <<waits, left, batches, worker, queue, cancel, control>>

\* writer_loop returns an error, and drops its file.
LeaveLoop ==
  /\ wpc = "failing"
  /\ wpc' = "failed" /\ Remove
  /\ UNCHANGED <<waits, left, batches, worker, queue, cancel, control>>

\* Queue::failure: the error, then the notifications.
Fail ==
  /\ wpc = "failed"
  /\ wpc' = "tell"
  /\ error' = TRUE
  /\ UNCHANGED <<waits, left, batches, worker, rows, closed, aborted, disk, cancel, control>>

TellFailure ==
  /\ wpc = "tell"
  /\ wpc' = "done"
  /\ parked' = FALSE
  /\ UNCHANGED <<waits, left, batches, pc, state, pushed, spent, queue, disk, cancel, control>>

Writer ==
  \/ WriteFails \/ WriteSchema \/ SeesAbort \/ Pop \/ SeesClosed \/ PopWaits
  \/ WriteBatch \/ WriteEnd \/ LeaveLoop \/ Fail \/ TellFailure

-----------------------------------------------------------------------------
(* The main thread: AsyncJob::cancel and discard_stream under the Control   *)
(* mutex, with LiveCancel::cancel in them, and the delivery of a state.     *)

Terminal == pc = "returned"

\* cancel is refused when it was accepted before, discard_stream is not.
Accept ==
  /\ Unlocked /\ ~Terminal
  /\ accepted' = TRUE /\ main' = "store"
  /\ UNCHANGED <<pending, unanswered, drained, worker, queue, writer, disk, cancel>>

StoreFlag ==
  /\ main = "store"
  /\ main' = "lock"
  /\ flag' = TRUE
  /\ UNCHANGED <<accepted, pending, unanswered, drained, registered, latch,
                 worker, queue, writer, disk>>

\* The Weak of the queue can be upgraded while the sink is there.
Upgradable ==
  /\ registered = state
  /\ pc \in {"registering", "spawn", "tap", "push", "sampled", "closing", "join",
             "unwind", "unwinding", "dropJoin"}

LockQueue ==
  /\ main = "lock" /\ latch = "free" /\ Upgradable
  /\ main' = "abort" /\ latch' = "main"
  /\ UNCHANGED <<accepted, pending, unanswered, drained, flag, registered,
                 worker, queue, writer, disk>>

NoQueue ==
  /\ main = "lock" /\ latch = "free" /\ ~Upgradable
  /\ main' = "idle"
  /\ UNCHANGED <<accepted, pending, unanswered, drained, cancel, worker, queue, writer, disk>>

\* Queue::abort, perhaps of a queue that nobody has any more.
Abort ==
  /\ main = "abort"
  /\ main' = "wake"
  /\ aborted' = (aborted \/ registered = state)
  /\ UNCHANGED <<accepted, pending, unanswered, drained, rows, closed, error,
                 worker, writer, disk, cancel>>

Wake ==
  /\ main = "wake"
  /\ main' = "idle" /\ latch' = "free"
  /\ IF registered = state THEN waits' = FALSE /\ parked' = FALSE
                           ELSE UNCHANGED <<waits, parked>>
  /\ UNCHANGED <<accepted, pending, unanswered, drained, flag, registered, pc, state,
                 pushed, spent, queue, wpc, left, batches, disk>>

\* drain_state: the report is delivered under the lock.
Drain ==
  /\ Unlocked /\ ~accepted /\ pending # 0
  /\ holder' = [holder EXCEPT ![pending] = "caller"]
  /\ pending' = 0 /\ drained' = TRUE
  /\ UNCHANGED <<accepted, unanswered, main, file, bytes, worker, queue, writer, cancel>>

\* ack_state_with_reply.
Acknowledge ==
  /\ Unlocked /\ unanswered /\ drained
  /\ unanswered' = FALSE /\ drained' = FALSE
  /\ UNCHANGED <<accepted, pending, main, worker, queue, writer, disk, cancel>>

Cancelling == StoreFlag \/ LockQueue \/ NoQueue \/ Abort \/ Wake

Finished == Terminal /\ Unlocked /\ UNCHANGED vars

Next == Worker \/ Writer \/ Cancelling \/ Accept \/ Drain \/ Acknowledge \/ Finished

Spec == Init /\ [][Next]_vars

(* Native calls return and threads run; a mutex that is free time and again *)
(* is got in the end.  Whether the caller takes, answers or cancels is its  *)
(* own affair.                                                             *)
Fairness == SF_vars(Worker) /\ WF_vars(Writer) /\ WF_vars(Cancelling)

FairSpec == Spec /\ Fairness

-----------------------------------------------------------------------------
(***************************************************************************)
(* Properties.                                                             *)
(***************************************************************************)
(* When the job is over no writer runs, and of the files it made only those *)
(* the caller took are left, and the one whose owner could not be made:     *)
(* whichever thread failed, returned or was cancelled first, exactly one    *)
(* owner dropped each other file.                                          *)
Orphan(k) == file[k] \in {"partial", "whole"} /\ holder[k] # "caller"
OnlyDeliveredRemain ==
  Terminal =>
    /\ wpc \in {"none", "done"}
    /\ \A k \in Ids : Orphan(k) => holder[k] = "nobody" /\ bytes[k] = 0 /\ k = state

(* The files on disk never exceed the budget of the job together, at any    *)
(* moment of any write: each LimitedFile has what the files before left.    *)
OnDisk(k) == IF file[k] \in {"partial", "whole"} THEN bytes[k] ELSE 0
DiskUse[k \in 0 .. States] == IF k = 0 THEN 0 ELSE DiskUse[k - 1] + OnDisk(k)
WithinBudget == DiskUse[States] <= Budget

(* Registering a queue and cancelling look at each other's store, in either *)
(* order: once cancel has returned, no writer runs on a queue it missed.    *)
CancelReachesWriter ==
  flag /\ Unlocked /\ wpc \notin {"none", "done"} => aborted

(* No thread waits for ever on a queue nobody will touch: the worker always *)
(* comes to wait for the caller or to its end, and after a cancellation to  *)
(* its end.                                                                *)
WorkerProgress ==
  /\ []<>(pc \in {"waiting", "returned"})
  /\ accepted ~> (Terminal /\ Unlocked)

(* The life of the files as TraceFiles has it.                              *)
Status(k) ==
  IF holder[k] = "caller" THEN IF file[k] = "whole" THEN "delivered" ELSE "damaged"
  ELSE IF file[k] = "none" THEN "absent"
  ELSE IF file[k] = "gone" THEN "removed"
  ELSE IF file[k] = "whole" THEN "whole"
  ELSE IF holder[k] = "nobody" /\ pc \in {"ending", "returned"} THEN "leaked" ELSE "open"

Traces == INSTANCE TraceFiles WITH status <- [k \in Ids |-> Status(k)]

(* A file is made after the caller has the one before, given away only when *)
(* complete, and never removed or changed once it was.                      *)
ImplementsTraces == Traces!Spec
=============================================================================
