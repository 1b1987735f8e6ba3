------------------------------- MODULE AsyncJob -------------------------------
(***************************************************************************)
(* One asynchronous generation job of the engine crate                     *)
(* (rebirth-llm/src/async_job.rs): the worker thread, the Control block it *)
(* shares with the R main thread, and the bounded event queue between them.*)
(*                                                                         *)
(* One action is one critical section of the Control mutex, or one stretch *)
(* of native code between two of them.  The main thread's operations are   *)
(* cancel, discard_stream, drain_stream and try_collect.  The cancel flag  *)
(* and State.cancellation_accepted are set together under the mutex and    *)
(* are one variable here.  The worker's clock and the texts are left out;  *)
(* a row keeps its identity, its prompt, its kind and its size.            *)
(***************************************************************************)
EXTENDS Naturals, Sequences, SequencesExt

CONSTANTS
  Prompts,      \* prompts of a request
  MaxTokens,    \* GenerateParams.max_tokens
  QueueRows,    \* STREAM_QUEUE_ROWS
  QueueBytes,   \* STREAM_QUEUE_BYTES
  ChunkBytes,   \* STREAM_CHUNK_BYTES, the largest text of one row
  BatchRows,    \* STREAM_BATCH_ROWS
  BatchBytes    \* STREAM_BATCH_BYTES

ASSUME RequestAssumption ==
  /\ Prompts \in Nat \ {0}
  /\ MaxTokens \in Nat \ {0}
ASSUME RowLimitsAssumption ==
  /\ QueueRows \in Nat \ {0}
  /\ BatchRows \in Nat \ {0}
(* Every row fits into an empty queue and into a batch of its own.          *)
ASSUME ByteLimitsAssumption ==
  /\ ChunkBytes \in Nat \ {0}
  /\ QueueBytes \in Nat /\ ChunkBytes <= QueueBytes
  /\ BatchBytes \in Nat /\ ChunkBytes <= BatchBytes

VARIABLES
  streaming,   \* Control.streaming
  cancelled,   \* State.cancellation_accepted
  terminal,    \* State.terminal
  promptId,    \* State.progress.prompt_id
  rows,        \* StreamQueue.rows
  bytes,       \* StreamQueue.bytes
  nextId,      \* StreamQueue.next_id
  discarded,   \* StreamQueue.discarded
  pc,          \* where the worker stands
  asleep,      \* the worker is parked on Control.space
  prompt,      \* the prompt whose turn it is in run_request
  tokens,      \* tokens sampled for it
  chunk,       \* bytes of the row the worker is about to enqueue
  outcome,     \* the result of the job, published or about to be
  drained      \* history: rows handed over by drain_stream

control == <<streaming, cancelled, terminal, promptId, rows, bytes, nextId,
             discarded, drained>>
worker == <<pc, asleep, prompt, tokens, chunk, outcome>>
jobVars == <<control, worker>>

(* The pc of a worker inside its three calls of enqueue names the kind of   *)
(* the row; "finished" is a returned closure, "joined" a collected one.     *)
Kinds == {"token", "text", "prompt_end"}
PCs == {"none", "spawned", "prompt", "decode", "publish", "unbind",
        "finished", "joined"} \cup Kinds
(* "broken" is a panic or a failed restoration: the worker has already      *)
(* destroyed the model.                                                     *)
Outcomes == {"ok", "cancelled", "failed", "broken"}

Row == [id : Nat \ {0}, prompt : 1 .. Prompts, kind : Kinds, bytes : 0 .. ChunkBytes]

JobTypeOK ==
  /\ streaming \in BOOLEAN /\ cancelled \in BOOLEAN
  /\ terminal \in BOOLEAN /\ discarded \in BOOLEAN
  /\ promptId \in 1 .. Prompts
  /\ rows \in Seq(Row)
  /\ nextId \in Nat \ {0}
  /\ drained \in Nat
  /\ pc \in PCs
  /\ asleep \in BOOLEAN
  /\ prompt \in 1 .. Prompts
  /\ tokens \in 0 .. MaxTokens
  /\ chunk \in 0 .. ChunkBytes
  /\ outcome \in Outcomes

(* The worker's ExecutionGuard is held and native code may be running.      *)
WorkerBound == pc \notin {"none", "spawned", "finished", "joined"}

JobInit ==
  /\ streaming = FALSE /\ cancelled = FALSE /\ terminal = FALSE
  /\ promptId = 1
  /\ rows = <<>> /\ bytes = 0 /\ nextId = 1 /\ discarded = FALSE /\ drained = 0
  /\ pc = "none" /\ asleep = FALSE /\ prompt = 1 /\ tokens = 0 /\ chunk = 0
  /\ outcome = "ok"

NewControl(stream, place) ==
  /\ streaming' = stream /\ cancelled' = FALSE /\ terminal' = FALSE
  /\ promptId' = 1
  /\ rows' = <<>> /\ bytes' = 0 /\ nextId' = 1 /\ discarded' = FALSE /\ drained' = 0
  /\ pc' = place /\ asleep' = FALSE /\ prompt' = 1 /\ tokens' = 0 /\ chunk' = 0
  /\ outcome' = "ok"

(* Control::new and the spawned thread, for a request with or without a     *)
(* token stream; and the drop of the whole job.                             *)
Start(stream) == NewControl(stream, "spawned")
DropJob == NewControl(FALSE, "none")

-----------------------------------------------------------------------------
(***************************************************************************)
(* The worker.                                                             *)
(***************************************************************************)
(* The generation loop returns with o.                                      *)
Return(o) == pc' = "publish" /\ outcome' = o

WorkerEnter ==
  /\ pc = "spawned"
  /\ pc' = "prompt"
  /\ UNCHANGED <<control, asleep, prompt, tokens, chunk, outcome>>

(* checkpoint and prompt_started.                                           *)
PromptStarted ==
  /\ pc = "prompt"
  /\ IF cancelled THEN Return("cancelled") /\ UNCHANGED <<promptId, tokens>>
     ELSE pc' = "decode" /\ promptId' = prompt /\ tokens' = 0 /\ UNCHANGED outcome
  /\ UNCHANGED <<streaming, cancelled, terminal, rows, bytes, nextId, discarded,
                 drained, asleep, prompt, chunk>>

(* A decode that ends with a sampled token, followed by its checkpoint.     *)
Sampled ==
  /\ pc = "decode"
  /\ tokens < MaxTokens
  /\ tokens' = tokens + 1
  /\ IF cancelled THEN Return("cancelled") /\ UNCHANGED chunk
     ELSE pc' = "token" /\ chunk' = 0 /\ UNCHANGED outcome
  /\ UNCHANGED <<control, asleep, prompt>>

(* The generation of this prompt stops; prompt_completed has a checkpoint.  *)
PromptCompleted ==
  /\ pc = "decode"
  /\ IF cancelled THEN Return("cancelled") /\ UNCHANGED chunk
     ELSE pc' = "prompt_end" /\ chunk' = 0 /\ UNCHANGED outcome
  /\ UNCHANGED <<control, asleep, prompt, tokens>>

(* The native call or the output budget fails, the worker panics, or the    *)
(* original steering adapter cannot be restored.                            *)
DecodeFails ==
  /\ pc = "decode"
  /\ \E o \in {"failed", "broken"} : Return(o)
  /\ UNCHANGED <<control, asleep, prompt, tokens, chunk>>

Fits(n) == Len(rows) < QueueRows /\ bytes + n <= QueueBytes

(* Operators named Mutant... are not part of the system: each is the one    *)
(* after it with a plausible defect.                                        *)
(* The row of a chunk is charged as if it were empty. *)
MutantAppendUncharged(kind) ==
  /\ rows' = Append(rows, [id |-> nextId, prompt |-> promptId,
                           kind |-> kind, bytes |-> chunk])
  /\ nextId' = nextId + 1
  /\ bytes' = bytes

(* The event id is not advanced. *)
MutantAppendSameId(kind) ==
  /\ rows' = Append(rows, [id |-> nextId, prompt |-> promptId,
                           kind |-> kind, bytes |-> chunk])
  /\ nextId' = nextId
  /\ bytes' = bytes + chunk

AppendRow(kind) ==
  /\ rows' = Append(rows, [id |-> nextId, prompt |-> promptId,
                           kind |-> kind, bytes |-> chunk])
  /\ nextId' = nextId + 1
  /\ bytes' = bytes + chunk

(* What follows a row: the text of a token, the next decode, or the next    *)
(* prompt.                                                                  *)
AfterRow(kind) ==
  \/ /\ kind = "token"
     /\ pc' = "text" /\ chunk' \in 1 .. ChunkBytes
     /\ UNCHANGED <<prompt, outcome>>
  \/ /\ kind \in {"token", "text"}
     /\ pc' = "decode"
     /\ UNCHANGED <<prompt, chunk, outcome>>
  \/ /\ kind = "prompt_end" /\ prompt < Prompts
     /\ pc' = "prompt" /\ prompt' = prompt + 1
     /\ UNCHANGED <<chunk, outcome>>
  \/ /\ kind = "prompt_end" /\ prompt = Prompts
     /\ Return("ok")
     /\ UNCHANGED <<prompt, chunk>>

(* enqueue on a job without a stream returns at once.                       *)
EnqueueNothing ==
  /\ pc \in Kinds
  /\ ~streaming
  /\ AfterRow(pc)
  /\ UNCHANGED <<control, asleep, tokens>>

(* The cancellation test comes before the capacity test, on the first pass  *)
(* and after every wake.                                                    *)
EnqueueRefused ==
  /\ pc \in Kinds /\ ~asleep /\ streaming
  /\ cancelled \/ discarded \/ terminal
  /\ Return("cancelled")
  /\ UNCHANGED <<control, asleep, prompt, tokens, chunk>>

EnqueueRow ==
  /\ pc \in Kinds /\ ~asleep /\ streaming
  /\ ~cancelled /\ ~discarded /\ ~terminal
  /\ Fits(chunk)
  /\ AppendRow(pc)
  /\ AfterRow(pc)
  /\ UNCHANGED <<streaming, cancelled, terminal, promptId, discarded, drained,
                 asleep, tokens>>

EnqueueWait ==
  /\ pc \in Kinds /\ ~asleep /\ streaming
  /\ ~cancelled /\ ~discarded /\ ~terminal
  /\ ~Fits(chunk)
  /\ asleep' = TRUE
  /\ UNCHANGED <<control, pc, prompt, tokens, chunk, outcome>>

(* A cancellation accepted before this critical section replaces any result *)
(* except that of a destroyed model.                                        *)
Published == IF cancelled /\ outcome # "broken" THEN "cancelled" ELSE outcome

Publish ==
  /\ pc = "publish"
  /\ outcome' = Published
  /\ IF streaming /\ Published # "ok"
     THEN rows' = <<>> /\ bytes' = 0 /\ discarded' = TRUE
     ELSE UNCHANGED <<rows, bytes, discarded>>
  /\ terminal' = TRUE
  /\ promptId' = IF Published = "ok" THEN Prompts ELSE promptId
  /\ pc' = "unbind"
  /\ UNCHANGED <<streaming, cancelled, nextId, drained, asleep, prompt, tokens, chunk>>

(* The ExecutionGuard is dropped and the closure returns its completion.    *)
WorkerReturn ==
  /\ pc = "unbind"
  /\ pc' = "finished"
  /\ UNCHANGED <<control, asleep, prompt, tokens, chunk, outcome>>

WorkerNext ==
  \/ WorkerEnter \/ PromptStarted \/ Sampled \/ PromptCompleted \/ DecodeFails
  \/ EnqueueNothing \/ EnqueueRefused \/ EnqueueRow \/ EnqueueWait
  \/ Publish \/ WorkerReturn

-----------------------------------------------------------------------------
(***************************************************************************)
(* The main thread's operations on the job.                                *)
(***************************************************************************)
CanCancel == ~terminal /\ ~cancelled

(* AsyncJob::cancel, when it answers TRUE.                                  *)
RequestCancel ==
  /\ cancelled' = TRUE
  /\ asleep' = FALSE
  /\ UNCHANGED <<streaming, terminal, promptId, rows, bytes, nextId, discarded,
                 drained, pc, prompt, tokens, chunk, outcome>>

CancelIfPossible == IF CanCancel THEN RequestCancel ELSE UNCHANGED jobVars

(* AsyncJob::discard_stream.                                                *)
DiscardStream ==
  /\ IF streaming THEN rows' = <<>> /\ bytes' = 0 /\ discarded' = TRUE
     ELSE UNCHANGED <<rows, bytes, discarded>>
  /\ cancelled' = (cancelled \/ ~terminal)
  /\ asleep' = FALSE
  /\ UNCHANGED <<streaming, terminal, promptId, nextId, drained, pc, prompt, tokens,
                 chunk, outcome>>

BytesOf(s) == FoldLeft(LAMBDA sum, row : sum + row.bytes, 0, s)

(* The lengths a batch may have; drain_stream transfers the longest.        *)
BatchLengths ==
  {n \in 0 .. BatchRows :
     n <= Len(rows) /\ BytesOf(SubSeq(rows, 1, n)) <= BatchBytes}

(* The drain does not wake the producer. *)
MutantTransferSilently(n) ==
  /\ rows' = SubSeq(rows, n + 1, Len(rows))
  /\ bytes' = bytes - BytesOf(SubSeq(rows, 1, n))
  /\ drained' = drained + n
  /\ asleep' = asleep
  /\ UNCHANGED <<streaming, cancelled, terminal, promptId, nextId, discarded, pc,
                 prompt, tokens, chunk, outcome>>

(* drain_stream hands over a batch of n rows.                               *)
Transfer(n) ==
  /\ rows' = SubSeq(rows, n + 1, Len(rows))
  /\ bytes' = bytes - BytesOf(SubSeq(rows, 1, n))
  /\ drained' = drained + n
  /\ asleep' = FALSE
  /\ UNCHANGED <<streaming, cancelled, terminal, promptId, nextId, discarded, pc,
                 prompt, tokens, chunk, outcome>>

IsBatch(n) == n \in BatchLengths /\ \A m \in BatchLengths : m <= n

(* try_lock can fail only while the worker is inside a critical section; a  *)
(* parked worker has released the mutex.                                    *)
MayContend == WorkerBound /\ ~asleep

(* try_collect joins a worker whose closure has returned.                   *)
Join ==
  /\ pc = "finished"
  /\ pc' = "joined"
  /\ UNCHANGED <<control, asleep, prompt, tokens, chunk, outcome>>

-----------------------------------------------------------------------------
(***************************************************************************)
(* The job under an arbitrary main thread: it may cancel, discard and drain*)
(* at any time, and starts a new job only after it joined the previous one.*)
(***************************************************************************)
MainStart == pc \in {"none", "joined"} /\ \E stream \in BOOLEAN : Start(stream)
MainCancel == pc # "none" /\ CanCancel /\ RequestCancel
MainDiscard == pc # "none" /\ DiscardStream
MainDrain == pc # "none" /\ streaming /\ \E n \in 0 .. BatchRows : IsBatch(n) /\ Transfer(n)

Next == WorkerNext \/ MainStart \/ MainCancel \/ MainDiscard \/ MainDrain \/ Join

(* The scheduler runs the worker, native calls return, and the R timer keeps *)
(* draining and collecting.  Cancelling and discarding are never owed.       *)
Fairness ==
  /\ WF_jobVars(WorkerNext)
  /\ WF_jobVars(MainDrain)
  /\ WF_jobVars(Join)

Spec == JobInit /\ [][Next]_jobVars /\ Fairness

-----------------------------------------------------------------------------
(* No wakeup is lost: whenever the producer is parked, its predicate is     *)
(* still false, so the operation that makes it true will find it parked.    *)
NoLostWakeup ==
  asleep => /\ pc \in Kinds /\ streaming
            /\ ~cancelled /\ ~terminal /\ ~discarded
            /\ ~Fits(chunk)

(* The byte counter, changed by the producer and by every batch, is the sum *)
(* of the queued texts (the code subtracts without a check), and neither    *)
(* limit of the queue is exceeded.                                          *)
QueueAccounting ==
  /\ bytes = BytesOf(rows)
  /\ Len(rows) <= QueueRows
  /\ bytes <= QueueBytes

(* Until something is discarded, the rows handed over and the rows queued   *)
(* are together exactly the events produced, consecutively numbered.        *)
RowsAreConsecutive ==
  /\ \A i \in 1 .. Len(rows) : rows[i].id = nextId - Len(rows) + i - 1
  /\ ~discarded => drained + Len(rows) = nextId - 1

(* A cancellation accepted before terminal publication wins over any result *)
(* computed meanwhile; it never coexists with a successful result.          *)
CancelWins ==
  terminal /\ cancelled => outcome \in {"cancelled", "broken"}

(* A terminal job is final: neither its result nor its arbitration with     *)
(* cancellation moves again before the next job starts.                     *)
TerminalIsFinal ==
  [][terminal /\ pc' # "spawned" =>
       /\ terminal' /\ outcome' = outcome /\ cancelled' = cancelled]_jobVars

(* Backpressure never wedges the worker: with a main thread that keeps      *)
(* draining, every started job is published and joined.                     *)
JobCompletes == pc = "spawned" ~> pc = "joined"
=============================================================================
