# A verification of relm's asynchronous engine

relm (`src/rebirth`) is an R package around a Rust engine crate (`rebirth-llm`),
an FFI crate (`rebirth-ffi`) and a vendored llama.cpp. Its hard part is the way
one single-threaded R session, one native engine that only one thread may touch,
and one generation worker share models, results and callbacks; and around them
what several threads or several processes share: trace files and their writer
thread, managed spill directories, the model cache, the engine's thread pool. Its
largest application, the extraction service of `examples/funding-service`, keeps
its promises over killed processes and is modelled as well.
This directory models these parts in TLA+, checks them with TLC and proves what the
runs check of their safety with TLAPS.

## 1. Inventory

| Component | State | Operations | Talks to |
|---|---|---|---|
| Native ownership domain, `rebirth-llm/src/domain.rs` | `DOMAIN` {next, reserved, owner}, `ACTIVE` per thread, `RELEASED` | permit acquire/enter/drop, guard acquire/drop, `for_drop`, `assert_current` | every raw-pointer gateway |
| Asynchronous job, `rebirth-llm/src/async_job.rs` | `Control.state`: progress, cancellation_accepted, terminal, `StreamQueue`, live slot | start, worker loop, enqueue, publish, cancel, discard, drain, collect, shutdown | domain (permit), R main thread |
| FFI boundary, `rebirth-ffi/src/async_boundary.rs` | `HANDLES`, `DEFERRED`, `ACTIVE_JOB`, a `HandleState` per handle | submit, poll, ack, discard, cancel, close, finalize, shutdown | job, domain, R |
| R layer, `R/async.R`, `R/stream.R`, `R/llm.R`, `R/zzz.R` | job environment (timer, polling, settled, callback_error, stream position), `.relm_async` | submit, timer, poll, deliver, progress, settle, transport failure, close, unload | FFI, user callbacks, `later`, `promises` |
| Live states, `live_boundary.rs`, `live_state.rs`, `live_steering.rs`, `R/live-state.R` | one outstanding state, reply, steering revision | publish, drain, acknowledge, apply, abandon | job, user callback |
| Live spill, `live_spill.rs`, `live_file.rs`, `live_capture.rs` | writer queue, `LiveCancel`, owned files, the job's byte count | open, register, push, finish, abort, retain, remove | worker, writer thread, cancel |
| Spill leases, `spill_lease.rs`, `native/spill_lease.cpp`, `R/zzz.R`, `R/trace-spill.R` | registry of leases; on disk: directories, markers, their flock | prepare, open, cleanup, sweep | other R processes, forked children |
| Download cache, `R/download.R` | the model file, temporary files | check, fetch, verify, move | network, other sessions |
| Text stream, `text_stream.rs` | pending bytes | push, finish | generation |
| Extraction service, `examples/funding-service` | on disk: guard, lock, epochs, admissions, results, stop record; in a frontend: state, operation, active document, worker | open, recover, start, admit, dispatch, tick, retire, reap, stop | worker process, file system, clients, operator |
| Batch runner, `examples/funding-extraction` | output directory lock, records | lock, recover, resume | file system |
| Engine thread pool, `llama.cpp/ggml/src/ggml-cpu/ggml-cpu.c` | `ggml_threadpool`, `ggml_compute_state` per thread | kickoff, poll, sleep, barrier, chunks, pause, resume, free | every decode on the CPU |
| Generation, sampling, schema, interventions, probes, traces, embeddings, projection, vision, analysis and graphics | numeric or per call | synchronous calls under one guard | domain |

`PROJECT.json` lists every component with its status and every hazard found so
far at its line.

What makes them correct, component by component:

- *Domain.* Native calls exclude each other; the capability in a thread-local is
  never older than the live reservation; a reservation has exactly one permit
  value; a parked destructor is woken.
- *Job.* Cancel and completion are arbitrated once; no event is lost, repeated
  or renumbered; the producer is never parked with a true predicate; byte and
  row limits hold; a worker always gets to its end.
- *Boundary.* Each model is owned once, by the handle, the job or the deferred
  list; nothing is destroyed under a running worker; after a shutdown nothing is
  left.
- *R layer.* A promise settles exactly once and always; it resolves only with a
  completely delivered stream and without an accepted cancellation; the first
  failure is the one reported; nested polls cannot interleave deliveries.
- *Live states.* One state is outstanding and answered at most once; states and
  rows of `on_token` reach R in one order; an answer takes effect once, from the
  next token on, and not after a cancellation; the adapter is the original one
  again after the job; nobody waits for an answer that cannot come.
- *Live spill.* When a job is over exactly the files the caller took are left;
  its files together stay within its budget; a cancellation reaches the writer,
  however late its queue was registered; neither thread waits for ever.
- *Spill leases.* A directory has one owner or remover; a live session's
  directory is not touched by anybody else's cleanup or sweep; traces land in the
  leased directory; a removal takes a file that relm did not write only where it
  goes by the file's name, and never that file's directory.
- *Download cache.* The final path never has unverified bytes of a download, and a
  corrupt file from before only if it could not be removed.
- *Thread pool.* No thread is a node ahead of its inputs; no part of a product is
  computed twice; the pool is reset when nobody uses it; no wakeup is lost.
- *Extraction service.* A store has one owner and one worker over all kills; an
  accepted document is computed at most once, gets one terminal record and keeps
  it; work that was given up does not commit; a service that is closed stays
  closed; a stop ends it.
- *Not modelled:* the batch runner's lock and resume.

## 2. Modules

| Module | What it is |
|---|---|
| `NativeSession` | abstract: numbered exclusive sessions |
| `NativeDomain` | `domain.rs`, one action per critical section |
| `NativeDomainProofs` | its inductive invariant, its safety and its refinement of `NativeSession` |
| `AsyncJob` | worker, Control block, event queue |
| `JobPromise` | abstract: what the API promises about jobs, promises and the engine |
| `AsyncBoundary` | EXTENDS `AsyncJob`: FFI registry and R layer around the worker |
| `AsyncBoundaryProofs` | the inductive invariants and the safety of `AsyncJob` and of `AsyncBoundary`, and the refinement of `JobPromise` |
| `LiveSteering` | the data of steering commands: coefficients, replies, overlay |
| `LiveTurn` | abstract: worker and consumer take turns over states |
| `LiveHandshake` | one live prompt: worker, live slot, queue, poll and callbacks |
| `LiveHandshakeProofs` | its types, the restoration of the adapter, cancellation, the protocol of both sides, replies in effect, the queue, the refinement of `LiveTurn`, the order of its events and the completeness of a resolved job |
| `TraceFiles` | abstract: what becomes of the trace files of a job |
| `LiveSpill` | worker, writer thread, file owner and cancellation of live spilling |
| `LiveSpillProofs` | its types, the cancellation, the files left, the refinement of `TraceFiles` |
| `SpillLease` | several R processes and their managed spill directories |
| `SpillLeaseProofs` | its inductive invariant, exclusive leases, anchored writes, what is kept |
| `Download` | several sessions and one file of the model cache |
| `DownloadProofs` | its inductive invariant |
| `ThreadPool` | the engine's threads: barrier, kickoff, polling and sleeping, chunks, free |
| `ThreadPoolProofs` | its inductive invariant and its safety |
| `Tickets` | abstract: what the extraction service promises about a document |
| `FundingService` | frontends, their workers, the store, and who starts, kills and stops them |
| `FundingServiceProofs` | its inductive invariant, its safety and its refinement of `Tickets` |
| `MCNativeDomain`, `MCAsyncJob`, `MCAsyncBoundary`, `MCLiveHandshake`, `MCLiveSpill`, `MCSpillLease`, `MCDownload`, `MCThreadPool`, `MCFundingService` | instances for TLC |

**NativeDomain.** `next`, `reserved`, `owner` are the fields of `DOMAIN`;
`active` the thread-local `ACTIVE`; `permit` the permit *values*, which the
code moves through closures and join results (`HandOver`). The guards'
constructors and destructors take the mutex twice, so each is two actions with
a `pc` between them. `inNative` is the span from a passed `assert_current` to
the end of the native call: the code never holds the mutex over that span. An
unbind is impossible while the thread itself is inside (`inNative`), which is
Rust's borrow of the guard. A nested guard of a bound thread changes nothing
and has no action. `for_drop` is only used without a permit in hand.

**AsyncJob.** One action is one critical section of the Control mutex or the
native stretch between two. `enqueue` is split into refusing, appending and
parking, in the order of the code's tests; `asleep` is being parked on
`Control.space`, and every operation that notifies clears it. `cancel` sets the
atomic flag and `cancellation_accepted` under one lock and both are `cancelled`.
The worker's `outcome` is `broken` after a panic or a failed restoration, which
are the two cases `publish` does not turn into a cancellation. `DropJob` is the
drop of the job. A text is cut into rows of at most `ChunkBytes`; one row per
token is modelled, more rows are more of the same calls. Spurious wakes are left
out: by `NoLostWakeup` a woken producer would park again.

**AsyncBoundary.** All of it runs on R's main thread, but callbacks may pump the
event loop, so the state of that thread is a `stack` of polls: the frame on top
runs, the others wait in their callbacks. A frame's `at` is its place in
`async_poll`. User code (`Submit`, `Cancel`, `Close`, `Unload`, due timers) runs
only at the prompt or when the top frame is in a callback; the worker and the
garbage collector (`Finalize`) run between any two actions, except that
the collector does not run inside the blocking join. `model[h]` says where the
`LoadedModel` of a handle is; `registry` is `ACTIVE_JOB`; `jobs[j]` the job
environment with its promise's `verdict`, `timer`, `callback_error` (`failure`)
and stream position. Terminal settlement follows `finish_active` without user
code in between unless the job completed, so the two are one action
(`FinishActive`) with an extra frame for the last progress callback. "lost" and
"join" are the emergency and the unload shutdown, the only blocking path.

Bounded by the model, not by the code: the number of promises (`MaxJobs`), of
handles and of job kinds (`Modes`). Left out: refused submissions (busy or
closed; they reject at once and change nothing), the contents of texts and
progress snapshots (a callback may be called at every opportunity), the live
mode, interrupts outside consumer callbacks, handles created during the run (all
are open at first).

**LiveHandshake.** The same worker and boundary for a job with `on_state`, in the
detail that matters there and no more: one prompt (the code allows one), one
handle at a time, a queue that never fills. `streaming`, `cancelled`, `rows`,
`shut` and the record `live` are `State` under the Control mutex; `asleep` is
being parked in `publish_live`. The worker's `pc` follows one turn of
`continue_generation_observed`: "loop", "sample", "sampled", then the observer
("observe" and "live" are `publish_live`, "apply" and "command" `apply_reply`
before and under the lock, "advance" the rest), then "token", "text", "decode".
"ending" is the way out without an error, "restore" the drop of `LiveSteering` on
*every* way out. `steer` is `LiveSteering`, `adapter` what is installed in the
native context; the two differ after a setter that failed. The record `poll` is
the poll in progress: `at` its place in `async_poll`, `batch`, `ready` and `state`
what `rebirth_async_poll` returned. A poll never nests, because `polling` blocks
the only job there is. User code (`LlmCancel`, `Close`) runs between polls and in
both callbacks. `audit` is `live_state_id` and `live_audit`. A reply is a partial
function from steering entries to coefficients; `Unrepresentable` are the
coefficients whose rebuilt buffer overflows. `seen` and `promised` are
histories: the last row given to `on_token`, and the original coefficients
overlaid with every reply accepted so far.

That a live job never waits for queue space is an assumption justified by
`OneTokenQueued`: all rows of the queue are of one token, and the code's limits
(256 rows, 256 KiB) leave room for the rows of one. A producer that does wait is
in `AsyncJob`. Left out: `on_progress` and unload (they are in
`AsyncBoundary`), spilled traces, a file sink, the row-by-row validation of
batches (`BatchesAreValid` there), the length checks of replies, which R's
`live_reply` has already made. A state that was taken is delivered even if
`on_token` of the same poll cancelled the job; only its reply is withheld. That
is the code's behaviour (`live-state.R:211` does not look at
`live_cancel_requested`), and the model has it.

**LiveSpill.** The same worker again, for a job whose traces go to files. `pc`
follows one state through `begin_decode` ("decode" to "spawn": file, owner,
`LiveCancel::register`, thread), the taps ("tap", "push"), `snapshot` ("sampled",
"closing", "join") and `publish_live` ("publish", "waiting", "dropping");
"unwind" to "dropJoin" is the drop of the sink on every other way out. `wpc` is
the writer: `writer_loop` and the closure around it. Every notification that the
code makes after unlocking is an action of its own (`WakeWriter`, `WakeAborted`,
`TellFailure`, `Wake`); `parked` and `waits` are the waits on `space` and
`ready`. `file` is what is on disk, `holder` who has the `OwnedLiveFile` of it
("caller" after `retain`). `main` follows `AsyncJob::cancel` through
`LiveCancel::cancel` under the Control mutex, `latch` is the mutex of
`LiveCancel.writer`. `batches` counts what the writer wrote, in place of its row
count; the error that `finish` raises for a wrong count is `JoinedFailure`. The
byte bound of the queue is left out because it is met in the same test as the
row bound; the Arrow layout, the estimate, the labels and a batch over its
advertised bound (one more write error) are left out. A file whose metadata
cannot be read has no owner and stays behind (`CannotOwn`, `live_spill.rs:143`):
the properties say so instead of hiding it. Unix only: elsewhere `Drop` keeps
the files.

**SpillLease.** Directories are inodes (`Dirs`), so a name and what it leads to
can come apart: `home` and `loc` are where the name was made and where it is.
`locked[d]` is the set of processes that have the locked description open,
because an flock belongs to the description and fork shares it; `Release` is the
closing of one process's descriptors. `marker` is the lease marker's life;
`old` that the modification time is below the sweep's cutoff, which every change
in the directory resets. `pc` follows `acquire` ("mkdir" to "written"),
`relm_spill_lease_open` ("check", "opening"), the sweep ("probe", "probed") and
`remove_owned` ("remove", "scan", "delete", "unlink", "unmark", "rmdir"). A check
and the call it guards are separate actions wherever another process can come
between them; what one check looks at (`Identity`, the stat of an entry) is one
action, and so are `mkdirat` with the opening of the new directory, and the opening
of a directory and of its marker. So a removal is `BeginRemoval`, one `ListEntry` per entry of the preflight,
`ListEnd`, then `CheckEntry` and `UnlinkEntry` per entry, `CheckMarker`, `Unmark`
and `RemoveDir`; it takes the entries in any order, as `readdir` may.

`files[d]` says what each name in a directory leads to, which is an inode as well:
the trace of a process (its pid stands for it) or a stranger, a file that relm did
not write. The names are of three kinds, which is all the code tells apart: "trace"
and "stray" have the form `trace-*.arrow`, the first being the one the session
writes to, and "other" has not. A session's second trace is not told apart from its
first: while the first is there the name is taken. Strangers are `Regular` (of the
user, regular, with one link, so `LooksLikeTrace` takes one for a trace under such
a name) or `Odd` (everything stat can refuse). `Intrude` puts one under any name at any
moment, also over the entry that is there, and so between a check and its unlink;
`late[p]` records that this happened to the name p has checked (history). A name
that is only taken away is left out: what follows is the failure of the next call
on it. `UnlinkEntry` may fail.

`Fork`, `Die`, `Age` and the actions of `Outside` are the environment. A child forked
while a worker thread holds the registry's mutex is "stuck": its copy of the mutex is
never unlocked. Taken as given: the cache root stays where it is, directories belong
to the user, markers are not replaced or hard linked. `Taken` is judged with the
directory's name in place, so a directory that was moved aside and whose place was
taken is never moved back over it.

**Download.** `pc` is the place in `download_verify`; `part` the session's own
temporary file, `dest` the shared destination by what it has: "leftover" is a
file from before the model began that is not the pinned model. `RemoveWrong` is an
`unlink` whose result the code ignores: if it fails the file stays and the call goes
on. `Refused` takes the fallback of `move_into_place`, R's `file.copy`, which creates
the file and then appends. `ended`, `copied` and `undeleted` (an unlink failed) are
histories. The bare URL, which has nothing to verify against, is left out.

**ThreadPool.** One action per access to the shared record or per critical
section. `graph` is `n_graph`, whose bits are a count and a number of threads.
`computed` is a history of the parts of the graph that were computed. `relm`
gives its contexts no pool, so the engine makes one per graph and frees it; the
branch that reuses a pool, pause and resume are the engine's own interface and
are in the model because the code has them. The abort callback is a choice of
thread 0 after each node. Left out: thread priorities and affinities, the
operators' arithmetic, matrix products with expert indices. The atomics are
taken as sequentially consistent.

**FundingService.** A frontend is one R process and one thread; `pc` is its place
between two file operations or two callbacks, and `Crash` takes it anywhere.
Identities are of a process with its birth time, so a name in a file means one
process for ever. `guard`, `lock`, `epochDir`, `admissions`, `results` and
`stopFile` are the store; "bare" is a directory without its owner.json, "made" an
epoch whose owner.json names no worker yet. `mem[f]` is the environment `e` with
its fields' names. The opening ("guard" to "stopfile") is `svc_store_open`, the
places of `Spawning` are `svc_start_worker`, those of `Ticking` one `svc_tick`
in the order of its code; requests come between two ticks. `Retire` is
`svc_retire` with all it publishes, and `TickError` the error handler around a
tick. `Failures` and `MaxMishaps` say which operations may fail and how often;
deadline, byte and memory limits are such failures too, because nothing bounds
how late they are noticed. A worker is born and called to initialize in one step;
`call` and `reply` are the pipe in both directions. `Inspect` is the operator who
removes the guard of a dead starter, which the code leaves to him
(`runtime.R:176-178`). A frontend whose worker cannot be confirmed dead keeps
the lock as a dead owner's does.

Left out: parsing and checking of requests and records, seals, the supervisor's
files, the event log's contents. An admission whose hook fails after it was published
is `Admit` followed by `DispatchFails`, because the handler reads the receipt back
(`runtime.R:649-657`). That this reading fails as well, two failures in one request,
is not modelled: the document is then admitted on disk and unknown to the faulted
frontend, which `NoneForgotten` excludes, until the next opening finds it. The states "starting" and "restarting" are one,
as are the answers "error" and "invalid". Interrupts come only while the service
runs, not while the store is opened or a worker started, where R's exit handlers
end the process.

## 3. Runs

| Run | Instance | Question |
|---|---|---|
| `native_domain` | 4 threads, generations up to 4 | exclusion, wakes, refinement |
| `async_job` | 2 prompts, 2 tokens, queue of 3 rows / 3 bytes, rows of at most 2 bytes, batches of 2 | the worker against any main thread; its queue's account; its termination |
| `handles` | 2 handles, 1 job of any kind, 2 prompts, 2 tokens, a queue of 2 rows / 1 byte | ownership of models, unload, delivery, first failure |
| `promises` | 2 streaming jobs on 1 handle, 1 prompt, 1 token | the reservation and the promises over successive jobs; every promise settles |
| `live` | up to 3 tokens, 2 steering entries with 2 coefficients, one combination that overflows, batches of 1 row | order, replies, restoration, turns; the promise settles |
| `live_spill` | 2 states of 2 rows of 2 batches, a queue of 1 row, writes of 1 or 2 bytes, a budget of 15 | files, budget, progress after a cancellation |
| `spill_lease` | 3 processes, 1 session path, 2 directories, 1 regular stranger and 1 odd one, 1 move or intrusion from outside | leases over forks, crashes, recycled pids and sweeps; where traces land; what a removal takes |
| `thread_pool` | 3 threads, 2 graphs of 5 nodes, 8 chunks, 1 pause | barrier, chunks, reset, wakeups |
| `download` | 3 sessions | the final path |
| `service` | 2 frontends, 2 worker processes, 1 document, 2 failures of any kind, kills, interrupts, 1 stop | one owner and one worker; one run and one record per document; late work; closed admission |
| `service_ends` | 1 frontend, 3 worker processes, 1 document, 3 failures, kills, 1 stop | every document it works on and every stop it sees ends |
| `cancelled` | 1 plain job | expected violation, see section 6 |

A safety property that is proved for every value of the constants and that a
stronger property of the same run would show broken as well (`NoLostWakeup` beside
`JobCompletes`, `CancelReachesWriter` beside `WorkerProgress`) is not checked
again.

Why the bounds are enough for the cases of interest: four threads allow an
owner, a thread with a permit in transit, and two destructors parked at once;
with four generations the counter is exhausted in the run. The job's queue fills
by rows and by bytes, batches are cut by both limits, the second prompt makes
`prompt_id` move. Two handles separate the submitting handle from a bystander
whose close is deferred. Two jobs are needed to let a final callback submit the
next job while the first promise is unsettled, and for one job's emergency
shutdown to meet another; one handle is enough for that. One job is enough for
delivery, because a batch is validated against its own job only. Two jobs on two
handles are left to the proofs.

The spill queue of one row makes the worker wait for the writer and the writer
for the worker in one state; the first file can take 12 of the 15 bytes, so the
second can meet its limit at any of its writes. One session path is the
interesting one, as processes with different paths meet only in sweeps: it lets a
process with a recycled pid meet the directory of its dead namesake, and two
directories let one replace the other at that path. The one interference is a
directory moved aside, whose place may then be taken (`Occupy` costs no move, since
each inode is used once), or a stranger that comes under a name at any step of a
removal. Three processes are an owner, its forked child and a sweeper. Longer chains
of interferences are left to the proofs. Three threads let a barrier have a last, a fast and a
slow thread; eight chunks are more than four for each of two threads and fewer
for three, so both plans of the product occur; the second product shows a
counter left over from the first, the second graph a worker late from the first.
A worker that sleeps through all 2^16 graph counts would miss one; the bound
`MaxGraphs < IdSpan` excludes it, and relm's pools live for one graph.

Three tokens give a state whose predecessor was answered with a change and one
whose was not; two entries let a reply leave an entry alone, and batches of one
row make a poll stop before the queue is empty. The settled job is followed by
another on the same handle, which is how foreign steering would show.

Two frontends are a dead owner and its successor, or a starter that acts on what it
read of a lock. Two failures are one and the failure of its handling (a
retirement whose publication fails); kills are not counted. One document is
enough because a frontend works on one at a time and documents meet nowhere else;
the three worker processes of `service_ends` are one more than the limit of
failing starts, `RestartAttempts` = 2. Frontends, workers and documents are
interchangeable, so `service` uses symmetry.

Deadlock is checked for every run but those of the boundary and the service, which
say `CHECK_DEADLOCK FALSE`: when all `MaxJobs` promises are settled and everything
is closed, or all frontends are gone, nothing is left to do.

## 4. Fairness

`JobCompletes` and `EveryPromiseSettles` assume weak fairness of the worker
(native calls return, the thread is scheduled), of R's own steps, of the end of
a callback, and of a due timer while R is idle at the prompt. The last is what
`later` provides; a callback is *not* assumed to pump the loop. Nothing is
assumed of the user, of the collector or of failures. In `AsyncJob` alone the
timer chain is represented by fairness of the drain and of the join.

`JobSettles` assumes weak fairness of the worker and of the main thread as a
whole, and strong fairness of `DrainState`: `drain_state` uses `try_lock`, and a
poll that finds the lock taken tries again at the next; the worker holds it for
moments only, so one attempt succeeds in the end. Without this assumption the
poll could be unlucky for ever.

`WorkerProgress` assumes weak fairness of the writer thread and of a cancellation
in progress, and strong fairness of the worker, which competes with the main
thread for the Control mutex. Whether the caller takes, answers or cancels
anything is left open, so the worker may wait for an answer for ever.
`PoolProgress` assumes that the system runs every thread (weak fairness of each)
and that the caller frees its pool in the end; polling may always give up and
sleep. `AdmittedEnds` and `StopHeeded` assume that R runs a frontend that is alive,
that a worker answers in the end and that a killed one, or one whose frontend is
gone, dies (callr's supervisor). That a worker answers stands for its deadline:
one that does not is retired by the clock, which the model has as a failure that
may but need not happen. Nothing is assumed of clients and kills.
`service_ends` has no interrupt and no failure inside the start of a worker
("spawn") or inside a tick ("tick"): after one between a worker's start and its
identity, or in the cleanup of its epoch, the code does not end (section 6). The
whole kind "tick" is left out for it, so a failing event log is covered by the
safety properties of `service` only. `spill_lease` and `download` have safety only: nothing in that code waits.

## 5. Proofs

`NativeDomainProofs` (for every set of threads and every counter width) proves
`TypeOK`, `ExclusiveNative`, `PermitMatchesReservation`, `CapabilityIsLive`,
`NoLostRelease`, `GenerationsAreFresh` and `ImplementsSession`. Exclusion alone
is not inductive: a thread inside native code must be known to be the bound
owner, the owner's capability must be the live generation, and the permit that
could release it must be in the owner's hands. The invariant `DomainInv` adds
the relation between `pc` and the guard's permit. Assumptions: `NoThread` is not
a thread, the width is a positive number.

`AsyncBoundaryProofs` begins with the job alone: for every number of prompts and
tokens and all limits it proves `JobTypeOK`, `NoLostWakeup`, `RowsAreConsecutive`,
`CancelWins`, `TerminalIsFinal` and `QueueAccounting`. `JobIInv` adds that a job is
terminal exactly after its publication and that the event counter is ahead of the
queue. `FrontRemoved` and `RowAppended` say what a drain and an enqueue do to the
queue. The account of its bytes is a fold over the rows: `BytesOfSums` says that it
is the last of the sums of the first rows, from which follow the bytes of a queue
with one more row (`BytesOfAppend`) and of the two parts of one (`BytesOfParts`).

Those lemmas are inductions over a sequence. The induction theorems of the library
take an operator, which no backend instantiates; `SetInduction` states the same for
a set (what holds 0 and n + 1 with every n holds all numbers), and follows from
`WFMin` and `NatLessThanWellFounded`. It is also behind `EndedShift` below and the
sum of `LiveSpillProofs`.

`LiveHandshakeProofs` (for every number of tokens, every set of entries and
coefficients and every batch size) proves `TypeOK`, `AdapterRestored`,
`CancelFreezesAdapter`, `ProtocolHeld`, `RepliesTakeEffect`, `OneTokenQueued` and
`ImplementsTurn`. The restoration needs `AdapterInv`: what `LiveSteering`
believes is installed is installed, and `dirty` is set before the adapter can
differ from the original; and `SettledInv`: a promise settles after the worker,
and a handle whose restoration failed is closed by then. `CancelFreezesAdapter`
needs no invariant: the setter tests the cancellation under the lock.

The other four rest on `HandshakeInv`, which has four parts, inductive only
together: `SlotInv` (the slot against `pc`, `tokens` and `live_pending`),
`StateInv` (the state offered, or held by R, is the worker's), `AuditInv` (what R
knows of the steering is the worker's, or one reply older, so every state meets
R's contract) and `PromiseInv` (an accepted reply is in the slot, in the worker's
hands or installed). `WorkerEffect` and `ConsumerEffect` reduce the actions of
the two threads to the few kinds of step these parts tell apart. `QueueInv` adds
that all rows are of the token answered last and that a state is taken from an
empty queue. For `ImplementsTurn`, `CancelInv` says that R knows of every
cancellation, so that no answer reaches a generation that is over. Assumption:
the original coefficients are representable.

Its last part proves `EventOrder` and `SuccessIsComplete`. `EventOrder` speaks of the last event R has
seen, so it needs the events in between: `OrderInv` says that the rows of the
queue, those of the poll's batch and the state a poll holds come in the order in
which the worker made them (`Emitted`), after those R has reached (`Reached`).
A resolved promise is complete because of `SuccessInv`: a worker that ended well
emitted all its tokens, and the poll that found the job ready found the queue
empty. `AbandonInv` is what an abandoned generation adds: rows may be
dropped then, and the promise does not resolve.

Around the job, `AsyncBoundaryProofs` (for any handles, any number of promises of
any modes and all limits of the worker) proves `TypeOK`, `OwnershipAccounted`,
`ReservationHasCollector`, `UnloadedIsQuiet`, `FirstFailureWins`,
`ResolvedIsComplete`, `BatchesAreValid`, `NoDestructionUnderWorker` and
`ImplementsPromise`. Its
invariant `BoundaryInv` is the worker's `JobIInv` with seven parts. `ControlInv`
ties the worker's `pc`, the reservation, the registry and the streaming flag to
one job. `StackInv` says what each poll on the stack may rely on: no two are of
one job, and all but the innermost are in a callback. `TimerInv`: the job of a
timer is pending and rooted, and a reservation has somebody who comes back for
it. `UnloadInv` and `VerdictInv` are what is left after an unload and what a
settled promise means. No part is inductive without the others: a timer that
fires pushes a poll, which is legal only because the stack has none of that job,
which follows from `polling`, which the stack explains. About ten lemmas
(`MovedStep`, `BesideStep`, `PopStep`, `FinishStep`, ...) reduce the actions to the
few kinds of step these parts tell apart; `PromptsEndedNext` bounds the ended
prompts by a cardinality. For the refinement, `QuietStep` and the `...Shown`
lemmas say which steps leave the mapped state alone.

`BatchesAreValid` needs one invariant more, `StreamInv`, on top of `BoundaryInv`:
as long as a stream has no recorded failure, is neither closed nor discarded and no
batch is lost on its way (`InOrder`), R's count of events is what was drained, and
the rows of the queue go on with the prompt R expects, up to the prompt the worker
is at (`Lined`). Where R may have missed rows, it never checks a batch again,
because the step that lost them recorded the failure and discarded the stream
(`FailureStreams`). `EndedShift` adds up the prompts ended by a batch and by the
rows behind it.

The assumptions of all this: there is a handle, the names of no handle and no job are not handles or jobs, the limits are
positive numbers.

`LiveSpillProofs` (for any number of states, rows and batches, any capacity and
budget) proves `TypeOK`, `CancelReachesWriter`, `OnlyDeliveredRemain`,
`WithinBudget` and `ImplementsTraces`. The invariant `SpillInv` relates the worker's place to the
writer's and to the holder of the file: a file of an earlier state is the
caller's; the file of this state is with the worker, the writer, the thread's
result or the slot according to the two program counters. That a cancellation
reaches the writer needs the place of the main thread as well: once the flag is
set, either the queue is aborted, or the main thread has still to look at it, or
the worker has still to look at the flag. It also has `spent + bytes[state] <=
Budget`. `WithinBudget` speaks of the disk: the space in use is a sum over the files
of all states, defined by a recursive function (`DiskUseExists` and `UseSumsUp` say
that it is one). `AccountInv` says that what the caller has added up
(`spill_written`) is at least the length of the files of the states before; the sum
moves with one file at a time (`UseStays`, `UseEnds`).

`SpillLeaseProofs` (for all sets of processes, paths and directories and any
amount of interference) proves `TypeOK`, `LeaseExclusive`, `WritesStayAnchored`,
`LiveDirectoryKept` and `StrangersKept`. Its invariant says that a
registry entry with a lease belongs to a running process that shares the lock and
carries the pid of the directory's maker, and that a removal is either by the
only process that shares the lock (a sweep) or by the maker after its entry left
the registry (a cleanup). A live owner shares the lock and is the maker, so it
excludes both. For the entries, `ScanLooks` says that a preflight passes only what
looks like a trace, and `Checked` that the name a removal is about to unlink leads
to what the preflight found there, unless something was put over it since the check:
nobody else removes anything in that directory, by `OneClaimant`. `EntryStep` and
`DirStep` reduce the actions to the few kinds of step that entries and directories
tell apart; the action properties follow from them. The assumption is that `None` is
no process, path, directory or stranger, and that a file is of one kind only.

`DownloadProofs` (for any set of sessions) proves `TypeOK` and
`DestinationVerified`: what makes it inductive is that while the leftover is
there and no unlink failed every session is idle or has still to look at it or to
remove it, and that what is moved was verified.

`FundingServiceProofs` (for any sets of frontends, worker processes and documents,
any restart limit and any number of failures and stops) proves `TypeOK`,
`OneOwner`, `OneWorker`, `LateNeverCommits`, `NoneForgotten`, `ClosedStaysClosed`
and `ImplementsTickets`. None of them is inductive; `ServiceInv` has for each
frontend five parts. `OwnerInv`: the guard directory is held by one starter, and a
frontend that holds the lock is the one the lock names, or is writing that.
`MemoryInv`: what the frontend remembers (state, operation, active document, its
worker's epoch) fits the place where it is, and a storage failure or the last
restart has closed the service. `WorkerInv`: whoever serves knows the only worker
that can be up, and while a new one is prepared there is none. `CallInv` and
`StoreInv` tie the call of the watched worker and the records of the active
document to the memory. `PipeInv` and `DocInv` speak of workers and documents
alone: only a running worker has an answer to give, it can be found by its epoch,
and a document that was given up has no answer. The proof
separates a step of the owner, of another frontend and of the surroundings
(`RulingSteps`, `EndOwner`, `BesideOwner`): `OthersStay` says that nobody writes the
memory of another frontend, `MemorySteps` and `EdgeSteps` reduce the actions of the
owner to changes of the memory, and a `...Keeps` lemma per action does the rest.
A kill is an ordinary step of it. `TicketsImplemented` shows which six actions the
client can see. Assumptions (`ServiceAssumption`): names of different kinds differ,
`None` is none of them, the restart limit is a positive number.

`ThreadPoolProofs` (for any number of threads, any graph, any number of chunks,
graphs and pauses) proves `TypeOK`, `InputsComplete`, `ChunkOnce` and
`ResultComplete`. Its invariant `PoolInv` says that the pool is idle or that all
threads of the running graph are between the same two barriers: `Segment` is the
node they are at and whether they share its chunks, and each thread is before it
(it has not yet seen that the last barrier was passed), in it, or
waiting at its end. `BarrierInv` says that the barrier's counter is
the cardinality of the set of the waiting (`CountedSize`), so that the last thread
to enter knows that all have entered. The threads agree on the next node without speaking
to each other, because operations without work are skipped alike by all
(`BeforeNops`) and the abort flag is set to the node that thread 0 goes to before the
barrier that all wait at (`ChunksAgree`, `LoopAgrees`). `PassedStep` is the heart: when
the barrier is passed, the next segment's inputs are what the last segment
computed. TLC refuted an earlier form of the invariant, which said that nothing is
aborted while a thread has still to begin: thread 0 may already have aborted at
the first node by then.

Model-checked only:

- liveness (`JobCompletes`, `EveryPromiseSettles`, `JobSettles`, `WorkerProgress`,
  `PoolProgress`, `AdmittedEnds`, `StopHeeded`), which is beyond the prover;
- the expected violation, `AcceptedCancelRejectsCancelled`.

Every invariant that a passing run checks is also a theorem.

## 6. What the checks found

The manual page of `llm_cancel` (`R/async.R:403-405`) says that after an accepted
cancellation "the promise rejects with `relm_error_cancelled`; it never resolves
to partial text". The second half holds (a part of `ResolvedIsComplete`). The
first does not: `Control::publish` replaces the result only if the worker did not
panic or lose its model (`async_job.rs:463`), and a consumer failure recorded by
R is preferred over the native error (`async.R:311`). The run `cancelled` shows
the first of these.

More observations, in the models but without a run of their own:

- A comment in `remove_owned` (`spill_lease.cpp:105-106`) says that it preflights all
  entries before deleting any. What it recognises by that is a name of the form
  `trace-*.arrow`, a regular file, its user and one link (lines 121-126): a file of
  the user's that happens to look so is deleted with the traces. And the unlink of
  line 137 goes by the name that line 135 checked, so a file renamed over it in
  between is deleted in its place, whatever it is (only a directory is safe).
  `StrangersKept` has these two exceptions and no third.
- A comment in `download_verify` (`R/download.R:234-235`) says that a corrupt cached
  model is removed "so a later failed re-download cannot leave a corrupt file
  masquerading as the model". Line 239 ignores the result of that `unlink`: when it
  fails and the fetch fails after it, as both do in a cache directory that may not be
  written, the call ends with the corrupt file in its place although no rename was
  refused (`RemoveWrong`). `DestinationVerified` is what does hold.
- `R/download.R:193-196` says that the destination "never contains unverified or
  partial bytes". That holds while `file.rename` works (`DestinationVerified`).
  Where it is refused, the fallback `file.copy` (line 311) writes the destination
  in place, and a second session or a kill can leave partial or mixed bytes there
  until the next call checks them.
- `unlink(dest)` at line 239 removes whatever is at the path by then, which may be
  the file that another session has just verified and moved there. The other
  session has then returned a path without a file.
- A sweep that probes a directory between the creation of its marker and the
  creator's `flock` makes the creation fail (`LockMarker`, `CreateFails`). The
  directory stays, and every later spill of that session fails at `mkdirat`.
- A live spill file whose metadata cannot be read right after its creation has no
  owner and is never removed (`CannotOwn`).
- The service's contract says of an ordinary stop that "the whole stop takes at most
  15 seconds and leaves no worker" (`docs/service-contract.md:220-222`). Two orders
  of events break it. `svc_owner_write` names the new owner while the store is still
  being opened; a `svc_stop` that reads it in that moment writes a record with its
  nonce, and line 760 of `runtime.R` removes the record as an old one, without
  reading the nonce that the comment above it speaks of: the service runs on
  (`StopReads`, `StopWrites`, `DropOldStop`). And `svc_run` turns an interrupt into a
  stop, but one that lands in `svc_tick` unwinds it: its `tryCatch` handles errors
  only, and the line that schedules the next tick is after it (586), so that nobody
  drains, retires or finishes, and a later stop record is not read either
  (`Interrupt`). `StopHeeded` is what does hold.
- A stop record written for an owner that died meanwhile makes its successor fault
  at every tick (`ForeignStop`), and an exiting frontend removes the stop record
  after its lock (`Tidy`), so it may remove its successor's.
- A frontend that fails or is killed between creating an epoch and naming the worker
  in it leaves an epoch that stops every later opening (`CleanEpoch`). That is the
  stated design: unknown ownership blocks recovery.
- A failure between the start of a worker and its identity (`runtime.R:426-427`)
  leaves a worker without one; every later tick errors at `e$worker_identity`
  (`Reap`), so that service cannot end by a stop.
- A fault after a stop began turns "stopping" into "faulted" (`svc_fault`); a stop
  by a record goes on because the record is read again, one by an interrupt does
  not.

## 7. Plan

What is left, in the order of its worth:

1. `BatchRun`: the lock, recovery and resume of the batch runner, which shares
   `app_write_atomic` and the record checks with the service.
2. `TextStream`: the incremental decoder against the whole-string definition.

Not modelled, and why: the numeric parts (sampling, interventions, probes,
embeddings, projections, vision, graphics) compute on values under one guard and
have no interleavings of their own; the schema compiler is a pure function over
grammars, which examples test better; the capture spill sink is the pattern of
`LiveSpill` without cancellation; the rest of the vendored engine is third-party
code that relm calls through the gateways of `NativeDomain`. The batch
runner is the service's store without its concurrency.
