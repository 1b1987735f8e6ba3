---------------------------- MODULE AsyncBoundary ----------------------------
(***************************************************************************)
(* Asynchronous generation as R sees it: the handle registry and the       *)
(* active job of the FFI crate (rebirth-ffi/src/async_boundary.rs), the R  *)
(* job environment with its timer, callbacks and promise (R/async.R,       *)
(* R/stream.R), close() and namespace unload (R/llm.R, R/zzz.R), composed  *)
(* with the worker and the Control block of AsyncJob.                      *)
(*                                                                         *)
(* Everything here runs on R's one main thread.  A callback of the user    *)
(* may do anything the API offers, including pumping the event loop, so    *)
(* the main thread is a stack of half-done polls: the frame on top runs,   *)
(* the others wait inside their callbacks.  The worker moves between any   *)
(* two actions.  Every native call of the main thread binds and unbinds    *)
(* the ownership domain (NativeDomain) within one action; what remains of  *)
(* the domain here is the reservation that a job carries.                  *)
(***************************************************************************)
EXTENDS AsyncJob

CONSTANTS
  Handles,   \* the llm handles of the session, all open at first
  Modes,     \* bound: the kinds of jobs submitted, see ModesAssumption
  MaxJobs    \* bound: promises created in one behaviour

ASSUME HandlesAssumption == Handles # {}
(* Without on_token, with a function, with a file connection.               *)
ASSUME ModesAssumption == Modes \subseteq {"plain", "callback", "file"} /\ Modes # {}
ASSUME JobsAssumption == MaxJobs \in Nat \ {0}

VARIABLES
  reserved,    \* the job whose permit holds the native domain, or NoJob
  model,       \* where the LoadedModel of each handle is
  closed,      \* HandleState.closed
  rClosed,     \* m$state$closed
  registry,    \* ACTIVE_JOB: the job, its discarded flag, completion taken
  jobs,        \* the R job environments with their promises
  rooted,      \* .relm_async$job
  stopping,    \* .relm_async$stopping
  stack,       \* the polls in progress on the main thread, innermost first
  accepted     \* history: jobs whose llm_cancel() answered TRUE

handleVars == <<model, closed, rClosed>>
rVars == <<jobs, rooted, stopping, stack, accepted>>
mainVars == <<reserved, handleVars, registry, rVars>>
vars == <<jobVars, mainVars>>

Jobs == 1 .. MaxJobs
NoJob == 0

(* The state of a promise.  "consumer" is a rejection with the first        *)
(* consumer failure, "failed" with a native error, "internal" with a        *)
(* transport failure.                                                       *)
Rejections == {"cancelled", "failed", "consumer", "internal"}
Settled == Rejections \cup {"resolved"}
Verdicts == Settled \cup {"unsubmitted", "pending"}

(* Where a poll stands.  In the places of UserPlaces a callback of the user *)
(* is running.                                                              *)
UserPlaces == {"onToken", "onProgress", "onFinal"}
Places == UserPlaces \cup
  {"header", "collect", "decide", "unconverted", "invalid", "file", "ready",
   "schedule", "lost", "join"}

TypeOK ==
  /\ JobTypeOK
  /\ reserved \in Jobs \cup {NoJob}
  /\ model \in [Handles -> {"handle", "job", "deferred", "gone"}]
  /\ closed \in [Handles -> BOOLEAN]
  /\ rClosed \in [Handles -> BOOLEAN]
  /\ registry \in [job : Jobs \cup {NoJob}, discarded : BOOLEAN, collected : BOOLEAN]
  /\ jobs \in [Jobs -> [owner : Handles, mode : Modes, verdict : Verdicts,
                        timer : BOOLEAN, failure : BOOLEAN,
                        events : Nat, prompt : 1 .. Prompts + 1]]
  /\ rooted \in Jobs \cup {NoJob}
  /\ stopping \in BOOLEAN
  /\ stack \in Seq([job : Jobs \cup {NoJob}, at : Places, ready : BOOLEAN])
  /\ accepted \in SUBSET Jobs

NoRegistry == [job |-> NoJob, discarded |-> FALSE, collected |-> FALSE]

Init ==
  /\ JobInit
  /\ reserved = NoJob
  /\ model = [h \in Handles |-> "handle"]
  /\ closed = [h \in Handles |-> FALSE]
  /\ rClosed = [h \in Handles |-> FALSE]
  /\ registry = NoRegistry
  /\ jobs = [j \in Jobs |->
               [owner |-> CHOOSE h \in Handles : TRUE, mode |-> CHOOSE m \in Modes : TRUE,
                verdict |-> "unsubmitted", timer |-> FALSE, failure |-> FALSE,
                events |-> 0, prompt |-> 1]]
  /\ rooted = NoJob
  /\ stopping = FALSE
  /\ stack = <<>>
  /\ accepted = {}

-----------------------------------------------------------------------------
(***************************************************************************)
(* The main thread's control stack.                                        *)
(***************************************************************************)
Top == Head(stack)
At(place) == stack # <<>> /\ Top.at = place
Goto(place) == stack' = <<[Top EXCEPT !.at = place]>> \o Tail(stack)
Push(j, place) == stack' = <<[job |-> j, at |-> place, ready |-> FALSE]>> \o stack
Pop == stack' = Tail(stack)

(* User code runs at the prompt and inside callbacks.                       *)
UserCode == IF stack = <<>> THEN TRUE ELSE Top.at \in UserPlaces

(* isTRUE(job$polling) of an outer frame.                                   *)
Polling(j) == \E i \in 1 .. Len(stack) : stack[i].job = j

Streaming(j) == jobs[j].mode # "plain"
Unsettled(j) == jobs[j].verdict = "pending"
Owner(j) == jobs[j].owner

(* active_for: the active job is j, submitted through the same handle.      *)
Registered(j) == registry.job = j

(* Operators named Mutant... are not part of the system: each is the one    *)
(* after it with a plausible defect.                                        *)
(* A promise can settle twice. *)
MutantSettle(j, v) ==
  /\ jobs' = [jobs EXCEPT ![j].verdict = v, ![j].timer = FALSE]
  /\ rooted' = IF rooted = j THEN NoJob ELSE rooted

(* async_settle: the timer is cancelled and the roots are cleared first.    *)
Settle(j, v) ==
  /\ jobs' = IF Unsettled(j)
             THEN [jobs EXCEPT ![j].verdict = v, ![j].timer = FALSE]
             ELSE jobs
  /\ rooted' = IF rooted = j THEN NoJob ELSE rooted

-----------------------------------------------------------------------------
(***************************************************************************)
(* Closing handles and destroying models.                                  *)
(***************************************************************************)
(* retire: a model is destroyed at once when the domain can be entered,     *)
(* together with everything deferred; otherwise its destruction waits.      *)
Retired(h) ==
  IF reserved # NoJob THEN [model EXCEPT ![h] = "deferred"]
  ELSE [g \in Handles |-> IF g = h \/ model[g] = "deferred" THEN "gone" ELSE model[g]]

(* close cancels a stream like any other job. *)
MutantNativeClose(h) ==
  /\ ~closed[h]
  /\ closed' = [closed EXCEPT ![h] = TRUE]
  /\ IF registry.job # NoJob /\ Owner(registry.job) = h
     THEN CancelIfPossible /\ UNCHANGED registry
     ELSE UNCHANGED <<registry, jobVars>>
  /\ model' = IF model[h] = "handle" THEN Retired(h) ELSE model

(* LlmHandle::close on an open handle.  If it submitted the active job, the *)
(* job is abandoned; the model is then with the job and not in the handle.  *)
NativeClose(h) ==
  /\ ~closed[h]
  /\ closed' = [closed EXCEPT ![h] = TRUE]
  /\ IF registry.job # NoJob /\ Owner(registry.job) = h
     THEN IF Streaming(registry.job)
          THEN DiscardStream /\ registry' = [registry EXCEPT !.discarded = TRUE]
          ELSE CancelIfPossible /\ UNCHANGED registry
     ELSE UNCHANGED <<registry, jobVars>>
  /\ model' = IF model[h] = "handle" THEN Retired(h) ELSE model

(* close.llm.                                                               *)
Close(h) ==
  /\ UserCode
  /\ ~rClosed[h]
  /\ rClosed' = [rClosed EXCEPT ![h] = TRUE]
  /\ NativeClose(h) \/ (closed[h] /\ UNCHANGED <<closed, model, registry, jobVars>>)
  /\ UNCHANGED <<reserved, rVars>>

(* The garbage collector finalizes a handle that no job roots.              *)
Finalize(h) ==
  /\ ~At("join")
  /\ \A j \in Jobs : Unsettled(j) => Owner(j) # h
  /\ NativeClose(h)
  /\ UNCHANGED <<reserved, rClosed, rVars>>

(* llm_cancel, when it answers TRUE.                                        *)
Cancel(h) ==
  /\ UserCode
  /\ ~rClosed[h] /\ ~closed[h]
  /\ registry.job # NoJob /\ Owner(registry.job) = h
  /\ CanCancel
  /\ RequestCancel
  /\ accepted' = accepted \cup {registry.job}
  /\ UNCHANGED <<reserved, handleVars, registry, jobs, rooted, stopping, stack>>

-----------------------------------------------------------------------------
(***************************************************************************)
(* Submission.  A refused submission (closed handle, busy domain) rejects  *)
(* its promise and changes nothing, and is left out.                       *)
(***************************************************************************)
Fresh(j) == jobs[j].verdict = "unsubmitted" /\ \A k \in 1 .. j - 1 : jobs[k].verdict # "unsubmitted"

(* The R environment of a new job.                                          *)
NewJob(h, m, timer) ==
  [owner |-> h, mode |-> m, verdict |-> "pending", timer |-> timer,
   failure |-> FALSE, events |-> 0, prompt |-> 1]

(* async_submit: permit, move of the model, thread, ACTIVE_JOB.             *)
StartNative(j, h, m) ==
  /\ reserved = NoJob
  /\ model[h] = "handle"
  /\ model' = [model EXCEPT ![h] = "job"]
  /\ reserved' = j
  /\ registry' = [job |-> j, discarded |-> FALSE, collected |-> FALSE]
  /\ Start(m # "plain")

Submit(j, h, m) ==
  /\ UserCode /\ Fresh(j)
  /\ ~rClosed[h] /\ ~closed[h]
  /\ StartNative(j, h, m)
  /\ rooted' = j
  /\ jobs' = [jobs EXCEPT ![j] = NewJob(h, m, m # "file")]
  /\ IF m = "file" THEN Push(j, "header") ELSE UNCHANGED stack
  /\ UNCHANGED <<closed, rClosed, stopping, accepted>>

(* AsyncStartFailure gives the model back, and whatever had been deferred   *)
(* is destroyed under the same permit.                                      *)
SubmitFails(j, h, m) ==
  /\ UserCode /\ Fresh(j)
  /\ ~rClosed[h] /\ ~closed[h]
  /\ reserved = NoJob /\ model[h] = "handle"
  /\ model' = [g \in Handles |-> IF model[g] = "deferred" THEN "gone" ELSE model[g]]
  /\ jobs' = [jobs EXCEPT ![j] = [NewJob(h, m, FALSE) EXCEPT !.verdict = "failed"]]
  /\ UNCHANGED <<jobVars, reserved, closed, rClosed, registry, rooted, stopping,
                 stack, accepted>>

(* An interrupt or an R error around the native call: the job is lost       *)
(* before or after the native submission, and R does not know its id.       *)
SubmitInterrupted(j, h, m) ==
  /\ UserCode /\ Fresh(j)
  /\ ~rClosed[h] /\ ~closed[h]
  /\ \/ StartNative(j, h, m)
     \/ UNCHANGED <<jobVars, model, reserved, registry>>
  /\ jobs' = [jobs EXCEPT ![j] = NewJob(h, m, FALSE)]
  /\ Push(j, "lost")
  /\ UNCHANGED <<closed, rClosed, rooted, stopping, accepted>>

-----------------------------------------------------------------------------
(***************************************************************************)
(* Consumer failures.  Only the first is recorded; the native job is       *)
(* cancelled, or its stream discarded, and the poll goes on at "next".     *)
(* A stream's job must still be the active one, otherwise the failure      *)
(* becomes a transport failure.                                            *)
(***************************************************************************)
Abandonable(j) == ~Streaming(j) \/ Registered(j)

(* rebirth_async_discard, or rebirth_async_cancel through the handle.       *)
Abandon(j) ==
  IF Streaming(j)
  THEN DiscardStream /\ registry' = [registry EXCEPT !.discarded = TRUE]
  ELSE /\ IF /\ ~closed[Owner(j)]
             /\ registry.job # NoJob /\ Owner(registry.job) = Owner(j)
          THEN CancelIfPossible
          ELSE UNCHANGED jobVars
       /\ UNCHANGED registry

FirstFailure(j) == Unsettled(j) /\ ~jobs[j].failure

ConsumerFailure(j, next) ==
  \/ /\ ~FirstFailure(j)
     /\ Goto(next)
     /\ UNCHANGED <<jobs, registry, jobVars>>
  \/ /\ FirstFailure(j)
     /\ jobs' = [jobs EXCEPT ![j].failure = TRUE]
     /\ IF Abandonable(j) THEN Abandon(j) /\ Goto(next)
        ELSE Goto("lost") /\ UNCHANGED <<registry, jobVars>>

(* The header of a file sink, written before the first timer.               *)
Header ==
  /\ At("header")
  /\ \/ Goto("schedule") /\ UNCHANGED <<jobs, registry, jobVars>>
     \/ ConsumerFailure(Top.job, "schedule")
  /\ UNCHANGED <<reserved, handleVars, rooted, stopping, accepted>>

-----------------------------------------------------------------------------
(***************************************************************************)
(* The poll.                                                               *)
(***************************************************************************)
(* The event loop runs a due timer, at the prompt or pumped by a callback.  *)
TimerFires(j) ==
  /\ UserCode
  /\ jobs[j].timer
  /\ ~stopping /\ ~Polling(j)
  /\ jobs' = [jobs EXCEPT ![j].timer = FALSE]
  /\ Push(j, "collect")
  /\ UNCHANGED <<jobVars, reserved, handleVars, registry, rooted, stopping, accepted>>

(* stream_check_connection finds the sink closed, before the native poll.   *)
SinkClosed ==
  /\ At("collect")
  /\ LET j == Top.job IN
       /\ jobs[j].mode = "file" /\ ~jobs[j].failure /\ ~rClosed[Owner(j)]
       /\ ConsumerFailure(j, "collect")
  /\ UNCHANGED <<reserved, handleVars, rooted, stopping, accepted>>

(* active_for and try_collect, which joins a worker that has returned.      *)
Collect ==
  /\ At("collect")
  /\ IF ~Registered(Top.job)
     THEN Goto("lost") /\ UNCHANGED <<registry, jobVars>>
     ELSE /\ Goto("decide")
          /\ IF pc = "finished"
             THEN Join /\ registry' = [registry EXCEPT !.collected = TRUE]
             ELSE UNCHANGED <<registry, jobVars>>
  /\ UNCHANGED <<reserved, handleVars, jobs, rooted, stopping, accepted>>

(* The completion is leaked with its permit. *)
MutantRelease == UNCHANGED reserved /\ registry' = NoRegistry /\ DropJob

(* The ActiveJob is dropped: its completion with the permit, its Control    *)
(* block with whatever is still queued.                                     *)
Release == reserved' = NoJob /\ registry' = NoRegistry /\ DropJob

(* A close during the job is forgotten. *)
MutantShutOnReturn(h) == outcome = "broken"

(* The handle does not survive the return of its model.                     *)
ShutOnReturn(h) == closed[h] \/ outcome = "broken"

(* A successful result is delivered although the stream was abandoned. *)
MutantState(j) == outcome

(* The state of the payload: a closed handle turns the success of a stream  *)
(* into a cancellation, "stream_closed".                                    *)
State(j) ==
  IF outcome = "ok" /\ Streaming(j) /\ ShutOnReturn(Owner(j)) THEN "cancelled" ELSE outcome

(* A native error hides the consumer failure that came first. *)
MutantVerdict(j) ==
  IF State(j) = "cancelled" THEN "cancelled"
  ELSE IF jobs[j].failure THEN "consumer" ELSE "failed"

(* The first consumer failure takes precedence over the native outcome.     *)
Verdict(j) ==
  IF jobs[j].failure THEN "consumer"
  ELSE IF State(j) = "cancelled" THEN "cancelled" ELSE "failed"

(* finish_active and the terminal part of async_poll that follows it        *)
(* without user code: the model is given back or destroyed, deferred models *)
(* are destroyed, the reservation is released; then the promise is settled, *)
(* after one last progress callback if the job completed.                   *)
FinishActive(j) ==
  LET h == Owner(j) IN
    /\ Release
    /\ closed' = [closed EXCEPT ![h] = closed[h] \/ ShutOnReturn(h)]
    /\ rClosed' = [rClosed EXCEPT ![h] = rClosed[h] \/ closed'[h]]
    /\ model' = [g \in Handles |->
                   IF g = h THEN IF ShutOnReturn(h) THEN "gone" ELSE "handle"
                   ELSE IF model[g] = "deferred" THEN "gone" ELSE model[g]]
    /\ IF State(j) = "ok" /\ ~jobs[j].failure
       THEN Goto("onFinal") /\ UNCHANGED <<jobs, rooted>>
       ELSE Settle(j, Verdict(j)) /\ Pop
    /\ UNCHANGED <<stopping, accepted>>

(* A completion that needs no delivery: the stream, if any, was abandoned   *)
(* or has failed.                                                           *)
NothingToDeliver(j) ==
  registry.collected /\ (~Streaming(j) \/ registry.discarded \/ outcome # "ok")

Finish ==
  /\ At("decide") /\ NothingToDeliver(Top.job)
  /\ FinishActive(Top.job)

(* payload$closed.                                                          *)
NoteClosed(h) == rClosed' = [rClosed EXCEPT ![h] = rClosed[h] \/ closed[h]]

(* async_progress on a running job and then async_schedule; equal snapshots *)
(* and jobs without a callback are callbacks that return at once.           *)
Progress(j, shut) == Goto(IF jobs[j].failure \/ shut THEN "schedule" ELSE "onProgress")

(* A plain job is still running.                                            *)
Running ==
  /\ At("decide") /\ ~Streaming(Top.job) /\ ~registry.collected
  /\ Progress(Top.job, FALSE)
  /\ NoteClosed(Owner(Top.job))
  /\ UNCHANGED <<jobVars, reserved, model, closed, registry, jobs, rooted, stopping,
                 accepted>>

(* stream_validate_batch: consecutive events, prompts in turn.              *)
PromptsEnded(n) == Cardinality({i \in 1 .. n : rows[i].kind = "prompt_end"})

ValidBatch(j, n) ==
  \A i \in 1 .. n :
    /\ rows[i].id = jobs[j].events + i
    /\ rows[i].prompt = jobs[j].prompt + PromptsEnded(i - 1)
    /\ rows[i].prompt <= Prompts

(* delivery_ready: native completion was seen before an emptying drain.     *)
DeliveryReady(n) == registry.collected /\ n = Len(rows)

(* The next step of a poll that holds a batch of n rows.                    *)
Deliver(j, n, place) ==
  stack' = <<[Top EXCEPT !.at = place, !.ready = DeliveryReady(n)]>> \o Tail(stack)

(* drain_stream, the conversion of the batch, stream_deliver up to its      *)
(* consumer.  A batch that cannot be represented in R is lost.              *)
Drain ==
  LET j == Top.job
      h == Owner(j)
  IN
    /\ At("decide") /\ Streaming(j) /\ ~NothingToDeliver(j)
    /\ NoteClosed(h)
    /\ \E n \in 0 .. BatchRows :
         /\ IsBatch(n)
         /\ Transfer(n)
         /\ \/ /\ n > 0
               /\ Goto("unconverted")
               /\ UNCHANGED jobs
            \/ /\ n = 0 \/ jobs[j].failure \/ rClosed'[h]
               /\ Deliver(j, n, "ready")
               /\ UNCHANGED jobs
            \/ /\ n > 0 /\ ~jobs[j].failure /\ ~rClosed'[h]
               /\ ~ValidBatch(j, n)
               /\ Deliver(j, n, "invalid")
               /\ UNCHANGED jobs
            \/ /\ n > 0 /\ ~jobs[j].failure /\ ~rClosed'[h]
               /\ ValidBatch(j, n)
               /\ jobs' = [jobs EXCEPT ![j].events = rows[n].id,
                                       ![j].prompt = @ + PromptsEnded(n)]
               /\ Deliver(j, n, IF jobs[j].mode = "file" THEN "file" ELSE "onToken")
    /\ UNCHANGED <<reserved, model, closed, registry, rooted, stopping, accepted>>

(* try_lock failed: no rows in this poll, and none are known to be missing. *)
DrainContended ==
  /\ At("decide") /\ Streaming(Top.job) /\ ~NothingToDeliver(Top.job)
  /\ MayContend
  /\ NoteClosed(Owner(Top.job))
  /\ Goto("ready")
  /\ UNCHANGED <<jobVars, reserved, model, closed, registry, jobs, rooted, stopping,
                 accepted>>

(* Conversion, validation and file errors are consumer failures.  After one *)
(* the poll neither acknowledges nor reports progress.                      *)
Undelivered ==
  /\ At("unconverted") \/ At("invalid")
  /\ ConsumerFailure(Top.job, "schedule")
  /\ UNCHANGED <<reserved, handleVars, rooted, stopping, accepted>>

WriteFile ==
  /\ At("file")
  /\ \/ Goto("ready") /\ UNCHANGED <<jobs, registry, jobVars>>
     \/ ConsumerFailure(Top.job, "ready")
  /\ UNCHANGED <<reserved, handleVars, rooted, stopping, accepted>>

(* What async_poll does after delivering a batch.                           *)
AckDue(j) == Top.ready /\ ~jobs[j].failure /\ ~rClosed[Owner(j)]

(* A callback settled the job by unloading the package.  job$model is gone: *)
(* the test whether the handle is closed fails, if the poll gets that far.  *)
AfterSettled ==
  /\ At("ready") /\ ~Unsettled(Top.job)
  /\ Goto(IF Top.ready THEN "lost" ELSE "schedule")
  /\ UNCHANGED <<jobVars, reserved, handleVars, registry, jobs, rooted, stopping, accepted>>

NotReady ==
  LET j == Top.job IN
    /\ At("ready") /\ Unsettled(j) /\ ~AckDue(j)
    /\ Progress(j, rClosed[Owner(j)])
    /\ UNCHANGED <<jobVars, reserved, handleVars, registry, jobs, rooted, stopping, accepted>>

(* The stream ended without ending every prompt, or the file cannot be      *)
(* flushed.                                                                 *)
NotAcknowledged ==
  LET j == Top.job IN
    /\ At("ready") /\ Unsettled(j) /\ AckDue(j)
    /\ jobs[j].prompt # Prompts + 1 \/ jobs[j].mode = "file"
    /\ ConsumerFailure(j, "schedule")
    /\ UNCHANGED <<reserved, handleVars, rooted, stopping, accepted>>

(* rebirth_async_ack, with its check of the registry and of the queue.      *)
Ack ==
  LET j == Top.job IN
    /\ At("ready") /\ Unsettled(j) /\ AckDue(j)
    /\ jobs[j].prompt = Prompts + 1
    /\ IF Registered(j) /\ registry.collected /\ rows = <<>>
       THEN FinishActive(j)
       ELSE /\ Goto("lost")
            /\ UNCHANGED <<jobVars, reserved, handleVars, registry, jobs, rooted, stopping, accepted>>

(* async_schedule.                                                          *)
Schedule ==
  LET j == Top.job IN
    /\ At("schedule")
    /\ \/ /\ ~Unsettled(j) \/ stopping
          /\ Pop /\ UNCHANGED jobs
       \/ /\ Unsettled(j) /\ ~stopping
          /\ jobs' = [jobs EXCEPT ![j].timer = TRUE]
          /\ Pop
       \/ /\ Unsettled(j) /\ ~stopping        \* later() itself fails
          /\ Goto("lost") /\ UNCHANGED jobs
    /\ UNCHANGED <<jobVars, reserved, handleVars, registry, rooted, stopping, accepted>>

-----------------------------------------------------------------------------
(***************************************************************************)
(* The end of a callback: on_token, on_progress of a running job, and the  *)
(* last on_progress, after which a completed job resolves.                 *)
(***************************************************************************)
CallbackReturns ==
  LET j == Top.job IN
    /\ \/ At("onToken") /\ Goto("ready") /\ UNCHANGED <<jobs, rooted>>
       \/ At("onProgress") /\ Goto("schedule") /\ UNCHANGED <<jobs, rooted>>
       \/ At("onFinal") /\ Settle(j, "resolved") /\ Pop
    /\ UNCHANGED <<jobVars, reserved, handleVars, registry, stopping, accepted>>

CallbackFails ==
  LET j == Top.job IN
    /\ \/ At("onToken") /\ ConsumerFailure(j, "ready") /\ UNCHANGED rooted
       \/ At("onProgress") /\ ConsumerFailure(j, "schedule") /\ UNCHANGED rooted
       \/ /\ At("onFinal") /\ Settle(j, "consumer") /\ Pop
          /\ UNCHANGED <<jobVars, registry>>
    /\ UNCHANGED <<reserved, handleVars, stopping, accepted>>

-----------------------------------------------------------------------------
(***************************************************************************)
(* Shutdown, the only blocking path.  A frame "lost" with a job is         *)
(* async_transport_failure; without one it is async_shutdown, called by    *)
(* .onUnload and by the exit sentinel.                                     *)
(***************************************************************************)
Unload ==
  /\ UserCode /\ ~stopping
  /\ stopping' = TRUE
  /\ Push(NoJob, "lost")
  /\ UNCHANGED <<jobVars, reserved, handleVars, registry, jobs, rooted, accepted>>

(* The job that the shutdown settles.                                       *)
Victim == IF Top.job = NoJob THEN rooted ELSE Top.job

(* The job was settled before its transport failed.                         *)
NothingLost == Top.job # NoJob /\ ~Unsettled(Top.job)

AlreadySettled ==
  /\ At("lost") /\ NothingLost
  /\ Pop
  /\ UNCHANGED <<jobVars, reserved, handleVars, registry, jobs, rooted, stopping, accepted>>

(* rebirth_async_shutdown takes the active job and wakes its producer       *)
(* before joining the worker.                                               *)
TakeActive ==
  /\ registry' = NoRegistry
  /\ IF registry.job # NoJob THEN DiscardStream ELSE UNCHANGED jobVars

BeginShutdown ==
  /\ At("lost") /\ ~NothingLost
  /\ stopping' = TRUE
  /\ jobs' = IF Victim = NoJob THEN jobs ELSE [jobs EXCEPT ![Victim].timer = FALSE]
  /\ TakeActive
  /\ Goto("join")
  /\ UNCHANGED <<reserved, handleVars, rooted, accepted>>

(* Handles that no job owns are forgotten. *)
MutantDestroyAll ==
  /\ closed' = [h \in Handles |-> closed[h] \/ model[h] = "job"]
  /\ model' = [h \in Handles |-> IF model[h] = "handle" THEN "handle" ELSE "gone"]

(* The completion's model, every registered handle and everything deferred  *)
(* is destroyed under the completion's permit, or under a guard.            *)
DestroyAll ==
  /\ closed' = [h \in Handles |-> TRUE]
  /\ model' = [h \in Handles |-> "gone"]

EndShutdown ==
  /\ At("join")
  /\ pc \in {"none", "finished", "joined"}
  /\ Release
  /\ DestroyAll
  /\ IF Victim = NoJob THEN UNCHANGED <<rClosed, jobs, rooted>>
     ELSE /\ rClosed' = [rClosed EXCEPT ![Owner(Victim)] = TRUE]
          /\ Settle(Victim, IF Top.job = NoJob THEN "cancelled" ELSE "internal")
  /\ stopping' = (Top.job = NoJob)
  /\ Pop
  /\ UNCHANGED accepted

-----------------------------------------------------------------------------
Worker == WorkerNext /\ UNCHANGED mainVars

(* The steps that R takes without user code.                                *)
Main ==
  \/ Header \/ SinkClosed \/ Collect \/ Finish \/ Running \/ Drain \/ DrainContended
  \/ Undelivered \/ WriteFile \/ AfterSettled \/ NotReady
  \/ NotAcknowledged \/ Ack \/ Schedule \/ AlreadySettled \/ BeginShutdown \/ EndShutdown

User ==
  \/ \E j \in Jobs, h \in Handles, m \in Modes :
       Submit(j, h, m) \/ SubmitFails(j, h, m) \/ SubmitInterrupted(j, h, m)
  \/ \E h \in Handles : Cancel(h) \/ Close(h)
  \/ Unload

EventLoop == \E j \in Jobs : TimerFires(j)
CallbackEnds == CallbackReturns \/ CallbackFails

BoundaryNext ==
  \/ Worker \/ Main \/ User \/ EventLoop \/ CallbackEnds
  \/ \E h \in Handles : Finalize(h)

(* Native calls return, R runs its handlers, callbacks return, and a due    *)
(* timer runs when R is idle at the prompt (a callback need not pump the    *)
(* event loop).  The user owes nothing, and nothing has to fail.            *)
BoundaryFairness ==
  /\ WF_vars(Worker)
  /\ WF_vars(Main)
  /\ WF_vars(CallbackEnds)
  /\ WF_vars(stack = <<>> /\ EventLoop)

BoundarySpec == Init /\ [][BoundaryNext]_vars /\ BoundaryFairness

-----------------------------------------------------------------------------
(* While the worker is inside native code nothing destroys a model on the   *)
(* main thread: closing or finalizing any handle only queues it.            *)
NoDestructionUnderWorker ==
  [][WorkerBound => \A h \in Handles : model'[h] = "gone" => model[h] = "gone"]_vars

(* Ownership is accounted for at every moment: an open handle has its model *)
(* or has lent it to the job that holds the reservation, a closed handle    *)
(* keeps none, and nothing stays deferred once the domain is free.          *)
OwnershipAccounted ==
  \A h \in Handles :
    /\ model[h] = "handle" => ~closed[h]
    /\ model[h] = "gone" => closed[h]
    /\ model[h] = "deferred" => closed[h] /\ reserved # NoJob
    /\ model[h] = "job" <=> reserved # NoJob /\ Owner(reserved) = h

(* The reservation is never orphaned: while a job holds it, somebody will   *)
(* come back for it, namely the timer or a running poll of that very job,   *)
(* or a shutdown that is waiting for the worker.                            *)
ReservationHasCollector ==
  reserved # NoJob =>
    \/ At("join") \/ At("lost")
    \/ /\ Registered(reserved) /\ Unsettled(reserved)
       /\ jobs[reserved].timer \/ Polling(reserved)

(* Resolving means complete: a stream resolves only after every event the   *)
(* worker produced was delivered, in order, and every prompt was ended; and *)
(* no job resolves after one of its consumers failed or a cancellation was  *)
(* accepted.                                                               *)
ResolvedIsComplete ==
  \A j \in Jobs : jobs[j].verdict = "resolved" =>
    /\ j \notin accepted
    /\ ~jobs[j].failure
    /\ Streaming(j) => jobs[j].prompt = Prompts + 1

(* The R side never finds a gap, a repetition or a foreign prompt in a      *)
(* batch, whatever was drained, lost, discarded or contended before it.     *)
BatchesAreValid == ~At("invalid")

(* A recorded consumer failure decides the promise, unless the transport    *)
(* breaks down or the package is unloaded.                                  *)
FirstFailureWins ==
  \A j \in Jobs : jobs[j].failure =>
    \/ jobs[j].verdict \in {"pending", "consumer", "internal"}
    \/ jobs[j].verdict = "cancelled" /\ stopping

(* After namespace unload nothing native is left, no worker, no reservation,*)
(* no model; and no timer will call into the namespace.                     *)
UnloadedIsQuiet ==
  stopping /\ ~At("lost") /\ ~At("join") =>
    /\ ~WorkerBound /\ pc # "spawned"
    /\ reserved = NoJob
    /\ \A h \in Handles : model[h] = "gone"
    /\ \A j \in Jobs : ~jobs[j].timer

(* The promises and the engine implement JobPromise.                        *)
Promise == INSTANCE JobPromise
             WITH verdict <- [j \in Jobs |-> jobs[j].verdict], busy <- reserved

ImplementsPromise == Promise!Spec

(* Every promise is settled in the end.                                     *)
EveryPromiseSettles ==
  \A j \in Jobs : Unsettled(j) ~> ~Unsettled(j)

(* llm_cancel (man page): once a cancellation was accepted, the promise     *)
(* rejects with relm_error_cancelled.                                       *)
AcceptedCancelRejectsCancelled ==
  \A j \in accepted : jobs[j].verdict \in Settled => jobs[j].verdict = "cancelled"
=============================================================================
