---------------------------- MODULE LiveHandshake ----------------------------
(***************************************************************************)
(* Live observation of one prompt: the worker publishes a state for every  *)
(* sampled token and waits; a poll of the R layer takes the state, after   *)
(* the rows of the event queue, calls on_state, and acknowledges it with   *)
(* new coefficients, which the worker installs in the steering adapter     *)
(* (rebirth-llm/src/async_job.rs, live_capture.rs, live_steering.rs,       *)
(* rebirth-ffi/src/async_boundary.rs, live_boundary.rs, R/live-state.R,    *)
(* R/async.R).                                                             *)
(*                                                                         *)
(* The worker's actions are its critical sections of the Control mutex or  *)
(* the native stretches between two of them.  The actions of the main      *)
(* thread are the native calls of one poll and the callbacks between them. *)
(* The queue has room for the rows of several tokens, so a live job never  *)
(* waits for space (see OneTokenQueued); AsyncJob has the full queue.      *)
(***************************************************************************)
EXTENDS LiveSteering, Naturals, Sequences

CONSTANTS
  MaxTokens,   \* GenerateParams.max_tokens
  BatchRows    \* STREAM_BATCH_ROWS

ASSUME LiveAssumption ==
  /\ MaxTokens \in Nat \ {0}
  /\ BatchRows \in Nat \ {0}

VARIABLES
  \* State, under the Control mutex
  streaming,       \* on_token was given: State.stream is Some
  cancelled,       \* cancellation_accepted, with the atomic flag
  rows,            \* StreamQueue.rows
  shut,            \* StreamQueue.discarded
  live,            \* LiveSlot
  \* the worker
  pc,              \* where it stands
  asleep,          \* it is parked on Control.space
  tokens,          \* out.len()
  steer,           \* LiveSteering: current, revision, applied_after, dirty
  command,         \* the reply publish_live returned
  adapter,         \* the coefficients installed in the native context
  outcome,         \* the result
  broken,          \* a panic, or a restoration that failed
  \* ActiveJob and HandleState
  livePending,     \* live_pending, 0 for None
  abandoned,       \* ActiveJob.discarded
  closed,          \* the handle is closed, in R and natively
  \* the R job
  poll,            \* where async_poll stands, and what it holds
  audit,           \* live_state_id and live_audit
  failure,         \* callback_error
  cancelRequested, \* live_cancel_requested
  verdict,         \* how the promise settled
  \* histories
  seen,            \* token of the last row delivered to on_token
  promised         \* the original coefficients under all accepted replies

control == <<streaming, cancelled, rows, shut, live>>
worker == <<pc, asleep, tokens, steer, command, adapter, outcome, broken>>
boundary == <<livePending, abandoned, closed>>
consumer == <<poll, audit, failure, cancelRequested, verdict, seen, promised>>
vars == <<control, worker, boundary, consumer>>

-----------------------------------------------------------------------------
Tokens == 1 .. MaxTokens
Kinds == {"token", "text", "prompt_end"}
Row == [kind : Kinds, token : 0 .. MaxTokens]

(* LiveState: only its identity and its account of the steering.            *)
LiveState == [id : 0 .. MaxTokens, revision : Nat, after : 0 .. MaxTokens,
              coefs : Vectors]
NoState == [id |-> 0, revision |-> 0, after |-> 0, coefs |-> Original]

NewSlot == [pending |-> NoState, outstanding |-> 0, drained |-> FALSE, nextId |-> 1,
            discarded |-> FALSE, reply |-> NoReply]
NewSteering == [coefs |-> Original, revision |-> 0, after |-> 0, dirty |-> FALSE]
AtRest == [at |-> "idle", batch |-> <<>>, emptied |-> FALSE, ready |-> FALSE,
           state |-> NoState]

Generating == {"loop", "sample", "sampled", "observe", "live", "apply", "command",
               "advance", "token", "text", "decode", "ending"}
Terminal == pc \in {"returned", "finished"}

TypeOK ==
  /\ streaming \in BOOLEAN /\ cancelled \in BOOLEAN /\ shut \in BOOLEAN
  /\ rows \in Seq(Row)
  /\ live \in [pending : LiveState, outstanding : 0 .. MaxTokens, drained : BOOLEAN,
               nextId : 1 .. MaxTokens + 1, discarded : BOOLEAN, reply : Replies]
  /\ pc \in Generating \cup {"restore", "closing", "publish", "returned", "finished"}
  /\ asleep \in BOOLEAN /\ broken \in BOOLEAN
  /\ tokens \in 0 .. MaxTokens
  /\ steer \in [coefs : Vectors, revision : Nat, after : 0 .. MaxTokens,
                dirty : BOOLEAN]
  /\ command \in Replies
  /\ adapter \in Vectors
  /\ outcome \in {"ok", "cancelled", "failed"}
  /\ livePending \in 0 .. MaxTokens
  /\ abandoned \in BOOLEAN /\ closed \in BOOLEAN
  /\ poll \in [at : {"idle", "drain", "drainState", "batch", "onToken", "streamed",
                     "onState", "lost", "joining", "settled"},
               batch : Seq(Row), emptied : BOOLEAN, ready : BOOLEAN, state : LiveState]
  /\ audit \in LiveState
  /\ failure \in BOOLEAN /\ cancelRequested \in BOOLEAN
  /\ verdict \in {"pending", "resolved", "cancelled", "failed", "consumer", "internal"}
  /\ seen \in 0 .. MaxTokens
  /\ promised \in Vectors

Init ==
  /\ streaming \in BOOLEAN
  /\ cancelled = FALSE /\ rows = <<>> /\ shut = FALSE /\ live = NewSlot
  /\ pc = "loop" /\ asleep = FALSE /\ tokens = 0
  /\ steer = NewSteering /\ command = NoReply /\ adapter = Original
  /\ outcome = "ok" /\ broken = FALSE
  /\ livePending = 0 /\ abandoned = FALSE /\ closed = FALSE
  /\ poll = AtRest /\ audit = NoState /\ failure = FALSE
  /\ cancelRequested = FALSE /\ verdict = "pending"
  /\ seen = 0 /\ promised = Original

-----------------------------------------------------------------------------
(***************************************************************************)
(* The worker: continue_generation_observed with the live observer.        *)
(***************************************************************************)
(* The generation ends with o; LiveSteering is dropped on the way out.      *)
Return(o) == pc' = "restore" /\ outcome' = o
Goto(place) == pc' = place /\ UNCHANGED outcome

(* A checkpoint: cancellation ends the generation.                          *)
Checkpoint(place) == IF cancelled THEN Return("cancelled") ELSE Goto(place)

Loop ==
  /\ pc = "loop"
  /\ IF tokens = MaxTokens THEN Goto("ending") ELSE Checkpoint("sample")
  /\ UNCHANGED <<control, asleep, tokens, steer, command, adapter, broken, boundary, consumer>>

(* The next token, or the end of generation.                                *)
Sample ==
  /\ pc = "sample"
  /\ \/ Goto("ending") /\ UNCHANGED tokens
     \/ Goto("sampled") /\ tokens' = tokens + 1
  /\ UNCHANGED <<control, asleep, steer, command, adapter, broken, boundary, consumer>>

(* The checkpoint of sampled.                                               *)
Sampled ==
  /\ pc = "sampled"
  /\ Checkpoint("observe")
  /\ UNCHANGED <<control, asleep, tokens, steer, command, adapter, broken, boundary, consumer>>

(* The payload, with the steering that selected its token.                  *)
Snapshot ==
  [id |-> tokens, revision |-> steer.revision, after |-> steer.after, coefs |-> steer.coefs]

InSequence == ~live.discarded /\ live.outstanding = 0 /\ tokens = live.nextId

(* publish_live up to its wait: the state is published and, as nobody can   *)
(* have acknowledged it, the worker parks.                                  *)
PublishLive ==
  /\ pc = "observe"
  /\ \/ /\ cancelled
        /\ Return("cancelled") /\ UNCHANGED <<live, asleep>>
     \/ /\ ~cancelled
        /\ IF InSequence
           THEN /\ live' = [live EXCEPT !.pending = Snapshot, !.outstanding = tokens,
                                        !.drained = FALSE, !.nextId = tokens + 1]
                /\ Goto("live") /\ asleep' = TRUE
           ELSE Return("failed") /\ UNCHANGED <<live, asleep>>
  /\ UNCHANGED <<streaming, cancelled, rows, shut, tokens, steer, command, adapter,
                 broken, boundary, consumer>>

(* The predicate that ends the wait without an answer.                      *)
AbandonedState == cancelled \/ live.discarded

(* Every wake is taken for an answer. *)
MutantAwaitReply ==
  /\ pc = "live" /\ ~asleep
  /\ \/ AbandonedState /\ Return("cancelled") /\ UNCHANGED <<live, command>>
     \/ /\ ~AbandonedState
        /\ live' = [live EXCEPT !.reply = NoReply]
        /\ command' = live.reply
        /\ Goto("apply")
  /\ UNCHANGED <<streaming, cancelled, rows, shut, asleep, tokens, steer, adapter, broken,
                 boundary, consumer>>

(* publish_live, awake: abandoned, answered, or not yet.                    *)
AwaitReply ==
  /\ pc = "live" /\ ~asleep
  /\ \/ /\ AbandonedState
        /\ live' = [live EXCEPT !.pending = NoState, !.reply = NoReply]
        /\ Return("cancelled") /\ UNCHANGED <<asleep, command>>
     \/ /\ ~AbandonedState /\ live.outstanding = 0
        /\ live' = [live EXCEPT !.reply = NoReply]
        /\ command' = live.reply
        /\ Goto("apply") /\ UNCHANGED asleep
     \/ /\ ~AbandonedState /\ live.outstanding # 0
        /\ asleep' = TRUE /\ UNCHANGED <<live, pc, outcome, command>>
  /\ UNCHANGED <<streaming, cancelled, rows, shut, tokens, steer, adapter, broken,
                 boundary, consumer>>

(* Every reply starts from the original coefficients. *)
MutantCandidate == Overlay(Original, command)

Candidate == Overlay(steer.coefs, command)

(* apply_reply up to the setter: nothing to do, or a buffer is rebuilt.     *)
ApplyReply ==
  /\ pc = "apply"
  /\ \/ cancelled /\ Return("cancelled")
     \/ ~cancelled /\ Candidate = steer.coefs /\ Goto("advance")
     \/ ~cancelled /\ Candidate # steer.coefs /\ Candidate \in Unrepresentable /\ Return("failed")
     \/ ~cancelled /\ Candidate # steer.coefs /\ Candidate \notin Unrepresentable /\ Goto("command")
  /\ UNCHANGED <<control, asleep, tokens, steer, command, adapter, broken, boundary, consumer>>

(* The revision counts replies, whether or not they change anything. *)
MutantApplied == [coefs |-> Candidate, revision |-> tokens, after |-> tokens, dirty |-> TRUE]

Applied ==
  [coefs |-> Candidate, revision |-> steer.revision + 1, after |-> tokens, dirty |-> TRUE]

(* apply_live_command.  A setter that fails may have changed the adapter.   *)
Command ==
  /\ pc = "command"
  /\ \/ /\ cancelled
        /\ Return("cancelled") /\ UNCHANGED <<adapter, steer>>
     \/ /\ ~cancelled
        /\ adapter' = Candidate /\ steer' = Applied /\ Goto("advance")
     \/ /\ ~cancelled
        /\ adapter' \in {adapter, Candidate}
        /\ steer' = [steer EXCEPT !.dirty = TRUE] /\ Return("failed")
  /\ UNCHANGED <<control, asleep, tokens, command, broken, boundary, consumer>>

(* LiveDispatcher.advance, then a checkpoint.                               *)
Advance ==
  /\ pc = "advance"
  /\ Checkpoint("token")
  /\ UNCHANGED <<control, asleep, tokens, steer, command, adapter, broken, boundary, consumer>>

(* enqueue; no stream, no row.                                              *)
Enqueue(kind, place) ==
  \/ ~streaming /\ Goto(place) /\ UNCHANGED rows
  \/ streaming /\ (cancelled \/ shut) /\ Return("cancelled") /\ UNCHANGED rows
  \/ /\ streaming /\ ~cancelled /\ ~shut
     /\ rows' = Append(rows, [kind |-> kind, token |-> tokens])
     /\ Goto(place)

StreamToken ==
  /\ pc = "token"
  /\ Enqueue("token", "text")
  /\ UNCHANGED <<streaming, cancelled, shut, live, asleep, tokens, steer, command, adapter,
                 broken, boundary, consumer>>

(* The token's stable text, if any; then a stop string or a full context    *)
(* ends the generation, or the token is decoded.                            *)
StreamText ==
  /\ pc = "text"
  /\ \E place \in {"ending", "decode"} :
       \/ Goto(place) /\ UNCHANGED rows
       \/ Enqueue("text", place)
  /\ UNCHANGED <<streaming, cancelled, shut, live, asleep, tokens, steer, command, adapter,
                 broken, boundary, consumer>>

Decode ==
  /\ pc = "decode"
  /\ Checkpoint("loop")
  /\ UNCHANGED <<control, asleep, tokens, steer, command, adapter, broken, boundary, consumer>>

(* A native call fails or panics.  Nothing is rebuilt halfway: a panic of   *)
(* the setter leaves the adapter to the restoration.                        *)
NativeFails ==
  /\ pc \in Generating \ {"live"}
  /\ Return("failed")
  /\ broken' \in BOOLEAN
  /\ \/ /\ pc = "command" /\ ~cancelled
        /\ adapter' = Candidate
        /\ steer' = [steer EXCEPT !.dirty = TRUE]
     \/ UNCHANGED <<adapter, steer>>
  /\ UNCHANGED <<control, asleep, tokens, command, boundary, consumer>>

(* The rest of the text, and the generation returns.                        *)
Ending ==
  /\ pc = "ending"
  /\ \/ Return("ok") /\ UNCHANGED rows
     \/ streaming /\ (cancelled \/ shut) /\ Return("cancelled") /\ UNCHANGED rows
     \/ /\ streaming /\ ~cancelled /\ ~shut
        /\ rows' = Append(rows, [kind |-> "text", token |-> tokens])
        /\ Return("ok")
  /\ UNCHANGED <<streaming, cancelled, shut, live, asleep, tokens, steer, command, adapter,
                 broken, boundary, consumer>>

(* The adapter is left as the last reply made it. *)
MutantRestored == adapter

Restored == Original

(* Drop for LiveSteering.  run_request goes on with prompt_end, if the      *)
(* generation returned one.                                                 *)
Restore ==
  /\ pc = "restore"
  /\ \/ ~steer.dirty /\ UNCHANGED <<steer, adapter, broken>>
     \/ /\ steer.dirty
        /\ steer' = [steer EXCEPT !.dirty = FALSE]
        /\ \/ adapter' = Restored /\ UNCHANGED broken
           \/ broken' = TRUE /\ UNCHANGED adapter
  /\ pc' = IF outcome = "ok" THEN "closing" ELSE "publish"
  /\ UNCHANGED <<control, asleep, tokens, command, outcome, boundary, consumer>>

(* prompt_completed, which may refuse the size of the output, and           *)
(* stream_prompt_end.                                                       *)
PromptEnd ==
  /\ pc = "closing"
  /\ \/ /\ ~cancelled /\ (streaming => ~shut)
        /\ rows' = IF streaming THEN Append(rows, [kind |-> "prompt_end", token |-> tokens])
                   ELSE rows
        /\ UNCHANGED outcome
     \/ /\ cancelled \/ (streaming /\ shut)
        /\ outcome' = "cancelled" /\ UNCHANGED rows
     \/ outcome' = "failed" /\ UNCHANGED rows
  /\ pc' = "publish"
  /\ UNCHANGED <<streaming, cancelled, shut, live, asleep, tokens, steer, command, adapter,
                 broken, boundary, consumer>>

(* A cancellation that came after the last token is ignored. *)
MutantResult == IF broken THEN "failed" ELSE outcome

Result == IF broken THEN "failed" ELSE IF cancelled THEN "cancelled" ELSE outcome

(* publish: the terminal state.  A failure abandons what is undelivered.    *)
Publish ==
  /\ pc = "publish"
  /\ outcome' = Result
  /\ IF Result = "ok" THEN UNCHANGED <<live, shut, rows>>
     ELSE /\ live' = [live EXCEPT !.pending = NoState, !.reply = NoReply, !.discarded = TRUE]
          /\ shut' = streaming /\ rows' = <<>>
  /\ pc' = "returned" /\ asleep' = FALSE
  /\ UNCHANGED <<streaming, cancelled, tokens, steer, command, adapter, broken, boundary,
                 consumer>>

WorkerReturn ==
  /\ pc = "returned"
  /\ pc' = "finished"
  /\ UNCHANGED <<control, asleep, tokens, steer, command, adapter, outcome, broken,
                 boundary, consumer>>

Worker ==
  \/ Loop \/ Sample \/ Sampled \/ PublishLive \/ AwaitReply \/ ApplyReply \/ Command
  \/ Advance \/ StreamToken \/ StreamText \/ Decode \/ NativeFails \/ Ending \/ Restore
  \/ PromptEnd \/ Publish \/ WorkerReturn

-----------------------------------------------------------------------------
(***************************************************************************)
(* Cancelling and abandoning, from callbacks or between polls.             *)
(***************************************************************************)
UserCode == poll.at \in {"idle", "onToken", "onState"}

(* llm_cancel; FALSE once terminal or already cancelled.                    *)
LlmCancel ==
  /\ UserCode /\ ~closed
  /\ ~Terminal /\ ~cancelled
  /\ cancelled' = TRUE /\ asleep' = FALSE
  /\ cancelRequested' = TRUE
  /\ UNCHANGED <<streaming, rows, shut, live, pc, tokens, steer, command, adapter, outcome,
                 broken, boundary, poll, audit, failure, verdict, seen, promised>>

(* The producer is not woken. *)
MutantDiscardStream ==
  /\ shut' = streaming /\ rows' = <<>>
  /\ cancelled' = (cancelled \/ ~Terminal)
  /\ live' = [live EXCEPT !.discarded = TRUE]
  /\ UNCHANGED asleep

(* AsyncJob::discard_stream.                                                *)
DiscardStream ==
  /\ shut' = streaming /\ rows' = <<>>
  /\ cancelled' = (cancelled \/ ~Terminal)
  /\ live' = [live EXCEPT !.discarded = TRUE]
  /\ asleep' = FALSE

(* close(m) during the job.                                                 *)
Close ==
  /\ UserCode /\ ~closed
  /\ closed' = TRUE /\ abandoned' = TRUE
  /\ DiscardStream
  /\ UNCHANGED <<streaming, pc, tokens, steer, command, adapter, outcome, broken,
                 livePending, consumer>>

(* async_consumer_failure and rebirth_async_discard: only the first failure *)
(* counts.                                                                  *)
ConsumerFailure ==
  IF failure THEN UNCHANGED <<failure, abandoned, cancelled, rows, shut, live, asleep>>
  ELSE failure' = TRUE /\ abandoned' = TRUE /\ DiscardStream

-----------------------------------------------------------------------------
(***************************************************************************)
(* The poll.                                                               *)
(***************************************************************************)
At(place) == poll.at = place
ToPlace(place) == poll' = [poll EXCEPT !.at = place]

(* finish_active and the settlement of the promise.                         *)
Finish ==
  /\ closed' = (closed \/ broken)
  /\ verdict' = IF failure THEN "consumer"
                ELSE IF outcome = "ok" THEN IF closed' THEN "cancelled" ELSE "resolved"
                ELSE outcome
  /\ poll' = [AtRest EXCEPT !.at = "settled"]

NothingToDeliver == pc = "finished" /\ (~streaming \/ abandoned \/ outcome # "ok")

(* try_collect finds a completion that needs no delivery.                   *)
CollectFinished ==
  /\ At("idle") /\ NothingToDeliver
  /\ Finish
  /\ UNCHANGED <<control, worker, livePending, abandoned, audit, failure, cancelRequested,
                 seen, promised>>

(* The worker still runs, or only its rows are left: the latter is noted    *)
(* for delivery_ready.                                                      *)
Collect ==
  /\ At("idle") /\ ~NothingToDeliver
  /\ poll' = [AtRest EXCEPT !.at = "drain", !.ready = (pc = "finished")]
  /\ UNCHANGED <<control, worker, boundary, audit, failure, cancelRequested, verdict, seen,
                 promised>>

(* try_lock can fail while the worker runs.                                 *)
MayContend == pc # "finished" /\ ~asleep

Batch(n) ==
  poll' = [poll EXCEPT !.at = "drainState", !.batch = SubSeq(rows, 1, n),
                       !.emptied = (n = Len(rows)), !.ready = @ /\ n = Len(rows)]

Least(m, n) == IF m < n THEN m ELSE n

(* drain_stream, which wakes the worker.                                    *)
DrainStream ==
  /\ At("drain")
  /\ LET n == Least(Len(rows), BatchRows) IN
       Batch(n) /\ rows' = SubSeq(rows, n + 1, Len(rows))
  /\ asleep' = (asleep /\ ~streaming)
  /\ UNCHANGED <<streaming, cancelled, shut, live, pc, tokens, steer, command, adapter,
                 outcome, broken, boundary, audit, failure, cancelRequested, verdict, seen,
                 promised>>

DrainContended ==
  /\ At("drain") /\ streaming /\ MayContend
  /\ poll' = [poll EXCEPT !.at = "drainState", !.emptied = FALSE, !.ready = FALSE]
  /\ UNCHANGED <<control, worker, boundary, audit, failure, cancelRequested, verdict, seen,
                 promised>>

(* The poll asks for a state only after a batch that emptied the queue.     *)
AskForState == poll.emptied /\ livePending = 0 /\ ~abandoned /\ ~closed

(* The queue was seen empty by drain_stream, that is enough. *)
MutantDeliverable == ~cancelled /\ ~live.discarded

(* drain_state looks at the queue again: rows may have come since.          *)
Deliverable == ~cancelled /\ ~live.discarded /\ rows = <<>>

(* drain_state.                                                             *)
DrainState ==
  /\ At("drainState") /\ AskForState
  /\ IF Deliverable /\ live.pending.id # 0
     THEN /\ live' = [live EXCEPT !.pending = NoState, !.drained = TRUE]
          /\ livePending' = live.pending.id
          /\ poll' = [poll EXCEPT !.at = "batch", !.state = live.pending]
     ELSE ToPlace("batch") /\ UNCHANGED <<live, livePending>>
  /\ UNCHANGED <<streaming, cancelled, rows, shut, worker, abandoned, closed, audit, failure,
                 cancelRequested, verdict, seen, promised>>

NoStateTaken ==
  /\ At("drainState")
  /\ ~AskForState \/ MayContend
  /\ ToPlace("batch")
  /\ UNCHANGED <<control, worker, boundary, audit, failure, cancelRequested, verdict, seen,
                 promised>>

(* The rows cannot be represented in R: they are lost, and a state taken    *)
(* with them.                                                               *)
BatchUnconverted ==
  /\ At("batch") /\ poll.batch # <<>>
  /\ ConsumerFailure
  /\ poll' = AtRest
  /\ UNCHANGED <<streaming, pc, tokens, steer, command, adapter, outcome, broken,
                 livePending, closed, audit, cancelRequested, verdict, seen, promised>>

(* The state cannot be: no consumer failure, the poll itself fails.         *)
StateUnconverted ==
  /\ At("batch") /\ poll.state.id # 0
  /\ ToPlace("lost")
  /\ UNCHANGED <<control, worker, boundary, audit, failure, cancelRequested, verdict, seen,
                 promised>>

(* stream_deliver up to on_token.                                           *)
DeliverBatch ==
  /\ At("batch")
  /\ IF poll.batch = <<>> \/ failure \/ closed
     THEN ToPlace("streamed") /\ UNCHANGED seen
     ELSE ToPlace("onToken") /\ seen' = poll.batch[Len(poll.batch)].token
  /\ UNCHANGED <<control, worker, boundary, audit, failure, cancelRequested, verdict,
                 promised>>

BatchTaken ==
  /\ At("onToken")
  /\ ToPlace("streamed")
  /\ UNCHANGED <<control, worker, boundary, audit, failure, cancelRequested, verdict, seen,
                 promised>>

BatchFails ==
  /\ At("onToken")
  /\ ConsumerFailure
  /\ ToPlace("streamed")
  /\ UNCHANGED <<streaming, pc, tokens, steer, command, adapter, outcome, broken,
                 livePending, closed, audit, cancelRequested, verdict, seen, promised>>

AckStreamDue == poll.ready /\ ~failure /\ ~closed

(* rebirth_async_ack after the last rows.                                   *)
AckStream ==
  /\ At("streamed") /\ AckStreamDue
  /\ IF rows = <<>> THEN Finish ELSE ToPlace("lost") /\ UNCHANGED <<closed, verdict>>
  /\ UNCHANGED <<control, worker, livePending, abandoned, audit, failure, cancelRequested,
                 seen, promised>>

(* A state taken is delivered to a cancelled job as well, as the callback   *)
(* that cancelled it may have been on_token of the same poll.               *)
StateDue == poll.state.id # 0 /\ ~failure /\ ~closed

(* live_payload_state: what R requires of a state, given the one before.    *)
Contract(s) ==
  /\ s.id = audit.id + 1
  /\ IF s.id = 1 THEN s.revision = 0 /\ s.after = 0 /\ s.coefs = Original
     ELSE \/ s.revision = audit.revision /\ s.after = audit.after /\ s.coefs = audit.coefs
          \/ s.revision = audit.revision + 1 /\ s.after = s.id - 1 /\ s.coefs # audit.coefs

(* live_deliver up to on_state.                                             *)
DeliverState ==
  /\ At("streamed") /\ ~AckStreamDue /\ StateDue
  /\ IF Contract(poll.state) THEN ToPlace("onState") /\ audit' = poll.state
     ELSE ToPlace("lost") /\ UNCHANGED audit
  /\ UNCHANGED <<control, worker, boundary, failure, cancelRequested, verdict, seen, promised>>

(* The poll ends, and the next is scheduled.                                *)
PollAgain ==
  /\ At("streamed") /\ ~AckStreamDue /\ ~StateDue
  /\ poll' = AtRest
  /\ UNCHANGED <<control, worker, boundary, audit, failure, cancelRequested, verdict, seen,
                 promised>>

-----------------------------------------------------------------------------
(***************************************************************************)
(* The end of on_state.                                                    *)
(***************************************************************************)
AckMatches(id) == livePending = id /\ live.drained /\ live.outstanding = id

(* ack_state_with_reply and the end of rebirth_async_state_ack.             *)
AckState(r) ==
  /\ livePending' = 0
  /\ live' = [live EXCEPT !.reply = IF cancelled THEN @ ELSE r, !.outstanding = 0,
                          !.drained = FALSE]
  /\ promised' = IF cancelled THEN promised ELSE Overlay(promised, r)
  /\ asleep' = FALSE

(* The callback returned, but its reply is of no use any more.              *)
AckWithheld == closed \/ cancelRequested

(* on_state returned a valid reply; live_deliver acknowledges.              *)
StateAnswered ==
  /\ At("onState") /\ ~AckWithheld
  /\ \E r \in Replies :
       IF AckMatches(poll.state.id)
       THEN AckState(r) /\ poll' = AtRest
       ELSE ToPlace("lost") /\ UNCHANGED <<live, livePending, promised, asleep>>
  /\ UNCHANGED <<streaming, cancelled, rows, shut, pc, tokens, steer, command, adapter,
                 outcome, broken, abandoned, closed, audit, failure, cancelRequested, verdict,
                 seen>>

StateNotAnswered ==
  /\ At("onState") /\ AckWithheld
  /\ poll' = AtRest
  /\ UNCHANGED <<control, worker, boundary, audit, failure, cancelRequested, verdict, seen,
                 promised>>

(* on_state failed, or live_reply refused what it returned.                 *)
StateFails ==
  /\ At("onState")
  /\ ConsumerFailure
  /\ poll' = AtRest
  /\ UNCHANGED <<streaming, pc, tokens, steer, command, adapter, outcome, broken,
                 livePending, closed, audit, cancelRequested, verdict, seen, promised>>

-----------------------------------------------------------------------------
(***************************************************************************)
(* async_transport_failure: discard the stream, join, settle.              *)
(***************************************************************************)
Shutdown ==
  /\ At("lost")
  /\ DiscardStream
  /\ ToPlace("joining")
  /\ UNCHANGED <<streaming, pc, tokens, steer, command, adapter, outcome, broken, boundary,
                 audit, failure, cancelRequested, verdict, seen, promised>>

Join ==
  /\ At("joining") /\ pc = "finished"
  /\ closed' = TRUE /\ verdict' = "internal"
  /\ poll' = [AtRest EXCEPT !.at = "settled"]
  /\ UNCHANGED <<control, worker, livePending, abandoned, audit, failure, cancelRequested,
                 seen, promised>>

(* The next job: on the same handle, or on another if it is closed.         *)
NextJob ==
  /\ At("settled")
  /\ streaming' \in BOOLEAN
  /\ cancelled' = FALSE /\ rows' = <<>> /\ shut' = FALSE /\ live' = NewSlot
  /\ pc' = "loop" /\ asleep' = FALSE /\ tokens' = 0
  /\ steer' = NewSteering /\ command' = NoReply
  /\ adapter' = IF closed THEN Original ELSE adapter
  /\ outcome' = "ok" /\ broken' = FALSE
  /\ livePending' = 0 /\ abandoned' = FALSE /\ closed' = FALSE
  /\ poll' = AtRest /\ audit' = NoState /\ failure' = FALSE
  /\ cancelRequested' = FALSE /\ verdict' = "pending"
  /\ seen' = 0 /\ promised' = Original

MainThread ==
  \/ CollectFinished \/ Collect \/ DrainStream \/ DrainContended \/ DrainState
  \/ NoStateTaken \/ BatchUnconverted \/ StateUnconverted \/ DeliverBatch \/ BatchTaken
  \/ BatchFails \/ AckStream \/ DeliverState \/ PollAgain \/ StateAnswered
  \/ StateNotAnswered \/ StateFails \/ Shutdown \/ Join

User == LlmCancel \/ Close \/ NextJob

Next == Worker \/ MainThread \/ User

Spec == Init /\ [][Next]_vars

(* Native calls and callbacks return, due timers run, and a lock that is    *)
(* free time and again is got in the end.                                   *)
Fairness ==
  /\ WF_vars(Worker)
  /\ WF_vars(MainThread)
  /\ SF_vars(DrainState)

FairSpec == Spec /\ Fairness

-----------------------------------------------------------------------------
(***************************************************************************)
(* Properties.                                                             *)
(***************************************************************************)
(* The protocol checks of both sides only ever guard against other code:    *)
(* publish_live never finds its slot occupied or out of sequence except     *)
(* after a cancellation, every state the worker produces meets the contract *)
(* of live_payload_state, and an acknowledgement that R sends matches.      *)
ProtocolHeld ==
  /\ pc = "observe" /\ ~cancelled => InSequence
  /\ At("streamed") /\ StateDue => Contract(poll.state)
  /\ At("onState") /\ ~AckWithheld => AckMatches(poll.state.id)

(* An acknowledged reply is in effect from the next decoded token on, each  *)
(* once and in order: the state that on_state sees next reports it, and the *)
(* native adapter has it whenever a token is decoded.                       *)
RepliesTakeEffect ==
  /\ At("onState") => poll.state.coefs = promised
  /\ pc = "decode" => adapter = promised

(* A handle that survives its job has its own steering again, whatever was  *)
(* replied and however the job ended (LiveSteering::restore).               *)
AdapterRestored == At("settled") /\ ~closed => adapter = Original

(* on_state for token k runs after on_token has had every row of the tokens *)
(* before k, and before it gets any row of k; also if it runs for a job     *)
(* that was cancelled since.                                                *)
EventOrder ==
  At("onState") /\ streaming =>
    /\ seen = poll.state.id - 1
    /\ rows = <<>>

(* The queue never holds rows of two tokens.                                *)
OneTokenQueued ==
  \A i, j \in 1 .. Len(rows) : rows[i].token = rows[j].token

(* A promise that resolves: every sampled token had its state delivered and *)
(* answered, every row was delivered, and no cancellation was accepted.     *)
SuccessIsComplete ==
  verdict = "resolved" =>
    /\ audit.id = tokens /\ live.outstanding = 0
    /\ rows = <<>> /\ (streaming => seen = tokens)
    /\ ~cancelled /\ ~failure

(* From an accepted cancellation on, the adapter changes only back to the   *)
(* original (apply_live_command).                                           *)
CancelFreezesAdapter == [][cancelled /\ adapter' # adapter => adapter' = Original]_vars

(* Every job ends in a settled promise: no wake is lost between publishing, *)
(* acknowledging, cancelling and abandoning.                                *)
JobSettles == At("idle") ~> At("settled")

(* The generation as LiveTurn sees it.                                      *)
Over == pc \notin Generating
Answered == IF live.outstanding = 0 THEN live.nextId - 1 ELSE live.nextId - 2
Asked == IF live.outstanding # 0 /\ live.drained THEN live.nextId - 1 ELSE Answered
Effective ==
  IF Over THEN Original
  ELSE IF pc = "live" THEN Overlay(steer.coefs, live.reply)
  ELSE IF pc \in {"apply", "command"} THEN Candidate
  ELSE steer.coefs

Turn == INSTANCE LiveTurn WITH sampled <- tokens, asked <- Asked, answered <- Answered,
                               coefs <- Effective, over <- Over

(* The worker and the callback take turns (LiveTurn).                       *)
ImplementsTurn == Turn!Spec
=============================================================================
