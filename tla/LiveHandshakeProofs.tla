------------------------- MODULE LiveHandshakeProofs -------------------------
(***************************************************************************)
(* Proofs about live observation, for every number of tokens, every set of *)
(* steering entries and coefficients, and every batch size.                *)
(***************************************************************************)
EXTENDS LiveHandshake, TLAPS

Slot == [pending : LiveState, outstanding : 0 .. MaxTokens, drained : BOOLEAN,
         nextId : 1 .. MaxTokens + 1, discarded : BOOLEAN, reply : Replies]
Steering == [coefs : Vectors, revision : Nat, after : 0 .. MaxTokens, dirty : BOOLEAN]
Polls == [at : {"idle", "drain", "drainState", "batch", "onToken", "streamed", "onState",
                "lost", "joining", "settled"},
          batch : Seq(Row), emptied : BOOLEAN, ready : BOOLEAN, state : LiveState]

(* The type invariant, and that a token is only sampled below the limit.    *)
TypeInv == TypeOK /\ (pc = "sample" => tokens < MaxTokens)

-----------------------------------------------------------------------------
(* Replies are data: a reply to coefficients gives coefficients, and the    *)
(* empty reply changes nothing.                                             *)
LEMMA OverlayTyped ==
  ASSUME NEW v \in Vectors, NEW r \in Replies
  PROVE  Overlay(v, r) \in Vectors
BY DEF Overlay, Vectors, Replies

(* An empty reply leaves the coefficients as they are.                      *)
LEMMA NothingReplied ==
  /\ NoReply \in Replies
  /\ \A v \in Vectors : Overlay(v, NoReply) = v
<1>1. NoReply \in [{} -> Coefs]
  BY DEF NoReply
<1>2. NoReply \in Replies
  BY <1>1 DEF Replies
<1>3. ASSUME NEW v \in Vectors PROVE Overlay(v, NoReply) = v
  BY DEF Overlay, NoReply, Vectors
<1> QED
  BY <1>2, <1>3

(* The constants of a new job are typed.                                    *)
LEMMA NewTyped ==
  /\ NoState \in LiveState
  /\ NewSlot \in Slot
  /\ NewSteering \in Steering
  /\ AtRest \in Polls
<1>1. NoState \in LiveState
  BY SteeringAssumption, LiveAssumption DEF NoState, LiveState
<1>2. NoReply \in Replies
  BY NothingReplied
<1> QED
  BY <1>1, <1>2, SteeringAssumption, LiveAssumption
     DEF NewSlot, NewSteering, AtRest, Slot, Steering, Polls

(* A row the worker appends is typed.                                       *)
LEMMA AppendTyped ==
  ASSUME TypeOK, NEW kind \in Kinds
  PROVE  Append(rows, [kind |-> kind, token |-> tokens]) \in Seq(Row)
<1>1. [kind |-> kind, token |-> tokens] \in Row
  BY DEF TypeOK, Row
<1> QED
  BY <1>1 DEF TypeOK

-----------------------------------------------------------------------------
(* The first job satisfies the type invariant.                              *)
LEMMA InitType == Init => TypeInv
<1> SUFFICES ASSUME Init PROVE TypeInv
  OBVIOUS
<1>2. command \in Replies
  BY NothingReplied DEF Init
<1>3. rows \in Seq(Row)
  BY DEF Init
<1>4. live \in Slot /\ steer \in Steering /\ poll \in Polls /\ audit \in LiveState
  BY NewTyped DEF Init
<1>5. /\ adapter \in Vectors /\ promised \in Vectors
      /\ tokens \in 0 .. MaxTokens /\ livePending \in 0 .. MaxTokens /\ seen \in 0 .. MaxTokens
  BY SteeringAssumption, LiveAssumption DEF Init
<1>6. /\ streaming \in BOOLEAN /\ cancelled \in BOOLEAN /\ shut \in BOOLEAN
      /\ asleep \in BOOLEAN /\ broken \in BOOLEAN /\ abandoned \in BOOLEAN
      /\ closed \in BOOLEAN /\ failure \in BOOLEAN /\ cancelRequested \in BOOLEAN
      /\ pc = "loop" /\ outcome = "ok" /\ verdict = "pending"
  BY DEF Init
<1> QED
  BY <1>2, <1>3, <1>4, <1>5, <1>6
     DEF TypeInv, TypeOK, Generating, Slot, Steering, Polls

(* What the worker does not touch.                                          *)
LEMMA WorkerFrame == Worker => UNCHANGED <<streaming, cancelled, boundary, consumer>>
<1> USE DEF control
<1> QED
  BY DEF Worker, Loop, Sample, Sampled, PublishLive, AwaitReply, ApplyReply, Command, Advance,
         StreamToken, StreamText, Decode, NativeFails, Ending, Restore, PromptEnd, Publish,
         WorkerReturn

(* Every step of the worker keeps the types.                                *)
LEMMA WorkerType ==
  ASSUME TypeInv, Worker
  PROVE  TypeInv'
<1> DEFINE Places == Generating \cup {"restore", "closing", "publish", "returned", "finished"}
<1>1. /\ pc' \in Places /\ outcome' \in {"ok", "cancelled", "failed"}
      /\ asleep' \in BOOLEAN /\ broken' \in BOOLEAN /\ shut' \in BOOLEAN
  <2> USE DEF TypeInv, TypeOK, Generating, control, Return, Goto, Checkpoint
  <2>1. CASE Loop \/ Sample \/ Sampled \/ PublishLive \/ AwaitReply \/ ApplyReply
    BY <2>1 DEF Loop, Sample, Sampled, PublishLive, AwaitReply, ApplyReply
  <2>2. CASE Command \/ Advance \/ StreamToken \/ StreamText \/ Decode \/ NativeFails
    BY <2>2 DEF Command, Advance, StreamToken, StreamText, Decode, NativeFails, Enqueue
  <2>3. CASE Ending \/ Restore \/ PromptEnd \/ Publish \/ WorkerReturn
    BY <2>3 DEF Ending, Restore, PromptEnd, Publish, WorkerReturn, Result
  <2> QED BY <2>1, <2>2, <2>3 DEF Worker
<1>2. rows' \in Seq(Row)
  <2>1. CASE StreamToken BY <2>1, AppendTyped DEF TypeInv, TypeOK, StreamToken, Enqueue, Kinds
  <2>2. CASE StreamText BY <2>2, AppendTyped DEF TypeInv, TypeOK, StreamText, Enqueue, Kinds
  <2>3. CASE Ending BY <2>3, AppendTyped DEF TypeInv, TypeOK, Ending, Kinds
  <2>4. CASE PromptEnd BY <2>4, AppendTyped DEF TypeInv, TypeOK, PromptEnd, Kinds
  <2>5. CASE Publish
    <3>1. rows' \in {rows, <<>>}
      BY <2>5 DEF Publish
    <3>2. <<>> \in Seq(Row)
      OBVIOUS
    <3> QED BY <3>1, <3>2 DEF TypeInv, TypeOK
  <2>6. CASE ~(StreamToken \/ StreamText \/ Ending \/ PromptEnd \/ Publish)
    <3>1. UNCHANGED rows
      BY <2>6 DEF Worker, Loop, Sample, Sampled, PublishLive, AwaitReply, ApplyReply, Command,
                  Advance, Decode, NativeFails, Restore, WorkerReturn, control
    <3> QED BY <3>1 DEF TypeInv, TypeOK
  <2> QED BY <2>1, <2>2, <2>3, <2>4, <2>5, <2>6
<1>3. tokens' \in 0 .. MaxTokens /\ (pc' = "sample" => tokens' < MaxTokens)
  <2>0. /\ tokens \in 0 .. MaxTokens /\ MaxTokens \in Nat
        /\ (pc = "sample" => tokens < MaxTokens)
    BY LiveAssumption DEF TypeInv, TypeOK
  <2>1. CASE Loop
    <3>1. tokens' = tokens /\ (pc' = "sample" => tokens # MaxTokens)
      BY <2>1 DEF Loop, Goto, Checkpoint, Return
    <3> QED BY <2>0, <3>1
  <2>2. CASE Sample
    <3>1. pc = "sample" /\ tokens' \in {tokens, tokens + 1} /\ pc' # "sample"
      BY <2>2 DEF Sample, Goto
    <3> QED BY <2>0, <3>1
  <2>3. CASE ~(Loop \/ Sample)
    <3>1. UNCHANGED tokens /\ pc' # "sample"
      BY <2>3 DEF Worker, Sampled, PublishLive, AwaitReply, ApplyReply, Command, Advance,
                  StreamToken, StreamText, Decode, NativeFails, Ending, Restore, PromptEnd,
                  Publish, WorkerReturn, Return, Goto, Checkpoint, Enqueue
    <3> QED BY <3>1 DEF TypeInv, TypeOK
  <2> QED BY <2>1, <2>2, <2>3
<1>4. live' \in Slot
  <2>1. CASE PublishLive
    <3>1. Snapshot \in LiveState
      BY DEF TypeInv, TypeOK, Snapshot, LiveState
    <3>2. tokens \in 0 .. MaxTokens /\ tokens + 1 \in 1 .. MaxTokens + 1
      BY LiveAssumption DEF TypeInv, TypeOK
    <3> QED BY <2>1, <3>1, <3>2, ZenonT(40) DEF TypeInv, TypeOK, PublishLive, Slot
  <2>2. CASE AwaitReply
    BY <2>2, NewTyped, NothingReplied, ZenonT(40) DEF TypeInv, TypeOK, AwaitReply, Slot
  <2>3. CASE Publish
    BY <2>3, NewTyped, NothingReplied, ZenonT(40) DEF TypeInv, TypeOK, Publish, Slot
  <2>4. CASE ~(PublishLive \/ AwaitReply \/ Publish)
    <3>1. UNCHANGED live
      BY <2>4 DEF Worker, Loop, Sample, Sampled, ApplyReply, Command, Advance, StreamToken,
                  StreamText, Decode, NativeFails, Ending, Restore, PromptEnd, WorkerReturn,
                  control
    <3> QED BY <3>1 DEF TypeInv, TypeOK, Slot
  <2> QED BY <2>1, <2>2, <2>3, <2>4
<1>5. steer' \in Steering /\ adapter' \in Vectors /\ command' \in Replies
  <2>1. Candidate \in Vectors
    BY OverlayTyped DEF TypeInv, TypeOK, Candidate
  <2>2. CASE Command
    <3>1. Applied \in Steering
      BY <2>1 DEF TypeInv, TypeOK, Applied, Steering
    <3> QED BY <2>1, <2>2, <3>1 DEF TypeInv, TypeOK, Command, Steering
  <2>3. CASE NativeFails
    BY <2>1, <2>3 DEF TypeInv, TypeOK, NativeFails, Steering
  <2>4. CASE Restore
    BY <2>4, SteeringAssumption DEF TypeInv, TypeOK, Restore, Restored, Steering
  <2>5. CASE AwaitReply
    BY <2>5 DEF TypeInv, TypeOK, AwaitReply, Steering
  <2>6. CASE ~(Command \/ NativeFails \/ Restore \/ AwaitReply)
    <3>1. UNCHANGED <<steer, adapter, command>>
      BY <2>6 DEF Worker, Loop, Sample, Sampled, PublishLive, ApplyReply, Advance,
                  StreamToken, StreamText, Decode, Ending, PromptEnd, Publish, WorkerReturn
    <3> QED BY <3>1 DEF TypeInv, TypeOK, Steering
  <2> QED BY <2>2, <2>3, <2>4, <2>5, <2>6
<1>6. UNCHANGED <<streaming, cancelled, boundary, consumer>>
  BY WorkerFrame
<1> QED
  BY <1>1, <1>2, <1>3, <1>4, <1>5, <1>6
     DEF TypeInv, TypeOK, Slot, Steering, boundary, consumer

-----------------------------------------------------------------------------
(* What the main thread does not touch.                                     *)
Consumer == MainThread \/ LlmCancel \/ Close

(* What no step of the R thread touches.                                    *)
LEMMA ConsumerFrame ==
  Consumer => UNCHANGED <<streaming, pc, tokens, steer, command, adapter, outcome, broken>>
<1> USE DEF control, worker, consumer
<1>1. CASE CollectFinished \/ Collect \/ DrainStream \/ DrainContended \/ DrainState
  BY <1>1 DEF CollectFinished, Collect, DrainStream, DrainContended, DrainState
<1>2. CASE NoStateTaken \/ BatchUnconverted \/ StateUnconverted \/ DeliverBatch \/ BatchTaken
  BY <1>2 DEF NoStateTaken, BatchUnconverted, StateUnconverted, DeliverBatch, BatchTaken
<1>3. CASE BatchFails \/ AckStream \/ DeliverState \/ PollAgain \/ StateAnswered
  BY <1>3 DEF BatchFails, AckStream, DeliverState, PollAgain, StateAnswered
<1>4. CASE StateNotAnswered \/ StateFails \/ Shutdown \/ Join \/ LlmCancel \/ Close
  BY <1>4 DEF StateNotAnswered, StateFails, Shutdown, Join, LlmCancel, Close
<1> QED
  BY <1>1, <1>2, <1>3, <1>4 DEF Consumer, MainThread

(* A batch is taken from the front of the queue.                            *)
LEMMA DrainTyped ==
  ASSUME TypeOK, NEW n, n = Least(Len(rows), BatchRows)
  PROVE  /\ SubSeq(rows, 1, n) \in Seq(Row)
         /\ SubSeq(rows, n + 1, Len(rows)) \in Seq(Row)
<1>1. rows \in Seq(Row) /\ Len(rows) \in Nat /\ n \in Nat /\ n <= Len(rows)
  BY LiveAssumption DEF TypeOK, Least
<1>2. \A i \in 1 .. Len(rows) : rows[i] \in Row
  BY <1>1
<1> QED
  BY <1>1, <1>2

(* The queue after a step of the R thread.                                  *)
LEMMA ConsumerQueueType ==
  ASSUME TypeOK, Consumer
  PROVE  rows' \in Seq(Row)
<1>1. CASE DrainStream
  BY <1>1, DrainTyped DEF DrainStream
<1>2. CASE ~DrainStream
  <2>1. rows' \in {rows, <<>>}
    <3> USE DEF control, worker, consumer, ConsumerFailure, DiscardStream
    <3>1. CASE CollectFinished \/ Collect \/ DrainContended \/ DrainState
      BY <3>1 DEF CollectFinished, Collect, DrainContended, DrainState
    <3>2. CASE NoStateTaken \/ BatchUnconverted \/ StateUnconverted \/ DeliverBatch \/ BatchTaken
      BY <3>2 DEF NoStateTaken, BatchUnconverted, StateUnconverted, DeliverBatch, BatchTaken
    <3>3. CASE BatchFails \/ AckStream \/ DeliverState \/ PollAgain \/ StateAnswered
      BY <3>3 DEF BatchFails, AckStream, DeliverState, PollAgain, StateAnswered
    <3>4. CASE StateNotAnswered \/ StateFails \/ Shutdown \/ Join \/ LlmCancel \/ Close
      BY <3>4 DEF StateNotAnswered, StateFails, Shutdown, Join, LlmCancel, Close
    <3> QED
      BY <1>2, <3>1, <3>2, <3>3, <3>4 DEF Consumer, MainThread
  <2>2. <<>> \in Seq(Row)
    OBVIOUS
  <2> QED BY <2>1, <2>2 DEF TypeOK
<1> QED
  BY <1>1, <1>2

(* The slot changes when a state is taken or answered, or the job is        *)
(* abandoned.                                                               *)
LEMMA ConsumerSlotFrame ==
  ASSUME Consumer
  PROVE  \/ UNCHANGED live
         \/ DrainState
         \/ StateAnswered
         \/ live' = [live EXCEPT !.discarded = TRUE]
<1> USE DEF control, worker, consumer, ConsumerFailure, DiscardStream
<1>1. CASE CollectFinished \/ Collect \/ DrainStream \/ DrainContended
  BY <1>1 DEF CollectFinished, Collect, DrainStream, DrainContended
<1>2. CASE NoStateTaken \/ BatchUnconverted \/ StateUnconverted \/ DeliverBatch \/ BatchTaken
  BY <1>2 DEF NoStateTaken, BatchUnconverted, StateUnconverted, DeliverBatch, BatchTaken
<1>3. CASE BatchFails \/ AckStream \/ DeliverState \/ PollAgain
  BY <1>3 DEF BatchFails, AckStream, DeliverState, PollAgain
<1>4. CASE StateNotAnswered \/ StateFails \/ Shutdown \/ Join \/ LlmCancel \/ Close
  BY <1>4 DEF StateNotAnswered, StateFails, Shutdown, Join, LlmCancel, Close
<1> QED
  BY <1>1, <1>2, <1>3, <1>4 DEF Consumer, MainThread

(* The live slot after a step of the R thread.                              *)
LEMMA ConsumerSlotType ==
  ASSUME TypeOK, Consumer
  PROVE  /\ live' \in Slot
         /\ livePending' \in 0 .. MaxTokens
         /\ promised' \in Vectors
<1>1. live \in Slot /\ livePending \in 0 .. MaxTokens /\ promised \in Vectors /\ 0 \in 0 .. MaxTokens
  BY LiveAssumption DEF TypeOK, Slot
<1>2. CASE DrainState
  <2>1. /\ live' \in {live, [live EXCEPT !.pending = NoState, !.drained = TRUE]}
        /\ livePending' \in {livePending, live.pending.id}
        /\ UNCHANGED promised
    BY <1>2 DEF DrainState
  <2>2. live.pending.id \in 0 .. MaxTokens
    BY <1>1 DEF Slot, LiveState
  <2> QED BY <1>1, <2>1, <2>2, NewTyped DEF Slot
<1>3. CASE StateAnswered
  <2>1. PICK r \in Replies :
          \/ AckState(r)
          \/ UNCHANGED <<live, livePending, promised, asleep>>
    BY <1>3 DEF StateAnswered
  <2>2. CASE AckState(r)
    <3>1. Overlay(promised, r) \in Vectors
      BY <1>1, OverlayTyped
    <3>2. live.reply \in Replies
      BY <1>1 DEF Slot
    <3> QED BY <1>1, <2>2, <3>1, <3>2 DEF AckState, Slot
  <2> QED BY <1>1, <2>1, <2>2
<1>4. CASE ~DrainState /\ ~StateAnswered
  <2>1. UNCHANGED <<livePending, promised>>
    <3> USE DEF boundary, consumer
    <3>1. CASE CollectFinished \/ Collect \/ DrainStream \/ DrainContended
      BY <3>1 DEF CollectFinished, Collect, DrainStream, DrainContended
    <3>2. CASE NoStateTaken \/ BatchUnconverted \/ StateUnconverted \/ DeliverBatch \/ BatchTaken
      BY <3>2 DEF NoStateTaken, BatchUnconverted, StateUnconverted, DeliverBatch, BatchTaken
    <3>3. CASE BatchFails \/ AckStream \/ DeliverState \/ PollAgain
      BY <3>3 DEF BatchFails, AckStream, DeliverState, PollAgain
    <3>4. CASE StateNotAnswered \/ StateFails \/ Shutdown \/ Join \/ LlmCancel \/ Close
      BY <3>4 DEF StateNotAnswered, StateFails, Shutdown, Join, LlmCancel, Close
    <3> QED
      BY <1>4, <3>1, <3>2, <3>3, <3>4 DEF Consumer, MainThread
  <2>2. live' \in {live, [live EXCEPT !.discarded = TRUE]}
    BY <1>4, ConsumerSlotFrame
  <2>3. [live EXCEPT !.discarded = TRUE] \in Slot
    BY <1>1 DEF Slot
  <2> QED BY <1>1, <2>1, <2>2, <2>3
<1> QED
  BY <1>2, <1>3, <1>4

(* Where a poll can go, and what it holds.                                  *)
PollPlaces == {"idle", "drain", "drainState", "batch", "onToken", "streamed", "onState",
               "lost", "joining", "settled"}

(* A poll that moves on is a poll.                                          *)
LEMMA PlaceTyped ==
  ASSUME poll \in Polls, NEW place \in PollPlaces
  PROVE  /\ [poll EXCEPT !.at = place] \in Polls
         /\ [poll EXCEPT !.at = place].at = place
         /\ [poll EXCEPT !.at = place].state = poll.state
         /\ [AtRest EXCEPT !.at = place] \in Polls
         /\ [AtRest EXCEPT !.at = place].at = place
BY NewTyped DEF Polls, PollPlaces

(* The poll after a step of the R thread.                                   *)
LEMMA ConsumerPollType ==
  ASSUME TypeOK, Consumer
  PROVE  poll' \in Polls
<1>1. poll \in Polls
  BY DEF TypeOK, Polls
<1>2. CASE Collect
  BY <1>2, NewTyped DEF Collect, Polls
<1>3. CASE DrainStream
  <2>1. PICK n : n = Least(Len(rows), BatchRows) /\ Batch(n)
    BY <1>3 DEF DrainStream
  <2>2. SubSeq(rows, 1, n) \in Seq(Row)
    BY <2>1, DrainTyped
  <2> QED BY <1>1, <2>1, <2>2 DEF Batch, Polls
<1>4. CASE DrainContended
  BY <1>1, <1>4 DEF DrainContended, Polls
<1>5. CASE DrainState
  <2>1. live.pending \in LiveState
    BY DEF TypeOK
  <2>2. \/ poll' = [poll EXCEPT !.at = "batch", !.state = live.pending]
        \/ ToPlace("batch")
    BY <1>5 DEF DrainState
  <2> QED BY <1>1, <2>1, <2>2 DEF ToPlace, Polls
<1>6. CASE ~(Collect \/ DrainStream \/ DrainContended \/ DrainState)
  <2>1. \/ UNCHANGED poll
        \/ poll' = AtRest
        \/ \E place \in PollPlaces : ToPlace(place)
        \/ \E place \in PollPlaces : poll' = [AtRest EXCEPT !.at = place]
    <3> USE DEF consumer, Finish, PollPlaces
    <3>1. CASE CollectFinished \/ NoStateTaken \/ BatchUnconverted \/ StateUnconverted
      BY <3>1 DEF CollectFinished, NoStateTaken, BatchUnconverted, StateUnconverted
    <3>2. CASE DeliverBatch \/ BatchTaken \/ BatchFails \/ AckStream
      BY <3>2 DEF DeliverBatch, BatchTaken, BatchFails, AckStream
    <3>3. CASE DeliverState \/ PollAgain \/ StateAnswered \/ StateNotAnswered
      BY <3>3 DEF DeliverState, PollAgain, StateAnswered, StateNotAnswered
    <3>4. CASE StateFails \/ Shutdown \/ Join \/ LlmCancel \/ Close
      BY <3>4 DEF StateFails, Shutdown, Join, LlmCancel, Close
    <3> QED
      BY <1>6, <3>1, <3>2, <3>3, <3>4 DEF Consumer, MainThread
  <2> QED BY <1>1, <2>1, NewTyped, PlaceTyped DEF ToPlace
<1> QED
  BY <1>2, <1>3, <1>4, <1>5, <1>6

(* The history variables after a step of the R thread.                      *)
LEMMA ConsumerHistoryType ==
  ASSUME TypeOK, Consumer
  PROVE  audit' \in LiveState /\ seen' \in 0 .. MaxTokens
<1>1. CASE DeliverState
  <2>1. audit' \in {audit, poll.state} /\ UNCHANGED seen
    BY <1>1 DEF DeliverState
  <2>2. poll.state \in LiveState
    BY DEF TypeOK
  <2> QED BY <2>1, <2>2 DEF TypeOK
<1>2. CASE DeliverBatch
  <2>1. UNCHANGED audit /\ (seen' = seen \/ (poll.batch # <<>> /\ seen' = poll.batch[Len(poll.batch)].token))
    BY <1>2 DEF DeliverBatch
  <2>2. poll.batch \in Seq(Row)
    BY DEF TypeOK
  <2>3. poll.batch # <<>> => poll.batch[Len(poll.batch)] \in Row
    BY <2>2
  <2>4. poll.batch # <<>> => poll.batch[Len(poll.batch)].token \in 0 .. MaxTokens
    BY <2>3 DEF Row
  <2> QED BY <2>1, <2>4 DEF TypeOK
<1>3. CASE ~DeliverState /\ ~DeliverBatch
  <2>1. UNCHANGED <<audit, seen>>
    <3> USE DEF consumer
    <3>1. CASE CollectFinished \/ Collect \/ DrainStream \/ DrainContended \/ DrainState
      BY <3>1 DEF CollectFinished, Collect, DrainStream, DrainContended, DrainState
    <3>2. CASE NoStateTaken \/ BatchUnconverted \/ StateUnconverted \/ BatchTaken
      BY <3>2 DEF NoStateTaken, BatchUnconverted, StateUnconverted, BatchTaken
    <3>3. CASE BatchFails \/ AckStream \/ PollAgain \/ StateAnswered
      BY <3>3 DEF BatchFails, AckStream, PollAgain, StateAnswered
    <3>4. CASE StateNotAnswered \/ StateFails \/ Shutdown \/ Join \/ LlmCancel \/ Close
      BY <3>4 DEF StateNotAnswered, StateFails, Shutdown, Join, LlmCancel, Close
    <3> QED
      BY <1>3, <3>1, <3>2, <3>3, <3>4 DEF Consumer, MainThread
  <2> QED BY <2>1 DEF TypeOK
<1> QED
  BY <1>1, <1>2, <1>3

(* The flags and the promise after a step of the R thread.                  *)
LEMMA ConsumerFlagsType ==
  ASSUME TypeOK, Consumer
  PROVE  /\ cancelled' \in BOOLEAN /\ shut' \in BOOLEAN /\ asleep' \in BOOLEAN
         /\ abandoned' \in BOOLEAN /\ closed' \in BOOLEAN
         /\ failure' \in BOOLEAN /\ cancelRequested' \in BOOLEAN
         /\ verdict' \in {"pending", "resolved", "cancelled", "failed", "consumer", "internal"}
<1>1. /\ streaming \in BOOLEAN /\ cancelled \in BOOLEAN /\ shut \in BOOLEAN /\ asleep \in BOOLEAN
      /\ abandoned \in BOOLEAN /\ closed \in BOOLEAN /\ broken \in BOOLEAN
      /\ failure \in BOOLEAN /\ cancelRequested \in BOOLEAN
      /\ verdict \in {"pending", "resolved", "cancelled", "failed", "consumer", "internal"}
      /\ outcome \in {"ok", "cancelled", "failed"}
  BY DEF TypeOK
<1> USE <1>1 DEF control, worker, boundary, consumer, ConsumerFailure, DiscardStream
<1>2. CASE CollectFinished \/ AckStream
  BY <1>2 DEF CollectFinished, AckStream, Finish
<1>3. CASE Collect \/ DrainContended \/ DrainState \/ NoStateTaken
  BY <1>3 DEF Collect, DrainContended, DrainState, NoStateTaken
<1>4. CASE DrainStream
  <2>1. /\ asleep' \in BOOLEAN
        /\ UNCHANGED <<cancelled, shut, abandoned, closed, failure, cancelRequested, verdict>>
    BY <1>4 DEF DrainStream
  <2> QED BY <2>1
<1>5. CASE BatchUnconverted \/ BatchFails \/ StateFails \/ Close
  <2>1. /\ cancelled' \in BOOLEAN /\ shut' \in {shut, streaming} /\ asleep' \in {asleep, FALSE}
        /\ abandoned' \in {abandoned, TRUE} /\ failure' \in {failure, TRUE}
        /\ closed' \in {closed, TRUE} /\ UNCHANGED <<cancelRequested, verdict>>
    BY <1>5 DEF BatchUnconverted, BatchFails, StateFails, Close
  <2> QED BY <2>1, ZenonT(40)
<1>6. CASE StateAnswered
  BY <1>6 DEF StateAnswered, AckState
<1>7. CASE StateUnconverted \/ DeliverBatch \/ BatchTaken \/ DeliverState \/ PollAgain
  BY <1>7 DEF StateUnconverted, DeliverBatch, BatchTaken, DeliverState, PollAgain
<1>8. CASE StateNotAnswered \/ LlmCancel \/ Join
  BY <1>8, ZenonT(40) DEF StateNotAnswered, Join, LlmCancel
<1>9. CASE Shutdown
  <2>1. /\ cancelled' \in BOOLEAN /\ asleep' = FALSE /\ shut' = streaming
        /\ UNCHANGED <<abandoned, closed, failure, cancelRequested, verdict>>
    BY <1>9 DEF Shutdown, DiscardStream
  <2> QED BY <2>1
<1> QED
  BY <1>2, <1>3, <1>4, <1>5, <1>6, <1>7, <1>8, <1>9 DEF Consumer, MainThread

(* Every step of the R thread keeps the types.                              *)
LEMMA ConsumerType ==
  ASSUME TypeInv, Consumer
  PROVE  TypeInv'
<1>1. TypeOK
  BY DEF TypeInv
<1>2. UNCHANGED <<streaming, pc, tokens, steer, command, adapter, outcome, broken>>
  BY ConsumerFrame
<1>3. TypeOK'
  BY <1>1, <1>2, ConsumerQueueType, ConsumerSlotType, ConsumerPollType, ConsumerHistoryType,
     ConsumerFlagsType
     DEF TypeOK, Slot, Steering, Polls
<1> QED
  BY <1>2, <1>3 DEF TypeInv

(* The next job starts from a typed state, as the first one did.            *)
LEMMA NextJobType ==
  ASSUME TypeInv, NextJob
  PROVE  TypeInv'
<1>1. command' \in Replies
  BY NothingReplied DEF NextJob
<1>2. rows' \in Seq(Row)
  BY DEF NextJob
<1>3. live' \in Slot /\ steer' \in Steering /\ poll' \in Polls /\ audit' \in LiveState
  BY NewTyped DEF NextJob
<1>4. adapter' \in {Original, adapter} /\ adapter \in Vectors
  BY DEF NextJob, TypeInv, TypeOK
<1>5. /\ adapter' \in Vectors /\ promised' \in Vectors
      /\ tokens' \in 0 .. MaxTokens /\ livePending' \in 0 .. MaxTokens
      /\ seen' \in 0 .. MaxTokens
  BY <1>4, SteeringAssumption, LiveAssumption DEF NextJob
<1>6. /\ streaming' \in BOOLEAN /\ cancelled' \in BOOLEAN /\ shut' \in BOOLEAN
      /\ asleep' \in BOOLEAN /\ broken' \in BOOLEAN /\ abandoned' \in BOOLEAN
      /\ closed' \in BOOLEAN /\ failure' \in BOOLEAN /\ cancelRequested' \in BOOLEAN
      /\ pc' = "loop" /\ outcome' = "ok" /\ verdict' = "pending"
  BY DEF NextJob
<1> QED
  BY <1>1, <1>2, <1>3, <1>5, <1>6
     DEF TypeInv, TypeOK, Generating, Slot, Steering, Polls

(* A step is the worker's, the R thread's, or starts a job.                 *)
LEMMA NextSplit == Next => Worker \/ Consumer \/ NextJob
BY DEF Next, User, Consumer

(* Stuttering keeps the types.                                              *)
LEMMA StutterType ==
  ASSUME TypeInv, UNCHANGED vars
  PROVE  TypeInv'
BY DEF TypeInv, TypeOK, vars, control, worker, boundary, consumer

(* The type invariant.                                                      *)
LEMMA TypeInvariant == Spec => []TypeInv
<1>1. TypeInv /\ [Next]_vars => TypeInv'
  BY NextSplit, WorkerType, ConsumerType, NextJobType, StutterType
<1> QED
  BY <1>1, InitType, PTL DEF Spec

(* The state of both threads has the declared types.                        *)
THEOREM LiveTypes == Spec => []TypeOK
<1>1. TypeInv => TypeOK
  BY DEF TypeInv
<1> QED
  BY <1>1, TypeInvariant, PTL

-----------------------------------------------------------------------------
(***************************************************************************)
(* The adapter.  What LiveSteering believes is what is installed, dirty is *)
(* set before the adapter can differ from the original, and a restoration  *)
(* that failed has broken the handle.                                      *)
(***************************************************************************)
AdapterInv ==
  /\ pc \in Generating => adapter = steer.coefs
  /\ pc \in Generating \cup {"restore"} => steer.dirty \/ adapter = Original
  /\ pc \notin Generating \cup {"restore"} => broken \/ adapter = Original

(* A promise settles after the worker, and not on a broken open handle.     *)
SettledInv ==
  /\ poll.ready => pc = "finished"
  /\ At("settled") => pc = "finished" /\ (broken => closed)

(* Only a live generation has a temporary adapter, whatever the worker does.*)
LEMMA WorkerAdapter ==
  ASSUME TypeInv, AdapterInv, Worker
  PROVE  AdapterInv'
<1>1. steer \in Steering
  BY DEF TypeInv, TypeOK, Steering
<1> USE DEF Return, Goto, Checkpoint, Generating
<1>2. CASE Command
  <2>1. /\ pc = "command"
        /\ \/ UNCHANGED <<adapter, steer>> /\ pc' = "restore"
           \/ adapter' = Candidate /\ steer' = Applied /\ pc' = "advance"
           \/ steer' = [steer EXCEPT !.dirty = TRUE] /\ pc' = "restore"
    BY <1>2 DEF Command
  <2>2. \/ steer'.dirty /\ (pc' = "advance" => adapter' = steer'.coefs)
        \/ UNCHANGED <<adapter, steer>> /\ pc' = "restore"
    BY <1>1, <2>1 DEF Steering, Applied
  <2> QED BY <2>1, <2>2 DEF AdapterInv
<1>3. CASE NativeFails
  <2>1. /\ pc \in Generating /\ pc' = "restore"
        /\ \/ UNCHANGED <<adapter, steer>>
           \/ steer' = [steer EXCEPT !.dirty = TRUE]
    BY <1>3 DEF NativeFails
  <2>2. steer'.dirty \/ UNCHANGED <<adapter, steer>>
    BY <1>1, <2>1 DEF Steering
  <2> QED BY <2>1, <2>2 DEF AdapterInv
<1>4. CASE Restore
  <2>1. /\ pc = "restore" /\ pc' \in {"closing", "publish"}
        /\ \/ ~steer.dirty /\ UNCHANGED adapter
           \/ adapter' = Original
           \/ broken'
    BY <1>4 DEF Restore, Restored
  <2> QED BY <2>1 DEF AdapterInv
<1>5. CASE PromptEnd \/ Publish \/ WorkerReturn
  <2>1. /\ pc \in {"closing", "publish", "returned"}
        /\ pc' \in {"publish", "returned", "finished"}
        /\ UNCHANGED <<adapter, broken>>
    BY <1>5 DEF PromptEnd, Publish, WorkerReturn
  <2> QED BY <2>1 DEF AdapterInv
<1>6. CASE Loop \/ Sample \/ Sampled \/ PublishLive \/ AwaitReply \/ ApplyReply
  <2>1. /\ pc \in Generating /\ pc' \in Generating \cup {"restore"}
        /\ UNCHANGED <<adapter, steer>>
    BY <1>6 DEF Loop, Sample, Sampled, PublishLive, AwaitReply, ApplyReply
  <2> QED BY <2>1 DEF AdapterInv
<1>7. CASE Advance \/ StreamToken \/ StreamText \/ Decode \/ Ending
  <2>1. /\ pc \in Generating /\ pc' \in Generating \cup {"restore"}
        /\ UNCHANGED <<adapter, steer>>
    BY <1>7 DEF Advance, StreamToken, StreamText, Decode, Ending, Enqueue
  <2> QED BY <2>1 DEF AdapterInv
<1> QED
  BY <1>2, <1>3, <1>4, <1>5, <1>6, <1>7 DEF Worker

(* A worker that has returned takes no step.                                *)
LEMMA WorkerRuns == Worker => pc # "finished"
BY DEF Worker, Loop, Sample, Sampled, PublishLive, AwaitReply, ApplyReply, Command, Advance,
       StreamToken, StreamText, Decode, NativeFails, Ending, Restore, PromptEnd, Publish,
       WorkerReturn, Generating

(* A promise settles only after the worker has returned.                    *)
LEMMA ConsumerSettles ==
  ASSUME TypeInv, SettledInv, Consumer
  PROVE  SettledInv'
<1>1. poll \in Polls /\ UNCHANGED <<pc, broken>>
  BY ConsumerFrame DEF TypeInv, TypeOK, Polls
<1>2. CASE Collect \/ DrainContended
  <2>1. \/ poll' = [AtRest EXCEPT !.at = "drain", !.ready = (pc = "finished")]
        \/ poll' = [poll EXCEPT !.at = "drainState", !.emptied = FALSE, !.ready = FALSE]
    BY <1>2 DEF Collect, DrainContended
  <2>2. poll'.at \in {"drain", "drainState"} /\ (poll'.ready => pc = "finished")
    BY <1>1, <2>1, NewTyped DEF Polls
  <2> QED BY <1>1, <2>2 DEF SettledInv, At
<1>3. CASE DrainStream
  <2>1. PICK n : Batch(n)
    BY <1>3 DEF DrainStream
  <2>2. poll'.at = "drainState" /\ (poll'.ready => poll.ready)
    BY <1>1, <2>1 DEF Batch, Polls
  <2> QED BY <1>1, <2>2 DEF SettledInv, At
<1>4. CASE DrainState
  <2>1. \/ poll' = [poll EXCEPT !.at = "batch", !.state = live.pending]
        \/ poll' = [poll EXCEPT !.at = "batch"]
    BY <1>4 DEF DrainState, ToPlace
  <2>2. poll'.at = "batch" /\ poll'.ready = poll.ready
    BY <1>1, <2>1 DEF Polls
  <2> QED BY <1>1, <2>2 DEF SettledInv, At
<1>5. CASE CollectFinished \/ AckStream \/ Join
  <2>1. CASE poll' = [AtRest EXCEPT !.at = "settled"]
    <3>0. poll'.at = "settled" /\ (poll'.ready => pc = "finished")
      BY <2>1, NewTyped DEF Polls, AtRest
    <3>1. CASE CollectFinished
      BY <1>1, <3>0, <3>1 DEF CollectFinished, NothingToDeliver, Finish, SettledInv
    <3>2. CASE Join
      BY <1>1, <3>0, <3>2 DEF Join, SettledInv
    <3>3. CASE AckStream
      <4>1. poll.ready
        BY <3>3 DEF AckStream, AckStreamDue
      <4>2. [poll EXCEPT !.at = "lost"].at = "lost"
        BY <1>1 DEF Polls
      <4>3. closed' = (closed \/ broken)
        BY <3>0, <3>3, <4>2 DEF AckStream, Finish, ToPlace
      <4> QED BY <1>1, <3>0, <4>1, <4>3 DEF SettledInv
    <3> QED BY <1>5, <3>1, <3>2, <3>3
  <2>2. CASE ~(poll' = [AtRest EXCEPT !.at = "settled"])
    <3>1. poll' = [poll EXCEPT !.at = "lost"]
      BY <1>5, <2>2 DEF CollectFinished, AckStream, Join, Finish, ToPlace
    <3>2. poll'.at = "lost" /\ poll'.ready = poll.ready
      BY <1>1, <3>1 DEF Polls
    <3> QED BY <1>1, <3>2 DEF SettledInv, At
  <2> QED BY <2>1, <2>2
<1>6. CASE ~(Collect \/ DrainContended \/ DrainStream \/ DrainState \/ CollectFinished
              \/ AckStream \/ Join)
  <2>1. \/ UNCHANGED poll
        \/ poll' = AtRest
        \/ \E place \in PollPlaces \ {"settled"} : poll' = [poll EXCEPT !.at = place]
    <3> USE DEF consumer, PollPlaces, ToPlace
    <3>1. CASE NoStateTaken \/ BatchUnconverted \/ StateUnconverted \/ DeliverBatch
      BY <3>1 DEF NoStateTaken, BatchUnconverted, StateUnconverted, DeliverBatch
    <3>2. CASE BatchTaken \/ BatchFails \/ DeliverState \/ PollAgain \/ StateAnswered
      BY <3>2 DEF BatchTaken, BatchFails, DeliverState, PollAgain, StateAnswered
    <3>3. CASE StateNotAnswered \/ StateFails \/ Shutdown \/ LlmCancel \/ Close
      BY <3>3 DEF StateNotAnswered, StateFails, Shutdown, LlmCancel, Close
    <3> QED
      BY <1>6, <3>1, <3>2, <3>3 DEF Consumer, MainThread
  <2>2. closed => closed'
    <3> USE DEF boundary
    <3>1. CASE NoStateTaken \/ BatchUnconverted \/ StateUnconverted \/ DeliverBatch
      BY <3>1 DEF NoStateTaken, BatchUnconverted, StateUnconverted, DeliverBatch
    <3>2. CASE BatchTaken \/ BatchFails \/ DeliverState \/ PollAgain \/ StateAnswered
      BY <3>2 DEF BatchTaken, BatchFails, DeliverState, PollAgain, StateAnswered
    <3>3. CASE StateNotAnswered \/ StateFails \/ Shutdown \/ LlmCancel \/ Close
      BY <3>3 DEF StateNotAnswered, StateFails, Shutdown, LlmCancel, Close
    <3> QED
      BY <1>6, <3>1, <3>2, <3>3 DEF Consumer, MainThread
  <2>3. \/ poll'.at = poll.at /\ poll'.ready = poll.ready
        \/ poll'.at # "settled" /\ (poll'.ready => poll.ready)
    BY <1>1, <2>1 DEF Polls, PollPlaces, AtRest
  <2> QED BY <1>1, <2>2, <2>3 DEF SettledInv, At
<1> QED
  BY <1>2, <1>3, <1>4, <1>5, <1>6

(* The adapter and the settlement of the promise.                           *)
LEMMA AdapterInvariant == Spec => [](TypeInv /\ AdapterInv /\ SettledInv)
<1>1. Init => AdapterInv /\ SettledInv
  BY DEF Init, AdapterInv, SettledInv, Generating, NewSteering, AtRest, At
<1>2. ASSUME TypeInv, AdapterInv, SettledInv, [Next]_vars
      PROVE  AdapterInv' /\ SettledInv'
  <2>1. CASE Worker
    <3>1. SettledInv'
      BY <1>2, <2>1, WorkerFrame, WorkerRuns DEF SettledInv, At, boundary, consumer
    <3> QED BY <1>2, <2>1, <3>1, WorkerAdapter
  <2>2. CASE Consumer
    <3>1. AdapterInv'
      BY <1>2, <2>2, ConsumerFrame DEF AdapterInv
    <3> QED BY <1>2, <2>2, <3>1, ConsumerSettles
  <2>3. CASE NextJob
    <3>1. adapter' = Original
      BY <1>2, <2>3 DEF NextJob, AdapterInv, SettledInv, Generating
    <3> QED
      BY <2>3, <3>1 DEF NextJob, AdapterInv, SettledInv, NewSteering, AtRest, At, Generating
  <2>4. CASE UNCHANGED vars
    BY <1>2, <2>4
       DEF AdapterInv, SettledInv, At, vars, worker, boundary, consumer
  <2> QED BY <1>2, <2>1, <2>2, <2>3, <2>4, NextSplit
<1> QED
  BY <1>1, <1>2, TypeInvariant, PTL DEF Spec

(* However a job ends, whatever was replied and whichever call failed, a    *)
(* handle that stays open has its own steering again                        *)
(* (LiveSteering::restore and its Drop).                                    *)
THEOREM LiveAdapterRestored == Spec => []AdapterRestored
<1>1. AdapterInv /\ SettledInv => AdapterRestored
  BY DEF AdapterInv, SettledInv, AdapterRestored, Generating
<1> QED
  BY <1>1, AdapterInvariant, PTL

(* Once a cancellation is accepted no reply reaches the adapter: it only    *)
(* goes back to the original (apply_live_command).                          *)
THEOREM LiveCancelFreezesAdapter == Spec => CancelFreezesAdapter
<1>1. [Next]_vars => [cancelled /\ adapter' # adapter => adapter' = Original]_vars
  <2> SUFFICES ASSUME Next, cancelled, adapter' # adapter
               PROVE  adapter' = Original
    OBVIOUS
  <2>1. CASE Worker
    BY <2>1
       DEF Worker, Loop, Sample, Sampled, PublishLive, AwaitReply, ApplyReply, Command, Advance,
           StreamToken, StreamText, Decode, NativeFails, Ending, Restore, Restored, PromptEnd,
           Publish, WorkerReturn
  <2>2. CASE Consumer
    BY <2>2, ConsumerFrame
  <2>3. CASE NextJob
    BY <2>3 DEF NextJob
  <2> QED BY <2>1, <2>2, <2>3, NextSplit
<1> QED
  BY <1>1, PTL DEF Spec, CancelFreezesAdapter

-----------------------------------------------------------------------------
(***************************************************************************)
(* The steps of both threads, as far as the slot, the steering and the     *)
(* poll are concerned.                                                     *)
(***************************************************************************)
(* Between two observations.                                                *)
Plain == Generating \ {"sampled", "observe", "live", "apply", "command"}
Ended == (pc = "restore" /\ outcome = "ok") \/ pc = "closing"

(* The worker goes on without touching slot, steering or reply.             *)
Quiet ==
  /\ UNCHANGED <<tokens, live, steer, command>>
  /\ \/ pc \in Plain /\ pc' \in Plain
     \/ pc = "sampled" /\ pc' = "observe"
     \/ pc = "apply" /\ pc' = "advance" /\ Candidate = steer.coefs
     \/ pc = "apply" /\ pc' = "command" /\ Candidate # steer.coefs
     \/ pc = "live" /\ pc' = "live"

NewToken ==
  /\ pc = "sample" /\ pc' = "sampled" /\ tokens' = tokens + 1
  /\ UNCHANGED <<live, steer, command>>

Published ==
  /\ pc = "observe" /\ pc' = "live" /\ InSequence
  /\ live' = [live EXCEPT !.pending = Snapshot, !.outstanding = tokens,
                          !.drained = FALSE, !.nextId = tokens + 1]
  /\ UNCHANGED <<tokens, steer, command>>

Understood ==
  /\ pc = "live" /\ pc' = "apply" /\ live.outstanding = 0
  /\ live' = [live EXCEPT !.reply = NoReply]
  /\ command' = live.reply
  /\ UNCHANGED <<tokens, steer>>

Installed ==
  /\ pc = "command" /\ pc' = "advance"
  /\ steer' = Applied
  /\ UNCHANGED <<tokens, live, command>>

(* The generation is over, or further on its way out.                       *)
Gone ==
  /\ pc' \notin Generating
  /\ pc = "live" => cancelled \/ live.discarded
  /\ tokens' = tokens
  /\ live'.outstanding = live.outstanding /\ live'.nextId = live.nextId
  /\ live'.drained = live.drained
  /\ live'.pending = NoState \/ (live'.pending = live.pending /\ pc # "live")
  /\ live'.discarded => live.discarded \/ Terminal'
  /\ Terminal => Terminal'
  /\ Ended' => pc = "ending" \/ Ended

(* What a step of the worker does to the live slot.                         *)
LEMMA WorkerEffect ==
  ASSUME TypeInv, Worker
  PROVE  Quiet \/ NewToken \/ Published \/ Understood \/ Installed \/ Gone
<1>1. live \in Slot
  BY DEF TypeInv, TypeOK, Slot
<1> USE DEF Return, Goto, Checkpoint, Generating, Plain, Ended, Terminal
<1>2. CASE Loop \/ Sampled \/ Advance \/ Decode
  BY <1>2 DEF Loop, Sampled, Advance, Decode, Quiet, Gone, control
<1>3. CASE Sample
  BY <1>3 DEF Sample, Quiet, NewToken, control
<1>4. CASE PublishLive
  BY <1>4 DEF PublishLive, Published, Gone
<1>5. CASE AwaitReply
  <2>1. CASE Goto("apply")
    BY <1>5, <2>1 DEF AwaitReply, Understood
  <2>2. CASE AbandonedState /\ Return("cancelled")
    <3>1. live' = [live EXCEPT !.pending = NoState, !.reply = NoReply] /\ pc = "live"
          /\ UNCHANGED tokens /\ pc' = "restore" /\ outcome' = "cancelled"
      BY <1>5, <2>2 DEF AwaitReply
    <3> QED BY <1>1, <2>2, <3>1 DEF Gone, Slot, AbandonedState
  <2>3. CASE UNCHANGED <<live, pc, outcome, command>>
    BY <1>5, <2>3 DEF AwaitReply, Quiet
  <2> QED BY <1>5, <2>1, <2>2, <2>3 DEF AwaitReply
<1>6. CASE ApplyReply
  BY <1>6 DEF ApplyReply, Quiet, Gone, control
<1>7. CASE Command
  BY <1>7 DEF Command, Installed, Gone, control
<1>8. CASE StreamToken \/ StreamText
  BY <1>8 DEF StreamToken, StreamText, Enqueue, Quiet, Gone
<1>9. CASE NativeFails \/ Ending \/ Restore
  BY <1>9 DEF NativeFails, Ending, Restore, Gone, control
<1>10. CASE PromptEnd \/ WorkerReturn
  BY <1>10 DEF PromptEnd, WorkerReturn, Gone, control
<1>11. CASE Publish
  <2>1. /\ pc = "publish" /\ pc' = "returned" /\ UNCHANGED tokens
        /\ \/ UNCHANGED live
           \/ live' = [live EXCEPT !.pending = NoState, !.reply = NoReply, !.discarded = TRUE]
    BY <1>11 DEF Publish
  <2> QED BY <1>1, <2>1 DEF Gone, Slot
<1> QED
  BY <1>2, <1>3, <1>4, <1>5, <1>6, <1>7, <1>8, <1>9, <1>10, <1>11 DEF Worker

(* The places of a poll that may hold a state for R.                        *)
Held == {"batch", "onToken", "streamed", "onState"}
Holding == poll.at \in Held /\ poll.state.id # 0

Taken ==
  /\ At("drainState") /\ AskForState /\ Deliverable /\ live.pending.id # 0
  /\ live' = [live EXCEPT !.pending = NoState, !.drained = TRUE]
  /\ livePending' = live.pending.id
  /\ poll'.at = "batch" /\ poll'.state = live.pending
  /\ UNCHANGED <<audit, promised, failure, cancelled>>

Acknowledged ==
  /\ At("onState") /\ AckMatches(poll.state.id) /\ ~AckWithheld
  /\ \E r \in Replies : AckState(r)
  /\ poll' = AtRest
  /\ UNCHANGED <<audit, failure, cancelled>>

Observed ==
  /\ At("streamed") /\ StateDue /\ Contract(poll.state)
  /\ poll'.at = "onState" /\ poll'.state = poll.state
  /\ audit' = poll.state
  /\ UNCHANGED <<live, livePending, promised, failure, cancelled>>

(* A poll goes on, without a step of the handshake.                         *)
Moves ==
  \/ UNCHANGED <<poll, failure>>
  \/ poll'.at \notin Held /\ poll'.state = NoState
  \/ poll.at = "drain" /\ poll'.at = "drainState" /\ poll'.state = poll.state
  \/ poll.at = "drainState" /\ poll'.at = "batch" /\ poll'.state = poll.state
  \/ /\ poll.at \in Held \ {"onState"} /\ poll'.at \in Held \ {"onState"}
     /\ poll'.state = poll.state
  \/ poll'.at \in {"lost", "joining"}

Other ==
  /\ UNCHANGED <<livePending, audit, promised>>
  /\ \/ UNCHANGED live
     \/ live' = [live EXCEPT !.discarded = TRUE] /\ (cancelled' \/ Terminal)
  /\ cancelled => cancelled'
  /\ Moves

(* What a step of the R thread does to the live slot.                       *)
LEMMA ConsumerEffect ==
  ASSUME TypeInv, Consumer
  PROVE  Taken \/ Acknowledged \/ Observed \/ Other
<1>1. poll \in Polls /\ live \in Slot
  BY DEF TypeInv, TypeOK, Polls, Slot
<1>2. \A place \in PollPlaces :
        /\ [poll EXCEPT !.at = place].at = place
        /\ [poll EXCEPT !.at = place].state = poll.state
        /\ [AtRest EXCEPT !.at = place].at = place
        /\ [AtRest EXCEPT !.at = place].state = NoState
  BY <1>1, NewTyped DEF Polls, AtRest, PollPlaces
<1>3. AtRest.at = "idle" /\ AtRest.state = NoState
  BY DEF AtRest
<1> USE <1>2, <1>3 DEF PollPlaces, Held, ToPlace, At, control, boundary, consumer
<1>4. CASE CollectFinished \/ Join
  BY <1>4 DEF CollectFinished, Join, Finish, Other, Moves
<1>5. CASE AckStream
  BY <1>5 DEF AckStream, Finish, Other, Moves
<1>6. CASE Collect
  <2>1. poll'.at = "drain" /\ poll'.state = NoState
    BY <1>6, NewTyped DEF Collect, AtRest
  <2> QED BY <1>6, <2>1 DEF Collect, Other, Moves
<1>7. CASE DrainStream
  <2>1. PICK n : Batch(n)
    BY <1>7 DEF DrainStream
  <2>2. poll'.at = "drainState" /\ poll'.state = poll.state
    BY <1>1, <2>1 DEF Batch, Polls
  <2> QED BY <1>7, <2>2 DEF DrainStream, Other, Moves
<1>8. CASE DrainContended
  <2>1. poll'.at = "drainState" /\ poll'.state = poll.state
    BY <1>1, <1>8 DEF DrainContended, Polls
  <2> QED BY <1>8, <2>1 DEF DrainContended, Other, Moves
<1>9. CASE DrainState
  <2>1. CASE Deliverable /\ live.pending.id # 0
    <3>0. poll' = [poll EXCEPT !.at = "batch", !.state = live.pending]
      BY <1>9, <2>1 DEF DrainState
    <3>1. poll'.at = "batch" /\ poll'.state = live.pending
      BY <1>1, <3>0 DEF Polls
    <3>2. /\ At("drainState") /\ AskForState
          /\ live' = [live EXCEPT !.pending = NoState, !.drained = TRUE]
          /\ livePending' = live.pending.id
          /\ UNCHANGED <<audit, promised, failure, cancelled>>
      BY <1>9, <2>1 DEF DrainState
    <3> QED BY <2>1, <3>1, <3>2 DEF Taken
  <2>2. CASE ~(Deliverable /\ live.pending.id # 0)
    <3>1. /\ UNCHANGED <<live, livePending, audit, promised, cancelled>>
          /\ poll.at = "drainState" /\ ToPlace("batch")
      BY <1>9, <2>2 DEF DrainState
    <3> QED BY <3>1 DEF Other, Moves
  <2> QED BY <2>1, <2>2
<1>10. CASE NoStateTaken \/ StateUnconverted \/ PollAgain
  <2>1. UNCHANGED <<live, livePending, audit, promised, cancelled>>
    BY <1>10 DEF NoStateTaken, StateUnconverted, PollAgain
  <2>2. \/ poll.at = "drainState" /\ ToPlace("batch")
        \/ ToPlace("lost")
        \/ poll' = AtRest
    BY <1>10 DEF NoStateTaken, StateUnconverted, PollAgain
  <2>3. \/ poll.at = "drainState" /\ poll'.at = "batch" /\ poll'.state = poll.state
        \/ poll'.at = "lost"
        \/ poll'.at = "idle" /\ poll'.state = NoState
    BY <1>1, <2>2 DEF Polls
  <2> QED BY <2>1, <2>3 DEF Other, Moves
<1>11. CASE BatchUnconverted \/ StateFails
  BY <1>11 DEF BatchUnconverted, StateFails, ConsumerFailure, DiscardStream, Other, Moves
<1>12. CASE BatchFails
  BY <1>12 DEF BatchFails, ConsumerFailure, DiscardStream, Other, Moves
<1>13. CASE DeliverBatch \/ BatchTaken
  <2>1. UNCHANGED <<live, livePending, audit, promised, cancelled>>
    BY <1>13 DEF DeliverBatch, BatchTaken
  <2>2. poll.at \in Held \ {"onState"} /\ (ToPlace("streamed") \/ ToPlace("onToken"))
    BY <1>13 DEF DeliverBatch, BatchTaken
  <2>3. poll'.at \in {"streamed", "onToken"} /\ poll'.state = poll.state
    BY <1>1, <2>2 DEF Polls
  <2> QED BY <2>1, <2>2, <2>3 DEF Other, Moves
<1>14. CASE DeliverState
  BY <1>14, ZenonT(40) DEF DeliverState, Observed, Other, Moves
<1>15. CASE StateAnswered
  BY <1>15, ZenonT(40) DEF StateAnswered, Acknowledged, Other, Moves
<1>16. CASE StateNotAnswered \/ Shutdown
  BY <1>16 DEF StateNotAnswered, Shutdown, DiscardStream, Other, Moves
<1>17. CASE LlmCancel \/ Close
  BY <1>17 DEF LlmCancel, Close, DiscardStream, Other, Moves
<1> QED
  BY <1>4, <1>5, <1>6, <1>7, <1>8, <1>9, <1>10, <1>11, <1>12, <1>13, <1>14, <1>15, <1>16,
     <1>17
     DEF Consumer, MainThread

-----------------------------------------------------------------------------
(***************************************************************************)
(* The invariant of the handshake.                                         *)
(***************************************************************************)
(* From the publication of a state until its answer is dealt with.          *)
Asking == {"live", "apply", "command"}

(* One state is outstanding, and only while the worker waits for it, or     *)
(* after a cancellation; both sides agree on whether R has it.              *)
SlotInv ==
  /\ pc \in Generating \ {"live"} => live.outstanding = 0
  /\ pc \in Generating \ {"sampled", "observe"} => live.nextId = tokens + 1
  /\ pc \in {"sampled", "observe"} => live.nextId = tokens
  /\ pc \in Asking => tokens # 0
  /\ live.outstanding # 0 => /\ live.outstanding = tokens /\ live.nextId = tokens + 1
                             /\ pc = "live" \/ cancelled
  /\ live.drained => live.outstanding # 0
  /\ livePending = IF live.drained THEN live.outstanding ELSE 0
  /\ Ended => live.outstanding = 0 /\ live.nextId = tokens + 1
  /\ live.discarded => cancelled \/ Terminal

(* The state offered, and the one R holds, is the worker's.                 *)
StateInv ==
  /\ live.pending.id # 0 =>
       /\ pc = "live" /\ ~live.drained
       /\ live.pending = Snapshot /\ tokens = live.outstanding
  /\ Holding => livePending = poll.state.id
  /\ Holding /\ pc = "live" => poll.state = Snapshot
  /\ poll.at \notin Held \cup {"lost", "joining"} => poll.state.id = 0
  /\ At("onState") => ~failure /\ poll.state.id # 0 /\ audit = poll.state

(* What R knows of the steering is the worker's, or one reply older.        *)
Same ==
  /\ steer.revision = audit.revision /\ steer.after = audit.after
  /\ steer.coefs = audit.coefs
Follows ==
  \/ Same
  \/ /\ audit.id # 0
     /\ steer.revision = audit.revision + 1 /\ steer.after = audit.id
     /\ steer.coefs # audit.coefs

AuditInv ==
  /\ audit.id = 0 => audit = NoState
  /\ pc \in Generating \ Asking => audit.id = live.nextId - 1 /\ Follows
  /\ pc = "live" /\ live.outstanding # 0 =>
       \/ audit.id = tokens - 1 /\ Follows
       \/ audit.id = tokens /\ Same
  /\ pc \in Asking /\ live.outstanding = 0 => audit.id = tokens /\ Same
  /\ live.pending.id # 0 => Contract(live.pending)
  /\ Holding /\ ~At("onState") => Contract(poll.state)
  /\ pc = "command" => Candidate # steer.coefs

(* Every accepted reply is with the worker, in its hands or in the slot.    *)
PromiseInv ==
  /\ pc \in Generating \ Asking => promised = steer.coefs
  /\ pc = "live" => promised = Overlay(steer.coefs, live.reply)
  /\ pc \in {"apply", "command"} => promised = Candidate
  /\ pc = "live" /\ live.outstanding # 0 => live.reply = NoReply
  /\ pc \in Generating \ {"live"} => live.reply = NoReply
  /\ live.pending.id # 0 => live.pending.coefs = promised
  /\ Holding => poll.state.coefs = promised

HandshakeInv == SlotInv /\ StateInv /\ AuditInv /\ PromiseInv

-----------------------------------------------------------------------------
(* The fields of the slot after the steps that write it.                    *)
LEMMA SlotFields ==
  ASSUME TypeInv
  PROVE  /\ live \in Slot /\ tokens \in Nat /\ MaxTokens \in Nat
         /\ live.outstanding \in Nat /\ live.nextId \in Nat \ {0} /\ live.pending.id \in Nat
         /\ Published =>
              /\ live'.pending = Snapshot /\ live'.outstanding = tokens
              /\ live'.drained = FALSE /\ live'.nextId = tokens + 1
              /\ live'.discarded = live.discarded /\ live'.reply = live.reply
         /\ Understood =>
              /\ live'.pending = live.pending /\ live'.outstanding = live.outstanding
              /\ live'.drained = live.drained /\ live'.nextId = live.nextId
              /\ live'.discarded = live.discarded /\ live'.reply = NoReply
         /\ Taken =>
              /\ live'.pending = NoState /\ live'.outstanding = live.outstanding
              /\ live'.drained = TRUE /\ live'.nextId = live.nextId
              /\ live'.discarded = live.discarded /\ live'.reply = live.reply
         /\ live' = [live EXCEPT !.discarded = TRUE] =>
              /\ live'.pending = live.pending /\ live'.outstanding = live.outstanding
              /\ live'.drained = live.drained /\ live'.nextId = live.nextId
              /\ live'.reply = live.reply
<1>1. live \in Slot /\ tokens \in 0 .. MaxTokens
  BY DEF TypeInv, TypeOK, Slot
<1>2. MaxTokens \in Nat
  BY LiveAssumption
<1>3. live.outstanding \in Nat /\ live.nextId \in Nat \ {0} /\ live.pending.id \in Nat
  BY <1>1, <1>2 DEF Slot, LiveState
<1>4. Published =>
        /\ live'.pending = Snapshot /\ live'.outstanding = tokens
        /\ live'.drained = FALSE /\ live'.nextId = tokens + 1
        /\ live'.discarded = live.discarded /\ live'.reply = live.reply
  BY <1>1 DEF Published, Slot
<1>5. Understood =>
        /\ live'.pending = live.pending /\ live'.outstanding = live.outstanding
        /\ live'.drained = live.drained /\ live'.nextId = live.nextId
        /\ live'.discarded = live.discarded /\ live'.reply = NoReply
  BY <1>1 DEF Understood, Slot
<1>6. Taken =>
        /\ live'.pending = NoState /\ live'.outstanding = live.outstanding
        /\ live'.drained = TRUE /\ live'.nextId = live.nextId
        /\ live'.discarded = live.discarded /\ live'.reply = live.reply
  BY <1>1 DEF Taken, Slot
<1>7. live' = [live EXCEPT !.discarded = TRUE] =>
        /\ live'.pending = live.pending /\ live'.outstanding = live.outstanding
        /\ live'.drained = live.drained /\ live'.nextId = live.nextId
        /\ live'.reply = live.reply
  BY <1>1 DEF Slot
<1> QED
  BY <1>1, <1>2, <1>3, <1>4, <1>5, <1>6, <1>7

(* What an acknowledgement changes, cancelled or not.                       *)
LEMMA AckFields ==
  ASSUME TypeInv, NEW r \in Replies, AckState(r)
  PROVE  /\ live'.pending = live.pending /\ live'.outstanding = 0
         /\ live'.drained = FALSE /\ live'.nextId = live.nextId
         /\ live'.discarded = live.discarded
         /\ live'.reply = IF cancelled THEN live.reply ELSE r
         /\ promised' = IF cancelled THEN promised ELSE Overlay(promised, r)
         /\ livePending' = 0
<1>1. live \in Slot
  BY DEF TypeInv, TypeOK, Slot
<1> QED
  BY <1>1 DEF AckState, Slot

-----------------------------------------------------------------------------
(* The worker keeps the slot's counters consistent.                         *)
LEMMA WorkerSlot ==
  ASSUME TypeInv, SlotInv, Worker
  PROVE  SlotInv'
<1>1. UNCHANGED <<cancelled, livePending>>
  BY WorkerFrame DEF boundary
<1> USE <1>1, SlotFields DEF SlotInv, Generating, Plain, Asking, Ended, Terminal
<1>2. CASE Quiet
  BY <1>2 DEF Quiet
<1>3. CASE NewToken
  BY <1>3 DEF NewToken
<1>4. CASE Published
  BY <1>4 DEF Published, InSequence
<1>5. CASE Understood
  BY <1>5 DEF Understood
<1>6. CASE Installed
  BY <1>6 DEF Installed
<1>7. CASE Gone
  BY <1>7 DEF Gone
<1> QED
  BY <1>2, <1>3, <1>4, <1>5, <1>6, <1>7, WorkerEffect

(* The R thread keeps the slot's counters consistent.                       *)
LEMMA ConsumerSlot ==
  ASSUME TypeInv, HandshakeInv, Consumer
  PROVE  SlotInv'
<1>1. UNCHANGED <<pc, tokens, outcome>>
  BY ConsumerFrame
<1>2. SlotInv
  BY DEF HandshakeInv
<1> USE <1>1, <1>2, SlotFields DEF SlotInv, Generating, Asking, Ended, Terminal
<1>3. CASE Taken
  <2>1. live.pending.id = live.outstanding /\ pc = "live"
    BY <1>3 DEF Taken, HandshakeInv, StateInv, Snapshot
  <2> QED BY <1>3, <2>1 DEF Taken
<1>4. CASE Acknowledged
  <2>1. PICK r \in Replies : AckState(r)
    BY <1>4 DEF Acknowledged
  <2> QED BY <1>4, <2>1, AckFields DEF Acknowledged, AckMatches
<1>5. CASE Observed
  BY <1>5 DEF Observed
<1>6. CASE Other
  <2>1. /\ live'.outstanding = live.outstanding /\ live'.drained = live.drained
        /\ live'.nextId = live.nextId
        /\ live'.discarded => live.discarded \/ cancelled' \/ Terminal
        /\ cancelled => cancelled'
        /\ UNCHANGED livePending
    BY <1>6 DEF Other
  <2> QED BY <2>1
<1> QED
  BY <1>3, <1>4, <1>5, <1>6, ConsumerEffect

-----------------------------------------------------------------------------
(* A step of the worker leaves R's side alone, and steering changes only    *)
(* where nobody is asking.                                                  *)
LEMMA WorkerState ==
  ASSUME TypeInv, HandshakeInv, Worker
  PROVE  StateInv'
<1>1. UNCHANGED <<livePending, poll, failure, audit>>
  BY WorkerFrame DEF boundary, consumer
<1>2. SlotInv /\ StateInv /\ SlotInv'
  BY WorkerSlot DEF HandshakeInv
<1>3. NoState.id = 0
  BY DEF NoState
<1>4. Snapshot.id = tokens
  BY DEF Snapshot
<1>5. UNCHANGED <<tokens, steer>> => Snapshot' = Snapshot
  BY DEF Snapshot
<1>6. UNCHANGED <<Holding, At("onState")>>
  BY <1>1 DEF Holding, At
<1> USE <1>1, <1>2, <1>3, <1>4, <1>5, <1>6, SlotFields DEF StateInv
<1>7. Holding => live.drained /\ live.outstanding = poll.state.id
  BY DEF SlotInv, Holding
<1>8. CASE pc' # "live"
  <2>1. live'.pending.id # 0 => live.pending.id # 0 /\ pc # "live"
    BY <1>8, WorkerEffect DEF Quiet, Plain, NewToken, Published, Understood, Installed, Gone
  <2> QED BY <1>8, <2>1
<1>9. CASE Published
  <2>1. ~Holding
    BY <1>7, <1>9 DEF Published, SlotInv, Generating, Holding
  <2>2. Snapshot' = Snapshot
    BY <1>9 DEF Published
  <2> QED BY <1>9, <2>1, <2>2 DEF Published
<1>10. CASE Quiet
  BY <1>10 DEF Quiet, Plain
<1> QED
  BY <1>8, <1>9, <1>10, WorkerEffect DEF NewToken, Understood, Installed, Gone, Generating

(* The R thread keeps the state it was given until it has answered.         *)
LEMMA ConsumerState ==
  ASSUME TypeInv, HandshakeInv, Consumer
  PROVE  StateInv'
<1>1. UNCHANGED <<pc, tokens, steer>>
  BY ConsumerFrame
<1>2. SlotInv /\ StateInv
  BY DEF HandshakeInv
<1>3. NoState.id = 0
  BY DEF NoState
<1>4. Snapshot.id = tokens
  BY DEF Snapshot
<1>5. Snapshot' = Snapshot
  BY <1>1 DEF Snapshot
<1> USE <1>1, <1>2, <1>3, <1>4, <1>5, SlotFields DEF StateInv, Held, At, Holding
<1>6. CASE Taken
  <2>1. /\ live'.pending = NoState
        /\ livePending' = live.pending.id
        /\ poll'.at = "batch" /\ poll'.state = live.pending
        /\ pc = "live" /\ live.pending = Snapshot
    BY <1>6 DEF Taken
  <2> QED BY <2>1
<1>7. CASE Acknowledged
  <2>1. PICK r \in Replies : AckState(r)
    BY <1>7 DEF Acknowledged
  <2>2. live'.pending = live.pending /\ live.drained
    BY <1>7, <2>1, AckFields DEF Acknowledged, AckMatches
  <2>3. poll'.at = "idle" /\ poll'.state = NoState
    BY <1>7 DEF Acknowledged, AtRest
  <2> QED BY <2>2, <2>3
<1>8. CASE Observed
  BY <1>8 DEF Observed, StateDue
<1>9. CASE Other
  <2>1. /\ live'.outstanding = live.outstanding /\ live'.drained = live.drained
        /\ live'.pending = live.pending
        /\ UNCHANGED <<livePending, audit>>
        /\ Moves
    BY <1>9 DEF Other
  <2>2. CASE UNCHANGED <<poll, failure>>
    BY <2>1, <2>2
  <2>3. CASE ~UNCHANGED <<poll, failure>>
    BY <2>1, <2>3 DEF Moves
  <2> QED BY <2>2, <2>3
<1> QED
  BY <1>6, <1>7, <1>8, <1>9, ConsumerEffect

-----------------------------------------------------------------------------
(* The state that the worker publishes meets R's contract.                  *)
LEMMA SnapshotContract ==
  ASSUME TypeInv, HandshakeInv, pc = "observe"
  PROVE  Contract(Snapshot)
<1>1. /\ Snapshot.id = tokens /\ Snapshot.revision = steer.revision
      /\ Snapshot.after = steer.after /\ Snapshot.coefs = steer.coefs
  BY DEF Snapshot
<1>2. /\ audit.id = tokens - 1 /\ Follows
      /\ audit.id = 0 => audit = NoState
  BY DEF HandshakeInv, SlotInv, AuditInv, Generating, Asking
<1>3. tokens \in Nat /\ audit.id \in Nat
  BY SlotFields, LiveAssumption DEF TypeInv, TypeOK, LiveState
<1>4. /\ NoState.revision = 0 /\ NoState.after = 0 /\ NoState.coefs = Original
  BY DEF NoState
<1> QED
  BY <1>1, <1>2, <1>3, <1>4 DEF Contract, Follows, Same

(* The state in R's hands stays the one the worker made.                    *)
LEMMA WorkerAudit ==
  ASSUME TypeInv, HandshakeInv, Worker
  PROVE  AuditInv'
<1>1. UNCHANGED <<audit, poll>>
  BY WorkerFrame DEF consumer
<1>2. SlotInv /\ StateInv /\ AuditInv /\ SlotInv'
  BY WorkerSlot DEF HandshakeInv
<1>3. NoState.id = 0
  BY DEF NoState
<1>5. UNCHANGED <<Holding, At("onState")>>
  BY <1>1 DEF Holding, At
<1>6. UNCHANGED steer => (Same' <=> Same) /\ (Follows' <=> Follows)
  BY <1>1 DEF Same, Follows
<1>7. UNCHANGED <<steer, command>> => Candidate' = Candidate
  BY DEF Candidate
<1>8. Same => Follows
  BY DEF Follows
<1>9. (Holding /\ ~At("onState") => Contract(poll.state))'
  <2>1. Contract(poll.state) => Contract(poll.state)'
    BY <1>1 DEF Contract
  <2> QED BY <1>2, <1>5, <2>1 DEF AuditInv
<1>10. (live.pending.id # 0 => Contract(live.pending))'
  <2>1. CASE Published
    <3>1. Contract(Snapshot)
      BY <2>1, SnapshotContract DEF Published
    <3>2. live'.pending = Snapshot
      BY <2>1, SlotFields
    <3> QED BY <1>1, <3>1, <3>2 DEF Contract
  <2>2. CASE ~Published
    <3>1. live'.pending = NoState \/ live'.pending = live.pending
      BY <2>2, WorkerEffect, SlotFields DEF Quiet, NewToken, Installed, Gone
    <3>2. live.pending.id # 0 => Contract(live.pending)
      BY <1>2 DEF AuditInv
    <3>3. CASE live'.pending = NoState
      BY <1>3, <3>3
    <3>4. CASE live'.pending = live.pending
      BY <1>1, <3>2, <3>4 DEF Contract
    <3> QED BY <3>1, <3>3, <3>4
  <2> QED BY <2>1, <2>2
<1> DEFINE Rest ==
      /\ pc \in Generating \ Asking => audit.id = live.nextId - 1 /\ Follows
      /\ pc = "live" /\ live.outstanding # 0 =>
           \/ audit.id = tokens - 1 /\ Follows
           \/ audit.id = tokens /\ Same
      /\ pc \in Asking /\ live.outstanding = 0 => audit.id = tokens /\ Same
      /\ pc = "command" => Candidate # steer.coefs
<1>11. Rest'
  <2>1. Rest
    BY <1>2 DEF AuditInv
  <2> USE <1>1, <1>2, <1>6, <1>7, <1>8, <2>1, SlotFields DEF Asking, Generating, Plain
  <2>2. CASE Quiet
    BY <2>2 DEF Quiet, SlotInv
  <2>3. CASE NewToken
    BY <2>3 DEF NewToken
  <2>4. CASE Published
    BY <2>4 DEF Published, SlotInv
  <2>5. CASE Understood
    BY <2>5 DEF Understood
  <2>6. CASE Installed
    <3>1. /\ steer'.revision = steer.revision + 1 /\ steer'.after = tokens
          /\ steer'.coefs = Candidate /\ Candidate # steer.coefs
          /\ pc = "command" /\ pc' = "advance" /\ UNCHANGED <<live, tokens>>
      BY <2>6 DEF Installed, Applied
    <3>2. audit.id = tokens /\ Same /\ tokens # 0 /\ live.nextId = tokens + 1
      BY <3>1 DEF SlotInv
    <3>3. Follows'
      BY <3>1, <3>2 DEF Follows, Same
    <3> QED BY <3>1, <3>2, <3>3
  <2>7. CASE Gone
    BY <2>7 DEF Gone
  <2> QED BY <2>2, <2>3, <2>4, <2>5, <2>6, <2>7, WorkerEffect
<1> QED
  BY <1>1, <1>2, <1>5, <1>9, <1>10, <1>11 DEF AuditInv

(* The state in R's hands is the one in the slot.                           *)
LEMMA ConsumerAudit ==
  ASSUME TypeInv, HandshakeInv, Consumer
  PROVE  AuditInv'
<1>1. UNCHANGED <<pc, tokens, steer, command>>
  BY ConsumerFrame
<1>2. SlotInv /\ StateInv /\ AuditInv
  BY DEF HandshakeInv
<1>3. NoState.id = 0
  BY DEF NoState
<1>4. /\ Snapshot.id = tokens /\ Snapshot.revision = steer.revision
      /\ Snapshot.after = steer.after /\ Snapshot.coefs = steer.coefs
  BY DEF Snapshot
<1>5. Candidate' = Candidate
  BY <1>1 DEF Candidate
<1>6. UNCHANGED audit => (Same' <=> Same) /\ (Follows' <=> Follows)
  BY <1>1 DEF Same, Follows
<1>7. live.drained => pc \notin Generating \ {"live"} /\ live.outstanding # 0
                      /\ live.pending.id = 0
  BY <1>2 DEF SlotInv, StateInv
<1> USE <1>1, <1>2, <1>3, <1>5, <1>6, <1>7, SlotFields DEF Held, At, Holding
<1>8. CASE Taken
  <2>1. /\ live'.outstanding = live.outstanding /\ live'.nextId = live.nextId
        /\ live'.pending = NoState /\ poll'.state = live.pending /\ UNCHANGED audit
        /\ Contract(live.pending)
    BY <1>8 DEF Taken, AuditInv
  <2>2. Contract(poll.state)'
    BY <2>1 DEF Contract
  <2> QED BY <2>1, <2>2 DEF AuditInv
<1>9. CASE Acknowledged
  <2>1. PICK r \in Replies : AckState(r)
    BY <1>9 DEF Acknowledged
  <2>2. /\ live'.pending = live.pending /\ live.drained /\ live'.outstanding = 0
        /\ live'.nextId = live.nextId
        /\ poll'.at = "idle" /\ UNCHANGED audit
    BY <1>9, <2>1, AckFields DEF Acknowledged, AckMatches, AtRest
  <2>3. pc = "live" => audit.id = tokens /\ Same
    BY <1>4, <1>9 DEF Acknowledged, StateInv, Same
  <2> QED BY <2>2, <2>3 DEF AuditInv, Asking, Generating
<1>10. CASE Observed
  <2>1. /\ Holding /\ poll'.at = "onState" /\ audit' = poll.state /\ UNCHANGED live
        /\ poll.state.id # 0
    BY <1>10 DEF Observed, StateDue
  <2>2. live.drained
    BY <2>1 DEF StateInv, SlotInv
  <2>3. pc = "live" => audit'.id = tokens /\ Same'
    BY <1>4, <2>1 DEF StateInv, Same
  <2> QED BY <2>1, <2>2, <2>3 DEF AuditInv, Asking, Generating
<1>11. CASE Other
  <2>1. /\ live'.outstanding = live.outstanding /\ live'.nextId = live.nextId
        /\ live'.pending = live.pending /\ UNCHANGED audit /\ Moves
    BY <1>11 DEF Other
  <2>2. (Holding /\ ~At("onState"))' => Holding /\ ~At("onState") /\ poll'.state = poll.state
    BY <2>1 DEF Moves, StateInv
  <2>3. Contract(poll.state) /\ poll'.state = poll.state => Contract(poll.state)'
    BY <2>1 DEF Contract
  <2>4. Contract(live.pending) => Contract(live.pending)'
    BY <2>1 DEF Contract
  <2> QED BY <2>1, <2>2, <2>3, <2>4 DEF AuditInv
<1> QED
  BY <1>8, <1>9, <1>10, <1>11, ConsumerEffect

-----------------------------------------------------------------------------
(* The worker installs exactly the coefficients that were promised.         *)
LEMMA WorkerPromise ==
  ASSUME TypeInv, HandshakeInv, Worker
  PROVE  PromiseInv'
<1>1. UNCHANGED <<poll, promised>>
  BY WorkerFrame DEF consumer
<1>2. SlotInv /\ StateInv /\ PromiseInv
  BY DEF HandshakeInv
<1>3. NoState.id = 0
  BY DEF NoState
<1>4. UNCHANGED Holding
  BY <1>1 DEF Holding
<1>5. UNCHANGED <<steer, command>> => Candidate' = Candidate
  BY DEF Candidate
<1>6. steer.coefs \in Vectors /\ Overlay(steer.coefs, NoReply) = steer.coefs
  BY NothingReplied DEF TypeInv, TypeOK
<1>7. (live.pending.id # 0 => live.pending.coefs = promised)'
  <2>1. CASE Published
    <3>1. pc = "observe" /\ live'.pending.coefs = steer.coefs
      BY <2>1, SlotFields DEF Published, Snapshot
    <3> QED BY <1>1, <1>2, <3>1 DEF PromiseInv, Generating, Asking
  <2>2. CASE ~Published
    <3>1. live'.pending = NoState \/ live'.pending = live.pending
      BY <2>2, WorkerEffect, SlotFields DEF Quiet, NewToken, Installed, Gone
    <3> QED BY <1>1, <1>2, <1>3, <3>1 DEF PromiseInv
  <2> QED BY <2>1, <2>2
<1> DEFINE Rest ==
      /\ pc \in Generating \ Asking => promised = steer.coefs
      /\ pc = "live" => promised = Overlay(steer.coefs, live.reply)
      /\ pc \in {"apply", "command"} => promised = Candidate
      /\ pc = "live" /\ live.outstanding # 0 => live.reply = NoReply
      /\ pc \in Generating \ {"live"} => live.reply = NoReply
<1>8. Rest'
  <2>1. Rest
    BY <1>2 DEF PromiseInv
  <2> USE <1>1, <1>5, <2>1, SlotFields DEF Asking, Generating, Plain
  <2>2. CASE Quiet
    BY <2>2 DEF Quiet
  <2>3. CASE NewToken
    BY <2>3 DEF NewToken
  <2>4. CASE Published
    BY <1>6, <2>4 DEF Published
  <2>5. CASE Understood
    <3>1. Candidate' = Overlay(steer.coefs, live.reply)
      BY <2>5 DEF Understood, Candidate
    <3> QED BY <2>5, <3>1 DEF Understood
  <2>6. CASE Installed
    <3>1. steer'.coefs = Candidate /\ pc = "command" /\ pc' = "advance" /\ UNCHANGED live
      BY <2>6 DEF Installed, Applied
    <3> QED BY <3>1
  <2>7. CASE Gone
    BY <2>7 DEF Gone
  <2> QED BY <2>2, <2>3, <2>4, <2>5, <2>6, <2>7, WorkerEffect
<1> QED
  BY <1>1, <1>2, <1>4, <1>7, <1>8 DEF PromiseInv

(* An answer changes the promised coefficients exactly once.                *)
LEMMA ConsumerPromise ==
  ASSUME TypeInv, HandshakeInv, Consumer
  PROVE  PromiseInv'
<1>1. UNCHANGED <<pc, tokens, steer, command>>
  BY ConsumerFrame
<1>2. SlotInv /\ StateInv /\ PromiseInv
  BY DEF HandshakeInv
<1>3. NoState.id = 0
  BY DEF NoState
<1>4. Candidate' = Candidate
  BY <1>1 DEF Candidate
<1>5. Overlay(steer.coefs, NoReply) = steer.coefs
  BY NothingReplied DEF TypeInv, TypeOK
<1>6. live.drained => pc \notin Generating \ {"live"} /\ live.outstanding # 0
                      /\ live.pending.id = 0
  BY <1>2 DEF SlotInv, StateInv
<1> USE <1>1, <1>2, <1>3, <1>4, SlotFields DEF Held, At, Holding
<1>7. CASE Taken
  BY <1>7 DEF Taken, PromiseInv
<1>8. CASE Acknowledged
  <2>1. PICK r \in Replies : AckState(r)
    BY <1>8 DEF Acknowledged
  <2>2. /\ live'.pending.id = 0 /\ live'.outstanding = 0
        /\ live'.reply = IF cancelled THEN live.reply ELSE r
        /\ promised' = IF cancelled THEN promised ELSE Overlay(promised, r)
        /\ poll'.at = "idle" /\ pc \notin Generating \ {"live"} /\ live.outstanding # 0
    BY <1>6, <1>8, <2>1, AckFields DEF Acknowledged, AckMatches, AtRest
  <2>3. pc = "live" => live.reply = NoReply /\ promised = steer.coefs
    BY <1>5, <2>2 DEF PromiseInv
  <2>4. pc = "live" => promised' = Overlay(steer.coefs, live'.reply)
    BY <1>5, <2>2, <2>3
  <2> QED BY <2>2, <2>4 DEF PromiseInv, Generating, Asking
<1>9. CASE Observed
  BY <1>9 DEF Observed, StateDue, PromiseInv
<1>10. CASE Other
  <2>1. /\ live'.outstanding = live.outstanding /\ live'.reply = live.reply
        /\ live'.pending = live.pending /\ UNCHANGED promised /\ Moves
    BY <1>10 DEF Other
  <2>2. Holding' => Holding /\ poll'.state = poll.state
    BY <2>1 DEF Moves, StateInv
  <2> QED BY <2>1, <2>2 DEF PromiseInv
<1> QED
  BY <1>7, <1>8, <1>9, <1>10, ConsumerEffect

-----------------------------------------------------------------------------
(* A new job starts the handshake afresh.                                   *)
LEMMA FreshSlot ==
  /\ NewSlot.pending = NoState /\ NewSlot.outstanding = 0 /\ NewSlot.drained = FALSE
  /\ NewSlot.nextId = 1 /\ NewSlot.discarded = FALSE /\ NewSlot.reply = NoReply
  /\ NewSteering.coefs = Original /\ NewSteering.revision = 0 /\ NewSteering.after = 0
  /\ NoState.id = 0 /\ NoState.revision = 0 /\ NoState.after = 0 /\ NoState.coefs = Original
  /\ AtRest.at = "idle" /\ AtRest.state = NoState
BY DEF NewSlot, NewSteering, NoState, AtRest

(* A new slot at rest satisfies the handshake invariant.                    *)
LEMMA FreshInv ==
  ASSUME live = NewSlot, pc = "loop", tokens = 0, steer = NewSteering, livePending = 0,
         poll = AtRest, audit = NoState, promised = Original
  PROVE  HandshakeInv
<1>1. SlotInv
  BY FreshSlot DEF SlotInv, Generating, Asking, Ended
<1>2. StateInv
  BY FreshSlot DEF StateInv, Holding, Held, At
<1>3. AuditInv
  BY FreshSlot DEF AuditInv, Generating, Asking, Holding, Held, At, Follows, Same
<1>4. PromiseInv
  BY FreshSlot DEF PromiseInv, Generating, Asking, Holding, Held
<1> QED
  BY <1>1, <1>2, <1>3, <1>4 DEF HandshakeInv

(* The next job starts with it.                                             *)
LEMMA NextJobInv ==
  ASSUME NextJob
  PROVE  HandshakeInv'
<1>1. /\ live' = NewSlot /\ pc' = "loop" /\ tokens' = 0 /\ steer' = NewSteering
      /\ livePending' = 0 /\ poll' = AtRest /\ audit' = NoState /\ promised' = Original
  BY DEF NextJob
<1>2. SlotInv'
  BY <1>1, FreshSlot DEF SlotInv, Generating, Asking, Ended
<1>3. StateInv'
  BY <1>1, FreshSlot DEF StateInv, Holding, Held, At
<1>4. AuditInv'
  BY <1>1, FreshSlot DEF AuditInv, Generating, Asking, Holding, Held, At, Follows, Same
<1>5. PromiseInv'
  BY <1>1, FreshSlot DEF PromiseInv, Generating, Asking, Holding, Held
<1> QED
  BY <1>2, <1>3, <1>4, <1>5 DEF HandshakeInv

(* Only as one do the four parts follow from each other.                    *)
THEOREM LiveInvariant == Spec => [](TypeInv /\ HandshakeInv)
<1>1. Init => HandshakeInv
  BY FreshInv DEF Init
<1>2. ASSUME TypeInv, HandshakeInv, [Next]_vars
      PROVE  HandshakeInv'
  <2>1. CASE Worker
    <3>1. SlotInv'
      BY <1>2, <2>1, WorkerSlot DEF HandshakeInv
    <3> QED
      BY <1>2, <2>1, <3>1, WorkerState, WorkerAudit, WorkerPromise DEF HandshakeInv
  <2>2. CASE Consumer
    BY <1>2, <2>2, ConsumerSlot, ConsumerState, ConsumerAudit, ConsumerPromise
       DEF HandshakeInv
  <2>3. CASE NextJob
    BY <2>3, NextJobInv
  <2>4. CASE UNCHANGED vars
    <3> USE <1>2, <2>4 DEF HandshakeInv, vars, control, worker, boundary, consumer
    <3>1. SlotInv'
      BY DEF SlotInv, Ended, Terminal
    <3>2. StateInv'
      BY DEF StateInv, Holding, At, Snapshot
    <3>3. AuditInv'
      BY DEF AuditInv, Holding, At, Follows, Same, Contract, Candidate
    <3>4. PromiseInv'
      BY DEF PromiseInv, Holding, Candidate
    <3> QED BY <3>1, <3>2, <3>3, <3>4
  <2> QED BY <1>2, <2>1, <2>2, <2>3, <2>4, NextSplit
<1> QED
  BY <1>1, <1>2, TypeInvariant, PTL DEF Spec

(* The sequence checks of publish_live, live_payload_state and              *)
(* ack_state_with_reply never refuse what the other side does.              *)
THEOREM LiveProtocolHeld == Spec => []ProtocolHeld
<1>1. TypeInv /\ HandshakeInv => ProtocolHeld
  <2> SUFFICES ASSUME TypeInv, HandshakeInv PROVE ProtocolHeld
    OBVIOUS
  <2> USE DEF HandshakeInv, At
  <2>1. pc = "observe" /\ ~cancelled => InSequence
    BY DEF SlotInv, InSequence, Generating, Terminal
  <2>2. At("streamed") /\ StateDue => Contract(poll.state)
    BY DEF AuditInv, StateDue, Holding, Held
  <2>3. At("onState") => AckMatches(poll.state.id)
    BY DEF StateInv, SlotInv, AckMatches, Holding, Held
  <2> QED BY <2>1, <2>2, <2>3 DEF ProtocolHeld
<1> QED
  BY <1>1, LiveInvariant, PTL

(* on_state sees the coefficients of all replies accepted so far, and they  *)
(* are installed whenever a token is decoded.                               *)
THEOREM LiveRepliesTakeEffect == Spec => []RepliesTakeEffect
<1>1. HandshakeInv /\ AdapterInv => RepliesTakeEffect
  BY DEF HandshakeInv, StateInv, PromiseInv, AdapterInv, RepliesTakeEffect, Holding, Held, At,
         Generating, Asking
<1> QED
  BY <1>1, LiveInvariant, AdapterInvariant, PTL

-----------------------------------------------------------------------------
(***************************************************************************)
(* The queue.                                                              *)
(***************************************************************************)
(* All rows are of the token answered last, and R is not asked for a token  *)
(* before it has them.                                                      *)
QueueInv ==
  /\ \A i \in 1 .. Len(rows) : rows[i].token = Answered
  /\ live.drained => rows = <<>>

(* The worker keeps the rows of a token in front of its state.              *)
LEMMA WorkerQueue ==
  ASSUME TypeInv, HandshakeInv, QueueInv, Worker
  PROVE  QueueInv'
<1>1. UNCHANGED cancelled
  BY WorkerFrame
<1>2. SlotInv /\ rows \in Seq(Row)
  BY DEF HandshakeInv, TypeInv, TypeOK
<1>3. Answered' = Answered /\ (live'.drained => live.drained)
  <2> USE <1>2, SlotFields DEF Answered
  <2>1. CASE Published
    BY <2>1 DEF Published, SlotInv, Generating
  <2>2. CASE ~Published
    <3>1. live'.outstanding = live.outstanding /\ live'.nextId = live.nextId
          /\ live'.drained = live.drained
      BY <2>2, WorkerEffect DEF Quiet, NewToken, Understood, Installed, Gone
    <3> QED BY <3>1
  <2> QED BY <2>1, <2>2
<1>4. ASSUME NEW kind \in Kinds, rows' = Append(rows, [kind |-> kind, token |-> tokens]),
             live.outstanding = 0, live.nextId = tokens + 1
      PROVE  QueueInv'
  <2>1. Answered = tokens /\ ~live.drained
    BY <1>2, <1>4, SlotFields DEF Answered, SlotInv
  <2>2. Len(rows') = Len(rows) + 1 /\ Len(rows) \in Nat
    BY <1>2, <1>4
  <2>3. \A i \in 1 .. Len(rows') : rows'[i].token = tokens
    <3> TAKE i \in 1 .. Len(rows')
    <3>1. CASE i = Len(rows) + 1
      BY <1>2, <1>4, <2>2, <3>1
    <3>2. CASE i # Len(rows) + 1
      <4>1. i \in 1 .. Len(rows) /\ rows'[i] = rows[i]
        BY <1>2, <1>4, <2>2, <3>2
      <4> QED BY <2>1, <4>1 DEF QueueInv
    <3> QED BY <3>1, <3>2
  <2> QED BY <1>3, <2>1, <2>3 DEF QueueInv
<1>5. ASSUME UNCHANGED rows PROVE QueueInv'
  BY <1>3, <1>5 DEF QueueInv
<1>6. ASSUME rows' = <<>> PROVE QueueInv'
  <2>1. Len(rows') = 0
    BY <1>6
  <2> QED BY <1>6, <2>1 DEF QueueInv
<1>7. CASE StreamToken \/ StreamText
  <2>1. \/ UNCHANGED rows
        \/ \E kind \in Kinds : rows' = Append(rows, [kind |-> kind, token |-> tokens])
    BY <1>7 DEF StreamToken, StreamText, Enqueue, Kinds
  <2>2. live.outstanding = 0 /\ live.nextId = tokens + 1
    BY <1>2, <1>7 DEF StreamToken, StreamText, SlotInv, Generating
  <2> QED BY <1>4, <1>5, <2>1, <2>2
<1>8. CASE Ending
  <2>1. UNCHANGED rows \/ rows' = Append(rows, [kind |-> "text", token |-> tokens])
    BY <1>8 DEF Ending
  <2>2. live.outstanding = 0 /\ live.nextId = tokens + 1
    BY <1>2, <1>8 DEF Ending, SlotInv, Generating
  <2> QED BY <1>4, <1>5, <2>1, <2>2 DEF Kinds
<1>9. CASE PromptEnd
  <2>1. UNCHANGED rows \/ rows' = Append(rows, [kind |-> "prompt_end", token |-> tokens])
    BY <1>9 DEF PromptEnd
  <2>2. live.outstanding = 0 /\ live.nextId = tokens + 1
    BY <1>2, <1>9 DEF PromptEnd, SlotInv, Ended
  <2> QED BY <1>4, <1>5, <2>1, <2>2 DEF Kinds
<1>10. CASE Publish
  BY <1>5, <1>6, <1>10 DEF Publish
<1>11. CASE ~(StreamToken \/ StreamText \/ Ending \/ PromptEnd \/ Publish)
  <2>1. UNCHANGED rows
    BY <1>11 DEF Worker, Loop, Sample, Sampled, PublishLive, AwaitReply, ApplyReply, Command,
                 Advance, Decode, NativeFails, Restore, WorkerReturn, control
  <2> QED BY <1>5, <2>1
<1> QED
  BY <1>7, <1>8, <1>9, <1>10, <1>11

(* Drains keep the rows of a token in front of its state.                   *)
LEMMA ConsumerQueue ==
  ASSUME TypeInv, HandshakeInv, QueueInv, Consumer
  PROVE  QueueInv'
<1>1. rows \in Seq(Row) /\ SlotInv
  BY DEF HandshakeInv, TypeInv, TypeOK
<1>2. CASE DrainStream
  <2>1. PICK n : /\ n = Least(Len(rows), BatchRows)
                 /\ rows' = SubSeq(rows, n + 1, Len(rows)) /\ UNCHANGED live
    BY <1>2 DEF DrainStream
  <2>2. n \in Nat /\ n <= Len(rows) /\ Len(rows) \in Nat
    BY <1>1, <2>1, LiveAssumption DEF Least
  <2>3. /\ Len(rows') = Len(rows) - n
        /\ \A i \in 1 .. Len(rows') : rows'[i] = rows[i + n] /\ i + n \in 1 .. Len(rows)
    <3>1. rows' = [i \in 1 .. (Len(rows) - n) |-> rows[i + n]]
      BY <1>1, <2>1, <2>2
    <3>2. Len(rows') = Len(rows) - n
      BY <2>2, <3>1
    <3> QED BY <2>2, <3>1, <3>2
  <2>4. rows = <<>> => rows' = <<>>
    <3> HAVE rows = <<>>
    <3>1. Len(rows) = 0
      OBVIOUS
    <3>2. Len(rows') = 0 /\ rows' \in Seq(Row)
      BY <2>2, <2>3, <3>1, ConsumerQueueType DEF TypeInv
    <3> QED BY <3>2
  <2>5. Answered' = Answered
    BY <2>1 DEF Answered
  <2>6. \A i \in 1 .. Len(rows') : rows'[i].token = Answered'
    BY <2>3, <2>5 DEF QueueInv
  <2> QED BY <2>1, <2>4, <2>6 DEF QueueInv
<1>3. CASE StateAnswered \/ DrainState
  <2>1. UNCHANGED rows
    BY <1>3 DEF StateAnswered, DrainState
  <2>2. CASE Taken
    BY <2>1, <2>2, SlotFields DEF Taken, Deliverable, QueueInv, Answered
  <2>3. CASE Acknowledged
    <3>1. PICK r \in Replies : AckState(r)
      BY <2>3 DEF Acknowledged
    <3>2. rows' = <<>> /\ ~live'.drained
      BY <2>1, <2>3, <3>1, AckFields DEF Acknowledged, AckMatches, QueueInv
    <3>3. Len(rows') = 0
      BY <3>2
    <3> QED BY <3>2, <3>3 DEF QueueInv
  <2>4. CASE Observed
    BY <2>1, <2>4 DEF Observed, QueueInv, Answered
  <2>5. CASE Other
    BY <2>1, <2>5, SlotFields DEF Other, QueueInv, Answered
  <2> QED BY <2>2, <2>3, <2>4, <2>5, ConsumerEffect
<1>4. CASE ~(DrainStream \/ StateAnswered \/ DrainState)
  <2>1. UNCHANGED live \/ live' = [live EXCEPT !.discarded = TRUE]
    BY <1>4, ConsumerSlotFrame
  <2>2. UNCHANGED rows \/ rows' = <<>>
    <3> USE DEF control, worker, consumer, ConsumerFailure, DiscardStream
    <3>1. CASE CollectFinished \/ Collect \/ DrainContended
      BY <3>1 DEF CollectFinished, Collect, DrainContended
    <3>2. CASE NoStateTaken \/ BatchUnconverted \/ StateUnconverted \/ DeliverBatch \/ BatchTaken
      BY <3>2 DEF NoStateTaken, BatchUnconverted, StateUnconverted, DeliverBatch, BatchTaken
    <3>3. CASE BatchFails \/ AckStream \/ DeliverState \/ PollAgain
      BY <3>3 DEF BatchFails, AckStream, DeliverState, PollAgain
    <3>4. CASE StateNotAnswered \/ StateFails \/ Shutdown \/ Join \/ LlmCancel \/ Close
      BY <3>4 DEF StateNotAnswered, StateFails, Shutdown, Join, LlmCancel, Close
    <3> QED
      BY <1>4, <3>1, <3>2, <3>3, <3>4 DEF Consumer, MainThread
  <2>3. UNCHANGED Answered /\ live'.drained = live.drained
    BY <2>1, SlotFields DEF Answered
  <2>4. CASE UNCHANGED rows
    BY <2>3, <2>4 DEF QueueInv
  <2>5. CASE rows' = <<>>
    <3>1. Len(rows') = 0
      BY <2>5
    <3> QED BY <2>5, <3>1 DEF QueueInv
  <2> QED BY <2>2, <2>4, <2>5
<1> QED
  BY <1>2, <1>3, <1>4

(* The handshake with its queue.                                            *)
LEMMA QueueInvariant == Spec => [](TypeInv /\ HandshakeInv /\ QueueInv)
<1>1. Init => QueueInv
  <2> SUFFICES ASSUME Init PROVE QueueInv
    OBVIOUS
  <2>1. rows = <<>> /\ Len(rows) = 0
    BY DEF Init
  <2> QED BY <2>1 DEF QueueInv
<1>2. ASSUME TypeInv, HandshakeInv, QueueInv, [Next]_vars
      PROVE  QueueInv'
  <2>1. CASE NextJob
    <3>1. rows' = <<>> /\ live' = NewSlot
      BY <2>1 DEF NextJob
    <3>2. Len(rows') = 0
      BY <3>1
    <3> QED BY <3>1, <3>2, FreshSlot DEF QueueInv
  <2>2. CASE UNCHANGED vars
    BY <1>2, <2>2 DEF QueueInv, Answered, vars, control
  <2> QED BY <1>2, <2>1, <2>2, NextSplit, WorkerQueue, ConsumerQueue
<1> QED
  BY <1>1, <1>2, LiveInvariant, PTL DEF Spec

(* on_state of a token waits for the rows of the token before, so the queue *)
(* never has rows of two tokens, and its space is never what a live job     *)
(* waits for.                                                               *)
THEOREM LiveOneTokenQueued == Spec => []OneTokenQueued
<1>1. QueueInv => OneTokenQueued
  BY DEF QueueInv, OneTokenQueued
<1> QED
  BY <1>1, QueueInvariant, PTL

-----------------------------------------------------------------------------
(***************************************************************************)
(* The handshake implements LiveTurn.                                      *)
(***************************************************************************)
(* R knows of every cancellation, so it answers no state of a generation    *)
(* that is over.                                                            *)
CancelInv ==
  cancelled => cancelRequested \/ closed \/ failure \/ poll.at \in {"joining", "settled"}

(* Cancelling wakes the worker on every path.                               *)
LEMMA ConsumerCancel ==
  ASSUME TypeInv, CancelInv, Consumer
  PROVE  CancelInv'
<1>1. poll \in Polls
  BY DEF TypeInv, TypeOK, Polls
<1>2. \A place \in PollPlaces : [poll EXCEPT !.at = place].at = place
  BY <1>1, PlaceTyped
<1> USE <1>2 DEF CancelInv, At, ToPlace, PollPlaces, control, boundary, consumer
<1>3. CASE CollectFinished \/ AckStream \/ Join
  <2>1. [AtRest EXCEPT !.at = "settled"].at = "settled"
    BY <1>1, PlaceTyped
  <2> QED BY <1>3, <2>1 DEF CollectFinished, AckStream, Join, Finish
<1>4. CASE LlmCancel \/ Close \/ BatchUnconverted \/ BatchFails \/ StateFails
  BY <1>4 DEF LlmCancel, Close, BatchUnconverted, BatchFails, StateFails, ConsumerFailure,
              DiscardStream
<1>5. CASE Shutdown
  BY <1>5 DEF Shutdown
<1>6. CASE Collect \/ DrainStream \/ DrainContended \/ DrainState \/ NoStateTaken
  BY <1>6 DEF Collect, DrainStream, DrainContended, DrainState, NoStateTaken
<1>7. CASE StateUnconverted \/ DeliverBatch \/ BatchTaken \/ DeliverState \/ PollAgain
  BY <1>7 DEF StateUnconverted, DeliverBatch, BatchTaken, DeliverState, PollAgain
<1>8. CASE StateAnswered \/ StateNotAnswered
  BY <1>8 DEF StateAnswered, StateNotAnswered
<1> QED
  BY <1>3, <1>4, <1>5, <1>6, <1>7, <1>8 DEF Consumer, MainThread

(* A cancelled or discarded worker is never parked.                         *)
LEMMA CancelInvariant == Spec => []CancelInv
<1>1. Init => CancelInv
  BY DEF Init, CancelInv
<1>2. ASSUME TypeInv, CancelInv, [Next]_vars
      PROVE  CancelInv'
  <2>1. CASE Worker
    BY <1>2, <2>1, WorkerFrame DEF CancelInv, boundary, consumer
  <2>2. CASE NextJob
    BY <2>2 DEF NextJob, CancelInv
  <2>3. CASE UNCHANGED vars
    BY <1>2, <2>3 DEF CancelInv, vars, control, boundary, consumer
  <2> QED BY <1>2, <2>1, <2>2, <2>3, ConsumerCancel, NextSplit
<1> QED
  BY <1>1, <1>2, TypeInvariant, PTL DEF Spec

TurnVars == <<tokens, Asked, Answered, Effective, Over>>

(* A token is sampled when its predecessor is answered; all the other steps *)
(* of a generation are invisible to the turns.                              *)
LEMMA WorkerTurn ==
  ASSUME TypeInv, HandshakeInv, Worker
  PROVE  Turn!Next \/ UNCHANGED TurnVars
<1>1. SlotInv /\ PromiseInv /\ AuditInv
  BY DEF HandshakeInv
<1>2. steer.coefs \in Vectors /\ Overlay(steer.coefs, NoReply) = steer.coefs
  BY NothingReplied DEF TypeInv, TypeOK
<1>3. UNCHANGED <<steer, command>> => Candidate' = Candidate
  BY DEF Candidate
<1> USE <1>1, <1>2, <1>3, SlotFields DEF Generating, Plain, Asking
<1>4. CASE Quiet
  <2>1. UNCHANGED <<tokens, Asked, Answered, Over>>
    BY <1>4 DEF Quiet, Asked, Answered, Over
  <2>2. UNCHANGED Effective
    BY <1>4 DEF Quiet, Effective, Over
  <2> QED BY <2>1, <2>2 DEF TurnVars
<1>5. CASE NewToken
  <2>1. UNCHANGED <<Asked, Answered, Over, Effective>> /\ ~Over
    BY <1>5 DEF NewToken, Asked, Answered, Over, Effective
  <2>2. Answered = tokens
    BY <1>5 DEF NewToken, Answered, SlotInv
  <2> QED BY <1>5, <2>1, <2>2 DEF NewToken, Turn!Next, Turn!Sample
<1>6. CASE Published
  <2>1. live.nextId = tokens /\ live.outstanding = 0 /\ tokens # 0
    BY <1>6 DEF Published, InSequence
  <2>2. UNCHANGED <<tokens, Over, Answered, Asked>>
    BY <1>6, <2>1 DEF Published, Over, Answered, Asked
  <2>3. live.reply = NoReply /\ Effective = steer.coefs
    BY <1>6 DEF Published, PromiseInv, Effective, Over
  <2>4. Effective' = steer.coefs
    BY <1>6, <2>3 DEF Published, Effective, Over
  <2> QED BY <2>2, <2>3, <2>4 DEF TurnVars
<1>7. CASE Understood
  <2>1. UNCHANGED <<tokens, Over, Answered, Asked>>
    BY <1>7 DEF Understood, Over, Answered, Asked
  <2>2. Effective = Overlay(steer.coefs, live.reply)
    BY <1>7 DEF Understood, Effective, Over
  <2>3. Effective' = Overlay(steer.coefs, live.reply)
    BY <1>7 DEF Understood, Effective, Over, Candidate
  <2> QED BY <2>1, <2>2, <2>3 DEF TurnVars
<1>8. CASE Installed
  <2>1. UNCHANGED <<tokens, Over, Answered, Asked>>
    BY <1>8 DEF Installed, Over, Answered, Asked
  <2>2. Effective = Candidate /\ Effective' = Candidate
    BY <1>8 DEF Installed, Effective, Over, Applied
  <2> QED BY <2>1, <2>2 DEF TurnVars
<1>9. CASE Gone
  <2>1. UNCHANGED <<tokens, Answered, Asked>> /\ Over' /\ Effective' = Original
    BY <1>9 DEF Gone, Over, Answered, Asked, Effective
  <2>2. CASE Over
    BY <2>1, <2>2 DEF TurnVars, Effective, Over
  <2>3. CASE ~Over
    BY <2>1, <2>3 DEF Turn!Next, Turn!End, Over
  <2> QED BY <2>2, <2>3
<1> QED
  BY <1>4, <1>5, <1>6, <1>7, <1>8, <1>9, WorkerEffect

(* A poll takes a state that is not taken yet, and answers only one that    *)
(* the worker waits for.                                                    *)
LEMMA ConsumerTurn ==
  ASSUME TypeInv, HandshakeInv, CancelInv, Consumer
  PROVE  Turn!Next \/ UNCHANGED TurnVars
<1>1. SlotInv /\ StateInv /\ PromiseInv
  BY DEF HandshakeInv
<1>2. UNCHANGED <<pc, tokens, steer, command>>
  BY ConsumerFrame
<1>3. UNCHANGED Over /\ Candidate' = Candidate
  BY <1>2 DEF Over, Candidate
<1>4. NoState.id = 0
  BY DEF NoState
<1>5. live'.reply = live.reply => Effective' = Effective
  BY <1>2, <1>3 DEF Effective
<1> USE <1>1, <1>2, <1>3, <1>4, SlotFields
<1>6. CASE Taken
  <2>1. /\ pc = "live" /\ ~live.drained /\ live.outstanding # 0
        /\ tokens = live.outstanding /\ live.nextId = tokens + 1 /\ tokens # 0
    BY <1>6 DEF Taken, StateInv, SlotInv, Snapshot, Asking
  <2>2. Answered = tokens - 1 /\ Asked = tokens - 1
    BY <2>1 DEF Answered, Asked
  <2>3. Answered' = tokens - 1 /\ Asked' = tokens
    <3>1. live'.outstanding = tokens /\ live'.nextId = tokens + 1 /\ live'.drained = TRUE
      BY <1>6, <2>1
    <3> QED BY <2>1, <3>1 DEF Answered, Asked
  <2>4. ~Over /\ Effective' = Effective
    BY <1>5, <1>6, <2>1 DEF Over, Generating
  <2> QED BY <2>2, <2>3, <2>4 DEF Turn!Next, Turn!Ask
<1>7. CASE Acknowledged
  <2>1. PICK r \in Replies : AckState(r)
    BY <1>7 DEF Acknowledged
  <2>2. live.drained /\ live.outstanding # 0 /\ ~closed /\ ~cancelRequested /\ ~failure
        /\ poll.at = "onState"
    BY <1>7 DEF Acknowledged, AckMatches, AckWithheld, SlotInv, StateInv, At
  <2>3. ~cancelled /\ pc = "live"
    BY <2>2 DEF CancelInv, SlotInv
  <2>4. /\ live'.outstanding = 0 /\ live'.nextId = live.nextId
        /\ live'.reply = r /\ live.reply = NoReply
    BY <2>1, <2>2, <2>3, AckFields DEF PromiseInv
  <2>5. /\ Answered = live.nextId - 2 /\ Asked = live.nextId - 1
        /\ Answered' = live.nextId - 1 /\ Asked' = live.nextId - 1
    BY <2>2, <2>4 DEF Answered, Asked
  <2>6. ~Over /\ Effective = Overlay(steer.coefs, NoReply) /\ Effective' = Overlay(steer.coefs, r)
    BY <2>3, <2>4 DEF Over, Effective, Generating
  <2>7. Effective' = Overlay(Effective, r)
    BY <2>6, NothingReplied DEF TypeInv, TypeOK
  <2>8. Answered < Asked /\ Answered' = Asked /\ Asked' = Asked
    BY <2>5
  <2>9. Over' = Over /\ tokens' = tokens
    BY <1>2, <1>3
  <2>10. Turn!Replies = Replies /\ Turn!Overlay(Effective, r) = Overlay(Effective, r)
    BY DEF Turn!Replies, Replies, Turn!Overlay, Overlay
  <2>11. Turn!Answer
    BY <2>6, <2>7, <2>8, <2>9, <2>10 DEF Turn!Answer
  <2> QED BY <2>11 DEF Turn!Next
<1>8. CASE Observed \/ Other
  <2>1. /\ live'.outstanding = live.outstanding /\ live'.nextId = live.nextId
        /\ live'.drained = live.drained /\ live'.reply = live.reply
    BY <1>8 DEF Observed, Other
  <2> QED BY <1>5, <2>1 DEF TurnVars, Answered, Asked
<1> QED
  BY <1>6, <1>7, <1>8, ConsumerEffect

(* The worker and the callback take turns: every sampled token has one      *)
(* state, asked and answered before the next token, and the answers         *)
(* accumulate in the coefficients until the generation ends.                *)
THEOREM LiveImplementsTurn == Spec => ImplementsTurn
<1>1. Init => Turn!Init
  BY FreshSlot DEF Init, Turn!Init, Asked, Answered, Effective, Over, Generating
<1>2. ASSUME TypeInv, HandshakeInv, CancelInv, SettledInv, [Next]_vars
      PROVE  [Turn!Next]_Turn!vars
  <2> USE DEF TurnVars, Turn!vars
  <2>1. CASE Worker
    BY <1>2, <2>1, WorkerTurn
  <2>2. CASE Consumer
    BY <1>2, <2>2, ConsumerTurn
  <2>3. CASE NextJob
    <3>1. Over
      BY <1>2, <2>3 DEF NextJob, SettledInv, Over, Generating
    <3>2. /\ tokens' = 0 /\ Asked' = 0 /\ Answered' = 0
          /\ Effective' = Original /\ Over' = FALSE
      BY <2>3, FreshSlot DEF NextJob, Asked, Answered, Effective, Over, Generating
    <3> QED BY <3>1, <3>2 DEF Turn!Next, Turn!Again
  <2>4. CASE UNCHANGED vars
    BY <2>4
       DEF vars, control, worker, Asked, Answered, Effective, Over, Candidate
  <2> QED BY <1>2, <2>1, <2>2, <2>3, <2>4, NextSplit
<1> QED
  BY <1>1, <1>2, LiveInvariant, CancelInvariant, AdapterInvariant, PTL
     DEF Spec, ImplementsTurn, Turn!Spec

-----------------------------------------------------------------------------
(* Delivery: the order of rows and states that the callbacks of a live job  *)
(* see, and what its success means.                                         *)

(* The worker has queued the rows of the token answered last.               *)
Leaving == {"restore", "closing", "publish", "returned", "finished"}
Emitted ==
  \/ pc \in {"loop", "sample", "sampled", "observe", "text", "decode", "ending"}
  \/ pc = "live" /\ live.outstanding # 0
  \/ pc \in Leaving /\ outcome = "ok"

(* What a job that is abandoned keeps for nobody, and who abandoned it: R,  *)
(* its user, the worker's failure or the emergency shutdown.                *)
AbandonInv ==
  /\ failure \/ abandoned => live.discarded
  /\ closed => live.discarded \/ At("settled")
  /\ live.discarded => \/ failure \/ closed \/ (Terminal /\ outcome # "ok")
                       \/ poll.at \in {"joining", "settled"}
  /\ abandoned => failure \/ closed

(* A generation that returned without an error is complete, and the last    *)
(* rows of a job are only waited for after that.                            *)
SuccessInv ==
  /\ pc \in Leaving /\ outcome = "ok" =>
       live.outstanding = 0 /\ live.nextId = tokens + 1 /\ audit.id = tokens
  /\ Terminal /\ outcome = "ok" => ~cancelled
  /\ poll.ready => pc = "finished" /\ outcome = "ok" /\ streaming
  /\ ~streaming => rows = <<>>
  /\ verdict = "resolved" => At("settled") /\ SuccessIsComplete

(* The token of the last row that the poll has taken from the queue, where  *)
(* it stands.                                                               *)
Carried == poll.at \in {"drainState", "batch"} /\ poll.batch # <<>>
Reached == IF Carried THEN poll.batch[Len(poll.batch)].token ELSE seen

(* An empty queue is one whose rows the poll has taken; a state is taken    *)
(* after the rows of the tokens before it.                                  *)
OrderInv ==
  /\ At("drain") => poll.batch = <<>>
  /\ /\ streaming /\ ~live.discarded /\ Emitted /\ rows = <<>>
     /\ poll.at \notin {"lost", "joining", "settled"}
     => Reached = Answered
  /\ streaming /\ Holding /\ ~failure /\ ~closed => Reached = poll.state.id - 1
  /\ streaming /\ At("onState") => seen = poll.state.id - 1

DeliveryInv == AbandonInv /\ SuccessInv /\ OrderInv

-----------------------------------------------------------------------------
(* The fields of a poll that moves on, and of one that starts again.        *)
LEMMA PollFields ==
  ASSUME TypeInv
  PROVE  /\ poll \in Polls /\ rows \in Seq(Row)
         /\ \A place \in PollPlaces :
              /\ [poll EXCEPT !.at = place].at = place
              /\ [poll EXCEPT !.at = place].batch = poll.batch
              /\ [poll EXCEPT !.at = place].ready = poll.ready
              /\ [poll EXCEPT !.at = place].state = poll.state
              /\ [AtRest EXCEPT !.at = place].at = place
              /\ [AtRest EXCEPT !.at = place].batch = <<>>
              /\ [AtRest EXCEPT !.at = place].ready = FALSE
              /\ [AtRest EXCEPT !.at = place].state.id = 0
         /\ AtRest.at = "idle" /\ AtRest.batch = <<>> /\ AtRest.ready = FALSE
         /\ AtRest.state.id = 0
BY DEF TypeInv, TypeOK, Polls, AtRest, PollPlaces, NoState

(* A poll that has settled its promise takes no further step.               *)
LEMMA SettledStays == Consumer => ~At("settled")
BY DEF Consumer, MainThread, CollectFinished, Collect, DrainStream, DrainContended, DrainState,
       NoStateTaken, BatchUnconverted, StateUnconverted, DeliverBatch, BatchTaken, BatchFails,
       AckStream, DeliverState, PollAgain, StateAnswered, StateNotAnswered, StateFails,
       Shutdown, Join, LlmCancel, Close, UserCode, At

(* An emergency shutdown has only the worker to wait for.                   *)
LEMMA JoiningEnds == ASSUME TypeInv, Consumer, At("joining") PROVE poll'.at = "settled"
<1>1. Join
  BY DEF Consumer, MainThread, CollectFinished, Collect, DrainStream, DrainContended, DrainState,
       NoStateTaken, BatchUnconverted, StateUnconverted, DeliverBatch, BatchTaken, BatchFails,
       AckStream, DeliverState, PollAgain, StateAnswered, StateNotAnswered, StateFails,
       Shutdown, Join, LlmCancel, Close, UserCode, At
<1> QED
  BY <1>1, PollFields DEF Join, PollPlaces

(* Only giving up changes who gave up.                                      *)
GivesUp ==
  /\ abandoned' /\ (failure' \/ closed') /\ (failure => failure') /\ (closed => closed')
  /\ live' = [live EXCEPT !.discarded = TRUE]

(* A consumer's step gives up, leaves what was given up alone, or settles.  *)
LEMMA ConsumerAbandons ==
  ASSUME TypeInv, AbandonInv, Consumer
  PROVE  \/ GivesUp
         \/ /\ UNCHANGED <<failure, abandoned, closed>> /\ poll'.at = "joining"
            /\ live' = [live EXCEPT !.discarded = TRUE]
         \/ UNCHANGED <<failure, abandoned, closed>> /\ live'.discarded = live.discarded
         \/ /\ UNCHANGED <<failure, abandoned>> /\ live'.discarded = live.discarded
            /\ poll'.at = "settled" /\ (closed => closed')
<1> USE PollFields DEF PollPlaces, ToPlace, At, control, worker, boundary, consumer
<1>1. live \in Slot
  BY DEF TypeInv, TypeOK, Slot
<1>2. CASE BatchUnconverted \/ BatchFails \/ StateFails
  <2>1. ConsumerFailure /\ UNCHANGED closed
    BY <1>2 DEF BatchUnconverted, BatchFails, StateFails
  <2> QED BY <1>1, <2>1 DEF ConsumerFailure, DiscardStream, GivesUp
<1>3. CASE Close
  BY <1>3 DEF Close, DiscardStream, GivesUp
<1>4. CASE CollectFinished \/ Join
  BY <1>4 DEF CollectFinished, Join, Finish
<1>5. CASE AckStream
  BY <1>5 DEF AckStream, Finish
<1>6. CASE DrainState
  <2>1. live' \in {live, [live EXCEPT !.pending = NoState, !.drained = TRUE]}
    BY <1>6 DEF DrainState
  <2> QED BY <1>1, <1>6, <2>1 DEF DrainState, Slot
<1>7. CASE StateAnswered
  <2>1. \/ UNCHANGED live
        \/ \E r \in Replies : AckState(r)
    BY <1>7 DEF StateAnswered
  <2>2. live'.discarded = live.discarded
    BY <2>1, AckFields
  <2> QED BY <1>7, <2>2 DEF StateAnswered
<1>8. CASE Collect \/ DrainStream \/ DrainContended \/ NoStateTaken \/ StateUnconverted
  BY <1>8 DEF Collect, DrainStream, DrainContended, NoStateTaken, StateUnconverted
<1>9. CASE DeliverBatch \/ BatchTaken \/ DeliverState \/ PollAgain
  BY <1>9 DEF DeliverBatch, BatchTaken, DeliverState, PollAgain
<1>10. CASE StateNotAnswered \/ LlmCancel
  BY <1>10 DEF StateNotAnswered, LlmCancel
<1>11. CASE Shutdown
  BY <1>11 DEF Shutdown, DiscardStream
<1> QED
  BY <1>2, <1>3, <1>4, <1>5, <1>6, <1>7, <1>8, <1>9, <1>10, <1>11 DEF Consumer, MainThread

(* Whoever gives up has closed the stream or failed: no step breaks this.   *)
LEMMA AbandonStep ==
  ASSUME TypeInv, AbandonInv, [Next]_vars
  PROVE  AbandonInv'
<1>1. live \in Slot
  BY DEF TypeInv, TypeOK, Slot
<1>2. CASE Worker
  <2>1. UNCHANGED <<failure, abandoned, closed, poll>>
    BY <1>2, WorkerFrame DEF boundary, consumer
  <2>2. CASE Publish
    <3>1. \/ UNCHANGED live
          \/ live'.discarded /\ outcome' # "ok"
      BY <1>1, <2>2 DEF Publish, Slot
    <3> QED BY <2>1, <2>2, <3>1 DEF AbandonInv, Publish, Terminal, At
  <2>3. CASE ~Publish
    <3>1. live'.discarded = live.discarded
      BY <1>1, <1>2, <2>3
         DEF Worker, Loop, Sample, Sampled, PublishLive, AwaitReply, ApplyReply, Command,
             Advance, StreamToken, StreamText, Decode, NativeFails, Ending, Restore,
             PromptEnd, WorkerReturn, control, Slot
    <3>2. Terminal /\ outcome # "ok" => Terminal' /\ outcome' # "ok"
      BY <1>2, <2>3
         DEF Worker, Loop, Sample, Sampled, PublishLive, AwaitReply, ApplyReply, Command,
             Advance, StreamToken, StreamText, Decode, NativeFails, Ending, Restore,
             PromptEnd, WorkerReturn, Generating, Terminal
    <3> QED BY <2>1, <3>1, <3>2 DEF AbandonInv, At
  <2> QED BY <2>2, <2>3
<1>3. CASE Consumer
  <2>1. /\ ~At("settled") /\ UNCHANGED <<pc, outcome>>
        /\ At("joining") => poll'.at = "settled"
    BY <1>3, SettledStays, ConsumerFrame, JoiningEnds
  <2>2. CASE GivesUp
    <3>1. live'.discarded
      BY <1>1, <2>2 DEF GivesUp, Slot
    <3> QED BY <2>2, <3>1 DEF AbandonInv, GivesUp
  <2>5. CASE /\ UNCHANGED <<failure, abandoned, closed>> /\ poll'.at = "joining"
             /\ live' = [live EXCEPT !.discarded = TRUE]
    <3>1. live'.discarded
      BY <1>1, <2>5 DEF Slot
    <3> QED BY <2>1, <2>5, <3>1 DEF AbandonInv, At
  <2>3. CASE /\ UNCHANGED <<failure, abandoned, closed>>
             /\ live'.discarded = live.discarded
    BY <2>1, <2>3 DEF AbandonInv, Terminal, At
  <2>4. CASE /\ UNCHANGED <<failure, abandoned>>
             /\ live'.discarded = live.discarded
             /\ poll'.at = "settled" /\ (closed => closed')
    BY <2>1, <2>4, <1>3 DEF AbandonInv, Terminal, At
  <2> QED BY <1>3, <2>2, <2>3, <2>4, <2>5, ConsumerAbandons
<1>4. CASE NextJob
  BY <1>4, FreshSlot DEF NextJob, AbandonInv
<1>5. CASE UNCHANGED vars
  BY <1>5 DEF AbandonInv, At, Terminal, vars, control, worker, boundary, consumer
<1> QED
  BY <1>2, <1>3, <1>4, <1>5, NextSplit

-----------------------------------------------------------------------------
(* What a step of the worker does to the queue and to its own account of it.*)
LEMMA WorkerEmits ==
  ASSUME TypeInv, HandshakeInv, Worker
  PROVE  /\ Answered' = Answered
         /\ \/ live'.discarded \/ rows' # <<>> \/ ~streaming
            \/ UNCHANGED rows /\ (Emitted' => Emitted)
         /\ live.discarded => live'.discarded
         /\ ~streaming => rows' \in {rows, <<>>}
<1>1. SlotInv /\ live \in Slot /\ rows \in Seq(Row)
  BY DEF HandshakeInv, TypeInv, TypeOK, Slot
<1>2. Answered' = Answered
  <2> USE <1>1, SlotFields DEF Answered
  <2>1. CASE Published
    BY <2>1 DEF Published, SlotInv, Generating
  <2>2. CASE ~Published
    <3>1. live'.outstanding = live.outstanding /\ live'.nextId = live.nextId
      BY <2>2, WorkerEffect DEF Quiet, NewToken, Understood, Installed, Gone
    <3> QED BY <3>1
  <2> QED BY <2>1, <2>2
<1>3. \A kind : Append(rows, [kind |-> kind, token |-> tokens]) # <<>>
  <2> SUFFICES ASSUME NEW kind PROVE Append(rows, [kind |-> kind, token |-> tokens]) # <<>>
    OBVIOUS
  <2>1. Len(Append(rows, [kind |-> kind, token |-> tokens])) = Len(rows) + 1 /\ Len(rows) \in Nat
    BY <1>1
  <2>2. Len(<<>>) = 0
    OBVIOUS
  <2> QED BY <2>1, <2>2
<1> USE <1>1, <1>2, <1>3
    DEF Emitted, Leaving, Return, Goto, Checkpoint, control, Generating
<1>4. CASE StreamToken \/ StreamText
  <2>1. UNCHANGED live /\ UNCHANGED streaming
    BY <1>4 DEF StreamToken, StreamText
  <2>2. \/ ~streaming /\ UNCHANGED rows
        \/ streaming /\ \E kind \in Kinds : rows' = Append(rows, [kind |-> kind, token |-> tokens])
        \/ pc = "text" /\ UNCHANGED rows
        \/ outcome' = "cancelled" /\ pc' = "restore" /\ UNCHANGED rows
    BY <1>4 DEF StreamToken, StreamText, Enqueue, Kinds
  <2> QED BY <2>1, <2>2
<1>5. CASE Ending \/ PromptEnd
  BY <1>5 DEF Ending, PromptEnd
<1>6. CASE Publish
  <2>1. \/ UNCHANGED <<live, rows>> /\ outcome' = "ok" /\ outcome = "ok"
        \/ rows' = <<>> /\ live' = [live EXCEPT !.pending = NoState, !.reply = NoReply, !.discarded = TRUE]
    BY <1>6 DEF Publish, Result
  <2>2. pc = "publish" /\ pc' = "returned"
    BY <1>6 DEF Publish
  <2> QED BY <2>1, <2>2 DEF Slot
<1>7. CASE PublishLive
  <2>1. /\ pc = "observe" /\ UNCHANGED rows
        /\ \/ UNCHANGED live
           \/ live' = [live EXCEPT !.pending = Snapshot, !.outstanding = tokens,
                                        !.drained = FALSE, !.nextId = tokens + 1]
    BY <1>7 DEF PublishLive
  <2> QED BY <2>1 DEF Slot
<1>8. CASE AwaitReply
  <2>1. /\ pc = "live" /\ UNCHANGED rows
        /\ \/ live' = [live EXCEPT !.pending = NoState, !.reply = NoReply]
              /\ pc' = "restore" /\ outcome' = "cancelled"
           \/ live' = [live EXCEPT !.reply = NoReply] /\ pc' = "apply"
           \/ UNCHANGED <<live, pc>>
    BY <1>8 DEF AwaitReply
  <2> QED BY <2>1 DEF Slot
<1>9. CASE Loop \/ Sample \/ Sampled \/ Decode
  BY <1>9 DEF Loop, Sample, Sampled, Decode
<1>10. CASE ApplyReply \/ Command \/ Advance
  BY <1>10 DEF ApplyReply, Command, Advance
<1>11. CASE NativeFails \/ Restore \/ WorkerReturn
  BY <1>11 DEF NativeFails, Restore, WorkerReturn
<1> QED
  BY <1>4, <1>5, <1>6, <1>7, <1>8, <1>9, <1>10, <1>11 DEF Worker

(* The worker produces its events in order.                                 *)
LEMMA WorkerOrder ==
  ASSUME TypeInv, HandshakeInv, OrderInv, Worker
  PROVE  OrderInv'
<1>1. UNCHANGED <<streaming, poll, seen, failure, closed>>
  BY WorkerFrame DEF boundary, consumer
<1>2. UNCHANGED <<At("drain"), At("onState"), Holding, Reached>>
  BY <1>1 DEF At, Holding, Reached, Carried
<1>3. CASE live'.discarded \/ rows' # <<>> \/ ~streaming
  BY <1>1, <1>2, <1>3 DEF OrderInv
<1>4. CASE UNCHANGED rows /\ (Emitted' => Emitted)
  BY <1>1, <1>2, <1>4, WorkerEmits DEF OrderInv
<1> QED
  BY <1>3, <1>4, WorkerEmits

(* The worker succeeds only after its last token, uncancelled.              *)
LEMMA WorkerSuccess ==
  ASSUME TypeInv, HandshakeInv, SettledInv, SuccessInv, Worker
  PROVE  SuccessInv'
<1>1. UNCHANGED <<streaming, cancelled, poll, audit, verdict>> /\ pc # "finished"
  BY WorkerFrame, WorkerRuns DEF consumer
<1>2. ~poll.ready /\ verdict # "resolved"
  BY <1>1 DEF SuccessInv, SettledInv, At
<1>3. ~streaming => rows' = <<>>
  BY WorkerEmits DEF SuccessInv
<1>4. pc' \in Leaving /\ outcome' = "ok" => UNCHANGED live /\ UNCHANGED tokens
  BY DEF Worker, Loop, Sample, Sampled, PublishLive, AwaitReply, ApplyReply, Command, Advance,
         StreamToken, StreamText, Decode, NativeFails, Ending, Restore, PromptEnd, Publish,
         WorkerReturn, Return, Goto, Checkpoint, Enqueue, Leaving, Generating, control
<1>5. pc' \in Leaving /\ outcome' = "ok" => pc = "ending" \/ (pc \in Leaving /\ outcome = "ok")
  BY DEF Worker, Loop, Sample, Sampled, PublishLive, AwaitReply, ApplyReply, Command, Advance,
         StreamToken, StreamText, Decode, NativeFails, Ending, Restore, PromptEnd, Publish,
         WorkerReturn, Return, Goto, Checkpoint, Enqueue, Leaving, Generating, Result
<1>6. pc = "ending" => live.outstanding = 0 /\ live.nextId = tokens + 1 /\ audit.id = tokens
  BY SlotFields DEF HandshakeInv, SlotInv, AuditInv, Generating, Asking
<1>7. Terminal' /\ outcome' = "ok" => ~cancelled
  BY DEF Worker, Loop, Sample, Sampled, PublishLive, AwaitReply, ApplyReply, Command, Advance,
         StreamToken, StreamText, Decode, NativeFails, Ending, Restore, PromptEnd, Publish,
         WorkerReturn, Return, Goto, Checkpoint, Enqueue, Generating, Result, Terminal, SuccessInv
<1> QED
  BY <1>1, <1>2, <1>3, <1>4, <1>5, <1>6, <1>7 DEF SuccessInv

-----------------------------------------------------------------------------
(* The step of the poll that settles a promise as resolved.                 *)
LEMMA ConsumerResolves ==
  ASSUME TypeInv, HandshakeInv, AbandonInv, SuccessInv, OrderInv, Consumer,
         verdict' = "resolved"
  PROVE  poll'.at = "settled" /\ SuccessIsComplete'
<1> USE PollFields DEF PollPlaces
<1>1. verdict # "resolved" /\ verdict' # verdict
  BY SettledStays DEF SuccessInv
<1>2. CollectFinished \/ AckStream \/ Join
  BY <1>1 DEF Consumer, MainThread, Collect, DrainStream, DrainContended, DrainState,
       NoStateTaken, BatchUnconverted, StateUnconverted, DeliverBatch, BatchTaken, BatchFails,
       DeliverState, PollAgain, StateAnswered, StateNotAnswered, StateFails,
       Shutdown, LlmCancel, Close, consumer
<1>3. Finish /\ (CollectFinished \/ (AckStream /\ rows = <<>>))
  <2>1. CASE CollectFinished
    BY <2>1 DEF CollectFinished
  <2>2. CASE AckStream
    BY <1>1, <2>2 DEF AckStream
  <2>3. CASE Join
    BY <1>1, <2>3 DEF Join
  <2> QED BY <1>2, <2>1, <2>2, <2>3
<1>4. poll'.at = "settled" /\ outcome = "ok" /\ ~failure /\ ~closed
  <2>1. outcome \in {"ok", "cancelled", "failed"}
    BY DEF TypeInv, TypeOK
  <2>2. outcome = "ok" /\ ~failure /\ ~closed'
    BY <1>1, <1>3, <2>1 DEF Finish
  <2> QED BY <1>3, <2>2 DEF Finish
<1>5. pc = "finished" /\ (~streaming \/ (AckStream /\ rows = <<>>))
  BY <1>3, <1>4 DEF CollectFinished, AckStream, AckStreamDue, NothingToDeliver, AbandonInv, SuccessInv
<1>6. /\ live.outstanding = 0 /\ audit.id = tokens /\ ~cancelled /\ rows = <<>>
      /\ live.nextId = tokens + 1
  BY <1>4, <1>5 DEF SuccessInv, Leaving, Terminal
<1>7. streaming => seen = tokens
  <2> HAVE streaming
  <2>1. AckStream /\ poll.at = "streamed"
    BY <1>5 DEF AckStream, At
  <2>2. ~live.discarded
    BY <1>4, <2>1 DEF AbandonInv
  <2>3. Emitted
    BY <1>4, <1>5 DEF Emitted, Leaving
  <2>4. Reached = Answered
    BY <1>6, <2>1, <2>2, <2>3 DEF OrderInv
  <2>5. Answered = tokens
    BY <1>6, SlotFields DEF Answered
  <2> QED BY <2>1, <2>4, <2>5 DEF Reached, Carried
<1>8. UNCHANGED <<control, worker, audit, failure, seen>>
  BY <1>3 DEF CollectFinished, AckStream
<1> QED
  BY <1>4, <1>6, <1>7, <1>8 DEF SuccessIsComplete, control, worker

(* A cancellation is accepted only before the result is published.          *)
LEMMA ConsumerCancels ==
  ASSUME Consumer
  PROVE  cancelled' => cancelled \/ ~Terminal
<1> USE DEF control, worker, boundary, consumer, ConsumerFailure, DiscardStream
<1>1. CASE CollectFinished \/ Collect \/ DrainStream \/ DrainContended \/ DrainState
  BY <1>1 DEF CollectFinished, Collect, DrainStream, DrainContended, DrainState
<1>2. CASE NoStateTaken \/ BatchUnconverted \/ StateUnconverted \/ DeliverBatch \/ BatchTaken
  BY <1>2 DEF NoStateTaken, BatchUnconverted, StateUnconverted, DeliverBatch, BatchTaken
<1>3. CASE BatchFails \/ AckStream \/ DeliverState \/ PollAgain \/ StateAnswered
  BY <1>3 DEF BatchFails, AckStream, DeliverState, PollAgain, StateAnswered
<1>4. CASE StateNotAnswered \/ StateFails \/ Shutdown \/ Join \/ LlmCancel \/ Close
  BY <1>4 DEF StateNotAnswered, StateFails, Shutdown, Join, LlmCancel, Close
<1> QED
  BY <1>1, <1>2, <1>3, <1>4 DEF Consumer, MainThread

(* Rows leave the queue from its front, or all at once.                     *)
LEMMA ConsumerRows ==
  ASSUME TypeInv, Consumer
  PROVE  \/ UNCHANGED rows
         \/ rows' = <<>> /\ live'.discarded
         \/ DrainStream
<1>1. live \in Slot
  BY DEF TypeInv, TypeOK, Slot
<1> USE <1>1 DEF control, worker, boundary, consumer, ConsumerFailure, DiscardStream, Slot
<1>2. CASE CollectFinished \/ Collect \/ DrainStream \/ DrainContended \/ DrainState
  BY <1>2 DEF CollectFinished, Collect, DrainContended, DrainState
<1>3. CASE NoStateTaken \/ BatchUnconverted \/ StateUnconverted \/ DeliverBatch \/ BatchTaken
  BY <1>3 DEF NoStateTaken, BatchUnconverted, StateUnconverted, DeliverBatch, BatchTaken
<1>4. CASE BatchFails \/ AckStream \/ DeliverState \/ PollAgain \/ StateAnswered
  BY <1>4 DEF BatchFails, AckStream, DeliverState, PollAgain, StateAnswered
<1>5. CASE StateNotAnswered \/ StateFails \/ Shutdown \/ Join \/ LlmCancel \/ Close
  BY <1>5 DEF StateNotAnswered, StateFails, Shutdown, Join, LlmCancel, Close
<1> QED
  BY <1>2, <1>3, <1>4, <1>5 DEF Consumer, MainThread

(* A drain of an empty queue is empty, and one that empties it takes all.   *)
LEMMA DrainEmpty ==
  ASSUME TypeInv, DrainStream
  PROVE  /\ rows = <<>> => rows' = <<>> /\ poll'.batch = <<>>
         /\ rows' = <<>> => poll'.batch = rows
<1>1. PICK n : /\ n = Least(Len(rows), BatchRows) /\ Batch(n)
               /\ rows' = SubSeq(rows, n + 1, Len(rows))
  BY DEF DrainStream
<1>2. rows \in Seq(Row) /\ Len(rows) \in Nat /\ n \in Nat /\ n <= Len(rows)
  BY <1>1, LiveAssumption DEF Least, TypeInv, TypeOK
<1>3. poll'.batch = SubSeq(rows, 1, n)
  BY <1>1, PollFields DEF Batch, Polls
<1>4. ASSUME rows = <<>> PROVE rows' = <<>> /\ poll'.batch = <<>>
  <2>1. Len(rows) = 0 /\ n = 0
    BY <1>2, <1>4
  <2>2. rows' \in Seq(Row) /\ Len(rows') = 0
    BY <1>1, <1>2, <2>1
  <2>3. poll'.batch \in Seq(Row) /\ Len(poll'.batch) = 0
    BY <1>2, <1>3, <2>1
  <2> QED BY <2>2, <2>3
<1>5. ASSUME rows' = <<>> PROVE poll'.batch = rows
  <2>1. Len(rows') = Len(rows) - n
    BY <1>1, <1>2
  <2>2. n = Len(rows)
    BY <1>2, <1>5, <2>1
  <2> QED BY <1>2, <1>3, <2>2
<1> QED
  BY <1>4, <1>5

(* A delivery is ready only when the worker has finished well.              *)
LEMMA ConsumerReady ==
  ASSUME TypeInv, AbandonInv, SuccessInv, Consumer
  PROVE  poll'.ready => pc = "finished" /\ outcome = "ok" /\ streaming
<1> USE PollFields DEF PollPlaces, ToPlace, consumer, SuccessInv
<1>1. CASE Collect
  <2>1. poll'.ready => pc = "finished"
    BY <1>1, NewTyped DEF Collect, Polls
  <2> QED BY <1>1, <2>1 DEF Collect, NothingToDeliver
<1>2. CASE DrainStream
  <2>1. PICK n : Batch(n)
    BY <1>2 DEF DrainStream
  <2>2. poll'.ready => poll.ready
    BY <2>1 DEF Batch, Polls
  <2> QED BY <2>2
<1>3. CASE DrainContended
  BY <1>3 DEF DrainContended, Polls
<1>4. CASE DrainState
  <2>1. poll' = [poll EXCEPT !.at = "batch", !.state = live.pending] \/ ToPlace("batch")
    BY <1>4 DEF DrainState
  <2>2. poll'.ready = poll.ready
    BY <2>1 DEF Polls
  <2> QED BY <2>2
<1>5. CASE CollectFinished \/ AckStream \/ Join
  <2>1. poll' = [AtRest EXCEPT !.at = "settled"] \/ ToPlace("lost")
    BY <1>5 DEF CollectFinished, AckStream, Join, Finish
  <2> QED BY <2>1, ZenonT(40)
<1>6. CASE ~(Collect \/ DrainStream \/ DrainContended \/ DrainState \/ CollectFinished
              \/ AckStream \/ Join)
  <2>1. \/ UNCHANGED poll
        \/ poll' = AtRest
        \/ \E place \in PollPlaces : poll' = [poll EXCEPT !.at = place]
    <3>1. CASE NoStateTaken \/ BatchUnconverted \/ StateUnconverted \/ DeliverBatch
      BY <3>1 DEF NoStateTaken, BatchUnconverted, StateUnconverted, DeliverBatch
    <3>2. CASE BatchTaken \/ BatchFails \/ DeliverState \/ PollAgain \/ StateAnswered
      BY <3>2 DEF BatchTaken, BatchFails, DeliverState, PollAgain, StateAnswered
    <3>3. CASE StateNotAnswered \/ StateFails \/ Shutdown \/ LlmCancel \/ Close
      BY <3>3 DEF StateNotAnswered, StateFails, Shutdown, LlmCancel, Close
    <3> QED
      BY <1>6, <3>1, <3>2, <3>3 DEF Consumer, MainThread
  <2>2. CASE UNCHANGED poll
    BY <2>2
  <2>3. CASE poll' = AtRest
    BY <2>3
  <2>4. ASSUME NEW place \in PollPlaces, poll' = [poll EXCEPT !.at = place]
        PROVE  poll'.ready => poll.ready
    BY <2>4, Zenon
  <2> QED BY <2>1, <2>2, <2>3, <2>4
<1> QED
  BY <1>1, <1>2, <1>3, <1>4, <1>5, <1>6

(* No step of the consumer resolves an incomplete generation.               *)
LEMMA ConsumerSuccess ==
  ASSUME TypeInv, HandshakeInv, AbandonInv, SuccessInv, OrderInv, Consumer
  PROVE  SuccessInv'
<1>1. UNCHANGED <<streaming, pc, tokens, outcome>>
  BY ConsumerFrame
<1>2. ASSUME pc \in Leaving, outcome = "ok"
      PROVE  live'.outstanding = 0 /\ live'.nextId = tokens + 1 /\ audit'.id = tokens
  <2>1. live.outstanding = 0 /\ live.nextId = tokens + 1 /\ audit.id = tokens /\ ~live.drained
    BY <1>2 DEF SuccessInv, HandshakeInv, SlotInv
  <2>2. livePending = 0 /\ ~Holding
    BY <2>1 DEF HandshakeInv, SlotInv, StateInv, Holding
  <2>3. ~Acknowledged
    BY <2>1, <2>2 DEF Acknowledged, AckMatches
  <2>4. ~Observed
    BY <2>2 DEF Observed, StateDue, Holding, Held, At
  <2>5. CASE Taken
    BY <2>1, <2>5, SlotFields DEF Taken
  <2>6. CASE Other
    BY <2>1, <2>6, SlotFields DEF Other
  <2> QED BY <2>3, <2>4, <2>5, <2>6, ConsumerEffect
<1>3. Terminal /\ outcome = "ok" => ~cancelled'
  BY ConsumerCancels DEF SuccessInv
<1>4. ~streaming => rows' = <<>>
  BY ConsumerRows, DrainEmpty DEF SuccessInv
<1> QED
  BY <1>1, <1>2, <1>3, <1>4, ConsumerReady, ConsumerResolves DEF SuccessInv, Terminal, At

-----------------------------------------------------------------------------
(* An acknowledgement is for the token that the worker waits for, and has   *)
(* no row yet; no other step of a poll counts tokens.                       *)
LEMMA ConsumerAsks ==
  ASSUME TypeInv, HandshakeInv, CancelInv, Consumer
  PROVE  /\ Acknowledged => ~Emitted'
         /\ ~Acknowledged => Answered' = Answered /\ (Emitted' => Emitted)
<1>1. UNCHANGED <<pc, outcome>>
  BY ConsumerFrame
<1>2. CASE Acknowledged
  <2>1. PICK r \in Replies : AckState(r)
    BY <1>2 DEF Acknowledged
  <2>2. live.drained /\ live.outstanding # 0 /\ ~closed /\ ~cancelRequested /\ ~failure
        /\ poll.at = "onState"
    BY <1>2 DEF Acknowledged, AckMatches, AckWithheld, HandshakeInv, SlotInv, StateInv, At
  <2>3. pc = "live"
    BY <2>2 DEF CancelInv, HandshakeInv, SlotInv
  <2>4. live'.outstanding = 0
    BY <2>1, AckFields
  <2> QED BY <1>1, <1>2, <2>3, <2>4 DEF Emitted, Leaving
<1>3. CASE ~Acknowledged
  <2>1. live'.outstanding = live.outstanding /\ live'.nextId = live.nextId
    BY <1>3, ConsumerEffect, SlotFields DEF Observed, Other
  <2> QED BY <1>1, <1>3, <2>1 DEF Answered, Emitted, Leaving
<1> QED
  BY <1>2, <1>3

(* The consumer sees the rows and the states in the order of production.    *)
LEMMA ConsumerOrder ==
  ASSUME TypeInv, HandshakeInv, QueueInv, CancelInv, AbandonInv, OrderInv, Consumer
  PROVE  OrderInv'
<1> USE DEF ToPlace, At, control, worker, boundary, consumer
<1>0. UNCHANGED streaming /\ live \in Slot /\ poll \in Polls
  BY ConsumerFrame DEF TypeInv, TypeOK, Slot, Polls
<1> USE <1>0
<1>a. AtRest.at = "idle" /\ AtRest.batch = <<>> /\ AtRest.state.id = 0
  BY PollFields
<1>1. StateInv
  BY DEF HandshakeInv
<1>2. ASSUME UNCHANGED <<rows, live>>, Answered' = Answered /\ (Emitted' => Emitted),
             Reached' = Reached, poll.at \notin {"lost", "joining", "settled"}
      PROVE  /\ streaming /\ ~live'.discarded /\ Emitted' /\ rows' = <<>>
             /\ poll'.at \notin {"lost", "joining", "settled"}
             => Reached' = Answered'
  BY <1>2 DEF OrderInv
<1>3. CASE poll'.at \in {"settled", "lost", "joining"}
  BY <1>3 DEF OrderInv, Holding, Held
<1>4. CASE Collect
  <2>0. /\ poll' = [AtRest EXCEPT !.at = "drain", !.ready = (pc = "finished")]
        /\ poll.at = "idle" /\ UNCHANGED <<rows, live, seen>>
    BY <1>4 DEF Collect
  <2>1. /\ poll'.at = "drain" /\ poll'.batch = <<>> /\ poll.at = "idle"
        /\ UNCHANGED <<rows, live, seen>>
    BY <1>a, <2>0, NewTyped DEF Polls
  <2>2. Reached' = Reached
    BY <2>1 DEF Reached, Carried
  <2>3. ~Acknowledged
    BY <2>1 DEF Acknowledged
  <2> QED BY <1>2, <2>1, <2>2, <2>3, ConsumerAsks DEF OrderInv, Holding, Held
<1>5. CASE DrainStream
  <2>1. PICK n : Batch(n)
    BY <1>5 DEF DrainStream
  <2>2. poll'.at = "drainState" /\ poll.at = "drain" /\ UNCHANGED <<seen, live>>
    BY <1>5, <2>1 DEF Batch, Polls, DrainStream
  <2>3. ~Acknowledged
    BY <2>2 DEF Acknowledged
  <2>4. Answered' = Answered /\ (Emitted' => Emitted)
    BY <2>3, ConsumerAsks
  <2>5. CASE rows = <<>>
    <3>1. rows' = <<>> /\ poll'.batch = <<>>
      BY <1>5, <2>5, DrainEmpty
    <3>2. Reached' = Reached
      BY <2>2, <3>1 DEF Reached, Carried
    <3> QED BY <1>2, <2>2, <2>4, <2>5, <3>1, <3>2 DEF OrderInv, Holding, Held
  <2>6. CASE rows # <<>> /\ rows' = <<>>
    <3>1. poll'.batch = rows
      BY <1>5, <2>6, DrainEmpty
    <3>2. Len(rows) \in 1 .. Len(rows)
      BY <2>6
    <3>3. Reached' = Answered
      BY <2>2, <2>6, <3>1, <3>2 DEF Reached, Carried, QueueInv
    <3> QED BY <2>2, <2>4, <3>3 DEF OrderInv, Holding, Held
  <2>7. CASE rows' # <<>>
    BY <2>2, <2>7 DEF OrderInv, Holding, Held
  <2> QED BY <2>5, <2>6, <2>7
<1>6. CASE DrainContended
  <2>0. /\ poll' = [poll EXCEPT !.at = "drainState", !.emptied = FALSE, !.ready = FALSE]
        /\ poll.at = "drain" /\ UNCHANGED <<rows, live, seen>>
    BY <1>6 DEF DrainContended
  <2>1. poll'.at = "drainState" /\ poll'.batch = poll.batch
    BY <2>0 DEF Polls
  <2>2. Reached' = Reached
    BY <2>0, <2>1 DEF Reached, Carried, OrderInv
  <2>3. Answered' = Answered /\ (Emitted' => Emitted)
    BY <2>0, ConsumerAsks DEF Acknowledged
  <2> QED BY <1>2, <2>0, <2>1, <2>2, <2>3 DEF OrderInv, Holding, Held
<1>7. CASE DrainState \/ NoStateTaken
  <2>0. /\ \/ poll' = [poll EXCEPT !.at = "batch"]
           \/ poll' = [poll EXCEPT !.at = "batch", !.state = live.pending]
        /\ poll.at = "drainState" /\ UNCHANGED <<rows, seen, failure, closed>>
    BY <1>7 DEF DrainState, NoStateTaken
  <2>1. /\ poll'.at = "batch" /\ poll.at = "drainState" /\ poll'.batch = poll.batch
        /\ UNCHANGED <<rows, seen, failure, closed>>
    BY <2>0 DEF Polls
  <2>2. Reached' = Reached
    BY <2>1 DEF Reached, Carried
  <2>3. Answered' = Answered /\ (Emitted' => Emitted)
    BY <2>1, ConsumerAsks DEF Acknowledged
  <2>4. CASE Taken
    <3>1. /\ pc = "live" /\ live.outstanding # 0 /\ tokens = live.outstanding
          /\ live.nextId = tokens + 1 /\ live.pending.id = tokens
      BY <1>1, <2>4, SlotFields DEF Taken, StateInv, HandshakeInv, SlotInv, Snapshot
    <3>2. Answered = live.pending.id - 1 /\ Emitted
      BY <3>1, SlotFields DEF Answered, Emitted
    <3>3. rows = <<>> /\ ~live.discarded /\ poll'.state = live.pending
      BY <2>4 DEF Taken, Deliverable
    <3>4. streaming => Reached = Answered
      BY <2>1, <3>2, <3>3 DEF OrderInv
    <3>5. live'.discarded = live.discarded
      BY <2>4, SlotFields
    <3> QED BY <1>0, <2>1, <2>2, <2>3, <3>2, <3>3, <3>4, <3>5 DEF OrderInv, Holding, Held
  <2>5. CASE ~Taken
    <3>1. UNCHANGED live /\ poll' = [poll EXCEPT !.at = "batch"]
      <4>1. CASE NoStateTaken
        BY <4>1 DEF NoStateTaken
      <4>2. CASE DrainState
        <5>1. ~(Deliverable /\ live.pending.id # 0)
          <6> SUFFICES ASSUME Deliverable, live.pending.id # 0 PROVE FALSE
            OBVIOUS
          <6>1. /\ live' = [live EXCEPT !.pending = NoState, !.drained = TRUE]
                /\ poll' = [poll EXCEPT !.at = "batch", !.state = live.pending]
            BY <4>2 DEF DrainState
          <6>2. poll'.state = live.pending
            BY <6>1 DEF Polls
          <6>3. /\ At("drainState") /\ AskForState
                /\ livePending' = live.pending.id
                /\ UNCHANGED <<audit, promised, failure, cancelled>>
            BY <4>2 DEF DrainState
          <6> QED BY <2>1, <2>5, <6>1, <6>2, <6>3 DEF Taken
        <5> QED BY <4>2, <5>1 DEF DrainState
      <4> QED BY <1>7, <4>1, <4>2
    <3>2. poll'.state.id = 0
      BY <1>1, <2>1, <3>1 DEF StateInv, Held, Polls
    <3> QED BY <1>0, <1>2, <2>1, <2>2, <2>3, <3>1, <3>2 DEF OrderInv, Holding, Held
  <2> QED BY <2>4, <2>5
<1>8. CASE BatchUnconverted \/ BatchFails \/ StateFails
  <2>0. ConsumerFailure /\ (poll' = AtRest \/ poll' = [poll EXCEPT !.at = "streamed"])
    BY <1>8 DEF BatchUnconverted, BatchFails, StateFails
  <2>1. poll'.at \in {"idle", "streamed"}
    BY <2>0, <1>a DEF Polls
  <2>2. live'.discarded /\ failure'
    BY <2>0 DEF ConsumerFailure, DiscardStream, AbandonInv, Slot
  <2> QED BY <2>1, <2>2 DEF OrderInv
<1>9. CASE DeliverBatch
  <2>0. /\ \/ poll' = [poll EXCEPT !.at = "streamed"]
           \/ poll' = [poll EXCEPT !.at = "onToken"]
        /\ poll.at = "batch" /\ UNCHANGED <<rows, live, failure, closed>>
    BY <1>9 DEF DeliverBatch
  <2>1. /\ poll.at = "batch" /\ poll'.at \in {"streamed", "onToken"}
        /\ poll'.state = poll.state /\ UNCHANGED <<rows, live, failure, closed>>
    BY <2>0 DEF Polls
  <2>2. Answered' = Answered /\ (Emitted' => Emitted)
    BY <2>1, ConsumerAsks DEF Acknowledged
  <2>3. CASE failure \/ closed
    <3>1. live'.discarded
      BY <2>1, <2>3 DEF AbandonInv
    <3> QED BY <2>1, <2>3, <3>1 DEF OrderInv
  <2>4. CASE ~failure /\ ~closed
    <3>1. seen' = Reached
      BY <1>9, <2>1, <2>4 DEF DeliverBatch, Reached, Carried
    <3>2. Reached' = Reached
      BY <2>1, <3>1 DEF Reached, Carried
    <3> QED BY <1>0, <1>2, <2>1, <2>2, <3>2 DEF OrderInv, Holding, Held
  <2> QED BY <2>3, <2>4
<1>10. CASE BatchTaken
  <2>1. /\ poll.at = "onToken" /\ poll'.at = "streamed" /\ poll'.state = poll.state
        /\ UNCHANGED <<rows, live, failure, closed, seen>>
    BY <1>10 DEF BatchTaken, Polls
  <2>2. Reached' = Reached
    BY <2>1 DEF Reached, Carried
  <2>3. Answered' = Answered /\ (Emitted' => Emitted)
    BY <2>1, ConsumerAsks DEF Acknowledged
  <2> QED BY <1>0, <1>2, <2>1, <2>2, <2>3 DEF OrderInv, Holding, Held
<1>11. CASE DeliverState /\ poll'.at # "lost"
  <2>0. /\ \/ poll' = [poll EXCEPT !.at = "lost"]
           \/ poll' = [poll EXCEPT !.at = "onState"]
        /\ poll.at = "streamed" /\ UNCHANGED <<rows, live, failure, closed, seen>> /\ StateDue
    BY <1>11 DEF DeliverState
  <2>1. /\ poll.at = "streamed" /\ poll'.at = "onState" /\ poll'.state = poll.state
        /\ UNCHANGED <<rows, live, failure, closed, seen>> /\ StateDue
    BY <1>11, <2>0 DEF Polls
  <2>2. Reached' = Reached /\ Reached = seen
    BY <2>1 DEF Reached, Carried
  <2>3. Answered' = Answered /\ (Emitted' => Emitted)
    BY <2>1, ConsumerAsks DEF Acknowledged
  <2>4. streaming => seen = poll.state.id - 1
    BY <2>1, <2>2 DEF OrderInv, StateDue, Holding, Held
  <2> QED BY <1>0, <1>2, <2>1, <2>2, <2>3, <2>4 DEF OrderInv, Holding, Held
<1>12. CASE PollAgain \/ StateNotAnswered
  <2>1. /\ poll.at \in {"streamed", "onState"} /\ poll' = AtRest
        /\ UNCHANGED <<rows, live, seen>>
    BY <1>12 DEF PollAgain, StateNotAnswered
  <2>2. Reached' = Reached
    BY <1>a, <2>1 DEF Reached, Carried
  <2>3. \/ ~Emitted'
        \/ Answered' = Answered /\ (Emitted' => Emitted)
    BY ConsumerAsks
  <2> QED BY <1>2, <1>a, <2>1, <2>2, <2>3 DEF OrderInv, Holding, Held
<1>13. CASE StateAnswered /\ poll'.at # "lost"
  <2>1. poll' # [poll EXCEPT !.at = "lost"]
    BY <1>13 DEF Polls
  <2>2. poll' = AtRest /\ AckMatches(poll.state.id) /\ \E r \in Replies : AckState(r)
    BY <1>13, <2>1 DEF StateAnswered
  <2>3. live'.outstanding # live.outstanding
    <3>1. PICK r \in Replies : AckState(r)
      BY <2>2
    <3>2. live.drained /\ live'.outstanding = 0
      BY <2>2, <3>1, AckFields DEF AckMatches
    <3> QED BY <3>2 DEF HandshakeInv, SlotInv
  <2>4. Acknowledged
    BY <2>3, ConsumerEffect, SlotFields DEF Observed, Other
  <2>5. ~Emitted'
    BY <2>4, ConsumerAsks
  <2> QED BY <1>a, <2>2, <2>5 DEF OrderInv, Holding, Held
<1>14. CASE LlmCancel
  <2>1. UNCHANGED <<rows, live, seen, poll, failure, closed>>
    BY <1>14 DEF LlmCancel
  <2>2. poll.at \in {"idle", "onToken", "onState"}
    BY <1>14 DEF LlmCancel, UserCode
  <2>3. UNCHANGED <<Reached, Holding>>
    BY <2>1 DEF Reached, Carried, Holding
  <2>4. \/ ~Emitted'
        \/ Answered' = Answered /\ (Emitted' => Emitted)
    BY ConsumerAsks
  <2> QED BY <1>2, <2>1, <2>2, <2>3, <2>4 DEF OrderInv
<1>15. CASE Close
  <2>1. UNCHANGED <<seen, poll>> /\ live'.discarded /\ closed'
    BY <1>0, <1>15 DEF Close, DiscardStream, Slot, consumer
  <2> QED BY <1>0, <2>1 DEF OrderInv
<1>16. CASE CollectFinished \/ Join \/ AckStream \/ StateUnconverted \/ Shutdown
  <2>0. \/ poll' = [AtRest EXCEPT !.at = "settled"]
        \/ poll' = [poll EXCEPT !.at = "lost"]
        \/ poll' = [poll EXCEPT !.at = "joining"]
    BY <1>16 DEF CollectFinished, Join, AckStream, StateUnconverted, Shutdown, Finish
  <2>1. poll'.at \in {"settled", "lost", "joining"}
    BY <2>0, NewTyped DEF Polls
  <2> QED BY <1>3, <2>1
<1> QED
  BY <1>3, <1>4, <1>5, <1>6, <1>7, <1>8, <1>9, <1>10, <1>11, <1>12, <1>13, <1>14, <1>15,
     <1>16
     DEF Consumer, MainThread

-----------------------------------------------------------------------------
(* A new job has delivered nothing.                                         *)
LEMMA FreshDelivery ==
  /\ Init => DeliveryInv
  /\ NextJob => DeliveryInv'
<1> USE FreshSlot, PollFields
    DEF DeliveryInv, AbandonInv, SuccessInv, OrderInv, Holding, Held, At, Leaving, Terminal,
        Reached, Carried, Answered, NewSlot, AtRest
<1>1. Init => DeliveryInv
  BY DEF Init
<1>2. NextJob => DeliveryInv'
  BY DEF NextJob
<1> QED
  BY <1>1, <1>2

(* Stuttering keeps the delivery invariant.                                 *)
LEMMA DeliveryStutters ==
  ASSUME DeliveryInv, UNCHANGED vars
  PROVE  DeliveryInv'
BY DEF DeliveryInv, AbandonInv, SuccessInv, SuccessIsComplete, OrderInv, Holding, At, Terminal,
       Emitted, Reached, Carried, Answered, vars, control, worker, boundary, consumer

(* The delivery invariant, with the invariants it rests on.                 *)
LEMMA DeliveryInvariant ==
  Spec => [](TypeInv /\ HandshakeInv /\ QueueInv /\ DeliveryInv)
<1>1. ASSUME TypeInv, HandshakeInv, QueueInv, CancelInv, SettledInv, DeliveryInv, [Next]_vars
      PROVE  DeliveryInv'
  <2>1. AbandonInv'
    BY <1>1, AbandonStep DEF DeliveryInv
  <2>2. CASE Worker
    BY <1>1, <2>1, <2>2, WorkerSuccess, WorkerOrder DEF DeliveryInv
  <2>3. CASE Consumer
    BY <1>1, <2>1, <2>3, ConsumerSuccess, ConsumerOrder DEF DeliveryInv
  <2>4. CASE NextJob \/ UNCHANGED vars
    BY <1>1, <2>4, FreshDelivery, DeliveryStutters
  <2> QED BY <1>1, <2>2, <2>3, <2>4, NextSplit
<1> QED
  BY <1>1, FreshDelivery, QueueInvariant, CancelInvariant, AdapterInvariant, PTL DEF Spec

(* on_state for a token runs after on_token has had every row of the tokens *)
(* before it and before it has any row of the token itself, also when the   *)
(* job is cancelled between the poll and the callback: drain_state takes a  *)
(* state only behind an empty queue, and the batch that emptied it is       *)
(* delivered first.                                                         *)
THEOREM LiveEventOrder == Spec => []EventOrder
<1>1. HandshakeInv /\ QueueInv /\ DeliveryInv => EventOrder
  <2> SUFFICES ASSUME HandshakeInv, QueueInv, DeliveryInv, At("onState"), streaming
               PROVE  seen = poll.state.id - 1 /\ rows = <<>>
    BY DEF EventOrder
  <2>1. seen = poll.state.id - 1
    BY DEF DeliveryInv, OrderInv
  <2>2. live.drained
    BY DEF HandshakeInv, StateInv, SlotInv, Holding, Held, At
  <2> QED BY <2>1, <2>2 DEF QueueInv
<1> QED
  BY <1>1, DeliveryInvariant, PTL

(* A promise that resolves stands for a generation that nobody cancelled or *)
(* abandoned, and of which on_state and on_token have had everything.       *)
THEOREM LiveSuccessIsComplete == Spec => []SuccessIsComplete
<1>1. DeliveryInv => SuccessIsComplete
  BY DEF DeliveryInv, SuccessInv, SuccessIsComplete
<1> QED
  BY <1>1, DeliveryInvariant, PTL
=============================================================================
