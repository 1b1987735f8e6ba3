------------------------- MODULE AsyncBoundaryProofs -------------------------
(***************************************************************************)
(* Proofs about the asynchronous boundary: who owns the models, who comes  *)
(* back for a job, what a settled promise means and what unload leaves,    *)
(* for any handles, any number of promises and every limit of the worker.  *)
(***************************************************************************)
EXTENDS AsyncBoundary, SequenceTheorems, FiniteSetTheorems, WellFoundedInduction,
        NaturalsInduction, TLAPS

-----------------------------------------------------------------------------
(* One job: the worker and its queue (AsyncJob).                            *)

(* A job is terminal exactly from its publication on.                       *)
TerminalPlace == terminal <=> pc \in {"unbind", "finished", "joined"}

(* The event counter never runs behind the queue.                           *)
QueueBehindCounter == Len(rows) < nextId

JobIInv ==
  /\ JobTypeOK
  /\ TerminalPlace
  /\ NoLostWakeup
  /\ CancelWins
  /\ QueueBehindCounter
  /\ RowsAreConsecutive

(* Taking a batch off the front of the queue keeps the rows behind it.      *)
LEMMA FrontRemoved ==
  ASSUME NEW S, NEW s \in Seq(S), NEW n \in 0 .. Len(s)
  PROVE  LET r == SubSeq(s, n + 1, Len(s)) IN
           /\ r \in Seq(S)
           /\ Len(r) = Len(s) - n
           /\ \A i \in 1 .. Len(r) : r[i] = s[n + i]
  OBVIOUS

(* A row put into the queue is a row.                                       *)
LEMMA RowAppended ==
  ASSUME JobTypeOK, NEW kind \in Kinds, AppendRow(kind)
  PROVE  /\ rows' \in Seq(Row)
         /\ Len(rows') = Len(rows) + 1
         /\ \A i \in 1 .. Len(rows) : rows'[i] = rows[i]
         /\ rows'[Len(rows) + 1].id = nextId
         /\ nextId' = nextId + 1
<1> DEFINE row == [id |-> nextId, prompt |-> promptId, kind |-> kind, bytes |-> chunk]
<1>1. row \in Row
  BY DEF JobTypeOK, Row
<1>2. rows \in Seq(Row) /\ rows' = Append(rows, row) /\ nextId' = nextId + 1
  BY DEF JobTypeOK, AppendRow
<1> HIDE DEF row
<1>3. /\ rows' \in Seq(Row) /\ Len(rows') = Len(rows) + 1
      /\ \A i \in 1 .. Len(rows) : rows'[i] = rows[i]
      /\ rows'[Len(rows) + 1] = row
  BY <1>1, <1>2
<1>4. row.id = nextId
  BY DEF row
<1> QED
  BY <1>2, <1>3, <1>4

-----------------------------------------------------------------------------
(* The initial state satisfies the inductive invariant.                     *)
LEMMA InitJobIInv == JobInit => JobIInv
<1> SUFFICES ASSUME JobInit PROVE JobIInv
  OBVIOUS
<1>1. JobTypeOK
  <2>1. rows \in Seq(Row)
    BY EmptySeq DEF JobInit
  <2>2. /\ promptId \in 1 .. Prompts /\ prompt \in 1 .. Prompts
        /\ tokens \in 0 .. MaxTokens /\ chunk \in 0 .. ChunkBytes
    BY RequestAssumption, ByteLimitsAssumption DEF JobInit
  <2>3. nextId \in Nat \ {0} /\ drained \in Nat
    BY DEF JobInit
  <2>4. pc \in PCs /\ outcome \in Outcomes
    BY DEF JobInit, PCs, Outcomes
  <2>5. /\ streaming \in BOOLEAN /\ cancelled \in BOOLEAN /\ terminal \in BOOLEAN
        /\ discarded \in BOOLEAN /\ asleep \in BOOLEAN
    BY DEF JobInit
  <2> QED
    BY <2>1, <2>2, <2>3, <2>4, <2>5 DEF JobTypeOK
<1>2. TerminalPlace /\ NoLostWakeup /\ CancelWins
  BY DEF JobInit, TerminalPlace, NoLostWakeup, CancelWins
<1>3. QueueBehindCounter /\ RowsAreConsecutive
  BY DEF JobInit, QueueBehindCounter, RowsAreConsecutive
<1> QED
  BY <1>1, <1>2, <1>3 DEF JobIInv

(* A step that leaves the queue alone, or empties and discards it, keeps    *)
(* the event numbering.                                                     *)
LEMMA QueueKept ==
  ASSUME JobIInv,
         \/ UNCHANGED <<rows, nextId, discarded, drained>>
         \/ rows' = <<>> /\ discarded' = TRUE /\ UNCHANGED <<nextId, drained>>
         \/ rows' = <<>> /\ nextId' = 1 /\ drained' = 0
  PROVE  QueueBehindCounter' /\ RowsAreConsecutive'
BY DEF JobIInv, JobTypeOK, QueueBehindCounter, RowsAreConsecutive

(* Starting a job establishes the invariant anew.                           *)
LEMMA StartStep == ASSUME JobIInv, MainStart PROVE JobIInv'
<1>1. PICK stream \in BOOLEAN : Start(stream)
  BY DEF MainStart
<1>2. JobTypeOK'
  <2>1. rows' \in Seq(Row)
    BY <1>1, EmptySeq DEF Start, NewControl
  <2>2. /\ promptId' \in 1 .. Prompts /\ prompt' \in 1 .. Prompts
        /\ tokens' \in 0 .. MaxTokens /\ chunk' \in 0 .. ChunkBytes
    BY <1>1, RequestAssumption, ByteLimitsAssumption DEF Start, NewControl
  <2>3. nextId' \in Nat \ {0} /\ drained' \in Nat
    BY <1>1 DEF Start, NewControl
  <2>4. pc' \in PCs /\ outcome' \in Outcomes
    BY <1>1 DEF Start, NewControl, PCs, Outcomes
  <2>5. /\ streaming' \in BOOLEAN /\ cancelled' \in BOOLEAN /\ terminal' \in BOOLEAN
        /\ discarded' \in BOOLEAN /\ asleep' \in BOOLEAN
    BY <1>1 DEF Start, NewControl
  <2> QED
    BY <2>1, <2>2, <2>3, <2>4, <2>5 DEF JobTypeOK
<1>3. TerminalPlace' /\ NoLostWakeup' /\ CancelWins'
  BY <1>1 DEF Start, NewControl, TerminalPlace, NoLostWakeup, CancelWins
<1>4. QueueBehindCounter' /\ RowsAreConsecutive'
  BY <1>1, QueueKept DEF Start, NewControl
<1> QED
  BY <1>2, <1>3, <1>4 DEF JobIInv

(* The steps of the worker that append no row.                              *)
LEMMA WorkerStep ==
  ASSUME JobIInv,
         \/ WorkerEnter \/ PromptStarted \/ Sampled \/ PromptCompleted
         \/ DecodeFails \/ EnqueueRefused \/ EnqueueWait \/ Publish \/ WorkerReturn
         \/ Join
  PROVE  JobIInv'
<1> USE DEF control, worker
<1>1. JobTypeOK'
  <2> USE RequestAssumption, ByteLimitsAssumption
          DEF JobIInv, JobTypeOK, PCs, Kinds, Outcomes, Return
  <2>1. CASE WorkerEnter \/ WorkerReturn \/ Join
    BY <2>1 DEF WorkerEnter, WorkerReturn, Join
  <2>2. CASE PromptStarted
    BY <2>2 DEF PromptStarted
  <2>3. CASE Sampled
    BY <2>3 DEF Sampled
  <2>4. CASE PromptCompleted
    BY <2>4 DEF PromptCompleted
  <2>5. CASE DecodeFails \/ EnqueueRefused \/ EnqueueWait
    BY <2>5 DEF DecodeFails, EnqueueRefused, EnqueueWait
  <2>6. CASE Publish
    <3>1. rows' \in Seq(Row)
      BY <2>6, EmptySeq DEF Publish
    <3>2. outcome' \in Outcomes /\ promptId' \in 1 .. Prompts
      BY <2>6 DEF Publish, Published
    <3>3. discarded' \in BOOLEAN /\ terminal' \in BOOLEAN /\ pc' = "unbind"
      BY <2>6 DEF Publish
    <3> QED
      BY <2>6, <3>1, <3>2, <3>3 DEF Publish
  <2> QED
    BY <2>1, <2>2, <2>3, <2>4, <2>5, <2>6
<1>2. TerminalPlace' /\ CancelWins'
  BY DEF JobIInv, TerminalPlace, CancelWins, JobTypeOK, Outcomes, Kinds, Return,
         WorkerEnter, PromptStarted, Sampled, PromptCompleted, DecodeFails,
         EnqueueRefused, EnqueueWait, Publish, Published, WorkerReturn, Join
<1>3. NoLostWakeup'
  BY DEF JobIInv, NoLostWakeup, Fits, Kinds, Return,
         WorkerEnter, PromptStarted, Sampled, PromptCompleted, DecodeFails,
         EnqueueRefused, EnqueueWait, Publish, WorkerReturn, Join
<1>4. QueueBehindCounter' /\ RowsAreConsecutive'
  <2>1. \/ UNCHANGED <<rows, nextId, discarded, drained>>
        \/ rows' = <<>> /\ discarded' = TRUE /\ UNCHANGED <<nextId, drained>>
    BY DEF WorkerEnter, PromptStarted, Sampled, PromptCompleted, DecodeFails,
           EnqueueRefused, EnqueueWait, Publish, WorkerReturn, Join
  <2> QED
    BY <2>1, QueueKept
<1> QED
  BY <1>1, <1>2, <1>3, <1>4 DEF JobIInv

(* What follows a row moves the worker only.                                *)
LEMMA AfterRowStep ==
  ASSUME JobTypeOK, pc \in Kinds, AfterRow(pc)
  PROVE  /\ pc' \in {"text", "decode", "prompt", "publish"}
         /\ prompt' \in 1 .. Prompts
         /\ chunk' \in 0 .. ChunkBytes
         /\ outcome' \in Outcomes
BY RequestAssumption, ByteLimitsAssumption
   DEF JobTypeOK, Kinds, AfterRow, Return, Outcomes

(* Appending a row, and passing an enqueue without a stream.                *)
LEMMA EnqueueStep ==
  ASSUME JobIInv, EnqueueRow \/ EnqueueNothing
  PROVE  JobIInv'
<1>1. CASE EnqueueNothing
  <2>1. /\ pc \in Kinds /\ AfterRow(pc) /\ ~streaming
        /\ UNCHANGED control /\ UNCHANGED <<asleep, tokens>>
    BY <1>1 DEF EnqueueNothing
  <2>2. JobTypeOK'
    BY <2>1, AfterRowStep DEF JobIInv, JobTypeOK, PCs, Kinds, control
  <2>3. TerminalPlace' /\ CancelWins' /\ NoLostWakeup'
    BY <2>1, AfterRowStep
       DEF JobIInv, TerminalPlace, CancelWins, NoLostWakeup, Kinds, control
  <2>4. QueueBehindCounter' /\ RowsAreConsecutive'
    BY <2>1, QueueKept DEF control
  <2> QED
    BY <2>2, <2>3, <2>4 DEF JobIInv
<1>2. CASE EnqueueRow
  <2>1. /\ pc \in Kinds /\ ~asleep /\ ~terminal /\ ~discarded
        /\ AppendRow(pc) /\ AfterRow(pc)
        /\ UNCHANGED <<streaming, cancelled, terminal, promptId, discarded,
                       drained, asleep, tokens>>
    BY <1>2 DEF EnqueueRow
  <2>2. /\ rows' \in Seq(Row)
        /\ Len(rows') = Len(rows) + 1
        /\ \A i \in 1 .. Len(rows) : rows'[i] = rows[i]
        /\ rows'[Len(rows) + 1].id = nextId
        /\ nextId' = nextId + 1
    BY <2>1, RowAppended DEF JobIInv
  <2>3. JobTypeOK'
    BY <2>1, <2>2, AfterRowStep DEF JobIInv, JobTypeOK, PCs, Kinds
  <2>4. TerminalPlace' /\ CancelWins' /\ NoLostWakeup'
    BY <2>1, AfterRowStep DEF JobIInv, TerminalPlace, CancelWins, NoLostWakeup, Kinds
  <2>5. Len(rows) \in Nat /\ nextId \in Nat \ {0} /\ drained \in Nat
    BY DEF JobIInv, JobTypeOK
  <2>6. QueueBehindCounter'
    BY <2>2, <2>5 DEF JobIInv, QueueBehindCounter
  <2>7. ASSUME NEW i \in 1 .. Len(rows')
        PROVE  rows'[i].id = nextId' - Len(rows') + i - 1
    <3>1. CASE i = Len(rows) + 1
      BY <2>2, <2>5, <3>1
    <3>2. CASE i \in 1 .. Len(rows)
      BY <2>2, <2>5, <3>2 DEF JobIInv, RowsAreConsecutive
    <3> QED
      BY <2>2, <2>5, <3>1, <3>2
  <2>8. drained' + Len(rows') = nextId' - 1
    BY <2>1, <2>2, <2>5 DEF JobIInv, RowsAreConsecutive
  <2> QED
    BY <2>3, <2>4, <2>6, <2>7, <2>8 DEF JobIInv, RowsAreConsecutive
<1> QED
  BY <1>1, <1>2

(* Cancelling and discarding wake the worker and respect terminal results.  *)
LEMMA AbandonStep ==
  ASSUME JobIInv, MainCancel \/ MainDiscard
  PROVE  JobIInv'
<1> USE DEF worker
<1>1. JobTypeOK'
  <2>1. rows' \in Seq(Row)
    BY EmptySeq DEF JobIInv, JobTypeOK, MainCancel, RequestCancel, MainDiscard,
                    DiscardStream
  <2>2. cancelled' \in BOOLEAN /\ discarded' \in BOOLEAN /\ asleep' = FALSE
    BY DEF JobIInv, JobTypeOK, MainCancel, RequestCancel, MainDiscard, DiscardStream
  <2>3. UNCHANGED <<streaming, terminal, promptId, nextId, drained, pc, prompt,
                    tokens, chunk, outcome>>
    BY DEF MainCancel, RequestCancel, MainDiscard, DiscardStream
  <2> QED
    BY <2>1, <2>2, <2>3 DEF JobIInv, JobTypeOK
<1>2. TerminalPlace' /\ NoLostWakeup' /\ CancelWins'
  BY DEF JobIInv, JobTypeOK, TerminalPlace, NoLostWakeup, CancelWins, MainCancel,
         CanCancel, RequestCancel, MainDiscard, DiscardStream
<1>3. \/ UNCHANGED <<rows, nextId, discarded, drained>>
      \/ rows' = <<>> /\ discarded' = TRUE /\ UNCHANGED <<nextId, drained>>
  BY DEF MainCancel, RequestCancel, MainDiscard, DiscardStream
<1>4. QueueBehindCounter' /\ RowsAreConsecutive'
  BY <1>3, QueueKept
<1> QED
  BY <1>1, <1>2, <1>4 DEF JobIInv

(* A batch moves rows from the queue to the history, none is lost.          *)
LEMMA DrainStep == ASSUME JobIInv, MainDrain PROVE JobIInv'
<1>1. PICK n \in 0 .. BatchRows : IsBatch(n) /\ Transfer(n)
  BY DEF MainDrain
<1>2. n \in 0 .. Len(rows)
  BY <1>1, RowLimitsAssumption DEF IsBatch, BatchLengths, JobIInv, JobTypeOK
<1>3. /\ rows' = SubSeq(rows, n + 1, Len(rows))
      /\ drained' = drained + n /\ asleep' = FALSE
      /\ UNCHANGED <<streaming, cancelled, terminal, promptId, nextId, discarded,
                     pc, prompt, tokens, chunk, outcome>>
  BY <1>1 DEF Transfer
<1>4. rows \in Seq(Row) /\ nextId \in Nat \ {0} /\ drained \in Nat
  BY DEF JobIInv, JobTypeOK
<1>5. /\ rows' \in Seq(Row)
      /\ Len(rows') = Len(rows) - n
      /\ \A i \in 1 .. Len(rows') : rows'[i] = rows[n + i]
  BY <1>2, <1>3, <1>4, FrontRemoved
<1>6. JobTypeOK'
  <2>1. drained' \in Nat
    BY <1>2, <1>3, <1>4
  <2> QED
    BY <2>1, <1>3, <1>5 DEF JobIInv, JobTypeOK
<1>7. TerminalPlace' /\ NoLostWakeup' /\ CancelWins'
  BY <1>3 DEF JobIInv, TerminalPlace, NoLostWakeup, CancelWins
<1>8. QueueBehindCounter'
  BY <1>2, <1>3, <1>4, <1>5 DEF JobIInv, QueueBehindCounter
<1>9. ASSUME NEW i \in 1 .. Len(rows')
      PROVE  rows'[i].id = nextId' - Len(rows') + i - 1
  <2>1. n + i \in 1 .. Len(rows) /\ rows'[i] = rows[n + i]
    BY <1>2, <1>4, <1>5
  <2>2. rows[n + i].id = nextId - Len(rows) + (n + i) - 1
    BY <2>1 DEF JobIInv, RowsAreConsecutive
  <2>3. Len(rows) \in Nat /\ i \in Int /\ n \in Nat /\ nextId \in Nat
    BY <1>2, <1>4, <1>5
  <2>4. nextId - Len(rows) + (n + i) - 1 = nextId - (Len(rows) - n) + i - 1
    BY <2>3
  <2>5. nextId' = nextId /\ Len(rows') = Len(rows) - n
    BY <1>3, <1>5
  <2> QED
    BY <2>1, <2>2, <2>4, <2>5
<1>10. ~discarded' => drained' + Len(rows') = nextId' - 1
  <2>1. ~discarded => drained + Len(rows) = nextId - 1
    BY DEF JobIInv, RowsAreConsecutive
  <2>2. Len(rows) \in Nat /\ n \in Nat /\ drained \in Nat
    BY <1>2, <1>4
  <2>3. (drained + n) + (Len(rows) - n) = drained + Len(rows)
    BY <2>2
  <2>4. /\ drained' = drained + n /\ Len(rows') = Len(rows) - n
        /\ nextId' = nextId /\ discarded' = discarded
    BY <1>3, <1>5
  <2> QED
    BY <2>1, <2>3, <2>4
<1> QED
  BY <1>6, <1>7, <1>8, <1>9, <1>10 DEF JobIInv, RowsAreConsecutive

(* Every step, and every stuttering step, keeps the invariant.              *)
LEMMA NextJobIInv == JobIInv /\ [Next]_jobVars => JobIInv'
<1> SUFFICES ASSUME JobIInv, [Next]_jobVars PROVE JobIInv'
  OBVIOUS
<1>1. CASE UNCHANGED jobVars
  BY <1>1 DEF jobVars, control, worker, JobIInv, JobTypeOK, TerminalPlace,
     NoLostWakeup, CancelWins, QueueBehindCounter, RowsAreConsecutive, Fits
<1>2. CASE MainStart
  BY <1>2, StartStep
<1>3. CASE EnqueueRow \/ EnqueueNothing
  BY <1>3, EnqueueStep
<1>4. CASE MainCancel \/ MainDiscard
  BY <1>4, AbandonStep
<1>5. CASE MainDrain
  BY <1>5, DrainStep
<1>6. CASE \/ WorkerEnter \/ PromptStarted \/ Sampled \/ PromptCompleted
           \/ DecodeFails \/ EnqueueRefused \/ EnqueueWait \/ Publish
           \/ WorkerReturn \/ Join
  BY <1>6, WorkerStep
<1> QED
  BY <1>1, <1>2, <1>3, <1>4, <1>5, <1>6 DEF Next, WorkerNext

-----------------------------------------------------------------------------
(* The inductive invariant holds in every behaviour of a job.               *)
THEOREM JobInvariant == Spec => []JobIInv
<1> QED
  BY InitJobIInv, NextJobIInv, PTL DEF Spec

(* Every variable of the job keeps its type (the byte counter is left to    *)
(* QueueAccounting, which sums over the queue).                             *)
THEOREM JobTypes == Spec => []JobTypeOK
<1>1. JobIInv => JobTypeOK
  BY DEF JobIInv
<1> QED
  BY <1>1, JobInvariant, PTL

(* A parked producer is never missed by the operation that should wake it.  *)
THEOREM JobNoLostWakeup == Spec => []NoLostWakeup
<1>1. JobIInv => NoLostWakeup
  BY DEF JobIInv
<1> QED
  BY <1>1, JobInvariant, PTL

(* Events are numbered without gap or repetition across queue and batches.  *)
THEOREM JobRowsConsecutive == Spec => []RowsAreConsecutive
<1>1. JobIInv => RowsAreConsecutive
  BY DEF JobIInv
<1> QED
  BY <1>1, JobInvariant, PTL

(* A cancellation accepted before publication wins over a computed result.  *)
THEOREM JobCancelWins == Spec => []CancelWins
<1>1. JobIInv => CancelWins
  BY DEF JobIInv
<1> QED
  BY <1>1, JobInvariant, PTL

(* Nothing the main thread does moves the result or the cancellation of a   *)
(* terminal job.                                                            *)
THEOREM JobTerminalIsFinal == Spec => TerminalIsFinal
<1>1. JobIInv /\ [Next]_jobVars =>
        [terminal /\ pc' # "spawned" =>
           /\ terminal' /\ outcome' = outcome /\ cancelled' = cancelled]_jobVars
  <2> SUFFICES ASSUME JobIInv, Next, terminal, pc' # "spawned"
               PROVE  terminal' /\ outcome' = outcome /\ cancelled' = cancelled
    OBVIOUS
  <2>1. pc \in {"unbind", "finished", "joined"}
    BY DEF JobIInv, TerminalPlace
  <2>2. \/ WorkerReturn \/ Join \/ MainCancel \/ MainDiscard \/ MainDrain
    <3>1. ~MainStart
      BY DEF MainStart, Start, NewControl
    <3> QED
      BY <2>1, <3>1
         DEF Next, WorkerNext, WorkerEnter, PromptStarted, Sampled, PromptCompleted,
             DecodeFails, EnqueueNothing, EnqueueRefused, EnqueueRow, EnqueueWait,
             Publish, Kinds
  <2> QED
    BY <2>2 DEF JobIInv, JobTypeOK, WorkerReturn, Join, MainCancel, CanCancel,
                RequestCancel, MainDiscard, DiscardStream, MainDrain, Transfer,
                control, worker
<1> QED
  BY <1>1, JobInvariant, PTL DEF Spec, TerminalIsFinal

-----------------------------------------------------------------------------
(* The bytes of a queue.                                                    *)

(* Induction, for a set: NaturalsInduction states it for an operator P(_),  *)
(* which no backend can instantiate.                                        *)
LEMMA SetInduction ==
  ASSUME NEW S, 0 \in S, \A n \in Nat : n \in S => n + 1 \in S
  PROVE  Nat \subseteq S
<1> SUFFICES ASSUME Nat \ S # {} PROVE FALSE
  OBVIOUS
<1>1. IsWellFoundedOn(OpToRel(<, Nat), Nat)
  BY NatLessThanWellFounded
<1>2. PICK x \in Nat \ S : \A y \in Nat \ S : <<y, x>> \notin OpToRel(<, Nat)
  BY <1>1, WFMin
<1>3. x - 1 \in Nat /\ x - 1 < x
  OBVIOUS
<1>4. x - 1 \in S
  BY <1>2, <1>3 DEF OpToRel
<1> QED
  BY <1>3, <1>4

(* The largest of a set with n and smaller numbers.                         *)
LEMMA LargestIs ==
  ASSUME NEW n \in Nat, NEW u \in SUBSET (1 .. n), n \in u
  PROVE  Max(u) = n
<1>1. \A y \in u : n >= y
  OBVIOUS
<1>2. \A x \in u : (\A y \in u : x >= y) => x = n
  OBVIOUS
<1>3. Max(u) = CHOOSE x \in u : \A y \in u : x >= y
  BY DEF Max
<1> QED
  BY <1>1, <1>2, <1>3

(* The sums of the first rows of a queue.                                   *)
Sums(p, s) ==
  /\ p[0] = 0
  /\ \A n \in 1 .. Len(s) : p[n] = p[n - 1] + s[n].bytes

(* BytesOf is the last of them: the fold takes the last row first.          *)
LEMMA BytesOfSums ==
  ASSUME NEW s \in Seq(Row)
  PROVE  \E p : Sums(p, s) /\ BytesOf(s) = p[Len(s)]
<1> DEFINE Fold(f, n) ==
      f = [u \in SUBSET (1 .. n) |->
             IF u = {} THEN 0 ELSE f[u \ {Max(u)}] + s[Max(u)].bytes]
    S == {n \in Nat : \E f : Fold(f, n)}
<1>1. 0 \in S
  <2> DEFINE f == [u \in SUBSET (1 .. 0) |-> 0]
  <2>1. Fold(f, 0)
    OBVIOUS
  <2> QED
    BY <2>1
<1>2. ASSUME NEW n \in Nat, n \in S
      PROVE  n + 1 \in S
  <2>1. PICK f : Fold(f, n)
    BY <1>2
  <2> DEFINE V(h, u) == IF u = {} THEN 0 ELSE h[u \ {Max(u)}] + s[Max(u)].bytes
             g == [u \in SUBSET (1 .. n + 1) |->
                     IF n + 1 \in u THEN f[u \ {n + 1}] + s[n + 1].bytes ELSE f[u]]
  <2>2. \A u \in SUBSET (1 .. n) : f[u] = V(f, u)
    BY <2>1
  <2>3. ASSUME NEW u \in SUBSET (1 .. n + 1)
        PROVE  g[u] = V(g, u)
    <3>1. CASE n + 1 \in u
      <4>1. Max(u) = n + 1
        BY <3>1, LargestIs
      <4>2. u \ {n + 1} \in SUBSET (1 .. n) /\ u \ {n + 1} \in SUBSET (1 .. n + 1)
        OBVIOUS
      <4>3. g[u \ {n + 1}] = f[u \ {n + 1}]
        BY <4>2
      <4> QED
        BY <3>1, <4>1, <4>3
    <3>2. CASE n + 1 \notin u
      <4>1. u \in SUBSET (1 .. n)
        BY <3>2
      <4>2. u \ {Max(u)} \in SUBSET (1 .. n) /\ u \ {Max(u)} \in SUBSET (1 .. n + 1)
        BY <4>1
      <4>3. g[u \ {Max(u)}] = f[u \ {Max(u)}] /\ g[u] = f[u]
        BY <3>2, <4>1, <4>2
      <4>4. f[u] = V(f, u)
        BY <2>2, <4>1
      <4> QED
        BY <4>3, <4>4
    <3> QED
      BY <3>1, <3>2
  <2>4. g = [u \in SUBSET (1 .. n + 1) |-> g[u]]
    OBVIOUS
  <2>5. Fold(g, n + 1)
    <3> HIDE DEF g
    <3> QED
      BY <2>3, <2>4
  <2> HIDE DEF Fold, g
  <2> QED
    BY <2>5
<1>3. \E f : Fold(f, Len(s))
  <2>1. Len(s) \in Nat
    OBVIOUS
  <2> HIDE DEF S
  <2>2. Len(s) \in S
    BY <1>1, <1>2, <2>1, SetInduction
  <2> QED
    BY <2>2 DEF S
<1>4. PICK f : Fold(f, Len(s)) /\ BytesOf(s) = f[1 .. Len(s)]
  <2>1. Fold(CHOOSE f : Fold(f, Len(s)), Len(s))
    BY <1>3
  <2>2. DOMAIN s = 1 .. Len(s)
    OBVIOUS
  <2>3. BytesOf(s) = (CHOOSE f : Fold(f, Len(s)))[1 .. Len(s)]
    BY <2>2 DEF BytesOf, FoldLeft, MapThenFoldSet
  <2> QED
    BY <2>1, <2>3
<1> DEFINE p == [n \in 0 .. Len(s) |-> f[1 .. n]]
<1>5. \A u \in SUBSET (1 .. Len(s)) :
        f[u] = IF u = {} THEN 0 ELSE f[u \ {Max(u)}] + s[Max(u)].bytes
  BY <1>4
<1> HIDE DEF Fold, S
<1>6. p[0] = 0
  <2>1. f[{}] = 0
    BY <1>5
  <2>2. 1 .. 0 = {} /\ 0 \in 0 .. Len(s)
    OBVIOUS
  <2> QED
    BY <2>1, <2>2
<1>7. ASSUME NEW n \in 1 .. Len(s)
      PROVE  p[n] = p[n - 1] + s[n].bytes
  <2>1. n \in Nat /\ 1 .. n \in SUBSET (1 .. Len(s)) /\ 1 .. n # {} /\ n \in 1 .. n
    OBVIOUS
  <2>2. Max(1 .. n) = n
    BY <2>1, LargestIs
  <2>3. (1 .. n) \ {n} = 1 .. n - 1
    OBVIOUS
  <2>4. f[1 .. n] = f[1 .. n - 1] + s[n].bytes
    BY <1>5, <2>1, <2>2, <2>3
  <2> QED
    BY <2>4
<1>8. BytesOf(s) = p[Len(s)]
  BY <1>4
<1> QED
  BY <1>6, <1>7, <1>8 DEF Sums

(* A row has a length.                                                      *)
LEMMA RowBytes ==
  ASSUME NEW row \in Row
  PROVE  row.bytes \in Nat
<1>1. row.bytes \in 0 .. ChunkBytes
  BY DEF Row
<1> QED
  BY <1>1, ByteLimitsAssumption

(* Sums are numbers, and those of two queues that begin alike are alike.    *)
LEMMA SumsAgree ==
  ASSUME NEW s \in Seq(Row), NEW r \in Seq(Row), NEW p, NEW q, Sums(p, s), Sums(q, r),
         NEW m \in 0 .. Len(s), m <= Len(r), \A i \in 1 .. m : s[i] = r[i]
  PROVE  p[m] = q[m] /\ p[m] \in Nat
<1> DEFINE S == {n \in Nat : n <= m => p[n] = q[n] /\ p[n] \in Nat}
<1>1. 0 \in S
  BY DEF Sums
<1>2. ASSUME NEW n \in Nat, n \in S
      PROVE  n + 1 \in S
  <2>1. CASE n + 1 <= m
    <3>1. n + 1 \in 1 .. Len(s) /\ n + 1 \in 1 .. Len(r) /\ n + 1 \in 1 .. m /\ n <= m
      BY <2>1
    <3>2. p[n + 1] = p[n] + s[n + 1].bytes /\ q[n + 1] = q[n] + r[n + 1].bytes
      BY <3>1 DEF Sums
    <3>3. s[n + 1].bytes \in Nat /\ s[n + 1] = r[n + 1]
      BY <3>1, RowBytes
    <3> QED
      BY <1>2, <3>1, <3>2, <3>3
  <2> QED
    BY <2>1
<1>3. Nat \subseteq S
  <2> HIDE DEF S
  <2> QED
    BY <1>1, <1>2, SetInduction
<1> QED
  BY <1>3

(* The bytes of a queue are a number, none for an empty one.                *)
LEMMA BytesOfNat ==
  ASSUME NEW s \in Seq(Row)
  PROVE  BytesOf(s) \in Nat
<1>1. PICK p : Sums(p, s) /\ BytesOf(s) = p[Len(s)]
  BY BytesOfSums
<1>2. Len(s) \in 0 .. Len(s) /\ Len(s) <= Len(s)
  OBVIOUS
<1> QED
  BY <1>1, <1>2, SumsAgree

(* An empty queue has none.                                                 *)
LEMMA BytesOfNone == BytesOf(<<>>) = 0
<1>1. <<>> \in Seq(Row) /\ Len(<<>>) = 0
  OBVIOUS
<1>2. PICK p : Sums(p, <<>>) /\ BytesOf(<<>>) = p[0]
  BY <1>1, BytesOfSums
<1> QED
  BY <1>2 DEF Sums

(* A row at the end adds its bytes.                                         *)
LEMMA BytesOfAppend ==
  ASSUME NEW s \in Seq(Row), NEW row \in Row
  PROVE  BytesOf(Append(s, row)) = BytesOf(s) + row.bytes
<1> DEFINE r == Append(s, row)
<1>1. r \in Seq(Row) /\ Len(r) = Len(s) + 1 /\ r[Len(s) + 1] = row
      /\ \A i \in 1 .. Len(s) : s[i] = r[i]
  OBVIOUS
<1> HIDE DEF r
<1>2. PICK p : Sums(p, s) /\ BytesOf(s) = p[Len(s)]
  BY BytesOfSums
<1>3. PICK q : Sums(q, r) /\ BytesOf(r) = q[Len(s) + 1]
  BY <1>1, BytesOfSums
<1>4. Len(s) \in Nat /\ Len(s) \in 0 .. Len(s) /\ Len(s) <= Len(r)
  BY <1>1
<1>5. p[Len(s)] = q[Len(s)]
  BY <1>1, <1>2, <1>3, <1>4, SumsAgree, SMTT(30)
<1>6. q[Len(s) + 1] = q[Len(s)] + row.bytes
  BY <1>1, <1>3, <1>4 DEF Sums
<1> QED
  BY <1>2, <1>3, <1>5, <1>6 DEF r

(* A batch and the rows behind it share the bytes of a queue.               *)
LEMMA BytesOfParts ==
  ASSUME NEW s \in Seq(Row), NEW n \in 0 .. Len(s)
  PROVE  BytesOf(s) = BytesOf(SubSeq(s, 1, n)) + BytesOf(SubSeq(s, n + 1, Len(s)))
<1> DEFINE a == SubSeq(s, 1, n)
           b == SubSeq(s, n + 1, Len(s))
<1>1. a \in Seq(Row) /\ Len(a) = n /\ \A i \in 1 .. n : s[i] = a[i]
  OBVIOUS
<1>2. b \in Seq(Row) /\ Len(b) = Len(s) - n /\ \A i \in 1 .. Len(b) : b[i] = s[n + i]
  BY FrontRemoved
<1> HIDE DEF a, b
<1>3. PICK p : Sums(p, s) /\ BytesOf(s) = p[Len(s)]
  BY BytesOfSums
<1>4. PICK q : Sums(q, a) /\ BytesOf(a) = q[n]
  BY <1>1, BytesOfSums
<1>5. PICK r : Sums(r, b) /\ BytesOf(b) = r[Len(b)]
  BY <1>2, BytesOfSums
<1>6. p[n] = q[n] /\ p[n] \in Nat
  BY <1>1, <1>3, <1>4, SumsAgree
<1> DEFINE S == {k \in Nat : k <= Len(b) => r[k] \in Nat /\ p[n + k] = p[n] + r[k]}
<1>7. 0 \in S
  BY <1>5, <1>6 DEF Sums
<1>8. ASSUME NEW k \in Nat, k \in S
      PROVE  k + 1 \in S
  <2>1. CASE k + 1 <= Len(b)
    <3>1. /\ k + 1 \in 1 .. Len(b) /\ n + (k + 1) \in 1 .. Len(s) /\ k <= Len(b)
          /\ n + (k + 1) - 1 = n + k /\ k + 1 - 1 = k
      BY <1>2, <2>1
    <3>2. r[k + 1] = r[k] + b[k + 1].bytes
      BY <1>5, <3>1 DEF Sums
    <3>3. p[n + (k + 1)] = p[n + k] + s[n + (k + 1)].bytes
      BY <1>3, <3>1 DEF Sums
    <3>4. b[k + 1] = s[n + (k + 1)] /\ b[k + 1].bytes \in Nat
      BY <1>2, <3>1, RowBytes, SMTT(30)
    <3> QED
      BY <1>6, <1>8, <3>1, <3>2, <3>3, <3>4, SMTT(30)
  <2> QED
    BY <2>1
<1>9. Nat \subseteq S
  <2> HIDE DEF S
  <2> QED
    BY <1>7, <1>8, SetInduction
<1>10. Len(b) \in Nat /\ n + Len(b) = Len(s)
  BY <1>2
<1>11. p[n + Len(b)] = p[n] + r[Len(b)]
  BY <1>9, <1>10
<1> QED
  BY <1>3, <1>4, <1>5, <1>6, <1>10, <1>11 DEF a, b

-----------------------------------------------------------------------------
(* The queue's account.                                                     *)

(* A step that leaves the queue alone or empties it keeps the account.      *)
LEMMA AccountKept ==
  ASSUME QueueAccounting, UNCHANGED <<rows, bytes>> \/ (rows' = <<>> /\ bytes' = 0)
  PROVE  QueueAccounting'
<1>1. CASE UNCHANGED <<rows, bytes>>
  BY <1>1 DEF QueueAccounting
<1>2. CASE rows' = <<>> /\ bytes' = 0
  <2>1. bytes' = BytesOf(rows')
    BY <1>2, BytesOfNone
  <2> QED
    BY <1>2, <2>1, RowLimitsAssumption, ByteLimitsAssumption DEF QueueAccounting
<1> QED
  BY <1>1, <1>2

(* So does a row that fits.                                                 *)
LEMMA AppendAccounted ==
  ASSUME JobIInv, QueueAccounting, EnqueueRow
  PROVE  QueueAccounting'
<1> DEFINE row == [id |-> nextId, prompt |-> promptId, kind |-> pc, bytes |-> chunk]
<1>1. rows \in Seq(Row) /\ chunk \in Nat
  BY ByteLimitsAssumption DEF JobIInv, JobTypeOK
<1>2. row \in Row /\ row.bytes = chunk
  BY DEF JobIInv, JobTypeOK, Row, EnqueueRow
<1>3. rows' = Append(rows, row) /\ bytes' = bytes + chunk
  BY DEF EnqueueRow, AppendRow
<1> HIDE DEF row
<1>4. bytes' = BytesOf(rows')
  BY <1>1, <1>2, <1>3, BytesOfAppend DEF QueueAccounting
<1>5. Len(rows) < QueueRows /\ bytes + chunk <= QueueBytes
  BY DEF EnqueueRow, Fits
<1>6. Len(rows') = Len(rows) + 1 /\ Len(rows) \in Nat
  BY <1>1, <1>2, <1>3
<1> QED
  BY <1>3, <1>4, <1>5, <1>6, RowLimitsAssumption DEF QueueAccounting

(* And a batch, whose bytes the code subtracts without a check.             *)
LEMMA TransferAccounted ==
  ASSUME JobIInv, QueueAccounting, MainDrain
  PROVE  QueueAccounting'
<1>1. PICK n \in 0 .. BatchRows : IsBatch(n) /\ Transfer(n)
  BY DEF MainDrain
<1>2. rows \in Seq(Row) /\ n \in 0 .. Len(rows)
  BY <1>1, RowLimitsAssumption DEF IsBatch, BatchLengths, JobIInv, JobTypeOK
<1> DEFINE a == SubSeq(rows, 1, n)
           b == SubSeq(rows, n + 1, Len(rows))
<1>3. rows' = b /\ bytes' = bytes - BytesOf(a)
  BY <1>1 DEF Transfer
<1>4. a \in Seq(Row) /\ b \in Seq(Row) /\ Len(b) = Len(rows) - n
  BY <1>2, FrontRemoved
<1>5. BytesOf(rows) = BytesOf(a) + BytesOf(b)
  BY <1>2, BytesOfParts
<1> HIDE DEF a, b
<1>6. BytesOf(a) \in Nat /\ BytesOf(b) \in Nat
  BY <1>4, BytesOfNat
<1>7. bytes' = BytesOf(rows') /\ bytes' <= bytes /\ bytes \in Nat
  BY <1>3, <1>5, <1>6 DEF QueueAccounting
<1>8. Len(rows') <= Len(rows) /\ Len(rows') \in Nat /\ Len(rows) \in Nat
  BY <1>2, <1>3, <1>4
<1> QED
  BY <1>3, <1>6, <1>7, <1>8, RowLimitsAssumption, ByteLimitsAssumption DEF QueueAccounting

(* Every step keeps the account.                                            *)
LEMMA AccountingKept == JobIInv /\ QueueAccounting /\ [Next]_jobVars => QueueAccounting'
<1> SUFFICES ASSUME JobIInv, QueueAccounting, [Next]_jobVars PROVE QueueAccounting'
  OBVIOUS
<1>1. CASE EnqueueRow
  BY <1>1, AppendAccounted
<1>2. CASE MainDrain
  BY <1>2, TransferAccounted
<1>3. CASE ~EnqueueRow /\ ~MainDrain
  <2>1. UNCHANGED <<rows, bytes>> \/ (rows' = <<>> /\ bytes' = 0)
    BY <1>3 DEF Next, WorkerNext, WorkerEnter, PromptStarted, Sampled, PromptCompleted,
       DecodeFails, EnqueueNothing, EnqueueRefused, EnqueueWait, Publish, WorkerReturn,
       MainStart, Start, NewControl, MainCancel, RequestCancel, MainDiscard, DiscardStream,
       Join, jobVars, control
  <2> QED
    BY <2>1, AccountKept
<1> QED
  BY <1>1, <1>2, <1>3

(* The byte counter is the sum of the queued texts and never passes the     *)
(* limit, for all limits and texts, whatever is appended, handed over,      *)
(* discarded or cancelled (enqueue, drain_stream, discard_stream, publish). *)
THEOREM JobQueueAccounting == Spec => []QueueAccounting
<1>1. JobInit => QueueAccounting
  <2> SUFFICES ASSUME JobInit PROVE QueueAccounting
    OBVIOUS
  <2>1. rows = <<>> /\ bytes = BytesOf(rows) /\ bytes = 0
    BY BytesOfNone DEF JobInit
  <2> QED
    BY <2>1, RowLimitsAssumption, ByteLimitsAssumption DEF QueueAccounting
<1> QED
  BY <1>1, JobInvariant, AccountingKept, PTL DEF Spec

-----------------------------------------------------------------------------
(* The boundary.                                                            *)

Known(j) == jobs[j].verdict # "unsubmitted"
AllGone == \A h \in Handles : model[h] = "gone"

(* The reservation, the worker and the registry are of one job; only the    *)
(* shutdown takes the job out of the registry before it joins the worker.   *)
ControlInv ==
  /\ pc = "none" <=> reserved = NoJob
  /\ At("join") => registry = NoRegistry
  /\ ~At("join") => registry.job = reserved
  /\ registry.job = NoJob => registry = NoRegistry
  /\ registry.collected => pc = "joined"
  /\ registry.discarded =>
       closed[Owner(registry.job)] \/ jobs[registry.job].failure
  /\ reserved # NoJob =>
       /\ streaming = Streaming(reserved)
       /\ reserved \in accepted => cancelled
       /\ Known(reserved)
  /\ At("decide") => registry.job = Top.job
  /\ \A j \in accepted : Known(j)

(* A job that somebody will poll again is rooted, and has the engine unless *)
(* a shutdown has taken it away for good.                                   *)
Awaited(j) == rooted = j /\ (reserved = j \/ AllGone)

(* One poll in progress.                                                    *)
FrameOK(f) ==
  /\ f.job = NoJob => f.at \in {"lost", "join"}
  /\ f.job # NoJob => Known(f.job) /\ ~jobs[f.job].timer
  /\ f.at \notin {"onFinal", "lost", "join"} /\ Unsettled(f.job) => Awaited(f.job)
  /\ f.at = "onFinal" =>
       /\ reserved # f.job
       /\ f.job \notin accepted
       /\ ~jobs[f.job].failure
       /\ Streaming(f.job) => jobs[f.job].prompt = Prompts + 1

(* No two polls are of one job, and all but the innermost are in callbacks. *)
StackInv ==
  /\ \A i \in 1 .. Len(stack) : FrameOK(stack[i])
  /\ \A i \in 2 .. Len(stack) : stack[i].at \in UserPlaces
  /\ \A i, k \in 1 .. Len(stack) : stack[i].job = stack[k].job => i = k

(* Somebody comes back for every reservation.                               *)
TimerInv ==
  /\ \A j \in Jobs : jobs[j].timer => Unsettled(j) /\ Awaited(j)
  /\ reserved # NoJob =>
       \/ At("join")
       \/ At("lost") /\ ~NothingLost
       \/ Unsettled(reserved) /\ (jobs[reserved].timer \/ Polling(reserved))

(* The unload is over: nothing is left and nothing comes back.              *)
Ending == At("join") \/ (At("lost") /\ Top.job = NoJob)
UnloadInv ==
  /\ At("join") => stopping
  /\ At("lost") /\ Top.job = NoJob => stopping
  /\ stopping /\ ~Ending =>
       /\ AllGone /\ rooted = NoJob
       /\ \A j \in Jobs : ~jobs[j].timer
       /\ At("lost") => ~Unsettled(Top.job)
  /\ At("join") /\ Top.job = NoJob => \A j \in Jobs : ~jobs[j].timer

(* What a promise has settled with.                                         *)
VerdictInv ==
  /\ \A j \in Jobs : jobs[j].failure =>
       \/ jobs[j].verdict \in {"pending", "consumer", "internal"}
       \/ /\ jobs[j].verdict = "cancelled" /\ stopping
          /\ ~(At("join") /\ Top.job # NoJob)
  /\ ResolvedIsComplete

BoundaryInv ==
  /\ JobIInv /\ TypeOK
  /\ ControlInv
  /\ OwnershipAccounted
  /\ StackInv
  /\ TimerInv
  /\ UnloadInv
  /\ VerdictInv

-----------------------------------------------------------------------------
(***************************************************************************)
(* The stack of polls.                                                     *)
(***************************************************************************)
Frame == [job : Jobs \cup {NoJob}, at : Places, ready : BOOLEAN]

(* The innermost poll.                                                      *)
LEMMA StackTop ==
  ASSUME stack \in Seq(Frame), stack # <<>>
  PROVE  /\ Len(stack) \in Nat \ {0}
         /\ Top = stack[1] /\ Top \in Frame
BY DEF Top

(* A stack whose innermost frame is replaced.                               *)
LEMMA Replaced ==
  ASSUME stack \in Seq(Frame), stack # <<>>, NEW f \in Frame,
         stack' = <<f>> \o Tail(stack)
  PROVE  /\ stack' \in Seq(Frame) /\ stack' # <<>> /\ Len(stack') = Len(stack)
         /\ Top' = f /\ stack'[1] = f
         /\ \A i \in 2 .. Len(stack) : stack'[i] = stack[i]
<1>1. /\ Tail(stack) \in Seq(Frame) /\ Len(Tail(stack)) = Len(stack) - 1
      /\ \A i \in 1 .. Len(stack) - 1 : Tail(stack)[i] = stack[i + 1]
      /\ Len(stack) \in Nat \ {0}
  OBVIOUS
<1>2. <<f>> \in Seq(Frame) /\ Len(<<f>>) = 1 /\ <<f>>[1] = f
  OBVIOUS
<1> QED
  BY <1>1, <1>2 DEF Top

(* A stack with one more frame.                                             *)
LEMMA Pushed ==
  ASSUME stack \in Seq(Frame), NEW f \in Frame, stack' = <<f>> \o stack
  PROVE  /\ stack' \in Seq(Frame) /\ stack' # <<>> /\ Len(stack') = Len(stack) + 1
         /\ Top' = f /\ stack'[1] = f
         /\ \A i \in 1 .. Len(stack) : stack'[i + 1] = stack[i]
<1>1. <<f>> \in Seq(Frame) /\ Len(<<f>>) = 1 /\ <<f>>[1] = f
  OBVIOUS
<1>2. Len(stack) \in Nat
  OBVIOUS
<1> QED
  BY <1>1, <1>2 DEF Top

(* A stack whose innermost poll ended.                                      *)
LEMMA Popped ==
  ASSUME stack \in Seq(Frame), stack # <<>>, Pop
  PROVE  /\ stack' \in Seq(Frame) /\ Len(stack') = Len(stack) - 1
         /\ \A i \in 1 .. Len(stack) - 1 : stack'[i] = stack[i + 1]
         /\ stack' # <<>> => Len(stack) > 1 /\ Top' = stack[2]
BY DEF Pop, Top

(* A step that replaces the innermost frame and keeps the others.           *)
LEMMA StackReplaced ==
  ASSUME stack \in Seq(Frame), stack # <<>>, StackInv,
         NEW f \in Frame, f.job = Top.job, stack' = <<f>> \o Tail(stack),
         FrameOK(f)',
         \A g \in Frame : FrameOK(g) /\ g.job # Top.job => FrameOK(g)'
  PROVE  StackInv' /\ (\A j \in Jobs : Polling(j)' <=> Polling(j))
<1>1. /\ stack' \in Seq(Frame) /\ Len(stack') = Len(stack) /\ stack'[1] = f
      /\ \A i \in 2 .. Len(stack) : stack'[i] = stack[i]
  BY Replaced
<1>2. Len(stack) \in Nat \ {0} /\ Top = stack[1]
  BY StackTop
<1>3. \A i \in 1 .. Len(stack) : stack'[i].job = stack[i].job
  BY <1>1, <1>2
<1>4. ASSUME NEW i \in 2 .. Len(stack) PROVE FrameOK(stack[i])'
  <2>1. stack[i] \in Frame /\ i \in 1 .. Len(stack) /\ i # 1
    BY <1>2
  <2>2. stack[i].job # Top.job /\ FrameOK(stack[i])
    BY <1>2, <2>1 DEF StackInv
  <2> DEFINE g == stack[i]
  <2>3. PICK h \in Frame : h = g
    BY <2>1
  <2>4. FrameOK(h)'
    BY <2>2, <2>3
  <2>5. stack'[i] = h
    BY <1>1, <2>3
  <2> QED
    BY <2>4, <2>5 DEF FrameOK, Known, Unsettled, Awaited, Streaming, AllGone
<1>5. FrameOK(stack[1])'
  BY <1>1 DEF FrameOK, Known, Unsettled, Awaited, Streaming, AllGone
<1>6. \A i \in 1 .. Len(stack') : FrameOK(stack[i])'
  BY <1>1, <1>2, <1>4, <1>5
<1>7. /\ \A i \in 2 .. Len(stack') : stack'[i].at \in UserPlaces
      /\ \A i, k \in 1 .. Len(stack') : stack'[i].job = stack'[k].job => i = k
  BY <1>1, <1>3 DEF StackInv
<1> QED
  BY <1>1, <1>3, <1>6, <1>7 DEF StackInv, Polling

(* A step that starts a poll over the others.                               *)
LEMMA StackPushed ==
  ASSUME stack \in Seq(Frame), StackInv, UserCode,
         NEW f \in Frame, stack' = <<f>> \o stack,
         \A i \in 1 .. Len(stack) : stack[i].job # f.job,
         FrameOK(f)',
         \A g \in Frame : FrameOK(g) /\ g.job # f.job => FrameOK(g)'
  PROVE  /\ StackInv' /\ Polling(f.job)'
         /\ \A j \in Jobs : Polling(j) => Polling(j)'
<1>1. /\ stack' \in Seq(Frame) /\ Len(stack') = Len(stack) + 1 /\ stack'[1] = f
      /\ \A i \in 1 .. Len(stack) : stack'[i + 1] = stack[i]
      /\ Len(stack) \in Nat
  BY Pushed
<1>2. \A i \in 2 .. Len(stack') : i - 1 \in 1 .. Len(stack) /\ stack'[i] = stack[i - 1]
  <2> TAKE i \in 2 .. Len(stack')
  <2>1. i - 1 \in 1 .. Len(stack) /\ (i - 1) + 1 = i
    BY <1>1
  <2> QED
    BY <1>1, <2>1
<1>3. ASSUME NEW i \in 2 .. Len(stack') PROVE FrameOK(stack[i])'
  <2>1. stack[i - 1] \in Frame /\ i - 1 \in 1 .. Len(stack)
    BY <1>1, <1>2
  <2>2. PICK h \in Frame : h = stack[i - 1]
    BY <2>1
  <2>3. FrameOK(h) /\ h.job # f.job
    BY <2>1, <2>2 DEF StackInv
  <2>4. FrameOK(h)' /\ stack'[i] = h
    BY <1>2, <2>2, <2>3
  <2> QED
    BY <2>4 DEF FrameOK, Known, Unsettled, Awaited, Streaming, AllGone
<1>4. FrameOK(stack[1])'
  BY <1>1 DEF FrameOK, Known, Unsettled, Awaited, Streaming, AllGone
<1>5. ASSUME NEW i \in 1 .. Len(stack') PROVE FrameOK(stack[i])'
  <2>1. CASE i = 1
    BY <1>4, <2>1
  <2>2. CASE i # 1
    <3>1. i \in 2 .. Len(stack')
      BY <1>1, <2>2
    <3> QED
      BY <1>3, <3>1
  <2> QED
    BY <2>1, <2>2
<1>6. ASSUME NEW i \in 2 .. Len(stack') PROVE stack'[i].at \in UserPlaces
  <2>1. CASE i = 2
    <3>1. stack # <<>> /\ stack'[i] = stack[1]
      BY <1>1, <1>2, <2>1
    <3> QED
      BY <3>1, StackTop DEF UserCode
  <2>2. CASE i # 2
    <3>1. i - 1 \in 2 .. Len(stack)
      BY <1>1, <1>2, <2>2
    <3> QED
      BY <1>2, <3>1 DEF StackInv
  <2> QED
    BY <2>1, <2>2
<1>7. ASSUME NEW i \in 1 .. Len(stack'), NEW k \in 1 .. Len(stack'),
             stack'[i].job = stack'[k].job
      PROVE  i = k
  <2>1. CASE i = 1 \/ k = 1
    <3>1. \A m \in 2 .. Len(stack') : stack'[m].job # f.job
      BY <1>2
    <3>2. stack'[1].job = f.job
      BY <1>1
    <3> QED
      BY <1>1, <1>7, <2>1, <3>1, <3>2
  <2>2. CASE i # 1 /\ k # 1
    <3>1. /\ i \in 2 .. Len(stack') /\ k \in 2 .. Len(stack')
      BY <1>1, <2>2
    <3>2. i - 1 = k - 1
      BY <1>2, <1>7, <3>1 DEF StackInv
    <3> QED
      BY <3>1, <3>2
  <2> QED
    BY <2>1, <2>2
<1>8. Polling(f.job)' /\ \A j \in Jobs : Polling(j) => Polling(j)'
  <2>1. Polling(f.job)'
    BY <1>1 DEF Polling
  <2>2. ASSUME NEW j \in Jobs, NEW i \in 1 .. Len(stack), stack[i].job = j
        PROVE  Polling(j)'
    <3>1. i + 1 \in 1 .. Len(stack') /\ stack'[i + 1].job = j
      BY <1>1, <2>2
    <3> QED
      BY <3>1 DEF Polling
  <2> QED
    BY <2>1, <2>2 DEF Polling
<1> QED
  BY <1>5, <1>6, <1>7, <1>8 DEF StackInv

(* A step that ends the innermost poll.                                     *)
LEMMA StackPopped ==
  ASSUME stack \in Seq(Frame), stack # <<>>, StackInv, Pop,
         \A g \in Frame : FrameOK(g) /\ g.job # Top.job => FrameOK(g)'
  PROVE  /\ StackInv'
         /\ stack' # <<>> => Top'.at \in UserPlaces
         /\ \A j \in Jobs : Polling(j) /\ j # Top.job => Polling(j)'
<1>1. /\ stack' \in Seq(Frame) /\ Len(stack') = Len(stack) - 1
      /\ \A i \in 1 .. Len(stack) - 1 : stack'[i] = stack[i + 1]
      /\ stack' # <<>> => Len(stack) > 1 /\ Top' = stack[2]
      /\ Len(stack) \in Nat \ {0} /\ Top = stack[1]
  BY Popped, StackTop
<1>2. ASSUME NEW i \in 1 .. Len(stack') PROVE FrameOK(stack[i])'
  <2>1. i + 1 \in 2 .. Len(stack) /\ stack[i + 1] \in Frame
    BY <1>1
  <2>2. PICK h \in Frame : h = stack[i + 1]
    BY <2>1
  <2>3. FrameOK(h) /\ h.job # Top.job
    <3>1. i + 1 \in 1 .. Len(stack) /\ 1 \in 1 .. Len(stack) /\ i + 1 # 1
      BY <1>1, <2>1
    <3> QED
      BY <1>1, <2>2, <3>1 DEF StackInv
  <2>4. FrameOK(h)' /\ stack'[i] = h
    BY <1>1, <2>2, <2>3
  <2> QED
    BY <2>4 DEF FrameOK, Known, Unsettled, Awaited, Streaming, AllGone
<1>3. ASSUME NEW i \in 2 .. Len(stack') PROVE stack'[i].at \in UserPlaces
  <2>1. i + 1 \in 2 .. Len(stack) /\ stack'[i] = stack[i + 1]
    BY <1>1
  <2> QED
    BY <2>1 DEF StackInv
<1>4. ASSUME NEW i \in 1 .. Len(stack'), NEW k \in 1 .. Len(stack'),
             stack'[i].job = stack'[k].job
      PROVE  i = k
  <2>1. /\ i + 1 \in 1 .. Len(stack) /\ stack'[i] = stack[i + 1]
        /\ k + 1 \in 1 .. Len(stack) /\ stack'[k] = stack[k + 1]
    BY <1>1
  <2>2. i + 1 = k + 1
    BY <1>4, <2>1 DEF StackInv
  <2> QED
    BY <2>2
<1>5. stack' # <<>> => Top'.at \in UserPlaces
  <2> SUFFICES ASSUME stack' # <<>> PROVE Top'.at \in UserPlaces
    OBVIOUS
  <2>1. 2 \in 2 .. Len(stack) /\ Top' = stack[2]
    BY <1>1
  <2> QED
    BY <2>1 DEF StackInv
<1>6. ASSUME NEW j \in Jobs, NEW i \in 1 .. Len(stack), stack[i].job = j, j # Top.job
      PROVE  Polling(j)'
  <2>1. i # 1
    BY <1>1, <1>6
  <2>2. i - 1 \in 1 .. Len(stack') /\ (i - 1) + 1 = i
    BY <1>1, <2>1
  <2>3. stack'[i - 1].job = j
    BY <1>1, <1>6, <2>2
  <2> QED
    BY <2>2, <2>3 DEF Polling
<1> QED
  BY <1>2, <1>3, <1>4, <1>5, <1>6 DEF StackInv, Polling

(* A step that leaves the stack alone.                                      *)
LEMMA StackSame ==
  ASSUME stack \in Seq(Frame), StackInv, UNCHANGED stack,
         \A g \in Frame : FrameOK(g) => FrameOK(g)'
  PROVE  StackInv' /\ \A j \in Jobs : Polling(j)' <=> Polling(j)
<1>1. ASSUME NEW i \in 1 .. Len(stack) PROVE FrameOK(stack[i])'
  <2>1. PICK h \in Frame : h = stack[i]
    OBVIOUS
  <2>2. FrameOK(h)' /\ stack'[i] = h
    BY <2>1 DEF StackInv
  <2> QED
    BY <2>2 DEF FrameOK, Known, Unsettled, Awaited, Streaming, AllGone
<1> QED
  BY <1>1 DEF StackInv, Polling

-----------------------------------------------------------------------------
(***************************************************************************)
(* Types, and what is known of the innermost poll.                         *)
(***************************************************************************)
Job == [owner : Handles, mode : Modes, verdict : Verdicts, timer : BOOLEAN,
        failure : BOOLEAN, events : Nat, prompt : 1 .. Prompts + 1]
Registry == [job : Jobs \cup {NoJob}, discarded : BOOLEAN, collected : BOOLEAN]
Special == {"onFinal", "lost", "join"}

MainTypes ==
  /\ reserved \in Jobs \cup {NoJob}
  /\ model \in [Handles -> {"handle", "job", "deferred", "gone"}]
  /\ closed \in [Handles -> BOOLEAN]
  /\ rClosed \in [Handles -> BOOLEAN]
  /\ registry \in Registry
  /\ jobs \in [Jobs -> Job]
  /\ rooted \in Jobs \cup {NoJob}
  /\ stopping \in BOOLEAN
  /\ stack \in Seq(Frame)
  /\ accepted \in SUBSET Jobs

(* The types are those of the job and those of the main thread.             *)
LEMMA TypesSplit == (TypeOK <=> JobTypeOK /\ MainTypes) /\ (TypeOK' <=> JobTypeOK' /\ MainTypes')
BY DEF TypeOK, MainTypes, Registry, Job, Frame

(* What is known of the innermost poll.                                     *)
LEMMA TopOK ==
  ASSUME MainTypes, StackInv, stack # <<>>
  PROVE  /\ Top \in Frame /\ Top.job \in Jobs \cup {NoJob} /\ Top.at \in Places
         /\ FrameOK(Top) /\ Polling(Top.job)
         /\ Top.at \notin {"lost", "join"} => Top.job \in Jobs /\ Known(Top.job)
         /\ Top.at \notin Special /\ Unsettled(Top.job) => Awaited(Top.job)
<1>1. Top \in Frame /\ Top = stack[1] /\ 1 \in 1 .. Len(stack)
  BY StackTop DEF MainTypes
<1>2. FrameOK(Top)
  BY <1>1 DEF StackInv
<1>3. Polling(Top.job)
  BY <1>1 DEF Polling
<1> QED
  BY <1>1, <1>2, <1>3 DEF FrameOK, Frame, Special

(* The innermost poll goes to another place.                                *)
Replaces(place) ==
  \E f \in Frame : f.job = Top.job /\ f.at = place /\ stack' = <<f>> \o Tail(stack)

(* Moving on, and delivering, replace the innermost frame.                  *)
LEMMA GotoReplaces ==
  ASSUME MainTypes, stack # <<>>, NEW place \in Places,
         Goto(place) \/ (\E j, n : Deliver(j, n, place) /\ DeliveryReady(n) \in BOOLEAN)
  PROVE  Replaces(place)
<1>1. Top \in Frame
  BY StackTop DEF MainTypes
<1>2. CASE Goto(place)
  <2> DEFINE f == [Top EXCEPT !.at = place]
  <2>1. f \in Frame /\ f.job = Top.job /\ f.at = place
    BY <1>1 DEF Frame
  <2> QED
    BY <1>2, <2>1 DEF Goto, Replaces
<1>3. ASSUME NEW j, NEW n, Deliver(j, n, place), DeliveryReady(n) \in BOOLEAN
      PROVE  Replaces(place)
  <2> DEFINE f == [Top EXCEPT !.at = place, !.ready = DeliveryReady(n)]
  <2>1. f \in Frame /\ f.job = Top.job /\ f.at = place
    BY <1>1, <1>3 DEF Frame
  <2> QED
    BY <1>3, <2>1 DEF Deliver, Replaces
<1> QED
  BY <1>2, <1>3

(* What such a step may do to the job of that poll.                         *)
JobMoved ==
  /\ \A k \in Jobs :
       /\ jobs'[k].owner = jobs[k].owner /\ jobs'[k].mode = jobs[k].mode
       /\ jobs'[k].verdict = jobs[k].verdict /\ jobs'[k].timer = jobs[k].timer
       /\ jobs[k].failure => jobs'[k].failure
  /\ \A k \in Jobs \ {Top.job} : jobs'[k] = jobs[k]
  /\ Unsettled(Top.job) \/ jobs'[Top.job] = jobs[Top.job]

(* A step of a poll in progress that neither settles its job nor gives the  *)
(* engine back.                                                             *)
LEMMA MovedStep ==
  ASSUME BoundaryInv, JobIInv', MainTypes', stack # <<>>, Top.at \notin Special,
         NEW place \in Places \ {"onFinal", "join"}, Replaces(place), JobMoved,
         UNCHANGED <<reserved, model, closed, rooted, stopping, accepted>>,
         registry'.job = registry.job,
         registry.job = NoJob => UNCHANGED registry,
         registry'.collected => pc' = "joined",
         registry'.discarded /\ ~registry.discarded =>
           closed[Owner(registry.job)] \/ jobs'[registry.job].failure,
         pc' = "none" <=> pc = "none",
         streaming' = streaming, cancelled => cancelled',
         place = "decide" => registry.job = Top.job
  PROVE  BoundaryInv'
<1>1. /\ MainTypes /\ StackInv /\ ControlInv /\ OwnershipAccounted /\ TimerInv
      /\ UnloadInv /\ VerdictInv
  BY TypesSplit DEF BoundaryInv
<1>2. /\ Top \in Frame /\ Top.job \in Jobs /\ FrameOK(Top) /\ Known(Top.job)
      /\ Unsettled(Top.job) => Awaited(Top.job)
  BY <1>1, TopOK DEF Special
<1>3. PICK f \in Frame : f.job = Top.job /\ f.at = place /\ stack' = <<f>> \o Tail(stack)
  BY DEF Replaces
<1>4. stack' # <<>> /\ Top' = f
  BY <1>1, <1>3, Replaced DEF MainTypes
<1>5. /\ ~At("join") /\ ~At("lost") /\ ~At("join")'
      /\ At("lost")' <=> place = "lost"
      /\ At("decide")' <=> place = "decide"
  BY <1>3, <1>4 DEF At, Special
<1>6. \A k \in Jobs : /\ Known(k)' <=> Known(k)
                      /\ Unsettled(k)' <=> Unsettled(k)
                      /\ Owner(k)' = Owner(k)
                      /\ Streaming(k)' <=> Streaming(k)
  BY DEF JobMoved, Known, Unsettled, Owner, Streaming
<1>7. AllGone' <=> AllGone
  BY DEF AllGone
<1>8. \A k : Awaited(k)' <=> Awaited(k)
  BY <1>7 DEF Awaited
<1>9. /\ \A j \in Jobs \ {Top.job} : jobs'[j] = jobs[j]
      /\ \A j \in Jobs : jobs'[j].timer = jobs[j].timer
      /\ \A j \in Jobs : jobs[j].failure => jobs'[j].failure
  BY DEF JobMoved
<1>10. ControlInv'
  <2>1. /\ registry' = NoRegistry \/ registry.job # NoJob
        /\ registry'.job = reserved'
        /\ registry'.job = NoJob => registry' = NoRegistry
    BY <1>1, <1>5 DEF ControlInv
  <2>2. registry'.discarded =>
          closed[jobs'[registry.job].owner] \/ jobs'[registry.job].failure
    <3>1. CASE registry.job = NoJob
      <4>1. registry' = NoRegistry /\ NoRegistry.discarded = FALSE
        BY <2>1, <3>1 DEF NoRegistry
      <4> QED
        BY <4>1
    <3>2. CASE registry.job \in Jobs
      <4>1. jobs'[registry.job].owner = Owner(registry.job)
        BY <3>2 DEF JobMoved, Owner
      <4>2. jobs[registry.job].failure => jobs'[registry.job].failure
        BY <1>9, <3>2
      <4> QED
        BY <1>1, <4>1, <4>2 DEF ControlInv
    <3> QED
      BY <1>1, <3>1, <3>2 DEF MainTypes, Registry
  <2>3. reserved' # NoJob =>
          /\ streaming' = Streaming(reserved)'
          /\ reserved' \in accepted' => cancelled'
          /\ Known(reserved)'
    BY <1>1, <1>6 DEF ControlInv, MainTypes, Streaming, Known
  <2>4. \A j \in accepted' : Known(j)'
    BY <1>1, <1>6 DEF ControlInv, MainTypes
  <2>5. pc' = "none" <=> reserved' = NoJob
    BY <1>1 DEF ControlInv
  <2>6. At("decide")' => registry'.job = Top'.job
    BY <1>3, <1>4, <1>5
  <2> QED
    BY <1>5, <2>1, <2>2, <2>3, <2>4, <2>5, <2>6 DEF ControlInv, Owner
<1>11. OwnershipAccounted'
  BY <1>1, <1>6 DEF OwnershipAccounted, MainTypes
<1>12. StackInv' /\ (\A j \in Jobs : Polling(j)' <=> Polling(j))
  <2>1. FrameOK(f)'
    BY <1>2, <1>3, <1>6, <1>8, <1>9 DEF FrameOK, Special
  <2>2. \A g \in Frame : FrameOK(g) /\ g.job # Top.job => FrameOK(g)'
    <3> TAKE g \in Frame
    <3> HAVE FrameOK(g) /\ g.job # Top.job
    <3>1. CASE g.job = NoJob
      BY <3>1 DEF FrameOK
    <3>2. CASE g.job \in Jobs
      <4>1. jobs'[g.job] = jobs[g.job]
        BY <1>9, <3>2
      <4> QED
        BY <1>6, <1>8, <3>2, <4>1 DEF FrameOK
    <3> QED
      BY <3>1, <3>2 DEF Frame
  <2> QED
    BY <1>1, <1>3, <2>1, <2>2, StackReplaced DEF MainTypes
<1>13. TimerInv'
  <2>1. \A j \in Jobs : jobs'[j].timer => Unsettled(j)' /\ Awaited(j)'
    BY <1>1, <1>6, <1>8, <1>9 DEF TimerInv
  <2>2. reserved' # NoJob => Unsettled(reserved)' /\ (jobs'[reserved'].timer \/ Polling(reserved)')
    <3> SUFFICES ASSUME reserved # NoJob
                 PROVE  Unsettled(reserved)' /\ (jobs'[reserved].timer \/ Polling(reserved)')
      BY DEF Polling
    <3>1. reserved \in Jobs
      BY <1>1 DEF MainTypes
    <3>2. Unsettled(reserved) /\ (jobs[reserved].timer \/ Polling(reserved))
      BY <1>1, <1>5 DEF TimerInv
    <3>3. PICK k \in Jobs : k = reserved
      BY <3>1
    <3>4. Unsettled(k)' /\ (jobs'[k].timer \/ Polling(k)')
      BY <1>6, <1>9, <1>12, <3>2, <3>3
    <3> QED
      BY <3>3, <3>4 DEF Unsettled, Polling
  <2> QED
    BY <2>1, <2>2 DEF TimerInv
<1>14. UnloadInv'
  <2>1. ~Ending /\ ~Ending'
    BY <1>2, <1>3, <1>4, <1>5 DEF Ending, Jobs, NoJob
  <2>2. stopping => AllGone' /\ rooted' = NoJob /\ \A j \in Jobs : ~jobs'[j].timer
    BY <1>1, <1>7, <1>9, <2>1 DEF UnloadInv
  <2>3. stopping => ~Unsettled(Top.job)'
    <3>1. stopping => ~Unsettled(Top.job)
      BY <1>1, <1>2, <2>1 DEF UnloadInv, Awaited, Jobs, NoJob
    <3> QED
      BY <1>2, <1>3, <1>4, <1>6, <3>1 DEF Unsettled, JobMoved
  <2>4. Top'.job # NoJob
    BY <1>2, <1>3, <1>4 DEF Jobs, NoJob
  <2> QED
    BY <1>5, <2>1, <2>2, <2>3, <2>4 DEF UnloadInv
<1>15. VerdictInv'
  <2>1. ASSUME NEW j \in Jobs, jobs'[j].failure
        PROVE  \/ jobs'[j].verdict \in {"pending", "consumer", "internal"}
               \/ jobs'[j].verdict = "cancelled" /\ stopping
    <3>1. jobs'[j].verdict = jobs[j].verdict
      BY DEF JobMoved
    <3>2. CASE jobs[j].failure
      BY <1>1, <3>1, <3>2 DEF VerdictInv
    <3>3. CASE ~jobs[j].failure
      <4>1. j = Top.job /\ Unsettled(Top.job)
        BY <2>1, <3>3 DEF JobMoved
      <4> QED
        BY <3>1, <4>1 DEF Unsettled
    <3> QED
      BY <3>2, <3>3
  <2>2. ResolvedIsComplete'
    <3>1. ASSUME NEW j \in Jobs, jobs'[j].verdict = "resolved"
          PROVE  jobs'[j] = jobs[j]
      BY <3>1 DEF JobMoved, Unsettled
    <3> QED
      BY <1>1, <1>6, <3>1 DEF VerdictInv, ResolvedIsComplete
  <2> QED
    BY <1>5, <2>1, <2>2 DEF VerdictInv
<1> QED
  BY <1>10, <1>11, <1>12, <1>13, <1>14, <1>15, TypesSplit DEF BoundaryInv, JobIInv

(* A step beside the polls: of the worker, the collector, or user code that *)
(* closes a handle or cancels.                                              *)
LEMMA BesideStep ==
  ASSUME BoundaryInv, JobIInv', MainTypes',
         UNCHANGED <<reserved, jobs, rooted, stopping, stack>>,
         OwnershipAccounted', AllGone => AllGone',
         \A h \in Handles : closed[h] => closed'[h],
         registry' = registry \/ (registry.job # NoJob /\ closed'[Owner(registry.job)]
                                   /\ registry' = [registry EXCEPT !.discarded = TRUE]),
         pc' = "none" <=> pc = "none", pc = "joined" => pc' = "joined",
         streaming' = streaming, cancelled => cancelled',
         accepted' = accepted \/
           (UserCode /\ registry.job # NoJob /\ cancelled'
             /\ accepted' = accepted \cup {registry.job})
  PROVE  BoundaryInv'
<1>1. /\ MainTypes /\ StackInv /\ ControlInv /\ OwnershipAccounted /\ TimerInv
      /\ UnloadInv /\ VerdictInv
  BY TypesSplit DEF BoundaryInv
<1>2. /\ At("join")' <=> At("join")
      /\ At("lost")' <=> At("lost")
      /\ At("decide")' <=> At("decide")
      /\ Top' = Top
  BY DEF At, Top
<1>3. \A j : /\ Known(j)' <=> Known(j)
             /\ Unsettled(j)' <=> Unsettled(j)
             /\ Owner(j)' = Owner(j)
             /\ Streaming(j)' <=> Streaming(j)
             /\ Polling(j)' <=> Polling(j)
             /\ Awaited(j) => Awaited(j)'
  BY DEF Known, Unsettled, Owner, Streaming, Polling, Awaited
<1>4. /\ registry'.job = registry.job /\ registry'.collected = registry.collected
      /\ registry'.discarded => registry.discarded \/ closed'[Owner(registry.job)]
      /\ registry.job = NoJob => registry' = registry
  BY <1>1 DEF MainTypes, Registry
<1>5. /\ accepted \subseteq accepted'
      /\ \A j \in accepted' \ accepted : j = reserved /\ reserved # NoJob /\ cancelled'
                                         /\ Unsettled(reserved) /\ Known(reserved)
  <2>1. CASE accepted' = accepted
    BY <2>1
  <2>2. CASE UserCode /\ registry.job # NoJob /\ cancelled'
             /\ accepted' = accepted \cup {registry.job}
    <3>1. ~At("join") /\ ~At("lost")
      BY <2>2 DEF UserCode, UserPlaces, At
    <3>2. reserved = registry.job /\ reserved # NoJob
      BY <1>1, <2>2, <3>1 DEF ControlInv
    <3> QED
      BY <1>1, <2>2, <3>1, <3>2 DEF ControlInv, TimerInv
  <2> QED
    BY <2>1, <2>2
<1>6. ControlInv'
  <2>1. /\ At("join") => registry' = NoRegistry
        /\ ~At("join") => registry'.job = reserved
        /\ registry'.job = NoJob => registry' = NoRegistry
    BY <1>1, <1>4 DEF ControlInv, NoRegistry
  <2>2. registry'.discarded => closed'[Owner(registry.job)] \/ jobs[registry.job].failure
    <3>1. CASE registry.job = NoJob
      <4>1. registry' = NoRegistry /\ NoRegistry.discarded = FALSE
        BY <1>4, <2>1, <3>1 DEF NoRegistry
      <4> QED
        BY <4>1
    <3>2. CASE registry.job \in Jobs
      <4>1. Owner(registry.job) \in Handles
        BY <1>1, <3>2 DEF MainTypes, Owner, Job
      <4> QED
        BY <1>1, <1>4, <4>1 DEF ControlInv
    <3> QED
      BY <1>1, <3>1, <3>2 DEF MainTypes, Registry
  <2>3. reserved # NoJob =>
          /\ streaming' = Streaming(reserved)
          /\ reserved \in accepted' => cancelled'
          /\ Known(reserved)
    BY <1>1, <1>5 DEF ControlInv
  <2>4. \A j \in accepted' : Known(j)'
    BY <1>1, <1>3, <1>5 DEF ControlInv
  <2>5. /\ pc' = "none" <=> reserved = NoJob
        /\ registry'.collected => pc' = "joined"
        /\ At("decide") => registry'.job = Top.job
    BY <1>1, <1>4 DEF ControlInv
  <2>6. /\ reserved' = reserved /\ Streaming(reserved)' = Streaming(reserved)
        /\ Known(reserved)' = Known(reserved)
        /\ jobs' = jobs /\ Owner(registry.job)' = Owner(registry.job)
    BY <1>4 DEF Streaming, Known, Owner
  <2> QED
    BY <1>2, <1>4, <2>1, <2>2, <2>3, <2>4, <2>5, <2>6 DEF ControlInv
<1>7. StackInv'
  <2>1. ASSUME NEW g \in Frame, FrameOK(g) PROVE FrameOK(g)'
    BY <1>3, <1>5, <2>1 DEF FrameOK
  <2> QED
    BY <1>1, <2>1, StackSame DEF MainTypes
<1>8. TimerInv'
  <2>1. \A j \in Jobs : jobs'[j].timer => Unsettled(j)' /\ Awaited(j)'
    BY <1>1, <1>3 DEF TimerInv
  <2>2. reserved # NoJob => \/ At("join")
                            \/ At("lost") /\ ~NothingLost
                            \/ Unsettled(reserved) /\ (jobs[reserved].timer \/ Polling(reserved))
    BY <1>1 DEF TimerInv
  <2>3. NothingLost' <=> NothingLost
    BY <1>2, <1>3 DEF NothingLost
  <2>4. Unsettled(reserved)' = Unsettled(reserved) /\ (Polling(reserved)' <=> Polling(reserved))
    BY DEF Unsettled, Polling
  <2> QED
    BY <1>2, <2>1, <2>2, <2>3, <2>4 DEF TimerInv
<1>9. UnloadInv'
  BY <1>1, <1>2, <1>3 DEF UnloadInv, Ending, Unsettled
<1>10. VerdictInv'
  <2>1. ResolvedIsComplete'
    <3> SUFFICES ASSUME NEW j \in Jobs, jobs[j].verdict = "resolved"
                 PROVE  j \notin accepted' /\ ~jobs[j].failure
                        /\ (Streaming(j) => jobs[j].prompt = Prompts + 1)
      BY <1>3 DEF ResolvedIsComplete
    <3>1. j \notin accepted /\ ~jobs[j].failure
          /\ (Streaming(j) => jobs[j].prompt = Prompts + 1)
      BY <1>1 DEF VerdictInv, ResolvedIsComplete
    <3>2. ~Unsettled(j)
      BY DEF Unsettled
    <3> QED
      BY <1>5, <3>1, <3>2
  <2> QED
    BY <1>1, <1>2, <2>1 DEF VerdictInv
<1> QED
  BY <1>6, <1>7, <1>8, <1>9, <1>10, TypesSplit DEF BoundaryInv, JobIInv

(* A poll ends and changes nothing else.                                    *)
LEMMA PopStep ==
  ASSUME BoundaryInv, JobIInv', MainTypes', stack # <<>>, Pop, ~At("join"),
         ~Unsettled(Top.job) \/ AllGone, Top.job # NoJob,
         UNCHANGED <<jobVars, reserved, handleVars, registry, jobs, rooted, stopping,
                     accepted>>
  PROVE  BoundaryInv'
<1>1. /\ MainTypes /\ StackInv /\ ControlInv /\ OwnershipAccounted /\ TimerInv
      /\ UnloadInv /\ VerdictInv
  BY TypesSplit DEF BoundaryInv
<1>2. \A j : /\ Known(j)' <=> Known(j)
             /\ Unsettled(j)' <=> Unsettled(j)
             /\ Owner(j)' = Owner(j)
             /\ Streaming(j)' <=> Streaming(j)
             /\ Awaited(j)' <=> Awaited(j)
  BY DEF Known, Unsettled, Owner, Streaming, Awaited, AllGone, handleVars
<1>3. \A g \in Frame : FrameOK(g) => FrameOK(g)'
  BY <1>2 DEF FrameOK
<1>4. /\ StackInv'
      /\ stack' # <<>> => Top'.at \in UserPlaces
      /\ \A j \in Jobs : Polling(j) /\ j # Top.job => Polling(j)'
  BY <1>1, <1>3, StackPopped DEF MainTypes
<1>5. /\ ~At("join")' /\ ~At("lost")' /\ ~At("decide")' /\ ~Ending'
  BY <1>4 DEF At, UserPlaces, Ending
<1>6. ControlInv'
  <2>1. UNCHANGED <<pc, streaming, cancelled, reserved, registry, closed, jobs, accepted>>
    BY DEF jobVars, control, worker, handleVars
  <2>2. /\ Owner(registry.job)' = Owner(registry.job)
        /\ Streaming(reserved)' = Streaming(reserved)
        /\ Known(reserved)' = Known(reserved)
        /\ \A j \in accepted' : Known(j)' <=> Known(j)
    BY <2>1 DEF Owner, Streaming, Known
  <2> QED
    BY <1>1, <1>5, <2>1, <2>2 DEF ControlInv
<1>7. OwnershipAccounted'
  BY <1>1, <1>2 DEF OwnershipAccounted, handleVars
<1>8. TimerInv'
  <2>1. \A j \in Jobs : jobs'[j].timer => Unsettled(j)' /\ Awaited(j)'
    BY <1>1, <1>2 DEF TimerInv
  <2>2. ASSUME reserved # NoJob
        PROVE  Unsettled(reserved) /\ (jobs[reserved].timer \/ Polling(reserved)')
    <3>1. reserved \in Jobs
      BY <1>1, <2>2 DEF MainTypes
    <3>2. ~AllGone
      BY <1>1, <2>2, <3>1 DEF AllGone, OwnershipAccounted, MainTypes, Owner, Job
    <3>3. ~Unsettled(Top.job)
      BY <3>2
    <3>4. Unsettled(reserved) /\ (jobs[reserved].timer \/ Polling(reserved))
      BY <1>1, <2>2, <3>3 DEF TimerInv, NothingLost
    <3>5. PICK k \in Jobs : k = reserved
      BY <3>1
    <3>6. Unsettled(k) /\ (jobs[k].timer \/ Polling(k)')
      BY <1>4, <3>3, <3>4, <3>5
    <3> QED
      BY <3>5, <3>6 DEF Polling
  <2>3. /\ reserved' = reserved /\ jobs' = jobs
        /\ Unsettled(reserved)' = Unsettled(reserved)
    BY DEF Unsettled
  <2>4. reserved # NoJob => Unsettled(reserved)' /\ (jobs'[reserved'].timer \/ Polling(reserved)')
    BY <2>2, <2>3 DEF Polling
  <2> QED
    BY <2>1, <2>3, <2>4 DEF TimerInv
<1>9. UnloadInv'
  <2>1. ~Ending
    BY DEF Ending
  <2> QED
    BY <1>1, <1>2, <1>5, <2>1 DEF UnloadInv, AllGone, handleVars
<1>10. VerdictInv'
  BY <1>1, <1>2, <1>5 DEF VerdictInv, ResolvedIsComplete
<1> QED
  BY <1>6, <1>7, <1>4, <1>8, <1>9, <1>10, TypesSplit DEF BoundaryInv, JobIInv

(* What a frame needs of a step that does not touch its job.                *)
LEMMA FrameKept ==
  ASSUME NEW g \in Frame, FrameOK(g),
         g.job \in Jobs =>
           /\ jobs'[g.job].verdict = jobs[g.job].verdict
           /\ jobs'[g.job].mode = jobs[g.job].mode
           /\ jobs'[g.job].timer => jobs[g.job].timer
           /\ jobs'[g.job].failure = jobs[g.job].failure
           /\ jobs'[g.job].prompt = jobs[g.job].prompt
           /\ g.job \in accepted' => g.job \in accepted
           /\ reserved' = g.job => reserved = g.job
           /\ Unsettled(g.job) /\ Awaited(g.job) => Awaited(g.job)'
  PROVE  FrameOK(g)'
<1>1. CASE g.job = NoJob
  BY <1>1 DEF FrameOK
<1>2. CASE g.job \in Jobs
  <2>1. /\ Known(g.job)' <=> Known(g.job)
        /\ Unsettled(g.job)' <=> Unsettled(g.job)
        /\ Streaming(g.job)' <=> Streaming(g.job)
    BY <1>2 DEF Known, Unsettled, Streaming
  <2> QED
    BY <1>2, <2>1 DEF FrameOK
<1> QED
  BY <1>1, <1>2 DEF Frame

(* While a job has the engine there is a model that is not gone.            *)
LEMMA ReservedLives ==
  ASSUME MainTypes, OwnershipAccounted, reserved # NoJob
  PROVE  ~AllGone /\ reserved \in Jobs
BY DEF AllGone, OwnershipAccounted, MainTypes, Owner, Job

(* A step that leaves the engine and the registry alone.                    *)
LEMMA ControlKept ==
  ASSUME MainTypes, ControlInv, ~At("join"), ~At("join")', ~At("decide")',
         UNCHANGED <<pc, streaming, cancelled, reserved, registry, closed, accepted>>,
         \A k \in Jobs : Known(k) =>
           /\ Known(k)'
           /\ jobs'[k].owner = jobs[k].owner /\ jobs'[k].mode = jobs[k].mode
           /\ jobs'[k].failure = jobs[k].failure
  PROVE  ControlInv'
<1>1. registry.job = reserved /\ (reserved \in Jobs \/ reserved = NoJob)
  BY DEF ControlInv, MainTypes
<1>2. registry.discarded => closed[Owner(registry.job)'] \/ jobs'[registry.job].failure
  <2>1. CASE registry.job = NoJob
    <3>1. registry = NoRegistry /\ NoRegistry.discarded = FALSE
      BY <2>1 DEF ControlInv, NoRegistry
    <3> QED
      BY <3>1
  <2>2. CASE registry.job \in Jobs
    <3>1. Known(registry.job)
      BY <1>1, <2>2 DEF ControlInv, Jobs, NoJob
    <3> QED
      BY <2>2, <3>1 DEF ControlInv, Owner
  <2> QED
    BY <1>1, <2>1, <2>2
<1>3. reserved # NoJob =>
        /\ streaming = Streaming(reserved)'
        /\ reserved \in accepted => cancelled
        /\ Known(reserved)'
  <2> SUFFICES ASSUME reserved # NoJob
               PROVE  /\ streaming = Streaming(reserved)'
                      /\ reserved \in accepted => cancelled
                      /\ Known(reserved)'
    OBVIOUS
  <2>1. PICK k \in Jobs : reserved = k
    BY <1>1
  <2>2. Known(k) /\ streaming = Streaming(k) /\ (k \in accepted => cancelled)
    BY <2>1 DEF ControlInv
  <2>3. Known(k)' /\ Streaming(k)' = Streaming(k)
    BY <2>2 DEF Streaming
  <2> QED
    BY <2>1, <2>2, <2>3 DEF Streaming, Known
<1>4. \A j \in accepted : Known(j)'
  BY DEF ControlInv, MainTypes
<1> QED
  BY <1>1, <1>2, <1>3, <1>4 DEF ControlInv, Owner

(* Its job is still there for whoever has to come back for it.              *)
CollectorInv ==
  reserved # NoJob =>
    \/ At("join")
    \/ At("lost") /\ ~NothingLost
    \/ Unsettled(reserved) /\ (jobs[reserved].timer \/ Polling(reserved))

(* A reservation keeps its collector where no shutdown is running.          *)
LEMMA CollectorKept ==
  ASSUME MainTypes, CollectorInv, ~At("join"), ~(At("lost") /\ ~NothingLost),
         UNCHANGED reserved,
         \A k \in Jobs : Unsettled(k) /\ (jobs[k].timer \/ Polling(k)) /\ reserved = k
           => Unsettled(k)' /\ (jobs'[k].timer \/ Polling(k)')
  PROVE  CollectorInv'
<1> SUFFICES ASSUME reserved # NoJob
             PROVE  Unsettled(reserved)' /\ (jobs'[reserved].timer \/ Polling(reserved)')
  BY DEF CollectorInv
<1>1. PICK k \in Jobs : reserved = k
  BY DEF MainTypes
<1>2. Unsettled(k) /\ (jobs[k].timer \/ Polling(k))
  BY <1>1 DEF CollectorInv
<1>3. Unsettled(k)' /\ (jobs'[k].timer \/ Polling(k)')
  BY <1>1, <1>2
<1> QED
  BY <1>1, <1>3 DEF Unsettled, Polling

(* A poll ends with a new timer.                                            *)
LEMMA TimerSetStep ==
  ASSUME BoundaryInv, JobIInv', MainTypes', At("schedule"), Unsettled(Top.job), ~stopping,
         jobs' = [jobs EXCEPT ![Top.job].timer = TRUE], Pop,
         UNCHANGED <<jobVars, reserved, handleVars, registry, rooted, stopping, accepted>>
  PROVE  BoundaryInv'
<1>1. /\ MainTypes /\ StackInv /\ ControlInv /\ OwnershipAccounted /\ TimerInv
      /\ UnloadInv /\ VerdictInv
  BY TypesSplit DEF BoundaryInv
<1>2. /\ stack # <<>> /\ Top.job \in Jobs /\ Awaited(Top.job)
      /\ ~At("join") /\ ~At("lost")
  BY <1>1, TopOK DEF At, Special
<1>3. /\ \A k \in Jobs \ {Top.job} : jobs'[k] = jobs[k]
      /\ jobs'[Top.job].timer
      /\ \A k \in Jobs : /\ jobs'[k].owner = jobs[k].owner /\ jobs'[k].mode = jobs[k].mode
                         /\ jobs'[k].verdict = jobs[k].verdict
                         /\ jobs'[k].failure = jobs[k].failure
                         /\ jobs'[k].prompt = jobs[k].prompt
  BY <1>1, <1>2 DEF MainTypes, Job
<1>4. /\ \A k \in Jobs : /\ Known(k)' <=> Known(k)
                         /\ Unsettled(k)' <=> Unsettled(k)
                         /\ Owner(k)' = Owner(k)
                         /\ Streaming(k)' <=> Streaming(k)
      /\ \A k : Awaited(k)' <=> Awaited(k)
  BY <1>3 DEF Known, Unsettled, Owner, Streaming, Awaited, AllGone, handleVars
<1>5. \A g \in Frame : FrameOK(g) /\ g.job # Top.job => FrameOK(g)'
  BY <1>3, <1>4, FrameKept
<1>6. /\ StackInv'
      /\ stack' # <<>> => Top'.at \in UserPlaces
      /\ \A j \in Jobs : Polling(j) /\ j # Top.job => Polling(j)'
  BY <1>1, <1>2, <1>5, StackPopped DEF MainTypes
<1>7. /\ ~At("join")' /\ ~At("lost")' /\ ~At("decide")' /\ ~Ending'
  BY <1>6 DEF At, UserPlaces, Ending
<1>8. UNCHANGED <<pc, streaming, cancelled, closed, model>>
  BY DEF jobVars, control, worker, handleVars
<1>9. ControlInv'
  BY <1>1, <1>2, <1>3, <1>4, <1>7, <1>8, ControlKept
<1>10. OwnershipAccounted'
  <2>1. reserved # NoJob => Owner(reserved)' = Owner(reserved)
    BY <1>1, <1>3 DEF MainTypes, Owner
  <2> QED
    BY <1>1, <1>8, <2>1 DEF OwnershipAccounted
<1>11. TimerInv'
  <2>1. \A j \in Jobs : jobs'[j].timer => Unsettled(j)' /\ Awaited(j)'
    BY <1>1, <1>2, <1>3, <1>4 DEF TimerInv
  <2>2. CollectorInv'
    <3>1. CollectorInv
      BY <1>1 DEF TimerInv, CollectorInv
    <3>2. \A k \in Jobs : Unsettled(k) /\ (jobs[k].timer \/ Polling(k)) /\ reserved = k
            => Unsettled(k)' /\ (jobs'[k].timer \/ Polling(k)')
      BY <1>3, <1>4, <1>6
    <3> QED
      BY <1>1, <1>2, <3>1, <3>2, CollectorKept
  <2> QED
    BY <2>1, <2>2 DEF TimerInv, CollectorInv
<1>12. UnloadInv'
  BY <1>7 DEF UnloadInv, Ending
<1>13. VerdictInv'
  <2>1. ResolvedIsComplete'
    BY <1>1, <1>3, <1>4 DEF VerdictInv, ResolvedIsComplete
  <2> QED
    BY <1>1, <1>3, <1>7, <2>1 DEF VerdictInv
<1> QED
  BY <1>6, <1>9, <1>10, <1>11, <1>12, <1>13, TypesSplit DEF BoundaryInv, JobIInv

(* A due timer starts a poll.                                               *)
LEMMA TimerFiresStep ==
  ASSUME BoundaryInv, JobIInv', MainTypes', NEW j \in Jobs, TimerFires(j)
  PROVE  BoundaryInv'
<1>1. /\ MainTypes /\ StackInv /\ ControlInv /\ OwnershipAccounted /\ TimerInv
      /\ UnloadInv /\ VerdictInv
  BY TypesSplit DEF BoundaryInv
<1>2. /\ UserCode /\ jobs[j].timer /\ ~stopping /\ ~Polling(j)
      /\ jobs' = [jobs EXCEPT ![j].timer = FALSE]
      /\ stack' = <<[job |-> j, at |-> "collect", ready |-> FALSE]>> \o stack
      /\ UNCHANGED <<pc, streaming, cancelled, reserved, model, closed, registry,
                     rooted, stopping, accepted>>
  BY DEF TimerFires, Push, jobVars, control, worker, handleVars
<1>3. Unsettled(j) /\ Awaited(j) /\ Known(j)
  BY <1>1, <1>2 DEF TimerInv, Unsettled, Known
<1>4. /\ \A k \in Jobs \ {j} : jobs'[k] = jobs[k]
      /\ ~jobs'[j].timer
      /\ \A k \in Jobs : /\ jobs'[k].owner = jobs[k].owner /\ jobs'[k].mode = jobs[k].mode
                         /\ jobs'[k].verdict = jobs[k].verdict
                         /\ jobs'[k].failure = jobs[k].failure
                         /\ jobs'[k].prompt = jobs[k].prompt
  BY <1>1, <1>2 DEF MainTypes, Job
<1>5. /\ \A k \in Jobs : /\ Known(k)' <=> Known(k)
                         /\ Unsettled(k)' <=> Unsettled(k)
                         /\ Owner(k)' = Owner(k)
                         /\ Streaming(k)' <=> Streaming(k)
      /\ \A k : Awaited(k)' <=> Awaited(k)
  BY <1>2, <1>4 DEF Known, Unsettled, Owner, Streaming, Awaited, AllGone
<1> DEFINE f == [job |-> j, at |-> "collect", ready |-> FALSE]
<1>6. f \in Frame /\ f.job = j /\ f.at = "collect" /\ j # NoJob
  BY DEF Frame, Places, Jobs, NoJob
<1>7. stack' # <<>> /\ Top' = f
  BY <1>1, <1>2, <1>6, Pushed DEF MainTypes
<1>8. /\ ~At("join") /\ ~At("lost") /\ ~At("join")' /\ ~At("lost")' /\ ~At("decide")'
  BY <1>2, <1>6, <1>7 DEF At, UserCode, UserPlaces
<1>9. StackInv' /\ Polling(j)' /\ \A k \in Jobs : Polling(k) => Polling(k)'
  <2>1. FrameOK(f)'
    BY <1>3, <1>4, <1>5, <1>6 DEF FrameOK
  <2>2. \A g \in Frame : FrameOK(g) /\ g.job # f.job => FrameOK(g)'
    BY <1>2, <1>4, <1>5, <1>6, FrameKept
  <2>3. \A i \in 1 .. Len(stack) : stack[i].job # f.job
    BY <1>2, <1>6 DEF Polling
  <2> HIDE DEF f
  <2> QED
    BY <1>1, <1>2, <1>6, <2>1, <2>2, <2>3, StackPushed DEF MainTypes, f
<1>10. ControlInv'
  BY <1>1, <1>2, <1>4, <1>5, <1>8, ControlKept
<1>11. OwnershipAccounted'
  <2>1. reserved # NoJob => Owner(reserved)' = Owner(reserved)
    BY <1>1, <1>2, <1>4 DEF MainTypes, Owner
  <2> QED
    BY <1>1, <1>2, <2>1 DEF OwnershipAccounted
<1>12. TimerInv'
  <2>1. \A k \in Jobs : jobs'[k].timer => Unsettled(k)' /\ Awaited(k)'
    BY <1>1, <1>4, <1>5 DEF TimerInv
  <2>2. CollectorInv'
    <3>1. CollectorInv
      BY <1>1 DEF TimerInv, CollectorInv
    <3>2. \A k \in Jobs : Unsettled(k) /\ (jobs[k].timer \/ Polling(k)) /\ reserved = k
            => Unsettled(k)' /\ (jobs'[k].timer \/ Polling(k)')
      BY <1>4, <1>5, <1>9
    <3> QED
      BY <1>1, <1>2, <1>8, <3>1, <3>2, CollectorKept
  <2> QED
    BY <2>1, <2>2 DEF TimerInv, CollectorInv
<1>13. UnloadInv'
  BY <1>2, <1>8 DEF UnloadInv, Ending
<1>14. VerdictInv'
  <2>1. ResolvedIsComplete'
    BY <1>1, <1>2, <1>4, <1>5 DEF VerdictInv, ResolvedIsComplete
  <2> QED
    BY <1>1, <1>2, <1>4, <1>8, <2>1 DEF VerdictInv
<1> QED
  BY <1>9, <1>10, <1>11, <1>12, <1>13, <1>14, TypesSplit DEF BoundaryInv, JobIInv

(* The last callback of a completed job ends, and its promise settles.      *)
LEMMA FinalStep ==
  ASSUME BoundaryInv, JobIInv', MainTypes', At("onFinal"),
         NEW v \in {"resolved", "consumer"}, Settle(Top.job, v), Pop,
         UNCHANGED <<jobVars, reserved, handleVars, registry, stopping, accepted>>
  PROVE  BoundaryInv'
<1>1. /\ MainTypes /\ StackInv /\ ControlInv /\ OwnershipAccounted /\ TimerInv
      /\ UnloadInv /\ VerdictInv
  BY TypesSplit DEF BoundaryInv
<1>0. /\ stack # <<>> /\ Top.job \in Jobs /\ Known(Top.job) /\ FrameOK(Top)
      /\ ~At("join") /\ ~At("lost")
  BY <1>1, TopOK DEF At
<1>j. PICK j \in Jobs : j = Top.job
  BY <1>0
<1>2. /\ stack # <<>> /\ j \in Jobs /\ Known(j) /\ FrameOK(Top)
      /\ ~At("join") /\ ~At("lost")
  BY <1>0, <1>j
<1>3. /\ reserved # j /\ j \notin accepted /\ ~jobs[j].failure /\ ~jobs[j].timer
      /\ Streaming(j) => jobs[j].prompt = Prompts + 1
  BY <1>2, <1>j DEF FrameOK, At, Jobs, NoJob
<1>4. /\ jobs' = IF Unsettled(j) THEN [jobs EXCEPT ![j].verdict = v, ![j].timer = FALSE]
                 ELSE jobs
      /\ rooted' = IF rooted = j THEN NoJob ELSE rooted
  BY <1>j DEF Settle
<1>5. /\ \A k \in Jobs \ {j} : jobs'[k] = jobs[k]
      /\ \A k \in Jobs : /\ jobs'[k].owner = jobs[k].owner /\ jobs'[k].mode = jobs[k].mode
                         /\ jobs'[k].failure = jobs[k].failure
                         /\ jobs'[k].prompt = jobs[k].prompt
      /\ jobs'[j].verdict = IF Unsettled(j) THEN v ELSE jobs[j].verdict
      /\ ~jobs'[j].timer
  BY <1>1, <1>2, <1>3, <1>4 DEF MainTypes, Job
<1>6. UNCHANGED <<pc, streaming, cancelled, closed, model>>
  BY DEF jobVars, control, worker, handleVars
<1>7. /\ \A k \in Jobs : /\ Owner(k)' = Owner(k)
                         /\ Streaming(k)' <=> Streaming(k)
      /\ \A k \in Jobs \ {j} : /\ Known(k)' <=> Known(k)
                               /\ Unsettled(k)' <=> Unsettled(k)
                               /\ Awaited(k)' <=> Awaited(k)
      /\ Known(j)' /\ ~Unsettled(j)'
  <2>1. AllGone' <=> AllGone
    BY <1>6 DEF AllGone
  <2>2. \A k \in Jobs \ {j} : k # NoJob /\ (rooted' = k <=> rooted = k)
    BY <1>4 DEF Jobs, NoJob
  <2>3. \A k \in Jobs \ {j} : Awaited(k)' <=> Awaited(k)
    BY <2>1, <2>2 DEF Awaited
  <2>4. Known(j)' /\ ~Unsettled(j)'
    BY <1>2, <1>5 DEF Known, Unsettled
  <2>5. /\ \A k \in Jobs : /\ Owner(k)' = Owner(k)
                           /\ Streaming(k)' <=> Streaming(k)
        /\ \A k \in Jobs \ {j} : /\ Known(k)' <=> Known(k)
                                 /\ Unsettled(k)' <=> Unsettled(k)
    BY <1>5 DEF Known, Unsettled, Owner, Streaming
  <2> QED
    BY <2>3, <2>4, <2>5
<1>8. \A g \in Frame : FrameOK(g) /\ g.job # Top.job => FrameOK(g)'
  BY <1>5, <1>7, <1>j, FrameKept
<1>9. /\ StackInv'
      /\ stack' # <<>> => Top'.at \in UserPlaces
      /\ \A k \in Jobs : Polling(k) /\ k # j => Polling(k)'
  BY <1>1, <1>2, <1>8, <1>j, StackPopped DEF MainTypes
<1>10. /\ ~At("join")' /\ ~At("lost")' /\ ~At("decide")' /\ ~Ending' /\ ~Ending
  BY <1>2, <1>9 DEF At, UserPlaces, Ending
<1>11. ControlInv'
  <2>1. ASSUME NEW k \in Jobs, Known(k) PROVE Known(k)'
    <3>1. CASE k = j
      BY <1>7, <3>1
    <3>2. CASE k # j
      BY <1>7, <2>1, <3>2
    <3> QED
      BY <3>1, <3>2
  <2> QED
    BY <1>1, <1>2, <1>5, <1>6, <1>10, <2>1, ControlKept
<1>12. OwnershipAccounted'
  <2>1. reserved # NoJob => Owner(reserved)' = Owner(reserved)
    BY <1>1, <1>5 DEF MainTypes, Owner
  <2> QED
    BY <1>1, <1>6, <2>1 DEF OwnershipAccounted
<1>13. TimerInv'
  <2>1. \A k \in Jobs : jobs'[k].timer => Unsettled(k)' /\ Awaited(k)'
    BY <1>1, <1>5, <1>7 DEF TimerInv
  <2>2. CollectorInv'
    <3>1. CollectorInv
      BY <1>1 DEF TimerInv, CollectorInv
    <3>2. \A k \in Jobs : Unsettled(k) /\ (jobs[k].timer \/ Polling(k)) /\ reserved = k
            => Unsettled(k)' /\ (jobs'[k].timer \/ Polling(k)')
      BY <1>3, <1>5, <1>7, <1>9
    <3> QED
      BY <1>1, <1>2, <3>1, <3>2, CollectorKept
  <2> QED
    BY <2>1, <2>2 DEF TimerInv, CollectorInv
<1>14. UnloadInv'
  <2>1. stopping => AllGone' /\ rooted' = NoJob /\ \A k \in Jobs : ~jobs'[k].timer
    BY <1>1, <1>4, <1>5, <1>6, <1>10 DEF UnloadInv, AllGone
  <2> QED
    BY <1>10, <2>1 DEF UnloadInv
<1>15. VerdictInv'
  <2>1. ResolvedIsComplete'
    <3> SUFFICES ASSUME NEW k \in Jobs, jobs'[k].verdict = "resolved"
                 PROVE  k \notin accepted /\ ~jobs'[k].failure
                        /\ (Streaming(k)' => jobs'[k].prompt = Prompts + 1)
      BY DEF ResolvedIsComplete
    <3>1. CASE k = j
      BY <1>2, <1>3, <1>5, <1>7, <3>1
    <3>2. CASE k # j
      BY <1>1, <1>5, <1>7, <3>2 DEF VerdictInv, ResolvedIsComplete
    <3> QED
      BY <3>1, <3>2
  <2>2. \A k \in Jobs : jobs'[k].failure => k # j /\ jobs[k].failure
    BY <1>3, <1>5
  <2> QED
    BY <1>1, <1>5, <1>10, <2>1, <2>2 DEF VerdictInv
<1> QED
  BY <1>9, <1>11, <1>12, <1>13, <1>14, <1>15, TypesSplit DEF BoundaryInv, JobIInv

(* Unload begins.                                                           *)
LEMMA UnloadStep ==
  ASSUME BoundaryInv, JobIInv', MainTypes', Unload
  PROVE  BoundaryInv'
<1>1. /\ MainTypes /\ StackInv /\ ControlInv /\ OwnershipAccounted /\ TimerInv
      /\ UnloadInv /\ VerdictInv
  BY TypesSplit DEF BoundaryInv
<1> DEFINE f == [job |-> NoJob, at |-> "lost", ready |-> FALSE]
<1>2. /\ UserCode /\ ~stopping /\ stopping' /\ stack' = <<f>> \o stack
      /\ UNCHANGED <<pc, streaming, cancelled, reserved, model, closed, registry,
                     rooted, jobs, accepted>>
  BY DEF Unload, Push, jobVars, control, worker, handleVars
<1>3. f \in Frame /\ f.job = NoJob /\ f.at = "lost"
  BY DEF Frame, Places
<1>4. stack' # <<>> /\ Top' = f
  BY <1>1, <1>2, <1>3, Pushed DEF MainTypes
<1>5. /\ ~At("join") /\ ~At("lost") /\ ~At("join")' /\ At("lost")' /\ ~At("decide")'
      /\ Top'.job = NoJob
  BY <1>2, <1>3, <1>4 DEF At, UserCode, UserPlaces
<1>6. /\ \A k : /\ Known(k)' <=> Known(k)
                /\ Unsettled(k)' <=> Unsettled(k)
                /\ Owner(k)' = Owner(k)
                /\ Streaming(k)' <=> Streaming(k)
                /\ Awaited(k)' <=> Awaited(k)
  BY <1>2 DEF Known, Unsettled, Owner, Streaming, Awaited, AllGone
<1>7. StackInv'
  <2>1. FrameOK(f)'
    BY <1>3 DEF FrameOK
  <2>2. \A g \in Frame : FrameOK(g) /\ g.job # f.job => FrameOK(g)'
    BY <1>2, <1>6, FrameKept
  <2>3. ASSUME NEW i \in 1 .. Len(stack) PROVE stack[i].job # f.job
    <3>1. FrameOK(stack[i]) /\ stack[i].at \in UserPlaces
      <4>1. CASE i = 1
        <5>1. stack # <<>> /\ Top = stack[1]
          BY <1>1, <2>3, <4>1, StackTop DEF MainTypes
        <5> QED
          BY <1>1, <1>2, <4>1, <5>1 DEF UserCode, StackInv
      <4>2. CASE i # 1
        <5>1. i \in 2 .. Len(stack)
          BY <4>2
        <5> QED
          BY <1>1, <5>1 DEF StackInv
      <4> QED
        BY <4>1, <4>2
    <3> QED
      BY <1>3, <3>1 DEF FrameOK, UserPlaces
  <2> HIDE DEF f
  <2> QED
    BY <1>1, <1>2, <1>3, <2>1, <2>2, <2>3, StackPushed DEF MainTypes
<1>8. ControlInv'
  BY <1>1, <1>2, <1>5, <1>6, ControlKept
<1>9. OwnershipAccounted'
  BY <1>1, <1>2, <1>6 DEF OwnershipAccounted
<1>10. TimerInv'
  <2>1. \A k \in Jobs : jobs'[k].timer => Unsettled(k)' /\ Awaited(k)'
    BY <1>1, <1>2, <1>6 DEF TimerInv
  <2>2. At("lost")' /\ ~NothingLost'
    BY <1>5 DEF NothingLost
  <2> QED
    BY <2>1, <2>2 DEF TimerInv
<1>11. UnloadInv'
  BY <1>2, <1>5 DEF UnloadInv, Ending
<1>12. VerdictInv'
  <2>1. ResolvedIsComplete'
    BY <1>1, <1>2, <1>6 DEF VerdictInv, ResolvedIsComplete
  <2> QED
    BY <1>1, <1>2, <1>5, <2>1 DEF VerdictInv
<1> QED
  BY <1>7, <1>8, <1>9, <1>10, <1>11, <1>12, TypesSplit DEF BoundaryInv, JobIInv

(* A shutdown takes the job and turns to its worker.                        *)
LEMMA BeginShutdownStep ==
  ASSUME BoundaryInv, JobIInv', MainTypes', BeginShutdown
  PROVE  BoundaryInv'
<1>1. /\ MainTypes /\ StackInv /\ ControlInv /\ OwnershipAccounted /\ TimerInv
      /\ UnloadInv /\ VerdictInv
  BY TypesSplit DEF BoundaryInv
<1>2. /\ At("lost") /\ ~NothingLost /\ stack # <<>> /\ stopping'
      /\ registry' = NoRegistry /\ Goto("join")
      /\ UNCHANGED <<pc, streaming, reserved, model, closed, rooted, accepted>>
      /\ cancelled => cancelled'
  BY DEF BeginShutdown, TakeActive, DiscardStream, At, handleVars, jobVars, control, worker
<1>3. PICK f \in Frame : f.job = Top.job /\ f.at = "join" /\ stack' = <<f>> \o Tail(stack)
  <2>1. "join" \in Places
    BY DEF Places
  <2> QED
    BY <1>1, <1>2, <2>1, GotoReplaces DEF Replaces
<1>4. stack' # <<>> /\ Top' = f
  BY <1>1, <1>2, <1>3, Replaced DEF MainTypes
<1>5. /\ ~At("join") /\ At("join")' /\ ~At("lost")' /\ ~At("decide")' /\ Ending'
      /\ Top'.job = Top.job
  BY <1>2, <1>3, <1>4 DEF At, Ending
<1>6. /\ jobs' \in [Jobs -> Job]
      /\ \A k \in Jobs : /\ jobs'[k].owner = jobs[k].owner /\ jobs'[k].mode = jobs[k].mode
                         /\ jobs'[k].verdict = jobs[k].verdict
                         /\ jobs'[k].failure = jobs[k].failure
                         /\ jobs'[k].prompt = jobs[k].prompt
                         /\ jobs'[k].timer => jobs[k].timer /\ k # Victim
  <2>1. jobs' = IF Victim = NoJob THEN jobs ELSE [jobs EXCEPT ![Victim].timer = FALSE]
    BY DEF BeginShutdown
  <2>2. Victim \in Jobs \cup {NoJob}
    BY <1>1, <1>2, TopOK DEF Victim, MainTypes
  <2> QED
    BY <1>1, <2>1, <2>2 DEF MainTypes, Job, Jobs, NoJob
<1>7. /\ \A k \in Jobs : /\ Known(k)' <=> Known(k)
                         /\ Unsettled(k)' <=> Unsettled(k)
                         /\ Owner(k)' = Owner(k)
                         /\ Streaming(k)' <=> Streaming(k)
      /\ \A k : Awaited(k)' <=> Awaited(k)
  BY <1>2, <1>6 DEF Known, Unsettled, Owner, Streaming, Awaited, AllGone
<1>8. StackInv'
  <2>1. FrameOK(Top) /\ (Top.job # NoJob => Top.job \in Jobs)
    BY <1>1, <1>2, TopOK
  <2>2. FrameOK(f)'
    BY <1>3, <1>6, <1>7, <2>1 DEF FrameOK
  <2>3. \A g \in Frame : FrameOK(g) /\ g.job # Top.job => FrameOK(g)'
    BY <1>2, <1>6, <1>7, FrameKept
  <2> QED
    BY <1>1, <1>2, <1>3, <2>2, <2>3, StackReplaced DEF MainTypes
<1>9. ControlInv'
  <2>1. reserved # NoJob =>
          /\ streaming = Streaming(reserved)'
          /\ reserved \in accepted => cancelled'
          /\ Known(reserved)'
    BY <1>1, <1>2, <1>6 DEF ControlInv, MainTypes, Streaming, Known
  <2>2. \A j \in accepted : Known(j)'
    BY <1>1, <1>7 DEF ControlInv, MainTypes
  <2>3. /\ NoRegistry.job = NoJob /\ NoRegistry.discarded = FALSE
        /\ NoRegistry.collected = FALSE
    BY DEF NoRegistry
  <2>4. pc = "none" <=> reserved = NoJob
    BY <1>1 DEF ControlInv
  <2>5. /\ Streaming(reserved)' = (jobs'[reserved].mode # "plain")
        /\ Known(reserved)' = (jobs'[reserved].verdict # "unsubmitted")
    BY <1>2 DEF Streaming, Known
  <2> QED
    BY <1>2, <1>5, <2>1, <2>2, <2>3, <2>4, <2>5 DEF ControlInv
<1>10. OwnershipAccounted'
  <2>1. reserved # NoJob => Owner(reserved)' = Owner(reserved)
    BY <1>1, <1>2, <1>6 DEF MainTypes, Owner
  <2> QED
    BY <1>1, <1>2, <2>1 DEF OwnershipAccounted
<1>11. TimerInv'
  BY <1>1, <1>5, <1>6, <1>7 DEF TimerInv
<1>12. UnloadInv'
  <2>1. Top.job = NoJob => \A j \in Jobs : ~jobs'[j].timer
    BY <1>1, <1>6 DEF TimerInv, Awaited, Victim
  <2> QED
    BY <1>2, <1>5, <2>1 DEF UnloadInv
<1>13. VerdictInv'
  <2>1. Top.job # NoJob => ~stopping
    BY <1>1, <1>2, <1>5 DEF UnloadInv, Ending, NothingLost
  <2>2. ResolvedIsComplete'
    BY <1>1, <1>2, <1>6, <1>7 DEF VerdictInv, ResolvedIsComplete
  <2> QED
    BY <1>1, <1>2, <1>5, <1>6, <2>1, <2>2 DEF VerdictInv
<1> QED
  BY <1>8, <1>9, <1>10, <1>11, <1>12, <1>13, TypesSplit DEF BoundaryInv, JobIInv

(* The shutdown has joined the worker and destroys what there is.           *)
LEMMA EndShutdownStep ==
  ASSUME BoundaryInv, JobIInv', MainTypes', EndShutdown
  PROVE  BoundaryInv'
<1>1. /\ MainTypes /\ StackInv /\ ControlInv /\ OwnershipAccounted /\ TimerInv
      /\ UnloadInv /\ VerdictInv
  BY TypesSplit DEF BoundaryInv
<1>2. /\ At("join") /\ stack # <<>> /\ Pop
      /\ pc' = "none" /\ reserved' = NoJob /\ registry' = NoRegistry
      /\ closed' = [h \in Handles |-> TRUE] /\ model' = [h \in Handles |-> "gone"]
      /\ stopping' = (Top.job = NoJob) /\ accepted' = accepted
  BY DEF EndShutdown, Release, DropJob, NewControl, DestroyAll, At
<1>3. AllGone' /\ OwnershipAccounted'
  BY <1>2 DEF AllGone, OwnershipAccounted
<1>4. Victim \in Jobs \cup {NoJob} /\ (Top.job # NoJob => Victim = Top.job)
      /\ (Top.job = NoJob => Victim = rooted) /\ Top.job \in Jobs \cup {NoJob}
  BY <1>1, <1>2, TopOK DEF Victim, MainTypes
<1>5. PICK v \in Jobs \cup {NoJob} : v = Victim
  BY <1>4
<1>6. /\ \A k \in Jobs : /\ jobs'[k].owner = jobs[k].owner /\ jobs'[k].mode = jobs[k].mode
                         /\ jobs'[k].failure = jobs[k].failure
                         /\ jobs'[k].prompt = jobs[k].prompt
                         /\ jobs'[k].timer => jobs[k].timer
                         /\ Known(k) => Known(k)'
      /\ \A k \in Jobs \ {v} : jobs'[k] = jobs[k]
      /\ v \in Jobs => /\ ~jobs'[v].timer /\ ~Unsettled(v)'
                       /\ \/ jobs'[v].verdict = jobs[v].verdict
                          \/ /\ jobs'[v].verdict = "cancelled" /\ Top.job = NoJob
                          \/ jobs'[v].verdict = "internal"
      /\ rooted' = IF rooted = v THEN NoJob ELSE rooted
  <2>1. CASE v = NoJob
    <3>1. jobs' = jobs /\ rooted' = rooted
      BY <1>5, <2>1 DEF EndShutdown
    <3> QED
      BY <2>1, <3>1 DEF Known, Jobs, NoJob
  <2>2. CASE v \in Jobs
    <3> DEFINE w == IF Top.job = NoJob THEN "cancelled" ELSE "internal"
    <3>1. /\ jobs' = IF Unsettled(v) THEN [jobs EXCEPT ![v].verdict = w, ![v].timer = FALSE]
                     ELSE jobs
          /\ rooted' = IF rooted = v THEN NoJob ELSE rooted
      BY <1>5, <2>2 DEF EndShutdown, Settle, Jobs, NoJob
    <3>2. jobs[v].timer => Unsettled(v)
      BY <1>1, <2>2 DEF TimerInv
    <3> QED
      BY <1>1, <2>2, <3>1, <3>2 DEF MainTypes, Job, Known, Unsettled
  <2> QED
    BY <2>1, <2>2
<1>7. /\ \A k \in Jobs : /\ Owner(k)' = Owner(k)
                         /\ Streaming(k)' <=> Streaming(k)
      /\ \A k \in Jobs \ {v} : /\ Known(k)' <=> Known(k)
                               /\ Unsettled(k)' <=> Unsettled(k)
  BY <1>6 DEF Known, Unsettled, Owner, Streaming
<1>a. \A k \in Jobs \ {v} : Awaited(k) => Awaited(k)'
  <2>1. \A k \in Jobs \ {v} : rooted = k => rooted' = k
    BY <1>6
  <2> QED
    BY <1>3, <2>1 DEF Awaited
<1>8. ASSUME NEW g \in Frame, FrameOK(g), g.job # Top.job
      PROVE  FrameOK(g)'
  <2>1. CASE g.job = v /\ v \in Jobs
    BY <1>2, <1>6, <1>7, <1>8, <2>1 DEF FrameOK, Jobs, NoJob
  <2>2. CASE g.job # v
    BY <1>2, <1>6, <1>a, <1>8, <2>2, FrameKept DEF Jobs, NoJob
  <2>3. CASE g.job = NoJob
    BY <1>8, <2>3 DEF FrameOK
  <2> QED
    BY <2>1, <2>2, <2>3
<1>9. /\ StackInv'
      /\ stack' # <<>> => Top'.at \in UserPlaces
  BY <1>1, <1>2, <1>8, StackPopped DEF MainTypes
<1>10. /\ ~At("join")' /\ ~At("lost")' /\ ~At("decide")' /\ ~Ending'
  BY <1>9 DEF At, UserPlaces, Ending
<1>11. ControlInv'
  <2>1. \A j \in accepted : Known(j)'
    BY <1>1, <1>6 DEF ControlInv, MainTypes
  <2>2. /\ NoRegistry.job = NoJob /\ NoRegistry.discarded = FALSE
        /\ NoRegistry.collected = FALSE
    BY DEF NoRegistry
  <2> QED
    BY <1>2, <1>10, <2>1, <2>2 DEF ControlInv
<1>12. TimerInv'
  <2>1. ASSUME NEW k \in Jobs, jobs'[k].timer PROVE Unsettled(k)' /\ Awaited(k)'
    <3>1. k # v /\ jobs[k].timer
      BY <1>6, <2>1
    <3> QED
      BY <1>1, <1>7, <1>a, <3>1 DEF TimerInv
  <2> QED
    BY <1>2, <2>1 DEF TimerInv
<1>13. UnloadInv'
  <2>1. Top.job = NoJob => rooted' = NoJob /\ \A j \in Jobs : ~jobs'[j].timer
    BY <1>1, <1>2, <1>4, <1>5, <1>6 DEF UnloadInv
  <2> QED
    BY <1>2, <1>3, <1>10, <2>1 DEF UnloadInv
<1>14. VerdictInv'
  <2>1. ASSUME NEW k \in Jobs, jobs'[k].failure
        PROVE  \/ jobs'[k].verdict \in {"pending", "consumer", "internal"}
               \/ jobs'[k].verdict = "cancelled" /\ stopping'
    <3>1. jobs[k].failure
      BY <1>6, <2>1
    <3>2. \/ jobs[k].verdict \in {"pending", "consumer", "internal"}
          \/ jobs[k].verdict = "cancelled" /\ Top.job = NoJob
      BY <1>1, <1>2, <3>1 DEF VerdictInv
    <3> QED
      BY <1>2, <1>6, <3>2
  <2>2. ResolvedIsComplete'
    <3> SUFFICES ASSUME NEW k \in Jobs, jobs'[k].verdict = "resolved"
                 PROVE  k \notin accepted /\ ~jobs'[k].failure
                        /\ (Streaming(k)' => jobs'[k].prompt = Prompts + 1)
      BY <1>2 DEF ResolvedIsComplete
    <3>1. jobs[k].verdict = "resolved"
      BY <1>6
    <3> QED
      BY <1>1, <1>6, <1>7, <3>1 DEF VerdictInv, ResolvedIsComplete
  <2> QED
    BY <1>10, <2>1, <2>2 DEF VerdictInv
<1> QED
  BY <1>3, <1>9, <1>11, <1>12, <1>13, <1>14, TypesSplit DEF BoundaryInv, JobIInv

(* The engine comes back from a job that was collected; the promise settles *)
(* or has its last callback.                                                *)
LEMMA FinishStep ==
  ASSUME BoundaryInv, JobIInv', MainTypes', At("decide") \/ At("ready"),
         registry.job = Top.job, registry.collected,
         State(Top.job) = "ok" /\ ~jobs[Top.job].failure /\ Streaming(Top.job)
           => jobs[Top.job].prompt = Prompts + 1,
         FinishActive(Top.job)
  PROVE  BoundaryInv'
<1>1. /\ MainTypes /\ StackInv /\ ControlInv /\ OwnershipAccounted /\ TimerInv
      /\ UnloadInv /\ VerdictInv /\ JobIInv
  BY TypesSplit DEF BoundaryInv
<1>0. /\ stack # <<>> /\ Top.job \in Jobs /\ Known(Top.job) /\ FrameOK(Top)
      /\ ~At("join") /\ ~At("lost") /\ Top.at \notin Special
  BY <1>1, TopOK DEF At, Special
<1>j. PICK j \in Jobs : j = Top.job
  BY <1>0
<1>2. j # NoJob /\ reserved = j /\ ~jobs[j].timer /\ Unsettled(j) /\ ~AllGone /\ ~stopping
  <2>1. j # NoJob /\ reserved = j
    BY <1>0, <1>1, <1>j DEF ControlInv, Jobs, NoJob
  <2>2. ~jobs[j].timer
    BY <1>0, <1>j, <2>1 DEF FrameOK
  <2>3. Unsettled(j) /\ ~AllGone
    BY <1>0, <1>1, <2>1, ReservedLives DEF TimerInv
  <2>4. ~stopping
    BY <1>0, <1>1, <2>3 DEF UnloadInv, Ending
  <2> QED
    BY <2>1, <2>2, <2>3, <2>4
<1>3. PICK h \in Handles : h = Owner(j)
  BY <1>1 DEF MainTypes, Job, Owner
<1> DEFINE shut == closed[h] \/ outcome = "broken"
<1>4. /\ pc' = "none" /\ reserved' = NoJob /\ registry' = NoRegistry
      /\ stopping' = stopping /\ accepted' = accepted
      /\ closed' = [closed EXCEPT ![h] = closed[h] \/ shut]
      /\ model' = [g \in Handles |->
                     IF g = h THEN IF shut THEN "gone" ELSE "handle"
                     ELSE IF model[g] = "deferred" THEN "gone" ELSE model[g]]
      /\ \/ /\ State(j) = "ok" /\ ~jobs[j].failure
            /\ Goto("onFinal") /\ jobs' = jobs /\ rooted' = rooted
         \/ /\ ~(State(j) = "ok" /\ ~jobs[j].failure)
            /\ Settle(j, Verdict(j)) /\ Pop
  BY <1>3, <1>j DEF FinishActive, ShutOnReturn, Release, DropJob, NewControl
<1>5. OwnershipAccounted'
  <2> SUFFICES ASSUME NEW g \in Handles
               PROVE  /\ model'[g] = "handle" => ~closed'[g]
                      /\ model'[g] = "gone" => closed'[g]
                      /\ model'[g] \notin {"deferred", "job"}
    BY <1>4 DEF OwnershipAccounted
  <2>1. CASE g = h
    BY <1>1, <1>4, <2>1 DEF MainTypes
  <2>2. CASE g # h
    <3>1. closed'[g] = closed[g]
      BY <1>1, <1>4, <2>2 DEF MainTypes
    <3>2. model[g] # "job"
      BY <1>1, <1>2, <1>3, <2>2 DEF OwnershipAccounted
    <3>3. /\ model[g] = "handle" => ~closed[g]
          /\ model[g] \in {"gone", "deferred"} => closed[g]
      BY <1>1 DEF OwnershipAccounted
    <3> QED
      BY <1>1, <1>4, <2>2, <3>1, <3>2, <3>3 DEF MainTypes
  <2> QED
    BY <2>1, <2>2
<1>6. /\ j \in accepted => State(j) # "ok"
  <2>1. terminal
    BY <1>1 DEF ControlInv, JobIInv, TerminalPlace
  <2>2. j \in accepted => cancelled
    BY <1>1, <1>2 DEF ControlInv
  <2>3. cancelled => outcome \in {"cancelled", "broken"}
    BY <1>1, <2>1 DEF JobIInv, CancelWins
  <2> QED
    BY <2>2, <2>3 DEF State
<1>7. \A k \in Jobs : ~jobs[k].timer
  BY <1>1, <1>2 DEF TimerInv, Awaited
<1>8. \A k \in Jobs : Awaited(k) => k = j
  BY <1>2 DEF Awaited
<1>9. /\ NoRegistry.job = NoJob /\ NoRegistry.discarded = FALSE
      /\ NoRegistry.collected = FALSE
  BY DEF NoRegistry
<1>10. CASE State(j) = "ok" /\ ~jobs[j].failure
  <2>1. Goto("onFinal") /\ jobs' = jobs /\ rooted' = rooted
    BY <1>4, <1>10
  <2>2. PICK f \in Frame : f.job = Top.job /\ f.at = "onFinal" /\ stack' = <<f>> \o Tail(stack)
    <3>1. "onFinal" \in Places
      BY DEF Places, UserPlaces
    <3> QED
      BY <1>0, <1>1, <2>1, <3>1, GotoReplaces DEF Replaces
  <2>3. stack' # <<>> /\ Top' = f
    BY <1>0, <1>1, <2>2, Replaced DEF MainTypes
  <2>4. /\ ~At("join")' /\ ~At("lost")' /\ ~At("decide")' /\ ~Ending'
    BY <2>2, <2>3 DEF At, Ending
  <2>5. \A k : /\ Known(k)' <=> Known(k)
               /\ Unsettled(k)' <=> Unsettled(k)
               /\ Streaming(k)' <=> Streaming(k)
    BY <2>1 DEF Known, Unsettled, Streaming
  <2>6. StackInv'
    <3>1. FrameOK(f)'
      BY <1>0, <1>2, <1>4, <1>6, <1>10, <1>j, <2>1, <2>2, <2>5 DEF FrameOK
    <3>2. \A g \in Frame : FrameOK(g) /\ g.job # Top.job => FrameOK(g)'
      <4> TAKE g \in Frame
      <4> HAVE FrameOK(g) /\ g.job # Top.job
      <4>1. g.job \in Jobs => ~Awaited(g.job) /\ g.job # NoJob
        BY <1>8, <1>j DEF Jobs, NoJob
      <4> QED
        BY <1>4, <2>1, <4>1, FrameKept
    <3> QED
      BY <1>0, <1>1, <2>2, <3>1, <3>2, StackReplaced DEF MainTypes
  <2>7. ControlInv'
    BY <1>1, <1>4, <1>9, <2>4, <2>5 DEF ControlInv
  <2>8. TimerInv'
    BY <1>4, <1>7, <2>1 DEF TimerInv
  <2>9. UnloadInv'
    BY <1>2, <1>4, <2>4 DEF UnloadInv
  <2>10. VerdictInv'
    BY <1>1, <1>2, <1>4, <2>1, <2>5 DEF VerdictInv, ResolvedIsComplete
  <2> QED
    BY <1>5, <2>6, <2>7, <2>8, <2>9, <2>10, TypesSplit DEF BoundaryInv, JobIInv
<1>11. CASE ~(State(j) = "ok" /\ ~jobs[j].failure)
  <2>1. Settle(j, Verdict(j)) /\ Pop
    BY <1>4, <1>11
  <2>2. /\ \A k \in Jobs \ {j} : jobs'[k] = jobs[k]
        /\ \A k \in Jobs : /\ jobs'[k].mode = jobs[k].mode
                           /\ jobs'[k].failure = jobs[k].failure
                           /\ jobs'[k].prompt = jobs[k].prompt
                           /\ ~jobs'[k].timer
        /\ jobs'[j].verdict = Verdict(j)
    BY <1>1, <1>2, <1>7, <2>1 DEF Settle, MainTypes, Job
  <2>3. /\ jobs[j].failure => Verdict(j) = "consumer"
        /\ Verdict(j) \in {"consumer", "cancelled", "failed"}
    BY DEF Verdict
  <2>4. \A k \in Jobs : Streaming(k)' <=> Streaming(k)
    BY <2>2 DEF Streaming
  <2>a. \A k \in Jobs : Known(k) => Known(k)'
    BY <2>2, <2>3 DEF Known
  <2>5. \A g \in Frame : FrameOK(g) /\ g.job # Top.job => FrameOK(g)'
    <3> TAKE g \in Frame
    <3> HAVE FrameOK(g) /\ g.job # Top.job
    <3>1. g.job \in Jobs => ~Awaited(g.job) /\ g.job # NoJob /\ g.job # j
      BY <1>8, <1>j DEF Jobs, NoJob
    <3> QED
      BY <1>4, <2>2, <3>1, FrameKept
  <2>6. /\ StackInv'
        /\ stack' # <<>> => Top'.at \in UserPlaces
    BY <1>0, <1>1, <2>1, <2>5, StackPopped DEF MainTypes
  <2>7. /\ ~At("join")' /\ ~At("lost")' /\ ~At("decide")' /\ ~Ending'
    BY <2>6 DEF At, UserPlaces, Ending
  <2>8. ControlInv'
    <3>1. \A k \in accepted : Known(k)'
      BY <1>1, <2>a DEF ControlInv, MainTypes
    <3> QED
      BY <1>4, <1>9, <2>7, <3>1 DEF ControlInv
  <2>9. TimerInv'
    BY <1>4, <2>2 DEF TimerInv
  <2>10. UnloadInv'
    BY <1>2, <1>4, <2>7 DEF UnloadInv
  <2>11. VerdictInv'
    <3>1. ASSUME NEW k \in Jobs, jobs'[k].failure
          PROVE  jobs'[k].verdict \in {"pending", "consumer", "internal"}
      <4>1. CASE k = j
        BY <2>2, <2>3, <3>1, <4>1
      <4>2. CASE k # j
        BY <1>1, <1>2, <2>2, <3>1, <4>2 DEF VerdictInv
      <4> QED
        BY <4>1, <4>2
    <3>2. ResolvedIsComplete'
      <4> SUFFICES ASSUME NEW k \in Jobs, jobs'[k].verdict = "resolved"
                   PROVE  k \notin accepted /\ ~jobs'[k].failure
                          /\ (Streaming(k)' => jobs'[k].prompt = Prompts + 1)
        BY <1>4 DEF ResolvedIsComplete
      <4>1. k # j /\ jobs[k].verdict = "resolved"
        BY <2>2, <2>3
      <4> QED
        BY <1>1, <2>2, <2>4, <4>1 DEF VerdictInv, ResolvedIsComplete
    <3> QED
      BY <3>1, <3>2 DEF VerdictInv
  <2> QED
    BY <1>5, <2>6, <2>8, <2>9, <2>10, <2>11, TypesSplit DEF BoundaryInv, JobIInv
<1> QED
  BY <1>10, <1>11

(* A job that is submitted is new to everything, and nothing is ending.     *)
LEMMA FreshJob ==
  ASSUME MainTypes, StackInv, ControlInv, UnloadInv, OwnershipAccounted, UserCode,
         NEW j \in Jobs, Fresh(j), NEW h \in Handles, ~closed[h]
  PROVE  /\ ~Known(j) /\ j \notin accepted /\ reserved # j /\ j # NoJob
         /\ ~At("join") /\ ~At("lost") /\ ~At("decide") /\ ~stopping /\ ~AllGone
         /\ \A i \in 1 .. Len(stack) : stack[i].job # j
<1>1. ~Known(j) /\ j # NoJob
  BY DEF Fresh, Known, Jobs, NoJob
<1>2. ~At("join") /\ ~At("lost") /\ ~At("decide")
  BY DEF UserCode, UserPlaces, At
<1>3. ~AllGone
  BY DEF AllGone, OwnershipAccounted
<1>4. ~stopping
  BY <1>2, <1>3 DEF UnloadInv, Ending
<1>5. j \notin accepted /\ reserved # j
  BY <1>1 DEF ControlInv
<1>6. \A i \in 1 .. Len(stack) : stack[i].job # j
  BY <1>1 DEF StackInv, FrameOK
<1> QED
  BY <1>1, <1>2, <1>3, <1>4, <1>5, <1>6

(* The submission reached the engine.                                       *)
LEMMA StartedStep ==
  ASSUME BoundaryInv, JobIInv', MainTypes',
         NEW j \in Jobs, NEW h \in Handles, NEW m \in Modes, NEW timer \in BOOLEAN,
         UserCode, Fresh(j), ~closed[h], StartNative(j, h, m),
         jobs' = [jobs EXCEPT ![j] = NewJob(h, m, timer)],
         UNCHANGED <<closed, stopping, accepted>>,
         \/ timer /\ rooted' = j /\ stack' = stack
         \/ ~timer /\ rooted' = j /\ Push(j, "header")
         \/ ~timer /\ rooted' = rooted /\ Push(j, "lost")
  PROVE  BoundaryInv'
<1>1. /\ MainTypes /\ StackInv /\ ControlInv /\ OwnershipAccounted /\ TimerInv
      /\ UnloadInv /\ VerdictInv
  BY TypesSplit DEF BoundaryInv
<1>2. /\ ~Known(j) /\ j \notin accepted /\ j # NoJob
      /\ ~At("join") /\ ~At("lost") /\ ~At("decide") /\ ~stopping /\ ~AllGone
      /\ \A i \in 1 .. Len(stack) : stack[i].job # j
  BY <1>1, FreshJob
<1>3. /\ reserved = NoJob /\ model[h] = "handle"
      /\ model' = [model EXCEPT ![h] = "job"] /\ reserved' = j
      /\ registry' = [job |-> j, discarded |-> FALSE, collected |-> FALSE]
      /\ pc' = "spawned" /\ streaming' = (m # "plain") /\ cancelled' = FALSE
  BY DEF StartNative, Start, NewControl
<1>4. /\ \A k \in Jobs \ {j} : jobs'[k] = jobs[k]
      /\ jobs'[j].owner = h /\ jobs'[j].mode = m /\ jobs'[j].verdict = "pending"
      /\ jobs'[j].timer = timer /\ ~jobs'[j].failure
  BY <1>1 DEF MainTypes, NewJob
<1>5. /\ Known(j)' /\ Unsettled(j)' /\ Owner(j)' = h /\ Streaming(j)' = (m # "plain")
      /\ \A k \in Jobs \ {j} : jobs'[k].verdict = jobs[k].verdict
  BY <1>4 DEF Known, Unsettled, Owner, Streaming
<1>6. \A k \in Jobs : ~Awaited(k) /\ ~jobs[k].timer
  BY <1>1, <1>2, <1>3 DEF TimerInv, Awaited, Jobs, NoJob
<1>7. \A g \in Frame : FrameOK(g) /\ g.job # j => FrameOK(g)'
  <2> TAKE g \in Frame
  <2> HAVE FrameOK(g) /\ g.job # j
  <2>1. g.job \in Jobs => ~Awaited(g.job)
    BY <1>6
  <2> QED
    BY <1>3, <1>4, <2>1, FrameKept
<1>8. OwnershipAccounted'
  <2> SUFFICES ASSUME NEW g \in Handles
               PROVE  /\ model'[g] = "handle" => ~closed[g]
                      /\ model'[g] = "gone" => closed[g]
                      /\ model'[g] # "deferred"
                      /\ model'[g] = "job" <=> h = g
    BY <1>2, <1>3, <1>5 DEF OwnershipAccounted, Owner
  <2>1. CASE g = h
    BY <1>1, <1>3, <2>1 DEF MainTypes
  <2>2. CASE g # h
    BY <1>1, <1>3, <2>2 DEF MainTypes, OwnershipAccounted
  <2> QED
    BY <2>1, <2>2
<1>9. /\ StackInv'
      /\ ~At("join")' /\ ~At("decide")'
      /\ At("lost")' => Top'.job = j
      /\ timer \/ Polling(j)' \/ (At("lost")' /\ Top'.job = j)
  <2>1. CASE timer /\ rooted' = j /\ stack' = stack
    <3>1. /\ At("join")' <=> At("join")
          /\ At("lost")' <=> At("lost")
          /\ At("decide")' <=> At("decide")
      BY <2>1 DEF At, Top
    <3>2. \A g \in Frame : FrameOK(g) /\ g.job = j => FALSE
      BY <1>2 DEF FrameOK
    <3> QED
      BY <1>1, <1>2, <1>7, <2>1, <3>1, <3>2, StackSame DEF MainTypes
  <2>2. CASE Push(j, "header") \/ Push(j, "lost")
    <3>1. PICK f \in Frame : /\ f.job = j /\ f.at \in {"header", "lost"}
                             /\ stack' = <<f>> \o stack
                             /\ f.at = "header" => ~timer /\ rooted' = j
                             /\ ~timer
      <4>1. CASE ~timer /\ rooted' = j /\ Push(j, "header")
        <5> DEFINE f == [job |-> j, at |-> "header", ready |-> FALSE]
        <5>1. f \in Frame /\ f.job = j /\ f.at = "header"
          BY DEF Frame, Places
        <5> QED
          BY <4>1, <5>1 DEF Push
      <4>2. CASE ~timer /\ rooted' = rooted /\ Push(j, "lost")
        <5> DEFINE f == [job |-> j, at |-> "lost", ready |-> FALSE]
        <5>1. f \in Frame /\ f.job = j /\ f.at = "lost"
          BY DEF Frame, Places
        <5> QED
          BY <4>2, <5>1 DEF Push
      <4>3. CASE timer /\ rooted' = j /\ stack' = stack
        <5>1. Len(stack') = Len(stack) + 1
          <6>1. \E f \in Frame : stack' = <<f>> \o stack
            <7>1. \A p \in Places : [job |-> j, at |-> p, ready |-> FALSE] \in Frame
              BY DEF Frame
            <7>2. "header" \in Places /\ "lost" \in Places
              BY DEF Places
            <7> QED
              BY <2>2, <7>1, <7>2 DEF Push
          <6> QED
            BY <1>1, <6>1, Pushed DEF MainTypes
        <5>2. Len(stack) \in Nat
          BY <1>1 DEF MainTypes
        <5> QED
          BY <4>3, <5>1, <5>2
      <4> QED
        BY <4>1, <4>2, <4>3
    <3>2. stack' # <<>> /\ Top' = f
      BY <1>1, <3>1, Pushed DEF MainTypes
    <3>3. FrameOK(f)'
      BY <1>2, <1>3, <1>4, <1>5, <3>1 DEF FrameOK, Awaited
    <3>4. StackInv' /\ Polling(f.job)'
      BY <1>1, <1>2, <1>7, <3>1, <3>3, StackPushed DEF MainTypes
    <3> QED
      BY <3>1, <3>2, <3>4 DEF At
  <2> QED
    BY <2>1, <2>2
<1>10. ControlInv'
  <2>1. \A k \in accepted : Known(k)'
    BY <1>1, <1>2, <1>5 DEF ControlInv, Known, MainTypes
  <2>2. Known(reserved)' /\ Streaming(reserved)' = (m # "plain")
    BY <1>3, <1>5 DEF Known, Streaming
  <2>3. /\ registry'.job = j /\ registry'.discarded = FALSE /\ registry'.collected = FALSE
    BY <1>3
  <2> QED
    BY <1>2, <1>3, <1>9, <2>1, <2>2, <2>3 DEF ControlInv
<1>11. TimerInv'
  <2>1. \A k \in Jobs : jobs'[k].timer => k = j /\ timer
    BY <1>4, <1>6
  <2>2. timer => Awaited(j)'
    <3>1. timer => rooted' = j
      OBVIOUS
    <3> QED
      BY <1>3, <3>1 DEF Awaited
  <2>3. At("lost")' => ~NothingLost'
    <3>1. At("lost")' => Top'.job = j
      BY <1>9
    <3> QED
      BY <1>5, <3>1 DEF NothingLost, Unsettled
  <2>4. \/ At("lost")' /\ ~NothingLost'
        \/ Unsettled(j)' /\ (jobs'[j].timer \/ Polling(j)')
    BY <1>4, <1>5, <1>9, <2>3
  <2>5. \/ At("lost")' /\ ~NothingLost'
        \/ Unsettled(reserved)' /\ (jobs'[reserved'].timer \/ Polling(reserved)')
    BY <1>3, <2>4 DEF Unsettled, Polling
  <2> QED
    BY <1>5, <2>1, <2>2, <2>5 DEF TimerInv
<1>12. UnloadInv'
  BY <1>2, <1>9 DEF UnloadInv, Ending
<1>13. VerdictInv'
  <2>1. \A k \in Jobs : jobs'[k].failure => jobs[k].failure /\ jobs'[k].verdict = jobs[k].verdict
    BY <1>4, <1>5
  <2>2. ResolvedIsComplete'
    <3> SUFFICES ASSUME NEW k \in Jobs, jobs'[k].verdict = "resolved"
                 PROVE  k \notin accepted /\ ~jobs'[k].failure
                        /\ (Streaming(k)' => jobs'[k].prompt = Prompts + 1)
      BY DEF ResolvedIsComplete
    <3>1. k # j /\ jobs'[k] = jobs[k]
      BY <1>4
    <3> QED
      BY <1>1, <3>1 DEF VerdictInv, ResolvedIsComplete, Streaming
  <2> QED
    BY <1>1, <1>2, <1>9, <2>1, <2>2 DEF VerdictInv
<1> QED
  BY <1>8, <1>9, <1>10, <1>11, <1>12, <1>13, TypesSplit DEF BoundaryInv, JobIInv

(* The submission did not reach the engine: it is rejected at once, or R    *)
(* does not know what became of it.                                         *)
LEMMA NotStartedStep ==
  ASSUME BoundaryInv, JobIInv', MainTypes',
         NEW j \in Jobs, NEW h \in Handles, NEW r \in Job,
         UserCode, Fresh(j), ~closed[h],
         jobs' = [jobs EXCEPT ![j] = r], ~r.timer, ~r.failure,
         UNCHANGED <<jobVars, reserved, model, closed, registry, rooted, stopping, accepted>>,
         \/ r.verdict = "failed" /\ stack' = stack
         \/ r.verdict = "pending" /\ Push(j, "lost")
  PROVE  BoundaryInv'
<1>1. /\ MainTypes /\ StackInv /\ ControlInv /\ OwnershipAccounted /\ TimerInv
      /\ UnloadInv /\ VerdictInv
  BY TypesSplit DEF BoundaryInv
<1>2. /\ ~Known(j) /\ j \notin accepted /\ j # NoJob /\ reserved # j
      /\ ~At("join") /\ ~At("lost") /\ ~At("decide") /\ ~stopping
      /\ \A i \in 1 .. Len(stack) : stack[i].job # j
  BY <1>1, FreshJob
<1>3. /\ \A k \in Jobs \ {j} : jobs'[k] = jobs[k]
      /\ jobs'[j] = r
  BY <1>1 DEF MainTypes
<1>4. UNCHANGED <<pc, streaming, cancelled>>
  BY DEF jobVars, control, worker
<1>5. /\ Known(j)' /\ r.verdict # "resolved"
      /\ \A k \in Jobs \ {j} : /\ Known(k)' <=> Known(k)
                               /\ Unsettled(k)' <=> Unsettled(k)
  BY <1>3 DEF Known, Unsettled
<1>a. \A k : Awaited(k)' <=> Awaited(k)
  BY DEF Awaited, AllGone
<1>6. \A g \in Frame : FrameOK(g) /\ g.job # j => FrameOK(g)'
  BY <1>3, <1>a, FrameKept
<1>7. /\ StackInv' /\ (\A k \in Jobs : Polling(k) => Polling(k)')
      /\ ~At("join")' /\ ~At("decide")'
      /\ At("lost")' => Top'.job = j /\ Unsettled(j)'
  <2>1. CASE r.verdict = "failed" /\ stack' = stack
    <3>1. /\ At("join")' <=> At("join")
          /\ At("lost")' <=> At("lost")
          /\ At("decide")' <=> At("decide")
      BY <2>1 DEF At, Top
    <3>2. \A g \in Frame : FrameOK(g) /\ g.job = j => FALSE
      BY <1>2 DEF FrameOK
    <3> QED
      BY <1>1, <1>2, <1>6, <2>1, <3>1, <3>2, StackSame DEF MainTypes
  <2>2. CASE r.verdict = "pending" /\ Push(j, "lost")
    <3>1. PICK f \in Frame : f.job = j /\ f.at = "lost" /\ stack' = <<f>> \o stack
      <4> DEFINE f == [job |-> j, at |-> "lost", ready |-> FALSE]
      <4>1. f \in Frame /\ f.job = j /\ f.at = "lost"
        BY DEF Frame, Places
      <4> QED
        BY <2>2, <4>1 DEF Push
    <3>2. stack' # <<>> /\ Top' = f
      BY <1>1, <3>1, Pushed DEF MainTypes
    <3>3. FrameOK(f)'
      BY <1>3, <1>5, <3>1 DEF FrameOK
    <3>4. StackInv' /\ (\A k \in Jobs : Polling(k) => Polling(k)')
      BY <1>1, <1>2, <1>6, <3>1, <3>3, StackPushed DEF MainTypes
    <3>5. Unsettled(j)'
      BY <1>3, <2>2 DEF Unsettled
    <3> QED
      BY <3>1, <3>2, <3>4, <3>5 DEF At
  <2> QED
    BY <2>1, <2>2
<1>8. ControlInv'
  <2>1. \A k \in Jobs : Known(k) => k # j /\ jobs'[k] = jobs[k] /\ Known(k)'
    BY <1>2, <1>3, <1>5
  <2> QED
    BY <1>1, <1>2, <1>4, <1>7, <2>1, ControlKept
<1>9. OwnershipAccounted'
  <2>1. reserved # NoJob => Owner(reserved)' = Owner(reserved)
    BY <1>1, <1>2, <1>3 DEF MainTypes, Owner
  <2> QED
    BY <1>1, <2>1 DEF OwnershipAccounted
<1>10. TimerInv'
  <2>1. \A k \in Jobs : jobs'[k].timer => Unsettled(k)' /\ Awaited(k)'
    <3> TAKE k \in Jobs
    <3> HAVE jobs'[k].timer
    <3>1. k # j /\ jobs[k].timer
      BY <1>3
    <3> QED
      BY <1>1, <1>5, <1>a, <3>1 DEF TimerInv
  <2>2. CollectorInv'
    <3>1. CollectorInv
      BY <1>1 DEF TimerInv, CollectorInv
    <3>2. \A k \in Jobs : Unsettled(k) /\ (jobs[k].timer \/ Polling(k)) /\ reserved = k
            => Unsettled(k)' /\ (jobs'[k].timer \/ Polling(k)')
      BY <1>2, <1>3, <1>5, <1>7
    <3> QED
      BY <1>1, <1>2, <3>1, <3>2, CollectorKept
  <2> QED
    BY <2>1, <2>2 DEF TimerInv, CollectorInv
<1>11. UnloadInv'
  BY <1>2, <1>7 DEF UnloadInv, Ending
<1>12. VerdictInv'
  <2>1. \A k \in Jobs : jobs'[k].failure => jobs'[k] = jobs[k]
    BY <1>3
  <2>2. ResolvedIsComplete'
    <3> SUFFICES ASSUME NEW k \in Jobs, jobs'[k].verdict = "resolved"
                 PROVE  k \notin accepted /\ ~jobs'[k].failure
                        /\ (Streaming(k)' => jobs'[k].prompt = Prompts + 1)
      BY DEF ResolvedIsComplete
    <3>1. k # j /\ jobs'[k] = jobs[k]
      BY <1>3, <1>5
    <3> QED
      BY <1>1, <3>1 DEF VerdictInv, ResolvedIsComplete, Streaming
  <2> QED
    BY <1>1, <1>2, <1>7, <2>1, <2>2 DEF VerdictInv
<1> QED
  BY <1>7, <1>8, <1>9, <1>10, <1>11, <1>12, TypesSplit DEF BoundaryInv, JobIInv

-----------------------------------------------------------------------------
(***************************************************************************)
(* The worker's side, and the actions one by one.                          *)
(***************************************************************************)
(* The drop of a job leaves nothing of it.                                  *)
LEMMA DropStep == ASSUME JobIInv, DropJob PROVE JobIInv'
<1>1. JobTypeOK'
  <2>1. rows' \in Seq(Row)
    BY EmptySeq DEF DropJob, NewControl
  <2>2. /\ promptId' \in 1 .. Prompts /\ prompt' \in 1 .. Prompts
        /\ tokens' \in 0 .. MaxTokens /\ chunk' \in 0 .. ChunkBytes
    BY RequestAssumption, ByteLimitsAssumption DEF DropJob, NewControl
  <2>3. nextId' \in Nat \ {0} /\ drained' \in Nat
    BY DEF DropJob, NewControl
  <2>4. pc' \in PCs /\ outcome' \in Outcomes
    BY DEF DropJob, NewControl, PCs, Outcomes
  <2>5. /\ streaming' \in BOOLEAN /\ cancelled' \in BOOLEAN /\ terminal' \in BOOLEAN
        /\ discarded' \in BOOLEAN /\ asleep' \in BOOLEAN
    BY DEF DropJob, NewControl
  <2> QED
    BY <2>1, <2>2, <2>3, <2>4, <2>5 DEF JobTypeOK
<1>2. TerminalPlace' /\ NoLostWakeup' /\ CancelWins'
  BY DEF DropJob, NewControl, TerminalPlace, NoLostWakeup, CancelWins
<1>3. QueueBehindCounter' /\ RowsAreConsecutive'
  BY QueueKept DEF DropJob, NewControl
<1> QED
  BY <1>1, <1>2, <1>3 DEF JobIInv

(* What the main thread does to a running job.                              *)
JobTouched ==
  \/ UNCHANGED jobVars
  \/ DiscardStream
  \/ CanCancel /\ RequestCancel
  \/ Join
  \/ streaming /\ \E n \in 0 .. BatchRows : IsBatch(n) /\ Transfer(n)

(* What such a step keeps of the job.                                       *)
LEMMA TouchedJob ==
  ASSUME JobIInv, JobTouched, pc # "none" \/ UNCHANGED jobVars
  PROVE  /\ JobIInv'
         /\ pc' = "none" <=> pc = "none"
         /\ pc = "joined" => pc' = "joined"
         /\ streaming' = streaming
         /\ cancelled => cancelled'
<1>1. [Next]_jobVars
  BY DEF JobTouched, Next, MainDiscard, MainCancel, MainDrain
<1>2. JobIInv'
  BY <1>1, NextJobIInv
<1>3. /\ pc' = "none" <=> pc = "none"
      /\ pc = "joined" => pc' = "joined"
      /\ streaming' = streaming
      /\ cancelled => cancelled'
  <2>1. CASE UNCHANGED jobVars
    BY <2>1 DEF jobVars, control, worker
  <2>2. CASE DiscardStream
    <3>1. cancelled' = (cancelled \/ ~terminal) /\ UNCHANGED <<pc, streaming>>
      BY <2>2 DEF DiscardStream
    <3> QED
      BY <3>1, Zenon
  <2>3. CASE RequestCancel
    BY <2>3 DEF RequestCancel
  <2>4. CASE Join
    BY <2>4 DEF Join, control
  <2>5. ASSUME NEW n, Transfer(n)
        PROVE  UNCHANGED <<pc, streaming, cancelled>>
    BY <2>5 DEF Transfer
  <2> QED
    BY <2>1, <2>2, <2>3, <2>4, <2>5 DEF JobTouched
<1> QED
  BY <1>2, <1>3

(* A poll goes on.                                                          *)
LEMMA GoesOn ==
  ASSUME BoundaryInv, stack # <<>>, Top.at \notin Special,
         NEW place \in Places \ {"onFinal", "join", "decide"}, Goto(place),
         rClosed' \in [Handles -> BOOLEAN],
         UNCHANGED <<jobVars, reserved, model, closed, registry, jobs, rooted, stopping,
                     accepted>>
  PROVE  BoundaryInv'
<1>1. MainTypes /\ ControlInv /\ JobIInv /\ StackInv
  BY TypesSplit DEF BoundaryInv
<1>2. Replaces(place) /\ stack' \in Seq(Frame)
  <2>1. Replaces(place)
    BY <1>1, GotoReplaces
  <2>2. stack' \in Seq(Frame)
    BY <1>1, <2>1, Replaced DEF Replaces, MainTypes
  <2> QED
    BY <2>1, <2>2
<1>3. MainTypes'
  BY <1>1, <1>2 DEF MainTypes
<1>4. JobMoved
  BY DEF JobMoved
<1>5. JobTouched
  BY DEF JobTouched
<1>6. /\ JobIInv' /\ (pc' = "none" <=> pc = "none") /\ streaming' = streaming
      /\ (cancelled => cancelled') /\ (pc = "joined" => pc' = "joined")
  BY <1>1, <1>5, TouchedJob
<1>7. registry'.collected => pc' = "joined"
  <2>1. registry' = registry /\ (registry.collected => pc = "joined")
    BY <1>1 DEF ControlInv
  <2> QED
    BY <1>6, <2>1
<1> QED
  BY <1>2, <1>3, <1>4, <1>6, <1>7, MovedStep

(* A consumer fails, and the poll goes on or turns to the shutdown.         *)
LEMMA FailureStep ==
  ASSUME BoundaryInv, stack # <<>>, Top.at \notin Special,
         NEW next \in Places \ {"onFinal", "join", "decide", "lost"},
         ConsumerFailure(Top.job, next),
         UNCHANGED <<reserved, handleVars, rooted, stopping, accepted>>
  PROVE  BoundaryInv'
<1>1. MainTypes /\ ControlInv /\ JobIInv /\ StackInv
  BY TypesSplit DEF BoundaryInv
<1>2. Top.job \in Jobs /\ ~At("join") /\ UNCHANGED <<model, closed, rClosed>>
  BY <1>1, TopOK DEF Special, At, handleVars
<1>j. PICK j \in Jobs : j = Top.job
  BY <1>2
<1>3. CASE ~FirstFailure(j)
  <2>1. Goto(next) /\ UNCHANGED <<jobs, registry, jobVars>>
    BY <1>j, <1>3 DEF ConsumerFailure
  <2> QED
    BY <1>1, <1>2, <2>1, GoesOn DEF MainTypes
<1>4. CASE FirstFailure(j)
  <2>1. /\ jobs' = [jobs EXCEPT ![j].failure = TRUE]
        /\ IF Abandonable(j) THEN Abandon(j) /\ Goto(next)
           ELSE Goto("lost") /\ UNCHANGED <<registry, jobVars>>
    BY <1>j, <1>4 DEF ConsumerFailure
  <2>2. PICK place \in Places \ {"onFinal", "join", "decide"} : Goto(place)
    <3>1. "lost" \in Places
      BY DEF Places
    <3> QED
      BY <2>1, <3>1
  <2>3. Replaces(place) /\ stack' \in Seq(Frame)
    <3>1. Replaces(place)
      BY <1>1, <2>2, GotoReplaces
    <3> QED
      BY <1>1, <3>1, Replaced DEF Replaces, MainTypes
  <2>4. /\ jobs' \in [Jobs -> Job] /\ JobMoved /\ jobs'[j].failure
    <3>1. /\ jobs' \in [Jobs -> Job] /\ jobs'[j].failure
          /\ \A k \in Jobs \ {j} : jobs'[k] = jobs[k]
          /\ jobs'[j].owner = jobs[j].owner /\ jobs'[j].mode = jobs[j].mode
          /\ jobs'[j].verdict = jobs[j].verdict /\ jobs'[j].timer = jobs[j].timer
      BY <1>1, <2>1 DEF MainTypes, Job
    <3> QED
      BY <1>j, <1>4, <3>1 DEF JobMoved, FirstFailure
  <2>5. /\ \/ registry' = registry
           \/ registry' = [registry EXCEPT !.discarded = TRUE] /\ registry.job = j
        /\ JobTouched /\ (pc # "none" \/ UNCHANGED jobVars)
    <3>1. CASE Abandonable(j) /\ Streaming(j)
      <4>1. DiscardStream /\ registry' = [registry EXCEPT !.discarded = TRUE]
        BY <2>1, <3>1 DEF Abandon
      <4>2. registry.job = j
        BY <3>1 DEF Abandonable, Registered
      <4>3. pc # "none"
        BY <1>1, <1>2, <4>2 DEF ControlInv, Jobs, NoJob
      <4> QED
        BY <4>1, <4>2, <4>3 DEF JobTouched
    <3>2. CASE Abandonable(j) /\ ~Streaming(j)
      <4>1. /\ registry' = registry
            /\ UNCHANGED jobVars \/ (registry.job # NoJob /\ CanCancel /\ RequestCancel)
        BY <2>1, <3>2 DEF Abandon, CancelIfPossible
      <4>2. registry.job # NoJob => pc # "none"
        BY <1>1, <1>2 DEF ControlInv
      <4> QED
        BY <4>1, <4>2, Zenon DEF JobTouched
    <3>3. CASE ~Abandonable(j)
      <4>1. registry' = registry /\ UNCHANGED jobVars
        BY <2>1, <3>3
      <4> QED
        BY <4>1, Zenon DEF JobTouched
    <3> QED
      BY <3>1, <3>2, <3>3
  <2>6. /\ registry' \in Registry
        /\ registry'.job = registry.job /\ registry'.collected = registry.collected
        /\ registry.job = NoJob => registry' = registry
        /\ registry'.discarded /\ ~registry.discarded => registry.job = j
    <3>1. registry \in Registry /\ NoJob \notin Jobs
      BY <1>1 DEF MainTypes, Jobs, NoJob
    <3>2. CASE registry' = registry
      BY <3>1, <3>2
    <3>3. CASE registry' = [registry EXCEPT !.discarded = TRUE] /\ registry.job = j
      BY <3>1, <3>3 DEF Registry
    <3> QED
      BY <2>5, <3>2, <3>3
  <2>7. MainTypes'
    BY <1>1, <1>2, <2>3, <2>4, <2>6 DEF MainTypes
  <2>8. /\ JobIInv' /\ (pc' = "none" <=> pc = "none") /\ streaming' = streaming
        /\ (cancelled => cancelled') /\ (pc = "joined" => pc' = "joined")
    BY <1>1, <2>5, TouchedJob
  <2>9. registry'.collected => pc' = "joined"
    <3>1. registry.collected => pc = "joined"
      BY <1>1 DEF ControlInv
    <3> QED
      BY <2>6, <2>8, <3>1
  <2>10. registry'.discarded /\ ~registry.discarded =>
           closed[Owner(registry.job)] \/ jobs'[registry.job].failure
    BY <2>4, <2>6
  <2> QED
    BY <1>2, <2>3, <2>4, <2>6, <2>7, <2>8, <2>9, <2>10, MovedStep
<1> QED
  BY <1>3, <1>4

(* A handle that is noted as closed is still one.                           *)
LEMMA NotedClosed ==
  ASSUME MainTypes, NEW h, NoteClosed(h)
  PROVE  rClosed' \in [Handles -> BOOLEAN]
<1>1. \A g \in Handles : (rClosed[g] \/ closed[g]) \in BOOLEAN
  BY Zenon DEF MainTypes
<1>2. rClosed \in [Handles -> BOOLEAN]
  BY DEF MainTypes
<1>3. PICK b \in BOOLEAN : b = (rClosed[h] \/ closed[h])
  OBVIOUS
<1> QED
  BY <1>2, <1>3 DEF NoteClosed

(* The steps of a poll that end in a consumer failure, or go on.            *)
LEMMA PollGoesOn ==
  ASSUME BoundaryInv,
         \/ Header \/ SinkClosed \/ Running \/ DrainContended \/ Undelivered \/ WriteFile
         \/ AfterSettled \/ NotReady \/ NotAcknowledged
  PROVE  BoundaryInv'
<1>1. MainTypes
  BY TypesSplit DEF BoundaryInv
<1>2. rClosed \in [Handles -> BOOLEAN]
  BY <1>1 DEF MainTypes
<1>3. {"schedule", "collect", "ready", "onProgress"} \subseteq
        Places \ {"onFinal", "join", "decide", "lost"} /\ "lost" \in Places
  BY DEF Places, UserPlaces
<1>4. ASSUME NEW place \in {"schedule", "collect", "ready", "onProgress", "lost"},
             Goto(place), stack # <<>>, Top.at \notin Special,
             rClosed' \in [Handles -> BOOLEAN],
             UNCHANGED <<jobVars, reserved, model, closed, registry, jobs, rooted,
                         stopping, accepted>>
      PROVE  BoundaryInv'
  <2>1. place \in Places \ {"onFinal", "join", "decide"}
    BY <1>3
  <2> QED
    BY <1>4, <2>1, GoesOn
<1>5. ASSUME NEW place \in {"schedule", "collect", "ready"},
             ConsumerFailure(Top.job, place), stack # <<>>, Top.at \notin Special,
             UNCHANGED <<reserved, handleVars, rooted, stopping, accepted>>
      PROVE  BoundaryInv'
  <2>1. place \in Places \ {"onFinal", "join", "decide", "lost"}
    BY <1>3
  <2> QED
    BY <1>5, <2>1, FailureStep
<1>6. CASE Header
  <2>1. stack # <<>> /\ Top.at \notin Special
    BY <1>6 DEF Header, At, Special
  <2>2. CASE ConsumerFailure(Top.job, "schedule")
    BY <1>5, <1>6, <2>1, <2>2 DEF Header
  <2>3. CASE Goto("schedule") /\ UNCHANGED <<jobs, registry, jobVars>>
    BY <1>2, <1>4, <1>6, <2>1, <2>3 DEF Header, handleVars
  <2> QED
    BY <1>6, <2>2, <2>3 DEF Header
<1>7. CASE SinkClosed
  <2>1. stack # <<>> /\ Top.at \notin Special
    BY <1>7 DEF SinkClosed, At, Special
  <2> QED
    BY <1>5, <1>7, <2>1 DEF SinkClosed
<1>8. CASE Running
  <2>1. stack # <<>> /\ Top.at \notin Special
    BY <1>8 DEF Running, At, Special
  <2>2. rClosed' \in [Handles -> BOOLEAN]
    BY <1>1, <1>8, NotedClosed DEF Running
  <2>3. Goto("schedule") \/ Goto("onProgress")
    BY <1>8 DEF Running, Progress
  <2> QED
    BY <1>4, <1>8, <2>1, <2>2, <2>3 DEF Running
<1>9. CASE DrainContended
  <2>1. stack # <<>> /\ Top.at \notin Special
    BY <1>9 DEF DrainContended, At, Special
  <2>2. rClosed' \in [Handles -> BOOLEAN]
    BY <1>1, <1>9, NotedClosed DEF DrainContended
  <2> QED
    BY <1>4, <1>9, <2>1, <2>2 DEF DrainContended
<1>10. CASE Undelivered
  <2>1. stack # <<>> /\ Top.at \notin Special
    BY <1>10 DEF Undelivered, At, Special
  <2> QED
    BY <1>5, <1>10, <2>1 DEF Undelivered
<1>11. CASE WriteFile
  <2>1. stack # <<>> /\ Top.at \notin Special
    BY <1>11 DEF WriteFile, At, Special
  <2>2. CASE ConsumerFailure(Top.job, "ready")
    BY <1>5, <1>11, <2>1, <2>2 DEF WriteFile
  <2>3. CASE Goto("ready") /\ UNCHANGED <<jobs, registry, jobVars>>
    BY <1>2, <1>4, <1>11, <2>1, <2>3 DEF WriteFile, handleVars
  <2> QED
    BY <1>11, <2>2, <2>3 DEF WriteFile
<1>12. CASE AfterSettled
  <2>1. stack # <<>> /\ Top.at \notin Special
    BY <1>12 DEF AfterSettled, At, Special
  <2>2. Goto("lost") \/ Goto("schedule")
    BY <1>12 DEF AfterSettled
  <2> QED
    BY <1>2, <1>4, <1>12, <2>1, <2>2 DEF AfterSettled, handleVars
<1>13. CASE NotReady
  <2>1. stack # <<>> /\ Top.at \notin Special
    BY <1>13 DEF NotReady, At, Special
  <2>2. Goto("schedule") \/ Goto("onProgress")
    BY <1>13 DEF NotReady, Progress
  <2> QED
    BY <1>2, <1>4, <1>13, <2>1, <2>2 DEF NotReady, handleVars
<1>14. CASE NotAcknowledged
  <2>1. stack # <<>> /\ Top.at \notin Special
    BY <1>14 DEF NotAcknowledged, At, Special
  <2> QED
    BY <1>5, <1>14, <2>1 DEF NotAcknowledged
<1> QED
  BY <1>6, <1>7, <1>8, <1>9, <1>10, <1>11, <1>12, <1>13, <1>14

(* The worker's own steps neither end it nor undo a cancellation.           *)
LEMMA WorkerBeside ==
  ASSUME BoundaryInv, Worker \/ UNCHANGED vars
  PROVE  BoundaryInv'
<1>1. MainTypes /\ OwnershipAccounted /\ JobIInv
  BY TypesSplit DEF BoundaryInv
<1>2. UNCHANGED mainVars
  BY DEF Worker, vars
<1>3. UNCHANGED <<reserved, model, closed, rClosed, registry, jobs, rooted, stopping,
                  stack, accepted>>
  BY <1>2 DEF mainVars, handleVars, rVars
<1>4. /\ JobIInv'
      /\ pc' = "none" <=> pc = "none"
      /\ pc = "joined" => pc' = "joined"
      /\ streaming' = streaming
      /\ cancelled => cancelled'
  <2>1. CASE UNCHANGED vars
    <3>1. UNCHANGED jobVars
      BY <2>1 DEF vars
    <3> QED
      BY <1>1, <3>1, TouchedJob DEF JobTouched
  <2>2. CASE WorkerNext
    <3>1. JobIInv'
      BY <1>1, <2>2, NextJobIInv DEF Next
    <3>2. \A kind \in Kinds : AfterRow(kind) => pc' \notin {"none", "joined"}
      BY DEF AfterRow, Return
    <3>3. pc \notin {"none", "joined"} /\ pc' \notin {"none", "joined"}
      BY <2>2, <3>2 DEF WorkerNext, WorkerEnter, PromptStarted, Sampled, PromptCompleted,
         DecodeFails, EnqueueNothing, EnqueueRefused, EnqueueRow, EnqueueWait, Publish,
         WorkerReturn, Return, Kinds
    <3>4. streaming' = streaming /\ cancelled' = cancelled
      BY <2>2 DEF WorkerNext, WorkerEnter, PromptStarted, Sampled, PromptCompleted,
         DecodeFails, EnqueueNothing, EnqueueRefused, EnqueueRow, EnqueueWait, Publish,
         WorkerReturn, control
    <3> QED
      BY <3>1, <3>3, <3>4
  <2> QED
    BY <2>1, <2>2 DEF Worker
<1>5. MainTypes' /\ OwnershipAccounted' /\ (AllGone => AllGone')
  BY <1>1, <1>3 DEF MainTypes, OwnershipAccounted, AllGone, Owner
<1>6. \A h \in Handles : closed[h] => closed'[h]
  BY <1>3
<1> QED
  BY <1>3, <1>4, <1>5, <1>6, BesideStep

(* An accepted cancellation.                                                *)
LEMMA CancelBeside ==
  ASSUME BoundaryInv, NEW h \in Handles, Cancel(h)
  PROVE  BoundaryInv'
<1>1. MainTypes /\ OwnershipAccounted /\ JobIInv /\ ControlInv
  BY TypesSplit DEF BoundaryInv
<1>2. /\ UNCHANGED <<reserved, model, closed, rClosed, registry, jobs, rooted, stopping,
                     stack>>
      /\ UserCode /\ registry.job # NoJob /\ accepted' = accepted \cup {registry.job}
      /\ CanCancel /\ RequestCancel
  BY DEF Cancel, handleVars
<1>3. pc # "none" /\ registry.job \in Jobs
  BY <1>1, <1>2 DEF ControlInv, NoRegistry, MainTypes, Registry
<1>4. /\ JobIInv'
      /\ pc' = "none" <=> pc = "none"
      /\ pc = "joined" => pc' = "joined"
      /\ streaming' = streaming
      /\ cancelled => cancelled'
  BY <1>1, <1>2, <1>3, TouchedJob DEF JobTouched
<1>5. MainTypes' /\ OwnershipAccounted' /\ (AllGone => AllGone')
  BY <1>1, <1>2, <1>3 DEF MainTypes, OwnershipAccounted, AllGone, Owner
<1>6. (\A g \in Handles : closed[g] => closed'[g]) /\ cancelled'
  BY <1>2 DEF RequestCancel
<1> QED
  BY <1>2, <1>4, <1>5, <1>6, BesideStep

(* Closing a handle.                                                        *)
LEMMA CloseBeside ==
  ASSUME BoundaryInv, NEW h \in Handles,
         NativeClose(h) \/ UNCHANGED <<closed, model, registry, jobVars>>,
         rClosed' \in [Handles -> BOOLEAN],
         UNCHANGED <<reserved, rVars>>
  PROVE  BoundaryInv'
<1>1. MainTypes /\ OwnershipAccounted /\ JobIInv /\ ControlInv
  BY TypesSplit DEF BoundaryInv
<1>2. UNCHANGED <<reserved, jobs, rooted, stopping, stack, accepted>>
  BY DEF rVars
<1>3. CASE UNCHANGED <<closed, model, registry, jobVars>>
  <2>1. MainTypes' /\ OwnershipAccounted' /\ (AllGone => AllGone')
    BY <1>1, <1>2, <1>3 DEF MainTypes, OwnershipAccounted, AllGone, Owner
  <2>2. /\ JobIInv'
        /\ pc' = "none" <=> pc = "none"
        /\ pc = "joined" => pc' = "joined"
        /\ streaming' = streaming
        /\ cancelled => cancelled'
    <3>1. UNCHANGED jobVars
      BY <1>3
    <3> QED
      BY <1>1, <3>1, TouchedJob DEF JobTouched
  <2>3. \A g \in Handles : closed[g] => closed'[g]
    BY <1>3
  <2> QED
    BY <1>2, <1>3, <2>1, <2>2, <2>3, BesideStep
<1>4. CASE NativeClose(h)
  <2>1. /\ ~closed[h] /\ closed' = [closed EXCEPT ![h] = TRUE]
        /\ model' = IF model[h] = "handle" THEN Retired(h) ELSE model
    BY <1>4 DEF NativeClose
  <2>2. /\ closed' \in [Handles -> BOOLEAN] /\ closed'[h]
        /\ \A g \in Handles : closed[g] => closed'[g]
        /\ \A g \in Handles \ {h} : closed'[g] = closed[g]
    BY <1>1, <2>1 DEF MainTypes
  <2>3. /\ model' \in [Handles -> {"handle", "job", "deferred", "gone"}]
        /\ model'[h] # "handle" /\ (AllGone => AllGone')
        /\ \A g \in Handles \ {h} : model'[g] = model[g]
        /\ model'[h] = model[h] \/
             (model[h] = "handle" /\
               model'[h] = IF reserved # NoJob THEN "deferred" ELSE "gone")
    <3>1. CASE model[h] # "handle"
      BY <1>1, <2>1, <3>1 DEF MainTypes, AllGone
    <3>2. CASE model[h] = "handle" /\ reserved # NoJob
      <4>1. model' = [model EXCEPT ![h] = "deferred"]
        BY <2>1, <3>2 DEF Retired
      <4> QED
        BY <1>1, <3>2, <4>1 DEF MainTypes, AllGone
    <3>3. CASE model[h] = "handle" /\ reserved = NoJob
      <4>1. model' = [g \in Handles |->
                        IF g = h \/ model[g] = "deferred" THEN "gone" ELSE model[g]]
        BY <2>1, <3>3 DEF Retired
      <4>2. \A g \in Handles : model[g] # "deferred"
        BY <1>1, <3>3 DEF OwnershipAccounted
      <4> QED
        BY <1>1, <3>3, <4>1, <4>2 DEF MainTypes, AllGone
    <3> QED
      BY <3>1, <3>2, <3>3
  <2>4. OwnershipAccounted'
    <3> SUFFICES ASSUME NEW g \in Handles
                 PROVE  /\ model'[g] = "handle" => ~closed'[g]
                        /\ model'[g] = "gone" => closed'[g]
                        /\ model'[g] = "deferred" => closed'[g] /\ reserved # NoJob
                        /\ model'[g] = "job" <=> reserved # NoJob /\ Owner(reserved) = g
      BY <1>2 DEF OwnershipAccounted, Owner
    <3>1. /\ model[g] = "handle" => ~closed[g]
          /\ model[g] = "gone" => closed[g]
          /\ model[g] = "deferred" => closed[g] /\ reserved # NoJob
          /\ model[g] = "job" <=> reserved # NoJob /\ Owner(reserved) = g
      BY <1>1 DEF OwnershipAccounted
    <3>2. CASE g # h
      BY <2>2, <2>3, <3>1, <3>2
    <3>3. CASE g = h
      BY <2>2, <2>3, <3>1, <3>3
    <3> QED
      BY <3>2, <3>3
  <2>5. /\ registry' = registry \/
             (registry.job # NoJob /\ closed'[Owner(registry.job)]
               /\ registry' = [registry EXCEPT !.discarded = TRUE])
        /\ JobTouched /\ (pc # "none" \/ UNCHANGED jobVars)
    <3>1. registry.job # NoJob => pc # "none"
      BY <1>1 DEF ControlInv, NoRegistry
    <3>2. CASE registry.job # NoJob /\ Owner(registry.job) = h /\ Streaming(registry.job)
      <4>1. DiscardStream /\ registry' = [registry EXCEPT !.discarded = TRUE]
        BY <1>4, <3>2 DEF NativeClose
      <4> QED
        BY <2>2, <3>1, <3>2, <4>1 DEF JobTouched
    <3>3. CASE registry.job # NoJob /\ Owner(registry.job) = h /\ ~Streaming(registry.job)
      <4>1. CancelIfPossible /\ registry' = registry
        BY <1>4, <3>3 DEF NativeClose
      <4>2. JobTouched
        BY <4>1 DEF CancelIfPossible, JobTouched
      <4> QED
        BY <3>1, <3>3, <4>1, <4>2
    <3>4. CASE ~(registry.job # NoJob /\ Owner(registry.job) = h)
      <4>1. registry' = registry /\ UNCHANGED jobVars
        BY <1>4, <3>4 DEF NativeClose
      <4>2. JobTouched
        BY <4>1 DEF JobTouched
      <4> QED
        BY <4>1, <4>2
    <3> QED
      BY <3>2, <3>3, <3>4
  <2>6. registry' \in Registry
    BY <1>1, <2>5 DEF MainTypes, Registry
  <2>7. MainTypes'
    BY <1>1, <1>2, <2>2, <2>3, <2>6 DEF MainTypes
  <2>8. /\ JobIInv'
        /\ pc' = "none" <=> pc = "none"
        /\ pc = "joined" => pc' = "joined"
        /\ streaming' = streaming
        /\ cancelled => cancelled'
    BY <1>1, <2>5, TouchedJob
  <2> QED
    BY <1>2, <2>2, <2>3, <2>4, <2>5, <2>7, <2>8, BesideStep
<1> QED
  BY <1>3, <1>4

(* A job of which one field changes is a job.                               *)
LEMMA JobChanged ==
  ASSUME MainTypes, NEW j \in Jobs
  PROVE  /\ \A b \in BOOLEAN : [jobs EXCEPT ![j].timer = b] \in [Jobs -> Job]
         /\ \A v \in Verdicts, b \in BOOLEAN :
              [jobs EXCEPT ![j].verdict = v, ![j].timer = b] \in [Jobs -> Job]
<1>1. jobs \in [Jobs -> Job] /\ jobs[j] \in Job
  BY DEF MainTypes
<1>2. ASSUME NEW b \in BOOLEAN PROVE [jobs EXCEPT ![j].timer = b] \in [Jobs -> Job]
  <2>1. PICK r \in Job : r = [jobs[j] EXCEPT !.timer = b]
    BY <1>1 DEF Job
  <2>2. [jobs EXCEPT ![j].timer = b] = [jobs EXCEPT ![j] = r]
    BY <1>1, <2>1
  <2> QED
    BY <1>1, <2>2
<1>3. ASSUME NEW v \in Verdicts, NEW b \in BOOLEAN
      PROVE  [jobs EXCEPT ![j].verdict = v, ![j].timer = b] \in [Jobs -> Job]
  <2>1. PICK r \in Job : r = [jobs[j] EXCEPT !.verdict = v, !.timer = b]
    BY <1>1 DEF Job
  <2>2. [jobs EXCEPT ![j].verdict = v, ![j].timer = b] = [jobs EXCEPT ![j] = r]
    BY <1>1, <2>1
  <2> QED
    BY <1>1, <2>2
<1> QED
  BY <1>2, <1>3

(* The frame that a step pushes, or what remains after a poll ends.         *)
LEMMA StackTyped ==
  ASSUME MainTypes, (stack # <<>> /\ Pop) \/
                    (\E j \in Jobs \cup {NoJob}, place \in Places : Push(j, place))
  PROVE  stack' \in Seq(Frame)
<1>1. CASE stack # <<>> /\ Pop
  BY <1>1, Popped DEF MainTypes
<1>2. ASSUME NEW j \in Jobs \cup {NoJob}, NEW place \in Places, Push(j, place)
      PROVE  stack' \in Seq(Frame)
  <2> DEFINE f == [job |-> j, at |-> place, ready |-> FALSE]
  <2>1. f \in Frame /\ stack' = <<f>> \o stack
    BY <1>2 DEF Frame, Push
  <2>2. PICK g \in Frame : stack' = <<g>> \o stack
    BY <2>1
  <2> QED
    BY <2>2, Pushed DEF MainTypes
<1> QED
  BY <1>1, <1>2

(* A poll ends: async_schedule, the last callback, a lost settled job.      *)
LEMMA PollEnds ==
  ASSUME BoundaryInv,
         Schedule \/ AlreadySettled \/ CallbackReturns \/ CallbackFails
  PROVE  BoundaryInv'
<1>1. MainTypes /\ JobIInv /\ StackInv /\ UnloadInv
  BY TypesSplit DEF BoundaryInv
<1>2. rClosed \in [Handles -> BOOLEAN]
  BY <1>1 DEF MainTypes
<1>3. UNCHANGED jobVars => JobIInv'
  BY <1>1, NextJobIInv
<1>4. ASSUME NEW place \in {"schedule", "ready", "lost"},
             Goto(place), stack # <<>>, Top.at \notin Special,
             UNCHANGED <<jobVars, reserved, handleVars, registry, jobs, rooted,
                         stopping, accepted>>
      PROVE  BoundaryInv'
  <2>1. place \in Places \ {"onFinal", "join", "decide"}
    BY DEF Places
  <2>2. rClosed' \in [Handles -> BOOLEAN] /\ UNCHANGED <<model, closed>>
    BY <1>2, <1>4 DEF handleVars
  <2> QED
    BY <1>4, <2>1, <2>2, GoesOn
<1>5. ASSUME NEW place \in {"schedule", "ready"},
             ConsumerFailure(Top.job, place), stack # <<>>, Top.at \notin Special,
             UNCHANGED <<reserved, handleVars, rooted, stopping, accepted>>
      PROVE  BoundaryInv'
  <2>1. place \in Places \ {"onFinal", "join", "decide", "lost"}
    BY DEF Places, UserPlaces
  <2> QED
    BY <1>5, <2>1, FailureStep
<1>6. ASSUME Pop, stack # <<>>, ~At("join"), Top.job # NoJob,
             ~Unsettled(Top.job) \/ AllGone,
             UNCHANGED <<jobVars, reserved, handleVars, registry, jobs, rooted, stopping,
                         accepted>>
      PROVE  BoundaryInv'
  <2>1. MainTypes'
    BY <1>1, <1>6, StackTyped DEF MainTypes, handleVars
  <2> QED
    BY <1>3, <1>6, <2>1, PopStep
<1>7. CASE Schedule
  <2>1. /\ stack # <<>> /\ Top.at \notin Special /\ ~At("join") /\ ~At("lost")
        /\ At("schedule") /\ Top.job \in Jobs /\ Top.job # NoJob
    BY <1>1, <1>7, TopOK DEF Schedule, At, Special, Jobs, NoJob
  <2>2. UNCHANGED <<jobVars, reserved, handleVars, registry, rooted, stopping, accepted>>
    BY <1>7 DEF Schedule
  <2>3. CASE (~Unsettled(Top.job) \/ stopping) /\ Pop /\ UNCHANGED jobs
    <3>1. stopping => AllGone
      BY <1>1, <2>1 DEF UnloadInv, Ending
    <3> QED
      BY <1>6, <2>1, <2>2, <2>3, <3>1
  <2>4. CASE /\ Unsettled(Top.job) /\ ~stopping
             /\ jobs' = [jobs EXCEPT ![Top.job].timer = TRUE] /\ Pop
    <3>1. jobs' \in [Jobs -> Job]
      BY <1>1, <2>1, <2>4, JobChanged
    <3>2. MainTypes'
      BY <1>1, <2>1, <2>2, <2>4, <3>1, StackTyped DEF MainTypes, handleVars
    <3> QED
      BY <1>3, <2>1, <2>2, <2>4, <3>2, TimerSetStep
  <2>5. CASE Goto("lost") /\ UNCHANGED jobs
    BY <1>4, <2>1, <2>2, <2>5
  <2> QED
    BY <1>7, <2>3, <2>4, <2>5 DEF Schedule
<1>8. CASE AlreadySettled
  <2>1. /\ stack # <<>> /\ ~At("join") /\ Top.job # NoJob /\ ~Unsettled(Top.job) /\ Pop
    BY <1>8 DEF AlreadySettled, At, NothingLost
  <2> QED
    BY <1>6, <1>8, <2>1 DEF AlreadySettled
<1>9. ASSUME At("onFinal"), NEW v \in {"resolved", "consumer"}, Settle(Top.job, v), Pop,
             UNCHANGED <<jobVars, reserved, handleVars, registry, stopping, accepted>>
      PROVE  BoundaryInv'
  <2>1. stack # <<>> /\ Top.job \in Jobs
    BY <1>1, <1>9, TopOK DEF At
  <2>2. v \in Verdicts
    BY DEF Verdicts, Settled, Rejections
  <2>3. jobs' \in [Jobs -> Job] /\ rooted' \in Jobs \cup {NoJob}
    BY <1>1, <1>9, <2>1, <2>2, JobChanged DEF Settle, MainTypes
  <2>4. MainTypes'
    BY <1>1, <1>9, <2>1, <2>3, StackTyped DEF MainTypes, handleVars
  <2> QED
    BY <1>3, <1>9, <2>4, FinalStep
<1>10. CASE CallbackReturns
  <2>1. CASE At("onToken") /\ Goto("ready") /\ UNCHANGED <<jobs, rooted>>
    <3>1. stack # <<>> /\ Top.at \notin Special
      BY <2>1 DEF At, Special
    <3> QED
      BY <1>4, <1>10, <2>1, <3>1 DEF CallbackReturns
  <2>2. CASE At("onProgress") /\ Goto("schedule") /\ UNCHANGED <<jobs, rooted>>
    <3>1. stack # <<>> /\ Top.at \notin Special
      BY <2>2 DEF At, Special
    <3> QED
      BY <1>4, <1>10, <2>2, <3>1 DEF CallbackReturns
  <2>3. CASE At("onFinal") /\ Settle(Top.job, "resolved") /\ Pop
    BY <1>9, <1>10, <2>3 DEF CallbackReturns
  <2> QED
    BY <1>10, <2>1, <2>2, <2>3 DEF CallbackReturns
<1>11. CASE CallbackFails
  <2>1. CASE At("onToken") /\ ConsumerFailure(Top.job, "ready") /\ UNCHANGED rooted
    <3>1. stack # <<>> /\ Top.at \notin Special
      BY <2>1 DEF At, Special
    <3> QED
      BY <1>5, <1>11, <2>1, <3>1 DEF CallbackFails
  <2>2. CASE At("onProgress") /\ ConsumerFailure(Top.job, "schedule") /\ UNCHANGED rooted
    <3>1. stack # <<>> /\ Top.at \notin Special
      BY <2>2 DEF At, Special
    <3> QED
      BY <1>5, <1>11, <2>2, <3>1 DEF CallbackFails
  <2>3. CASE At("onFinal") /\ Settle(Top.job, "consumer") /\ Pop
             /\ UNCHANGED <<jobVars, registry>>
    BY <1>9, <1>11, <2>3 DEF CallbackFails
  <2> QED
    BY <1>11, <2>1, <2>2, <2>3 DEF CallbackFails
<1> QED
  BY <1>7, <1>8, <1>10, <1>11

(* The event loop runs a timer; the package is unloaded.                    *)
LEMMA PollBegins ==
  ASSUME BoundaryInv, Unload \/ \E j \in Jobs : TimerFires(j)
  PROVE  BoundaryInv'
<1>1. MainTypes /\ JobIInv
  BY TypesSplit DEF BoundaryInv
<1>2. UNCHANGED jobVars => JobIInv'
  BY <1>1, NextJobIInv
<1>3. CASE Unload
  <2>1. stack' \in Seq(Frame)
    <3>1. "lost" \in Places
      BY DEF Places
    <3> QED
      BY <1>1, <1>3, <3>1, StackTyped DEF Unload
  <2>2. MainTypes'
    BY <1>1, <1>3, <2>1 DEF MainTypes, Unload, handleVars
  <2> QED
    BY <1>2, <1>3, <2>2, UnloadStep DEF Unload
<1>4. ASSUME NEW j \in Jobs, TimerFires(j) PROVE BoundaryInv'
  <2>1. stack' \in Seq(Frame)
    <3>1. "collect" \in Places
      BY DEF Places
    <3> QED
      BY <1>1, <1>4, <3>1, StackTyped DEF TimerFires
  <2>2. jobs' \in [Jobs -> Job]
    BY <1>1, <1>4, JobChanged DEF TimerFires
  <2>3. MainTypes'
    BY <1>1, <1>4, <2>1, <2>2 DEF MainTypes, TimerFires, handleVars
  <2> QED
    BY <1>2, <1>4, <2>3, TimerFiresStep DEF TimerFires
<1> QED
  BY <1>3, <1>4

(* The shutdown takes the active job, and destroys what is left.            *)
LEMMA ShutdownSteps ==
  ASSUME BoundaryInv, BeginShutdown \/ EndShutdown
  PROVE  BoundaryInv'
<1>1. MainTypes /\ JobIInv /\ ControlInv /\ StackInv
  BY TypesSplit DEF BoundaryInv
<1>2. stack # <<>> /\ Top.job \in Jobs \cup {NoJob} /\ Victim \in Jobs \cup {NoJob}
  BY <1>1, TopOK DEF BeginShutdown, EndShutdown, At, Victim, MainTypes
<1>3. PICK v \in Jobs \cup {NoJob} : v = Victim
  BY <1>2
<1>4. NoRegistry \in Registry
  <2>1. FALSE \in BOOLEAN /\ NoJob \in Jobs \cup {NoJob}
    OBVIOUS
  <2> QED
    BY <2>1 DEF NoRegistry, Registry
<1>5. CASE BeginShutdown
  <2>1. JobIInv'
    <3>1. registry.job # NoJob => pc # "none"
      BY <1>1 DEF ControlInv, NoRegistry
    <3>2. CASE registry.job # NoJob
      <4>1. DiscardStream
        BY <1>5, <3>2 DEF BeginShutdown, TakeActive
      <4> QED
        BY <1>1, <3>1, <3>2, <4>1, TouchedJob DEF JobTouched
    <3>3. CASE registry.job = NoJob
      <4>1. UNCHANGED jobVars
        BY <1>5, <3>3 DEF BeginShutdown, TakeActive
      <4> QED
        BY <1>1, <4>1, NextJobIInv
    <3> QED
      BY <3>2, <3>3
  <2>2. stack' \in Seq(Frame)
    <3>1. "join" \in Places /\ Goto("join")
      BY <1>5 DEF Places, BeginShutdown
    <3>2. Replaces("join")
      BY <1>1, <1>2, <3>1, GotoReplaces
    <3> QED
      BY <1>1, <1>2, <3>2, Replaced DEF Replaces, MainTypes
  <2>3. jobs' \in [Jobs -> Job]
    <3>1. jobs' = IF v = NoJob THEN jobs ELSE [jobs EXCEPT ![v].timer = FALSE]
      BY <1>3, <1>5 DEF BeginShutdown
    <3> QED
      BY <1>1, <3>1, JobChanged DEF MainTypes
  <2>4. registry' \in Registry /\ stopping' \in BOOLEAN
    BY <1>4, <1>5 DEF BeginShutdown, TakeActive
  <2>5. UNCHANGED <<reserved, model, closed, rClosed, rooted, accepted>>
    BY <1>5 DEF BeginShutdown, handleVars
  <2>6. MainTypes'
    BY <1>1, <2>2, <2>3, <2>4, <2>5 DEF MainTypes
  <2> QED
    BY <1>5, <2>1, <2>6, BeginShutdownStep
<1>6. CASE EndShutdown
  <2>1. JobIInv' /\ reserved' = NoJob /\ registry' \in Registry
    BY <1>1, <1>4, <1>6, DropStep DEF EndShutdown, Release
  <2>2. stack' \in Seq(Frame)
    BY <1>1, <1>2, <1>6, StackTyped DEF EndShutdown
  <2>3. /\ model' \in [Handles -> {"handle", "job", "deferred", "gone"}]
        /\ closed' \in [Handles -> BOOLEAN]
    <3>1. \A h \in Handles : TRUE \in BOOLEAN /\ "gone" \in {"handle", "job", "deferred", "gone"}
      OBVIOUS
    <3> QED
      BY <1>6, <3>1 DEF EndShutdown, DestroyAll
  <2>4. /\ rClosed' \in [Handles -> BOOLEAN] /\ jobs' \in [Jobs -> Job]
        /\ rooted' \in Jobs \cup {NoJob}
    <3>1. CASE v = NoJob
      BY <1>1, <1>3, <1>6, <3>1 DEF EndShutdown, MainTypes
    <3>2. CASE v # NoJob
      <4>1. v \in Jobs
        BY <3>2
      <4>2. /\ rClosed' = [rClosed EXCEPT ![Owner(v)] = TRUE]
            /\ Settle(v, IF Top.job = NoJob THEN "cancelled" ELSE "internal")
        BY <1>3, <1>6, <3>2 DEF EndShutdown
      <4>3. (IF Top.job = NoJob THEN "cancelled" ELSE "internal") \in Verdicts
        BY DEF Verdicts, Settled, Rejections
      <4>4. jobs' \in [Jobs -> Job]
        BY <1>1, <4>1, <4>2, <4>3, JobChanged DEF Settle, MainTypes
      <4>5. rooted' \in Jobs \cup {NoJob}
        BY <1>1, <4>2 DEF Settle, MainTypes
      <4>6. rClosed' \in [Handles -> BOOLEAN]
        BY <1>1, <4>2 DEF MainTypes
      <4> QED
        BY <4>4, <4>5, <4>6
    <3> QED
      BY <3>1, <3>2
  <2>5. stopping' \in BOOLEAN /\ accepted' = accepted
    BY <1>6 DEF EndShutdown
  <2>6. MainTypes'
    BY <1>1, <2>1, <2>2, <2>3, <2>4, <2>5 DEF MainTypes
  <2> QED
    BY <1>6, <2>1, <2>6, EndShutdownStep
<1> QED
  BY <1>5, <1>6

(* The reservation ends with a finished job.                                *)
LEMMA JobFinishes ==
  ASSUME BoundaryInv, Finish \/ (Ack /\ FinishActive(Top.job) /\ Registered(Top.job)
                                 /\ registry.collected)
  PROVE  BoundaryInv'
<1>1. MainTypes /\ JobIInv /\ ControlInv /\ StackInv
  BY TypesSplit DEF BoundaryInv
<1>2. /\ stack # <<>> /\ (At("decide") \/ At("ready")) /\ FinishActive(Top.job)
      /\ registry.collected /\ registry.job = Top.job
  BY <1>1 DEF Finish, NothingToDeliver, Ack, At, Registered, ControlInv
<1>3. Top.job \in Jobs
  BY <1>1, <1>2, TopOK DEF At
<1>j. PICK j \in Jobs : j = Top.job
  BY <1>3
<1>4. PICK h \in Handles : h = Owner(j)
  BY <1>1 DEF MainTypes, Job, Owner
<1>5. FinishActive(j)
  BY <1>2, <1>j
<1>6. State(Top.job) = "ok" /\ ~jobs[Top.job].failure /\ Streaming(Top.job)
        => jobs[Top.job].prompt = Prompts + 1
  <2>1. CASE Ack
    BY <2>1 DEF Ack
  <2>2. CASE Finish
    <3>1. NothingToDeliver(j) /\ registry.job = j
      BY <1>2, <1>j, <2>2 DEF Finish
    <3>2. registry.discarded => closed[Owner(j)] \/ jobs[j].failure
      BY <1>1, <3>1 DEF ControlInv
    <3>3. State(j) = "ok" /\ Streaming(j) => outcome = "ok" /\ ~closed[Owner(j)]
      BY DEF State, ShutOnReturn
    <3>4. ~(State(j) = "ok" /\ ~jobs[j].failure /\ Streaming(j))
      BY <3>1, <3>2, <3>3 DEF NothingToDeliver
    <3> QED
      BY <1>j, <3>4
  <2> QED
    BY <2>1, <2>2
<1>7. JobIInv' /\ reserved' = NoJob /\ registry' \in Registry
  <2>1. NoRegistry \in Registry
    <3>1. FALSE \in BOOLEAN /\ NoJob \in Jobs \cup {NoJob}
      OBVIOUS
    <3> QED
      BY <3>1 DEF NoRegistry, Registry
  <2> QED
    BY <1>1, <1>5, <2>1, DropStep DEF FinishActive, Release
<1>8. closed' \in [Handles -> BOOLEAN] /\ rClosed' \in [Handles -> BOOLEAN]
  <2>1. PICK b \in BOOLEAN : b = (closed[h] \/ ShutOnReturn(h))
    OBVIOUS
  <2>2. closed' = [closed EXCEPT ![h] = b]
    BY <1>4, <1>5, <2>1 DEF FinishActive
  <2>3. PICK c \in BOOLEAN : c = (rClosed[h] \/ closed'[h])
    OBVIOUS
  <2>4. rClosed' = [rClosed EXCEPT ![h] = c]
    BY <1>4, <1>5, <2>3 DEF FinishActive
  <2> QED
    BY <1>1, <2>2, <2>4 DEF MainTypes
<1>9. model' \in [Handles -> {"handle", "job", "deferred", "gone"}]
  <2>1. model' = [g \in Handles |->
                   IF g = h THEN IF ShutOnReturn(h) THEN "gone" ELSE "handle"
                   ELSE IF model[g] = "deferred" THEN "gone" ELSE model[g]]
    BY <1>4, <1>5 DEF FinishActive
  <2> QED
    BY <1>1, <2>1 DEF MainTypes
<1>10. /\ jobs' \in [Jobs -> Job] /\ rooted' \in Jobs \cup {NoJob}
       /\ stack' \in Seq(Frame)
  <2>1. CASE Goto("onFinal") /\ UNCHANGED <<jobs, rooted>>
    <3>1. "onFinal" \in Places
      BY DEF Places, UserPlaces
    <3>2. Replaces("onFinal")
      BY <1>1, <1>2, <2>1, <3>1, GotoReplaces
    <3>3. stack' \in Seq(Frame)
      BY <1>1, <1>2, <3>2, Replaced DEF Replaces, MainTypes
    <3> QED
      BY <1>1, <2>1, <3>3 DEF MainTypes
  <2>2. CASE Settle(j, Verdict(j)) /\ Pop
    <3>1. Verdict(j) \in Verdicts
      BY DEF Verdict, Verdicts, Settled, Rejections
    <3>2. jobs' \in [Jobs -> Job] /\ rooted' \in Jobs \cup {NoJob}
      BY <1>1, <2>2, <3>1, JobChanged DEF Settle, MainTypes
    <3> QED
      BY <1>1, <1>2, <2>2, <3>2, StackTyped
  <2> QED
    BY <1>5, <2>1, <2>2 DEF FinishActive
<1>11. UNCHANGED <<stopping, accepted>>
  BY <1>5 DEF FinishActive
<1>12. MainTypes'
  BY <1>1, <1>7, <1>8, <1>9, <1>10, <1>11 DEF MainTypes
<1> QED
  BY <1>2, <1>6, <1>7, <1>12, FinishStep

(* rebirth_async_ack: the job finishes, or the transport is lost.           *)
LEMMA Acknowledged == ASSUME BoundaryInv, Ack PROVE BoundaryInv'
<1>1. MainTypes
  BY TypesSplit DEF BoundaryInv
<1>2. CASE Registered(Top.job) /\ registry.collected /\ rows = <<>>
  <2>1. FinishActive(Top.job)
    BY <1>2 DEF Ack
  <2> QED
    BY <1>2, <2>1, JobFinishes
<1>3. CASE ~(Registered(Top.job) /\ registry.collected /\ rows = <<>>)
  <2>1. /\ Goto("lost")
        /\ UNCHANGED <<jobVars, reserved, handleVars, registry, jobs, rooted, stopping,
                       accepted>>
    BY <1>3 DEF Ack
  <2>2. /\ stack # <<>> /\ Top.at \notin Special
        /\ "lost" \in Places \ {"onFinal", "join", "decide"}
    BY DEF Ack, At, Special, Places
  <2>3. rClosed' \in [Handles -> BOOLEAN] /\ UNCHANGED <<model, closed>>
    BY <1>1, <2>1 DEF MainTypes, handleVars
  <2> QED
    BY <2>1, <2>2, <2>3, GoesOn
<1> QED
  BY <1>2, <1>3

(* A submission that starts the worker, or fails before it could.           *)
LEMMA Submissions ==
  ASSUME BoundaryInv, NEW j \in Jobs, NEW h \in Handles, NEW m \in Modes,
         Submit(j, h, m) \/ SubmitFails(j, h, m) \/ SubmitInterrupted(j, h, m)
  PROVE  BoundaryInv'
<1>1. MainTypes /\ JobIInv /\ ControlInv /\ OwnershipAccounted
  BY TypesSplit DEF BoundaryInv
<1>2. /\ j # NoJob /\ UserCode /\ Fresh(j) /\ ~closed[h]
      /\ UNCHANGED <<closed, rClosed, stopping, accepted>>
  <2>1. j # NoJob
    BY DEF Jobs, NoJob
  <2>2. CASE Submit(j, h, m)
    BY <2>1, <2>2 DEF Submit
  <2>3. CASE SubmitFails(j, h, m)
    BY <2>1, <2>3 DEF SubmitFails
  <2>4. CASE SubmitInterrupted(j, h, m)
    BY <2>1, <2>4 DEF SubmitInterrupted
  <2> QED
    BY <2>2, <2>3, <2>4
<1>3. \A timer \in BOOLEAN : NewJob(h, m, timer) \in Job
  <2> TAKE timer \in BOOLEAN
  <2>1. "pending" \in Verdicts /\ 1 \in 1 .. Prompts + 1 /\ 0 \in Nat
    BY RequestAssumption DEF Verdicts
  <2>2. PICK off \in BOOLEAN : off = FALSE
    OBVIOUS
  <2>3. NewJob(h, m, timer) = [owner |-> h, mode |-> m, verdict |-> "pending", timer |-> timer,
                               failure |-> off, events |-> 0, prompt |-> 1]
    BY <2>2 DEF NewJob
  <2> QED
    BY <2>1, <2>3 DEF Job
<1>4. {"header", "lost"} \subseteq Places
  BY DEF Places
<1>5. ASSUME StartNative(j, h, m)
      PROVE  /\ JobIInv' /\ reserved' \in Jobs \cup {NoJob} /\ registry' \in Registry
             /\ model' \in [Handles -> {"handle", "job", "deferred", "gone"}]
  <2>1. pc = "none"
    BY <1>1, <1>5 DEF StartNative, ControlInv
  <2>2. PICK stream \in BOOLEAN : Start(stream)
    BY <1>5 DEF StartNative
  <2>3. JobIInv'
    BY <1>1, <2>1, <2>2, NextJobIInv DEF Next, MainStart
  <2>4. registry' \in Registry
    <3>1. FALSE \in BOOLEAN /\ j \in Jobs \cup {NoJob}
      OBVIOUS
    <3> QED
      BY <1>5, <3>1 DEF StartNative, Registry
  <2> QED
    BY <1>1, <1>5, <2>3, <2>4 DEF StartNative, MainTypes
<1>6. CASE Submit(j, h, m)
  <2>1. PICK timer \in BOOLEAN : timer = (m # "file")
    OBVIOUS
  <2>2. /\ StartNative(j, h, m) /\ rooted' = j
        /\ jobs' = [jobs EXCEPT ![j] = NewJob(h, m, timer)]
        /\ \/ timer /\ stack' = stack
           \/ ~timer /\ Push(j, "header")
    BY <1>6, <2>1 DEF Submit
  <2>3. jobs' \in [Jobs -> Job]
    BY <1>1, <1>3, <2>2 DEF MainTypes
  <2>4. stack' \in Seq(Frame)
    BY <1>1, <1>4, <2>2, StackTyped DEF MainTypes
  <2>5. MainTypes'
    BY <1>1, <1>2, <1>5, <2>2, <2>3, <2>4 DEF MainTypes
  <2> QED
    BY <1>2, <1>5, <2>2, <2>5, StartedStep
<1>7. CASE SubmitInterrupted(j, h, m)
  <2>1. /\ jobs' = [jobs EXCEPT ![j] = NewJob(h, m, FALSE)] /\ Push(j, "lost")
        /\ rooted' = rooted
    BY <1>7 DEF SubmitInterrupted
  <2>2. PICK timer \in BOOLEAN : ~timer
    OBVIOUS
  <2>3. jobs' = [jobs EXCEPT ![j] = NewJob(h, m, timer)]
    BY <2>1, <2>2
  <2>4. jobs' \in [Jobs -> Job]
    BY <1>1, <1>3, <2>3 DEF MainTypes
  <2>5. stack' \in Seq(Frame)
    BY <1>1, <1>4, <2>1, StackTyped DEF MainTypes
  <2>6. CASE StartNative(j, h, m)
    <3>1. MainTypes'
      BY <1>1, <1>2, <1>5, <2>1, <2>4, <2>5, <2>6 DEF MainTypes
    <3> QED
      BY <1>2, <1>5, <2>1, <2>2, <2>3, <2>6, <3>1, StartedStep
  <2>7. CASE UNCHANGED <<jobVars, model, reserved, registry>>
    <3>1. MainTypes'
      BY <1>1, <1>2, <2>1, <2>4, <2>5, <2>7 DEF MainTypes
    <3>2. JobIInv'
      BY <1>1, <2>7, NextJobIInv
    <3>3. /\ NewJob(h, m, timer) \in Job /\ NewJob(h, m, timer).verdict = "pending"
          /\ ~NewJob(h, m, timer).timer /\ ~NewJob(h, m, timer).failure
      BY <1>3, <2>2 DEF NewJob
    <3>4. PICK r \in Job : r = NewJob(h, m, timer)
      BY <3>3
    <3>5. /\ jobs' = [jobs EXCEPT ![j] = r] /\ ~r.timer /\ ~r.failure
          /\ r.verdict = "pending"
      BY <2>3, <3>3, <3>4
    <3> QED
      BY <1>2, <2>1, <2>7, <3>1, <3>2, <3>5, NotStartedStep
  <2> QED
    BY <1>7, <2>6, <2>7 DEF SubmitInterrupted
<1>8. CASE SubmitFails(j, h, m)
  <2>1. PICK timer \in BOOLEAN : ~timer
    OBVIOUS
  <2> DEFINE s == [NewJob(h, m, timer) EXCEPT !.verdict = "failed"]
  <2>2. "failed" \in Verdicts
    BY DEF Verdicts, Settled, Rejections
  <2>3. s \in Job /\ ~s.timer /\ ~s.failure /\ s.verdict = "failed"
    BY <1>3, <2>1, <2>2 DEF Job, NewJob
  <2>4. PICK r \in Job : r = s
    BY <2>3
  <2>5. jobs' = [jobs EXCEPT ![j] = r] /\ ~r.timer /\ ~r.failure /\ r.verdict = "failed"
    BY <1>8, <2>1, <2>3, <2>4 DEF SubmitFails
  <2>6. model' = model
    <3>1. \A g \in Handles : model[g] # "deferred"
      BY <1>1, <1>8 DEF SubmitFails, OwnershipAccounted
    <3> QED
      BY <1>1, <1>8, <3>1 DEF SubmitFails, MainTypes
  <2>7. UNCHANGED <<jobVars, reserved, registry, rooted, stack>>
    BY <1>8 DEF SubmitFails
  <2>8. JobIInv'
    BY <1>1, <2>7, NextJobIInv
  <2>9. MainTypes'
    <3>1. jobs' \in [Jobs -> Job]
      BY <1>1, <2>5 DEF MainTypes
    <3> QED
      BY <1>1, <1>2, <2>6, <2>7, <3>1 DEF MainTypes
  <2> QED
    BY <1>2, <2>5, <2>6, <2>7, <2>8, <2>9, NotStartedStep
<1> QED
  BY <1>6, <1>7, <1>8

(* A poll looks for the completion of its job.                              *)
LEMMA Collected == ASSUME BoundaryInv, Collect PROVE BoundaryInv'
<1>1. MainTypes /\ ControlInv /\ JobIInv /\ StackInv
  BY TypesSplit DEF BoundaryInv
<1>2. /\ stack # <<>> /\ Top.at \notin Special /\ {"lost", "decide"} \subseteq Places
      /\ UNCHANGED <<reserved, model, closed, rClosed, jobs, rooted, stopping, accepted>>
  BY DEF Collect, At, Special, Places, handleVars
<1>3. CASE ~Registered(Top.job)
  <2>1. Goto("lost") /\ UNCHANGED <<registry, jobVars>>
    BY <1>3 DEF Collect
  <2>2. "lost" \in Places \ {"onFinal", "join", "decide"}
    BY <1>2
  <2>3. rClosed' \in [Handles -> BOOLEAN]
    BY <1>1, <1>2 DEF MainTypes
  <2> QED
    BY <1>2, <2>1, <2>2, <2>3, GoesOn
<1>4. CASE Registered(Top.job)
  <2>1. Goto("decide") /\ registry.job = Top.job
    BY <1>4 DEF Collect, Registered
  <2>2. Replaces("decide") /\ stack' \in Seq(Frame)
    <3>1. Replaces("decide")
      BY <1>1, <1>2, <2>1, GotoReplaces
    <3> QED
      BY <1>1, <1>2, <3>1, Replaced DEF Replaces, MainTypes
  <2>3. JobMoved
    BY <1>2 DEF JobMoved
  <2>4. CASE pc = "finished"
    <3>1. Join /\ registry' = [registry EXCEPT !.collected = TRUE]
      BY <1>4, <2>4 DEF Collect
    <3>2. /\ JobIInv' /\ (pc' = "none" <=> pc = "none") /\ streaming' = streaming
          /\ (cancelled => cancelled')
      BY <1>1, <2>4, <3>1, TouchedJob DEF JobTouched
    <3>3. pc' = "joined"
      BY <3>1 DEF Join
    <3>4. /\ registry' \in Registry /\ registry'.job = registry.job
          /\ registry'.discarded = registry.discarded
      BY <1>1, <3>1 DEF MainTypes, Registry
    <3>5. registry.job # NoJob
      BY <1>1, <1>2, <2>1, TopOK DEF Special, Jobs, NoJob
    <3>6. MainTypes'
      BY <1>1, <1>2, <2>2, <3>4 DEF MainTypes
    <3>7. "decide" \in Places \ {"onFinal", "join"}
      BY <1>2
    <3> QED
      BY <1>2, <2>1, <2>2, <2>3, <3>2, <3>3, <3>4, <3>5, <3>6, <3>7, MovedStep
  <2>5. CASE pc # "finished"
    <3>1. registry' = registry /\ UNCHANGED jobVars
      BY <1>4, <2>5 DEF Collect
    <3>2. /\ JobIInv' /\ (pc' = "none" <=> pc = "none") /\ streaming' = streaming
          /\ (cancelled => cancelled') /\ (pc = "joined" => pc' = "joined")
      BY <1>1, <3>1, TouchedJob DEF JobTouched
    <3>3. registry'.collected => pc' = "joined"
      <4>1. registry.collected => pc = "joined"
        BY <1>1 DEF ControlInv
      <4> QED
        BY <3>1, <3>2, <4>1
    <3>4. MainTypes'
      BY <1>1, <1>2, <2>2, <3>1 DEF MainTypes
    <3>5. "decide" \in Places \ {"onFinal", "join"}
      BY <1>2
    <3> QED
      BY <1>2, <2>1, <2>2, <2>3, <3>1, <3>2, <3>3, <3>4, <3>5, MovedStep
  <2> QED
    BY <2>4, <2>5
<1> QED
  BY <1>3, <1>4

(* One more row ends at most one more prompt.                               *)
LEMMA PromptsEndedNext ==
  ASSUME NEW n \in Nat \ {0}
  PROVE  PromptsEnded(n) \in Nat /\ PromptsEnded(n) <= PromptsEnded(n - 1) + 1
<1> DEFINE E(m) == {i \in 1 .. m : rows[i].kind = "prompt_end"}
<1>1. IsFiniteSet(1 .. n) /\ IsFiniteSet(1 .. n - 1)
  BY FS_Interval
<1>2. E(n) \subseteq 1 .. n /\ E(n - 1) \subseteq 1 .. n - 1
  OBVIOUS
<1>3. IsFiniteSet(E(n)) /\ IsFiniteSet(E(n - 1))
  BY <1>1, <1>2, FS_Subset, Zenon
<1>4. Cardinality(E(n)) \in Nat /\ Cardinality(E(n - 1)) \in Nat
  BY <1>3, FS_CardinalityType, Zenon
<1>5. E(n) = E(n - 1) \/ E(n) = E(n - 1) \cup {n}
  <2>1. 1 .. n = (1 .. n - 1) \cup {n}
    OBVIOUS
  <2>2. CASE rows[n].kind = "prompt_end"
    <3>1. E(n) = E(n - 1) \cup {n}
      BY <2>1, <2>2
    <3> QED
      BY <3>1
  <2>3. CASE rows[n].kind # "prompt_end"
    <3>1. E(n) = E(n - 1)
      BY <2>1, <2>3
    <3> QED
      BY <3>1
  <2> QED
    BY <2>2, <2>3
<1>6. Cardinality(E(n - 1) \cup {n}) \in {Cardinality(E(n - 1)), Cardinality(E(n - 1)) + 1}
  <2>1. PICK S : S = E(n - 1)
    OBVIOUS
  <2>2. IsFiniteSet(S)
    BY <1>3, <2>1
  <2>3. Cardinality(S \cup {n}) = IF n \in S THEN Cardinality(S) ELSE Cardinality(S) + 1
    BY <2>2, FS_AddElement
  <2> QED
    BY <2>1, <2>3
<1>7. Cardinality(E(n)) <= Cardinality(E(n - 1)) + 1
  <2>1. PICK S : S = E(n - 1)
    OBVIOUS
  <2>2. PICK T : T = E(n)
    OBVIOUS
  <2>3. /\ Cardinality(S) \in Nat /\ (T = S \/ T = S \cup {n})
        /\ Cardinality(S \cup {n}) \in {Cardinality(S), Cardinality(S) + 1}
    <3>1. Cardinality(S) \in Nat
      BY <1>4, <2>1, Zenon
    <3>2. T = S \/ T = S \cup {n}
      BY <1>5, <2>1, <2>2, Zenon
    <3>3. Cardinality(S \cup {n}) \in {Cardinality(S), Cardinality(S) + 1}
      BY <1>6, <2>1, Zenon
    <3> QED
      BY <3>1, <3>2, <3>3, Zenon
  <2>4. Cardinality(T) \in {Cardinality(S), Cardinality(S) + 1}
    <3>1. Cardinality(T) = Cardinality(S) \/ Cardinality(T) = Cardinality(S \cup {n})
      BY <2>3, Zenon
    <3>2. Cardinality(S) \in {Cardinality(S), Cardinality(S) + 1}
      OBVIOUS
    <3> QED
      BY <2>3, <3>1, <3>2, Zenon
  <2>5. PICK c \in Nat : c = Cardinality(S)
    BY <2>3
  <2>6. Cardinality(T) <= Cardinality(S) + 1
    BY <2>4, <2>5
  <2> QED
    BY <2>1, <2>2, <2>6, Zenon
<1> QED
  BY <1>4, <1>7 DEF PromptsEnded

(* A batch is taken from the queue of the running job.                      *)
LEMMA Drained == ASSUME BoundaryInv, Drain PROVE BoundaryInv'
<1>1. MainTypes /\ ControlInv /\ JobIInv /\ StackInv /\ TimerInv
  BY TypesSplit DEF BoundaryInv
<1>2. /\ stack # <<>> /\ Top.at \notin Special /\ At("decide") /\ ~At("join") /\ ~At("lost")
      /\ UNCHANGED <<reserved, model, closed, registry, rooted, stopping, accepted>>
  BY DEF Drain, At, Special
<1>j. PICK j \in Jobs : j = Top.job
  BY <1>1, <1>2, TopOK DEF Special
<1>3. /\ j # NoJob /\ reserved = j /\ registry.job = j /\ Unsettled(j)
      /\ streaming /\ pc # "none"
  <2>1. j # NoJob /\ reserved = j /\ registry.job = j
    BY <1>1, <1>2, <1>j DEF ControlInv, Jobs, NoJob
  <2>2. Streaming(j)
    BY <1>j DEF Drain
  <2>3. Unsettled(j)
    BY <1>1, <1>2, <2>1 DEF TimerInv
  <2>4. streaming /\ pc # "none"
    BY <1>1, <2>1, <2>2 DEF ControlInv
  <2> QED
    BY <2>1, <2>3, <2>4
<1>4. rClosed' \in [Handles -> BOOLEAN]
  BY <1>1, NotedClosed DEF Drain
<1>5. PICK n \in 0 .. BatchRows :
        /\ IsBatch(n) /\ Transfer(n)
        /\ \/ Goto("unconverted") /\ UNCHANGED jobs
           \/ Deliver(j, n, "ready") /\ UNCHANGED jobs
           \/ Deliver(j, n, "invalid") /\ UNCHANGED jobs
           \/ /\ n > 0 /\ ValidBatch(j, n)
              /\ jobs' = [jobs EXCEPT ![j].events = rows[n].id,
                                      ![j].prompt = @ + PromptsEnded(n)]
              /\ Deliver(j, n, IF jobs[j].mode = "file" THEN "file" ELSE "onToken")
  BY <1>j DEF Drain
<1>6. /\ JobIInv' /\ (pc' = "none" <=> pc = "none") /\ streaming' = streaming
      /\ (cancelled => cancelled') /\ (pc = "joined" => pc' = "joined")
  <2>1. JobTouched
    BY <1>3, <1>5 DEF JobTouched
  <2> QED
    BY <1>1, <1>3, <2>1, TouchedJob
<1>7. registry'.collected => pc' = "joined"
  <2>1. registry.collected => pc = "joined"
    BY <1>1 DEF ControlInv
  <2> QED
    BY <1>2, <1>6, <2>1
<1>8. PICK place \in Places \ {"onFinal", "join", "decide"} : Replaces(place)
  <2>1. DeliveryReady(n) \in BOOLEAN
    BY Zenon DEF DeliveryReady
  <2>2. {"unconverted", "ready", "invalid", "file", "onToken"}
          \subseteq Places \ {"onFinal", "join", "decide"}
    BY DEF Places, UserPlaces
  <2>3. \E place \in {"unconverted", "ready", "invalid", "file", "onToken"} :
          Goto(place) \/ Deliver(j, n, place)
    BY <1>5
  <2>4. PICK place \in Places \ {"onFinal", "join", "decide"} :
          Goto(place) \/ Deliver(j, n, place)
    BY <2>2, <2>3
  <2>5. Replaces(place)
    BY <1>1, <1>2, <2>1, <2>4, GotoReplaces
  <2> QED
    BY <2>5
<1>9. stack' \in Seq(Frame)
  BY <1>1, <1>2, <1>8, Replaced DEF Replaces, MainTypes
<1>10. /\ jobs' \in [Jobs -> Job]
       /\ \A k \in Jobs \ {j} : jobs'[k] = jobs[k]
       /\ jobs'[j].owner = jobs[j].owner /\ jobs'[j].mode = jobs[j].mode
       /\ jobs'[j].verdict = jobs[j].verdict /\ jobs'[j].timer = jobs[j].timer
       /\ jobs'[j].failure = jobs[j].failure
  <2>1. CASE UNCHANGED jobs
    BY <1>1, <2>1 DEF MainTypes
  <2>2. CASE /\ n > 0 /\ ValidBatch(j, n)
             /\ jobs' = [jobs EXCEPT ![j].events = rows[n].id,
                                     ![j].prompt = @ + PromptsEnded(n)]
    <3>1. n \in 1 .. Len(rows) /\ n \in Nat \ {0} /\ rows[n] \in Row
      BY <1>1, <1>5, <2>2, RowLimitsAssumption DEF IsBatch, BatchLengths, JobIInv, JobTypeOK
    <3>2. rows[n].id \in Nat
      BY <3>1 DEF Row
    <3>3. /\ rows[n].prompt = jobs[j].prompt + PromptsEnded(n - 1)
          /\ rows[n].prompt <= Prompts
      <4>1. n \in 1 .. n
        BY <3>1
      <4> QED
        BY <2>2, <4>1 DEF ValidBatch
    <3>4. PromptsEnded(n) \in Nat /\ PromptsEnded(n) <= PromptsEnded(n - 1) + 1
      BY <3>1, PromptsEndedNext
    <3>5. PromptsEnded(n - 1) \in Nat
      <4>1. IsFiniteSet(1 .. n - 1)
        BY <3>1, FS_Interval
      <4>2. IsFiniteSet({i \in 1 .. n - 1 : rows[i].kind = "prompt_end"})
        BY <4>1, FS_Subset
      <4> QED
        BY <4>2, FS_CardinalityType DEF PromptsEnded
    <3>6. jobs[j].prompt \in 1 .. Prompts + 1 /\ jobs[j] \in Job
      BY <1>1 DEF MainTypes, Job
    <3>7. jobs[j].prompt + PromptsEnded(n) \in 1 .. Prompts + 1
      BY <3>3, <3>4, <3>5, <3>6, RequestAssumption
    <3>8. PICK e \in Nat, p \in 1 .. Prompts + 1 :
            jobs' = [jobs EXCEPT ![j].events = e, ![j].prompt = p]
      BY <2>2, <3>2, <3>7
    <3>9. PICK r \in Job : r = [jobs[j] EXCEPT !.events = e, !.prompt = p]
      BY <3>6 DEF Job
    <3>10. jobs \in [Jobs -> Job] /\ jobs' = [jobs EXCEPT ![j] = r]
      BY <1>1, <3>8, <3>9 DEF MainTypes
    <3>11. /\ r.owner = jobs[j].owner /\ r.mode = jobs[j].mode
           /\ r.verdict = jobs[j].verdict /\ r.timer = jobs[j].timer
           /\ r.failure = jobs[j].failure
      BY <3>6, <3>9 DEF Job
    <3> QED
      BY <3>10, <3>11
  <2> QED
    BY <1>5, <2>1, <2>2
<1>11. JobMoved
  BY <1>j, <1>3, <1>10 DEF JobMoved
<1>12. MainTypes'
  BY <1>1, <1>2, <1>4, <1>9, <1>10 DEF MainTypes
<1>13. place \in Places \ {"onFinal", "join"} /\ place # "decide"
  BY <1>8
<1> QED
  BY <1>2, <1>6, <1>7, <1>8, <1>11, <1>12, <1>13, MovedStep

-----------------------------------------------------------------------------
(***************************************************************************)
(* The invariant of the boundary.                                          *)
(***************************************************************************)
(* A freshly loaded package satisfies it.                                   *)
LEMMA InitBoundaryInv == Init => BoundaryInv
<1> SUFFICES ASSUME Init PROVE BoundaryInv
  OBVIOUS
<1>1. JobIInv /\ JobTypeOK /\ pc = "none"
  BY InitJobIInv DEF Init, JobIInv, JobInit
<1>2. /\ stack = <<>> /\ Len(stack) = 0 /\ reserved = NoJob /\ rooted = NoJob
      /\ stopping = FALSE /\ accepted = {} /\ registry = NoRegistry
      /\ model = [h \in Handles |-> "handle"] /\ closed = [h \in Handles |-> FALSE]
  BY DEF Init
<1>3. PICK o \in Handles, k \in Modes :
        jobs = [j \in Jobs |->
                 [owner |-> o, mode |-> k, verdict |-> "unsubmitted", timer |-> FALSE,
                  failure |-> FALSE, events |-> 0, prompt |-> 1]]
  BY HandlesAssumption, ModesAssumption DEF Init
<1>4. PICK off \in BOOLEAN : off = FALSE
  OBVIOUS
<1>5. jobs \in [Jobs -> Job]
  <2>1. "unsubmitted" \in Verdicts /\ 1 \in 1 .. Prompts + 1 /\ 0 \in Nat
    BY RequestAssumption DEF Verdicts
  <2>2. [owner |-> o, mode |-> k, verdict |-> "unsubmitted", timer |-> off,
         failure |-> off, events |-> 0, prompt |-> 1] \in Job
    BY <2>1 DEF Job
  <2> QED
    BY <1>3, <1>4, <2>2
<1>6. \A j \in Jobs : jobs[j].verdict = "unsubmitted" /\ ~jobs[j].timer /\ ~jobs[j].failure
  BY <1>3
<1>7. MainTypes
  <2>1. NoRegistry \in Registry
    <3>1. NoRegistry = [job |-> NoJob, discarded |-> off, collected |-> off]
      BY <1>4 DEF NoRegistry
    <3> QED
      BY <3>1 DEF Registry
  <2>2. /\ model \in [Handles -> {"handle", "job", "deferred", "gone"}]
        /\ closed \in [Handles -> BOOLEAN] /\ rClosed \in [Handles -> BOOLEAN]
    <3>1. closed = [h \in Handles |-> off] /\ rClosed = [h \in Handles |-> off]
      BY <1>4 DEF Init
    <3> QED
      BY <1>2, <3>1
  <2>3. stopping \in BOOLEAN /\ stack \in Seq(Frame) /\ accepted \in SUBSET Jobs
    <3>1. stopping = off
      BY <1>2, <1>4
    <3>2. stack \in Seq(Frame)
      BY <1>2, EmptySeq
    <3>3. accepted \in SUBSET Jobs
      BY <1>2
    <3> QED
      BY <3>1, <3>2, <3>3
  <2> QED
    BY <1>2, <1>5, <2>1, <2>2, <2>3 DEF MainTypes
<1>8. TypeOK
  BY <1>1, <1>7, TypesSplit
<1>9. ~At("join") /\ ~At("lost") /\ ~At("decide")
  BY <1>2 DEF At
<1>10. ~registry.collected /\ ~registry.discarded /\ registry.job = NoJob
  BY <1>2 DEF NoRegistry
<1>11. ControlInv
  BY <1>1, <1>2, <1>9, <1>10 DEF ControlInv
<1>12. OwnershipAccounted
  BY <1>2 DEF OwnershipAccounted
<1>13. StackInv
  BY <1>2 DEF StackInv
<1>14. TimerInv
  BY <1>2, <1>6 DEF TimerInv
<1>15. UnloadInv
  BY <1>2, <1>9 DEF UnloadInv
<1>16. VerdictInv
  BY <1>6 DEF VerdictInv, ResolvedIsComplete
<1> QED
  BY <1>1, <1>8, <1>11, <1>12, <1>13, <1>14, <1>15, <1>16 DEF BoundaryInv

(* Every step of the boundary keeps it.                                     *)
LEMMA NextBoundaryInv == BoundaryInv /\ [BoundaryNext]_vars => BoundaryInv'
<1> SUFFICES ASSUME BoundaryInv, [BoundaryNext]_vars PROVE BoundaryInv'
  OBVIOUS
<1>1. rClosed \in [Handles -> BOOLEAN]
  BY TypesSplit DEF BoundaryInv, MainTypes
<1>2. CASE Worker \/ UNCHANGED vars
  BY <1>2, WorkerBeside
<1>3. CASE Main
  <2>1. CASE \/ Header \/ SinkClosed \/ Running \/ DrainContended \/ Undelivered
             \/ WriteFile \/ AfterSettled \/ NotReady \/ NotAcknowledged
    BY <2>1, PollGoesOn
  <2>2. CASE Collect
    BY <2>2, Collected
  <2>3. CASE Finish
    BY <2>3, JobFinishes
  <2>4. CASE Drain
    BY <2>4, Drained
  <2>5. CASE Ack
    BY <2>5, Acknowledged
  <2>6. CASE Schedule \/ AlreadySettled
    BY <2>6, PollEnds
  <2>7. CASE BeginShutdown \/ EndShutdown
    BY <2>7, ShutdownSteps
  <2> QED
    BY <1>3, <2>1, <2>2, <2>3, <2>4, <2>5, <2>6, <2>7 DEF Main
<1>4. ASSUME NEW h \in Handles, Close(h) \/ Finalize(h) PROVE BoundaryInv'
  <2>1. CASE Close(h)
    <3>1. /\ NativeClose(h) \/ UNCHANGED <<closed, model, registry, jobVars>>
          /\ rClosed' = [rClosed EXCEPT ![h] = TRUE] /\ UNCHANGED <<reserved, rVars>>
      BY <2>1 DEF Close
    <3>2. rClosed' \in [Handles -> BOOLEAN]
      BY <1>1, <3>1
    <3> QED
      BY <3>1, <3>2, CloseBeside
  <2>2. CASE Finalize(h)
    BY <1>1, <2>2, CloseBeside DEF Finalize
  <2> QED
    BY <1>4, <2>1, <2>2
<1>5. CASE User
  <2>1. ASSUME NEW j \in Jobs, NEW h \in Handles, NEW m \in Modes,
               Submit(j, h, m) \/ SubmitFails(j, h, m) \/ SubmitInterrupted(j, h, m)
        PROVE  BoundaryInv'
    BY <2>1, Submissions
  <2>2. ASSUME NEW h \in Handles, Cancel(h) \/ Close(h) PROVE BoundaryInv'
    BY <1>4, <2>2, CancelBeside
  <2>3. CASE Unload
    BY <2>3, PollBegins
  <2> QED
    BY <1>5, <2>1, <2>2, <2>3 DEF User
<1>6. CASE EventLoop
  BY <1>6, PollBegins DEF EventLoop
<1>7. CASE CallbackEnds
  BY <1>7, PollEnds DEF CallbackEnds
<1> QED
  BY <1>2, <1>3, <1>4, <1>5, <1>6, <1>7 DEF BoundaryNext

(* The inductive invariant of the asynchronous boundary.                    *)
THEOREM BoundaryInvariant == BoundarySpec => []BoundaryInv
<1> QED
  BY InitBoundaryInv, NextBoundaryInv, PTL DEF BoundarySpec

(* Every variable of the boundary and of its job keeps its type.            *)
THEOREM BoundaryTypes == BoundarySpec => []TypeOK
<1>1. BoundaryInv => TypeOK
  BY DEF BoundaryInv
<1> QED
  BY <1>1, BoundaryInvariant, PTL

(* Each model has one owner at every moment, whatever is closed, collected, *)
(* finalized, deferred, lost or unloaded: the handle, the job that holds    *)
(* the reservation, the queue of deferred destructions, or nobody.          *)
THEOREM BoundaryOwnership == BoundarySpec => []OwnershipAccounted
<1>1. BoundaryInv => OwnershipAccounted
  BY DEF BoundaryInv
<1> QED
  BY <1>1, BoundaryInvariant, PTL

(* A reservation is never orphaned: a timer, a running poll or a shutdown   *)
(* comes back for it.                                                       *)
THEOREM BoundaryCollector == BoundarySpec => []ReservationHasCollector
<1>1. BoundaryInv => ReservationHasCollector
  BY DEF BoundaryInv, TimerInv, ControlInv, ReservationHasCollector, Registered
<1> QED
  BY <1>1, BoundaryInvariant, PTL

(* After namespace unload no worker, reservation, model or timer is left.   *)
THEOREM BoundaryUnload == BoundarySpec => []UnloadedIsQuiet
<1>1. BoundaryInv => UnloadedIsQuiet
  <2> SUFFICES ASSUME BoundaryInv, stopping, ~At("lost"), ~At("join")
               PROVE  /\ ~WorkerBound /\ pc # "spawned" /\ reserved = NoJob
                      /\ \A h \in Handles : model[h] = "gone"
                      /\ \A j \in Jobs : ~jobs[j].timer
    BY DEF UnloadedIsQuiet
  <2>1. AllGone /\ \A j \in Jobs : ~jobs[j].timer
    BY DEF BoundaryInv, UnloadInv, Ending
  <2>2. reserved = NoJob
    BY <2>1, ReservedLives, TypesSplit DEF BoundaryInv
  <2>3. pc = "none"
    BY <2>2 DEF BoundaryInv, ControlInv
  <2> QED
    BY <2>1, <2>2, <2>3 DEF AllGone, WorkerBound
<1> QED
  BY <1>1, BoundaryInvariant, PTL

(* The first consumer failure of a job decides its promise, unless the      *)
(* transport breaks down or the package is unloaded.                        *)
THEOREM BoundaryFirstFailure == BoundarySpec => []FirstFailureWins
<1>1. BoundaryInv => FirstFailureWins
  BY DEF BoundaryInv, VerdictInv, FirstFailureWins
<1> QED
  BY <1>1, BoundaryInvariant, PTL

(* A promise that resolves had no accepted cancellation, no consumer        *)
(* failure, and, for a stream, the end of every prompt delivered.           *)
THEOREM BoundaryResolved == BoundarySpec => []ResolvedIsComplete
<1>1. BoundaryInv => ResolvedIsComplete
  BY DEF BoundaryInv, VerdictInv
<1> QED
  BY <1>1, BoundaryInvariant, PTL

-----------------------------------------------------------------------------
(***************************************************************************)
(* Destruction, and the promises.                                          *)
(***************************************************************************)
(* The steps that touch neither a model, nor a verdict, nor the engine.     *)
Quiet ==
  \/ Worker \/ Header \/ SinkClosed \/ Collect \/ Running \/ Drain \/ DrainContended
  \/ Undelivered \/ WriteFile \/ AfterSettled \/ NotReady \/ NotAcknowledged
  \/ Schedule \/ AlreadySettled \/ BeginShutdown \/ Unload \/ EventLoop
  \/ UNCHANGED vars

(* They leave models, verdicts, engine and cancellations alone.             *)
LEMMA QuietStep ==
  ASSUME BoundaryInv, Quiet
  PROVE  /\ UNCHANGED <<model, reserved, accepted>>
         /\ \A j \in Jobs : jobs'[j].verdict = jobs[j].verdict
<1>1. jobs \in [Jobs -> Job]
  BY TypesSplit DEF BoundaryInv, MainTypes
<1>2. StackInv /\ MainTypes
  BY TypesSplit DEF BoundaryInv
<1>3. ASSUME NEW j \in Jobs, NEW place, ConsumerFailure(j, place)
      PROVE  \A k \in Jobs : jobs'[k].verdict = jobs[k].verdict
  <2>1. jobs' = jobs \/ jobs' = [jobs EXCEPT ![j].failure = TRUE]
    BY <1>3 DEF ConsumerFailure
  <2> QED
    BY <1>1, <2>1 DEF Job
<1>4. stack # <<>> /\ Top.at \notin {"lost", "join"} => Top.job \in Jobs
  BY <1>2, TopOK
<1>5. CASE Worker \/ UNCHANGED vars
  BY <1>5 DEF Worker, vars, mainVars, rVars, handleVars
<1>6. CASE Header \/ SinkClosed \/ Undelivered \/ WriteFile \/ NotAcknowledged
  <2>1. UNCHANGED <<model, reserved, accepted>> /\ Top.job \in Jobs
    BY <1>4, <1>6 DEF Header, SinkClosed, Undelivered, WriteFile, NotAcknowledged, handleVars, At
  <2>2. jobs' = jobs \/ \E place : ConsumerFailure(Top.job, place)
    BY <1>6 DEF Header, SinkClosed, Undelivered, WriteFile, NotAcknowledged
  <2> QED
    BY <1>3, <2>1, <2>2
<1>7. CASE \/ Collect \/ Running \/ DrainContended \/ AfterSettled \/ NotReady
           \/ AlreadySettled \/ Unload
  BY <1>7 DEF Collect, Running, DrainContended, AfterSettled, NotReady, AlreadySettled,
     Unload, handleVars
<1>8. CASE Drain
  <2>1. UNCHANGED <<model, reserved, accepted>> /\ Top.job \in Jobs
    BY <1>4, <1>8 DEF Drain, At
  <2>2. \/ jobs' = jobs
        \/ \E e, p : jobs' = [jobs EXCEPT ![Top.job].events = e, ![Top.job].prompt = p]
    <3>1. PICK n \in 0 .. BatchRows :
            \/ UNCHANGED jobs
            \/ jobs' = [jobs EXCEPT ![Top.job].events = rows[n].id,
                                    ![Top.job].prompt = @ + PromptsEnded(n)]
      BY <1>8 DEF Drain
    <3>2. jobs' = jobs \/
          \E p : jobs' = [jobs EXCEPT ![Top.job].events = rows[n].id, ![Top.job].prompt = p]
      BY <3>1
    <3> QED
      BY <3>2
  <2> QED
    <3>1. PICK j \in Jobs : j = Top.job
      BY <2>1
    <3>2. ASSUME NEW e, NEW p, jobs' = [jobs EXCEPT ![j].events = e, ![j].prompt = p]
          PROVE  \A k \in Jobs : jobs'[k].verdict = jobs[k].verdict
      BY <1>1, <3>2 DEF Job
    <3> QED
      BY <2>1, <2>2, <3>1, <3>2
<1>9. CASE Schedule
  <2>1. UNCHANGED <<model, reserved, accepted>> /\ Top.job \in Jobs
    BY <1>4, <1>9 DEF Schedule, At, handleVars
  <2>2. jobs' = jobs \/ jobs' = [jobs EXCEPT ![Top.job].timer = TRUE]
    BY <1>9 DEF Schedule
  <2> QED
    BY <1>1, <2>1, <2>2 DEF Job
<1>10. CASE BeginShutdown
  <2>1. UNCHANGED <<model, reserved, accepted>>
    BY <1>10 DEF BeginShutdown, handleVars
  <2>2. Victim \in Jobs \cup {NoJob}
    BY <1>2, <1>10, TopOK DEF BeginShutdown, At, Victim, MainTypes
  <2>3. jobs' = jobs \/ (Victim # NoJob /\ jobs' = [jobs EXCEPT ![Victim].timer = FALSE])
    BY <1>10 DEF BeginShutdown
  <2> QED
    BY <1>1, <2>1, <2>2, <2>3 DEF Job
<1>11. CASE EventLoop
  BY <1>1, <1>11 DEF Job, EventLoop, TimerFires, handleVars
<1> QED
  BY <1>5, <1>6, <1>7, <1>8, <1>9, <1>10, <1>11 DEF Quiet

(* The steps that remain.                                                   *)
LEMMA StepsSplit ==
  ASSUME [BoundaryNext]_vars
  PROVE  \/ Quiet
         \/ \E h \in Handles : Close(h) \/ Finalize(h) \/ Cancel(h)
         \/ CallbackEnds
         \/ Finish \/ Ack \/ EndShutdown
         \/ \E j \in Jobs, h \in Handles, m \in Modes :
              Submit(j, h, m) \/ SubmitFails(j, h, m) \/ SubmitInterrupted(j, h, m)
BY DEF BoundaryNext, Quiet, Main, User

(* While the worker is inside native code no step destroys a model.         *)
THEOREM BoundaryNoDestruction == BoundarySpec => NoDestructionUnderWorker
<1>1. ASSUME BoundaryInv, [BoundaryNext]_vars, WorkerBound, NEW h \in Handles,
             model'[h] = "gone"
      PROVE  model[h] = "gone"
  <2>1. MainTypes /\ ControlInv
    BY <1>1, TypesSplit DEF BoundaryInv
  <2>2. /\ pc \notin {"none", "spawned", "finished", "joined"}
        /\ reserved # NoJob /\ ~registry.collected
    BY <1>1, <2>1 DEF WorkerBound, ControlInv
  <2>3. CASE UNCHANGED model
    BY <1>1, <2>3
  <2>4. ASSUME NEW g \in Handles, Close(g) \/ Finalize(g) \/ Cancel(g)
        PROVE  model[h] = "gone"
    <3>1. model' = model \/ model' = [model EXCEPT ![g] = "deferred"]
      BY <2>2, <2>4 DEF Close, Finalize, Cancel, NativeClose, Retired, handleVars
    <3> QED
      BY <1>1, <2>1, <3>1 DEF MainTypes
  <2>5. CASE CallbackEnds
    <3>1. UNCHANGED model
      BY <2>5 DEF CallbackEnds, CallbackReturns, CallbackFails, handleVars
    <3> QED
      BY <2>3, <3>1
  <2>6. CASE Finish \/ Ack
    <3>1. UNCHANGED model
      BY <2>2, <2>6 DEF Finish, Ack, NothingToDeliver, handleVars
    <3> QED
      BY <2>3, <3>1
  <2>7. CASE EndShutdown
    BY <2>2, <2>7 DEF EndShutdown
  <2>8. ASSUME NEW j \in Jobs, NEW g \in Handles, NEW m \in Modes,
               Submit(j, g, m) \/ SubmitFails(j, g, m) \/ SubmitInterrupted(j, g, m)
        PROVE  model[h] = "gone"
    <3>1. UNCHANGED model
      BY <2>2, <2>8 DEF Submit, SubmitFails, SubmitInterrupted, StartNative
    <3> QED
      BY <2>3, <3>1
  <2>9. CASE Quiet
    BY <1>1, <2>3, <2>9, QuietStep
  <2> QED
    BY <1>1, <2>4, <2>5, <2>6, <2>7, <2>8, <2>9, StepsSplit
<1>2. BoundaryInv /\ [BoundaryNext]_vars =>
        [WorkerBound => \A h \in Handles : model'[h] = "gone" => model[h] = "gone"]_vars
  BY <1>1
<1> QED
  BY <1>2, BoundaryInvariant, PTL DEF BoundarySpec, NoDestructionUnderWorker

(* What the promises show of a step.                                        *)
Shown == [j \in Jobs |-> jobs[j].verdict]

(* No verdict changes.                                                      *)
LEMMA ShownSame ==
  ASSUME \A j \in Jobs : jobs'[j].verdict = jobs[j].verdict
  PROVE  Shown' = Shown
BY DEF Shown

(* One verdict changes.                                                     *)
LEMMA ShownSet ==
  ASSUME MainTypes, NEW j \in Jobs, NEW v, jobs'[j].verdict = v,
         \A k \in Jobs \ {j} : jobs'[k].verdict = jobs[k].verdict
  PROVE  Shown' = [Shown EXCEPT ![j] = v]
BY DEF Shown

(* A pending job settles, after or together with the return of the engine.  *)
LEMMA SettleShown ==
  ASSUME MainTypes, NEW j \in Jobs, NEW v \in Settled, Settle(j, v), Unsettled(j),
         v = "resolved" => j \notin accepted,
         reserved' \in {reserved, NoJob}, reserved' # j, UNCHANGED accepted
  PROVE  Promise!Next
<1>1. jobs' = [jobs EXCEPT ![j].verdict = v, ![j].timer = FALSE]
  BY DEF Settle
<1>2. jobs'[j].verdict = v /\ \A k \in Jobs \ {j} : jobs'[k].verdict = jobs[k].verdict
  BY <1>1 DEF MainTypes, Job
<1>3. Shown' = [Shown EXCEPT ![j] = v] /\ Shown[j] = "pending"
  BY <1>2, ShownSet DEF Shown, Unsettled
<1>4. Promise!Settle(j, v)
  BY <1>3 DEF Promise!Settle, Shown, NoJob
<1>5. j \in Promise!Jobs /\ v \in Promise!Rejections \cup {"resolved"}
  BY DEF Promise!Jobs, Jobs, Promise!Rejections, Settled, Rejections
<1> QED
  BY <1>4, <1>5 DEF Promise!Next

(* Nothing, or only the engine, changes.                                    *)
LEMMA ReturnShown ==
  ASSUME MainTypes, \A j \in Jobs : jobs'[j].verdict = jobs[j].verdict,
         reserved' \in {reserved, NoJob}, UNCHANGED accepted
  PROVE  [Promise!Next]_Promise!vars
<1>1. Shown' = Shown
  BY ShownSame
<1>2. CASE reserved' = reserved
  BY <1>1, <1>2 DEF Promise!vars, Shown
<1>3. CASE reserved # NoJob /\ reserved' = NoJob
  <2>1. Promise!Return
    BY <1>1, <1>3 DEF Promise!Return, Shown, NoJob
  <2>2. 1 \in Promise!Jobs
    BY JobsAssumption DEF Promise!Jobs
  <2> QED
    BY <2>1, <2>2 DEF Promise!Next
<1> QED
  BY <1>2, <1>3

(* The engine comes back, and the job settles unless a callback is owed.    *)
LEMMA FinishShown ==
  ASSUME BoundaryInv, NEW j \in Jobs, FinishActive(j), reserved = j, Unsettled(j)
  PROVE  [Promise!Next]_Promise!vars
<1>1. MainTypes
  BY TypesSplit DEF BoundaryInv
<1>2. reserved' = NoJob /\ accepted' = accepted /\ NoJob # j
  BY DEF FinishActive, Release, Jobs, NoJob
<1>3. CASE UNCHANGED jobs
  BY <1>1, <1>2, <1>3, ReturnShown
<1>4. CASE Settle(j, Verdict(j))
  <2>1. Verdict(j) \in Settled /\ Verdict(j) # "resolved"
    BY DEF Verdict, Settled, Rejections
  <2>2. PICK v \in Settled : v = Verdict(j)
    BY <2>1
  <2> QED
    BY <1>1, <1>2, <1>4, <2>1, <2>2, SettleShown
<1> QED
  BY <1>3, <1>4 DEF FinishActive

(* Who has the engine when its job finishes or is cancelled.                *)
LEMMA ReservedPending ==
  ASSUME BoundaryInv, ~At("join"), ~At("lost"), registry.job # NoJob
  PROVE  /\ reserved = registry.job /\ reserved \in Jobs /\ Unsettled(reserved)
         /\ reserved \in accepted => cancelled
<1>1. MainTypes /\ ControlInv /\ TimerInv
  BY TypesSplit DEF BoundaryInv
<1>2. reserved = registry.job /\ reserved \in Jobs
  BY <1>1 DEF ControlInv, MainTypes
<1>3. Unsettled(reserved) /\ (reserved \in accepted => cancelled)
  BY <1>1, <1>2 DEF TimerInv, ControlInv
<1> QED
  BY <1>2, <1>3

(* Submissions and cancellations.                                           *)
LEMMA UserShown ==
  ASSUME BoundaryInv,
         \/ \E h \in Handles : Close(h) \/ Finalize(h) \/ Cancel(h)
         \/ \E j \in Jobs, h \in Handles, m \in Modes :
              Submit(j, h, m) \/ SubmitFails(j, h, m) \/ SubmitInterrupted(j, h, m)
  PROVE  [Promise!Next]_Promise!vars
<1>1. MainTypes
  BY TypesSplit DEF BoundaryInv
<1>2. ASSUME NEW h \in Handles, Close(h) \/ Finalize(h)
      PROVE  [Promise!Next]_Promise!vars
  <2>1. UNCHANGED <<jobs, reserved, accepted>>
    BY <1>2 DEF Close, Finalize, rVars
  <2> QED
    BY <1>1, <2>1, ReturnShown
<1>3. ASSUME NEW h \in Handles, Cancel(h)
      PROVE  [Promise!Next]_Promise!vars
  <2>1. /\ UserCode /\ registry.job # NoJob /\ ~cancelled
        /\ accepted' = accepted \cup {registry.job} /\ UNCHANGED <<jobs, reserved>>
    BY <1>3 DEF Cancel, CanCancel
  <2>2. ~At("join") /\ ~At("lost")
    BY <2>1 DEF UserCode, At, UserPlaces
  <2>3. PICK j \in Jobs : j = reserved
    BY <2>1, <2>2, ReservedPending
  <2>4. reserved = j /\ Unsettled(j) /\ j \notin accepted /\ accepted' = accepted \cup {j}
    BY <2>1, <2>2, <2>3, ReservedPending
  <2>5. Shown' = Shown /\ Shown[j] = "pending"
    BY <2>1, <2>4 DEF Shown, Unsettled
  <2>6. Promise!Cancel(j)
    BY <2>1, <2>4, <2>5 DEF Promise!Cancel, Shown
  <2>7. j \in Promise!Jobs
    BY DEF Promise!Jobs, Jobs
  <2> QED
    BY <2>6, <2>7 DEF Promise!Next
<1>4. ASSUME NEW j \in Jobs, NEW h \in Handles, NEW m \in Modes,
             Submit(j, h, m) \/ SubmitFails(j, h, m) \/ SubmitInterrupted(j, h, m)
      PROVE  [Promise!Next]_Promise!vars
  <2>1. jobs[j].verdict = "unsubmitted" /\ accepted' = accepted
    <3>1. Fresh(j) /\ accepted' = accepted
      <4>1. CASE Submit(j, h, m)
        BY <4>1 DEF Submit
      <4>2. CASE SubmitFails(j, h, m)
        BY <4>2 DEF SubmitFails
      <4>3. CASE SubmitInterrupted(j, h, m)
        BY <4>3 DEF SubmitInterrupted
      <4> QED
        BY <1>4, <4>1, <4>2, <4>3
    <3> QED
      BY <3>1 DEF Fresh
  <2>2. \/ jobs'[j].verdict = "pending" /\ reserved = NoJob /\ reserved' = j
        \/ jobs'[j].verdict \in {"pending", "failed"} /\ reserved' = reserved
    <3>1. CASE Submit(j, h, m)
      BY <1>1, <3>1 DEF Submit, StartNative, NewJob, MainTypes
    <3>2. CASE SubmitFails(j, h, m)
      BY <1>1, <3>2 DEF SubmitFails, NewJob, MainTypes
    <3>3. CASE SubmitInterrupted(j, h, m)
      BY <1>1, <3>3 DEF SubmitInterrupted, StartNative, NewJob, MainTypes
    <3> QED
      BY <1>4, <3>1, <3>2, <3>3
  <2>3. \A k \in Jobs \ {j} : jobs'[k].verdict = jobs[k].verdict
    <3>1. \E r : jobs' = [jobs EXCEPT ![j] = r]
      BY <1>4 DEF Submit, SubmitFails, SubmitInterrupted
    <3> QED
      BY <1>1, <3>1 DEF MainTypes
  <2>4. PICK v : v = jobs'[j].verdict
    OBVIOUS
  <2>5. Shown' = [Shown EXCEPT ![j] = v] /\ Shown[j] = "unsubmitted"
    BY <1>1, <2>1, <2>3, <2>4, ShownSet DEF Shown
  <2>6. Promise!Submit(j)
    BY <2>1, <2>2, <2>4, <2>5 DEF Promise!Submit, Shown, NoJob
  <2>7. j \in Promise!Jobs
    BY DEF Promise!Jobs, Jobs
  <2> QED
    BY <2>6, <2>7 DEF Promise!Next
<1> QED
  BY <1>2, <1>3, <1>4

(* One engine, lent to one job at a time; a promise per job, settled once,  *)
(* after the engine is back; no result after an accepted cancellation: the  *)
(* promises and the reservation implement JobPromise.                       *)
THEOREM BoundaryImplementsPromise == BoundarySpec => ImplementsPromise
<1>1. Init => Promise!Init
  <2> SUFFICES ASSUME Init PROVE Promise!Init
    OBVIOUS
  <2>1. \A j \in Jobs : jobs[j].verdict = "unsubmitted"
    BY DEF Init
  <2>2. Shown = [j \in Jobs |-> "unsubmitted"]
    BY <2>1 DEF Shown
  <2> QED
    BY <2>2 DEF Init, Promise!Init, Promise!Jobs, Jobs, Shown, NoJob
<1>2. ASSUME BoundaryInv, [BoundaryNext]_vars
      PROVE  [Promise!Next]_Promise!vars
  <2>1. MainTypes /\ StackInv /\ ControlInv
    BY <1>2, TypesSplit DEF BoundaryInv
  <2>2. CASE Quiet
    BY <1>2, <2>1, <2>2, QuietStep, ReturnShown
  <2>3. ASSUME At("onFinal"), NEW v \in {"resolved", "consumer"}, Settle(Top.job, v),
               UNCHANGED <<reserved, accepted>>
        PROVE  [Promise!Next]_Promise!vars
    <3>1. /\ Top.job \in Jobs /\ reserved # Top.job /\ Top.job \notin accepted
      BY <2>1, <2>3, TopOK DEF At, FrameOK
    <3>2. CASE Unsettled(Top.job)
      <4>1. v \in Settled
        BY DEF Settled, Rejections
      <4> QED
        BY <2>1, <2>3, <3>1, <3>2, <4>1, SettleShown
    <3>3. CASE ~Unsettled(Top.job)
      <4>1. jobs' = jobs
        BY <2>3, <3>3 DEF Settle
      <4> QED
        BY <2>1, <2>3, <4>1, ReturnShown
    <3> QED
      BY <3>2, <3>3
  <2>4. CASE CallbackEnds
    <3>1. UNCHANGED <<reserved, accepted>>
      BY <2>4 DEF CallbackEnds, CallbackReturns, CallbackFails
    <3>2. CASE \E v \in {"resolved", "consumer"} : At("onFinal") /\ Settle(Top.job, v)
      BY <2>3, <3>1, <3>2
    <3>3. CASE jobs' = jobs
      BY <2>1, <3>1, <3>3, ReturnShown
    <3>4. CASE stack # <<>> /\ Top.at \notin Special /\ \E place : ConsumerFailure(Top.job, place)
      <4>1. jobs' = jobs \/ jobs' = [jobs EXCEPT ![Top.job].failure = TRUE]
        BY <3>4 DEF ConsumerFailure
      <4>2. \A j \in Jobs : jobs'[j].verdict = jobs[j].verdict
        <5>1. PICK j \in Jobs : j = Top.job
          BY <2>1, <3>4, TopOK DEF Special
        <5>2. jobs' = jobs \/ jobs' = [jobs EXCEPT ![j].failure = TRUE]
          BY <4>1, <5>1
        <5>3. CASE jobs' = [jobs EXCEPT ![j].failure = TRUE]
          BY <2>1, <5>3 DEF MainTypes, Job
        <5> QED
          BY <5>2, <5>3
      <4> QED
        BY <2>1, <3>1, <4>2, ReturnShown
    <3>5. CASE CallbackReturns
      BY <3>2, <3>3, <3>5 DEF CallbackReturns
    <3>6. CASE CallbackFails
      <4>1. CASE At("onToken") \/ At("onProgress")
        <5>1. stack # <<>> /\ Top.at \notin Special /\ Top.at # "onFinal"
          BY <4>1 DEF At, Special
        <5>2. \E place : ConsumerFailure(Top.job, place)
          BY <3>6, <5>1 DEF CallbackFails, At
        <5> QED
          BY <3>4, <5>1, <5>2
      <4>2. CASE At("onFinal") /\ Settle(Top.job, "consumer")
        BY <3>2, <4>2
      <4> QED
        BY <3>6, <4>1, <4>2 DEF CallbackFails
    <3> QED
      BY <2>4, <3>5, <3>6 DEF CallbackEnds
  <2>5. CASE Finish \/ Ack
    <3>1. /\ stack # <<>> /\ Top.at \notin Special /\ ~At("join") /\ ~At("lost")
      BY <2>5 DEF Finish, Ack, At, Special
    <3>2. Top.job \in Jobs /\ Top.job # NoJob
      BY <2>1, <3>1, TopOK DEF Special, Jobs, NoJob
    <3>3. PICK j \in Jobs : j = Top.job /\ j # NoJob
      BY <3>2
    <3>4. CASE FinishActive(Top.job) /\ registry.job = Top.job
      <4>1. reserved = j /\ Unsettled(j)
        BY <1>2, <3>1, <3>3, <3>4, ReservedPending
      <4> QED
        BY <1>2, <3>3, <3>4, <4>1, FinishShown
    <3>5. CASE UNCHANGED <<jobs, reserved, accepted>>
      BY <2>1, <3>5, ReturnShown
    <3>6. CASE Finish
      BY <2>1, <3>4, <3>6 DEF Finish, ControlInv
    <3>7. CASE Ack
      BY <3>4, <3>5, <3>7 DEF Ack, Registered
    <3> QED
      BY <2>5, <3>6, <3>7
  <2>6. CASE EndShutdown
    <3>1. reserved' = NoJob /\ accepted' = accepted
      BY <2>6 DEF EndShutdown, Release
    <3>2. Victim \in Jobs \cup {NoJob}
      BY <2>1, <2>6, TopOK DEF EndShutdown, At, Victim, MainTypes
    <3>3. CASE jobs' = jobs
      BY <2>1, <3>1, <3>3, ReturnShown
    <3>4. CASE Victim # NoJob /\ Unsettled(Victim)
      <4>1. PICK j \in Jobs : j = Victim /\ j # NoJob
        BY <3>2, <3>4
      <4>2. PICK v \in {"cancelled", "internal"} : Settle(j, v)
        BY <2>6, <3>4, <4>1 DEF EndShutdown
      <4>3. v \in Settled /\ v # "resolved"
        BY DEF Settled, Rejections
      <4> QED
        BY <2>1, <3>1, <3>4, <4>1, <4>2, <4>3, SettleShown
    <3>5. CASE Victim # NoJob /\ ~Unsettled(Victim)
      <4>1. jobs' = jobs
        BY <2>6, <3>5 DEF EndShutdown, Settle
      <4> QED
        BY <3>3, <4>1
    <3>6. CASE Victim = NoJob
      BY <2>6, <3>3, <3>6 DEF EndShutdown
    <3> QED
      BY <3>4, <3>5, <3>6
  <2> QED
    BY <1>2, <2>2, <2>4, <2>5, <2>6, StepsSplit, UserShown
<1> QED
  BY <1>1, <1>2, BoundaryInvariant, PTL DEF BoundarySpec, ImplementsPromise, Promise!Spec

-----------------------------------------------------------------------------
(***************************************************************************)
(* What the R side is handed: consecutive events of prompts in turn.       *)
(***************************************************************************)
(* The prompts ended by the first n rows of a queue.                        *)
Ended(s, n) == Cardinality({i \in 1 .. n : s[i].kind = "prompt_end"})

(* They are counted by a number, and none before the first row.             *)
LEMMA EndedNat ==
  ASSUME NEW s, NEW n \in Nat
  PROVE  Ended(s, n) \in Nat /\ Ended(s, 0) = 0
<1>1. IsFiniteSet(1 .. n)
  BY FS_Interval
<1>2. IsFiniteSet({i \in 1 .. n : s[i].kind = "prompt_end"})
  BY <1>1, FS_Subset
<1>3. Ended(s, n) \in Nat
  BY <1>2, FS_CardinalityType DEF Ended
<1>4. {i \in 1 .. 0 : s[i].kind = "prompt_end"} = {}
  OBVIOUS
<1>5. Ended(s, 0) = 0
  BY <1>4, FS_EmptySet DEF Ended
<1> QED
  BY <1>3, <1>5

(* They depend on those rows alone.                                         *)
LEMMA EndedSame ==
  ASSUME NEW s, NEW t, NEW n \in Nat, \A i \in 1 .. n : t[i] = s[i]
  PROVE  Ended(t, n) = Ended(s, n)
<1>1. {i \in 1 .. n : t[i].kind = "prompt_end"} = {i \in 1 .. n : s[i].kind = "prompt_end"}
  OBVIOUS
<1> QED
  BY <1>1 DEF Ended

(* One more row ends its prompt or none.                                    *)
LEMMA EndedNext ==
  ASSUME NEW s, NEW n \in Nat
  PROVE  Ended(s, n + 1) =
           IF s[n + 1].kind = "prompt_end" THEN Ended(s, n) + 1 ELSE Ended(s, n)
<1> DEFINE E(m) == {i \in 1 .. m : s[i].kind = "prompt_end"}
<1>1. IsFiniteSet(E(n)) /\ n + 1 \notin E(n)
  <2>1. IsFiniteSet(1 .. n)
    BY FS_Interval
  <2> QED
    BY <2>1, FS_Subset
<1>2. 1 .. n + 1 = (1 .. n) \cup {n + 1}
  OBVIOUS
<1>3. CASE s[n + 1].kind = "prompt_end"
  <2>1. E(n + 1) = E(n) \cup {n + 1}
    BY <1>2, <1>3
  <2> HIDE DEF E
  <2>2. Cardinality(E(n) \cup {n + 1}) = Cardinality(E(n)) + 1
    BY <1>1, FS_AddElement
  <2>3. Cardinality(E(n + 1)) = Cardinality(E(n)) + 1
    BY <2>1, <2>2
  <2> QED
    BY <1>3, <2>3 DEF E, Ended
<1>4. CASE s[n + 1].kind # "prompt_end"
  <2>1. E(n + 1) = E(n)
    BY <1>2, <1>4
  <2> QED
    BY <1>4, <2>1 DEF Ended
<1> QED
  BY <1>3, <1>4

(* A batch of n rows and the rows behind it share the prompts ended.        *)
LEMMA EndedShift ==
  ASSUME NEW s, NEW t, NEW n \in Nat, NEW k \in Nat,
         \A i \in 1 .. k : t[i] = s[n + i]
  PROVE  Ended(s, n + k) = Ended(s, n) + Ended(t, k)
<1> DEFINE S == {m \in Nat : m <= k => Ended(s, n + m) = Ended(s, n) + Ended(t, m)}
<1>1. 0 \in S
  <2>1. Ended(s, n) \in Nat /\ Ended(t, 0) = 0 /\ n + 0 = n
    BY EndedNat
  <2> QED
    BY <2>1
<1>2. ASSUME NEW m \in Nat, m \in S
      PROVE  m + 1 \in S
  <2>1. CASE m + 1 <= k
    <3>1. m <= k /\ m + 1 \in 1 .. k /\ n + m \in Nat /\ n + (m + 1) = (n + m) + 1
      BY <2>1
    <3>2. t[m + 1] = s[(n + m) + 1]
      BY <3>1
    <3>3. Ended(s, (n + m) + 1) =
            IF t[m + 1].kind = "prompt_end" THEN Ended(s, n + m) + 1 ELSE Ended(s, n + m)
      BY <3>1, <3>2, EndedNext
    <3>4. Ended(t, m + 1) =
            IF t[m + 1].kind = "prompt_end" THEN Ended(t, m) + 1 ELSE Ended(t, m)
      BY EndedNext
    <3>5. Ended(s, n + m) = Ended(s, n) + Ended(t, m)
      BY <1>2, <3>1
    <3>6. Ended(s, n) \in Nat /\ Ended(t, m) \in Nat
      BY EndedNat
    <3>7. Ended(s, (n + m) + 1) = Ended(s, n) + Ended(t, m + 1)
      BY <3>3, <3>4, <3>5, <3>6
    <3> QED
      BY <3>1, <3>7
  <2> QED
    BY <2>1
<1>3. Nat \subseteq S
  <2> HIDE DEF S
  <2> QED
    BY <1>1, <1>2, SetInduction
<1> QED
  BY <1>3

(* Where the worker's own count of the prompts will be used again.          *)
Counting == {"spawned", "prompt", "decode"} \cup Kinds

(* The queue of a stream whose prompt p is the next to be handed over: the  *)
(* rows go through the prompts in turn, and the worker is where they end.   *)
Lined(p) ==
  /\ \A i \in 1 .. Len(rows) : rows[i].prompt = p + Ended(rows, i - 1)
  /\ pc \in Counting => prompt = p + Ended(rows, Len(rows))
  /\ pc \in {"decode"} \cup Kinds => promptId = prompt

(* The worker of a stream keeps it so until its rows are discarded.         *)
LEMMA WorkerLined ==
  ASSUME JobIInv, streaming, ~discarded', NEW p \in Nat, Lined(p), WorkerNext
  PROVE  Lined(p)' /\ drained' = drained
<1> USE DEF Counting, Kinds
<1>1. CASE EnqueueRow
  <2>1. /\ pc \in Kinds /\ AppendRow(pc) /\ AfterRow(pc)
        /\ promptId' = promptId /\ drained' = drained
    BY <1>1 DEF EnqueueRow
  <2>2. /\ rows \in Seq(Row) /\ Len(rows) \in Nat /\ prompt \in Nat /\ promptId \in Nat
    BY RequestAssumption DEF JobIInv, JobTypeOK
  <2>3. /\ Len(rows') = Len(rows) + 1
        /\ \A i \in 1 .. Len(rows) : rows'[i] = rows[i]
    BY <2>1, RowAppended DEF JobIInv
  <2>4. /\ rows'[Len(rows) + 1].prompt = promptId
        /\ rows'[Len(rows) + 1].kind = pc
    BY <2>1, <2>2 DEF AppendRow
  <2>5. prompt = p + Ended(rows, Len(rows)) /\ promptId = prompt
    BY <2>1 DEF Lined
  <2>6. \A n \in 0 .. Len(rows) : Ended(rows', n) = Ended(rows, n) /\ Ended(rows, n) \in Nat
    BY <2>2, <2>3, EndedSame, EndedNat
  <2>7. ASSUME NEW i \in 1 .. Len(rows')
        PROVE  rows'[i].prompt = p + Ended(rows', i - 1)
    <3>1. CASE i = Len(rows) + 1
      <4>1. i - 1 = Len(rows) /\ Len(rows) \in 0 .. Len(rows)
        BY <2>2, <3>1
      <4> QED
        BY <2>4, <2>5, <2>6, <3>1, <4>1
    <3>2. CASE i # Len(rows) + 1
      <4>1. i \in 1 .. Len(rows) /\ i - 1 \in 0 .. Len(rows)
        BY <2>2, <2>3, <3>2
      <4> QED
        BY <2>3, <2>6, <4>1 DEF Lined
    <3> QED
      BY <3>1, <3>2
  <2>8. Ended(rows', Len(rows')) =
          IF pc = "prompt_end" THEN Ended(rows, Len(rows)) + 1 ELSE Ended(rows, Len(rows))
    <3>1. Len(rows) \in 0 .. Len(rows)
      BY <2>2
    <3> QED
      BY <2>2, <2>3, <2>4, <2>6, <3>1, EndedNext
  <2>9. Ended(rows, Len(rows)) \in Nat
    BY <2>2, EndedNat
  <2>10. /\ pc' \in Counting => prompt' = p + Ended(rows', Len(rows'))
         /\ pc' \in {"decode"} \cup Kinds => promptId' = prompt'
    <3>1. CASE pc = "prompt_end"
      BY <2>1, <2>5, <2>8, <2>9, <3>1 DEF AfterRow, Return
    <3>2. CASE pc \in {"token", "text"}
      BY <2>1, <2>5, <2>8, <3>2 DEF AfterRow, Return
    <3> QED
      BY <2>1, <3>1, <3>2
  <2> QED
    BY <2>1, <2>7, <2>10 DEF Lined
<1>2. CASE ~EnqueueRow
  <2>1. /\ drained' = drained /\ rows' = rows
        /\ pc' \in Counting => pc \in Counting /\ prompt' = prompt
        /\ pc' \in {"decode"} \cup Kinds =>
             promptId' = prompt' \/ (pc \in {"decode"} \cup Kinds /\ promptId' = promptId)
    BY <1>2 DEF WorkerNext, WorkerEnter, PromptStarted, Sampled, PromptCompleted, DecodeFails,
       EnqueueNothing, EnqueueRefused, EnqueueWait, Publish, WorkerReturn, Return, control
  <2> QED
    BY <2>1 DEF Lined
<1> QED
  BY <1>1, <1>2

(* A batch of n rows handed over leaves the queue in line behind it.        *)
LEMMA TransferLined ==
  ASSUME JobIInv, NEW p \in Nat, Lined(p), NEW n \in 0 .. Len(rows), Transfer(n),
         NEW q \in Nat, q = Ended(rows, n)
  PROVE  Lined(p + q)' /\ drained' = drained + n
<1>1. /\ rows \in Seq(Row) /\ Len(rows) \in Nat /\ n \in Nat
      /\ UNCHANGED <<pc, prompt, promptId>> /\ drained' = drained + n
      /\ rows' = SubSeq(rows, n + 1, Len(rows))
  BY DEF JobIInv, JobTypeOK, Transfer
<1>2. Len(rows') = Len(rows) - n /\ \A i \in 1 .. Len(rows') : rows'[i] = rows[n + i]
  BY <1>1, FrontRemoved
<1>3. ASSUME NEW k \in 0 .. Len(rows')
      PROVE  Ended(rows, n + k) = q + Ended(rows', k) /\ Ended(rows', k) \in Nat
  <2>1. k \in Nat /\ \A i \in 1 .. k : rows'[i] = rows[n + i]
    BY <1>1, <1>2
  <2>2. Ended(rows, n + k) = Ended(rows, n) + Ended(rows', k)
    <3>1. PICK s, t : s = rows /\ t = rows'
      OBVIOUS
    <3>2. n \in Nat /\ \A i \in 1 .. k : t[i] = s[n + i]
      BY <1>1, <2>1, <3>1
    <3>3. Ended(s, n + k) = Ended(s, n) + Ended(t, k)
      BY <2>1, <3>2, EndedShift, SMTT(30)
    <3> QED
      BY <3>1, <3>3
  <2>3. Ended(rows', k) \in Nat
    BY <2>1, EndedNat
  <2> QED
    BY <2>2, <2>3
<1>4. ASSUME NEW i \in 1 .. Len(rows')
      PROVE  rows'[i].prompt = p + q + Ended(rows', i - 1)
  <2>1. /\ n + i \in 1 .. Len(rows) /\ i - 1 \in 0 .. Len(rows')
        /\ (n + i) - 1 = n + (i - 1)
    <3>1. PICK l \in Nat : l = Len(rows)
      BY <1>1
    <3>2. n \in 0 .. l /\ i \in 1 .. (l - n)
      BY <1>2, <3>1
    <3>3. n + i \in 1 .. l /\ i - 1 \in 0 .. (l - n) /\ (n + i) - 1 = n + (i - 1)
      BY <3>2
    <3> QED
      BY <1>2, <3>1, <3>3
  <2>2. rows'[i].prompt = p + Ended(rows, n + (i - 1))
    BY <1>2, <2>1 DEF Lined
  <2> QED
    <3>1. Ended(rows, n + (i - 1)) = q + Ended(rows', i - 1) /\ Ended(rows', i - 1) \in Nat
      BY <1>3, <2>1
    <3> QED
      BY <2>2, <3>1
<1>5. Ended(rows, Len(rows)) = q + Ended(rows', Len(rows')) /\ Ended(rows', Len(rows')) \in Nat
  <2>1. Len(rows') \in 0 .. Len(rows') /\ n + Len(rows') = Len(rows)
    BY <1>1, <1>2, SMTT(30)
  <2> QED
    BY <1>3, <2>1
<1>6. Lined(p + q)'
  BY <1>1, <1>4, <1>5, SMTT(30) DEF Lined
<1> QED
  BY <1>1, <1>6

(* A stream that R still takes in order: not failed, closed or discarded,   *)
(* and with no batch lost on its way.                                       *)
InOrder(j) ==
  Streaming(j) /\ ~jobs[j].failure /\ ~rClosed[Owner(j)] /\ ~discarded /\ ~At("unconverted")

(* R has counted the events and the prompts that were handed over, and the  *)
(* queue goes on where they end.                                            *)
InLine(j) == jobs[j].events = drained /\ Lined(jobs[j].prompt)

StreamInv ==
  /\ discarded => rows = <<>>
  /\ At("unconverted") => Top.job = reserved
  /\ BatchesAreValid
  /\ reserved # NoJob /\ InOrder(reserved) => InLine(reserved)

(* Rows that are left alone, dropped for good, or started anew.             *)
RowsKept ==
  /\ UNCHANGED <<drained, prompt, promptId, streaming>>
  /\ pc' = pc \/ pc' = "joined"
  /\ \/ UNCHANGED <<rows, discarded>>
     \/ rows' = <<>> /\ discarded'

(* What the main thread does to a running job, but for a batch.             *)
LEMMA RowsAreKept ==
  ASSUME UNCHANGED jobVars \/ DiscardStream \/ RequestCancel \/ CancelIfPossible \/ Join
  PROVE  RowsKept
BY DEF jobVars, control, worker, DiscardStream, RequestCancel, CancelIfPossible, Join,
       RowsKept

(* The jobs may change, but what R counts of the running one stays, and its *)
(* failure and its closed handle are not undone.                            *)
CountsKept ==
  reserved # NoJob =>
    /\ jobs'[reserved].owner = jobs[reserved].owner
    /\ jobs'[reserved].mode = jobs[reserved].mode
    /\ jobs'[reserved].events = jobs[reserved].events
    /\ jobs'[reserved].prompt = jobs[reserved].prompt
    /\ jobs[reserved].failure => jobs'[reserved].failure
    /\ rClosed[Owner(reserved)] => rClosed'[Owner(reserved)]

(* The main thread stays where it is, or goes elsewhere; it leaves a lost   *)
(* batch only with a failure recorded.                                      *)
Elsewhere ==
  \/ UNCHANGED stack
  \/ /\ ~At("unconverted")' /\ ~At("invalid")'
     /\ At("unconverted") /\ reserved # NoJob => jobs'[reserved].failure

(* A step that hands no row over keeps the stream in line.                  *)
LEMMA StreamKept ==
  ASSUME StreamInv, UNCHANGED reserved, RowsKept, CountsKept, Elsewhere
  PROVE  StreamInv'
<1>1. (discarded => rows = <<>>)'
  BY DEF StreamInv, RowsKept
<1>2. /\ (At("unconverted") => Top.job = reserved)'
      /\ BatchesAreValid'
      /\ reserved # NoJob /\ At("unconverted") /\ ~At("unconverted")' =>
           jobs'[reserved].failure
  <2>1. CASE UNCHANGED stack
    BY <2>1 DEF StreamInv, BatchesAreValid, At, Top
  <2>2. CASE ~UNCHANGED stack
    BY <2>2 DEF Elsewhere, BatchesAreValid
  <2> QED
    BY <2>1, <2>2
<1>3. ASSUME reserved # NoJob, InOrder(reserved)'
      PROVE  InLine(reserved)'
  <2>1. PICK j : j = reserved /\ j = reserved'
    OBVIOUS
  <2>2. /\ Streaming(j)' /\ ~jobs'[j].failure /\ ~rClosed'[jobs'[j].owner] /\ ~discarded'
        /\ ~At("unconverted")'
    BY <1>3, <2>1 DEF InOrder, Owner, Streaming
  <2>3. InOrder(reserved) /\ UNCHANGED rows
    BY <1>2, <1>3, <2>1, <2>2 DEF InOrder, CountsKept, RowsKept, Owner, Streaming
  <2>4. jobs[j].events = drained /\ Lined(jobs[j].prompt)
    BY <1>3, <2>1, <2>3 DEF StreamInv, InLine
  <2>5. PICK p : p = jobs[j].prompt /\ p = jobs'[j].prompt
    BY <1>3, <2>1 DEF CountsKept
  <2>6. Lined(p) => Lined(p)'
    BY <2>3 DEF Lined, RowsKept, Counting, Kinds
  <2>7. jobs'[j].events = drained' /\ Lined(p)'
    BY <1>3, <2>1, <2>4, <2>5, <2>6 DEF CountsKept, RowsKept
  <2> QED
    BY <2>1, <2>5, <2>7 DEF InLine, Lined, Counting, Kinds
<1> QED
  BY <1>1, <1>2, <1>3 DEF StreamInv

(* So does the worker.                                                      *)
LEMMA WorkerStreams ==
  ASSUME BoundaryInv, StreamInv, Worker
  PROVE  StreamInv'
<1>1. JobIInv /\ MainTypes /\ ControlInv
  BY TypesSplit DEF BoundaryInv
<1>2. WorkerNext /\ UNCHANGED <<reserved, rClosed, jobs, stack>>
  BY DEF Worker, mainVars, handleVars, rVars
<1>3. (discarded => rows = <<>>)' /\ (discarded => discarded')
  BY <1>2 DEF StreamInv, WorkerNext, WorkerEnter, PromptStarted, Sampled, PromptCompleted,
     DecodeFails, EnqueueNothing, EnqueueRefused, EnqueueRow, EnqueueWait, Publish,
     WorkerReturn, control
<1>4. (At("unconverted") => Top.job = reserved)' /\ BatchesAreValid'
      /\ (At("unconverted")' <=> At("unconverted"))
  BY <1>2 DEF StreamInv, BatchesAreValid, At, Top
<1>5. ASSUME reserved # NoJob, InOrder(reserved)'
      PROVE  InLine(reserved)'
  <2>1. InOrder(reserved) /\ ~discarded'
    BY <1>2, <1>3, <1>4, <1>5 DEF InOrder, Owner, Streaming
  <2>2. streaming /\ reserved \in Jobs
    BY <1>1, <1>5, <2>1 DEF ControlInv, InOrder, MainTypes
  <2>3. PICK p \in Nat : p = jobs[reserved].prompt
    BY <1>1, <2>2, RequestAssumption DEF MainTypes, Job
  <2>4. jobs[reserved].events = drained /\ Lined(p)
    BY <1>5, <2>1, <2>3 DEF StreamInv, InLine
  <2>5. Lined(p)' /\ drained' = drained
    BY <1>1, <1>2, <2>1, <2>2, <2>4, WorkerLined
  <2> QED
    BY <1>2, <2>3, <2>4, <2>5 DEF InLine, Lined, Counting, Kinds
<1> QED
  BY <1>2, <1>3, <1>4, <1>5 DEF StreamInv

(* A batch is checked and counted, or lost with its stream.                 *)
LEMMA DrainStreams ==
  ASSUME BoundaryInv, StreamInv, Drain
  PROVE  StreamInv'
<1>1. MainTypes /\ ControlInv /\ JobIInv /\ StackInv
  BY TypesSplit DEF BoundaryInv
<1>2. stack # <<>> /\ At("decide") /\ ~At("unconverted") /\ ~At("invalid")
      /\ UNCHANGED <<reserved, closed, registry>>
  BY DEF Drain, At
<1>j. PICK j \in Jobs : j = Top.job /\ j = reserved /\ j # NoJob
  <2>1. Top.job \in Jobs /\ Top.job = reserved
    BY <1>1, <1>2, TopOK DEF At, ControlInv
  <2> QED
    BY <2>1 DEF Jobs, NoJob
<1>3. PICK n \in 0 .. BatchRows :
        /\ IsBatch(n) /\ Transfer(n)
        /\ \/ /\ n > 0 /\ Goto("unconverted") /\ UNCHANGED jobs
           \/ /\ n = 0 \/ jobs[j].failure \/ rClosed'[Owner(j)]
              /\ Deliver(j, n, "ready") /\ UNCHANGED jobs
           \/ /\ n > 0 /\ ~jobs[j].failure /\ ~rClosed'[Owner(j)]
              /\ ~ValidBatch(j, n) /\ Deliver(j, n, "invalid") /\ UNCHANGED jobs
           \/ /\ n > 0 /\ ValidBatch(j, n)
              /\ jobs' = [jobs EXCEPT ![j].events = rows[n].id,
                                      ![j].prompt = @ + PromptsEnded(n)]
              /\ Deliver(j, n, IF jobs[j].mode = "file" THEN "file" ELSE "onToken")
  BY <1>j DEF Drain
<1>4. /\ n \in Nat /\ n \in 0 .. Len(rows) /\ rows \in Seq(Row) /\ Len(rows) \in Nat
      /\ nextId \in Nat /\ drained \in Nat
  BY <1>1, <1>3, RowLimitsAssumption DEF IsBatch, BatchLengths, JobIInv, JobTypeOK
<1>5. /\ Streaming(j) /\ NoteClosed(Owner(j))
      /\ rClosed[Owner(j)] => rClosed'[Owner(j)]
      /\ Owner(j) \in Handles
  <2>1. Streaming(j) /\ NoteClosed(Owner(j))
    BY <1>j DEF Drain
  <2>2. Owner(j) \in Handles
    BY <1>1 DEF MainTypes, Job, Owner
  <2>3. rClosed[Owner(j)] => rClosed'[Owner(j)]
    BY <1>1, <2>1, <2>2 DEF NoteClosed, MainTypes
  <2> QED
    BY <2>1, <2>2, <2>3
<1>6. discarded' = discarded
      /\ (discarded => rows' = <<>>)
      /\ (n > 0 => ~discarded)
  <2>1. rows' = SubSeq(rows, n + 1, Len(rows)) /\ discarded' = discarded
    BY <1>3 DEF Transfer
  <2>2. CASE discarded
    <3>1. rows = <<>> /\ n = 0
      BY <1>4, <2>2 DEF StreamInv
    <3> QED
      BY <1>4, <2>1, <3>1
  <2> QED
    BY <2>1, <2>2
<1>7. PICK p \in Nat : p = jobs[j].prompt
  BY <1>1, RequestAssumption DEF MainTypes, Job
<1>8. ~jobs[j].failure /\ ~rClosed[Owner(j)] /\ ~discarded =>
        jobs[j].events = drained /\ Lined(p)
  BY <1>2, <1>j, <1>5, <1>7 DEF StreamInv, InOrder, InLine
<1>9. \A m : PromptsEnded(m) = Ended(rows, m)
  BY DEF PromptsEnded, Ended
<1>10. ASSUME n > 0, ~jobs[j].failure, ~rClosed'[Owner(j)]
       PROVE  ValidBatch(j, n)
  <2>1. jobs[j].events = drained /\ Lined(p) /\ ~discarded
    BY <1>5, <1>6, <1>8, <1>10
  <2>2. ASSUME NEW i \in 1 .. n
        PROVE  /\ rows[i].id = jobs[j].events + i
               /\ rows[i].prompt = jobs[j].prompt + PromptsEnded(i - 1)
               /\ rows[i].prompt <= Prompts
    <3>1. i \in 1 .. Len(rows) /\ rows[i] \in Row
      BY <1>4
    <3>2. rows[i].id = nextId - Len(rows) + i - 1 /\ drained + Len(rows) = nextId - 1
      BY <1>1, <2>1, <3>1 DEF JobIInv, RowsAreConsecutive
    <3>3. rows[i].id = drained + i
      BY <1>4, <3>2
    <3>4. rows[i].prompt = p + Ended(rows, i - 1)
      BY <2>1, <3>1 DEF Lined
    <3>5. rows[i].prompt <= Prompts
      BY <3>1, RequestAssumption DEF Row
    <3> QED
      BY <1>7, <1>9, <2>1, <3>3, <3>4, <3>5
  <2> QED
    BY <2>2 DEF ValidBatch
<1>11. PICK place \in {"unconverted", "ready", "file", "onToken"} :
         /\ Goto(place) \/ Deliver(j, n, place)
         /\ place = "unconverted" => n > 0 /\ UNCHANGED jobs
         /\ place = "ready" =>
              UNCHANGED jobs /\ (n = 0 \/ jobs[j].failure \/ rClosed'[Owner(j)])
         /\ place \in {"file", "onToken"} =>
              /\ n > 0 /\ ValidBatch(j, n)
              /\ jobs' = [jobs EXCEPT ![j].events = rows[n].id,
                                      ![j].prompt = @ + PromptsEnded(n)]
  <2>1. CASE n > 0 /\ Goto("unconverted") /\ UNCHANGED jobs
    BY <2>1
  <2>2. CASE /\ n = 0 \/ jobs[j].failure \/ rClosed'[Owner(j)]
             /\ Deliver(j, n, "ready") /\ UNCHANGED jobs
    BY <2>2
  <2>3. CASE /\ n > 0 /\ ValidBatch(j, n)
             /\ jobs' = [jobs EXCEPT ![j].events = rows[n].id,
                                     ![j].prompt = @ + PromptsEnded(n)]
             /\ Deliver(j, n, IF jobs[j].mode = "file" THEN "file" ELSE "onToken")
    BY <2>3
  <2> QED
    BY <1>3, <1>10, <2>1, <2>2, <2>3
<1>12. stack' # <<>> /\ Top'.at = place /\ Top'.job = j
  <2>1. place \in Places /\ DeliveryReady(n) \in BOOLEAN
    BY Zenon DEF Places, UserPlaces, DeliveryReady
  <2>2. Replaces(place)
    BY <1>1, <1>2, <1>11, <2>1, GotoReplaces
  <2>3. PICK f \in Frame : f.job = Top.job /\ f.at = place /\ stack' = <<f>> \o Tail(stack)
    BY <2>2 DEF Replaces
  <2> QED
    BY <1>1, <1>2, <1>j, <2>3, Replaced DEF MainTypes
<1>13. (At("unconverted") => Top.job = reserved)' /\ BatchesAreValid'
  BY <1>2, <1>j, <1>11, <1>12 DEF BatchesAreValid, At
<1>14. ASSUME InOrder(reserved)'
       PROVE  InLine(reserved)'
  <2>1. ~jobs'[j].failure /\ ~rClosed'[jobs'[j].owner] /\ ~discarded' /\ place # "unconverted"
    BY <1>2, <1>j, <1>12, <1>14 DEF InOrder, At, Owner
  <2>2. jobs'[j].failure = jobs[j].failure /\ jobs'[j].owner = jobs[j].owner
    <3>1. CASE UNCHANGED jobs
      BY <3>1
    <3>2. CASE \E e, q : jobs' = [jobs EXCEPT ![j].events = e, ![j].prompt = q]
      BY <1>1, <3>2 DEF MainTypes, Job
    <3> QED
      BY <1>11, <3>1, <3>2
  <2>3. jobs[j].events = drained /\ Lined(p)
    BY <1>5, <1>6, <1>8, <2>1, <2>2 DEF Owner
  <2>4. PICK q \in Nat : q = Ended(rows, n)
    BY <1>4, EndedNat
  <2>5. Lined(p + q)' /\ drained' = drained + n
    BY <1>1, <1>3, <1>4, <2>3, <2>4, TransferLined
  <2>6. jobs'[j].events = drained + n /\ jobs'[j].prompt = p + q
    <3>1. CASE place = "ready"
      <4>1. UNCHANGED jobs /\ n = 0
        BY <1>11, <2>1, <2>2, <3>1 DEF Owner
      <4>2. q = 0
        BY <2>4, <4>1, EndedNat
      <4> QED
        BY <1>4, <1>7, <2>3, <4>1, <4>2
    <3>2. CASE place \in {"file", "onToken"}
      <4>1. /\ n > 0 /\ ValidBatch(j, n)
            /\ jobs' = [jobs EXCEPT ![j].events = rows[n].id, ![j].prompt = p + q]
        BY <1>7, <1>9, <1>11, <2>4, <3>2
      <4>2. rows[n].id = jobs[j].events + n
        BY <1>4, <4>1 DEF ValidBatch
      <4> QED
        BY <1>1, <2>3, <4>1, <4>2 DEF MainTypes, Job
    <3> QED
      BY <1>11, <2>1, <3>1, <3>2
  <2>7. PICK r \in Nat : r = p + q
    OBVIOUS
  <2>8. Lined(r)' /\ jobs'[j].prompt = r
    BY <2>5, <2>6, <2>7
  <2> QED
    BY <1>2, <1>j, <2>5, <2>6, <2>8 DEF InLine, Lined, Counting, Kinds
<1> QED
  BY <1>2, <1>j, <1>6, <1>13, <1>14 DEF StreamInv

(* A poll that ends, begins or goes on is elsewhere.                        *)
LEMMA GoesElsewhere ==
  ASSUME MainTypes, StackInv,
         \/ stack # <<>> /\ Pop
         \/ \E place \in Places \ {"unconverted", "invalid"} :
              \/ stack # <<>> /\ Goto(place)
              \/ \E j \in Jobs \cup {NoJob} : Push(j, place)
  PROVE  ~At("unconverted")' /\ ~At("invalid")'
<1>1. CASE stack # <<>> /\ Pop
  <2>1. stack' # <<>> => Len(stack) > 1 /\ Top' = stack[2]
    BY <1>1, Popped DEF MainTypes
  <2>2. stack' # <<>> => Top'.at \in UserPlaces
    BY <2>1 DEF StackInv, MainTypes
  <2> QED
    BY <2>2 DEF At, UserPlaces
<1>2. ASSUME NEW place \in Places \ {"unconverted", "invalid"}, stack # <<>>, Goto(place)
      PROVE  ~At("unconverted")' /\ ~At("invalid")'
  <2>1. Replaces(place)
    BY <1>2, GotoReplaces
  <2>2. Top'.at = place
    BY <1>2, <2>1, Replaced DEF Replaces, MainTypes
  <2> QED
    BY <1>2, <2>2 DEF At
<1>3. ASSUME NEW place \in Places \ {"unconverted", "invalid"},
             NEW j \in Jobs \cup {NoJob}, Push(j, place)
      PROVE  ~At("unconverted")' /\ ~At("invalid")'
  <2> DEFINE f == [job |-> j, at |-> place, ready |-> FALSE]
  <2>1. PICK g \in Frame : g = f
    BY DEF Frame
  <2>2. stack' = <<g>> \o stack /\ g.at = place
    BY <1>3, <2>1 DEF Push
  <2>3. Top' = g
    BY <2>2, Pushed DEF MainTypes
  <2> QED
    BY <1>3, <2>2, <2>3 DEF At
<1> QED
  BY <1>1, <1>2, <1>3

(* The places a poll goes to but for a lost batch and a gap.                *)
Ordinary == Places \ {"unconverted", "invalid"}

(* A consumer failure ends the order of its stream.                         *)
LEMMA FailureStreams ==
  ASSUME BoundaryInv, StreamInv, stack # <<>>, Top.at \notin {"lost", "join"},
         NEW next \in Ordinary, ConsumerFailure(Top.job, next),
         UNCHANGED <<reserved, rClosed>>
  PROVE  StreamInv'
<1>1. MainTypes /\ StackInv /\ TimerInv /\ Top.job \in Jobs
  BY TypesSplit, TopOK DEF BoundaryInv
<1>2. CASE ~FirstFailure(Top.job)
  <2>1. Goto(next) /\ UNCHANGED <<jobs, registry, jobVars>>
    BY <1>2 DEF ConsumerFailure
  <2>2. RowsKept /\ CountsKept
    BY <2>1, RowsAreKept DEF CountsKept
  <2>3. At("unconverted") /\ reserved # NoJob => jobs[reserved].failure
    BY <1>1, <1>2 DEF StreamInv, TimerInv, FirstFailure, At
  <2>4. Elsewhere
    BY <1>1, <2>1, <2>3, GoesElsewhere DEF Elsewhere, Ordinary
  <2> QED
    BY <2>2, <2>4, StreamKept
<1>3. CASE FirstFailure(Top.job)
  <2>1. /\ jobs' = [jobs EXCEPT ![Top.job].failure = TRUE]
        /\ \/ Abandon(Top.job) /\ Goto(next)
           \/ Goto("lost") /\ UNCHANGED jobVars
    BY <1>3 DEF ConsumerFailure
  <2>2. RowsKept
    BY <2>1, RowsAreKept DEF Abandon
  <2>3. CountsKept /\ jobs'[Top.job].failure
    BY <1>1, <2>1 DEF CountsKept, MainTypes, Job
  <2>4. "lost" \in Ordinary
    BY DEF Ordinary, Places
  <2>5. Elsewhere
    BY <1>1, <2>1, <2>3, <2>4, GoesElsewhere DEF Elsewhere, Ordinary, StreamInv
  <2> QED
    BY <2>2, <2>3, <2>5, StreamKept
<1> QED
  BY <1>2, <1>3

(* A poll goes on.                                                          *)
LEMMA OnwardStreams ==
  ASSUME BoundaryInv, StreamInv, stack # <<>>, ~At("unconverted"),
         NEW next \in Ordinary, Goto(next), UNCHANGED jobVars \/ Join \/ DiscardStream,
         CountsKept, UNCHANGED reserved
  PROVE  StreamInv'
<1>1. MainTypes /\ StackInv
  BY TypesSplit DEF BoundaryInv
<1>2. RowsKept
  BY RowsAreKept
<1>3. Elsewhere
  BY <1>1, GoesElsewhere DEF Elsewhere, Ordinary
<1> QED
  BY <1>2, <1>3, StreamKept

(* A poll or a callback that ends, or begins, beside the engine.            *)
LEMMA BesideStreams ==
  ASSUME BoundaryInv, StreamInv, ~At("unconverted"),
         (stack # <<>> /\ Pop) \/ \E j \in Jobs \cup {NoJob}, next \in Ordinary : Push(j, next),
         UNCHANGED jobVars, CountsKept, UNCHANGED reserved
  PROVE  StreamInv'
<1>1. MainTypes /\ StackInv
  BY TypesSplit DEF BoundaryInv
<1>2. RowsKept
  BY RowsAreKept
<1>3. Elsewhere
  BY <1>1, GoesElsewhere DEF Elsewhere, Ordinary
<1> QED
  BY <1>2, <1>3, StreamKept

(* Settling a promise, setting a timer, or noting that a handle is closed   *)
(* leaves the counts alone.                                                 *)
LEMMA CountsStay ==
  ASSUME MainTypes,
         \/ jobs' = jobs
         \/ \E j \in Jobs : \E v : jobs' = [jobs EXCEPT ![j].verdict = v, ![j].timer = FALSE]
         \/ \E j \in Jobs : \E b : jobs' = [jobs EXCEPT ![j].timer = b],
         \/ rClosed' = rClosed
         \/ \E h \in Handles : \/ rClosed' = [rClosed EXCEPT ![h] = TRUE]
                               \/ NoteClosed(h)
  PROVE  CountsKept
<1> SUFFICES ASSUME reserved # NoJob
             PROVE  /\ jobs'[reserved].owner = jobs[reserved].owner
                    /\ jobs'[reserved].mode = jobs[reserved].mode
                    /\ jobs'[reserved].events = jobs[reserved].events
                    /\ jobs'[reserved].prompt = jobs[reserved].prompt
                    /\ jobs[reserved].failure => jobs'[reserved].failure
                    /\ rClosed[Owner(reserved)] => rClosed'[Owner(reserved)]
  BY DEF CountsKept
<1>1. reserved \in Jobs /\ jobs \in [Jobs -> Job] /\ Owner(reserved) \in Handles
      /\ rClosed \in [Handles -> BOOLEAN]
  BY DEF MainTypes, Job, Owner
<1>2. rClosed[Owner(reserved)] => rClosed'[Owner(reserved)]
  <2>1. ASSUME NEW h \in Handles, rClosed' = [rClosed EXCEPT ![h] = TRUE],
               rClosed[Owner(reserved)]
        PROVE  rClosed'[Owner(reserved)]
    BY <1>1, <2>1
  <2>2. ASSUME NEW h \in Handles, NoteClosed(h), rClosed[Owner(reserved)]
        PROVE  rClosed'[Owner(reserved)]
    <3>1. CASE Owner(reserved) = h
      <4>1. rClosed'[Owner(reserved)] = (rClosed[h] \/ closed[h])
        BY <1>1, <2>2, <3>1 DEF NoteClosed
      <4> QED
        BY <2>2, <3>1, <4>1, Zenon
    <3>2. CASE Owner(reserved) # h
      BY <1>1, <2>2, <3>2 DEF NoteClosed
    <3> QED
      BY <3>1, <3>2
  <2> QED
    BY <2>1, <2>2
<1>3. ASSUME NEW j \in Jobs, NEW v,
             jobs' = [jobs EXCEPT ![j].verdict = v, ![j].timer = FALSE]
      PROVE  /\ jobs'[reserved].owner = jobs[reserved].owner
             /\ jobs'[reserved].mode = jobs[reserved].mode
             /\ jobs'[reserved].events = jobs[reserved].events
             /\ jobs'[reserved].prompt = jobs[reserved].prompt
             /\ jobs'[reserved].failure = jobs[reserved].failure
  BY <1>1, <1>3 DEF Job
<1>4. ASSUME NEW j \in Jobs, NEW b, jobs' = [jobs EXCEPT ![j].timer = b]
      PROVE  /\ jobs'[reserved].owner = jobs[reserved].owner
             /\ jobs'[reserved].mode = jobs[reserved].mode
             /\ jobs'[reserved].events = jobs[reserved].events
             /\ jobs'[reserved].prompt = jobs[reserved].prompt
             /\ jobs'[reserved].failure = jobs[reserved].failure
  BY <1>1, <1>4 DEF Job
<1> QED
  BY <1>2, <1>3, <1>4, Zenon

(* The steps of a poll that hand no row over.                               *)
LEMMA PollStreams ==
  ASSUME BoundaryInv, StreamInv,
         \/ Header \/ SinkClosed \/ Collect \/ Running \/ DrainContended \/ Undelivered
         \/ WriteFile \/ AfterSettled \/ NotReady \/ NotAcknowledged \/ Schedule
         \/ AlreadySettled \/ BeginShutdown
  PROVE  StreamInv'
<1>1. MainTypes /\ StackInv
  BY TypesSplit DEF BoundaryInv
<1>2. /\ stack # <<>>
      /\ {"schedule", "collect", "decide", "ready", "onProgress", "lost", "join"}
           \subseteq Ordinary
      /\ stack # <<>> /\ Top.at \notin {"lost", "join"} => Top.job \in Jobs
  BY <1>1, TopOK DEF Header, SinkClosed, Collect, Running, DrainContended, Undelivered,
     WriteFile, AfterSettled, NotReady, NotAcknowledged, Schedule, AlreadySettled,
     BeginShutdown, At, Ordinary, Places, UserPlaces
<1>3. ASSUME NEW next \in {"schedule", "collect", "ready"}, ConsumerFailure(Top.job, next),
             Top.at \notin {"lost", "join"}, UNCHANGED <<reserved, handleVars>>
      PROVE  StreamInv'
  BY <1>2, <1>3, FailureStreams DEF handleVars
<1>4. ASSUME NEW next \in {"schedule", "decide", "ready", "onProgress", "lost", "join"},
             Goto(next), ~At("unconverted"), UNCHANGED jobVars \/ Join \/ DiscardStream,
             UNCHANGED reserved, CountsKept
      PROVE  StreamInv'
  BY <1>2, <1>4, OnwardStreams
<1>5. CASE Header \/ WriteFile
  <2>1. /\ Top.at \notin {"lost", "join"} /\ ~At("unconverted")
        /\ UNCHANGED <<reserved, handleVars>>
    BY <1>5 DEF Header, WriteFile, At
  <2>2. CASE \E next \in {"schedule", "ready"} : ConsumerFailure(Top.job, next)
    BY <1>3, <2>1, <2>2
  <2>3. CASE \E next \in {"schedule", "ready"} :
               Goto(next) /\ UNCHANGED <<jobs, registry, jobVars>>
    <3>1. CountsKept
      BY <1>1, <2>1, <2>3, CountsStay DEF handleVars
    <3> QED
      BY <1>4, <2>1, <2>3, <3>1
  <2> QED
    BY <1>5, <2>2, <2>3 DEF Header, WriteFile
<1>6. CASE SinkClosed \/ Undelivered \/ NotAcknowledged
  <2>1. Top.at \notin {"lost", "join"} /\ UNCHANGED <<reserved, handleVars>>
    BY <1>6 DEF SinkClosed, Undelivered, NotAcknowledged, At
  <2>2. \E next \in {"schedule", "collect", "ready"} : ConsumerFailure(Top.job, next)
    BY <1>6 DEF SinkClosed, Undelivered, NotAcknowledged
  <2> QED
    BY <1>3, <2>1, <2>2
<1>7. CASE Collect
  <2>1. CountsKept
    BY <1>1, <1>7, CountsStay DEF Collect, handleVars
  <2>2. ~At("unconverted") /\ UNCHANGED reserved /\ (UNCHANGED jobVars \/ Join)
        /\ (Goto("lost") \/ Goto("decide"))
    BY <1>7 DEF Collect, At
  <2> QED
    BY <1>4, <2>1, <2>2
<1>8. CASE Running \/ DrainContended
  <2>1. ~At("unconverted") /\ UNCHANGED <<reserved, jobVars, jobs>> /\ Top.job \in Jobs
        /\ NoteClosed(Owner(Top.job))
        /\ \E next \in {"schedule", "ready", "onProgress"} : Goto(next)
    BY <1>2, <1>8 DEF Running, DrainContended, At, Progress
  <2>2. Owner(Top.job) \in Handles
    BY <1>1, <2>1 DEF MainTypes, Job, Owner
  <2>3. CountsKept
    BY <1>1, <2>1, <2>2, CountsStay
  <2> QED
    BY <1>4, <2>1, <2>3
<1>9. CASE AfterSettled \/ NotReady
  <2>1. ~At("unconverted") /\ UNCHANGED <<reserved, jobVars, jobs, rClosed>>
        /\ \E next \in {"schedule", "lost", "onProgress"} : Goto(next)
    BY <1>9 DEF AfterSettled, NotReady, At, Progress, handleVars
  <2>2. CountsKept
    BY <1>1, <2>1, CountsStay
  <2> QED
    BY <1>4, <2>1, <2>2
<1>10. CASE Schedule
  <2>1. ~At("unconverted") /\ UNCHANGED <<reserved, jobVars, rClosed>> /\ Top.job \in Jobs
        /\ (UNCHANGED jobs \/ jobs' = [jobs EXCEPT ![Top.job].timer = TRUE])
        /\ (Pop \/ Goto("lost"))
    BY <1>2, <1>10 DEF Schedule, At, handleVars
  <2>2. CountsKept
    BY <1>1, <2>1, CountsStay
  <2> QED
    BY <1>2, <1>4, <2>1, <2>2, BesideStreams
<1>11. CASE AlreadySettled
  <2>1. ~At("unconverted") /\ UNCHANGED <<reserved, jobVars, rClosed, jobs>> /\ Pop
    BY <1>11 DEF AlreadySettled, At, handleVars
  <2>2. CountsKept
    BY <1>1, <2>1, CountsStay
  <2> QED
    BY <1>2, <2>1, <2>2, BesideStreams
<1>12. CASE BeginShutdown
  <2>1. ~At("unconverted") /\ UNCHANGED <<reserved, rClosed>> /\ Goto("join")
        /\ (UNCHANGED jobVars \/ DiscardStream)
    BY <1>12 DEF BeginShutdown, At, TakeActive, handleVars
  <2>2. Victim \in Jobs \cup {NoJob}
    BY <1>1, <1>2, TopOK DEF Victim, MainTypes
  <2>3. UNCHANGED jobs \/ \E j \in Jobs : jobs' = [jobs EXCEPT ![j].timer = FALSE]
    BY <1>12, <2>2 DEF BeginShutdown
  <2>4. CountsKept
    BY <1>1, <2>1, <2>3, CountsStay
  <2> QED
    BY <1>4, <2>1, <2>4
<1> QED
  BY <1>5, <1>6, <1>7, <1>8, <1>9, <1>10, <1>11, <1>12

(* Nothing is in line once the engine is released.                          *)
LEMMA ReleaseStreams ==
  ASSUME BoundaryInv, StreamInv, Finish \/ Ack \/ EndShutdown
  PROVE  StreamInv'
<1>1. MainTypes /\ StackInv
  BY TypesSplit DEF BoundaryInv
<1>2. stack # <<>> /\ {"onFinal", "lost"} \subseteq Ordinary
  BY DEF Finish, Ack, EndShutdown, At, Ordinary, Places, UserPlaces
<1>3. CASE Release /\ (Pop \/ Goto("onFinal"))
  <2>1. ~At("unconverted")' /\ ~At("invalid")'
    BY <1>1, <1>2, <1>3, GoesElsewhere DEF Ordinary
  <2>2. reserved' = NoJob /\ rows' = <<>>
    BY <1>3 DEF Release, DropJob, NewControl
  <2> QED
    BY <2>1, <2>2 DEF StreamInv, BatchesAreValid
<1>4. CASE /\ Ack /\ Goto("lost")
           /\ UNCHANGED <<jobVars, reserved, handleVars, jobs>>
  <2>1. Goto("lost") /\ UNCHANGED <<jobVars, reserved, jobs, rClosed>> /\ ~At("unconverted")
    BY <1>4 DEF Ack, At, handleVars
  <2>2. CountsKept
    BY <1>1, <2>1, CountsStay
  <2> QED
    BY <1>2, <2>1, <2>2, OnwardStreams
<1>5. FinishActive(Top.job) => Release /\ (Pop \/ Goto("onFinal"))
  BY DEF FinishActive
<1>6. EndShutdown => Release /\ Pop
  BY DEF EndShutdown
<1>7. Ack => \/ FinishActive(Top.job)
             \/ Goto("lost") /\ UNCHANGED <<jobVars, reserved, handleVars, jobs>>
  BY DEF Ack
<1> QED
  BY <1>3, <1>4, <1>5, <1>6, <1>7 DEF Finish

(* What the user and the collector do to a running stream.                  *)
LEMMA HandleStreams ==
  ASSUME BoundaryInv, StreamInv, NEW h \in Handles, Close(h) \/ Finalize(h) \/ Cancel(h)
  PROVE  StreamInv'
<1>1. MainTypes
  BY TypesSplit DEF BoundaryInv
<1>2. /\ UNCHANGED <<reserved, jobs, stack>>
      /\ rClosed' = rClosed \/ rClosed' = [rClosed EXCEPT ![h] = TRUE]
  BY DEF Close, Finalize, Cancel, rVars, handleVars
<1>3. NativeClose(h) \/ UNCHANGED jobVars \/ RequestCancel
  BY DEF Close, Finalize, Cancel
<1>4. NativeClose(h) => DiscardStream \/ CancelIfPossible \/ UNCHANGED jobVars
  BY DEF NativeClose
<1>5. RowsKept
  BY <1>3, <1>4, RowsAreKept
<1>6. CountsKept
  BY <1>1, <1>2, CountsStay
<1> QED
  BY <1>2, <1>5, <1>6, StreamKept DEF Elsewhere

(* A new stream has handed nothing over; a job that does not reach the      *)
(* engine changes nothing of the one that has it.                           *)
LEMMA SubmissionStreams ==
  ASSUME BoundaryInv, StreamInv, NEW j \in Jobs, NEW h \in Handles, NEW m \in Modes,
         Submit(j, h, m) \/ SubmitFails(j, h, m) \/ SubmitInterrupted(j, h, m)
  PROVE  StreamInv'
<1>1. MainTypes /\ StackInv /\ ControlInv
  BY TypesSplit DEF BoundaryInv
<1>2. /\ ~At("unconverted") /\ ~At("invalid") /\ UNCHANGED rClosed
      /\ Fresh(j) /\ j # reserved
  <2>1. UserCode /\ Fresh(j) /\ UNCHANGED rClosed
    BY DEF Submit, SubmitFails, SubmitInterrupted
  <2>2. ~At("unconverted") /\ ~At("invalid")
    BY <2>1 DEF UserCode, At, UserPlaces
  <2>3. j # reserved
    BY <1>1, <2>1 DEF ControlInv, Fresh, Known, Jobs, NoJob
  <2> QED
    BY <2>1, <2>2, <2>3
<1>3. /\ ~At("unconverted")' /\ ~At("invalid")'
  <2>1. {"header", "lost"} \subseteq Ordinary
    BY DEF Ordinary, Places
  <2>2. UNCHANGED stack \/ Push(j, "header") \/ Push(j, "lost")
    BY DEF Submit, SubmitFails, SubmitInterrupted
  <2>3. CASE UNCHANGED stack
    BY <1>2, <2>3 DEF At, Top
  <2> QED
    BY <1>1, <2>1, <2>2, <2>3, GoesElsewhere DEF Ordinary
<1>4. CASE StartNative(j, h, m) /\ \E timer \in BOOLEAN :
             jobs' = [jobs EXCEPT ![j] = NewJob(h, m, timer)]
  <2>1. /\ reserved' = j /\ rows' = <<>> /\ drained' = 0 /\ pc' = "spawned" /\ prompt' = 1
        /\ discarded' = FALSE
    BY <1>4 DEF StartNative, Start, NewControl
  <2>2. jobs'[j].events = 0 /\ jobs'[j].prompt = 1
    BY <1>1, <1>4 DEF MainTypes, NewJob
  <2>3. Ended(<<>>, Len(<<>>)) = 0
    <3>1. Len(<<>>) = 0
      OBVIOUS
    <3> QED
      BY <3>1, EndedNat
  <2>4. Lined(1)'
    BY <2>1, <2>3 DEF Lined, Kinds
  <2>5. InLine(reserved)'
    BY <2>1, <2>2, <2>4 DEF InLine, Lined, Kinds
  <2> QED
    BY <1>3, <2>1, <2>5 DEF StreamInv, BatchesAreValid
<1>5. CASE UNCHANGED <<jobVars, reserved>> /\ \E r : jobs' = [jobs EXCEPT ![j] = r]
  <2>1. RowsKept
    BY <1>5, RowsAreKept
  <2>2. CountsKept
    BY <1>1, <1>2, <1>5 DEF CountsKept, MainTypes
  <2> QED
    BY <1>2, <1>3, <1>5, <2>1, <2>2, StreamKept DEF Elsewhere
<1>6. CASE Submit(j, h, m)
  <2>1. PICK timer \in BOOLEAN : timer = (m # "file")
    OBVIOUS
  <2> QED
    BY <1>4, <1>6, <2>1 DEF Submit
<1>7. CASE SubmitFails(j, h, m) \/ SubmitInterrupted(j, h, m)
  BY <1>4, <1>5, <1>7 DEF SubmitFails, SubmitInterrupted
<1> QED
  BY <1>6, <1>7

(* So do timers, callbacks and the unload.                                  *)
LEMMA LoopStreams ==
  ASSUME BoundaryInv, StreamInv, EventLoop \/ Unload \/ CallbackEnds
  PROVE  StreamInv'
<1>1. MainTypes /\ StackInv
  BY TypesSplit DEF BoundaryInv
<1>2. {"collect", "lost", "ready", "schedule"} \subseteq Ordinary /\ NoJob \in Jobs \cup {NoJob}
  BY DEF Ordinary, Places
<1>3. ASSUME NEW j \in Jobs, TimerFires(j) PROVE StreamInv'
  <2>1. ~At("unconverted") /\ Push(j, "collect") /\ UNCHANGED <<jobVars, reserved, rClosed>>
        /\ jobs' = [jobs EXCEPT ![j].timer = FALSE]
    BY <1>3 DEF TimerFires, UserCode, UserPlaces, At, handleVars
  <2>2. CountsKept
    BY <1>1, <2>1, CountsStay
  <2> QED
    BY <1>2, <2>1, <2>2, BesideStreams
<1>4. CASE Unload
  <2>1. ~At("unconverted") /\ Push(NoJob, "lost")
        /\ UNCHANGED <<jobVars, reserved, rClosed, jobs>>
    BY <1>4 DEF Unload, UserCode, UserPlaces, At, handleVars
  <2>2. CountsKept
    BY <1>1, <2>1, CountsStay
  <2> QED
    BY <1>2, <2>1, <2>2, BesideStreams
<1>5. CASE CallbackEnds
  <2>1. /\ stack # <<>> /\ ~At("unconverted") /\ Top.at \notin {"lost", "join"}
        /\ UNCHANGED <<reserved, rClosed>>
    BY <1>5 DEF CallbackEnds, CallbackReturns, CallbackFails, At, handleVars
  <2>2. Top.job \in Jobs
    BY <1>1, <2>1, TopOK
  <2>3. CASE \E next \in {"ready", "schedule"} : ConsumerFailure(Top.job, next)
    BY <1>2, <2>1, <2>3, FailureStreams
  <2>4. CASE /\ UNCHANGED jobVars
             /\ \/ UNCHANGED jobs
                \/ \E v : jobs' = [jobs EXCEPT ![Top.job].verdict = v, ![Top.job].timer = FALSE]
             /\ Pop \/ \E next \in {"ready", "schedule"} : Goto(next)
    <3>1. CountsKept
      BY <1>1, <2>1, <2>2, <2>4, CountsStay
    <3> QED
      BY <1>2, <2>1, <2>4, <3>1, OnwardStreams, BesideStreams
  <2> QED
    BY <1>5, <2>3, <2>4 DEF CallbackEnds, CallbackReturns, CallbackFails, Settle
<1> QED
  BY <1>3, <1>4, <1>5 DEF EventLoop

(* Every step of the boundary keeps its streams in line.                    *)
LEMMA NextStreams == BoundaryInv /\ StreamInv /\ [BoundaryNext]_vars => StreamInv'
<1> SUFFICES ASSUME BoundaryInv, StreamInv, [BoundaryNext]_vars PROVE StreamInv'
  OBVIOUS
<1>1. CASE UNCHANGED vars
  <2>1. UNCHANGED <<jobVars, reserved, rClosed, jobs, stack>>
    BY <1>1 DEF vars, mainVars, handleVars, rVars
  <2>2. RowsKept /\ CountsKept /\ Elsewhere
    BY <2>1, RowsAreKept DEF CountsKept, Elsewhere
  <2> QED
    BY <2>1, <2>2, StreamKept
<1>2. CASE Worker
  BY <1>2, WorkerStreams
<1>3. CASE Main
  BY <1>3, PollStreams, DrainStreams, ReleaseStreams DEF Main
<1>4. CASE User
  BY <1>4, HandleStreams, SubmissionStreams, LoopStreams DEF User
<1>5. CASE EventLoop \/ CallbackEnds
  BY <1>5, LoopStreams
<1>6. ASSUME NEW h \in Handles, Finalize(h) PROVE StreamInv'
  BY <1>6, HandleStreams
<1> QED
  BY <1>1, <1>2, <1>3, <1>4, <1>5, <1>6 DEF BoundaryNext

(* A batch that R converts is what it expects: the events and the prompts   *)
(* follow each other without a gap, whatever was discarded, contended,      *)
(* closed or lost before (drain_stream, stream_validate_batch).             *)
THEOREM BoundaryBatches == BoundarySpec => []BatchesAreValid
<1>1. Init => StreamInv
  BY DEF Init, JobInit, StreamInv, BatchesAreValid, At
<1>2. BoundaryInv /\ StreamInv /\ [BoundaryNext]_vars => StreamInv'
  BY NextStreams
<1>3. StreamInv => BatchesAreValid
  BY DEF StreamInv
<1> QED
  BY <1>1, <1>2, <1>3, BoundaryInvariant, PTL DEF BoundarySpec
==============================================================================
