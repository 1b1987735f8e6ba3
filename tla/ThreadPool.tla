----------------------------- MODULE ThreadPool -----------------------------
(***************************************************************************)
(* The thread pool of the vendored engine (ggml-cpu.c), which every decode  *)
(* runs on: build.rs turns OpenMP off.  Thread 0 is the caller of           *)
(* ggml_graph_compute; it hands the threads a graph, computes it with them  *)
(* node by node between barriers, and frees the pool.  relm attaches no     *)
(* pool to its contexts, so its pools are made for one graph; the branch    *)
(* that reuses one, and pause and resume, are the engine's own interface.   *)
(*                                                                         *)
(* An action is one access to shared memory, or one critical section of the *)
(* mutex; sequential consistency is assumed, as the code's fences are there *)
(* to give it.  Reads that nobody can change between are taken together.    *)
(***************************************************************************)
EXTENDS Integers, Sequences

CONSTANTS
  Size,       \* n_threads of the pool
  Nodes,      \* the kinds of the nodes of a graph
  Chunks,     \* nchunk0 * nchunk1 of a matrix product, by its size
  IdSpan,     \* graph counts that the upper bits of n_graph tell apart
  MaxGraphs,  \* bound: graphs computed
  MaxPauses   \* bound: pauses between them

Kinds == {"nop", "unit", "fused", "chunked"}

(* A fused node takes the one after it along, so it is not the last one; a  *)
(* worker misses a graph if it slept through IdSpan of them.                *)
ASSUME PoolAssumption ==
  /\ Size \in Nat \ {0}
  /\ Nodes \in Seq(Kinds)
  /\ \A i \in 1 .. Len(Nodes) : Nodes[i] = "fused" => i < Len(Nodes)
  /\ Chunks \in Nat \ {0}
  /\ IdSpan \in Nat /\ MaxGraphs \in Nat /\ MaxGraphs < IdSpan
  /\ MaxPauses \in Nat

VARIABLES
  \* struct ggml_threadpool
  mutex,      \* who holds it: a thread, or -1
  graph,      \* n_graph: the count of graphs, and the threads of this one
  entered,    \* n_barrier
  passed,     \* n_barrier_passed
  chunk,      \* current_chunk
  stop, pause,
  abort,      \* the node not to compute any more, or -1
  \* struct ggml_compute_state and the locals of each thread
  pc,         \* where it stands
  last,       \* last_graph
  due,        \* pending
  node,       \* node_n
  seen,       \* n_passed of the barrier that it is in
  mine,       \* current_chunk
  next,       \* what follows the barrier
  \* histories
  computed,   \* parts of this graph: <<node, "slice" or "chunk", number>>
  graphs, pauses

shared  == <<mutex, graph, entered, passed, chunk, stop, pause, abort>>
locals  == <<pc, last, due, node, seen, mine, next>>
history == <<computed, graphs, pauses>>
vars    == <<shared, locals, history>>

Threads == 0 .. Size - 1
Workers == Threads \ {0}
Active == 0 .. graph.threads - 1
NNodes == Len(Nodes)
Kind(i) == Nodes[i + 1]
Computing == {"head", "work", "chunk", "enter", "add", "last", "release", "spin"}

TypeOK ==
  /\ mutex \in Threads \cup {-1}
  /\ graph \in [count : 0 .. IdSpan - 1, threads : 0 .. Size]
  /\ entered \in 0 .. Size /\ passed \in Nat /\ chunk \in Nat
  /\ stop \in BOOLEAN /\ pause \in BOOLEAN
  /\ abort \in -1 .. NNodes
  /\ pc \in [Threads -> Computing \cup
               {"top", "pauseLock", "pauseWait", "poll", "lock", "wait", "start", "exited",
                "between", "kick", "kicked", "free", "freeing", "joining"}]
  /\ last \in [Threads -> [count : 0 .. IdSpan - 1, threads : 0 .. Size]]
  /\ due \in [Threads -> BOOLEAN]
  /\ node \in [Threads -> 0 .. NNodes]
  /\ seen \in [Threads -> Nat]
  /\ mine \in [Threads -> Nat]
  /\ next \in [Threads -> {"head", "chunk", "exit"}]
  /\ graphs \in 0 .. MaxGraphs /\ pauses \in 0 .. MaxPauses

None == [count |-> 0, threads |-> 0]

(* ggml_threadpool_new_impl.                                                *)
Init ==
  /\ mutex = -1 /\ graph = None /\ entered = 0 /\ passed = 0 /\ chunk = 0
  /\ stop = FALSE /\ pause = FALSE /\ abort = -1
  /\ pc = [t \in Threads |-> IF t = 0 THEN "between" ELSE "top"]
  /\ last = [t \in Threads |-> None]
  /\ due = [t \in Threads |-> FALSE]
  /\ node = [t \in Threads |-> 0]
  /\ seen = [t \in Threads |-> 0]
  /\ mine = [t \in Threads |-> 0]
  /\ next = [t \in Threads |-> "exit"]
  /\ computed = {} /\ graphs = 0 /\ pauses = 0

Goto(t, place) == pc' = [pc EXCEPT ![t] = place]

(* ggml_cond_broadcast: every waiter competes for the mutex again.          *)
Broadcast(t, place) ==
  pc' = [s \in Threads |-> IF s = t THEN place
                           ELSE IF pc[s] = "wait" THEN "lock"
                           ELSE IF pc[s] = "pauseWait" THEN "pauseLock" ELSE pc[s]]

-----------------------------------------------------------------------------
(* A worker: ggml_graph_compute_secondary_thread.                           *)

\* while (pause), if (stop) break.
Top(t) ==
  /\ pc[t] = "top"
  /\ Goto(t, IF pause THEN "pauseLock" ELSE IF stop THEN "exited" ELSE "poll")
  /\ UNCHANGED <<shared, last, due, node, seen, mine, next, history>>

\* The pause is looked at again with the mutex; a wait that is over comes
\* back here to take it, and to leave it.
PauseLock(t) ==
  /\ pc[t] = "pauseLock" /\ mutex = -1
  /\ Goto(t, IF pause THEN "pauseWait" ELSE "top")
  /\ UNCHANGED <<shared, last, due, node, seen, mine, next, history>>

(* ggml_graph_compute_thread_ready: does it return true, and what is left   *)
(* in the state of the thread.                                              *)
News(t) == ~due[t] /\ ~stop /\ ~pause /\ graph # last[t]
Ready(t) == due[t] \/ stop \/ pause \/ News(t)
NowDue(t) == due[t] \/ (News(t) /\ t < graph.threads)
Look(t) ==
  /\ due' = [due EXCEPT ![t] = NowDue(t)]
  /\ last' = [last EXCEPT ![t] = IF News(t) THEN graph ELSE @]

\* ggml_graph_compute_poll_for_work: work, or some rounds without.
Poll(t) ==
  /\ pc[t] = "poll"
  /\ Look(t)
  /\ \/ NowDue(t) /\ Goto(t, "start")
     \/ ~NowDue(t) /\ Goto(t, "lock")
  /\ UNCHANGED <<shared, node, seen, mine, next, history>>

\* ggml_graph_compute_check_for_work, with the mutex.
CheckForWork(t) ==
  /\ pc[t] = "lock" /\ mutex = -1
  /\ Look(t)
  /\ Goto(t, IF ~Ready(t) THEN "wait" ELSE IF NowDue(t) THEN "start" ELSE "top")
  /\ UNCHANGED <<shared, node, seen, mine, next, history>>

-----------------------------------------------------------------------------
(* Any thread in a graph: ggml_graph_compute_thread.                        *)

Start(t) ==
  /\ pc[t] = "start"
  /\ Goto(t, "head")
  /\ due' = [due EXCEPT ![t] = FALSE]
  /\ node' = [node EXCEPT ![t] = 0]
  /\ UNCHANGED <<shared, last, seen, mine, next, history>>

(* Operators named Mutant... are not part of the system.  Each is the       *)
(* operator defined after it with one plausible defect, and shows that the  *)
(* properties notice that defect.                                          *)
Barrier(t, what) == Goto(t, "enter") /\ next' = [next EXCEPT ![t] = what]

\* The head of the loop over the nodes; the last barrier follows it.
Skip(t) ==
  /\ pc[t] = "head" /\ node[t] < NNodes /\ abort # node[t]
  /\ Kind(node[t]) = "nop"
  /\ node' = [node EXCEPT ![t] = @ + 1]
  /\ UNCHANGED <<shared, pc, last, due, seen, mine, next, history>>

Compute(t) ==
  /\ pc[t] = "head" /\ node[t] < NNodes /\ abort # node[t]
  /\ Kind(node[t]) # "nop"
  /\ Goto(t, "work")
  /\ UNCHANGED <<shared, last, due, node, seen, mine, next, history>>

(* An aborted graph is left without the last barrier.                       *)
MutantLeaveLoop(t) ==
  /\ pc[t] = "head" /\ (node[t] = NNodes \/ abort = node[t])
  /\ Goto(t, IF t = 0 THEN "between" ELSE "top")
  /\ UNCHANGED <<shared, last, due, node, seen, mine, next, history>>

LeaveLoop(t) ==
  /\ pc[t] = "head" /\ (node[t] = NNodes \/ abort = node[t])
  /\ Barrier(t, "exit")
  /\ UNCHANGED <<shared, last, due, node, seen, mine, history>>

\* The node after n; a fused one counts twice.
After(n) == IF Kind(n) = "fused" THEN n + 2 ELSE n + 1

\* The end of the body: the abort callback of thread 0, and the barrier.
EndNode(t) ==
  LET n == After(node[t]) IN
  /\ node' = [node EXCEPT ![t] = n]
  /\ IF n < NNodes THEN Barrier(t, "head") ELSE Barrier(t, "exit")
  /\ abort' \in IF t = 0 THEN {abort, n} ELSE {abort}
  /\ UNCHANGED <<last, due, seen, mine>>

Record(part) == computed' = computed \cup {part} /\ UNCHANGED <<graphs, pauses>>

\* A node that is computed in one go: each thread its slice.
FinishSlice(t) ==
  /\ pc[t] = "work" /\ Kind(node[t]) # "chunked"
  /\ EndNode(t)
  /\ Record(<<node[t], "slice", t>>)
  /\ UNCHANGED <<mutex, graph, entered, passed, chunk, stop, pause>>

(* The chunks start without waiting for the conversion.                     *)
MutantConvertNoBarrier(t) ==
  /\ pc[t] = "work" /\ Kind(node[t]) = "chunked"
  /\ Goto(t, "chunk")
  /\ chunk' = IF t = 0 THEN graph.threads ELSE chunk
  /\ mine' = [mine EXCEPT ![t] = t]
  /\ Record(<<node[t], "slice", t>>)
  /\ UNCHANGED <<mutex, graph, entered, passed, stop, pause, abort, last, due, node, seen,
                 next>>

(* The chunks that the threads start with are counted again.                *)
MutantConvertFromZero(t) ==
  /\ pc[t] = "work" /\ Kind(node[t]) = "chunked"
  /\ Barrier(t, "chunk")
  /\ chunk' = IF t = 0 THEN 0 ELSE chunk
  /\ mine' = [mine EXCEPT ![t] = t]
  /\ Record(<<node[t], "slice", t>>)
  /\ UNCHANGED <<mutex, graph, entered, passed, stop, pause, abort, last, due, node, seen>>

\* ggml_compute_forward_mul_mat: each thread converts its slice of src1 and
\* thread 0 sets the next chunk; after a barrier they take chunks.
Convert(t) ==
  /\ pc[t] = "work" /\ Kind(node[t]) = "chunked"
  /\ Barrier(t, "chunk")
  /\ chunk' = IF t = 0 THEN graph.threads ELSE chunk
  /\ mine' = [mine EXCEPT ![t] = t]
  /\ Record(<<node[t], "slice", t>>)
  /\ UNCHANGED <<mutex, graph, entered, passed, stop, pause, abort, last, due, node, seen>>

\* With fewer than four chunks for each, every thread has one.
Parts == IF Chunks < graph.threads * 4 THEN graph.threads ELSE Chunks

TakeChunk(t) ==
  /\ pc[t] = "chunk" /\ mine[t] < Parts /\ graph.threads < Parts
  /\ Record(<<node[t], "chunk", mine[t]>>)
  /\ mine' = [mine EXCEPT ![t] = chunk]
  /\ chunk' = chunk + 1
  /\ UNCHANGED <<mutex, graph, entered, passed, stop, pause, abort, pc, last, due, node,
                 seen, next>>

OnlyChunk(t) ==
  /\ pc[t] = "chunk" /\ mine[t] < Parts /\ graph.threads >= Parts
  /\ EndNode(t)
  /\ Record(<<node[t], "chunk", mine[t]>>)
  /\ UNCHANGED <<mutex, graph, entered, passed, chunk, stop, pause>>

NoChunk(t) ==
  /\ pc[t] = "chunk" /\ mine[t] >= Parts
  /\ EndNode(t)
  /\ UNCHANGED <<mutex, graph, entered, passed, chunk, stop, pause, history>>

-----------------------------------------------------------------------------
(* ggml_barrier.                                                            *)

\* After the last barrier of a graph a worker looks for work; thread 0 has
\* the result.
Leave(t) ==
  Goto(t, IF next[t] # "exit" THEN next[t] ELSE IF t = 0 THEN "between" ELSE "top")

NoBarrier(t) ==
  /\ pc[t] = "enter" /\ graph.threads = 1
  /\ Leave(t)
  /\ UNCHANGED <<shared, last, due, node, seen, mine, next, history>>

Enter(t) ==
  /\ pc[t] = "enter" /\ graph.threads # 1
  /\ Goto(t, "add")
  /\ seen' = [seen EXCEPT ![t] = passed]
  /\ UNCHANGED <<shared, last, due, node, mine, next, history>>

Add(t) ==
  /\ pc[t] = "add"
  /\ entered' = entered + 1
  /\ Goto(t, IF entered = graph.threads - 1 THEN "last" ELSE "spin")
  /\ UNCHANGED <<mutex, graph, passed, chunk, stop, pause, abort, last, due, node, seen, mine,
                 next, history>>

Reset(t) ==
  /\ pc[t] = "last"
  /\ entered' = 0
  /\ Goto(t, "release")
  /\ UNCHANGED <<mutex, graph, passed, chunk, stop, pause, abort, last, due, node, seen, mine,
                 next, history>>

Release(t) ==
  /\ pc[t] = "release"
  /\ passed' = passed + 1
  /\ Leave(t)
  /\ UNCHANGED <<mutex, graph, entered, chunk, stop, pause, abort, last, due, node, seen, mine,
                 next, history>>

\* ggml_thread_cpu_relax.
Wait(t) == pc[t] = "spin" /\ passed = seen[t] /\ UNCHANGED vars

Spin(t) ==
  /\ pc[t] = "spin" /\ passed # seen[t]
  /\ Leave(t)
  /\ UNCHANGED <<shared, last, due, node, seen, mine, next, history>>

-----------------------------------------------------------------------------
(* Thread 0: ggml_graph_compute, pause, resume and free.                    *)

\* The parameters that need resetting.
Reuse ==
  /\ pc[0] = "between" /\ graphs < MaxGraphs
  /\ Goto(0, "kick")
  /\ chunk' = 0 /\ abort' = -1
  /\ computed' = {} /\ graphs' = graphs + 1
  /\ UNCHANGED <<mutex, graph, entered, passed, stop, pause, last, due, node, seen, mine, next,
                 pauses>>

\* ggml_graph_compute_kickoff: pollers see the graph before the broadcast.
Kick ==
  /\ pc[0] = "kick" /\ mutex = -1
  /\ Goto(0, "kicked")
  /\ mutex' = 0
  /\ \E n \in 1 .. Size :
       graph' = [count |-> (graph.count + 1) % IdSpan, threads |-> n]
  /\ UNCHANGED <<entered, passed, chunk, stop, pause, abort, last, due, node, seen, mine, next,
                 history>>

(* The sleeping workers are not told of the graph.                          *)
MutantKicked ==
  /\ pc[0] = "kicked"
  /\ pause' = FALSE /\ mutex' = -1
  /\ Goto(0, "start")
  /\ UNCHANGED <<graph, entered, passed, chunk, stop, abort, last, due, node, seen, mine, next,
                 history>>

Kicked ==
  /\ pc[0] = "kicked"
  /\ pause' = FALSE /\ mutex' = -1
  /\ Broadcast(0, "start")
  /\ UNCHANGED <<graph, entered, passed, chunk, stop, abort, last, due, node, seen, mine, next,
                 history>>

Pause ==
  /\ pc[0] = "between" /\ mutex = -1 /\ ~pause /\ pauses < MaxPauses
  /\ pause' = TRUE /\ pauses' = pauses + 1
  /\ Broadcast(0, "between")
  /\ UNCHANGED <<mutex, graph, entered, passed, chunk, stop, abort, last, due, node, seen, mine,
                 next, computed, graphs>>

Resume ==
  /\ pc[0] = "between" /\ mutex = -1 /\ pause
  /\ pause' = FALSE
  /\ Broadcast(0, "between")
  /\ UNCHANGED <<mutex, graph, entered, passed, chunk, stop, abort, last, due, node, seen, mine,
                 next, history>>

Stop ==
  /\ pc[0] = "between" /\ mutex = -1
  /\ Goto(0, "freeing")
  /\ mutex' = 0 /\ stop' = TRUE
  /\ UNCHANGED <<graph, entered, passed, chunk, pause, abort, last, due, node, seen, mine, next,
                 history>>

StopAll ==
  /\ pc[0] = "freeing"
  /\ pause' = FALSE /\ mutex' = -1
  /\ Broadcast(0, "joining")
  /\ UNCHANGED <<graph, entered, passed, chunk, stop, abort, last, due, node, seen, mine, next,
                 history>>

\* ggml_thread_join of every worker; then the memory is freed.
Join ==
  /\ pc[0] = "joining" /\ \A t \in Workers : pc[t] = "exited"
  /\ Goto(0, "exited")
  /\ UNCHANGED <<shared, last, due, node, seen, mine, next, history>>

Working(t) ==
  \/ Start(t) \/ Skip(t) \/ Compute(t) \/ LeaveLoop(t) \/ FinishSlice(t) \/ Convert(t)
  \/ TakeChunk(t) \/ OnlyChunk(t) \/ NoChunk(t)
  \/ NoBarrier(t) \/ Enter(t) \/ Add(t) \/ Reset(t) \/ Release(t) \/ Wait(t)
  \/ Spin(t)

Looking(t) == Top(t) \/ PauseLock(t) \/ Poll(t) \/ CheckForWork(t)

Caller == Kick \/ Kicked \/ StopAll \/ Join
Calls == Reuse \/ Pause \/ Resume \/ Stop

Freed == pc[0] = "exited" /\ UNCHANGED vars

Next == Caller \/ Calls \/ Freed \/ \E t \in Threads : Working(t) \/ (t # 0 /\ Looking(t))

Spec == Init /\ [][Next]_vars

(* The operating system runs every thread; what calls are made is the       *)
(* caller's affair, but it frees the pool in the end.                       *)
Fairness ==
  /\ \A t \in Threads : WF_vars(Working(t)) /\ WF_vars(t # 0 /\ Looking(t))
  /\ WF_vars(Caller) /\ SF_vars(Stop)

FairSpec == Spec /\ Fairness

-----------------------------------------------------------------------------
(***************************************************************************)
(* Properties.                                                             *)
(***************************************************************************)
Slices(n) == {<<n, "slice", t>> : t \in Active}
Whole(n) ==
  IF Kind(n) = "nop" THEN {}
  ELSE IF Kind(n) = "chunked" THEN Slices(n) \cup {<<n, "chunk", c>> : c \in 0 .. Parts - 1}
  ELSE Slices(n)

\* Node n has its turn in the loop: it is not the second of a fused pair.
Turn(n) == n = 0 \/ Kind(n - 1) # "fused"
Before(n) == UNION {Whole(i) : i \in {j \in 0 .. n - 1 : Turn(j)}}

(* A thread computes a node on complete inputs: every part of every node    *)
(* before it is done, and every slice of its own src1 before a chunk.  No   *)
(* thread slips through a barrier that another has not reached.             *)
InputsComplete ==
  \A t \in Active :
    /\ pc[t] \in {"work", "chunk"} => Before(node[t]) \subseteq computed
    /\ pc[t] = "chunk" => Slices(node[t]) \subseteq computed

(* Each chunk of a product is computed by one thread, once.                 *)
Holds(t, c) == pc[t] = "chunk" /\ mine[t] = c
ChunkOnce ==
  \A t \in Threads, c \in 0 .. Parts - 1 :
    Holds(t, c) =>
      /\ <<node[t], "chunk", c>> \notin computed
      /\ \A s \in Threads \ {t} : ~Holds(s, c)

(* "No worker threads should be accessing the parameters below at this      *)
(* stage": when thread 0 resets the pool for the next graph or frees it, a  *)
(* worker at most has still to notice that its last barrier is passed; and  *)
(* the graph is complete up to where it was aborted.                        *)
Gone(t) ==
  \/ pc[t] \notin Computing \cup {"start"}
  \/ pc[t] = "spin" /\ next[t] = "exit" /\ passed # seen[t]
ResultComplete ==
  pc[0] = "between" =>
    /\ \A t \in Workers : Gone(t)
    /\ graphs > 0 => Before(IF abort = -1 THEN NNodes ELSE abort) \subseteq computed

(* Every graph handed out is computed, and a pool that is freed loses all   *)
(* its threads: no wakeup of the hybrid polling and waiting is lost, also   *)
(* across a pause.                                                          *)
PoolProgress ==
  /\ pc[0] = "kick" ~> pc[0] = "between"
  /\ <>(pc[0] = "exited")
=============================================================================
