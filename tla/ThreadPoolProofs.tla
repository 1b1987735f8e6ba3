-------------------------- MODULE ThreadPoolProofs --------------------------
(***************************************************************************)
(* Proofs about ThreadPool, for every number of threads, every graph, every *)
(* number of chunks and any number of graphs and pauses.                    *)
(***************************************************************************)
EXTENDS ThreadPool, FiniteSetTheorems, TLAPS

(* Where a worker is when it is in no graph.                                *)
Outside == {"top", "pauseLock", "pauseWait", "poll", "lock", "wait"}

(* In a barrier: before it is passed, and after, unnoticed yet.             *)
Waiting(t) == pc[t] = "spin" /\ passed = seen[t]
Released(t) == pc[t] = "spin" /\ passed # seen[t]
Arrived(t) == pc[t] \in {"enter", "add", "last", "release"} \/ Waiting(t)

(* Who may be where; what a thread remembers of graphs is older than the    *)
(* graph, or is the graph.                                                  *)
ControlInv ==
  /\ pc[0] \in Computing \cup {"start", "exited", "between", "kick", "kicked", "freeing",
                               "joining"}
  /\ \A t \in Workers : pc[t] \in Computing \cup Outside \cup {"start", "exited"}
  /\ \A t \in Workers : pc[t] = "exited" => stop
  /\ stop => pc[0] \in {"freeing", "joining", "exited"}
  /\ \A t \in Threads : (due[t] => pc[t] = "start" /\ t # 0) /\ seen[t] <= passed
  /\ graph.count = IF pc[0] = "kick" THEN graphs - 1 ELSE graphs
  /\ \A t \in Threads :
       /\ last[t].count <= graph.count
       /\ last[t].count = graph.count => last[t] = graph

(* From node a on there is nothing to do before node b; and there there is, *)
(* or it is the end.                                                        *)
Nops(a, b) == a <= b /\ \A i \in a .. b - 1 : Kind(i) = "nop"
Body(a, b) == Nops(a, b) /\ (b < NNodes => Kind(b) # "nop")

(* All threads of a graph are between the same two barriers: at node a, in  *)
(* its loop or (`sharing`) in the chunks of its product. A thread has not   *)
(* begun with the graph,                                                    *)
Unstarted(t) ==
  \/ t = 0 /\ pc[t] \in {"kicked", "start"}
  \/ t # 0 /\ pc[t] = "start" /\ last[t] = graph
  \/ /\ t # 0 /\ last[t] # graph
     /\ pc[t] \in Outside \/ (Released(t) /\ next[t] = "exit")

(* or is on its way,                                                        *)
Sharing(t) == pc[t] = "chunk" \/ (Released(t) /\ next[t] = "chunk")
Moving(t, a, sharing) ==
  \/ ~sharing /\ pc[t] = "head" /\ Nops(a, node[t]) /\ (abort = a => node[t] = a)
  \/ ~sharing /\ Released(t) /\ next[t] = "head" /\ node[t] = a
  \/ ~sharing /\ pc[t] = "work" /\ Body(a, node[t]) /\ node[t] < NNodes /\ abort # a
  \/ sharing /\ Sharing(t) /\ node[t] = a

(* or has arrived at the next barrier.                                      *)
Onward(t, b) == node[t] = After(b) /\ next[t] = IF After(b) < NNodes THEN "head" ELSE "exit"
Converted(t, b) == node[t] = b /\ next[t] = "chunk" /\ mine[t] = t
                   /\ (t = 0 => chunk = graph.threads)
LoopOutcome(t, a) ==
  IF abort = a THEN node[t] = a /\ next[t] = "exit"
  ELSE \E b \in a .. NNodes :
         /\ Body(a, b)
         /\ IF b = NNodes THEN node[t] = b /\ next[t] = "exit"
            ELSE /\ <<b, "slice", t>> \in computed
                 /\ IF Kind(b) = "chunked" THEN Converted(t, b) ELSE Onward(t, b)
ChunkOutcome(t, a) ==
  /\ Onward(t, a)
  /\ IF graph.threads < Parts THEN chunk >= Parts ELSE <<a, "chunk", t>> \in computed
Outcome(t, a, sharing) == IF sharing THEN ChunkOutcome(t, a) ELSE LoopOutcome(t, a)

Place(t, a, sharing) ==
  \/ ~sharing /\ a = 0 /\ Unstarted(t)
  \/ /\ Moving(t, a, sharing) \/ (Arrived(t) /\ Outcome(t, a, sharing))
     /\ t # 0 => last[t] = graph

(* What has been computed before, and that a chunk is taken once.           *)
PartsInv(a, sharing) ==
  /\ sharing => a < NNodes /\ Kind(a) = "chunked" /\ Slices(a) \subseteq computed
  /\ Before(a) \subseteq computed
  /\ \A n \in 0 .. NNodes - 1, c \in 0 .. Parts - 1 :
       <<n, "chunk", c>> \in computed => n < a \/ (sharing /\ n = a)
ChunkInv(a) ==
  /\ \A t \in Active :
       Sharing(t) /\ mine[t] < Parts => <<a, "chunk", mine[t]>> \notin computed
  /\ IF graph.threads < Parts
     THEN /\ \A t \in Active : Sharing(t) => mine[t] < chunk
          /\ \A s, t \in Active : Sharing(s) /\ Sharing(t) /\ mine[s] = mine[t] => s = t
          /\ \A c \in 0 .. Parts - 1 :
               /\ <<a, "chunk", c>> \in computed => c < chunk
               /\ c < chunk => \/ <<a, "chunk", c>> \in computed
                               \/ \E t \in Active : Sharing(t) /\ mine[t] = c
     ELSE \A t \in Active : Sharing(t) => mine[t] = t

(* The graph is aborted at the node that the threads go on with.            *)
AbortInv(a, sharing) ==
  \/ abort = -1
  \/ ~sharing /\ abort = a
  \/ /\ Arrived(0) /\ next[0] # "chunk"
     /\ \E b \in a .. NNodes - 1 : Body(a, b) /\ abort = After(b)

(* The barrier: who has been counted; the last one resets and releases.     *)
Counted == {t \in Active : pc[t] = "last" \/ Waiting(t)}
BarrierInv ==
  /\ \A t \in Active :
       /\ pc[t] = "add" => seen[t] = passed
       /\ pc[t] \in {"last", "release"} => \A s \in Active \ {t} : Waiting(s)
  /\ entered = IF \E t \in Active : pc[t] = "release" THEN 0 ELSE Cardinality(Counted)

Segment(a, sharing) ==
  /\ graph.threads >= 1
  /\ PartsInv(a, sharing)
  /\ \A t \in Active : Place(t, a, sharing)
  /\ \A t \in Threads \ Active : Gone(t)
  /\ sharing => ChunkInv(a)
  /\ AbortInv(a, sharing)
  /\ BarrierInv
Running == \E a \in 0 .. NNodes, sharing \in BOOLEAN : Segment(a, sharing)

(* Between two graphs everybody has left the last barrier of the first, or  *)
(* may leave it.                                                            *)
Idle ==
  /\ pc[0] # "kicked"
  /\ \A t \in Threads : Gone(t)
  /\ \A t \in Active \ {0} : last[t] = graph
  /\ entered = 0
  /\ IF pc[0] = "kick" THEN abort = -1 /\ computed = {}
     ELSE graphs > 0 => Before(IF abort = -1 THEN NNodes ELSE abort) \subseteq computed

PoolInv == TypeOK /\ ControlInv /\ (Idle \/ Running)

-----------------------------------------------------------------------------
(* The graph.                                                               *)

\* There are so many nodes; each is of a kind, and another follows it, or
\* the end.
LEMMA NodesFacts ==
  /\ NNodes \in Nat
  /\ \A i \in 0 .. NNodes - 1 :
       /\ Kind(i) \in Kinds
       /\ After(i) \in i + 1 .. NNodes
       /\ Kind(i) = "chunked" => After(i) = i + 1
<1>1. NNodes \in Nat
  BY PoolAssumption DEF PoolAssumption, NNodes
<1>2. ASSUME NEW i \in 0 .. NNodes - 1
      PROVE  /\ Kind(i) \in Kinds
             /\ Kind(i) = "fused" => i + 2 <= NNodes
  BY <1>1, PoolAssumption DEF PoolAssumption, NNodes, Kind
<1>3. ASSUME NEW i \in 0 .. NNodes - 1
      PROVE  After(i) \in i + 1 .. NNodes /\ (Kind(i) = "chunked" => After(i) = i + 1)
  BY <1>1, <1>2 DEF After
<1> QED
  BY <1>1, <1>2, <1>3

\* Nops in a row are one node more of them, and begin anywhere.
LEMMA NopsFacts ==
  ASSUME NEW a \in 0 .. NNodes
  PROVE  /\ Nops(a, a)
         /\ \A b \in 0 .. NNodes :
              Nops(a, b) /\ b < NNodes /\ Kind(b) = "nop" => Nops(a, b + 1)
<1> QED
  BY NodesFacts DEF Nops

\* There is one node to compute next.
LEMMA BodyUnique ==
  ASSUME NEW a \in 0 .. NNodes, NEW b \in 0 .. NNodes, NEW c \in 0 .. NNodes,
         Body(a, b), Nops(a, c), b < NNodes
  PROVE  c <= b /\ (Body(a, c) => c = b)
<1>1. c <= b
  <2> SUFFICES ASSUME b < c PROVE FALSE
    BY NodesFacts
  <2>1. b \in a .. c - 1
    BY NodesFacts DEF Body, Nops
  <2> QED
    BY <2>1 DEF Body, Nops
<1>2. ASSUME Body(a, c), c < b PROVE FALSE
  <2>1. c \in a .. b - 1
    BY <1>2, NodesFacts DEF Body, Nops
  <2> QED
    BY <1>2, <2>1, NodesFacts DEF Body, Nops
<1> QED
  BY <1>1, <1>2, NodesFacts

\* A nop adds nothing to what is to be computed.
LEMMA BeforeNops ==
  ASSUME NEW a \in 0 .. NNodes, NEW b \in 0 .. NNodes, Nops(a, b)
  PROVE  Before(b) \subseteq Before(a)
<1> SUFFICES ASSUME NEW p \in Before(b) PROVE p \in Before(a)
  OBVIOUS
<1>1. PICK i \in 0 .. b - 1 : Turn(i) /\ p \in Whole(i)
  BY DEF Before
<1>2. CASE i < a
  BY <1>1, <1>2, NodesFacts DEF Before
<1>3. CASE i >= a
  <2>1. Kind(i) = "nop"
    BY <1>3, NodesFacts DEF Nops
  <2> QED
    BY <1>1, <2>1 DEF Whole
<1> QED
  BY <1>2, <1>3, NodesFacts

\* What is to be computed before the node after b: what is before b, and b.
LEMMA BeforeAfter ==
  ASSUME NEW b \in 0 .. NNodes - 1
  PROVE  Before(After(b)) \subseteq Before(b) \cup Whole(b)
<1> SUFFICES ASSUME NEW p \in Before(After(b)) PROVE p \in Before(b) \cup Whole(b)
  OBVIOUS
<1>1. PICK i \in 0 .. After(b) - 1 : Turn(i) /\ p \in Whole(i)
  BY DEF Before
<1>2. CASE i < b
  BY <1>1, <1>2, NodesFacts DEF Before
<1>3. CASE i = b
  BY <1>1, <1>3
<1>4. CASE i > b
  <2>1. i = b + 1 /\ Kind(b) = "fused"
    BY <1>4, NodesFacts DEF After
  <2> QED
    BY <1>1, <2>1 DEF Turn
<1> QED
  BY <1>2, <1>3, <1>4, NodesFacts

\* What there is to compute is a matter of the graph.
LEMMA SameGraph ==
  ASSUME graph' = graph
  PROVE  /\ Active' = Active /\ Parts' = Parts
         /\ \A n : Slices(n)' = Slices(n) /\ Whole(n)' = Whole(n)
         /\ \A n : Before(n)' = Before(n)
<1>1. Active' = Active /\ Parts' = Parts
  BY DEF Active, Parts
<1>2. ASSUME NEW n PROVE Slices(n)' = Slices(n)
  BY <1>1 DEF Slices
<1>3. ASSUME NEW n PROVE Whole(n)' = Whole(n)
  BY <1>1, <1>2 DEF Whole
<1>4. ASSUME NEW n PROVE Before(n)' = Before(n)
  BY <1>3 DEF Before
<1> QED
  BY <1>1, <1>2, <1>3, <1>4

\* The threads of a graph; every one is a thread of the pool.
LEMMA ActiveFacts ==
  ASSUME TypeOK
  PROVE  /\ Size \in Nat \ {0} /\ 0 \in Threads /\ Threads \subseteq Nat
         /\ graph.threads \in 0 .. Size
         /\ Active \subseteq Threads
         /\ Parts \in Nat /\ (Parts <= graph.threads => Parts = graph.threads)
<1>1. Size \in Nat \ {0} /\ Chunks \in Nat \ {0} /\ graph.threads \in 0 .. Size
  BY PoolAssumption DEF PoolAssumption, TypeOK
<1> QED
  BY <1>1 DEF Threads, Active, Parts

-----------------------------------------------------------------------------
(* The barrier.                                                             *)

\* Who has been counted: everybody but the thread that comes, when one is
\* missing; with it there is one more.
LEMMA CountedSize ==
  ASSUME TypeOK, NEW t \in Active, t \notin Counted
  PROVE  /\ Cardinality(Counted) \in 0 .. graph.threads - 1
         /\ Cardinality(Counted) = graph.threads - 1 => Counted = Active \ {t}
         /\ Cardinality(Counted \cup {t}) = Cardinality(Counted) + 1
<1>1. graph.threads \in Nat
  BY ActiveFacts
<1>2. IsFiniteSet(Active) /\ Cardinality(Active) = graph.threads
  <2> DEFINE n == graph.threads - 1
  <2>1. n \in Int /\ n >= 0
    BY <1>1 DEF Active
  <2> HIDE DEF n
  <2>2. IsFiniteSet(0 .. n) /\ Cardinality(0 .. n) = n + 1
    BY <2>1, FS_Interval
  <2> QED
    BY <1>1, <2>2 DEF n, Active
<1>3. IsFiniteSet(Active \ {t}) /\ Cardinality(Active \ {t}) = graph.threads - 1
  BY <1>2, FS_RemoveElement
<1>4. Counted \in SUBSET (Active \ {t})
  BY DEF Counted
<1>5. /\ IsFiniteSet(Counted) /\ Cardinality(Counted) <= graph.threads - 1
      /\ Cardinality(Counted) = graph.threads - 1 => Counted = Active \ {t}
  BY <1>3, <1>4, FS_Subset
<1>6. Cardinality(Counted) \in Nat
  BY <1>5, FS_CardinalityType
<1>7. Cardinality(Counted \cup {t}) = Cardinality(Counted) + 1
  BY <1>5, FS_AddElement
<1> QED
  BY <1>1, <1>5, <1>6, <1>7
-----------------------------------------------------------------------------
(* A step of one thread.                                                    *)

(* Nothing that the pool decides on with, and nothing of another thread.    *)
Alone(t) ==
  /\ UNCHANGED <<mutex, graph, passed, stop, pause, graphs, pauses>>
  /\ \A s \in Threads \ {t} :
       /\ pc'[s] = pc[s] /\ last'[s] = last[s] /\ due'[s] = due[s]
       /\ node'[s] = node[s] /\ seen'[s] = seen[s] /\ mine'[s] = mine[s]
       /\ next'[s] = next[s]

(* More may be computed; what the others rely on stays.                     *)
Onwards(t, a, sharing) ==
  /\ computed \subseteq computed'
  /\ abort' = a <=> abort = a
  /\ IF sharing THEN chunk <= chunk' ELSE t = 0 \/ chunk' = chunk

\* Everybody else is where it was.
LEMMA OthersStay ==
  ASSUME TypeOK, TypeOK', NEW a \in 0 .. NNodes, NEW sharing \in BOOLEAN,
         NEW t \in Threads, Alone(t), Onwards(t, a, sharing), NEW s \in Threads \ {t}
  PROVE  /\ Gone(s) => Gone(s)'
         /\ Waiting(s)' = Waiting(s) /\ Released(s)' = Released(s)
         /\ Arrived(s)' = Arrived(s) /\ Sharing(s)' = Sharing(s)
         /\ Place(s, a, sharing) => Place(s, a, sharing)'
<1>1. /\ pc'[s] = pc[s] /\ last'[s] = last[s] /\ node'[s] = node[s] /\ seen'[s] = seen[s]
      /\ mine'[s] = mine[s] /\ next'[s] = next[s] /\ graph' = graph /\ passed' = passed
  BY DEF Alone
<1>2. Gone(s) => Gone(s)'
  BY <1>1 DEF Gone
<1>3. /\ Waiting(s)' = Waiting(s) /\ Released(s)' = Released(s)
  BY <1>1, Zenon DEF Waiting, Released
<1>4. Arrived(s)' = Arrived(s) /\ Sharing(s)' = Sharing(s)
  BY <1>1, <1>3, Zenon DEF Arrived, Sharing
<1>5. Unstarted(s) => Unstarted(s)'
  BY <1>1, <1>3, Zenon DEF Unstarted
<1>6. Moving(s, a, sharing) => Moving(s, a, sharing)'
  BY <1>1, <1>3, <1>4, Zenon DEF Moving, Onwards
<1>7. \A b : Onward(s, b)' = Onward(s, b)
  BY <1>1, Zenon DEF Onward
<1>8. LoopOutcome(s, a) /\ ~sharing => LoopOutcome(s, a)'
  <2>1. ~sharing => \A b : Converted(s, b) => Converted(s, b)'
    BY <1>1, Zenon DEF Converted, Onwards
  <2> QED
    BY <1>1, <1>7, <2>1, Zenon DEF LoopOutcome, Onwards
<1>9. ChunkOutcome(s, a) /\ sharing => ChunkOutcome(s, a)'
  <2>1. Parts' = Parts /\ Parts \in Nat /\ chunk \in Nat /\ chunk' \in Nat
    BY <1>1, SameGraph, ActiveFacts DEF TypeOK
  <2>2. sharing => (chunk >= Parts => chunk' >= Parts')
    BY <2>1 DEF Onwards
  <2> QED
    BY <1>1, <1>7, <2>1, <2>2, Zenon DEF ChunkOutcome, Onwards
<1>10. Outcome(s, a, sharing) => Outcome(s, a, sharing)'
  BY <1>8, <1>9, Zenon DEF Outcome
<1>11. Place(s, a, sharing) => Place(s, a, sharing)'
  BY <1>1, <1>4, <1>5, <1>6, <1>10, Zenon DEF Place
<1> QED
  BY <1>2, <1>3, <1>4, <1>11

\* The threads stay between their two barriers if the one that moves does,
\* and what they share stays right.
LEMMA SegmentStep ==
  ASSUME TypeOK, TypeOK', NEW a \in 0 .. NNodes, NEW sharing \in BOOLEAN,
         Segment(a, sharing), NEW t \in Threads, Alone(t), Onwards(t, a, sharing),
         IF t \in Active THEN Place(t, a, sharing)' ELSE Gone(t)',
         PartsInv(a, sharing)', sharing => ChunkInv(a)', AbortInv(a, sharing)',
         BarrierInv'
  PROVE  Segment(a, sharing)'
<1>1. graph' = graph /\ Active' = Active /\ Threads' = Threads
  BY SameGraph DEF Alone, Threads
<1>2. \A s \in Active : Place(s, a, sharing)'
  <2> SUFFICES ASSUME NEW s \in Active PROVE Place(s, a, sharing)'
    OBVIOUS
  <2>1. s \in Threads /\ Place(s, a, sharing)
    BY ActiveFacts DEF Segment
  <2> QED
    BY <2>1, OthersStay
<1>3. \A s \in Threads \ Active : Gone(s)'
  BY OthersStay DEF Segment
<1> QED
  BY <1>1, <1>2, <1>3, Zenon DEF Segment

\* Nothing of the control of the pool is disturbed by a thread that works.
LEMMA ControlStep ==
  ASSUME TypeOK, TypeOK', ControlInv, NEW t \in Threads, Alone(t),
         pc[t] \notin {"exited", "kick", "between", "freeing", "joining"},
         IF t = 0 THEN pc'[t] \in Computing \cup {"start", "between"}
         ELSE pc'[t] \in Computing \cup Outside \cup {"start", "exited"},
         pc'[t] = "exited" => stop, due'[t] => pc'[t] = "start" /\ t # 0,
         seen'[t] <= passed, last'[t] \in {last[t], graph}
  PROVE  ControlInv'
<1>1. /\ graph' = graph /\ passed' = passed /\ stop' = stop /\ graphs' = graphs
      /\ Threads' = Threads /\ Workers' = Workers
  BY DEF Alone, Threads, Workers
<1>2. \A s \in Threads \ {t} : /\ pc'[s] = pc[s] /\ last'[s] = last[s]
                               /\ due'[s] = due[s] /\ seen'[s] = seen[s]
  BY DEF Alone
<1>3. 0 \in Threads /\ Workers \subseteq Threads
  BY ActiveFacts DEF Workers
<1>4. /\ pc'[0] \in Computing \cup {"start", "exited", "between", "kick", "kicked", "freeing",
                                   "joining"}
      /\ pc'[0] = "kick" <=> pc[0] = "kick"
      /\ stop' => pc'[0] \in {"freeing", "joining", "exited"}
  <2>1. CASE t = 0
    BY <1>1, <2>1 DEF ControlInv, Computing
  <2>2. CASE t # 0
    BY <1>1, <1>2, <1>3, <2>2 DEF ControlInv
  <2> QED
    BY <2>1, <2>2
<1>5. /\ \A s \in Workers : pc'[s] \in Computing \cup Outside \cup {"start", "exited"}
      /\ \A s \in Workers : pc'[s] = "exited" => stop'
  BY <1>1, <1>2, <1>3 DEF ControlInv, Workers
<1>6. \A s \in Threads : (due'[s] => pc'[s] = "start" /\ s # 0) /\ seen'[s] <= passed'
  BY <1>1, <1>2 DEF ControlInv
<1>7. graph'.count = IF pc'[0] = "kick" THEN graphs' - 1 ELSE graphs'
  BY <1>1, <1>4 DEF ControlInv
<1>8. \A s \in Threads : /\ last'[s].count <= graph'.count
                         /\ last'[s].count = graph'.count => last'[s] = graph'
  <2>1. graph.count \in Int
    BY PoolAssumption DEF TypeOK, PoolAssumption
  <2> QED
    BY <1>1, <1>2, <2>1 DEF ControlInv
<1> QED
  BY <1>1, <1>4, <1>5, <1>6, <1>7, <1>8 DEF ControlInv

\* A thread that is in no barrier, before and after, is not counted.
LEMMA BarrierFrame ==
  ASSUME TypeOK, TypeOK', BarrierInv, NEW t \in Threads, Alone(t), entered' = entered,
         t \notin Active \/ Released(t)
           \/ pc[t] \in Outside \cup {"start", "head", "work", "chunk"},
         pc'[t] \notin {"add", "last", "release", "spin"}
  PROVE  BarrierInv'
<1>1. graph' = graph /\ Active' = Active /\ passed' = passed
  BY SameGraph DEF Alone
<1>2. \A s \in Active \ {t} : /\ pc'[s] = pc[s] /\ seen'[s] = seen[s]
                              /\ Waiting(s)' = Waiting(s)
  BY <1>1, ActiveFacts DEF Alone, Waiting
<1>3. ~Waiting(t)' /\ (t \in Active => ~Waiting(t))
  BY DEF Waiting, Released, Outside
<1>4. Counted' = Counted
  BY <1>1, <1>2, <1>3 DEF Counted, Released, Outside
<1>5. \A s \in Active : /\ pc'[s] = "add" => seen'[s] = passed'
                        /\ pc'[s] \in {"last", "release"} =>
                            (\A r \in Active \ {s} : Waiting(r)')
  BY <1>1, <1>2, <1>3 DEF BarrierInv, Released, Outside
<1>6. (\E s \in Active : pc'[s] = "release") <=> (\E s \in Active : pc[s] = "release")
  BY <1>2 DEF Released, Outside
<1> QED
  BY <1>1, <1>4, <1>5, <1>6 DEF BarrierInv

\* A part of the node that the threads are at, or a slice.
LEMMA PartsStep ==
  ASSUME TypeOK, NEW a \in 0 .. NNodes, NEW sharing \in BOOLEAN, PartsInv(a, sharing),
         graph' = graph, NEW i, NEW kind, NEW j, computed' = computed \cup {<<i, kind, j>>},
         kind = "chunk" => sharing /\ i = a
  PROVE  PartsInv(a, sharing)'
<1>1. Parts' = Parts /\ Slices(a)' = Slices(a) /\ Before(a)' = Before(a)
  BY SameGraph
<1>2. ASSUME NEW n \in 0 .. NNodes - 1, NEW c \in 0 .. Parts - 1,
             <<n, "chunk", c>> \in computed'
      PROVE  n < a \/ (sharing /\ n = a)
  <2>1. <<n, "chunk", c>> = <<i, kind, j>> => sharing /\ n = a
    OBVIOUS
  <2> QED
    BY <1>2, <2>1 DEF PartsInv
<1> QED
  BY <1>1, <1>2 DEF PartsInv

\* The same, with nothing computed.
LEMMA PartsSame ==
  ASSUME NEW a \in 0 .. NNodes, NEW sharing \in BOOLEAN, PartsInv(a, sharing),
         graph' = graph, computed' = computed
  PROVE  PartsInv(a, sharing)'
<1> QED
  BY SameGraph DEF PartsInv

\* Thread 0 has not left the next barrier; it says when to abort.
LEMMA AbortFrame ==
  ASSUME TypeOK, TypeOK', NEW a \in 0 .. NNodes, NEW sharing \in BOOLEAN,
         AbortInv(a, sharing), NEW t \in Threads, Alone(t), Onwards(t, a, sharing),
         abort' = abort, t = 0 /\ Arrived(0) => Arrived(0)' /\ next'[0] = next[0]
  PROVE  AbortInv(a, sharing)'
<1>1. Arrived(0) /\ next[0] # "chunk" => Arrived(0)' /\ next'[0] # "chunk"
  <2>1. CASE t = 0
    BY <2>1
  <2>2. CASE t # 0
    BY <2>2, OthersStay, ActiveFacts DEF Alone
  <2> QED
    BY <2>1, <2>2
<1> QED
  BY <1>1, Zenon DEF AbortInv

\* Where a thread is says what it has done.
LEMMA Whereabouts ==
  ASSUME TypeOK, NEW a \in 0 .. NNodes, NEW sharing \in BOOLEAN, Segment(a, sharing),
         NEW t \in Threads
  PROVE  /\ pc[t] = "start" => ~sharing /\ a = 0
         /\ pc[t] = "head" => ~sharing /\ Nops(a, node[t]) /\ (abort = a => node[t] = a)
         /\ pc[t] = "work" => /\ ~sharing /\ Body(a, node[t]) /\ node[t] < NNodes
                              /\ abort # a
         /\ pc[t] = "chunk" => sharing /\ node[t] = a
         /\ pc[t] \in {"enter", "add", "last", "release"} => Outcome(t, a, sharing)
         /\ pc[t] \in Computing \ {"spin"} => (t # 0 => last[t] = graph)
         /\ pc[t] \in {"start"} \cup (Computing \ {"spin"}) => t \in Active
<1>1. CASE t \in Active
  <2>1. Place(t, a, sharing)
    BY <1>1 DEF Segment
  <2>2. CASE ~sharing /\ a = 0 /\ Unstarted(t)
    BY <1>1, <2>2 DEF Unstarted, Outside, Computing, Released
  <2>3. CASE Moving(t, a, sharing) /\ (t # 0 => last[t] = graph)
    BY <1>1, <2>3 DEF Moving, Computing, Released, Sharing
  <2>4. CASE Arrived(t) /\ Outcome(t, a, sharing) /\ (t # 0 => last[t] = graph)
    BY <1>1, <2>4 DEF Arrived, Waiting
  <2> QED
    BY <2>1, <2>2, <2>3, <2>4 DEF Place
<1>2. CASE t \notin Active
  BY <1>2 DEF Segment, Gone, Computing
<1> QED
  BY <1>1, <1>2

\* A state that stays keeps everything that it has.
LEMMA SameState ==
  ASSUME UNCHANGED vars
  PROVE  /\ TypeOK' = TypeOK /\ ControlInv' = ControlInv /\ Idle' = Idle
         /\ \A a, sharing : Segment(a, sharing)' = Segment(a, sharing)
<1> USE DEF vars, shared, locals, history
<1>1. /\ TypeOK' = TypeOK /\ ControlInv' = ControlInv
      /\ \A t : Gone(t)' = Gone(t)
  BY Zenon DEF TypeOK, ControlInv, Gone
<1>2. /\ Active' = Active /\ Parts' = Parts
      /\ \A n : Before(n)' = Before(n) /\ Slices(n)' = Slices(n)
  BY SameGraph
<1>3. Idle' = Idle
  BY <1>1, <1>2, Zenon DEF Idle
<1>4. \A t : /\ Waiting(t)' = Waiting(t) /\ Released(t)' = Released(t)
             /\ Arrived(t)' = Arrived(t)
  BY Zenon DEF Waiting, Released, Arrived
<1>5. \A t : Sharing(t)' = Sharing(t) /\ Unstarted(t)' = Unstarted(t)
  BY <1>4, Zenon DEF Sharing, Unstarted
<1>6. \A t, a, sharing : Moving(t, a, sharing)' = Moving(t, a, sharing)
  <2> SUFFICES ASSUME NEW t, NEW a, NEW sharing
               PROVE  Moving(t, a, sharing)' = Moving(t, a, sharing)
    OBVIOUS
  <2>1. Released(t)' = Released(t) /\ Sharing(t)' = Sharing(t)
    BY <1>4, <1>5
  <2> QED
    BY <2>1, Zenon DEF Moving
<1>7. \A t, a, sharing : Outcome(t, a, sharing)' = Outcome(t, a, sharing)
  <2>1. \A t, b : Onward(t, b)' = Onward(t, b) /\ Converted(t, b)' = Converted(t, b)
    BY Zenon DEF Onward, Converted
  <2>2. \A t, a : LoopOutcome(t, a)' = LoopOutcome(t, a)
    BY <2>1, Zenon DEF LoopOutcome
  <2>3. \A t, a : ChunkOutcome(t, a)' = ChunkOutcome(t, a)
    BY <1>2, <2>1, Zenon DEF ChunkOutcome
  <2> QED
    BY <2>2, <2>3, Zenon DEF Outcome
<1>8. /\ \A t, a, sharing : Place(t, a, sharing)' = Place(t, a, sharing)
      /\ \A a, sharing : PartsInv(a, sharing)' = PartsInv(a, sharing)
      /\ \A a, sharing : AbortInv(a, sharing)' = AbortInv(a, sharing)
  BY <1>2, <1>4, <1>5, <1>6, <1>7, ZenonT(40) DEF Place, PartsInv, AbortInv
<1>9. \A a : ChunkInv(a)' = ChunkInv(a)
  BY <1>2, <1>5, Zenon DEF ChunkInv
<1>10. BarrierInv' = BarrierInv
  BY <1>2, <1>4, Zenon DEF BarrierInv, Counted
<1> QED
  BY <1>1, <1>2, <1>3, <1>8, <1>9, <1>10, Zenon DEF Segment

-----------------------------------------------------------------------------
(* In the loop over the nodes.                                              *)

\* Beginning with the graph.
LEMMA StartStep ==
  ASSUME TypeOK, ControlInv, NEW a \in 0 .. NNodes, NEW sharing \in BOOLEAN,
         Segment(a, sharing), NEW t \in Threads, Start(t)
  PROVE  TypeOK' /\ ControlInv' /\ Segment(a, sharing)'
<1>1. TypeOK'
  BY NodesFacts DEF TypeOK, Start, Goto, Computing, shared, history
<1>2. Alone(t) /\ Onwards(t, a, sharing) /\ graph' = graph /\ computed' = computed
  BY DEF Start, Goto, shared, history, Alone, Onwards, TypeOK
<1>3. pc[t] = "start" /\ pc'[t] = "head" /\ node'[t] = 0 /\ due'[t] = FALSE
  BY DEF Start, Goto, TypeOK
<1>4. ~sharing /\ a = 0 /\ t \in Active
  BY <1>3, Whereabouts
<1>5. t # 0 => last[t] = graph
  <2>1. Place(t, a, sharing)
    BY <1>4 DEF Segment
  <2> QED
    BY <1>3, <2>1 DEF Place, Unstarted, Outside, Released
<1>6. Place(t, a, sharing)'
  BY <1>3, <1>4, <1>5, NopsFacts DEF Place, Moving, Start, shared, history
<1>7. ControlInv'
  BY <1>1, <1>2, <1>3, ControlStep DEF Start, shared, history, Computing, ControlInv
<1>8. BarrierInv'
  BY <1>1, <1>2, <1>3, BarrierFrame DEF Segment, Start, shared
<1>9. PartsInv(a, sharing)'
  BY <1>2, PartsSame DEF Segment
<1>10. AbortInv(a, sharing)'
  BY <1>1, <1>2, <1>3, AbortFrame DEF Segment, Start, shared, Arrived, Waiting
<1> QED
  BY <1>1, <1>2, <1>4, <1>6, <1>7, <1>8, <1>9, <1>10, SegmentStep

\* Going over a nop.
LEMMA SkipStep ==
  ASSUME TypeOK, ControlInv, NEW a \in 0 .. NNodes, NEW sharing \in BOOLEAN,
         Segment(a, sharing), NEW t \in Threads, Skip(t)
  PROVE  TypeOK' /\ ControlInv' /\ Segment(a, sharing)'
<1>1. TypeOK'
  BY NodesFacts DEF TypeOK, Skip, shared, history
<1>2. Alone(t) /\ Onwards(t, a, sharing) /\ graph' = graph /\ computed' = computed
  BY DEF Skip, shared, history, Alone, Onwards, TypeOK
<1>3. pc[t] = "head" /\ pc'[t] = "head" /\ node'[t] = node[t] + 1 /\ due'[t] = due[t]
  BY DEF Skip, TypeOK
<1>4. /\ ~sharing /\ Nops(a, node[t]) /\ (abort = a => node[t] = a)
      /\ t # 0 => last[t] = graph
      /\ t \in Active
  BY <1>3, Whereabouts DEF Computing
<1>5. Place(t, a, sharing)'
  <2>1. Nops(a, node'[t]) /\ abort # a
    BY <1>3, <1>4, NopsFacts DEF Skip, TypeOK
  <2> QED
    BY <1>3, <1>4, <2>1 DEF Place, Moving, Skip, shared
<1>6. ControlInv'
  BY <1>1, <1>2, <1>3, ControlStep DEF Skip, shared, Computing, ControlInv
<1>7. BarrierInv'
  BY <1>1, <1>2, <1>3, BarrierFrame DEF Segment, Skip, shared
<1>8. PartsInv(a, sharing)'
  BY <1>2, PartsSame DEF Segment
<1>9. AbortInv(a, sharing)'
  BY <1>1, <1>2, <1>3, AbortFrame DEF Segment, Skip, shared, Arrived, Waiting
<1> QED
  BY <1>1, <1>2, <1>4, <1>5, <1>6, <1>7, <1>8, <1>9, SegmentStep

\* Beginning with a node that has something to compute.
LEMMA ComputeStep ==
  ASSUME TypeOK, ControlInv, NEW a \in 0 .. NNodes, NEW sharing \in BOOLEAN,
         Segment(a, sharing), NEW t \in Threads, Compute(t)
  PROVE  TypeOK' /\ ControlInv' /\ Segment(a, sharing)'
<1>1. TypeOK'
  BY DEF TypeOK, Compute, Goto, Computing, shared, history
<1>2. Alone(t) /\ Onwards(t, a, sharing) /\ graph' = graph /\ computed' = computed
  BY DEF Compute, Goto, shared, history, Alone, Onwards, TypeOK
<1>3. pc[t] = "head" /\ pc'[t] = "work" /\ node'[t] = node[t] /\ due'[t] = due[t]
  BY DEF Compute, Goto, TypeOK
<1>4. /\ ~sharing /\ Nops(a, node[t]) /\ (abort = a => node[t] = a)
      /\ t # 0 => last[t] = graph
      /\ t \in Active
  BY <1>3, Whereabouts DEF Computing
<1>5. Place(t, a, sharing)'
  <2>1. Body(a, node[t]) /\ abort # a /\ node[t] < NNodes
    BY <1>3, <1>4, NopsFacts DEF Compute, Body
  <2> QED
    BY <1>3, <1>4, <2>1 DEF Place, Moving, Compute, shared
<1>6. ControlInv'
  BY <1>1, <1>2, <1>3, ControlStep DEF Compute, shared, Computing, ControlInv
<1>7. BarrierInv'
  BY <1>1, <1>2, <1>3, BarrierFrame DEF Segment, Compute, shared
<1>8. PartsInv(a, sharing)'
  BY <1>2, PartsSame DEF Segment
<1>9. AbortInv(a, sharing)'
  BY <1>1, <1>2, <1>3, AbortFrame DEF Segment, Compute, shared, Arrived, Waiting
<1> QED
  BY <1>1, <1>2, <1>4, <1>5, <1>6, <1>7, <1>8, <1>9, SegmentStep

\* Leaving the loop, at its end or because the graph is aborted: nobody
\* comes to the node of the abort but from where all go on.
LEMMA LeaveLoopStep ==
  ASSUME TypeOK, ControlInv, NEW a \in 0 .. NNodes, NEW sharing \in BOOLEAN,
         Segment(a, sharing), NEW t \in Threads, LeaveLoop(t)
  PROVE  TypeOK' /\ ControlInv' /\ Segment(a, sharing)'
<1>1. TypeOK'
  BY DEF TypeOK, LeaveLoop, Barrier, Goto, Computing, shared, history
<1>2. Alone(t) /\ Onwards(t, a, sharing) /\ graph' = graph /\ computed' = computed
  BY DEF LeaveLoop, Barrier, Goto, shared, history, Alone, Onwards, TypeOK
<1>3. /\ pc[t] = "head" /\ pc'[t] = "enter" /\ node'[t] = node[t] /\ due'[t] = due[t]
      /\ next'[t] = "exit"
  BY DEF LeaveLoop, Barrier, Goto, TypeOK
<1>4. /\ ~sharing /\ Nops(a, node[t]) /\ (abort = a => node[t] = a)
      /\ t # 0 => last[t] = graph
      /\ t \in Active
  BY <1>3, Whereabouts DEF Computing
<1>5. node[t] \in 0 .. NNodes
  BY DEF TypeOK
<1>6. LoopOutcome(t, a)'
  <2>1. CASE abort = a
    BY <1>3, <1>4, <2>1 DEF LoopOutcome, LeaveLoop, shared
  <2>2. CASE abort # a
    <3>1. node[t] = NNodes
      <4> SUFFICES ASSUME node[t] # NNodes PROVE FALSE
        OBVIOUS
      <4>1. abort = node[t] /\ abort # -1
        BY <1>5 DEF LeaveLoop
      <4>2. PICK b \in a .. NNodes - 1 : Body(a, b) /\ abort = After(b)
        BY <2>2, <4>1 DEF Segment, AbortInv
      <4> QED
        BY <1>4, <1>5, <4>1, <4>2, BodyUnique, NodesFacts
    <3>2. Body(a, NNodes) /\ NNodes \in a .. NNodes
      BY <1>4, <3>1, NodesFacts DEF Body
    <3>3. abort' = abort
      BY DEF LeaveLoop, shared
    <3> QED
      BY <1>3, <2>2, <3>1, <3>2, <3>3 DEF LoopOutcome
  <2> QED
    BY <2>1, <2>2
<1>7. Place(t, a, sharing)'
  BY <1>3, <1>4, <1>6 DEF Place, Outcome, Arrived, LeaveLoop, shared
<1>8. ControlInv'
  BY <1>1, <1>2, <1>3, ControlStep DEF LeaveLoop, shared, Computing, ControlInv
<1>9. BarrierInv'
  BY <1>1, <1>2, <1>3, BarrierFrame DEF Segment, LeaveLoop, shared
<1>10. PartsInv(a, sharing)'
  BY <1>2, PartsSame DEF Segment
<1>11. AbortInv(a, sharing)'
  BY <1>1, <1>2, <1>3, AbortFrame DEF Segment, LeaveLoop, shared, Arrived, Waiting
<1> QED
  BY <1>1, <1>2, <1>4, <1>7, <1>8, <1>9, <1>10, <1>11, SegmentStep

\* The end of the body of a node.
LEMMA EndNodeFacts ==
  ASSUME TypeOK, NEW t \in Threads, NEW b \in 0 .. NNodes - 1, node[t] = b,
         EndNode(t)
  PROVE  /\ pc' = [pc EXCEPT ![t] = "enter"]
         /\ node' \in [Threads -> 0 .. NNodes]
         /\ next' \in [Threads -> {"head", "chunk", "exit"}]
         /\ abort' \in -1 .. NNodes
         /\ pc'[t] = "enter" /\ Onward(t, b)' /\ next'[t] # "chunk"
         /\ \A s \in Threads \ {t} : node'[s] = node[s] /\ next'[s] = next[s]
         /\ abort' = abort \/ (t = 0 /\ abort' = After(b))
         /\ last' = last /\ due' = due /\ seen' = seen /\ mine' = mine
<1> DEFINE n == After(b)
           what == IF n < NNodes THEN "head" ELSE "exit"
<1>1. n \in 0 .. NNodes
  BY NodesFacts DEF TypeOK
<1>2. /\ node' = [node EXCEPT ![t] = n] /\ next' = [next EXCEPT ![t] = what]
      /\ pc' = [pc EXCEPT ![t] = "enter"]
      /\ abort' \in (IF t = 0 THEN {abort, n} ELSE {abort})
      /\ last' = last /\ due' = due /\ seen' = seen /\ mine' = mine
  BY Zenon DEF EndNode, Barrier, Goto
<1>3. what \in {"head", "exit"}
  OBVIOUS
<1>4. /\ node'[t] = n /\ next'[t] = what /\ pc'[t] = "enter"
  BY <1>2 DEF TypeOK
<1>5. Onward(t, b)'
  BY <1>4, Zenon DEF Onward
<1> HIDE DEF n, what
<1>6. /\ node' \in [Threads -> 0 .. NNodes]
      /\ next' \in [Threads -> {"head", "chunk", "exit"}]
      /\ abort' \in -1 .. NNodes
  BY <1>1, <1>2, <1>3 DEF TypeOK
<1>7. \A s \in Threads \ {t} : node'[s] = node[s] /\ next'[s] = next[s]
  BY <1>2 DEF TypeOK
<1> QED
  BY <1>2, <1>3, <1>4, <1>5, <1>6, <1>7 DEF n

\* Computing one's slice of a node.
LEMMA FinishSliceStep ==
  ASSUME TypeOK, ControlInv, NEW a \in 0 .. NNodes, NEW sharing \in BOOLEAN,
         Segment(a, sharing), NEW t \in Threads, FinishSlice(t)
  PROVE  TypeOK' /\ ControlInv' /\ Segment(a, sharing)'
<1>0. PICK b \in 0 .. NNodes : b = node[t]
  BY DEF TypeOK
<1>1. /\ pc[t] = "work" /\ EndNode(t) /\ Kind(b) # "chunked"
      /\ computed' = computed \cup {<<b, "slice", t>>}
  BY <1>0 DEF FinishSlice, Record
<1>2. /\ ~sharing /\ Body(a, b) /\ b < NNodes /\ abort # a
      /\ t # 0 => last[t] = graph
      /\ t \in Active
  BY <1>0, <1>1, Whereabouts DEF Computing
<1>3. b \in a .. NNodes - 1 /\ After(b) \in b + 1 .. NNodes
  BY <1>2, NodesFacts DEF Body, Nops, TypeOK
<1>4. /\ pc' = [pc EXCEPT ![t] = "enter"]
      /\ node' \in [Threads -> 0 .. NNodes]
      /\ next' \in [Threads -> {"head", "chunk", "exit"}]
      /\ abort' \in -1 .. NNodes
      /\ pc'[t] = "enter" /\ Onward(t, b)' /\ next'[t] # "chunk"
      /\ \A s \in Threads \ {t} : node'[s] = node[s] /\ next'[s] = next[s]
      /\ abort' = abort \/ (t = 0 /\ abort' = After(b))
      /\ last' = last /\ due' = due /\ seen' = seen /\ mine' = mine
  BY <1>0, <1>1, <1>3, EndNodeFacts
<1>5. UNCHANGED <<mutex, graph, entered, passed, chunk, stop, pause, graphs, pauses>>
  BY DEF FinishSlice, Record
<1>6. TypeOK'
  BY <1>4, <1>5 DEF TypeOK, Computing
<1>7. Alone(t)
  BY <1>4, <1>5 DEF Alone
<1>8. abort' # a
  BY <1>2, <1>3, <1>4
<1>9. Onwards(t, a, sharing)
  BY <1>1, <1>2, <1>5, <1>8 DEF Onwards
<1>10. Place(t, a, sharing)'
  <2>1. <<b, "slice", t>> \in computed'
    BY <1>1
  <2>2. b \in a .. NNodes /\ b # NNodes
    BY <1>3, NodesFacts
  <2>3. LoopOutcome(t, a)'
    BY <1>1, <1>2, <1>4, <1>8, <2>1, <2>2, Zenon DEF LoopOutcome
  <2>4. Arrived(t)'
    BY <1>4 DEF Arrived
  <2> QED
    BY <1>2, <1>4, <1>5, <2>3, <2>4 DEF Place, Outcome
<1>11. ControlInv'
  BY <1>1, <1>4, <1>6, <1>7, ControlStep DEF Computing, ControlInv
<1>12. BarrierInv'
  BY <1>1, <1>4, <1>5, <1>6, <1>7, BarrierFrame DEF Segment
<1>13. PartsInv(a, sharing)'
  BY <1>1, <1>5, PartsStep DEF Segment
<1>14. AbortInv(a, sharing)'
  <2>1. CASE abort' = abort
    BY <1>1, <1>6, <1>7, <1>9, <2>1, AbortFrame DEF Segment, Arrived, Waiting
  <2>2. CASE t = 0 /\ abort' = After(b)
    BY <1>2, <1>3, <1>4, <2>2 DEF AbortInv, Arrived
  <2> QED
    BY <1>4, <2>1, <2>2
<1> QED
  BY <1>2, <1>6, <1>7, <1>9, <1>10, <1>11, <1>12, <1>13, <1>14, SegmentStep

\* Converting one's slice of a product.
LEMMA ConvertStep ==
  ASSUME TypeOK, ControlInv, NEW a \in 0 .. NNodes, NEW sharing \in BOOLEAN,
         Segment(a, sharing), NEW t \in Threads, Convert(t)
  PROVE  TypeOK' /\ ControlInv' /\ Segment(a, sharing)'
<1>0. PICK b \in 0 .. NNodes : b = node[t]
  BY DEF TypeOK
<1>1. /\ pc[t] = "work" /\ Kind(b) = "chunked"
      /\ computed' = computed \cup {<<b, "slice", t>>}
      /\ chunk' = IF t = 0 THEN graph.threads ELSE chunk
  BY <1>0 DEF Convert, Record
<1>2. /\ ~sharing /\ Body(a, b) /\ b < NNodes /\ abort # a
      /\ t # 0 => last[t] = graph
      /\ t \in Active
  BY <1>0, <1>1, Whereabouts DEF Computing
<1>3. b \in a .. NNodes - 1
  BY <1>2, NodesFacts DEF Body, Nops, TypeOK
<1>4. UNCHANGED <<mutex, graph, entered, passed, stop, pause, abort, last, due, node, seen,
                  graphs, pauses>>
  BY DEF Convert, Record
<1>5. TypeOK'
  <2>1. /\ pc' = [pc EXCEPT ![t] = "enter"] /\ next' = [next EXCEPT ![t] = "chunk"]
        /\ mine' = [mine EXCEPT ![t] = t]
    BY DEF Convert, Barrier, Goto
  <2>2. mine' \in [Threads -> Nat] /\ chunk' \in Nat
    BY <1>1, <2>1, ActiveFacts DEF TypeOK
  <2> QED
    BY <1>4, <2>1, <2>2 DEF TypeOK, Computing
<1>6. Alone(t)
  BY <1>4 DEF Alone, Convert, Barrier, Goto, TypeOK
<1>7. pc'[t] = "enter" /\ node'[t] = b /\ next'[t] = "chunk" /\ mine'[t] = t
  BY <1>0, <1>4 DEF Convert, Barrier, Goto, TypeOK
<1>8. Onwards(t, a, sharing)
  BY <1>1, <1>2, <1>4 DEF Onwards
<1>9. Place(t, a, sharing)'
  <2>1. <<b, "slice", t>> \in computed'
    BY <1>1
  <2>2. b \in a .. NNodes /\ b # NNodes
    BY <1>3, NodesFacts
  <2>3. Converted(t, b)'
    BY <1>1, <1>4, <1>7 DEF Converted
  <2>4. LoopOutcome(t, a)'
    BY <1>1, <1>2, <1>4, <2>1, <2>2, <2>3, Zenon DEF LoopOutcome
  <2>5. Arrived(t)'
    BY <1>7 DEF Arrived
  <2> QED
    BY <1>2, <1>4, <2>4, <2>5 DEF Place, Outcome
<1>10. ControlInv'
  BY <1>1, <1>4, <1>5, <1>6, <1>7, ControlStep DEF Computing, ControlInv
<1>11. BarrierInv'
  BY <1>1, <1>4, <1>5, <1>6, <1>7, BarrierFrame DEF Segment
<1>12. PartsInv(a, sharing)'
  BY <1>1, <1>4, PartsStep DEF Segment
<1>13. AbortInv(a, sharing)'
  BY <1>1, <1>4, <1>5, <1>6, <1>8, AbortFrame DEF Segment, Arrived, Waiting
<1> QED
  BY <1>2, <1>5, <1>6, <1>8, <1>9, <1>10, <1>11, <1>12, <1>13, SegmentStep

-----------------------------------------------------------------------------
(* In the chunks of a product.                                              *)

\* Taking the next chunk: nobody has it yet.
LEMMA TakeChunkStep ==
  ASSUME TypeOK, ControlInv, NEW a \in 0 .. NNodes, NEW sharing \in BOOLEAN,
         Segment(a, sharing), NEW t \in Threads, TakeChunk(t)
  PROVE  TypeOK' /\ ControlInv' /\ Segment(a, sharing)'
<1>1. /\ pc[t] = "chunk" /\ mine[t] < Parts /\ graph.threads < Parts
      /\ mine' = [mine EXCEPT ![t] = chunk] /\ chunk' = chunk + 1
      /\ UNCHANGED <<mutex, graph, entered, passed, stop, pause, abort, pc, last, due, node,
                     seen, next, graphs, pauses>>
  BY DEF TakeChunk, Record
<1>2. /\ sharing /\ node[t] = a /\ t \in Active
      /\ t # 0 => last[t] = graph
  BY <1>1, Whereabouts DEF Computing
<1>3. computed' = computed \cup {<<a, "chunk", mine[t]>>}
  BY <1>2 DEF TakeChunk, Record
<1>4. TypeOK'
  BY <1>1 DEF TypeOK
<1>5. Alone(t)
  BY <1>1 DEF Alone, TypeOK
<1>6. mine'[t] = chunk /\ \A s \in Threads \ {t} : mine'[s] = mine[s]
  BY <1>1 DEF TypeOK
<1>7. Onwards(t, a, sharing)
  BY <1>1, <1>2, <1>3 DEF Onwards, TypeOK
<1>8. Place(t, a, sharing)'
  BY <1>1, <1>2 DEF Place, Moving, Sharing
<1>9. ChunkInv(a)'
  <2>1. Active' = Active /\ Parts' = Parts /\ Active \subseteq Threads /\ Parts \in Nat
    BY <1>1, SameGraph, ActiveFacts
  <2>2. \A s \in Active : Sharing(s)' = Sharing(s)
    BY <1>1, Zenon DEF Sharing, Released
  <2>3. ChunkInv(a) /\ Sharing(t)
    BY <1>1, <1>2 DEF Segment, Sharing
  <2>4. /\ mine \in [Threads -> Nat] /\ chunk \in Nat
    BY DEF TypeOK
  <2>5. ASSUME NEW c
        PROVE  <<a, "chunk", c>> \in computed' <=> <<a, "chunk", c>> \in computed \/ c = mine[t]
    BY <1>3
  <2>6. \A s \in Active \ {t} : Sharing(s) => mine[s] # mine[t]
    BY <1>1, <1>2, <2>3 DEF ChunkInv
  <2>7. mine[t] < chunk /\ \A s \in Active : Sharing(s) => mine[s] < chunk
    BY <1>1, <1>2, <2>3 DEF ChunkInv
  <2>8. \A c \in 0 .. Parts - 1 : <<a, "chunk", c>> \in computed => c < chunk
    BY <1>1, <2>3 DEF ChunkInv
  <2>9. ASSUME NEW s \in Active, Sharing(s), mine'[s] < Parts
        PROVE  <<a, "chunk", mine'[s]>> \notin computed'
    <3>1. CASE s = t
      BY <1>6, <2>1, <2>4, <2>5, <2>7, <2>8, <2>9, <3>1
    <3>2. CASE s # t
      <4>1. mine'[s] = mine[s] /\ mine[s] # mine[t]
        BY <1>6, <2>1, <2>6, <2>9, <3>2
      <4>2. <<a, "chunk", mine[s]>> \notin computed
        BY <2>3, <2>9, <4>1 DEF ChunkInv
      <4> QED
        BY <2>5, <4>1, <4>2
    <3> QED
      BY <3>1, <3>2
  <2>10. \A s \in Active : Sharing(s) => mine'[s] < chunk'
    BY <1>1, <1>6, <2>1, <2>4, <2>7
  <2>11. \A r, s \in Active : Sharing(r) /\ Sharing(s) /\ mine'[r] = mine'[s] => r = s
    <3>1. \A r, s \in Active : Sharing(r) /\ Sharing(s) /\ mine[r] = mine[s] => r = s
      BY <1>1, <2>3 DEF ChunkInv
    <3>2. \A s \in Active \ {t} : Sharing(s) => mine'[s] # mine'[t]
      BY <1>6, <2>1, <2>4, <2>7
    <3> QED
      BY <1>6, <2>1, <3>1, <3>2
  <2>12. ASSUME NEW c \in 0 .. Parts - 1
         PROVE  /\ <<a, "chunk", c>> \in computed' => c < chunk'
                /\ c < chunk' => \/ <<a, "chunk", c>> \in computed'
                                 \/ \E s \in Active : Sharing(s) /\ mine'[s] = c
    <3>1. <<a, "chunk", c>> \in computed' => c < chunk'
      BY <1>1, <2>4, <2>5, <2>7, <2>8
    <3>2. CASE c = chunk
      BY <1>2, <1>6, <2>3, <3>1, <3>2
    <3>3. CASE c < chunk
      <4>1. \/ <<a, "chunk", c>> \in computed
            \/ \E s \in Active : Sharing(s) /\ mine[s] = c
        BY <1>1, <2>3, <3>3 DEF ChunkInv
      <4> QED
        BY <1>6, <2>1, <2>5, <3>1, <4>1
    <3> QED
      BY <1>1, <2>4, <3>1, <3>2, <3>3
  <2> QED
    BY <1>1, <2>1, <2>2, <2>9, <2>10, <2>11, <2>12 DEF ChunkInv
<1>10. ControlInv'
  BY <1>1, Zenon DEF ControlInv
<1>11. BarrierInv'
  BY <1>1, <1>4, <1>5, BarrierFrame DEF Segment
<1>12. PartsInv(a, sharing)'
  BY <1>1, <1>2, <1>3, PartsStep DEF Segment
<1>13. AbortInv(a, sharing)'
  BY <1>1, <1>4, <1>5, <1>7, AbortFrame DEF Segment, Arrived, Waiting
<1> QED
  BY <1>2, <1>4, <1>5, <1>7, <1>8, <1>9, <1>10, <1>11, <1>12, <1>13, SegmentStep

\* What the others hold of the chunks is not disturbed when a thread comes to
\* the end of them, whose own chunk is computed or is none.
LEMMA ChunkFrame ==
  ASSUME TypeOK, TypeOK', NEW a \in 0 .. NNodes, ChunkInv(a), NEW t \in Active,
         Sharing(t), ~Sharing(t)', Alone(t), chunk' = chunk,
         \A c : <<a, "chunk", c>> \in computed' <=>
                  <<a, "chunk", c>> \in computed \/ (c = mine[t] /\ graph.threads >= Parts),
         graph.threads < Parts => mine[t] >= Parts
  PROVE  ChunkInv(a)'
<1>1. /\ Active' = Active /\ Parts' = Parts /\ graph' = graph /\ Active \subseteq Threads
      /\ Parts \in Nat /\ graph.threads \in Nat /\ mine \in [Threads -> Nat]
  BY SameGraph, ActiveFacts DEF Alone, TypeOK
<1>2. \A s \in Active \ {t} : Sharing(s)' = Sharing(s) /\ mine'[s] = mine[s]
  BY <1>1, Zenon DEF Alone, Sharing, Released
<1>3. \A s \in Active : Sharing(s)' => s # t /\ Sharing(s) /\ mine'[s] = mine[s]
  BY <1>2
<1>4. ASSUME NEW s \in Active, Sharing(s)', mine'[s] < Parts
      PROVE  <<a, "chunk", mine'[s]>> \notin computed'
  <2>1. <<a, "chunk", mine[s]>> \notin computed
    BY <1>3, <1>4 DEF ChunkInv
  <2>2. graph.threads >= Parts => mine[s] # mine[t]
    BY <1>1, <1>3, <1>4 DEF ChunkInv
  <2> QED
    BY <1>1, <1>3, <1>4, <2>1, <2>2
<1>5. CASE graph.threads < Parts
  <2>1. \A s \in Active : Sharing(s)' => mine'[s] < chunk'
    BY <1>3, <1>5 DEF ChunkInv
  <2>2. \A r, s \in Active : Sharing(r)' /\ Sharing(s)' /\ mine'[r] = mine'[s] => r = s
    BY <1>3, <1>5 DEF ChunkInv
  <2>3. ASSUME NEW c \in 0 .. Parts - 1
        PROVE  /\ <<a, "chunk", c>> \in computed' => c < chunk'
               /\ c < chunk' => \/ <<a, "chunk", c>> \in computed'
                                \/ \E s \in Active : Sharing(s)' /\ mine'[s] = c
    <3>1. c # mine[t]
      BY <1>1, <1>5
    <3> QED
      BY <1>1, <1>2, <1>5, <3>1 DEF ChunkInv
  <2> QED
    BY <1>1, <1>4, <1>5, <2>1, <2>2, <2>3 DEF ChunkInv
<1>6. CASE ~(graph.threads < Parts)
  BY <1>1, <1>3, <1>4, <1>6 DEF ChunkInv
<1> QED
  BY <1>5, <1>6

\* Computing the only chunk that a thread has.
LEMMA OnlyChunkStep ==
  ASSUME TypeOK, ControlInv, NEW a \in 0 .. NNodes, NEW sharing \in BOOLEAN,
         Segment(a, sharing), NEW t \in Threads, OnlyChunk(t)
  PROVE  TypeOK' /\ ControlInv' /\ Segment(a, sharing)'
<1>1. /\ pc[t] = "chunk" /\ mine[t] < Parts /\ graph.threads >= Parts /\ EndNode(t)
      /\ UNCHANGED <<mutex, graph, entered, passed, chunk, stop, pause, graphs, pauses>>
  BY DEF OnlyChunk, Record
<1>2. /\ sharing /\ node[t] = a /\ t \in Active
      /\ t # 0 => last[t] = graph
  BY <1>1, Whereabouts DEF Computing
<1>3. computed' = computed \cup {<<a, "chunk", mine[t]>>}
  BY <1>2 DEF OnlyChunk, Record
<1>4. a \in 0 .. NNodes - 1 /\ Kind(a) # "nop" /\ After(a) # a
  BY <1>2, NodesFacts DEF Segment, PartsInv
<1>5. /\ pc' = [pc EXCEPT ![t] = "enter"]
      /\ node' \in [Threads -> 0 .. NNodes]
      /\ next' \in [Threads -> {"head", "chunk", "exit"}]
      /\ abort' \in -1 .. NNodes
      /\ pc'[t] = "enter" /\ Onward(t, a)' /\ next'[t] # "chunk"
      /\ \A s \in Threads \ {t} : node'[s] = node[s] /\ next'[s] = next[s]
      /\ abort' = abort \/ (t = 0 /\ abort' = After(a))
      /\ last' = last /\ due' = due /\ seen' = seen /\ mine' = mine
  BY <1>1, <1>2, <1>4, EndNodeFacts
<1>6. TypeOK'
  BY <1>1, <1>5 DEF TypeOK, Computing
<1>7. Alone(t)
  BY <1>1, <1>5 DEF Alone
<1>8. Sharing(t) /\ ~Sharing(t)' /\ Arrived(t)' /\ ~Arrived(t)
  BY <1>1, <1>5 DEF Sharing, Released, Arrived, Waiting
<1>9. abort # a /\ abort' # a
  BY <1>2, <1>4, <1>5, <1>8, NodesFacts DEF Segment, AbortInv, Nops, Body
<1>10. Onwards(t, a, sharing)
  BY <1>1, <1>2, <1>3, <1>9 DEF Onwards, TypeOK
<1>11. mine[t] = t
  BY <1>1, <1>2, <1>8, ActiveFacts DEF Segment, ChunkInv
<1>12. Place(t, a, sharing)'
  <2>1. Parts' = Parts
    BY <1>1, SameGraph
  <2>2. ChunkOutcome(t, a)'
    BY <1>1, <1>3, <1>5, <1>11, <2>1, ActiveFacts DEF ChunkOutcome
  <2> QED
    BY <1>1, <1>2, <1>5, <1>8, <2>2 DEF Place, Outcome
<1>13. ChunkInv(a)'
  <2>1. ChunkInv(a)
    BY <1>2 DEF Segment
  <2>2. \A c : <<a, "chunk", c>> \in computed' <=>
                 <<a, "chunk", c>> \in computed \/ (c = mine[t] /\ graph.threads >= Parts)
    BY <1>1, <1>3
  <2> QED
    BY <1>1, <1>2, <1>6, <1>7, <1>8, <2>1, <2>2, ActiveFacts, ChunkFrame
<1>14. ControlInv'
  BY <1>1, <1>5, <1>6, <1>7, ControlStep DEF Computing, ControlInv
<1>15. BarrierInv'
  BY <1>1, <1>5, <1>6, <1>7, BarrierFrame DEF Segment
<1>16. PartsInv(a, sharing)'
  BY <1>1, <1>2, <1>3, PartsStep DEF Segment
<1>17. AbortInv(a, sharing)'
  <2>1. CASE abort' = abort
    BY <1>1, <1>6, <1>7, <1>8, <1>10, <2>1, AbortFrame DEF Segment
  <2>2. CASE t = 0 /\ abort' = After(a)
    <3>1. Body(a, a)
      BY <1>4, NopsFacts DEF Body
    <3> QED
      BY <1>4, <1>5, <1>8, <2>2, <3>1, NodesFacts DEF AbortInv
  <2> QED
    BY <1>5, <2>1, <2>2
<1> QED
  BY <1>2, <1>6, <1>7, <1>10, <1>12, <1>13, <1>14, <1>15, <1>16, <1>17, SegmentStep

\* Finding that the chunks are taken.
LEMMA NoChunkStep ==
  ASSUME TypeOK, ControlInv, NEW a \in 0 .. NNodes, NEW sharing \in BOOLEAN,
         Segment(a, sharing), NEW t \in Threads, NoChunk(t)
  PROVE  TypeOK' /\ ControlInv' /\ Segment(a, sharing)'
<1>1. /\ pc[t] = "chunk" /\ mine[t] >= Parts /\ EndNode(t)
      /\ UNCHANGED <<mutex, graph, entered, passed, chunk, stop, pause, computed, graphs,
                     pauses>>
  BY DEF NoChunk, history
<1>2. /\ sharing /\ node[t] = a /\ t \in Active
      /\ t # 0 => last[t] = graph
  BY <1>1, Whereabouts DEF Computing
<1>3. a \in 0 .. NNodes - 1 /\ Kind(a) # "nop" /\ After(a) # a
  BY <1>2, NodesFacts DEF Segment, PartsInv
<1>4. /\ pc' = [pc EXCEPT ![t] = "enter"]
      /\ node' \in [Threads -> 0 .. NNodes]
      /\ next' \in [Threads -> {"head", "chunk", "exit"}]
      /\ abort' \in -1 .. NNodes
      /\ pc'[t] = "enter" /\ Onward(t, a)' /\ next'[t] # "chunk"
      /\ \A s \in Threads \ {t} : node'[s] = node[s] /\ next'[s] = next[s]
      /\ abort' = abort \/ (t = 0 /\ abort' = After(a))
      /\ last' = last /\ due' = due /\ seen' = seen /\ mine' = mine
  BY <1>1, <1>2, <1>3, EndNodeFacts
<1>5. TypeOK'
  BY <1>1, <1>4 DEF TypeOK, Computing
<1>6. Alone(t)
  BY <1>1, <1>4 DEF Alone
<1>7. Sharing(t) /\ ~Sharing(t)' /\ Arrived(t)' /\ ~Arrived(t)
  BY <1>1, <1>4 DEF Sharing, Released, Arrived, Waiting
<1>8. abort # a /\ abort' # a
  BY <1>2, <1>3, <1>4, <1>7, NodesFacts DEF Segment, AbortInv, Nops, Body
<1>9. Onwards(t, a, sharing)
  BY <1>1, <1>2, <1>8 DEF Onwards, TypeOK
<1>10. graph.threads < Parts /\ mine[t] < chunk
  <2>1. graph.threads < Parts
    <3> SUFFICES ASSUME ~(graph.threads < Parts) PROVE FALSE
      OBVIOUS
    <3>1. mine[t] = t
      BY <1>2, <1>7 DEF Segment, ChunkInv
    <3> QED
      BY <1>1, <1>2, <3>1, ActiveFacts DEF Active
  <2> QED
    BY <1>2, <1>7, <2>1 DEF Segment, ChunkInv
<1>11. Place(t, a, sharing)'
  <2>1. Parts' = Parts
    BY <1>1, SameGraph
  <2>2. chunk >= Parts
    BY <1>1, <1>10, ActiveFacts DEF TypeOK
  <2>3. ChunkOutcome(t, a)'
    BY <1>1, <1>4, <1>10, <2>1, <2>2 DEF ChunkOutcome
  <2> QED
    BY <1>1, <1>2, <1>4, <1>7, <2>3 DEF Place, Outcome
<1>12. ChunkInv(a)'
  <2>1. ChunkInv(a)
    BY <1>2 DEF Segment
  <2>2. \A c : <<a, "chunk", c>> \in computed' <=>
                 <<a, "chunk", c>> \in computed \/ (c = mine[t] /\ graph.threads >= Parts)
    BY <1>1, <1>10, ActiveFacts
  <2> QED
    BY <1>1, <1>2, <1>5, <1>6, <1>7, <2>1, <2>2, ActiveFacts, ChunkFrame
<1>13. ControlInv'
  BY <1>1, <1>4, <1>5, <1>6, ControlStep DEF Computing, ControlInv
<1>14. BarrierInv'
  BY <1>1, <1>4, <1>5, <1>6, BarrierFrame DEF Segment
<1>15. PartsInv(a, sharing)'
  BY <1>1, PartsSame DEF Segment
<1>16. AbortInv(a, sharing)'
  <2>1. CASE abort' = abort
    BY <1>1, <1>5, <1>6, <1>7, <1>9, <2>1, AbortFrame DEF Segment
  <2>2. CASE t = 0 /\ abort' = After(a)
    <3>1. Body(a, a)
      BY <1>3, NopsFacts DEF Body
    <3> QED
      BY <1>3, <1>4, <1>7, <2>2, <3>1, NodesFacts DEF AbortInv
  <2> QED
    BY <1>4, <2>1, <2>2
<1> QED
  BY <1>2, <1>5, <1>6, <1>9, <1>11, <1>12, <1>13, <1>14, <1>15, <1>16, SegmentStep

-----------------------------------------------------------------------------
(* In a barrier.                                                            *)

\* The chunks are what they were when nobody takes or leaves one.
LEMMA ChunkSame ==
  ASSUME NEW a \in 0 .. NNodes, ChunkInv(a), graph' = graph, chunk' = chunk, mine' = mine,
         computed' = computed, \A s \in Active : Sharing(s)' = Sharing(s)
  PROVE  ChunkInv(a)'
<1>1. Active' = Active /\ Parts' = Parts
  BY SameGraph
<1> QED
  BY <1>1 DEF ChunkInv

\* A thread that has come to the barrier stays in it.
LEMMA ArrivedStep ==
  ASSUME TypeOK, TypeOK', NEW a \in 0 .. NNodes, NEW sharing \in BOOLEAN,
         Segment(a, sharing), NEW t \in Threads, pc[t] \in {"enter", "add", "last"},
         Arrived(t)', Alone(t), BarrierInv',
         UNCHANGED <<chunk, abort, computed, last, due, node, mine, next>>
  PROVE  Segment(a, sharing)'
<1>1. /\ t \in Active /\ Outcome(t, a, sharing)
      /\ t # 0 => last[t] = graph
  BY Whereabouts DEF Computing
<1>2. graph' = graph /\ Parts' = Parts /\ passed' = passed
  BY SameGraph DEF Alone
<1>3. Outcome(t, a, sharing)'
  <2>1. LoopOutcome(t, a)' = LoopOutcome(t, a)
    BY <1>2, Zenon DEF LoopOutcome, Onward, Converted
  <2>2. ChunkOutcome(t, a)' = ChunkOutcome(t, a)
    BY <1>2, Zenon DEF ChunkOutcome, Onward
  <2> QED
    BY <1>1, <2>1, <2>2, Zenon DEF Outcome
<1>4. Place(t, a, sharing)'
  BY <1>1, <1>2, <1>3 DEF Place
<1>5. Onwards(t, a, sharing)
  BY DEF Onwards, TypeOK
<1>7. sharing => ChunkInv(a)'
  <2>1. ASSUME NEW s \in Active PROVE Sharing(s)' = Sharing(s)
    <3>1. CASE s = t
      BY <3>1 DEF Sharing, Released, Arrived, Waiting
    <3>2. CASE s # t
      BY <1>5, <3>2, ActiveFacts, OthersStay
    <3> QED
      BY <3>1, <3>2
  <2> QED
    BY <1>2, <2>1, ChunkSame DEF Segment
<1>8. PartsInv(a, sharing)'
  BY <1>2, PartsSame DEF Segment
<1>9. AbortInv(a, sharing)'
  BY <1>5, AbortFrame DEF Segment
<1> QED
  BY <1>1, <1>4, <1>5, <1>7, <1>8, <1>9, SegmentStep

\* Looking at the count of barriers passed.
LEMMA EnterStep ==
  ASSUME TypeOK, ControlInv, NEW a \in 0 .. NNodes, NEW sharing \in BOOLEAN,
         Segment(a, sharing), NEW t \in Threads, Enter(t)
  PROVE  TypeOK' /\ ControlInv' /\ Segment(a, sharing)'
<1>1. /\ pc[t] = "enter" /\ pc'[t] = "add" /\ seen'[t] = passed
      /\ UNCHANGED <<shared, last, due, node, mine, next, history>>
  BY DEF Enter, Goto, TypeOK
<1>2. TypeOK'
  BY DEF Enter, Goto, TypeOK, Computing, shared, history
<1>3. Alone(t)
  BY DEF Alone, Enter, Goto, TypeOK, shared, history
<1>4. ControlInv'
  BY <1>1, <1>2, <1>3, ControlStep, SMTT(30) DEF Computing, ControlInv, TypeOK, shared
<1>5. BarrierInv'
  <2>1. graph' = graph /\ Active' = Active /\ passed' = passed /\ entered' = entered
    BY <1>1, SameGraph DEF shared
  <2>2. \A s \in Active \ {t} : /\ pc'[s] = pc[s] /\ seen'[s] = seen[s]
                                /\ Waiting(s)' = Waiting(s)
    BY <2>1, <1>3, ActiveFacts DEF Alone, Waiting
  <2>3. ~Waiting(t)' /\ ~Waiting(t)
    BY <1>1 DEF Waiting
  <2>4. Counted' = Counted
    BY <1>1, <2>1, <2>2, <2>3 DEF Counted
  <2>5. \A s \in Active : /\ pc'[s] = "add" => seen'[s] = passed'
                          /\ pc'[s] \in {"last", "release"} =>
                               (\A r \in Active \ {s} : Waiting(r)')
    BY <1>1, <2>1, <2>2, <2>3 DEF BarrierInv, Segment
  <2>6. (\E s \in Active : pc'[s] = "release") <=> (\E s \in Active : pc[s] = "release")
    BY <1>1, <2>2
  <2> QED
    BY <2>1, <2>4, <2>5, <2>6 DEF BarrierInv, Segment
<1> QED
  BY <1>1, <1>2, <1>3, <1>4, <1>5, ArrivedStep DEF Arrived, shared, history

\* Being counted: with the last one all the others wait.
LEMMA AddStep ==
  ASSUME TypeOK, ControlInv, NEW a \in 0 .. NNodes, NEW sharing \in BOOLEAN,
         Segment(a, sharing), NEW t \in Threads, Add(t)
  PROVE  TypeOK' /\ ControlInv' /\ Segment(a, sharing)'
<1>1. /\ pc[t] = "add" /\ entered' = entered + 1
      /\ pc' = [pc EXCEPT ![t] = IF entered = graph.threads - 1 THEN "last" ELSE "spin"]
      /\ UNCHANGED <<mutex, graph, passed, chunk, stop, pause, abort, last, due, node, seen,
                     mine, next, computed, graphs, pauses>>
  BY Zenon DEF Add, Goto, history
<1>2. t \in Active /\ BarrierInv /\ seen[t] = passed
  BY <1>1, Whereabouts DEF Computing, Segment, BarrierInv
<1>3. ~Waiting(t) /\ t \notin Counted
  BY <1>1 DEF Waiting, Counted
<1>4. \A s \in Active : pc[s] \notin {"last", "release"}
  BY <1>1, <1>2, <1>3 DEF BarrierInv
<1>5. entered = Cardinality(Counted)
  BY <1>2, <1>4 DEF BarrierInv
<1>6. /\ entered \in 0 .. graph.threads - 1
      /\ entered = graph.threads - 1 => Counted = Active \ {t}
      /\ Cardinality(Counted \cup {t}) = entered + 1
  BY <1>2, <1>3, <1>5, CountedSize
<1>7. /\ pc'[t] = IF entered = graph.threads - 1 THEN "last" ELSE "spin"
      /\ \A s \in Threads \ {t} : pc'[s] = pc[s]
  BY <1>1 DEF TypeOK
<1>8. TypeOK'
  <2>1. entered' \in 0 .. Size
    BY <1>1, <1>6, ActiveFacts
  <2> QED
    BY <1>1, <2>1 DEF TypeOK, Computing
<1>9. Alone(t)
  BY <1>1, <1>7 DEF Alone
<1>10. Arrived(t)'
  BY <1>1, <1>2, <1>7 DEF Arrived, Waiting
<1>11. ControlInv'
  BY <1>1, <1>7, <1>8, <1>9, ControlStep DEF Computing, ControlInv
<1>12. BarrierInv'
  <2>1. graph' = graph /\ Active' = Active /\ passed' = passed /\ Active \subseteq Threads
    BY <1>1, SameGraph, ActiveFacts
  <2>2. \A s \in Active \ {t} : Waiting(s)' = Waiting(s)
    BY <1>1, <1>7, <2>1 DEF Waiting
  <2>3. Counted' = Counted \cup {t}
    BY <1>1, <1>2, <1>7, <2>1, <2>2 DEF Counted, Waiting
  <2>4. \A s \in Active : pc'[s] # "release"
    BY <1>4, <1>7, <2>1
  <2>5. \A s \in Active : pc'[s] = "add" => seen'[s] = passed'
    BY <1>1, <1>2, <1>7, <2>1 DEF BarrierInv
  <2>6. ASSUME NEW s \in Active, pc'[s] \in {"last", "release"}, NEW r \in Active \ {s}
        PROVE  Waiting(r)'
    <3>1. s = t /\ entered = graph.threads - 1
      BY <1>4, <1>7, <2>1, <2>6
    <3>2. r \in Counted
      BY <1>6, <3>1, <2>6
    <3> QED
      BY <1>4, <2>2, <2>6, <3>1, <3>2 DEF Counted
  <2> QED
    BY <1>1, <1>6, <2>1, <2>3, <2>4, <2>5, <2>6 DEF BarrierInv
<1> QED
  BY <1>1, <1>8, <1>9, <1>10, <1>11, <1>12, ArrivedStep

\* The last one sets the count back, while all the others wait.
LEMMA ResetStep ==
  ASSUME TypeOK, ControlInv, NEW a \in 0 .. NNodes, NEW sharing \in BOOLEAN,
         Segment(a, sharing), NEW t \in Threads, Reset(t)
  PROVE  TypeOK' /\ ControlInv' /\ Segment(a, sharing)'
<1>1. /\ pc[t] = "last" /\ entered' = 0
      /\ pc' = [pc EXCEPT ![t] = "release"]
      /\ UNCHANGED <<mutex, graph, passed, chunk, stop, pause, abort, last, due, node, seen,
                     mine, next, computed, graphs, pauses>>
  BY Zenon DEF Reset, Goto, history
<1>2. t \in Active /\ \A s \in Active \ {t} : Waiting(s)
  BY <1>1, Whereabouts DEF Computing, Segment, BarrierInv
<1>3. pc'[t] = "release" /\ \A s \in Threads \ {t} : pc'[s] = pc[s]
  BY <1>1 DEF TypeOK
<1>4. TypeOK'
  BY <1>1, ActiveFacts DEF TypeOK, Computing
<1>5. Alone(t)
  BY <1>1, <1>3 DEF Alone
<1>6. ControlInv'
  BY <1>1, <1>3, <1>4, <1>5, ControlStep DEF Computing, ControlInv
<1>7. BarrierInv'
  <2>1. graph' = graph /\ Active' = Active /\ passed' = passed /\ Active \subseteq Threads
    BY <1>1, SameGraph, ActiveFacts
  <2>2. \A s \in Active \ {t} : pc'[s] = "spin" /\ Waiting(s)'
    BY <1>1, <1>2, <1>3, <2>1 DEF Waiting
  <2> QED
    BY <1>1, <1>2, <1>3, <2>1, <2>2 DEF BarrierInv
<1> QED
  BY <1>1, <1>3, <1>4, <1>5, <1>6, <1>7, ArrivedStep DEF Arrived

\* Who waits for the barrier goes on waiting.
LEMMA WaitStep ==
  ASSUME TypeOK, ControlInv, NEW a \in 0 .. NNodes, NEW sharing \in BOOLEAN,
         Segment(a, sharing), NEW t \in Threads, Wait(t)
  PROVE  TypeOK' /\ ControlInv' /\ Segment(a, sharing)'
<1>1. UNCHANGED vars
  BY DEF Wait
<1> QED
  BY <1>1, SameState

\* Noticing that the barrier is passed.
LEMMA SpinStep ==
  ASSUME TypeOK, ControlInv, NEW a \in 0 .. NNodes, NEW sharing \in BOOLEAN,
         Segment(a, sharing), NEW t \in Threads, Spin(t)
  PROVE  TypeOK' /\ ControlInv' /\ Segment(a, sharing)'
<1> DEFINE place == IF next[t] # "exit" THEN next[t] ELSE IF t = 0 THEN "between" ELSE "top"
<1>1. /\ pc[t] = "spin" /\ Released(t) /\ pc' = [pc EXCEPT ![t] = place]
      /\ UNCHANGED <<shared, last, due, node, seen, mine, next, history>>
  BY Zenon DEF Spin, Leave, Goto, Released
<1>2. place \in {"head", "chunk", "between", "top"} /\ next[t] \in {"head", "chunk", "exit"}
  BY DEF TypeOK
<1>3. pc'[t] = place
  BY <1>1 DEF TypeOK
<1>4. /\ next[t] # "exit" => place = next[t]
      /\ next[t] = "exit" => place = IF t = 0 THEN "between" ELSE "top"
  OBVIOUS
<1> HIDE DEF place
<1>5. TypeOK'
  BY <1>1, <1>2 DEF TypeOK, Computing, shared, history
<1>6. Alone(t) /\ Onwards(t, a, sharing)
  BY <1>1, <1>3 DEF Alone, Onwards, TypeOK, shared, history
<1>7. ASSUME t \in Active
      PROVE  /\ next[t] = "exit" => t # 0 /\ ~sharing /\ a = 0 /\ last[t] # graph
             /\ next[t] # "exit" => /\ node[t] = a /\ (t # 0 => last[t] = graph)
                                    /\ sharing <=> next[t] = "chunk"
  <2>1. Place(t, a, sharing)
    BY <1>7 DEF Segment
  <2>2. CASE ~sharing /\ a = 0 /\ Unstarted(t)
    BY <1>1, <2>2 DEF Unstarted, Outside
  <2>3. CASE Moving(t, a, sharing) /\ (t # 0 => last[t] = graph)
    BY <1>1, <2>3 DEF Moving, Sharing
  <2>4. ~Arrived(t)
    BY <1>1 DEF Arrived, Waiting, Released
  <2> QED
    BY <2>1, <2>2, <2>3, <2>4 DEF Place
<1>8. t \notin Active => t # 0 /\ next[t] = "exit"
  BY <1>1, ActiveFacts DEF Segment, Gone, Active, Computing
<1>9. IF t \in Active THEN Place(t, a, sharing)' ELSE Gone(t)'
  <2>1. CASE t \notin Active
    BY <1>3, <1>4, <1>8, <2>1 DEF Gone, Computing
  <2>2. CASE t \in Active /\ next[t] = "exit"
    BY <1>1, <1>3, <1>4, <1>7, <2>2 DEF Place, Unstarted, Outside, shared
  <2>3. CASE t \in Active /\ next[t] = "chunk"
    BY <1>1, <1>3, <1>4, <1>7, <2>3 DEF Place, Moving, Sharing, shared
  <2>4. CASE t \in Active /\ next[t] = "head"
    BY <1>1, <1>3, <1>4, <1>7, <2>4, NopsFacts DEF Place, Moving, shared
  <2> QED
    BY <1>2, <2>1, <2>2, <2>3, <2>4
<1>10. ControlInv'
  BY <1>1, <1>2, <1>3, <1>4, <1>5, <1>6, <1>8, ControlStep
     DEF Computing, Outside, ControlInv, shared
<1>11. BarrierInv'
  BY <1>1, <1>2, <1>3, <1>5, <1>6, BarrierFrame DEF Segment, shared
<1>12. PartsInv(a, sharing)'
  BY <1>1, PartsSame DEF Segment, shared, history
<1>13. AbortInv(a, sharing)'
  BY <1>1, <1>5, <1>6, AbortFrame DEF Segment, shared, Arrived, Waiting, Released
<1>14. sharing => ChunkInv(a)'
  <2>1. ASSUME sharing, NEW s \in Active PROVE Sharing(s)' = Sharing(s)
    <3>1. CASE s = t
      BY <1>1, <1>3, <1>4, <1>7, <2>1, <3>1 DEF Sharing
    <3>2. CASE s # t
      BY <1>5, <1>6, <3>2, ActiveFacts, OthersStay
    <3> QED
      BY <3>1, <3>2
  <2> QED
    BY <1>1, <2>1, ChunkSame DEF Segment, shared, history
<1> QED
  BY <1>5, <1>6, <1>9, <1>10, <1>11, <1>12, <1>13, <1>14, SegmentStep

\* Looking for work: a thread of the graph finds it, another nothing.
LEMMA LookingStep ==
  ASSUME TypeOK, ControlInv, NEW a \in 0 .. NNodes, NEW sharing \in BOOLEAN,
         Segment(a, sharing), NEW t \in Workers, Looking(t)
  PROVE  TypeOK' /\ ControlInv' /\ Segment(a, sharing)'
<1>1. /\ pc[t] \in Outside /\ t \in Threads /\ t # 0
      /\ UNCHANGED <<shared, node, seen, mine, next, history>>
  BY DEF Looking, Top, PauseLock, Poll, CheckForWork, Outside, Workers, shared, history
<1>2. ~stop /\ ~due[t]
  <2>1. 0 \in Active
    BY ActiveFacts DEF Segment, Active
  <2>2. pc[0] \in Computing \cup {"kicked", "start"}
    BY <2>1 DEF Segment, Place, Unstarted, Moving, Sharing, Arrived, Waiting, Released, Computing
  <2> QED
    BY <1>1, <2>2 DEF ControlInv, Computing, Outside
<1>3. /\ due' \in [Threads -> BOOLEAN]
      /\ last' \in [Threads -> [count : 0 .. IdSpan - 1, threads : 0 .. Size]]
      /\ pc' \in [Threads -> {pc[s] : s \in Threads} \cup Outside \cup {"start"}]
      /\ pc'[t] \in Outside \cup {"start"}
      /\ due'[t] <=> pc'[t] = "start"
      /\ \/ last'[t] = last[t] /\ pc'[t] \in Outside
         \/ last'[t] = graph /\ last[t] # graph /\ (pc'[t] = "start" <=> t < graph.threads)
      /\ \A s \in Threads \ {t} : pc'[s] = pc[s] /\ last'[s] = last[s] /\ due'[s] = due[s]
  <2>1. CASE Top(t) \/ PauseLock(t)
    BY <1>1, <1>2, <2>1 DEF Top, PauseLock, Goto, Outside, TypeOK
  <2>2. CASE Poll(t)
    <3>1. /\ due' = [due EXCEPT ![t] = NowDue(t)]
          /\ last' = [last EXCEPT ![t] = IF News(t) THEN graph ELSE @]
          /\ pc' = [pc EXCEPT ![t] = IF NowDue(t) THEN "start" ELSE "lock"]
          /\ NowDue(t) \in BOOLEAN /\ (NowDue(t) <=> News(t) /\ t < graph.threads)
          /\ News(t) => graph # last[t]
      BY <1>2, <2>2 DEF Poll, Look, NowDue, News, Goto
    <3>2. /\ due' \in [Threads -> BOOLEAN]
          /\ last' \in [Threads -> [count : 0 .. IdSpan - 1, threads : 0 .. Size]]
          /\ pc' \in [Threads -> {pc[s] : s \in Threads} \cup Outside \cup {"start"}]
      BY <3>1 DEF Outside, TypeOK
    <3>3. /\ due'[t] = NowDue(t)
          /\ last'[t] = IF News(t) THEN graph ELSE last[t]
          /\ pc'[t] = IF NowDue(t) THEN "start" ELSE "lock"
          /\ \A s \in Threads \ {t} : pc'[s] = pc[s] /\ last'[s] = last[s] /\ due'[s] = due[s]
      BY <1>1, <3>1 DEF TypeOK
    <3> QED
      BY <3>1, <3>2, <3>3 DEF Outside
  <2>3. CASE CheckForWork(t)
    BY <1>1, <1>2, <2>3 DEF CheckForWork, Look, NowDue, Ready, News, Goto, Outside, TypeOK
  <2> QED
    BY <2>1, <2>2, <2>3 DEF Looking
<1>4. TypeOK'
  <2>1. pc' \in [Threads -> Computing \cup
               {"top", "pauseLock", "pauseWait", "poll", "lock", "wait", "start", "exited",
                "between", "kick", "kicked", "free", "freeing", "joining"}]
    BY <1>3 DEF TypeOK, Outside
  <2> QED
    BY <1>1, <1>3, <2>1 DEF TypeOK, shared, history
<1>5. Alone(t) /\ Onwards(t, a, sharing)
  BY <1>1, <1>3 DEF Alone, Onwards, TypeOK, shared, history
<1>6. t \in Active <=> t < graph.threads
  BY <1>1, ActiveFacts DEF Active, Threads
<1>7. IF t \in Active THEN Place(t, a, sharing)' ELSE Gone(t)'
  <2>1. CASE t \notin Active
    BY <1>3, <1>6, <2>1 DEF Gone, Outside, Computing
  <2>2. CASE t \in Active
    <3>1. ~sharing /\ a = 0 /\ Unstarted(t)
      BY <1>1, <2>2 DEF Segment, Place, Moving, Sharing, Arrived, Waiting, Released, Outside
    <3>2. Unstarted(t)'
      BY <1>1, <1>3, <1>6, <2>2, <3>1 DEF Unstarted, Outside, shared, Released
    <3> QED
      BY <2>2, <3>1, <3>2 DEF Place
  <2> QED
    BY <2>1, <2>2
<1>8. ControlInv'
  BY <1>1, <1>3, <1>4, <1>5, ControlStep DEF Computing, Outside, ControlInv, shared
<1>9. BarrierInv'
  BY <1>1, <1>3, <1>4, <1>5, BarrierFrame DEF Segment, shared, Outside
<1>10. PartsInv(a, sharing)'
  BY <1>1, PartsSame DEF Segment, shared, history
<1>11. AbortInv(a, sharing)'
  BY <1>1, <1>4, <1>5, AbortFrame DEF Segment, shared
<1>12. sharing => ChunkInv(a)'
  <2>1. ASSUME NEW s \in Active PROVE Sharing(s)' = Sharing(s)
    <3>1. CASE s = t
      BY <1>1, <1>3, <3>1 DEF Sharing, Released, Outside
    <3>2. CASE s # t
      BY <1>1, <1>4, <1>5, <3>2, ActiveFacts, OthersStay
    <3> QED
      BY <3>1, <3>2
  <2> QED
    BY <1>1, <2>1, ChunkSame DEF Segment, shared, history
<1> QED
  BY <1>1, <1>4, <1>5, <1>7, <1>8, <1>9, <1>10, <1>11, <1>12, SegmentStep

-----------------------------------------------------------------------------
(* Passing the barrier.                                                     *)

\* Who has arrived has done what it was to do before.
LEMMA ArrivedOutcome ==
  ASSUME TypeOK, NEW a \in 0 .. NNodes, NEW sharing \in BOOLEAN, Segment(a, sharing),
         NEW s \in Active, Arrived(s)
  PROVE  Outcome(s, a, sharing) /\ (s # 0 => last[s] = graph)
<1>1. Place(s, a, sharing)
  BY DEF Segment
<1>2. ~Unstarted(s)
  BY DEF Unstarted, Arrived, Waiting, Released, Outside
<1>3. ~Moving(s, a, sharing)
  BY DEF Moving, Sharing, Arrived, Waiting, Released
<1> QED
  BY <1>1, <1>2, <1>3 DEF Place

(* Where all go on from the barrier: to the end of the graph,               *)
Finished ==
  /\ \A s \in Active : next[s] = "exit"
  /\ Before(IF abort = -1 THEN NNodes ELSE abort) \subseteq computed

(* to the chunks of a product,                                              *)
Shared(b) ==
  /\ \A s \in Active : next[s] = "chunk" /\ node[s] = b /\ mine[s] = s
  /\ PartsInv(b, TRUE) /\ abort = -1 /\ chunk = graph.threads
  /\ \A c \in 0 .. Parts - 1 : <<b, "chunk", c>> \notin computed

(* or to the next node.                                                     *)
Headed(b) ==
  /\ \A s \in Active : next[s] = "head" /\ node[s] = b
  /\ PartsInv(b, FALSE) /\ abort \in {-1, b}

\* From the chunks all go on to the node after the product.
LEMMA ChunksAgree ==
  ASSUME TypeOK, NEW a \in 0 .. NNodes, Segment(a, TRUE),
         \A s \in Active : Arrived(s)
  PROVE  IF After(a) < NNodes THEN Headed(After(a)) ELSE Finished
<1> DEFINE b == After(a)
<1>1. /\ a \in 0 .. NNodes - 1 /\ Kind(a) = "chunked" /\ Slices(a) \subseteq computed
      /\ Before(a) \subseteq computed /\ b = a + 1 /\ b \in 0 .. NNodes
  BY NodesFacts DEF Segment, PartsInv
<1>2. \A s \in Active : ChunkOutcome(s, a)
  BY ArrivedOutcome DEF Outcome
<1>3. 0 \in Active /\ Parts \in Nat /\ graph.threads \in Nat
  BY ActiveFacts DEF Segment, Active
<1>4. ASSUME NEW c \in 0 .. Parts - 1 PROVE <<a, "chunk", c>> \in computed
  <2>1. CASE graph.threads < Parts
    <3>1. chunk >= Parts
      BY <1>2, <1>3, <2>1 DEF ChunkOutcome
    <3>2. c < chunk
      BY <1>3, <3>1 DEF TypeOK
    <3>3. \A s \in Active : ~Sharing(s)
      BY DEF Sharing, Arrived, Waiting, Released
    <3> QED
      BY <2>1, <3>2, <3>3 DEF Segment, ChunkInv
  <2>2. CASE ~(graph.threads < Parts)
    <3>1. c \in Active
      BY <1>3, <2>2 DEF Active
    <3> QED
      BY <1>2, <2>2, <3>1 DEF ChunkOutcome
  <2> QED
    BY <2>1, <2>2
<1>5. Whole(a) \subseteq computed
  BY <1>1, <1>4 DEF Whole
<1>6. Before(b) \subseteq computed
  BY <1>1, <1>5, BeforeAfter
<1>7. abort \in {-1, b}
  <2>1. CASE \E c \in a .. NNodes - 1 : Body(a, c) /\ abort = After(c)
    <3>1. PICK c \in a .. NNodes - 1 : Body(a, c) /\ abort = After(c)
      BY <2>1
    <3>2. Body(a, a)
      BY <1>1, NopsFacts DEF Body
    <3>3. c \in 0 .. NNodes /\ Nops(a, c) /\ a < NNodes
      BY <1>1, <3>1, NodesFacts DEF Body
    <3>4. c = a
      BY <3>1, <3>2, <3>3, BodyUnique
    <3> QED
      BY <3>1, <3>4
  <2> QED
    BY <2>1 DEF Segment, AbortInv
<1>8. \A s \in Active : node[s] = b /\ next[s] = IF b < NNodes THEN "head" ELSE "exit"
  BY <1>2 DEF ChunkOutcome, Onward
<1> HIDE DEF b
<1>9. CASE b < NNodes
  <2>1. PartsInv(b, FALSE)
    BY <1>1, <1>6, <1>9, NodesFacts DEF Segment, PartsInv
  <2> QED
    BY <1>7, <1>8, <1>9, <2>1 DEF Headed, b
<1>10. CASE ~(b < NNodes)
  <2>1. b = NNodes
    BY <1>1, <1>10, NodesFacts
  <2> QED
    BY <1>6, <1>7, <1>8, <1>10, <2>1 DEF Finished, b
<1> QED
  BY <1>9, <1>10 DEF b

\* From the loop all go on to the same place: there is one node to compute
\* next, and one to abort the graph at.
LEMMA LoopAgrees ==
  ASSUME TypeOK, NEW a \in 0 .. NNodes, Segment(a, FALSE),
         \A s \in Active : Arrived(s)
  PROVE  Finished \/ \E b \in 0 .. NNodes : Shared(b) \/ Headed(b)
<1>1. 0 \in Active /\ Active \subseteq Threads /\ Before(a) \subseteq computed
  BY ActiveFacts DEF Segment, Active, PartsInv
<1>2. \A s \in Active : LoopOutcome(s, a)
  BY ArrivedOutcome DEF Outcome
<1>3. CASE abort = a
  BY <1>1, <1>2, <1>3, NodesFacts DEF LoopOutcome, Finished
<1>4. CASE abort # a
  <2>1. PICK b \in a .. NNodes : Body(a, b)
    BY <1>1, <1>2, <1>4 DEF LoopOutcome
  <2>2. b \in 0 .. NNodes /\ Nops(a, b) /\ a <= b
    BY <2>1, NodesFacts DEF Body
  <2>3. ASSUME NEW s \in Active
        PROVE  IF b = NNodes THEN node[s] = b /\ next[s] = "exit"
               ELSE /\ <<b, "slice", s>> \in computed
                    /\ IF Kind(b) = "chunked" THEN Converted(s, b) ELSE Onward(s, b)
    <3>1. PICK c \in a .. NNodes :
            /\ Body(a, c)
            /\ IF c = NNodes THEN node[s] = c /\ next[s] = "exit"
               ELSE /\ <<c, "slice", s>> \in computed
                    /\ IF Kind(c) = "chunked" THEN Converted(s, c) ELSE Onward(s, c)
      BY <1>2, <1>4, Zenon DEF LoopOutcome
    <3>2. c \in 0 .. NNodes /\ Nops(a, c)
      BY <3>1, NodesFacts DEF Body
    <3>3. c = b
      <4>1. CASE b < NNodes
        BY <2>1, <2>2, <3>1, <3>2, <4>1, BodyUnique
      <4>2. CASE c < NNodes
        BY <2>1, <2>2, <3>1, <3>2, <4>2, BodyUnique
      <4> QED
        BY <2>2, <3>2, <4>1, <4>2, NodesFacts
    <3> QED
      BY <3>1, <3>3
  <2>4. Before(b) \subseteq computed
    BY <1>1, <2>2, BeforeNops
  <2>5. abort = -1 \/ (b < NNodes /\ next[0] # "chunk" /\ abort = After(b))
    <3>1. CASE Arrived(0) /\ next[0] # "chunk"
               /\ \E c \in a .. NNodes - 1 : Body(a, c) /\ abort = After(c)
      <4>1. PICK c \in a .. NNodes - 1 : Body(a, c) /\ abort = After(c)
        BY <3>1
      <4>2. b = c
        BY <2>1, <2>2, <4>1, BodyUnique, NodesFacts
      <4> QED
        BY <3>1, <4>1, <4>2, NodesFacts
    <3> QED
      BY <1>4, <3>1 DEF Segment, AbortInv
  <2>6. CASE b = NNodes
    BY <2>3, <2>4, <2>5, <2>6, NodesFacts DEF Finished
  <2>7. CASE b < NNodes /\ Kind(b) = "chunked"
    <3>1. \A s \in Active : <<b, "slice", s>> \in computed /\ Converted(s, b)
      BY <2>3, <2>7
    <3>2. Slices(b) \subseteq computed
      BY <3>1 DEF Slices
    <3>3. \A n \in 0 .. NNodes - 1, c \in 0 .. Parts - 1 :
            <<n, "chunk", c>> \in computed => n < a
      BY DEF Segment, PartsInv
    <3>4. PartsInv(b, TRUE)
      BY <2>2, <2>4, <2>7, <3>2, <3>3, NodesFacts DEF PartsInv
    <3>5. \A c \in 0 .. Parts - 1 : <<b, "chunk", c>> \notin computed
      BY <2>2, <2>7, <3>3, NodesFacts
    <3>6. /\ \A s \in Active : next[s] = "chunk" /\ node[s] = b /\ mine[s] = s
          /\ chunk = graph.threads
      BY <1>1, <3>1 DEF Converted
    <3>7. Shared(b)
      BY <1>1, <2>5, <3>4, <3>5, <3>6 DEF Shared
    <3> QED
      BY <2>2, <3>7
  <2>8. CASE b < NNodes /\ Kind(b) # "chunked"
    <3>1. \A s \in Active : <<b, "slice", s>> \in computed /\ Onward(s, b)
      BY <2>3, <2>8
    <3>2. Whole(b) \subseteq computed
      BY <2>8, <3>1 DEF Whole, Slices
    <3>3. After(b) \in b + 1 .. NNodes /\ b \in 0 .. NNodes - 1
      BY <2>2, <2>8, NodesFacts
    <3>4. Before(After(b)) \subseteq computed
      BY <2>4, <3>2, <3>3, BeforeAfter
    <3>5. CASE After(b) < NNodes
      <4>1. \A n \in 0 .. NNodes - 1, c \in 0 .. Parts - 1 :
              <<n, "chunk", c>> \in computed => n < a
        BY DEF Segment, PartsInv
      <4>2. PartsInv(After(b), FALSE)
        BY <2>2, <3>3, <3>4, <4>1, NodesFacts DEF PartsInv
      <4>3. Headed(After(b))
        BY <2>5, <3>1, <3>5, <4>2 DEF Headed, Onward
      <4> QED
        BY <3>3, <4>3, NodesFacts
    <3>6. CASE ~(After(b) < NNodes)
      <4>1. After(b) = NNodes
        BY <3>3, <3>6, NodesFacts
      <4> QED
        BY <2>5, <3>1, <3>4, <3>6, <4>1 DEF Finished, Onward
    <3> QED
      BY <3>5, <3>6
  <2> QED
    BY <2>2, <2>6, <2>7, <2>8, NodesFacts
<1> QED
  BY <1>3, <1>4

(* The barrier is passed by t, and the others may pass it; nobody is in it. *)
Passed(t) ==
  /\ pc' = [pc EXCEPT ![t] = IF next[t] # "exit" THEN next[t]
                             ELSE IF t = 0 THEN "between" ELSE "top"]
  /\ \A s \in Threads \ {t} : pc[s] = "spin" => Released(s)'
  /\ \A s \in Active \ {t} : pc[s] = "spin"
  /\ entered' = 0
  /\ UNCHANGED <<mutex, graph, chunk, stop, pause, abort, last, due, node, seen, mine, next,
                 computed, graphs, pauses>>

\* All have arrived, and go on between the next two barriers or to the end of
\* the graph.
LEMMA PassedStep ==
  ASSUME TypeOK, TypeOK', ControlInv, NEW a \in 0 .. NNodes, NEW sharing \in BOOLEAN,
         Segment(a, sharing), NEW t \in Active, Passed(t), \A s \in Active : Arrived(s)
  PROVE  Idle' \/ Running'
<1>1. /\ graph' = graph /\ Active' = Active /\ Parts' = Parts /\ Active \subseteq Threads
      /\ 0 \in Active /\ graph.threads \in Nat /\ graph.threads >= 1 /\ Threads' = Threads
      /\ \A n : Before(n)' = Before(n) /\ Slices(n)' = Slices(n)
  BY SameGraph, ActiveFacts DEF Passed, Segment, Active, Threads
<1>2. /\ pc'[t] = IF next[t] # "exit" THEN next[t] ELSE IF t = 0 THEN "between" ELSE "top"
      /\ \A s \in Threads \ {t} : pc'[s] = pc[s]
      /\ UNCHANGED <<chunk, abort, last, node, mine, next, computed, graphs>>
  BY <1>1 DEF Passed, TypeOK
<1>3. \A s \in Active \ {t} : pc'[s] = "spin" /\ Released(s)' /\ ~Waiting(s)'
  BY <1>1, <1>2 DEF Passed, Released, Waiting
<1>4. \A s \in Threads \ Active : Gone(s)'
  BY <1>1, <1>2 DEF Segment, Gone, Passed, Released
<1>5. next \in [Threads -> {"head", "chunk", "exit"}]
  BY DEF TypeOK
<1>6. \A s \in Active \ {0} : last[s] = graph
  BY ArrivedOutcome
<1>7. BarrierInv'
  <2>1. ~Waiting(t)' /\ pc'[t] \notin {"add", "last", "release"}
    BY <1>1, <1>2, <1>5 DEF Waiting
  <2>2. Counted' = {}
    BY <1>1, <1>3, <2>1 DEF Counted
  <2>3. Cardinality(Counted)' = 0
    BY <2>2, FS_EmptySet
  <2> QED
    BY <1>1, <1>3, <2>1, <2>3 DEF BarrierInv, Passed
<1>8. ASSUME Finished PROVE Idle'
  <2>1. \A s \in Active : Gone(s)'
    BY <1>1, <1>2, <1>3, <1>8 DEF Finished, Gone, Released, Computing
  <2>2. pc'[0] \in {"spin", "between"}
    BY <1>1, <1>2, <1>3, <1>8 DEF Finished
  <2>3. Before(IF abort = -1 THEN NNodes ELSE abort)' \subseteq computed'
    BY <1>1, <1>2, <1>8 DEF Finished
  <2> QED
    BY <1>1, <1>2, <1>4, <1>6, <2>1, <2>2, <2>3 DEF Idle, Passed
<1>9. ASSUME NEW b \in 0 .. NNodes, Headed(b) PROVE Segment(b, FALSE)'
  <2>1. \A s \in Active : node'[s] = b /\ next'[s] = "head" /\ (s # 0 => last'[s] = graph)
    BY <1>2, <1>6, <1>9 DEF Headed
  <2>2. ASSUME NEW s \in Active PROVE Place(s, b, FALSE)'
    <3>1. CASE s = t
      BY <1>1, <1>2, <1>9, <2>1, <3>1, NopsFacts DEF Headed, Place, Moving
    <3>2. CASE s # t
      BY <1>1, <1>3, <2>1, <3>2 DEF Place, Moving
    <3> QED
      BY <3>1, <3>2
  <2>3. PartsInv(b, FALSE)'
    BY <1>1, <1>2, <1>9 DEF PartsInv, Headed
  <2>4. AbortInv(b, FALSE)'
    BY <1>2, <1>9 DEF AbortInv, Headed
  <2> QED
    BY <1>1, <1>4, <1>7, <2>2, <2>3, <2>4 DEF Segment
<1>10. ASSUME NEW b \in 0 .. NNodes, Shared(b) PROVE Segment(b, TRUE)'
  <2>1. \A s \in Active : /\ node'[s] = b /\ next'[s] = "chunk" /\ mine'[s] = s
                          /\ s # 0 => last'[s] = graph
    BY <1>2, <1>6, <1>10 DEF Shared
  <2>2. ASSUME NEW s \in Active PROVE Sharing(s)'
    <3>1. CASE s = t
      BY <1>2, <1>10, <3>1 DEF Shared, Sharing
    <3>2. CASE s # t
      BY <1>3, <2>1, <3>2 DEF Sharing
    <3> QED
      BY <3>1, <3>2
  <2>3. \A s \in Active : Place(s, b, TRUE)'
    BY <1>1, <2>1, <2>2 DEF Place, Moving
  <2>4. PartsInv(b, TRUE)'
    BY <1>1, <1>2, <1>10 DEF PartsInv, Shared
  <2>5. AbortInv(b, TRUE)'
    BY <1>2, <1>10 DEF AbortInv, Shared
  <2>6. ChunkInv(b)'
    <3>1. /\ chunk' = graph.threads /\ Parts \in Nat
          /\ \A c \in 0 .. Parts - 1 : <<b, "chunk", c>> \notin computed'
          /\ \A s \in Active : mine'[s] = s /\ s \in Nat
      BY <1>1, <1>2, <1>10, <2>1, ActiveFacts DEF Shared
    <3>2. \A c \in 0 .. Parts - 1 : c < graph.threads => c \in Active
      BY <1>1, <3>1 DEF Active
    <3>3. \A s \in Active : s < graph.threads
      BY <1>1 DEF Active
    <3>4. \A s \in Active : mine'[s] < Parts' => <<b, "chunk", mine'[s]>> \notin computed'
      BY <1>1, <3>1
    <3> QED
      BY <1>1, <2>2, <3>1, <3>2, <3>3, <3>4 DEF ChunkInv
  <2> QED
    BY <1>1, <1>4, <1>7, <2>3, <2>4, <2>5, <2>6 DEF Segment
<1>11. Finished \/ \E b \in 0 .. NNodes : Shared(b) \/ Headed(b)
  <2>1. CASE sharing
    <3>1. Segment(a, TRUE)
      BY <2>1
    <3>2. After(a) \in 0 .. NNodes
      BY <3>1, NodesFacts DEF Segment, PartsInv
    <3> QED
      BY <3>1, <3>2, ChunksAgree
  <2>2. CASE ~sharing
    <3>1. Segment(a, FALSE)
      BY <2>2
    <3> QED
      BY <3>1, LoopAgrees
  <2> QED
    BY <2>1, <2>2
<1>12. CASE Finished
  BY <1>8, <1>12
<1>13. CASE \E b \in 0 .. NNodes : Shared(b) \/ Headed(b)
  <2>1. PICK b \in 0 .. NNodes : Shared(b) \/ Headed(b)
    BY <1>13
  <2>2. Segment(b, FALSE)' \/ Segment(b, TRUE)'
    BY <1>9, <1>10, <2>1
  <2> QED
    BY <2>2 DEF Running
<1> QED
  BY <1>11, <1>12, <1>13

\* The last one lets the others go.
LEMMA ReleaseStep ==
  ASSUME TypeOK, ControlInv, NEW a \in 0 .. NNodes, NEW sharing \in BOOLEAN,
         Segment(a, sharing), NEW t \in Threads, Release(t)
  PROVE  TypeOK' /\ ControlInv' /\ (Idle' \/ Running')
<1> DEFINE place == IF next[t] # "exit" THEN next[t] ELSE IF t = 0 THEN "between" ELSE "top"
<1>1. /\ pc[t] = "release" /\ passed' = passed + 1
      /\ pc' = [pc EXCEPT ![t] = place]
      /\ UNCHANGED <<mutex, graph, entered, chunk, stop, pause, abort, last, due, node, seen,
                     mine, next, computed, graphs, pauses>>
  BY Zenon DEF Release, Leave, Goto, history
<1>2. place \in {"head", "chunk", "between", "top"} /\ (place = "top" => t # 0)
      /\ (place = "between" => t = 0)
  BY DEF TypeOK
<1>3. t \in Active /\ \A s \in Active \ {t} : Waiting(s)
  BY <1>1, Whereabouts DEF Computing, Segment, BarrierInv
<1>4. \A s \in Active : Arrived(s)
  BY <1>1, <1>3 DEF Arrived
<1>5. pc'[t] = place /\ \A s \in Threads \ {t} : pc'[s] = pc[s]
  BY <1>1 DEF TypeOK
<1>6. \A s \in Threads : seen[s] \in Nat /\ passed \in Nat /\ seen[s] <= passed
  BY DEF TypeOK, ControlInv
<1>7. Passed(t)
  <2>1. \A s \in Threads \ {t} : pc[s] = "spin" => Released(s)'
    BY <1>1, <1>5, <1>6 DEF Released
  <2>2. \A s \in Active \ {t} : pc[s] = "spin"
    BY <1>3 DEF Waiting
  <2>3. entered' = 0
    BY <1>1, <1>3 DEF Segment, BarrierInv
  <2> QED
    BY <1>1, <2>1, <2>2, <2>3, Zenon DEF Passed
<1> HIDE DEF place
<1>8. TypeOK'
  BY <1>1, <1>2, <1>6 DEF TypeOK, Computing
<1>9. ControlInv'
  <2>1. /\ pc'[0] \in Computing \cup {"start", "exited", "between", "kick", "kicked", "freeing",
                                     "joining"}
        /\ pc'[0] = "kick" <=> pc[0] = "kick"
        /\ stop => pc'[0] \in {"freeing", "joining", "exited"}
    BY <1>1, <1>2, <1>5, ActiveFacts DEF ControlInv, Computing
  <2>2. \A s \in Workers : /\ pc'[s] \in Computing \cup Outside \cup {"start", "exited"}
                           /\ pc'[s] = "exited" => stop
    BY <1>2, <1>5 DEF ControlInv, Workers, Computing, Outside
  <2>3. \A s \in Threads : (due[s] => pc'[s] = "start" /\ s # 0) /\ seen[s] <= passed'
    BY <1>1, <1>5, <1>6 DEF ControlInv
  <2>4. graph.count = IF pc'[0] = "kick" THEN graphs - 1 ELSE graphs
    BY <2>1 DEF ControlInv
  <2> QED
    BY <1>1, <2>1, <2>2, <2>3, <2>4 DEF ControlInv
<1> QED
  BY <1>3, <1>4, <1>7, <1>8, <1>9, PassedStep

\* A graph of one thread has no barriers.
LEMMA NoBarrierStep ==
  ASSUME TypeOK, ControlInv, NEW a \in 0 .. NNodes, NEW sharing \in BOOLEAN,
         Segment(a, sharing), NEW t \in Threads, NoBarrier(t)
  PROVE  TypeOK' /\ ControlInv' /\ (Idle' \/ Running')
<1> DEFINE place == IF next[t] # "exit" THEN next[t] ELSE IF t = 0 THEN "between" ELSE "top"
<1>1. /\ pc[t] = "enter" /\ graph.threads = 1
      /\ pc' = [pc EXCEPT ![t] = place]
      /\ UNCHANGED <<shared, last, due, node, seen, mine, next, history>>
  BY Zenon DEF NoBarrier, Leave, Goto
<1>2. place \in {"head", "chunk", "between", "top"} /\ (place = "top" => t # 0)
      /\ (place = "between" => t = 0)
  BY DEF TypeOK
<1>3. t \in Active /\ Active = {t}
  <2>1. t \in Active
    BY <1>1, Whereabouts DEF Computing
  <2> QED
    BY <1>1, <2>1 DEF Active
<1>4. \A s \in Active : Arrived(s)
  BY <1>1, <1>3 DEF Arrived
<1>5. pc'[t] = place /\ \A s \in Threads \ {t} : pc'[s] = pc[s]
  BY <1>1 DEF TypeOK
<1>6. Passed(t)
  <2>1. \A s \in Threads \ {t} : pc[s] = "spin" => Released(s)'
    BY <1>1, <1>3, <1>5 DEF Released, Segment, Gone, Computing, shared
  <2>2. Counted = {}
    BY <1>1, <1>3 DEF Counted, Waiting
  <2>3. entered = 0
    BY <1>1, <1>3, <2>2, FS_EmptySet DEF Segment, BarrierInv
  <2> QED
    BY <1>1, <1>3, <2>1, <2>3, Zenon DEF Passed, shared, history
<1> HIDE DEF place
<1>7. TypeOK'
  BY <1>1, <1>2 DEF TypeOK, Computing, shared, history
<1>8. Alone(t)
  BY <1>1, <1>5 DEF Alone, shared, history
<1>9. ControlInv'
  BY <1>1, <1>2, <1>5, <1>7, <1>8, ControlStep DEF Computing, Outside, ControlInv, shared
<1> QED
  BY <1>3, <1>4, <1>6, <1>7, <1>9, PassedStep

-----------------------------------------------------------------------------
(* Between two graphs.                                                      *)

\* A worker that looks for work finds none.
LEMMA IdleLooking ==
  ASSUME TypeOK, ControlInv, Idle, NEW t \in Workers, Looking(t)
  PROVE  TypeOK' /\ ControlInv' /\ Idle'
<1>1. /\ pc[t] \in Outside /\ t \in Threads /\ t # 0
      /\ UNCHANGED <<shared, node, seen, mine, next, history>>
  BY DEF Looking, Top, PauseLock, Poll, CheckForWork, Outside, Workers, shared, history
<1>2. t < graph.threads => last[t] = graph
  <2>1. t < graph.threads => t \in Active \ {0}
    BY <1>1, ActiveFacts DEF Active, Threads
  <2> QED
    BY <2>1 DEF Idle
<1>3. ~due[t] /\ ~NowDue(t)
  <2>1. ~due[t]
    BY <1>1 DEF ControlInv, Outside
  <2> QED
    BY <1>2, <2>1 DEF NowDue, News
<1>4. /\ due' \in [Threads -> BOOLEAN]
      /\ last' \in [Threads -> [count : 0 .. IdSpan - 1, threads : 0 .. Size]]
      /\ pc' \in [Threads -> {pc[s] : s \in Threads} \cup Outside \cup {"exited"}]
      /\ pc'[t] \in Outside \cup {"exited"} /\ (pc'[t] = "exited" => stop)
      /\ due'[t] = FALSE /\ last'[t] \in {last[t], graph}
      /\ \A s \in Threads \ {t} : pc'[s] = pc[s] /\ last'[s] = last[s] /\ due'[s] = due[s]
  <2>1. CASE Top(t) \/ PauseLock(t)
    BY <1>1, <1>3, <2>1 DEF Top, PauseLock, Goto, Outside, TypeOK
  <2>2. CASE Poll(t) \/ CheckForWork(t)
    <3>1. /\ due' = [due EXCEPT ![t] = FALSE]
          /\ last' = [last EXCEPT ![t] = IF News(t) THEN graph ELSE @]
          /\ \/ pc' = [pc EXCEPT ![t] = "lock"]
             \/ pc' = [pc EXCEPT ![t] = "wait"]
             \/ pc' = [pc EXCEPT ![t] = "top"]
      BY <1>3, <2>2 DEF Poll, CheckForWork, Look, Goto
    <3>2. last' \in [Threads -> [count : 0 .. IdSpan - 1, threads : 0 .. Size]]
      BY <3>1 DEF TypeOK
    <3>3. /\ last'[t] \in {last[t], graph}
          /\ \A s \in Threads \ {t} : last'[s] = last[s]
      BY <1>1, <3>1 DEF TypeOK
    <3> QED
      BY <1>1, <3>1, <3>2, <3>3 DEF Outside, TypeOK
  <2> QED
    BY <2>1, <2>2 DEF Looking
<1>5. TypeOK'
  <2>1. pc' \in [Threads -> Computing \cup
               {"top", "pauseLock", "pauseWait", "poll", "lock", "wait", "start", "exited",
                "between", "kick", "kicked", "free", "freeing", "joining"}]
    BY <1>4 DEF TypeOK, Outside
  <2> QED
    BY <1>1, <1>4, <2>1 DEF TypeOK, shared, history
<1>6. Alone(t)
  BY <1>1, <1>4 DEF Alone, shared, history
<1>7. ControlInv'
  BY <1>1, <1>4, <1>5, <1>6, ControlStep DEF Outside, ControlInv, shared
<1>8. Idle'
  <2>1. Active' = Active /\ (\A n : Before(n)' = Before(n)) /\ graph' = graph
    BY <1>1, SameGraph DEF shared
  <2>2. \A s \in Threads : Gone(s)'
    <3> SUFFICES ASSUME NEW s \in Threads PROVE Gone(s)'
      OBVIOUS
    <3>1. CASE s = t
      BY <1>4, <3>1 DEF Gone, Outside, Computing
    <3>2. CASE s # t
      BY <1>1, <1>4, <3>2 DEF Gone, Idle, shared
    <3> QED
      BY <3>1, <3>2
  <2>3. \A s \in Active \ {0} : last'[s] = graph
    BY <1>4, ActiveFacts DEF Idle
  <2>4. pc'[0] = pc[0]
    BY <1>1, <1>4, ActiveFacts
  <2> QED
    BY <1>1, <2>1, <2>2, <2>3, <2>4 DEF Idle, shared, history
<1> QED
  BY <1>5, <1>7, <1>8

\* A thread notices that the last barrier is passed; no other works.
LEMMA IdleWorking ==
  ASSUME TypeOK, ControlInv, Idle, NEW t \in Threads, Working(t)
  PROVE  TypeOK' /\ ControlInv' /\ Idle'
<1>1. Spin(t) /\ next[t] = "exit"
  BY DEF Idle, Gone, Working, Start, Skip, Compute, LeaveLoop, FinishSlice, Convert, TakeChunk,
         OnlyChunk, NoChunk, NoBarrier, Enter, Add, Reset, Release, Wait, Spin, Computing
<1> DEFINE place == IF t = 0 THEN "between" ELSE "top"
<1>2. /\ pc[t] = "spin" /\ pc' = [pc EXCEPT ![t] = place]
      /\ UNCHANGED <<shared, last, due, node, seen, mine, next, history>>
  BY <1>1 DEF Spin, Leave, Goto
<1>3. pc'[t] = place /\ \A s \in Threads \ {t} : pc'[s] = pc[s]
  BY <1>2 DEF TypeOK
<1>4. TypeOK'
  BY <1>2 DEF TypeOK, shared, history
<1>5. Alone(t)
  BY <1>2, <1>3 DEF Alone, shared, history
<1>6. ControlInv'
  BY <1>2, <1>3, <1>4, <1>5, ControlStep DEF Outside, ControlInv, shared
<1>7. Idle'
  <2>1. Active' = Active /\ (\A n : Before(n)' = Before(n)) /\ graph' = graph
    BY <1>2, SameGraph DEF shared
  <2>2. \A s \in Threads : Gone(s)'
    <3> SUFFICES ASSUME NEW s \in Threads PROVE Gone(s)'
      OBVIOUS
    <3>1. CASE s = t
      BY <1>3, <3>1 DEF Gone, Computing
    <3>2. CASE s # t
      BY <1>2, <1>3, <3>2 DEF Gone, Idle, shared
    <3> QED
      BY <3>1, <3>2
  <2>3. pc'[0] # "kicked" /\ (pc'[0] = "kick" <=> pc[0] = "kick")
    BY <1>2, <1>3, ActiveFacts DEF Idle
  <2> QED
    BY <1>2, <2>1, <2>2, <2>3 DEF Idle, shared, history
<1> QED
  BY <1>4, <1>6, <1>7

\* Thread 0 makes a call; the workers, and what they know, stay.
LEMMA IdleCall ==
  ASSUME TypeOK, ControlInv, Idle,
         Reuse \/ Pause \/ Resume \/ Stop \/ StopAll \/ Join
  PROVE  TypeOK' /\ ControlInv' /\ Idle'
<1>1. /\ pc[0] \in {"between", "freeing", "joining"}
      /\ UNCHANGED <<graph, entered, passed, last, due, node, seen, mine, next>>
  BY DEF Reuse, Pause, Resume, Stop, StopAll, Join, shared, history
<1>2. 0 \in Threads /\ Workers \subseteq Threads
  BY ActiveFacts DEF Workers
<1>3. /\ pc' \in [Threads -> Computing \cup
                   {"top", "pauseLock", "pauseWait", "poll", "lock", "wait", "start", "exited",
                    "between", "kick", "kicked", "free", "freeing", "joining"}]
      /\ \A s \in Workers : \/ pc'[s] = pc[s]
                            \/ pc[s] = "wait" /\ pc'[s] = "lock"
                            \/ pc[s] = "pauseWait" /\ pc'[s] = "pauseLock"
      /\ \/ /\ pc[0] = "between" /\ pc'[0] = "kick" /\ stop' = stop
            /\ abort' = -1 /\ computed' = {} /\ graphs' = graphs + 1 /\ graphs < MaxGraphs
         \/ /\ \/ pc[0] = "between" /\ pc'[0] = "between" /\ stop' = stop
               \/ pc[0] = "between" /\ pc'[0] = "freeing" /\ stop' = TRUE
               \/ pc[0] = "freeing" /\ pc'[0] = "joining" /\ stop' = stop
               \/ pc[0] = "joining" /\ pc'[0] = "exited" /\ stop' = stop
            /\ abort' = abort /\ computed' = computed /\ graphs' = graphs
  <2>1. CASE Reuse
    BY <1>2, <2>1 DEF Reuse, Goto, TypeOK, Workers
  <2>2. CASE Pause \/ Resume
    <3>1. /\ Broadcast(0, "between") /\ pc[0] = "between"
          /\ UNCHANGED <<abort, computed, graphs, stop>>
      BY <2>2 DEF Pause, Resume, history
    <3> QED
      BY <1>2, <3>1 DEF Broadcast, TypeOK, Workers
  <2>3. CASE Stop
    BY <1>2, <2>3 DEF Stop, Goto, TypeOK, Workers, history
  <2>4. CASE StopAll
    <3>1. /\ Broadcast(0, "joining") /\ pc[0] = "freeing"
          /\ UNCHANGED <<abort, computed, graphs, stop>>
      BY <2>4 DEF StopAll, history
    <3> QED
      BY <1>2, <3>1 DEF Broadcast, TypeOK, Workers
  <2>5. CASE Join
    BY <1>2, <2>5 DEF Join, Goto, TypeOK, Workers, shared, history
  <2> QED
    BY <2>1, <2>2, <2>3, <2>4, <2>5
<1>4. TypeOK'
  <2>1. /\ mutex' \in Threads \cup {-1} /\ chunk' \in Nat
        /\ pause' \in BOOLEAN /\ pauses' \in 0 .. MaxPauses
    <3>1. /\ mutex' \in {mutex, 0, -1} /\ chunk' \in {chunk, 0} /\ pause' \in {pause, TRUE, FALSE}
          /\ pauses' = pauses \/ (pauses' = pauses + 1 /\ pauses < MaxPauses)
      BY DEF Reuse, Pause, Resume, Stop, StopAll, Join, shared, history
    <3>2. MaxPauses \in Nat
      BY PoolAssumption DEF PoolAssumption
    <3>3. mutex' \in Threads \cup {-1}
      BY <1>2, <3>1 DEF TypeOK
    <3>4. chunk' \in Nat /\ pauses' \in 0 .. MaxPauses
      BY <3>1, <3>2 DEF TypeOK
    <3>5. pause' \in BOOLEAN
      BY <3>1 DEF TypeOK
    <3> QED
      BY <3>3, <3>4, <3>5
  <2>2. graphs' \in 0 .. MaxGraphs
    <3>1. MaxGraphs \in Nat
      BY PoolAssumption DEF PoolAssumption
    <3> QED
      BY <1>3, <3>1 DEF TypeOK
  <2>3. stop' \in BOOLEAN
    BY <1>3, Zenon DEF TypeOK
  <2>4. abort' \in -1 .. NNodes
    BY <1>3, NodesFacts DEF TypeOK
  <2> QED
    BY <1>1, <1>3, <2>1, <2>2, <2>3, <2>4 DEF TypeOK
<1>5. ControlInv'
  <2>1. \A s \in Workers : /\ pc'[s] \in Computing \cup Outside \cup {"start", "exited"}
                           /\ pc'[s] = "exited" => stop'
    BY <1>3 DEF ControlInv, Outside
  <2>2. \A s \in Threads : (due[s] => pc'[s] = "start" /\ s # 0) /\ seen[s] <= passed
    BY <1>2, <1>3 DEF ControlInv, Workers
  <2>3. graph.count = IF pc'[0] = "kick" THEN graphs' - 1 ELSE graphs'
    BY <1>1, <1>3 DEF ControlInv, TypeOK
  <2>4. /\ pc'[0] \in {"exited", "between", "kick", "freeing", "joining"}
        /\ stop' => pc'[0] \in {"freeing", "joining", "exited"}
    BY <1>1, <1>3 DEF ControlInv
  <2> QED
    BY <1>1, <2>1, <2>2, <2>3, <2>4 DEF ControlInv
<1>6. Idle'
  <2>1. Active' = Active /\ (\A n : Before(n)' = Before(n))
    BY <1>1, SameGraph
  <2>2. \A s \in Threads : Gone(s)'
    BY <1>1, <1>2, <1>3 DEF Gone, Idle, Workers, Computing
  <2>3. /\ pc'[0] # "kicked"
        /\ IF pc'[0] = "kick" THEN abort' = -1 /\ computed' = {}
           ELSE graphs > 0 => Before(IF abort = -1 THEN NNodes ELSE abort) \subseteq computed
    BY <1>1, <1>3 DEF Idle
  <2> QED
    BY <1>1, <1>3, <2>1, <2>2, <2>3 DEF Idle
<1> QED
  BY <1>4, <1>5, <1>6

\* A graph is handed out: none of its threads has begun with it.
LEMMA KickStep ==
  ASSUME TypeOK, ControlInv, Idle, Kick
  PROVE  TypeOK' /\ ControlInv' /\ Segment(0, FALSE)'
<1>1. PICK n \in 1 .. Size : graph' = [count |-> (graph.count + 1) % IdSpan, threads |-> n]
  BY DEF Kick
<1>2. /\ pc[0] = "kick" /\ pc' = [pc EXCEPT ![0] = "kicked"] /\ mutex' = 0
      /\ UNCHANGED <<entered, passed, chunk, stop, pause, abort, last, due, node, seen, mine,
                     next, computed, graphs, pauses>>
  BY DEF Kick, Goto, history
<1>3. /\ 0 \in Threads /\ Workers \subseteq Threads /\ Size \in Nat \ {0}
      /\ Threads \subseteq Nat
  BY ActiveFacts DEF Workers
<1>4. /\ pc'[0] = "kicked" /\ \A s \in Workers : pc'[s] = pc[s]
  BY <1>2, <1>3 DEF TypeOK, Workers
<1>5. graph'.count = graph.count + 1 /\ graph'.threads = n /\ graph'.count = graphs
  <2>1. graph.count = graphs - 1 /\ graphs \in 0 .. MaxGraphs /\ graph.count \in 0 .. IdSpan - 1
    BY <1>2 DEF ControlInv, TypeOK
  <2>2. MaxGraphs \in Nat /\ IdSpan \in Nat /\ MaxGraphs < IdSpan
    BY PoolAssumption DEF PoolAssumption
  <2>3. graph.count + 1 \in 0 .. IdSpan - 1
    BY <2>1, <2>2
  <2>4. (graph.count + 1) % IdSpan = graph.count + 1
    BY <2>2, <2>3
  <2> QED
    BY <1>1, <2>1, <2>4
<1>6. TypeOK'
  <2>1. graph' \in [count : 0 .. IdSpan - 1, threads : 0 .. Size]
    <3>1. graph.count \in Int /\ IdSpan \in Nat /\ IdSpan > 0
      BY PoolAssumption DEF TypeOK, PoolAssumption
    <3>2. (graph.count + 1) % IdSpan \in 0 .. IdSpan - 1
      BY <3>1
    <3> QED
      BY <1>1, <1>3, <3>2
  <2> QED
    BY <1>2, <1>3, <2>1 DEF TypeOK
<1>7. \A s \in Threads : last[s].count < graph'.count /\ last[s] # graph'
  <2>1. \A s \in Threads : last[s].count \in Int /\ last[s].count <= graph.count
    BY DEF TypeOK, ControlInv
  <2>2. graph.count \in Int
    BY DEF TypeOK
  <2> QED
    BY <1>5, <2>1, <2>2
<1>8. ~stop /\ \A s \in Workers : pc[s] # "exited"
  BY <1>2 DEF ControlInv
<1>9. ControlInv'
  <2>1. pc'[0] \in {"kicked"} /\ ~stop'
    BY <1>2, <1>4, <1>8
  <2>2. \A s \in Workers : /\ pc'[s] \in Computing \cup Outside \cup {"start", "exited"}
                           /\ pc'[s] = "exited" => stop'
    BY <1>2, <1>4 DEF ControlInv
  <2>3. \A s \in Threads : (due'[s] => pc'[s] = "start" /\ s # 0) /\ seen'[s] <= passed'
    BY <1>2, <1>4 DEF ControlInv, Workers
  <2>4. \A s \in Threads : /\ last'[s].count <= graph'.count
                           /\ last'[s].count = graph'.count => last'[s] = graph'
    <3>1. \A s \in Threads : last[s].count \in Int
      BY DEF TypeOK
    <3>2. graph'.count \in Int
      BY <1>5 DEF TypeOK
    <3> QED
      BY <1>2, <1>7, <3>1, <3>2
  <2>5. graph'.count = IF pc'[0] = "kick" THEN graphs' - 1 ELSE graphs'
    BY <1>2, <1>4, <1>5
  <2> QED
    BY <2>1, <2>2, <2>3, <2>4, <2>5 DEF ControlInv
<1>10. \A s \in Workers : \/ pc'[s] \in Outside
                          \/ Released(s)' /\ next'[s] = "exit"
  <2> SUFFICES ASSUME NEW s \in Workers
               PROVE  pc'[s] \in Outside \/ (Released(s)' /\ next'[s] = "exit")
    OBVIOUS
  <2>1. Gone(s) /\ pc[s] \in Computing \cup Outside \cup {"start", "exited"}
    BY <1>3 DEF Idle, ControlInv
  <2> QED
    BY <1>2, <1>4, <1>8, <2>1 DEF Gone, Released
<1>11. Segment(0, FALSE)'
  <2>1. Active' \subseteq Threads /\ 0 \in Active' /\ Threads' = Threads /\ graph'.threads >= 1
    BY <1>3, <1>5 DEF Active, Threads
  <2>2. \A s \in Active' : Place(s, 0, FALSE)'
    <3> SUFFICES ASSUME NEW s \in Active' PROVE Unstarted(s)'
      BY DEF Place
    <3>1. CASE s = 0
      BY <1>4, <3>1 DEF Unstarted
    <3>2. CASE s # 0
      BY <1>2, <1>7, <1>10, <2>1, <3>2 DEF Unstarted, Workers
    <3> QED
      BY <3>1, <3>2
  <2>3. \A s \in Threads \ Active' : Gone(s)'
    BY <1>10, <2>1 DEF Gone, Workers, Released, Outside, Computing
  <2>4. PartsInv(0, FALSE)'
    <3>1. computed' = {}
      BY <1>2 DEF Idle
    <3>2. Before(0)' = {}
      BY DEF Before
    <3> QED
      BY <3>1, <3>2 DEF PartsInv
  <2>5. AbortInv(0, FALSE)'
    BY <1>2 DEF AbortInv, Idle
  <2>6. BarrierInv'
    <3>1. \A s \in Active' : pc'[s] \notin {"add", "last", "release"} /\ ~Waiting(s)'
      BY <1>4, <1>10, <2>1 DEF Workers, Outside, Waiting, Released
    <3>2. Counted' = {}
      BY <3>1 DEF Counted
    <3>3. Cardinality(Counted)' = 0
      BY <3>2, FS_EmptySet
    <3>4. entered' = 0
      BY <1>2 DEF Idle
    <3> QED
      BY <3>1, <3>3, <3>4 DEF BarrierInv
  <2> QED
    BY <2>1, <2>2, <2>3, <2>4, <2>5, <2>6 DEF Segment
<1> QED
  BY <1>6, <1>9, <1>11

\* The sleeping workers are told; thread 0 begins.
LEMMA KickedStep ==
  ASSUME TypeOK, ControlInv, NEW a \in 0 .. NNodes, NEW sharing \in BOOLEAN,
         Segment(a, sharing), Kicked
  PROVE  TypeOK' /\ ControlInv' /\ Segment(a, sharing)'
<1>1. /\ pc[0] = "kicked" /\ pause' = FALSE /\ mutex' = -1
      /\ UNCHANGED <<graph, entered, passed, chunk, stop, abort, last, due, node, seen, mine,
                     next, computed, graphs, pauses>>
  BY DEF Kicked, history
<1>2. /\ 0 \in Threads /\ Workers \subseteq Threads /\ Active \subseteq Threads /\ 0 \in Active
  BY ActiveFacts DEF Workers, Segment, Active
<1>3. /\ pc' \in [Threads -> Computing \cup
                   {"top", "pauseLock", "pauseWait", "poll", "lock", "wait", "start", "exited",
                    "between", "kick", "kicked", "free", "freeing", "joining"}]
      /\ pc'[0] = "start"
      /\ \A s \in Workers : \/ pc'[s] = pc[s]
                            \/ pc[s] = "wait" /\ pc'[s] = "lock"
                            \/ pc[s] = "pauseWait" /\ pc'[s] = "pauseLock"
  BY <1>2 DEF Kicked, Broadcast, TypeOK, Workers
<1>4. TypeOK'
  BY <1>1, <1>3 DEF TypeOK
<1>5. ControlInv'
  <2>1. \A s \in Workers : /\ pc'[s] \in Computing \cup Outside \cup {"start", "exited"}
                           /\ pc'[s] = "exited" => stop'
    BY <1>1, <1>3 DEF ControlInv, Outside
  <2>2. \A s \in Threads : (due[s] => pc'[s] = "start" /\ s # 0) /\ seen[s] <= passed
    BY <1>1, <1>2, <1>3 DEF ControlInv, Workers
  <2>3. ~stop
    BY <1>1 DEF ControlInv
  <2> QED
    BY <1>1, <1>3, <2>1, <2>2, <2>3 DEF ControlInv
<1>6. /\ Active' = Active /\ Threads' = Threads
  BY <1>1, SameGraph DEF Threads
<1>7. ~sharing /\ a = 0
  <2>1. Place(0, a, sharing)
    BY <1>2 DEF Segment
  <2> QED
    BY <1>1, <2>1 DEF Place, Moving, Sharing, Arrived, Waiting, Released
<1>8. ASSUME NEW s \in Workers
      PROVE  /\ Waiting(s)' = Waiting(s) /\ Released(s)' = Released(s)
             /\ Arrived(s)' = Arrived(s)
             /\ pc'[s] \in Outside <=> pc[s] \in Outside
             /\ pc[s] \notin Outside => pc'[s] = pc[s]
  BY <1>1, <1>3 DEF Waiting, Released, Arrived, Outside
<1>9. ASSUME NEW s \in Active PROVE Place(s, a, sharing)'
  <2>1. Place(s, a, sharing)
    BY <1>9 DEF Segment
  <2>2. CASE s = 0
    BY <1>3, <1>7, <2>2 DEF Place, Unstarted
  <2>3. CASE s # 0
    <3>0. s \in Workers
      BY <1>2, <2>3 DEF Workers
    <3>1. CASE Unstarted(s)
      BY <1>1, <1>7, <1>8, <2>3, <3>0, <3>1 DEF Place, Unstarted, Outside
    <3>2. CASE Moving(s, a, sharing) /\ last[s] = graph
      BY <1>1, <1>7, <1>8, <2>3, <3>0, <3>2 DEF Place, Moving, Outside, Released
    <3>3. CASE Arrived(s) /\ Outcome(s, a, sharing) /\ last[s] = graph
      <4>1. LoopOutcome(s, a)' = LoopOutcome(s, a)
        BY <1>1, Zenon DEF LoopOutcome, Onward, Converted
      <4> QED
        BY <1>1, <1>7, <1>8, <2>3, <3>0, <3>3, <4>1 DEF Place, Outcome
    <3> QED
      BY <2>1, <2>3, <3>1, <3>2, <3>3 DEF Place
  <2> QED
    BY <2>2, <2>3
<1>10. \A s \in Threads \ Active : Gone(s)'
  BY <1>1, <1>2, <1>3 DEF Segment, Gone, Workers, Computing
<1>11. BarrierInv'
  <2>1. ~Waiting(0)' /\ ~Waiting(0)
    BY <1>1, <1>3 DEF Waiting
  <2>2. ASSUME NEW s \in Active
        PROVE  /\ Waiting(s)' = Waiting(s)
               /\ \A p \in {"add", "last", "release"} : pc'[s] = p <=> pc[s] = p
    <3>1. CASE s = 0
      BY <1>1, <1>3, <3>1 DEF Waiting
    <3>2. CASE s # 0
      BY <1>2, <1>8, <3>2 DEF Workers, Outside
    <3> QED
      BY <3>1, <3>2
  <2>3. Counted' = Counted
    BY <1>6, <2>2 DEF Counted
  <2> QED
    BY <1>1, <1>6, <2>2, <2>3 DEF Segment, BarrierInv
<1>12. PartsInv(a, sharing)'
  BY <1>1, PartsSame DEF Segment
<1>13. AbortInv(a, sharing)'
  <2>1. ~Arrived(0)
    BY <1>1 DEF Arrived, Waiting
  <2> QED
    BY <1>1, <2>1, Zenon DEF Segment, AbortInv
<1> QED
  BY <1>1, <1>4, <1>5, <1>6, <1>7, <1>9, <1>10, <1>11, <1>12, <1>13 DEF Segment

-----------------------------------------------------------------------------
(***************************************************************************)
(* The theorems.                                                           *)
(***************************************************************************)

\* A thread that works on a graph is in it, and leaves the invariant.
LEMMA WorkingStep ==
  ASSUME PoolInv, NEW t \in Threads, Working(t)
  PROVE  PoolInv'
<1>1. CASE Idle
  BY <1>1, IdleWorking DEF PoolInv
<1>2. CASE Running
  <2>1. PICK a \in 0 .. NNodes, sharing \in BOOLEAN : Segment(a, sharing)
    BY <1>2 DEF Running
  <2>2. TypeOK /\ ControlInv
    BY DEF PoolInv
  <2>3. \/ TypeOK' /\ ControlInv' /\ Segment(a, sharing)'
        \/ TypeOK' /\ ControlInv' /\ (Idle' \/ Running')
    <3>1. CASE Start(t)
      BY <2>1, <2>2, <3>1, StartStep
    <3>2. CASE Skip(t)
      BY <2>1, <2>2, <3>2, SkipStep
    <3>3. CASE Compute(t)
      BY <2>1, <2>2, <3>3, ComputeStep
    <3>4. CASE LeaveLoop(t)
      BY <2>1, <2>2, <3>4, LeaveLoopStep
    <3>5. CASE FinishSlice(t)
      BY <2>1, <2>2, <3>5, FinishSliceStep
    <3>6. CASE Convert(t)
      BY <2>1, <2>2, <3>6, ConvertStep
    <3>7. CASE TakeChunk(t)
      BY <2>1, <2>2, <3>7, TakeChunkStep
    <3>8. CASE OnlyChunk(t)
      BY <2>1, <2>2, <3>8, OnlyChunkStep
    <3>9. CASE NoChunk(t)
      BY <2>1, <2>2, <3>9, NoChunkStep
    <3>10. CASE NoBarrier(t)
      BY <2>1, <2>2, <3>10, NoBarrierStep
    <3>11. CASE Enter(t)
      BY <2>1, <2>2, <3>11, EnterStep
    <3>12. CASE Add(t)
      BY <2>1, <2>2, <3>12, AddStep
    <3>13. CASE Reset(t)
      BY <2>1, <2>2, <3>13, ResetStep
    <3>14. CASE Release(t)
      BY <2>1, <2>2, <3>14, ReleaseStep
    <3>15. CASE Wait(t)
      BY <2>1, <2>2, <3>15, WaitStep
    <3>16. CASE Spin(t)
      BY <2>1, <2>2, <3>16, SpinStep
    <3> QED
      BY <3>1, <3>2, <3>3, <3>4, <3>5, <3>6, <3>7, <3>8, <3>9, <3>10, <3>11, <3>12, <3>13,
         <3>14, <3>15, <3>16 DEF Working
  <2>4. Segment(a, sharing)' => Running'
    BY <2>1 DEF Running
  <2> QED
    BY <2>3, <2>4 DEF PoolInv
<1> QED
  BY <1>1, <1>2 DEF PoolInv

\* A worker that looks for work.
LEMMA LookingSteps ==
  ASSUME PoolInv, NEW t \in Workers, Looking(t)
  PROVE  PoolInv'
<1>1. CASE Idle
  BY <1>1, IdleLooking DEF PoolInv
<1>2. CASE Running
  <2>1. PICK a \in 0 .. NNodes, sharing \in BOOLEAN : Segment(a, sharing)
    BY <1>2 DEF Running
  <2>2. TypeOK' /\ ControlInv' /\ Segment(a, sharing)'
    BY <2>1, LookingStep DEF PoolInv
  <2> QED
    BY <2>1, <2>2 DEF PoolInv, Running
<1> QED
  BY <1>1, <1>2 DEF PoolInv

\* While a graph is computed, thread 0 computes it.
LEMMA RunningCaller ==
  ASSUME TypeOK, Running
  PROVE  pc[0] \in Computing \cup {"kicked", "start"}
<1>1. PICK a \in 0 .. NNodes, sharing \in BOOLEAN : Segment(a, sharing)
  BY DEF Running
<1>2. Place(0, a, sharing)
  BY <1>1, ActiveFacts DEF Segment, Active
<1> QED
  BY <1>2 DEF Place, Unstarted, Moving, Sharing, Arrived, Waiting, Released, Computing

\* Thread 0 calls, and hands out the graph.
LEMMA CallerStep ==
  ASSUME PoolInv, Caller \/ Calls
  PROVE  PoolInv'
<1>1. CASE Kicked
  <2>1. ~Idle
    BY <1>1 DEF Kicked, Idle
  <2>2. PICK a \in 0 .. NNodes, sharing \in BOOLEAN : Segment(a, sharing)
    BY <2>1 DEF PoolInv, Running
  <2>3. TypeOK' /\ ControlInv' /\ Segment(a, sharing)'
    BY <1>1, <2>2, KickedStep DEF PoolInv
  <2> QED
    BY <2>2, <2>3 DEF PoolInv, Running
<1>2. CASE ~Kicked
  <2>1. pc[0] \in {"kick", "between", "freeing", "joining"}
    BY <1>2 DEF Caller, Calls, Kick, Reuse, Pause, Resume, Stop, StopAll, Join
  <2>2. Idle
    BY <2>1, RunningCaller DEF PoolInv, Computing
  <2>3. CASE Kick
    <3>1. TypeOK' /\ ControlInv' /\ Segment(0, FALSE)'
      BY <2>2, <2>3, KickStep DEF PoolInv
    <3>2. 0 \in 0 .. NNodes
      BY NodesFacts
    <3> QED
      BY <3>1, <3>2 DEF PoolInv, Running
  <2>4. CASE Reuse \/ Pause \/ Resume \/ Stop \/ StopAll \/ Join
    BY <2>2, <2>4, IdleCall DEF PoolInv
  <2> QED
    BY <1>2, <2>3, <2>4 DEF Caller, Calls
<1> QED
  BY <1>1, <1>2

(* The threads of a graph are always between the same two barriers, and     *)
(* outside of one they are all out of the last one, or may leave it; ggml's *)
(* hybrid polling, the reuse of the pool, pause, abort and free do not      *)
(* break that.                                                              *)
THEOREM PoolInvariant == Spec => []PoolInv
<1>1. Init => PoolInv
  <2> SUFFICES ASSUME Init PROVE PoolInv
    OBVIOUS
  <2>1. /\ Size \in Nat \ {0} /\ MaxGraphs \in Nat /\ MaxPauses \in Nat /\ IdSpan \in Nat
        /\ IdSpan > 0
    BY PoolAssumption DEF PoolAssumption
  <2>2. TypeOK
    <3>1. None \in [count : 0 .. IdSpan - 1, threads : 0 .. Size]
      BY <2>1 DEF None
    <3>2. /\ pc \in [Threads -> {"between", "top"}]
          /\ last \in [Threads -> {None}] /\ node \in [Threads -> {0}]
      BY DEF Init
    <3>3. last \in [Threads -> [count : 0 .. IdSpan - 1, threads : 0 .. Size]]
      BY <3>1, <3>2
    <3>4. node \in [Threads -> 0 .. NNodes]
      BY <3>2, NodesFacts
    <3>5. /\ due \in [Threads -> BOOLEAN] /\ seen \in [Threads -> Nat]
          /\ mine \in [Threads -> Nat] /\ next \in [Threads -> {"head", "chunk", "exit"}]
      BY DEF Init
    <3>6. pc \in [Threads -> Computing \cup
               {"top", "pauseLock", "pauseWait", "poll", "lock", "wait", "start", "exited",
                "between", "kick", "kicked", "free", "freeing", "joining"}]
      BY <3>2
    <3>7. /\ entered \in 0 .. Size /\ passed \in Nat /\ chunk \in Nat
          /\ graphs \in 0 .. MaxGraphs /\ pauses \in 0 .. MaxPauses
      BY <2>1 DEF Init
    <3>8. mutex \in Threads \cup {-1} /\ stop \in BOOLEAN /\ pause \in BOOLEAN
      BY DEF Init
    <3>9. abort \in -1 .. NNodes
      BY NodesFacts DEF Init
    <3>10. graph \in [count : 0 .. IdSpan - 1, threads : 0 .. Size]
      BY <3>1 DEF Init
    <3> QED
      BY <3>3, <3>4, <3>5, <3>6, <3>7, <3>8, <3>9, <3>10 DEF TypeOK
  <2>3. ControlInv
    BY <2>1 DEF Init, ControlInv, None, Threads, Workers, Computing, Outside
  <2>4. Idle
    BY <2>1 DEF Init, Idle, Gone, Active, Threads, None, Computing
  <2> QED
    BY <2>2, <2>3, <2>4 DEF PoolInv
<1>2. PoolInv /\ [Next]_vars => PoolInv'
  <2> SUFFICES ASSUME PoolInv, [Next]_vars PROVE PoolInv'
    OBVIOUS
  <2>1. CASE UNCHANGED vars
    <3>1. Running' = Running
      BY <2>1, SameState DEF Running
    <3> QED
      BY <2>1, <3>1, SameState DEF PoolInv
  <2>2. CASE Caller \/ Calls
    BY <2>2, CallerStep
  <2>3. CASE \E t \in Threads : Working(t)
    BY <2>3, WorkingStep
  <2>4. CASE \E t \in Threads : t # 0 /\ Looking(t)
    BY <2>4, LookingSteps DEF Workers
  <2> QED
    BY <2>1, <2>2, <2>3, <2>4 DEF Next, Freed
<1> QED
  BY <1>1, <1>2, PTL DEF Spec

(* Every variable of the pool keeps its type: no count runs past the        *)
(* threads, no thread past the graph.                                       *)
THEOREM PoolTypes == Spec => []TypeOK
<1>1. PoolInv => TypeOK
  BY DEF PoolInv
<1> QED
  BY <1>1, PoolInvariant, PTL

(* A thread computes a node on complete inputs: every part of every node    *)
(* before is done, and every slice of its src1 before a chunk.              *)
THEOREM InputsCompleteHolds == Spec => []InputsComplete
<1>1. PoolInv => InputsComplete
  <2> SUFFICES ASSUME PoolInv, NEW t \in Active, pc[t] \in {"work", "chunk"}
               PROVE  /\ Before(node[t]) \subseteq computed
                      /\ pc[t] = "chunk" => Slices(node[t]) \subseteq computed
    BY DEF InputsComplete
  <2>1. TypeOK /\ t \in Threads
    BY ActiveFacts DEF PoolInv
  <2>2. ~Idle
    BY <2>1 DEF Idle, Gone, Computing
  <2>3. PICK a \in 0 .. NNodes, sharing \in BOOLEAN : Segment(a, sharing)
    BY <2>2 DEF PoolInv, Running
  <2>4. CASE pc[t] = "work"
    <3>1. Nops(a, node[t]) /\ node[t] \in 0 .. NNodes
      BY <2>1, <2>3, <2>4, Whereabouts DEF Body, TypeOK
    <3> QED
      BY <2>3, <2>4, <3>1, BeforeNops DEF Segment, PartsInv
  <2>5. CASE pc[t] = "chunk"
    <3>1. node[t] = a /\ sharing
      BY <2>1, <2>3, <2>5, Whereabouts
    <3> QED
      BY <2>3, <3>1 DEF Segment, PartsInv
  <2> QED
    BY <2>4, <2>5
<1> QED
  BY <1>1, PoolInvariant, PTL

(* Each chunk of a product is computed by one thread, once.                 *)
THEOREM ChunkOnceHolds == Spec => []ChunkOnce
<1>1. PoolInv => ChunkOnce
  <2> SUFFICES ASSUME PoolInv, NEW t \in Threads, NEW c \in 0 .. Parts - 1, Holds(t, c)
               PROVE  /\ <<node[t], "chunk", c>> \notin computed
                      /\ \A s \in Threads \ {t} : ~Holds(s, c)
    BY DEF ChunkOnce
  <2>1. TypeOK /\ pc[t] = "chunk" /\ mine[t] = c /\ Parts \in Nat
    BY ActiveFacts DEF PoolInv, Holds
  <2>2. ~Idle
    BY <2>1 DEF Idle, Gone, Computing
  <2>3. PICK a \in 0 .. NNodes, sharing \in BOOLEAN : Segment(a, sharing)
    BY <2>2 DEF PoolInv, Running
  <2>4. \A s \in Threads : Holds(s, c) => /\ s \in Active /\ sharing /\ node[s] = a
                                          /\ Sharing(s) /\ mine[s] = c
    BY <2>1, <2>3, Whereabouts DEF Holds, Sharing, Computing
  <2>5. ChunkInv(a) /\ t \in Active /\ node[t] = a /\ Sharing(t)
    BY <2>3, <2>4 DEF Segment
  <2>6. <<a, "chunk", c>> \notin computed
    BY <2>1, <2>5 DEF ChunkInv
  <2>7. ASSUME NEW s \in Threads \ {t}, Holds(s, c) PROVE FALSE
    <3>1. s \in Active /\ Sharing(s) /\ mine[s] = mine[t]
      BY <2>1, <2>4, <2>7
    <3> QED
      BY <2>5, <2>7, <3>1 DEF ChunkInv
  <2> QED
    BY <2>5, <2>6, <2>7
<1> QED
  BY <1>1, PoolInvariant, PTL

(* When thread 0 resets the pool for the next graph or frees it, a worker   *)
(* at most has still to notice that its last barrier is passed, and the     *)
(* graph is complete up to where it was aborted.                            *)
THEOREM ResultCompleteHolds == Spec => []ResultComplete
<1>1. PoolInv => ResultComplete
  <2> SUFFICES ASSUME PoolInv, pc[0] = "between"
               PROVE  /\ \A t \in Workers : Gone(t)
                      /\ graphs > 0 =>
                           Before(IF abort = -1 THEN NNodes ELSE abort) \subseteq computed
    BY DEF ResultComplete
  <2>1. Idle
    BY RunningCaller DEF PoolInv, Computing
  <2> QED
    BY <2>1 DEF Idle, Workers
<1> QED
  BY <1>1, PoolInvariant, PTL
=============================================================================
