------------------------ MODULE FundingServiceProofs ------------------------
(***************************************************************************)
(* Proofs about FundingService, for any frontends, workers and documents,   *)
(* any limit of restarts and any number of failures, kills and stops.       *)
(***************************************************************************)
EXTENDS FundingService, TLAPS

(* Where a frontend serves, where it is sure to be the only one at the      *)
(* store, where the lock is its own, where the guard is, and where it has   *)
(* not done anything yet.                                                   *)
ServingAt == {"serve", "dispatch", "report"} \cup Ticking \cup Spawning
Ruling == {"epochs", "unlinked", "load", "settle", "stopfile"} \cup ServingAt
Owning == {"record", "unguard", "leave", "unlock", "tidy"} \cup Ruling
Guarding == {"look", "judge", "swap", "relock", "record", "unguard"}
Fresh == {"new", "guard", "look", "judge", "swap", "relock"}

Shut == {"faulted", "stopping", "stopped"}

(* The whole type of the environment e of a frontend, and of the lock.      *)
LockRecords ==
  [there : BOOLEAN, frontend : Frontends \cup {None}, worker : Epochs \cup {None}]
Memory ==
  [state : {"starting", "ready", "busy", "faulted", "stopping", "stopped"},
   operation : {"idle", "initialization", "request", "shutdown"},
   active : Docs \cup {None}, epoch : Epochs \cup {None},
   handle : BOOLEAN, named : BOOLEAN, retiring : BOOLEAN, storage : BOOLEAN,
   failures : 0 .. RestartAttempts, locked : BOOLEAN, ticking : BOOLEAN,
   admissions : SUBSET Docs, results : SUBSET Docs]

MemoryType ==
  /\ pc \in [Frontends -> Places]
  /\ mem \in [Frontends -> Memory]
  /\ seen \in [Frontends -> LockRecords]
StoreType ==
  /\ guard \in Frontends \cup {None}
  /\ lock \in LockRecords
  /\ epochDir \in [Epochs -> {"absent", "bare", "made", "named"}]
  /\ admissions \in [Docs -> Epochs \cup {None}]
  /\ results \in [Docs -> {None, "success", "error", "interrupted"}]
  /\ stopFile \in Frontends \cup {None}
  /\ asker \in Frontends \cup {None}
WorkerType ==
  /\ maker \in [Epochs -> Frontends \cup {None}]
  /\ worker \in [Epochs -> {"unborn", "up", "dead"}]
  /\ call \in [Epochs -> {None, "init", "close"} \cup Docs]
  /\ reply \in [Epochs -> {None, "ready", "closed", "success", "error", "bad"}]
  /\ dispatched \in [Docs -> {0, 1}]
  /\ expired \subseteq Docs
  /\ mishaps \in 0 .. MaxMishaps

TypeInv == MemoryType /\ StoreType /\ WorkerType

(* The guard is with whoever looks at the lock, the lock is of whoever      *)
(* holds the store, and who replaces a lock has seen its owner dead.        *)
OwnerInv(f) ==
  /\ pc[f] \in Guarding => guard = f
  /\ pc[f] \in Fresh => mem[f] = Blank
  /\ pc[f] \in Owning => mem[f].locked
  /\ Holds(f) => lock.there /\ lock.frontend \in {f, None}
  /\ pc[f] = "judge" => \A g \in Frontends : Holds(g) => g = seen[f].frontend
  /\ pc[f] \in {"swap", "relock"} => \A g \in Frontends : ~Holds(g)

(* What a frontend's memory says by where it is: a storage failure closes   *)
(* the service and gives its worker up, as does the last restart.           *)
MemoryInv(f) ==
  /\ pc[f] \in Opening =>
       /\ mem[f].state = "starting" /\ ~mem[f].handle /\ mem[f].active = None
       /\ ~mem[f].storage
  /\ pc[f] \in ServingAt =>
       /\ mem[f].state # "stopped"
       /\ mem[f].storage => mem[f].state \in Shut /\ (mem[f].retiring \/ ~mem[f].handle)
  /\ pc[f] \in Spawning => mem[f].state \notin Shut
  /\ mem[f].failures = RestartAttempts =>
       /\ mem[f].state \in Shut
       /\ mem[f].operation # "initialization" \/ mem[f].retiring
  /\ \/ mem[f].handle \/ mem[f].state = "ready"
     \/ pc[f] \in {"unlinked", "epochfile", "spawn", "identify", "register", "reaped",
                   "dispatch"}
     => mem[f].epoch \in Epochs

(* Whoever serves knows the only worker that can be up; while a new one is  *)
(* prepared there is none.                                                  *)
Clean == {"load", "settle", "stopfile", "mkdir", "epochfile", "spawn"}
WorkerInv(f) ==
  /\ pc[f] \in Clean => ~mem[f].handle
  /\ pc[f] \in Clean \cup ServingAt =>
       \A w \in Epochs : Up(w) => w = mem[f].epoch /\ mem[f].handle
  /\ pc[f] = "spawn" => epochDir[mem[f].epoch] = "made"
  /\ pc[f] \in {"unlinked", "reaped"} => ~Up(mem[f].epoch)

(* A running worker can be found by its epoch's owner.json, and only a      *)
(* running one has something in its pipe; answers are about documents.      *)
Working(w) == call[w] \in Docs
PipeInv ==
  \A w \in Epochs :
    /\ Up(w) => epochDir[w] \in {"made", "named"}
    /\ ~Up(w) => call[w] = None /\ reply[w] = None
    /\ reply[w] \in {"success", "error"} => Working(w)

(* A worker that is watched works on the active document, which it was      *)
(* given once.                                                              *)
CallInv(f) ==
  /\ pc[f] \in ServingAt /\ Watched(f) /\ Working(mem[f].epoch) =>
       mem[f].active = call[mem[f].epoch] /\ dispatched[mem[f].active] = 1
  /\ pc[f] = "dispatch" =>
       /\ mem[f].active \in Docs
       /\ dispatched[mem[f].active] = 0 /\ results[mem[f].active] = None
  /\ pc[f] = "logged" =>
       /\ mem[f].active # None => results[mem[f].active] # None
       /\ Watched(f) /\ ~Working(mem[f].epoch)

(* All that is known of a document was admitted first; what was given up    *)
(* has no answer.                                                           *)
DocInv ==
  \A d \in Docs :
    /\ results[d] # None \/ d \in expired \/ dispatched[d] # 0 => admissions[d] # None
    /\ d \in expired => results[d] \notin {"success", "error"}

(* What the frontend knows of the store; a document that was given up and   *)
(* has no record yet is one whose record could not be written.              *)
StoreInv(f) ==
  /\ mem[f].active # None => admissions[mem[f].active] # None
  /\ /\ pc[f] \in ServingAt /\ mem[f].active \in expired
     /\ results[mem[f].active] = None
     => mem[f].storage
  /\ pc[f] = "settle" => mem[f].admissions = Admitted /\ mem[f].results = Finished
  /\ pc[f] \in {"stopfile"} \cup ServingAt =>
       \A d \in Docs : admissions[d] # None => results[d] # None \/ mem[f].active = d

ServiceInv ==
  /\ TypeInv /\ OneOwner /\ OneWorker /\ PipeInv /\ DocInv
  /\ \A f \in Frontends :
       OwnerInv(f) /\ MemoryInv(f) /\ WorkerInv(f) /\ CallInv(f) /\ StoreInv(f)

-----------------------------------------------------------------------------
(* The memory of a new frontend is one.                                     *)
LEMMA BlankMemory == Blank \in Memory
BY ServiceAssumption DEF Blank, Memory

(* Initially nothing has happened.                                          *)
LEMMA InitService == Init => ServiceInv
<1> SUFFICES ASSUME Init PROVE ServiceInv OBVIOUS
<1>1. TypeInv
  <2>1. MemoryType
    BY BlankMemory DEF Init, MemoryType, LockRecords, NoLock, Places
  <2>2. StoreType BY DEF Init, StoreType, LockRecords, NoLock
  <2>3. WorkerType BY ServiceAssumption DEF Init, WorkerType
  <2> QED BY <2>1, <2>2, <2>3 DEF TypeInv
<1>2. OneOwner /\ OneWorker BY DEF Init, OneOwner, OneWorker, Holds, Alive, Up
<1>3. PipeInv /\ DocInv
  BY ServiceAssumption DEF Init, PipeInv, DocInv, Up, Working
<1>4. ASSUME NEW f \in Frontends
      PROVE  OwnerInv(f) /\ MemoryInv(f) /\ WorkerInv(f) /\ CallInv(f) /\ StoreInv(f)
  <2>1. pc[f] = "new" /\ mem[f] = Blank BY DEF Init
  <2>2. OwnerInv(f)
    BY <2>1 DEF OwnerInv, Guarding, Fresh, Owning, Ruling, ServingAt, Ticking, Spawning,
       Holds, Alive
  <2>3. MemoryInv(f)
    BY <2>1, ServiceAssumption DEF MemoryInv, Blank, Opening, ServingAt, Ticking, Spawning
  <2>4. WorkerInv(f) BY <2>1 DEF WorkerInv, Clean, ServingAt, Ticking, Spawning
  <2>5. CallInv(f) BY <2>1 DEF CallInv, ServingAt, Ticking, Spawning
  <2>6. StoreInv(f) BY <2>1 DEF StoreInv, Blank, ServingAt, Ticking, Spawning
  <2> QED BY <2>2, <2>3, <2>4, <2>5, <2>6
<1> QED BY <1>1, <1>2, <1>3, <1>4 DEF ServiceInv

-----------------------------------------------------------------------------
(* Giving up: what svc_retire() does to a frontend's memory n, to the       *)
(* records and to the history, in all the places that call it.              *)
Kept(f, n) ==
  /\ n.retiring
  /\ n.epoch = mem[f].epoch /\ n.handle = mem[f].handle /\ n.locked = mem[f].locked
  /\ mem[f].storage => n.storage
  /\ n.state # "stopped"
  /\ n.storage \/ mem[f].state \in Shut => n.state \in Shut
  /\ n.state = "ready" => mem[f].state = "ready"
  /\ n.failures = RestartAttempts => n.state \in Shut

Published(f, n) ==
  \/ /\ results' = results /\ n.active = mem[f].active
     /\ expired \subseteq expired'
     /\ \A d \in expired' \ expired :
          d \in Docs /\ d = mem[f].active /\ results[d] = None /\ n.storage
  \/ /\ n.active = None /\ mem[f].active \in Docs /\ results[mem[f].active] = None
     /\ results' = [results EXCEPT ![mem[f].active] = "interrupted"]
     /\ expired' = expired \cup {mem[f].active}

GivenUp(f) ==
  /\ \E n \in Memory : Set(f, n) /\ Kept(f, n) /\ Published(f, n)
  /\ mishaps' \in 0 .. MaxMishaps

GivesUp(f) ==
  /\ pc[f] \in ServingAt
  /\ \E place \in {"serve", "reap", "sample"} : Goto(f, place)
  /\ GivenUp(f)
  /\ UNCHANGED <<guard, lock, epochDir, admissions, stopFile, maker, worker, seen, stopper,
                 interrupted, dispatched>>
  /\ UNCHANGED <<call, reply>> \/ (Watched(f) /\ Up(mem[f].epoch) /\ Read(mem[f].epoch))

(* What a frontend may give up with: its memory, faulted or asked to end.   *)
Before(f, m) ==
  /\ m \in Memory
  /\ \A field \in {"active", "epoch", "handle", "locked", "retiring", "failures"} :
       m[field] = mem[f][field]
  /\ mem[f].storage => m.storage
  /\ m.state # "stopped"
  /\ m.storage \/ mem[f].state \in Shut => m.state \in Shut
  /\ m.state \in {mem[f].state, "faulted"}
  /\ m.operation = "initialization" => mem[f].operation = "initialization"

(* svc_retire() gives up with such a memory.                                *)
LEMMA RetireGivesUp ==
  ASSUME TypeInv, NEW f \in Frontends, MemoryInv(f), NEW m, Before(f, m),
         NEW cost \in {0, 1}, mishaps + cost <= MaxMishaps, Retire(f, m, cost)
  PROVE  GivenUp(f)
<1> USE ServiceAssumption
<1>1. mishaps' \in 0 .. MaxMishaps
  <2>1. \/ mishaps' = mishaps + cost
        \/ mishaps + cost < MaxMishaps /\ mishaps' = mishaps + cost + 1
    BY Zenon DEF Retire
  <2> QED BY <2>1 DEF TypeInv, WorkerType
<1>2. CASE m.retiring
  <2>1. Set(f, m) /\ results' = results /\ expired' = expired BY <1>2 DEF Retire
  <2>2. Kept(f, m) BY <1>2 DEF Kept, Before, MemoryInv, Shut
  <2>3. Published(f, m) BY <2>1 DEF Published, Before
  <2> QED BY <1>1, <2>1, <2>2, <2>3 DEF GivenUp, Before
<1>3. CASE ~m.retiring
  <2> DEFINE work == {m.active} \ {None}
             lost == {d \in work : results[d] = None}
  <2>1. expired' = expired \cup lost BY <1>3 DEF Retire
  <2>2. PICK n \in Retired(m) :
          \/ /\ m.active = None \/ m.storage
             /\ Set(f, n) /\ results' = results
          \/ \E d \in work :
               /\ Publishable(d)
               /\ results' = [results EXCEPT ![d] = "interrupted"]
               /\ Set(f, [n EXCEPT !.active = None, !.results = @ \cup {d}])
          \/ Set(f, [n EXCEPT !.storage = TRUE, !.state = "faulted"]) /\ results' = results
    BY <1>3 DEF Retire
  <2>3. PICK k \in (IF m.operation = "initialization" THEN 0 .. m.failures
                                                     ELSE {m.failures}) :
             n = [m EXCEPT !.retiring = TRUE,
                    !.state = IF m.operation = "initialization" /\ k + 1 >= RestartAttempts
                              THEN "faulted"
                              ELSE IF @ \in {"stopping", "faulted"} THEN @ ELSE "starting",
                    !.failures = IF m.operation = "initialization" THEN k + 1 ELSE @]
    BY Zenon DEF Retired
  <2>4. m.failures = RestartAttempts =>
          m.state \in {"stopping", "faulted"} /\ m.operation # "initialization"
    BY <1>3 DEF Before, MemoryInv, Shut
  <2>5. n \in Memory
    <3> DEFINE counted == m.operation = "initialization"
               state == IF counted /\ k + 1 >= RestartAttempts THEN "faulted"
                        ELSE IF m.state \in {"stopping", "faulted"} THEN m.state
                        ELSE "starting"
               count == IF counted THEN k + 1 ELSE m.failures
    <3>1. m \in Memory /\ m.failures \in 0 .. RestartAttempts BY DEF Before, Memory
    <3>2. count \in 0 .. RestartAttempts BY <2>4, <3>1
    <3>3. state \in {"starting", "faulted", "stopping"} BY <3>1
    <3>4. n = [m EXCEPT !.retiring = TRUE, !.state = state, !.failures = count] BY <2>3
    <3> HIDE DEF counted, state, count
    <3> QED BY <3>1, <3>2, <3>3, <3>4 DEF Memory
  <2>6. Kept(f, n)
    BY <2>3, <2>4, <2>5 DEF Before, Memory, Kept, Shut
  <2>7. n.active = m.active /\ n.storage = m.storage BY <2>3 DEF Before, Memory
  <2>8. m.active = mem[f].active /\ m.active \in Docs \cup {None} BY DEF Before, Memory
  <2>9. CASE (m.active = None \/ m.storage) /\ Set(f, n) /\ results' = results
    <3>1. Published(f, n) BY <2>1, <2>7, <2>8, <2>9 DEF Published
    <3> QED BY <1>1, <2>5, <2>6, <2>9, <3>1 DEF GivenUp
  <2>10. ASSUME NEW d \in work, Publishable(d),
                results' = [results EXCEPT ![d] = "interrupted"],
                Set(f, [n EXCEPT !.active = None, !.results = @ \cup {d}])
         PROVE  GivenUp(f)
    <3> DEFINE p == [n EXCEPT !.active = None, !.results = @ \cup {d}]
    <3>1. p \in Memory BY <2>5, <2>8 DEF Memory
    <3>2. Kept(f, p) BY <2>5, <2>6 DEF Kept, Memory
    <3>3. d = mem[f].active /\ d \in Docs /\ results[d] = None
      BY <2>8, <2>10 DEF Publishable
    <3>4. expired' = expired \cup {d} BY <2>1, <2>8, <3>3
    <3>5. p.active = None BY <2>5 DEF Memory
    <3>6. Published(f, p) BY <2>10, <3>3, <3>4, <3>5 DEF Published
    <3> QED BY <1>1, <2>10, <3>1, <3>2, <3>6 DEF GivenUp
  <2>11. CASE Set(f, [n EXCEPT !.storage = TRUE, !.state = "faulted"]) /\ results' = results
    <3> DEFINE p == [n EXCEPT !.storage = TRUE, !.state = "faulted"]
    <3>1. p \in Memory BY <2>5 DEF Memory
    <3>2. Kept(f, p) BY <2>5, <2>6 DEF Kept, Memory, Shut
    <3>3. p.active = mem[f].active /\ p.storage BY <2>5, <2>7, <2>8 DEF Memory
    <3>4. Published(f, p) BY <2>1, <2>8, <2>11, <3>3 DEF Published
    <3> QED BY <1>1, <2>11, <3>1, <3>2, <3>4 DEF GivenUp
  <2> QED BY <2>2, <2>9, <2>10, <2>11
<1> QED BY <1>2, <1>3

(* The error handler gives up with a faulted memory.                        *)
LEMMA TickErrorGivesUp ==
  ASSUME TypeInv, NEW f \in Frontends, MemoryInv(f), pc[f] \in ServingAt,
         NEW m \in {mem[f], [mem[f] EXCEPT !.operation = "shutdown"]},
         NEW storage \in BOOLEAN,
         NEW cost \in {0, 1}, mishaps + cost <= MaxMishaps,
         TickError(f, m, storage, cost)
  PROVE  GivenUp(f) /\ Goto(f, "serve")
<1> DEFINE n == [m EXCEPT !.storage = @ \/ storage, !.state = "faulted"]
<1>1. mem[f] \in Memory BY DEF TypeInv, MemoryType
<1>2. m \in Memory /\ m.storage = mem[f].storage BY <1>1 DEF Memory
<1>3. (m.storage \/ storage) \in BOOLEAN BY <1>2 DEF Memory
<1>4. n \in Memory BY <1>2, <1>3 DEF Memory
<1>5. Before(f, n)
  <2>1. m.operation \in {mem[f].operation, "shutdown"} BY <1>1 DEF Memory
  <2>2. n.state = "faulted" /\ n.operation = m.operation BY <1>2 DEF Memory
  <2>3. mem[f].storage => n.storage BY <1>2 DEF Memory
  <2>4. /\ n.active = mem[f].active /\ n.epoch = mem[f].epoch /\ n.handle = mem[f].handle
        /\ n.locked = mem[f].locked /\ n.retiring = mem[f].retiring
        /\ n.failures = mem[f].failures
    BY <1>1, <1>2 DEF Memory
  <2> HIDE DEF n
  <2> QED BY <1>4, <2>1, <2>2, <2>3, <2>4 DEF Before, Shut
<1>6. Retire(f, n, cost) /\ Goto(f, "serve") BY DEF TickError
<1> QED BY <1>5, <1>6, RetireGivesUp

(* The memory as it is can be given up with, too, and a faulted one.        *)
LEMMA NowBefore ==
  ASSUME TypeInv, NEW f \in Frontends, MemoryInv(f), pc[f] \in ServingAt
  PROVE  Before(f, mem[f]) /\ Before(f, [mem[f] EXCEPT !.state = "faulted"])
BY DEF TypeInv, MemoryType, MemoryInv, Before, Memory, Shut

(* A failure that may happen is within the bound.                           *)
LEMMA MishapBound ==
  ASSUME TypeInv
  PROVE  /\ mishaps + 0 <= MaxMishaps
         /\ \A kind : Mishap(kind) => mishaps + 1 <= MaxMishaps
                                      /\ mishaps + 1 \in 0 .. MaxMishaps
BY ServiceAssumption DEF TypeInv, WorkerType, Mishap

(* The two steps that give up only if they fail: the removal of an epoch    *)
(* and the request to close.                                                *)
Cleans(f) ==
  /\ pc[f] = "reap"
  /\ mem[f].handle /\ mem[f].retiring /\ ~Up(mem[f].epoch)
  /\ epochDir[mem[f].epoch] = "named"
  /\ epochDir' = [epochDir EXCEPT ![mem[f].epoch] = "bare"]
  /\ Goto(f, "reaped")
  /\ UNCHANGED <<guard, lock, admissions, results, stopFile, workers, seen, mem, stopper,
                 history, mishaps>>

AsksToClose(f) ==
  /\ pc[f] = "drain"
  /\ mem[f].state = "stopping" /\ Watched(f) /\ mem[f].active = None
  /\ Up(mem[f].epoch)
  /\ call' = [call EXCEPT ![mem[f].epoch] = "close"]
  /\ Set(f, [mem[f] EXCEPT !.operation = "shutdown"])
  /\ Goto(f, "sample")
  /\ UNCHANGED <<disk, maker, worker, reply, seen, stopper, history, mishaps>>

(* Every way out of a failure gives up.                                     *)
Failing(f) ==
  \/ SpawnFails(f) \/ \E d \in Docs : AdmitFails(f, d)
  \/ DispatchFails(f) \/ ForeignStop(f) \/ WatchRetires(f) \/ ResultFails(f)
  \/ DrainRetires(f) \/ MemoryLimit(f) \/ TickFails(f)

(* So does every failure.                                                   *)
LEMMA FailingGivesUp ==
  ASSUME TypeInv, NEW f \in Frontends, MemoryInv(f)
  PROVE  /\ Failing(f) => GivesUp(f)
         /\ Reap(f) => GivesUp(f) \/ Cleans(f)
         /\ DrainShutdown(f) => GivesUp(f) \/ AsksToClose(f)
<1> USE MishapBound
<1>1. ASSUME SpawnFails(f) PROVE GivesUp(f)
  <2>1. pc[f] \in ServingAt BY <1>1 DEF SpawnFails, ServingAt
  <2>2. GivenUp(f) /\ Goto(f, "serve") BY <1>1, <2>1, TickErrorGivesUp DEF SpawnFails
  <2> QED BY <1>1, <2>1, <2>2 DEF SpawnFails, GivesUp, workers
<1>2. ASSUME NEW d \in Docs, AdmitFails(f, d) PROVE GivesUp(f)
  <2>1. pc[f] \in ServingAt BY <1>2 DEF AdmitFails, Admissible, ServingAt
  <2>2. GivenUp(f) /\ Goto(f, "serve") BY <1>2, <2>1, TickErrorGivesUp DEF AdmitFails
  <2> QED BY <1>2, <2>1, <2>2 DEF AdmitFails, GivesUp, workers
<1>3. ASSUME DispatchFails(f) PROVE GivesUp(f)
  <2>1. pc[f] \in ServingAt BY <1>3 DEF DispatchFails, ServingAt
  <2>2. GivenUp(f) /\ Goto(f, "serve") BY <1>3, <2>1, TickErrorGivesUp DEF DispatchFails
  <2> QED BY <1>3, <2>1, <2>2 DEF DispatchFails, GivesUp, workers
<1>4. ASSUME ForeignStop(f) PROVE GivesUp(f)
  <2>1. pc[f] \in ServingAt BY <1>4 DEF ForeignStop, ServingAt
  <2>2. GivenUp(f) /\ Goto(f, "serve") BY <1>4, <2>1, TickErrorGivesUp DEF ForeignStop
  <2> QED BY <1>4, <2>1, <2>2 DEF ForeignStop, GivesUp, workers
<1>5. ASSUME WatchRetires(f) PROVE GivesUp(f)
  <2>1. pc[f] \in ServingAt BY <1>5 DEF WatchRetires, ServingAt, Ticking
  <2>2. GivenUp(f) BY <1>5, <2>1, NowBefore, RetireGivesUp DEF WatchRetires
  <2> QED BY <1>5, <2>1, <2>2 DEF WatchRetires, GivesUp, workers
<1>6. ASSUME ResultFails(f) PROVE GivesUp(f)
  <2>1. pc[f] \in ServingAt BY <1>6 DEF ResultFails, Answered, ServingAt, Ticking
  <2>2. GivenUp(f) /\ Goto(f, "serve") BY <1>6, <2>1, TickErrorGivesUp DEF ResultFails
  <2> QED BY <1>6, <2>1, <2>2 DEF ResultFails, Answered, GivesUp
<1>7. ASSUME DrainRetires(f) PROVE GivesUp(f)
  <2>1. pc[f] \in ServingAt BY <1>7 DEF DrainRetires, ServingAt, Ticking
  <2>2. GivenUp(f) BY <1>7, <2>1, NowBefore, RetireGivesUp DEF DrainRetires
  <2> QED BY <1>7, <2>1, <2>2 DEF DrainRetires, GivesUp, workers
<1>8. ASSUME MemoryLimit(f) PROVE GivesUp(f)
  <2>1. pc[f] \in ServingAt BY <1>8 DEF MemoryLimit, ServingAt, Ticking
  <2>2. GivenUp(f) BY <1>8, <2>1, NowBefore, RetireGivesUp DEF MemoryLimit
  <2> QED BY <1>8, <2>1, <2>2 DEF MemoryLimit, GivesUp, workers
<1>9. ASSUME TickFails(f) PROVE GivesUp(f)
  <2>1. pc[f] \in ServingAt BY <1>9 DEF TickFails, ServingAt
  <2>2. GivenUp(f) /\ Goto(f, "serve") BY <1>9, <2>1, TickErrorGivesUp DEF TickFails
  <2> QED BY <1>9, <2>1, <2>2 DEF TickFails, GivesUp, workers
<1>10. ASSUME Reap(f) PROVE GivesUp(f) \/ Cleans(f)
  <2>1. pc[f] \in ServingAt BY <1>10 DEF Reap, ServingAt, Ticking
  <2>2. CASE mem[f].named /\ epochDir[mem[f].epoch] = "named"
    BY <1>10, <2>2 DEF Reap, Cleans, DeathConfirmed, history
  <2>3. CASE ~(mem[f].named /\ epochDir[mem[f].epoch] = "named")
    <3>1. GivenUp(f) /\ Goto(f, "serve") BY <1>10, <2>1, <2>3, TickErrorGivesUp DEF Reap
    <3> QED BY <1>10, <2>1, <2>3, <3>1 DEF Reap, GivesUp, workers
  <2> QED BY <2>2, <2>3
<1>11. ASSUME DrainShutdown(f) PROVE GivesUp(f) \/ AsksToClose(f)
  <2>1. pc[f] \in ServingAt BY <1>11 DEF DrainShutdown, ServingAt, Ticking
  <2>2. CASE Up(mem[f].epoch)
    BY <1>11, <2>2 DEF DrainShutdown, AsksToClose, disk, history
  <2>3. CASE ~Up(mem[f].epoch)
    <3>1. GivenUp(f) /\ Goto(f, "serve")
      BY <1>11, <2>1, <2>3, TickErrorGivesUp DEF DrainShutdown
    <3> QED BY <1>11, <2>1, <2>3, <3>1 DEF DrainShutdown, GivesUp
  <2> QED BY <2>2, <2>3
<1> QED
  BY <1>1, <1>2, <1>3, <1>4, <1>5, <1>6, <1>7, <1>8, <1>9, <1>10, <1>11 DEF Failing

-----------------------------------------------------------------------------
(* The steps, once the failures are taken together: the way to the lock,    *)
(* the recovery of the store, a worker's start, the service, the end, and   *)
(* what others do.                                                          *)
Starting(f) ==
  \/ Start(f) \/ TakeGuard(f) \/ LookAtLock(f) \/ Judge(f) \/ SwapLock(f) \/ Relock(f)
  \/ RecordOwner(f) \/ DropGuard(f) \/ OpenFails(f) \/ Abort(f)
Recovering(f) ==
  \/ (\E w \in Epochs : CleanEpoch(f, w)) \/ EpochRemoved(f) \/ EpochsClean(f)
  \/ Load(f) \/ Settle(f) \/ DropOldStop(f)
Spawns(f) ==
  \/ (\E w \in Epochs : MakeEpoch(f, w)) \/ WriteEpoch(f) \/ SpawnWorker(f)
  \/ NameWorker(f) \/ RegisterWorker(f)
Serves(f) ==
  \/ (\E d \in Docs : Admit(f, d)) \/ Dispatch(f) \/ Reported(f) \/ StoreFull(f)
  \/ TickBegins(f) \/ WatchIdle(f) \/ WatchEvent(f) \/ WatchResult(f) \/ FreeSlot(f)
  \/ ReapIdle(f) \/ Cleans(f) \/ Reaped(f) \/ DrainEnds(f) \/ AsksToClose(f)
  \/ DrainWaits(f) \/ TickEnds(f) \/ Interrupt(f) \/ GivesUp(f)
Ends(f) ==
  \/ Leave(f) \/ Unlock(f) \/ Tidy(f) \/ Crash(f)
Beside ==
  \/ \E w \in Epochs : WorkerAnswers(w) \/ WorkerMisanswers(w) \/ WorkerDies(w)
  \/ Inspect \/ StopReads \/ StopWrites \/ UNCHANGED vars

(* Every step is one of them.                                               *)
LEMMA NextSteps ==
  ASSUME TypeInv, \A f \in Frontends : MemoryInv(f), [Next]_vars
  PROVE  \/ \E f \in Frontends :
              \/ Starting(f) \/ Recovering(f) \/ Spawns(f) \/ Serves(f) \/ Ends(f)
         \/ Beside
<1>1. ASSUME NEW f \in Frontends, Open(f) PROVE Starting(f) \/ Recovering(f)
  BY <1>1 DEF Open, Starting, Recovering
<1>2. ASSUME NEW f \in Frontends, StartWorker(f) PROVE Spawns(f) \/ Serves(f)
  BY <1>2, FailingGivesUp DEF StartWorker, Spawns, Serves, Failing
<1>3. ASSUME NEW f \in Frontends, Serve(f) PROVE Serves(f)
  BY <1>3, FailingGivesUp DEF Serve, Serves, Failing
<1>4. ASSUME NEW f \in Frontends, Close(f) PROVE Ends(f)
  BY <1>4 DEF Close, Ends
<1>5. ASSUME NEW f \in Frontends, Environment(f)
      PROVE  Starting(f) \/ Serves(f) \/ Ends(f)
  BY <1>5, FailingGivesUp DEF Environment, Starting, Serves, Ends, Failing
<1>6. CASE Next BY <1>1, <1>2, <1>3, <1>4, <1>5, <1>6
  DEF Next, FrontendStep, WorkerStep, Beside
<1>7. CASE UNCHANGED vars BY <1>7 DEF Beside
<1> QED BY <1>6, <1>7

-----------------------------------------------------------------------------
(* Every step keeps the types. The locks have theirs.                       *)
LEMMA LockTypes ==
  /\ NoLock \in LockRecords /\ BareLock \in LockRecords
  /\ \A f \in Frontends, w \in Epochs \cup {None} : OwnedBy(f, w) \in LockRecords
  /\ ~NoLock.there /\ BareLock.there /\ BareLock.frontend = None
  /\ \A f, w : OwnedBy(f, w).there /\ OwnedBy(f, w).frontend = f
BY DEF NoLock, BareLock, OwnedBy, LockRecords

(* A frontend moves to a place, with a memory and what it saw of the lock.  *)
LEMMA MoveTypes ==
  ASSUME MemoryType, NEW f \in Frontends,
         pc' = pc \/ \E place \in Places : Goto(f, place),
         mem' = mem \/ \E n \in Memory : Set(f, n),
         seen' = seen \/ \E s \in LockRecords : seen' = [seen EXCEPT ![f] = s]
  PROVE  MemoryType'
BY DEF MemoryType, Goto, Set

(* The way to the lock keeps the types.                                     *)
LEMMA StartingTypes ==
  ASSUME TypeInv, PipeInv, NEW f \in Frontends, MemoryInv(f), WorkerInv(f), CallInv(f),
         Starting(f)
  PROVE  TypeInv'
<1> USE ServiceAssumption, MishapBound, LockTypes DEF TypeInv
<1>0. MemoryType /\ mem[f] \in Memory /\ lock \in LockRecords
  BY DEF MemoryType, StoreType
<1>1. CASE Start(f)
  <2>1. MemoryType'
    <3>1. \E place \in Places : Goto(f, place)
      BY <1>1, <1>0 DEF Start, Places, Opening, Spawning, Ticking
    <3>3. mem' = mem \/ \E n \in Memory : Set(f, n)
      BY <1>1, <1>0, BlankMemory DEF Start, Set, Memory
    <3>4. seen' = seen \/ \E s \in LockRecords : seen' = [seen EXCEPT ![f] = s]
      BY <1>1, <1>0 DEF Start, workers
    <3> QED BY <1>0, <3>1, <3>3, <3>4, MoveTypes
  <2>2. StoreType'
    BY <1>1, <1>0 DEF StoreType, Start, Memory, disk, workers, stopper, history
  <2>3. WorkerType'
    BY <1>1, <1>0 DEF WorkerType, Start, Memory, disk, workers, stopper, history
  <2> QED BY <2>1, <2>2, <2>3
<1>2. CASE TakeGuard(f)
  <2>1. MemoryType'
    <3>1. \E place \in Places : Goto(f, place)
      BY <1>2, <1>0 DEF TakeGuard, Places, Opening, Spawning, Ticking
    <3>3. mem' = mem \/ \E n \in Memory : Set(f, n)
      BY <1>2, <1>0, BlankMemory DEF TakeGuard, Set, Memory
    <3>4. seen' = seen \/ \E s \in LockRecords : seen' = [seen EXCEPT ![f] = s]
      BY <1>2, <1>0 DEF TakeGuard, workers
    <3> QED BY <1>0, <3>1, <3>3, <3>4, MoveTypes
  <2>2. StoreType'
    BY <1>2, <1>0 DEF StoreType, TakeGuard, Memory, workers, stopper, history
  <2>3. WorkerType'
    BY <1>2, <1>0 DEF WorkerType, TakeGuard, Memory, workers, stopper, history
  <2> QED BY <2>1, <2>2, <2>3
<1>3. CASE LookAtLock(f)
  <2>1. MemoryType'
    <3>1. \E place \in Places : Goto(f, place)
      BY <1>3, <1>0 DEF LookAtLock, Places, Opening, Spawning, Ticking
    <3>2. [mem[f] EXCEPT !.locked = TRUE]
            \in Memory
      BY <1>3, <1>0, BlankMemory DEF Memory
    <3>3. mem' = mem \/ \E n \in Memory : Set(f, n)
      BY <1>3, <3>2 DEF LookAtLock, Set
    <3>4. seen' = seen \/ \E s \in LockRecords : seen' = [seen EXCEPT ![f] = s]
      BY <1>3, <1>0 DEF LookAtLock, workers
    <3> QED BY <1>0, <3>1, <3>3, <3>4, MoveTypes
  <2>2. StoreType'
    BY <1>3, <1>0 DEF StoreType, LookAtLock, Memory, workers, stopper, history
  <2>3. WorkerType'
    BY <1>3, <1>0 DEF WorkerType, LookAtLock, Memory, workers, stopper, history
  <2> QED BY <2>1, <2>2, <2>3
<1>4. CASE Judge(f)
  <2>1. MemoryType'
    <3>1. \E place \in Places : Goto(f, place)
      BY <1>4, <1>0 DEF Judge, Places, Opening, Spawning, Ticking
    <3>3. mem' = mem \/ \E n \in Memory : Set(f, n)
      BY <1>4, <1>0, BlankMemory DEF Judge, Set, Memory
    <3>4. seen' = seen \/ \E s \in LockRecords : seen' = [seen EXCEPT ![f] = s]
      BY <1>4, <1>0 DEF Judge, workers
    <3> QED BY <1>0, <3>1, <3>3, <3>4, MoveTypes
  <2>2. StoreType'
    BY <1>4, <1>0 DEF StoreType, Judge, Memory, disk, workers, stopper, history
  <2>3. WorkerType'
    BY <1>4, <1>0 DEF WorkerType, Judge, Memory, disk, workers, stopper, history
  <2> QED BY <2>1, <2>2, <2>3
<1>5. CASE SwapLock(f)
  <2>1. MemoryType'
    <3>1. \E place \in Places : Goto(f, place)
      BY <1>5, <1>0 DEF SwapLock, Places, Opening, Spawning, Ticking
    <3>3. mem' = mem \/ \E n \in Memory : Set(f, n)
      BY <1>5, <1>0, BlankMemory DEF SwapLock, Set, Memory
    <3>4. seen' = seen \/ \E s \in LockRecords : seen' = [seen EXCEPT ![f] = s]
      BY <1>5, <1>0 DEF SwapLock, workers
    <3> QED BY <1>0, <3>1, <3>3, <3>4, MoveTypes
  <2>2. StoreType'
    BY <1>5, <1>0 DEF StoreType, SwapLock, Memory, workers, stopper, history
  <2>3. WorkerType'
    BY <1>5, <1>0 DEF WorkerType, SwapLock, Memory, workers, stopper, history
  <2> QED BY <2>1, <2>2, <2>3
<1>6. CASE Relock(f)
  <2>1. MemoryType'
    <3>1. \E place \in Places : Goto(f, place)
      BY <1>6, <1>0 DEF Relock, Places, Opening, Spawning, Ticking
    <3>2. [mem[f] EXCEPT !.locked = TRUE]
            \in Memory
      BY <1>6, <1>0, BlankMemory DEF Memory
    <3>3. mem' = mem \/ \E n \in Memory : Set(f, n)
      BY <1>6, <3>2 DEF Relock, Set
    <3>4. seen' = seen \/ \E s \in LockRecords : seen' = [seen EXCEPT ![f] = s]
      BY <1>6, <1>0 DEF Relock, workers
    <3> QED BY <1>0, <3>1, <3>3, <3>4, MoveTypes
  <2>2. StoreType'
    BY <1>6, <1>0 DEF StoreType, Relock, Memory, workers, stopper, history
  <2>3. WorkerType'
    BY <1>6, <1>0 DEF WorkerType, Relock, Memory, workers, stopper, history
  <2> QED BY <2>1, <2>2, <2>3
<1>7. CASE RecordOwner(f)
  <2>1. MemoryType'
    <3>1. \E place \in Places : Goto(f, place)
      BY <1>7, <1>0 DEF RecordOwner, Places, Opening, Spawning, Ticking
    <3>3. mem' = mem \/ \E n \in Memory : Set(f, n)
      BY <1>7, <1>0, BlankMemory DEF RecordOwner, Set, Memory
    <3>4. seen' = seen \/ \E s \in LockRecords : seen' = [seen EXCEPT ![f] = s]
      BY <1>7, <1>0 DEF RecordOwner, workers
    <3> QED BY <1>0, <3>1, <3>3, <3>4, MoveTypes
  <2>2. StoreType'
    BY <1>7, <1>0 DEF StoreType, RecordOwner, Memory, workers, stopper, history
  <2>3. WorkerType'
    BY <1>7, <1>0 DEF WorkerType, RecordOwner, Memory, workers, stopper, history
  <2> QED BY <2>1, <2>2, <2>3
<1>8. CASE DropGuard(f)
  <2>1. MemoryType'
    <3>1. \E place \in Places : Goto(f, place)
      BY <1>8, <1>0 DEF DropGuard, Places, Opening, Spawning, Ticking
    <3>3. mem' = mem \/ \E n \in Memory : Set(f, n)
      BY <1>8, <1>0, BlankMemory DEF DropGuard, Set, Memory
    <3>4. seen' = seen \/ \E s \in LockRecords : seen' = [seen EXCEPT ![f] = s]
      BY <1>8, <1>0 DEF DropGuard, workers
    <3> QED BY <1>0, <3>1, <3>3, <3>4, MoveTypes
  <2>2. StoreType'
    BY <1>8, <1>0 DEF StoreType, DropGuard, Memory, workers, stopper, history
  <2>3. WorkerType'
    BY <1>8, <1>0 DEF WorkerType, DropGuard, Memory, workers, stopper, history
  <2> QED BY <2>1, <2>2, <2>3
<1>9. CASE OpenFails(f)
  <2>1. MemoryType'
    <3>1. \E place \in Places : Goto(f, place)
      BY <1>9, <1>0 DEF OpenFails, Places, Opening, Spawning, Ticking
    <3>3. mem' = mem \/ \E n \in Memory : Set(f, n)
      BY <1>9, <1>0, BlankMemory DEF OpenFails, Set, Memory
    <3>4. seen' = seen \/ \E s \in LockRecords : seen' = [seen EXCEPT ![f] = s]
      BY <1>9, <1>0 DEF OpenFails, workers
    <3> QED BY <1>0, <3>1, <3>3, <3>4, MoveTypes
  <2>2. StoreType'
    BY <1>9, <1>0 DEF StoreType, OpenFails, Memory, disk, workers, stopper, history
  <2>3. WorkerType'
    BY <1>9, <1>0 DEF WorkerType, OpenFails, Memory, disk, workers, stopper, history
  <2> QED BY <2>1, <2>2, <2>3
<1>10. CASE Abort(f)
  <2>1. MemoryType'
    <3>1. \E place \in Places : Goto(f, place)
      BY <1>10, <1>0 DEF Abort, Places, Opening, Spawning, Ticking
    <3>3. mem' = mem \/ \E n \in Memory : Set(f, n)
      BY <1>10, <1>0, BlankMemory DEF Abort, Set, Memory
    <3>4. seen' = seen \/ \E s \in LockRecords : seen' = [seen EXCEPT ![f] = s]
      BY <1>10, <1>0 DEF Abort, workers
    <3> QED BY <1>0, <3>1, <3>3, <3>4, MoveTypes
  <2>2. StoreType'
    BY <1>10, <1>0 DEF StoreType, Abort, Memory, workers, stopper, history
  <2>3. WorkerType'
    BY <1>10, <1>0 DEF WorkerType, Abort, Memory, workers, stopper, history
  <2> QED BY <2>1, <2>2, <2>3
<1> QED
  BY <1>1, <1>2, <1>3, <1>4, <1>5, <1>6, <1>7, <1>8, <1>9, <1>10 DEF Starting

(* So does the recovery of the store.                                       *)
LEMMA RecoveringTypes ==
  ASSUME TypeInv, PipeInv, NEW f \in Frontends, MemoryInv(f), WorkerInv(f), CallInv(f),
         Recovering(f)
  PROVE  TypeInv'
<1> USE ServiceAssumption, MishapBound, LockTypes DEF TypeInv
<1>0. MemoryType /\ mem[f] \in Memory /\ lock \in LockRecords
  BY DEF MemoryType, StoreType
<1>1. ASSUME NEW w \in Epochs, CleanEpoch(f, w) PROVE TypeInv'
  <2>1. MemoryType'
    <3>1. \E place \in Places : Goto(f, place)
      BY <1>1, <1>0 DEF CleanEpoch, Places, Opening, Spawning, Ticking
    <3>2. [mem[f] EXCEPT !.epoch = w]
            \in Memory
      BY <1>1, <1>0, BlankMemory DEF Memory
    <3>3. mem' = mem \/ \E n \in Memory : Set(f, n)
      BY <1>1, <3>2 DEF CleanEpoch, Set
    <3>4. seen' = seen \/ \E s \in LockRecords : seen' = [seen EXCEPT ![f] = s]
      BY <1>1, <1>0 DEF CleanEpoch, workers
    <3> QED BY <1>0, <3>1, <3>3, <3>4, MoveTypes
  <2>2. StoreType'
    BY <1>1, <1>0 DEF StoreType, CleanEpoch, Memory, workers, stopper, history
  <2>3. WorkerType'
    BY <1>1, <1>0 DEF WorkerType, CleanEpoch, Memory, workers, stopper, history
  <2> QED BY <2>1, <2>2, <2>3
<1>2. CASE EpochRemoved(f)
  <2>1. MemoryType'
    <3>1. \E place \in Places : Goto(f, place)
      BY <1>2, <1>0 DEF EpochRemoved, Places, Opening, Spawning, Ticking
    <3>2. [mem[f] EXCEPT !.epoch = None]
            \in Memory
      BY <1>2, <1>0, BlankMemory DEF Memory
    <3>3. \E n \in Memory : Set(f, n)
      BY <1>2, <3>2 DEF EpochRemoved, Set
    <3>4. seen' = seen \/ \E s \in LockRecords : seen' = [seen EXCEPT ![f] = s]
      BY <1>2, <1>0 DEF EpochRemoved, workers
    <3> QED BY <1>0, <3>1, <3>3, <3>4, MoveTypes
  <2>2. StoreType'
    BY <1>2, <1>0 DEF StoreType, EpochRemoved, Memory, workers, stopper, history
  <2>3. WorkerType'
    BY <1>2, <1>0 DEF WorkerType, EpochRemoved, Memory, workers, stopper, history
  <2> QED BY <2>1, <2>2, <2>3
<1>3. CASE EpochsClean(f)
  <2>1. MemoryType'
    <3>1. \E place \in Places : Goto(f, place)
      BY <1>3, <1>0 DEF EpochsClean, Places, Opening, Spawning, Ticking
    <3>3. mem' = mem \/ \E n \in Memory : Set(f, n)
      BY <1>3, <1>0, BlankMemory DEF EpochsClean, Set, Memory
    <3>4. seen' = seen \/ \E s \in LockRecords : seen' = [seen EXCEPT ![f] = s]
      BY <1>3, <1>0 DEF EpochsClean, workers
    <3> QED BY <1>0, <3>1, <3>3, <3>4, MoveTypes
  <2>2. StoreType'
    BY <1>3, <1>0 DEF StoreType, EpochsClean, Memory, disk, workers, stopper, history
  <2>3. WorkerType'
    BY <1>3, <1>0 DEF WorkerType, EpochsClean, Memory, disk, workers, stopper, history
  <2> QED BY <2>1, <2>2, <2>3
<1>4. CASE Load(f)
  <2>1. MemoryType'
    <3>1. \E place \in Places : Goto(f, place)
      BY <1>4, <1>0 DEF Load, Places, Opening, Spawning, Ticking
    <3>2. [mem[f] EXCEPT !.admissions = Admitted, !.results = Finished]
            \in Memory
      BY <1>4, <1>0, BlankMemory DEF Admitted, Finished, Memory
    <3>3. mem' = mem \/ \E n \in Memory : Set(f, n)
      BY <1>4, <3>2 DEF Load, Set
    <3>4. seen' = seen \/ \E s \in LockRecords : seen' = [seen EXCEPT ![f] = s]
      BY <1>4, <1>0 DEF Load, workers
    <3> QED BY <1>0, <3>1, <3>3, <3>4, MoveTypes
  <2>2. StoreType'
    BY <1>4, <1>0 DEF StoreType, Load, Memory, disk, workers, stopper, history
  <2>3. WorkerType'
    BY <1>4, <1>0 DEF WorkerType, Load, Memory, disk, workers, stopper, history
  <2> QED BY <2>1, <2>2, <2>3
<1>5. CASE Settle(f)
  <2>1. MemoryType'
    <3>1. pc' = pc \/ \E place \in Places : Goto(f, place)
      BY <1>5, <1>0 DEF Settle, Places, Opening, Spawning, Ticking
    <3>3. mem' = mem \/ \E n \in Memory : Set(f, n)
      BY <1>5, <1>0, BlankMemory DEF Settle, Set, Memory
    <3>4. seen' = seen \/ \E s \in LockRecords : seen' = [seen EXCEPT ![f] = s]
      BY <1>5, <1>0 DEF Settle, workers
    <3> QED BY <1>0, <3>1, <3>3, <3>4, MoveTypes
  <2>2. StoreType'
    <3>1. results' = results \/ \E d : results' = [results EXCEPT ![d] = "interrupted"]
      BY <1>5 DEF Settle
    <3>2. UNCHANGED <<guard, lock, epochDir, admissions, stopFile, asker>>
      BY <1>5 DEF Settle, stopper
    <3> QED BY <3>1, <3>2 DEF StoreType
  <2>3. WorkerType'
    BY <1>5, <1>0 DEF WorkerType, Settle, Memory, workers, stopper, history
  <2> QED BY <2>1, <2>2, <2>3
<1>6. CASE DropOldStop(f)
  <2>1. MemoryType'
    <3>1. \E place \in Places : Goto(f, place)
      BY <1>6, <1>0 DEF DropOldStop, Places, Opening, Spawning, Ticking
    <3>3. mem' = mem \/ \E n \in Memory : Set(f, n)
      BY <1>6, <1>0, BlankMemory DEF DropOldStop, Set, Memory
    <3>4. seen' = seen \/ \E s \in LockRecords : seen' = [seen EXCEPT ![f] = s]
      BY <1>6, <1>0 DEF DropOldStop, workers
    <3> QED BY <1>0, <3>1, <3>3, <3>4, MoveTypes
  <2>2. StoreType'
    BY <1>6, <1>0 DEF StoreType, DropOldStop, Memory, workers, stopper, history
  <2>3. WorkerType'
    BY <1>6, <1>0 DEF WorkerType, DropOldStop, Memory, workers, stopper, history
  <2> QED BY <2>1, <2>2, <2>3
<1> QED
  BY <1>1, <1>2, <1>3, <1>4, <1>5, <1>6 DEF Recovering

(* So does the start of a worker.                                           *)
LEMMA SpawnTypes ==
  ASSUME TypeInv, PipeInv, NEW f \in Frontends, MemoryInv(f), WorkerInv(f), CallInv(f),
         Spawns(f)
  PROVE  TypeInv'
<1> USE ServiceAssumption, MishapBound, LockTypes DEF TypeInv
<1>0. MemoryType /\ mem[f] \in Memory /\ lock \in LockRecords
  BY DEF MemoryType, StoreType
<1>1. ASSUME NEW w \in Epochs, MakeEpoch(f, w) PROVE TypeInv'
  <2>1. MemoryType'
    <3>1. \E place \in Places : Goto(f, place)
      BY <1>1, <1>0 DEF MakeEpoch, Places, Opening, Spawning, Ticking
    <3>2. [mem[f] EXCEPT !.named = FALSE, !.operation = "initialization", !.epoch = w,
                         !.retiring = FALSE, !.state = "starting"]
            \in Memory
      BY <1>1, <1>0, BlankMemory, ZenonT(40) DEF Memory
    <3>3. \E n \in Memory : Set(f, n)
      BY <1>1, <3>2 DEF MakeEpoch, Set
    <3>4. seen' = seen \/ \E s \in LockRecords : seen' = [seen EXCEPT ![f] = s]
      BY <1>1, <1>0 DEF MakeEpoch
    <3> QED BY <1>0, <3>1, <3>3, <3>4, MoveTypes
  <2>2. StoreType'
    BY <1>1, <1>0 DEF StoreType, MakeEpoch, Memory, stopper, history
  <2>3. WorkerType'
    BY <1>1, <1>0 DEF WorkerType, MakeEpoch, Memory, stopper, history
  <2> QED BY <2>1, <2>2, <2>3
<1>2. CASE WriteEpoch(f)
  <2>1. MemoryType'
    <3>1. \E place \in Places : Goto(f, place)
      BY <1>2, <1>0 DEF WriteEpoch, Places, Opening, Spawning, Ticking
    <3>3. mem' = mem \/ \E n \in Memory : Set(f, n)
      BY <1>2, <1>0, BlankMemory DEF WriteEpoch, Set, Memory
    <3>4. seen' = seen \/ \E s \in LockRecords : seen' = [seen EXCEPT ![f] = s]
      BY <1>2, <1>0 DEF WriteEpoch, workers
    <3> QED BY <1>0, <3>1, <3>3, <3>4, MoveTypes
  <2>2. StoreType'
    BY <1>2, <1>0 DEF StoreType, WriteEpoch, Memory, workers, stopper, history
  <2>3. WorkerType'
    BY <1>2, <1>0 DEF WorkerType, WriteEpoch, Memory, workers, stopper, history
  <2> QED BY <2>1, <2>2, <2>3
<1>3. CASE SpawnWorker(f)
  <2>1. MemoryType'
    <3>1. \E place \in Places : Goto(f, place)
      BY <1>3, <1>0 DEF SpawnWorker, Places, Opening, Spawning, Ticking
    <3>2. [mem[f] EXCEPT !.handle = TRUE]
            \in Memory
      BY <1>3, <1>0, BlankMemory DEF Memory
    <3>3. \E n \in Memory : Set(f, n)
      BY <1>3, <3>2 DEF SpawnWorker, Set
    <3>4. seen' = seen \/ \E s \in LockRecords : seen' = [seen EXCEPT ![f] = s]
      BY <1>3, <1>0 DEF SpawnWorker
    <3> QED BY <1>0, <3>1, <3>3, <3>4, MoveTypes
  <2>2. StoreType'
    BY <1>3, <1>0 DEF StoreType, SpawnWorker, Memory, disk, stopper, history
  <2>3. WorkerType'
    BY <1>3, <1>0 DEF WorkerType, SpawnWorker, Memory, disk, stopper, history
  <2> QED BY <2>1, <2>2, <2>3
<1>4. CASE NameWorker(f)
  <2>1. MemoryType'
    <3>1. \E place \in Places : Goto(f, place)
      BY <1>4, <1>0 DEF NameWorker, Places, Opening, Spawning, Ticking
    <3>2. [mem[f] EXCEPT !.named = TRUE]
            \in Memory
      BY <1>4, <1>0, BlankMemory DEF Memory
    <3>3. \E n \in Memory : Set(f, n)
      BY <1>4, <3>2 DEF NameWorker, Set
    <3>4. seen' = seen \/ \E s \in LockRecords : seen' = [seen EXCEPT ![f] = s]
      BY <1>4, <1>0 DEF NameWorker, workers
    <3> QED BY <1>0, <3>1, <3>3, <3>4, MoveTypes
  <2>2. StoreType'
    BY <1>4, <1>0 DEF StoreType, NameWorker, Memory, workers, stopper, history
  <2>3. WorkerType'
    BY <1>4, <1>0 DEF WorkerType, NameWorker, Memory, workers, stopper, history
  <2> QED BY <2>1, <2>2, <2>3
<1>5. CASE RegisterWorker(f)
  <2>1. MemoryType'
    <3>1. \E place \in Places : Goto(f, place)
      BY <1>5, <1>0 DEF RegisterWorker, Places, Opening, Spawning, Ticking
    <3>3. mem' = mem \/ \E n \in Memory : Set(f, n)
      BY <1>5, <1>0, BlankMemory DEF RegisterWorker, Set, Memory
    <3>4. seen' = seen \/ \E s \in LockRecords : seen' = [seen EXCEPT ![f] = s]
      BY <1>5, <1>0 DEF RegisterWorker, workers
    <3> QED BY <1>0, <3>1, <3>3, <3>4, MoveTypes
  <2>2. StoreType'
    BY <1>5, <1>0 DEF StoreType, RegisterWorker, Memory, workers, stopper, history
  <2>3. WorkerType'
    BY <1>5, <1>0 DEF WorkerType, RegisterWorker, Memory, workers, stopper, history
  <2> QED BY <2>1, <2>2, <2>3
<1> QED
  BY <1>1, <1>2, <1>3, <1>4, <1>5 DEF Spawns

(* So does the service.                                                     *)
LEMMA ServeTypes ==
  ASSUME TypeInv, PipeInv, NEW f \in Frontends, MemoryInv(f), WorkerInv(f), CallInv(f),
         Serves(f)
  PROVE  TypeInv'
<1> USE ServiceAssumption, MishapBound, LockTypes DEF TypeInv
<1>0. MemoryType /\ mem[f] \in Memory /\ lock \in LockRecords
  BY DEF MemoryType, StoreType
<1>1. ASSUME NEW d \in Docs, Admit(f, d) PROVE TypeInv'
  <2>1. MemoryType'
    <3>1. \E place \in Places : Goto(f, place)
      BY <1>1, <1>0 DEF Admit, Places, Opening, Spawning, Ticking
    <3>5. (mem[f].admissions \cup {d}) \in SUBSET Docs BY <1>0 DEF Memory
    <3>2. Reserved(mem[f], d) \in Memory
      BY <1>0, <3>5 DEF Reserved, Memory
    <3>3. \E n \in Memory : Set(f, n)
      BY <1>1, <3>2 DEF Admit, Set
    <3>4. seen' = seen \/ \E s \in LockRecords : seen' = [seen EXCEPT ![f] = s]
      BY <1>1, <1>0 DEF Admit, workers
    <3> QED BY <1>0, <3>1, <3>3, <3>4, MoveTypes
  <2>2. StoreType'
    BY <1>1, <1>0 DEF StoreType, Admit, Memory, workers, stopper, history
  <2>3. WorkerType'
    BY <1>1, <1>0 DEF WorkerType, Admit, Memory, workers, stopper, history
  <2> QED BY <2>1, <2>2, <2>3
<1>2. CASE Dispatch(f)
  <2>1. MemoryType'
    <3>1. \E place \in Places : Goto(f, place)
      BY <1>2, <1>0 DEF Dispatch, Places, Opening, Spawning, Ticking
    <3>3. mem' = mem \/ \E n \in Memory : Set(f, n)
      BY <1>2, <1>0, BlankMemory DEF Dispatch, Set, Memory
    <3>4. seen' = seen \/ \E s \in LockRecords : seen' = [seen EXCEPT ![f] = s]
      BY <1>2, <1>0 DEF Dispatch
    <3> QED BY <1>0, <3>1, <3>3, <3>4, MoveTypes
  <2>2. StoreType'
    BY <1>2, <1>0 DEF StoreType, Dispatch, Memory, disk, stopper
  <2>3. WorkerType'
    BY <1>2 DEF WorkerType, Dispatch, MemoryInv, CallInv, disk
  <2> QED BY <2>1, <2>2, <2>3
<1>3. CASE Reported(f)
  <2>1. MemoryType'
    <3>1. \E place \in Places : Goto(f, place)
      BY <1>3, <1>0 DEF Reported, Places, Opening, Spawning, Ticking
    <3>3. mem' = mem \/ \E n \in Memory : Set(f, n)
      BY <1>3, <1>0, BlankMemory DEF Reported, Set, Memory
    <3>4. seen' = seen \/ \E s \in LockRecords : seen' = [seen EXCEPT ![f] = s]
      BY <1>3, <1>0 DEF Reported, workers
    <3> QED BY <1>0, <3>1, <3>3, <3>4, MoveTypes
  <2>2. StoreType'
    BY <1>3, <1>0 DEF StoreType, Reported, Memory, disk, workers, stopper, history
  <2>3. WorkerType'
    BY <1>3, <1>0 DEF WorkerType, Reported, Memory, disk, workers, stopper, history
  <2> QED BY <2>1, <2>2, <2>3
<1>4. CASE StoreFull(f)
  <2>1. MemoryType'
    <3>1. pc' = pc \/ \E place \in Places : Goto(f, place)
      BY <1>4, <1>0 DEF StoreFull, Places, Opening, Spawning, Ticking
    <3>2. [mem[f] EXCEPT !.state = "faulted"]
            \in Memory
      BY <1>4, <1>0, BlankMemory DEF Memory
    <3>3. \E n \in Memory : Set(f, n)
      BY <1>4, <3>2 DEF StoreFull, Set
    <3>4. seen' = seen \/ \E s \in LockRecords : seen' = [seen EXCEPT ![f] = s]
      BY <1>4, <1>0 DEF StoreFull, workers
    <3> QED BY <1>0, <3>1, <3>3, <3>4, MoveTypes
  <2>2. StoreType'
    BY <1>4, <1>0 DEF StoreType, StoreFull, Memory, disk, workers, stopper, history
  <2>3. WorkerType'
    BY <1>4, <1>0 DEF WorkerType, StoreFull, Memory, disk, workers, stopper, history
  <2> QED BY <2>1, <2>2, <2>3
<1>5. CASE TickBegins(f)
  <2>1. MemoryType'
    <3>1. \E place \in Places : Goto(f, place)
      BY <1>5, <1>0 DEF TickBegins, Places, Opening, Spawning, Ticking
    <3>2. BeginStop(mem[f])
            \in Memory
      BY <1>5, <1>0, BlankMemory DEF BeginStop, Memory
    <3>3. \E n \in Memory : Set(f, n)
      BY <1>5, <1>0, <3>2 DEF TickBegins, Set
    <3>4. seen' = seen \/ \E s \in LockRecords : seen' = [seen EXCEPT ![f] = s]
      BY <1>5, <1>0 DEF TickBegins, workers
    <3> QED BY <1>0, <3>1, <3>3, <3>4, MoveTypes
  <2>2. StoreType'
    BY <1>5, <1>0 DEF StoreType, TickBegins, Memory, disk, workers, stopper, history
  <2>3. WorkerType'
    BY <1>5, <1>0 DEF WorkerType, TickBegins, Memory, disk, workers, stopper, history
  <2> QED BY <2>1, <2>2, <2>3
<1>6. CASE WatchIdle(f)
  <2>1. MemoryType'
    <3>1. \E place \in Places : Goto(f, place)
      BY <1>6, <1>0 DEF WatchIdle, Places, Opening, Spawning, Ticking
    <3>3. mem' = mem \/ \E n \in Memory : Set(f, n)
      BY <1>6, <1>0, BlankMemory DEF WatchIdle, Set, Memory
    <3>4. seen' = seen \/ \E s \in LockRecords : seen' = [seen EXCEPT ![f] = s]
      BY <1>6, <1>0 DEF WatchIdle, workers
    <3> QED BY <1>0, <3>1, <3>3, <3>4, MoveTypes
  <2>2. StoreType'
    BY <1>6, <1>0 DEF StoreType, WatchIdle, Memory, disk, workers, stopper, history
  <2>3. WorkerType'
    BY <1>6, <1>0 DEF WorkerType, WatchIdle, Memory, disk, workers, stopper, history
  <2> QED BY <2>1, <2>2, <2>3
<1>7. CASE WatchEvent(f)
  <2>1. MemoryType'
    <3>1. \E place \in Places : Goto(f, place)
      BY <1>7, <1>0 DEF WatchEvent, Places, Opening, Spawning, Ticking
    <3>2. Opened(mem[f]) \in Memory /\ [mem[f] EXCEPT !.retiring = TRUE] \in Memory
      BY <1>0, ZenonT(40) DEF Opened, Memory
    <3>3. \E n \in Memory : Set(f, n) BY <1>7, <3>2 DEF WatchEvent
    <3>4. seen' = seen \/ \E s \in LockRecords : seen' = [seen EXCEPT ![f] = s]
      BY <1>7, <1>0 DEF WatchEvent
    <3> QED BY <1>0, <3>1, <3>3, <3>4, MoveTypes
  <2>2. StoreType'
    BY <1>7, <1>0 DEF StoreType, WatchEvent, Memory, disk, stopper, history
  <2>3. WorkerType'
    BY <1>7 DEF WorkerType, WatchEvent, Watched, Read, MemoryInv, disk, stopper, history
  <2> QED BY <2>1, <2>2, <2>3
<1>8. CASE WatchResult(f)
  <2>1. MemoryType'
    <3>1. \E place \in Places : Goto(f, place)
      BY <1>8, <1>0 DEF WatchResult, Places, Opening, Spawning, Ticking
    <3>0. mem[f].active \in Docs BY <1>8, <1>0 DEF WatchResult, Answered, Memory
    <3>2. [mem[f] EXCEPT !.results = @ \cup {mem[f].active}] \in Memory
      BY <1>0, <3>0 DEF Memory
    <3>3. \E n \in Memory : Set(f, n)
      BY <1>8, <3>2 DEF WatchResult, Set
    <3>4. seen' = seen \/ \E s \in LockRecords : seen' = [seen EXCEPT ![f] = s]
      BY <1>8, <1>0 DEF WatchResult
    <3> QED BY <1>0, <3>1, <3>3, <3>4, MoveTypes
  <2>2. StoreType'
    <3>1. \E d, r : r \in {"success", "error"} /\ results' = [results EXCEPT ![d] = r]
      BY <1>8 DEF WatchResult, Answered
    <3>2. UNCHANGED <<guard, lock, epochDir, admissions, stopFile, asker>>
      BY <1>8 DEF WatchResult, stopper
    <3>3. results' \in [Docs -> {None, "success", "error", "interrupted"}]
      <4>1. PICK d, r : r \in {"success", "error"} /\ results' = [results EXCEPT ![d] = r]
        BY <3>1
      <4>2. results \in [Docs -> {None, "success", "error", "interrupted"}]
        BY DEF StoreType
      <4> QED BY <4>1, <4>2
    <3> QED BY <3>2, <3>3 DEF StoreType
  <2>3. WorkerType'
    BY <1>8 DEF WorkerType, WatchResult, Answered, Watched, Read, MemoryInv, stopper,
       history
  <2> QED BY <2>1, <2>2, <2>3
<1>9. CASE FreeSlot(f)
  <2>1. MemoryType'
    <3>1. \E place \in Places : Goto(f, place)
      BY <1>9, <1>0 DEF FreeSlot, Places, Opening, Spawning, Ticking
    <3>2. [Opened(mem[f]) EXCEPT !.active = None]
            \in Memory
      <4>1. Opened(mem[f]) \in Memory BY <1>0, ZenonT(40) DEF Opened, Memory
      <4> QED BY <4>1 DEF Memory
    <3>3. \E n \in Memory : Set(f, n)
      BY <1>9, <3>2 DEF FreeSlot, Set
    <3>4. seen' = seen \/ \E s \in LockRecords : seen' = [seen EXCEPT ![f] = s]
      BY <1>9, <1>0 DEF FreeSlot, workers
    <3> QED BY <1>0, <3>1, <3>3, <3>4, MoveTypes
  <2>2. StoreType'
    BY <1>9, <1>0 DEF StoreType, FreeSlot, Memory, disk, workers, stopper, history
  <2>3. WorkerType'
    BY <1>9, <1>0 DEF WorkerType, FreeSlot, Memory, disk, workers, stopper, history
  <2> QED BY <2>1, <2>2, <2>3
<1>10. CASE ReapIdle(f)
  <2>1. MemoryType'
    <3>1. \E place \in Places : Goto(f, place)
      BY <1>10, <1>0 DEF ReapIdle, Places, Opening, Spawning, Ticking
    <3>2. [mem[f] EXCEPT !.state = "faulted"]
            \in Memory
      BY <1>10, <1>0, BlankMemory DEF Memory
    <3>3. mem' = mem \/ \E n \in Memory : Set(f, n)
      BY <1>10, <3>2 DEF ReapIdle, Set
    <3>4. seen' = seen \/ \E s \in LockRecords : seen' = [seen EXCEPT ![f] = s]
      BY <1>10, <1>0 DEF ReapIdle, workers
    <3> QED BY <1>0, <3>1, <3>3, <3>4, MoveTypes
  <2>2. StoreType'
    BY <1>10, <1>0 DEF StoreType, ReapIdle, Memory, disk, workers, stopper, history
  <2>3. WorkerType'
    BY <1>10, <1>0 DEF WorkerType, ReapIdle, Memory, disk, workers, stopper, history
  <2> QED BY <2>1, <2>2, <2>3
<1>11. CASE Cleans(f)
  <2>1. MemoryType'
    <3>1. \E place \in Places : Goto(f, place)
      BY <1>11, <1>0 DEF Cleans, Places, Opening, Spawning, Ticking
    <3>3. mem' = mem \/ \E n \in Memory : Set(f, n)
      BY <1>11, <1>0, BlankMemory DEF Cleans, Set, Memory
    <3>4. seen' = seen \/ \E s \in LockRecords : seen' = [seen EXCEPT ![f] = s]
      BY <1>11, <1>0 DEF Cleans, workers
    <3> QED BY <1>0, <3>1, <3>3, <3>4, MoveTypes
  <2>2. StoreType'
    BY <1>11, <1>0 DEF StoreType, Cleans, Memory, workers, stopper, history
  <2>3. WorkerType'
    BY <1>11, <1>0 DEF WorkerType, Cleans, Memory, workers, stopper, history
  <2> QED BY <2>1, <2>2, <2>3
<1>12. CASE Reaped(f)
  <2>1. MemoryType'
    <3>1. \E place \in Places : Goto(f, place)
      BY <1>12, <1>0 DEF Reaped, Places, Opening, Spawning, Ticking
    <3>2. [mem[f] EXCEPT !.handle = FALSE, !.named = FALSE, !.retiring = FALSE,
                         !.operation = "idle"]
            \in Memory
      BY <1>12, <1>0, BlankMemory, ZenonT(40) DEF Memory
    <3>3. \E n \in Memory : Set(f, n)
      BY <1>12, <3>2 DEF Reaped, Set
    <3>4. seen' = seen \/ \E s \in LockRecords : seen' = [seen EXCEPT ![f] = s]
      BY <1>12, <1>0 DEF Reaped, workers
    <3> QED BY <1>0, <3>1, <3>3, <3>4, MoveTypes
  <2>2. StoreType'
    BY <1>12, <1>0 DEF StoreType, Reaped, Memory, workers, stopper, history
  <2>3. WorkerType'
    BY <1>12, <1>0 DEF WorkerType, Reaped, Memory, workers, stopper, history
  <2> QED BY <2>1, <2>2, <2>3
<1>13. CASE DrainEnds(f)
  <2>1. MemoryType'
    <3>1. \E place \in Places : Goto(f, place)
      BY <1>13, <1>0 DEF DrainEnds, Places, Opening, Spawning, Ticking
    <3>2. [mem[f] EXCEPT !.state = "stopped"]
            \in Memory
      BY <1>13, <1>0, BlankMemory DEF Memory
    <3>3. \E n \in Memory : Set(f, n)
      BY <1>13, <3>2 DEF DrainEnds, Set
    <3>4. seen' = seen \/ \E s \in LockRecords : seen' = [seen EXCEPT ![f] = s]
      BY <1>13, <1>0 DEF DrainEnds, workers
    <3> QED BY <1>0, <3>1, <3>3, <3>4, MoveTypes
  <2>2. StoreType'
    BY <1>13, <1>0 DEF StoreType, DrainEnds, Memory, disk, workers, stopper, history
  <2>3. WorkerType'
    BY <1>13, <1>0 DEF WorkerType, DrainEnds, Memory, disk, workers, stopper, history
  <2> QED BY <2>1, <2>2, <2>3
<1>14. CASE AsksToClose(f)
  <2>1. MemoryType'
    <3>1. \E place \in Places : Goto(f, place)
      BY <1>14, <1>0 DEF AsksToClose, Places, Opening, Spawning, Ticking
    <3>2. [mem[f] EXCEPT !.operation = "shutdown"]
            \in Memory
      BY <1>14, <1>0, BlankMemory DEF Memory
    <3>3. \E n \in Memory : Set(f, n)
      BY <1>14, <3>2 DEF AsksToClose, Set
    <3>4. seen' = seen \/ \E s \in LockRecords : seen' = [seen EXCEPT ![f] = s]
      BY <1>14, <1>0 DEF AsksToClose
    <3> QED BY <1>0, <3>1, <3>3, <3>4, MoveTypes
  <2>2. StoreType'
    BY <1>14, <1>0 DEF StoreType, AsksToClose, Memory, disk, stopper, history
  <2>3. WorkerType'
    BY <1>14, <1>0 DEF WorkerType, AsksToClose, Memory, disk, stopper, history
  <2> QED BY <2>1, <2>2, <2>3
<1>15. CASE DrainWaits(f)
  <2>1. MemoryType'
    <3>1. \E place \in Places : Goto(f, place)
      BY <1>15, <1>0 DEF DrainWaits, Places, Opening, Spawning, Ticking
    <3>3. mem' = mem \/ \E n \in Memory : Set(f, n)
      BY <1>15, <1>0, BlankMemory DEF DrainWaits, Set, Memory
    <3>4. seen' = seen \/ \E s \in LockRecords : seen' = [seen EXCEPT ![f] = s]
      BY <1>15, <1>0 DEF DrainWaits, workers
    <3> QED BY <1>0, <3>1, <3>3, <3>4, MoveTypes
  <2>2. StoreType'
    BY <1>15, <1>0 DEF StoreType, DrainWaits, Memory, disk, workers, stopper, history
  <2>3. WorkerType'
    BY <1>15, <1>0 DEF WorkerType, DrainWaits, Memory, disk, workers, stopper, history
  <2> QED BY <2>1, <2>2, <2>3
<1>16. CASE TickEnds(f)
  <2>1. MemoryType'
    <3>1. \E place \in Places : Goto(f, place)
      BY <1>16, <1>0 DEF TickEnds, Places, Opening, Spawning, Ticking
    <3>3. mem' = mem \/ \E n \in Memory : Set(f, n)
      BY <1>16, <1>0, BlankMemory DEF TickEnds, Set, Memory
    <3>4. seen' = seen \/ \E s \in LockRecords : seen' = [seen EXCEPT ![f] = s]
      BY <1>16, <1>0 DEF TickEnds, workers
    <3> QED BY <1>0, <3>1, <3>3, <3>4, MoveTypes
  <2>2. StoreType'
    BY <1>16, <1>0 DEF StoreType, TickEnds, Memory, disk, workers, stopper, history
  <2>3. WorkerType'
    BY <1>16, <1>0 DEF WorkerType, TickEnds, Memory, disk, workers, stopper, history
  <2> QED BY <2>1, <2>2, <2>3
<1>17. CASE Interrupt(f)
  <2>1. MemoryType'
    <3>1. \E place \in Places : Goto(f, place)
      BY <1>17, <1>0 DEF Interrupt, Places, Opening, Spawning, Ticking
    <3>2. [mem[f] EXCEPT !.state = "stopping", !.ticking = pc[f] \notin Ticking] \in Memory
      <4>1. (pc[f] \notin Ticking) \in BOOLEAN OBVIOUS
      <4> HIDE DEF Ticking
      <4> QED BY <1>0, <4>1, ZenonT(40) DEF Memory
    <3>3. \E n \in Memory : Set(f, n) BY <1>17, <3>2 DEF Interrupt
    <3>4. seen' = seen \/ \E s \in LockRecords : seen' = [seen EXCEPT ![f] = s]
      BY <1>17, <1>0 DEF Interrupt, workers
    <3> QED BY <1>0, <3>1, <3>3, <3>4, MoveTypes
  <2>2. StoreType'
    BY <1>17, <1>0 DEF StoreType, Interrupt, Memory, disk, workers, stopper
  <2>3. WorkerType'
    BY <1>17, <1>0 DEF WorkerType, Interrupt, Memory, disk, workers, stopper
  <2> QED BY <2>1, <2>2, <2>3
<1>18. CASE GivesUp(f)
  <2>1. MemoryType'
    <3>1. \E place \in Places : Goto(f, place)
      BY <1>18, <1>0 DEF GivesUp, Places, Opening, Spawning, Ticking
    <3>3. mem' = mem \/ \E n \in Memory : Set(f, n)
      BY <1>18 DEF GivesUp, GivenUp
    <3>4. seen' = seen \/ \E s \in LockRecords : seen' = [seen EXCEPT ![f] = s]
      BY <1>18, <1>0 DEF GivesUp
    <3> QED BY <1>0, <3>1, <3>3, <3>4, MoveTypes
  <2>2. StoreType'
    <3>1. results' = results \/ \E d : results' = [results EXCEPT ![d] = "interrupted"]
      BY <1>18 DEF GivesUp, GivenUp, Published
    <3> QED BY <1>18, <3>1 DEF StoreType, GivesUp, stopper
  <2>3. WorkerType'
    <3>1. expired' \subseteq Docs /\ mishaps' \in 0 .. MaxMishaps
      BY <1>18 DEF GivesUp, GivenUp, Published, WorkerType
    <3>2. call' \in [Epochs -> {None, "init", "close"} \cup Docs]
          /\ reply' \in [Epochs -> {None, "ready", "closed", "success", "error", "bad"}]
      BY <1>18 DEF WorkerType, GivesUp, Watched, Read, MemoryInv
    <3> QED BY <1>18, <3>1, <3>2 DEF WorkerType, GivesUp
  <2> QED BY <2>1, <2>2, <2>3
<1> QED
  BY <1>1, <1>2, <1>3, <1>4, <1>5, <1>6, <1>7, <1>8, <1>9, <1>10, <1>11, <1>12, <1>13,
     <1>14, <1>15, <1>16, <1>17, <1>18 DEF Serves

(* So does the end.                                                         *)
LEMMA EndTypes ==
  ASSUME TypeInv, PipeInv, NEW f \in Frontends, MemoryInv(f), WorkerInv(f), CallInv(f),
         Ends(f)
  PROVE  TypeInv'
<1> USE ServiceAssumption, MishapBound, LockTypes DEF TypeInv
<1>0. MemoryType /\ mem[f] \in Memory /\ lock \in LockRecords
  BY DEF MemoryType, StoreType
<1>1. CASE Leave(f)
  <2>1. MemoryType'
    <3>1. \E place \in Places : Goto(f, place)
      BY <1>1, <1>0 DEF Leave, Places, Opening, Spawning, Ticking
    <3>3. mem' = mem \/ \E n \in Memory : Set(f, n)
      BY <1>1, <1>0, BlankMemory DEF Leave, Set, Memory
    <3>4. seen' = seen \/ \E s \in LockRecords : seen' = [seen EXCEPT ![f] = s]
      BY <1>1, <1>0 DEF Leave, workers
    <3> QED BY <1>0, <3>1, <3>3, <3>4, MoveTypes
  <2>2. StoreType'
    BY <1>1, <1>0 DEF StoreType, Leave, Memory, workers, stopper, history
  <2>3. WorkerType'
    BY <1>1, <1>0 DEF WorkerType, Leave, Memory, workers, stopper, history
  <2> QED BY <2>1, <2>2, <2>3
<1>2. CASE Unlock(f)
  <2>1. MemoryType'
    <3>1. \E place \in Places : Goto(f, place)
      BY <1>2, <1>0 DEF Unlock, Places, Opening, Spawning, Ticking
    <3>3. mem' = mem \/ \E n \in Memory : Set(f, n)
      BY <1>2, <1>0, BlankMemory DEF Unlock, Set, Memory
    <3>4. seen' = seen \/ \E s \in LockRecords : seen' = [seen EXCEPT ![f] = s]
      BY <1>2, <1>0 DEF Unlock, workers
    <3> QED BY <1>0, <3>1, <3>3, <3>4, MoveTypes
  <2>2. StoreType'
    BY <1>2, <1>0 DEF StoreType, Unlock, Memory, workers, stopper, history
  <2>3. WorkerType'
    BY <1>2, <1>0 DEF WorkerType, Unlock, Memory, workers, stopper, history
  <2> QED BY <2>1, <2>2, <2>3
<1>3. CASE Tidy(f)
  <2>1. MemoryType'
    <3>1. \E place \in Places : Goto(f, place)
      BY <1>3, <1>0 DEF Tidy, Places, Opening, Spawning, Ticking
    <3>2. Blank
            \in Memory
      BY <1>3, <1>0, BlankMemory DEF Memory
    <3>3. \E n \in Memory : Set(f, n)
      BY <1>3, <3>2 DEF Tidy, Set
    <3>4. seen' = seen \/ \E s \in LockRecords : seen' = [seen EXCEPT ![f] = s]
      BY <1>3, <1>0 DEF Tidy, workers
    <3> QED BY <1>0, <3>1, <3>3, <3>4, MoveTypes
  <2>2. StoreType'
    BY <1>3, <1>0 DEF StoreType, Tidy, Memory, workers, stopper, history
  <2>3. WorkerType'
    BY <1>3, <1>0 DEF WorkerType, Tidy, Memory, workers, stopper, history
  <2> QED BY <2>1, <2>2, <2>3
<1>4. CASE Crash(f)
  <2>1. MemoryType'
    <3>1. \E place \in Places : Goto(f, place)
      BY <1>4, <1>0 DEF Crash, Places, Opening, Spawning, Ticking
    <3>2. Blank
            \in Memory
      BY <1>4, <1>0, BlankMemory DEF Memory
    <3>3. \E n \in Memory : Set(f, n)
      BY <1>4, <3>2 DEF Crash, Set
    <3>4. seen' = seen \/ \E s \in LockRecords : seen' = [seen EXCEPT ![f] = s]
      BY <1>4, <1>0 DEF Crash, workers
    <3> QED BY <1>0, <3>1, <3>3, <3>4, MoveTypes
  <2>2. StoreType'
    BY <1>4, <1>0 DEF StoreType, Crash, Memory, disk, workers, stopper, history
  <2>3. WorkerType'
    BY <1>4, <1>0 DEF WorkerType, Crash, Memory, disk, workers, stopper, history
  <2> QED BY <2>1, <2>2, <2>3
<1> QED
  BY <1>1, <1>2, <1>3, <1>4 DEF Ends

(* So do workers, the operator and stop.R.                                  *)
LEMMA BesideTypes ==
  ASSUME TypeInv, Beside
  PROVE  TypeInv'
<1> USE ServiceAssumption, MishapBound, LockTypes DEF TypeInv
<1>1. ASSUME NEW w \in Epochs, WorkerAnswers(w) PROVE TypeInv'
  <2>1. MemoryType'
    BY <1>1 DEF MemoryType, WorkerAnswers, disk, stopper, history
  <2>2. StoreType'
    BY <1>1 DEF StoreType, WorkerAnswers, Memory, disk, stopper, history
  <2>3. WorkerType'
    BY <1>1 DEF WorkerType, WorkerAnswers, Memory, disk, stopper, history
  <2> QED BY <2>1, <2>2, <2>3
<1>2. ASSUME NEW w \in Epochs, WorkerMisanswers(w) PROVE TypeInv'
  <2>1. MemoryType'
    BY <1>2 DEF MemoryType, WorkerMisanswers, disk, stopper, history
  <2>2. StoreType'
    BY <1>2 DEF StoreType, WorkerMisanswers, Memory, disk, stopper, history
  <2>3. WorkerType'
    BY <1>2 DEF WorkerType, WorkerMisanswers, Memory, disk, stopper, history
  <2> QED BY <2>1, <2>2, <2>3
<1>3. ASSUME NEW w \in Epochs, WorkerDies(w) PROVE TypeInv'
  <2>1. MemoryType'
    BY <1>3 DEF MemoryType, WorkerDies, disk, stopper, history
  <2>2. StoreType'
    BY <1>3 DEF StoreType, WorkerDies, Memory, disk, stopper, history
  <2>3. WorkerType'
    BY <1>3 DEF WorkerType, WorkerDies, Memory, disk, stopper, history
  <2> QED BY <2>1, <2>2, <2>3
<1>4. CASE Inspect
  <2>1. MemoryType'
    BY <1>4 DEF MemoryType, Inspect, workers, stopper, history
  <2>2. StoreType'
    BY <1>4 DEF StoreType, Inspect, Memory, workers, stopper, history
  <2>3. WorkerType'
    BY <1>4 DEF WorkerType, Inspect, Memory, workers, stopper, history
  <2> QED BY <2>1, <2>2, <2>3
<1>5. CASE StopReads
  <2>1. MemoryType'
    BY <1>5 DEF MemoryType, StopReads, disk, workers, history
  <2>2. StoreType'
    <3>1. asker' \in Frontends \cup {None} BY <1>5 DEF StoreType, StopReads, LockRecords
    <3> QED BY <1>5, <3>1 DEF StoreType, StopReads, disk
  <2>3. WorkerType'
    BY <1>5 DEF WorkerType, StopReads, Memory, disk, workers, history
  <2> QED BY <2>1, <2>2, <2>3
<1>6. CASE StopWrites
  <2>1. MemoryType'
    BY <1>6 DEF MemoryType, StopWrites, workers, history
  <2>2. StoreType'
    BY <1>6 DEF StoreType, StopWrites, Memory, workers, history
  <2>3. WorkerType'
    BY <1>6 DEF WorkerType, StopWrites, Memory, workers, history
  <2> QED BY <2>1, <2>2, <2>3
<1>7. CASE UNCHANGED vars
  <2>1. MemoryType'
    BY <1>7 DEF MemoryType, vars, disk, workers, stopper, history
  <2>2. StoreType'
    BY <1>7 DEF StoreType, vars, Memory, disk, workers, stopper, history
  <2>3. WorkerType'
    BY <1>7 DEF WorkerType, vars, Memory, disk, workers, stopper, history
  <2> QED BY <2>1, <2>2, <2>3
<1> QED
  BY <1>1, <1>2, <1>3, <1>4, <1>5, <1>6, <1>7 DEF Beside

-----------------------------------------------------------------------------
(* The lock: one frontend at a time acts as its owner.                      *)
Owners == OneOwner /\ \A f \in Frontends : OwnerInv(f)

(* An owner that goes on as one: it does not touch the guard, and if it     *)
(* writes the lock it names itself.                                         *)
Rules(f) ==
  /\ pc[f] \in Ruling
  /\ pc' = pc \/ \E place \in Ruling \cup {"leave", "abort"} : Goto(f, place)
  /\ mem' = mem \/ \E n \in Memory : n.locked = mem[f].locked /\ Set(f, n)
  /\ UNCHANGED <<guard, seen>>
  /\ lock' = lock \/ \E v \in Epochs \cup {None} : lock' = OwnedBy(f, v)

(* Such an owner stays the only one.                                        *)
LEMMA RulesOwner ==
  ASSUME TypeInv, Owners, NEW f \in Frontends, Rules(f)
  PROVE  Owners'
<1>1. /\ pc[f] \in Owning \ {"record", "unguard", "leave", "unlock", "tidy"}
      /\ pc[f] \notin Guarding \cup Fresh \cup {"tidy"} /\ Alive(f)
  BY DEF Rules, Ruling, Owning, Guarding, Fresh, ServingAt, Ticking, Spawning, Alive
<1>2. Holds(f) BY <1>1 DEF Holds, Owners, OwnerInv
<1>3. \A g \in Frontends \ {f} : pc'[g] = pc[g] /\ mem'[g] = mem[g]
  BY DEF Rules, Goto, Set, TypeInv, MemoryType
<1>4. /\ pc'[f] \in Ruling \cup {"leave", "abort"}
      /\ mem'[f].locked
  BY <1>2 DEF Rules, Goto, Set, TypeInv, MemoryType, Holds
<1>5. /\ pc'[f] \notin Guarding \cup Fresh \cup {"tidy"} /\ Alive(f)'
  BY <1>4 DEF Rules, Ruling, Owning, Guarding, Fresh, ServingAt, Ticking, Spawning, Alive
<1>6. \A g \in Frontends : Holds(g)' = Holds(g)
  BY <1>2, <1>3, <1>4, <1>5 DEF Holds, Alive
<1>7. OneOwner' BY <1>6 DEF OneOwner, Owners
<1>8. \A g \in Frontends : Holds(g) => g = f BY <1>2 DEF Owners, OneOwner
<1>9. guard' = guard /\ seen' = seen BY DEF Rules
<1>10. lock' = lock \/ (lock'.there /\ lock'.frontend = f)
  BY DEF Rules, OwnedBy
<1>11. OwnerInv(f)'
  <2>1. pc'[f] # "judge" /\ pc'[f] \notin {"swap", "relock"} BY <1>5 DEF Fresh
  <2>2. lock'.there /\ lock'.frontend \in {f, None}
    BY <1>2, <1>10 DEF Owners, OwnerInv
  <2> QED BY <1>4, <1>5, <2>1, <2>2 DEF OwnerInv
<1>12. ASSUME NEW g \in Frontends \ {f} PROVE OwnerInv(g)'
  <2>1. ~Holds(g)' BY <1>6, <1>8
  <2>2. pc'[g] = pc[g] /\ mem'[g] = mem[g] /\ OwnerInv(g) BY <1>3 DEF Owners
  <2>3. pc[g] = "judge" => \A h \in Frontends : Holds(h)' => h = seen'[g].frontend
    BY <2>2, <1>6, <1>9 DEF OwnerInv
  <2>4. pc[g] \in {"swap", "relock"} => \A h \in Frontends : ~Holds(h)'
    BY <2>2, <1>6 DEF OwnerInv
  <2> QED BY <1>9, <2>1, <2>2, <2>3, <2>4 DEF OwnerInv
<1> QED BY <1>7, <1>11, <1>12 DEF Owners

(* Recovery, the start of a worker and the service leave the lock alone.    *)
LEMMA RulingSteps ==
  ASSUME TypeInv, TypeInv', NEW f \in Frontends, MemoryInv(f),
         Recovering(f) \/ Spawns(f) \/ Serves(f)
  PROVE  Rules(f)
<1>0. mem[f] \in Memory /\ mem'[f] \in Memory BY DEF TypeInv, MemoryType
<1> USE DEF Goto, Set
<1>1. ASSUME NEW w \in Epochs, CleanEpoch(f, w) PROVE Rules(f)
  <2>1. /\ pc[f] \in Ruling
        /\ pc' = pc \/ \E place \in Ruling \cup {"leave", "abort"} : Goto(f, place)
    BY <1>1 DEF CleanEpoch, Ruling, ServingAt, Ticking, Spawning
  <2>2. mem' = mem \/ \E n \in Memory : n.locked = mem[f].locked /\ Set(f, n)
    BY <1>1, <1>0 DEF CleanEpoch, Memory, workers, TypeInv, MemoryType
  <2>3. /\ UNCHANGED <<guard, seen>>
        /\ lock' = lock \/ \E v \in Epochs \cup {None} : lock' = OwnedBy(f, v)
    BY <1>1 DEF CleanEpoch, MemoryInv
  <2> QED BY <2>1, <2>2, <2>3 DEF Rules
<1>2. CASE EpochRemoved(f)
  <2>1. /\ pc[f] \in Ruling
        /\ pc' = pc \/ \E place \in Ruling \cup {"leave", "abort"} : Goto(f, place)
    BY <1>2 DEF EpochRemoved, Ruling, ServingAt, Ticking, Spawning
  <2>2. mem' = mem \/ \E n \in Memory : n.locked = mem[f].locked /\ Set(f, n)
    BY <1>2, <1>0 DEF EpochRemoved, Memory, workers, TypeInv, MemoryType
  <2>3. /\ UNCHANGED <<guard, seen>>
        /\ lock' = lock \/ \E v \in Epochs \cup {None} : lock' = OwnedBy(f, v)
    BY <1>2 DEF EpochRemoved, MemoryInv
  <2> QED BY <2>1, <2>2, <2>3 DEF Rules
<1>3. CASE EpochsClean(f)
  <2>1. /\ pc[f] \in Ruling
        /\ pc' = pc \/ \E place \in Ruling \cup {"leave", "abort"} : Goto(f, place)
    BY <1>3 DEF EpochsClean, Ruling, ServingAt, Ticking, Spawning
  <2>2. mem' = mem \/ \E n \in Memory : n.locked = mem[f].locked /\ Set(f, n)
    BY <1>3, <1>0 DEF EpochsClean, Memory, workers, TypeInv, MemoryType
  <2>3. /\ UNCHANGED <<guard, seen>>
        /\ lock' = lock \/ \E v \in Epochs \cup {None} : lock' = OwnedBy(f, v)
    BY <1>3 DEF EpochsClean, MemoryInv, disk
  <2> QED BY <2>1, <2>2, <2>3 DEF Rules
<1>4. CASE Load(f)
  <2>1. /\ pc[f] \in Ruling
        /\ pc' = pc \/ \E place \in Ruling \cup {"leave", "abort"} : Goto(f, place)
    BY <1>4 DEF Load, Ruling, ServingAt, Ticking, Spawning
  <2>2. mem' = mem \/ \E n \in Memory : n.locked = mem[f].locked /\ Set(f, n)
    BY <1>4, <1>0 DEF Load, Memory, workers, TypeInv, MemoryType
  <2>3. /\ UNCHANGED <<guard, seen>>
        /\ lock' = lock \/ \E v \in Epochs \cup {None} : lock' = OwnedBy(f, v)
    BY <1>4 DEF Load, MemoryInv, disk
  <2> QED BY <2>1, <2>2, <2>3 DEF Rules
<1>5. CASE Settle(f)
  <2>1. /\ pc[f] \in Ruling
        /\ pc' = pc \/ \E place \in Ruling \cup {"leave", "abort"} : Goto(f, place)
    BY <1>5 DEF Settle, Ruling, ServingAt, Ticking, Spawning
  <2>2. mem' = mem \/ \E n \in Memory : n.locked = mem[f].locked /\ Set(f, n)
    BY <1>5, <1>0 DEF Settle, Memory, workers, TypeInv, MemoryType
  <2>3. /\ UNCHANGED <<guard, seen>>
        /\ lock' = lock \/ \E v \in Epochs \cup {None} : lock' = OwnedBy(f, v)
    BY <1>5 DEF Settle, MemoryInv
  <2> QED BY <2>1, <2>2, <2>3 DEF Rules
<1>6. CASE DropOldStop(f)
  <2>1. /\ pc[f] \in Ruling
        /\ pc' = pc \/ \E place \in Ruling \cup {"leave", "abort"} : Goto(f, place)
    BY <1>6 DEF DropOldStop, Ruling, ServingAt, Ticking, Spawning
  <2>2. mem' = mem \/ \E n \in Memory : n.locked = mem[f].locked /\ Set(f, n)
    BY <1>6, <1>0 DEF DropOldStop, Memory, workers, TypeInv, MemoryType
  <2>3. /\ UNCHANGED <<guard, seen>>
        /\ lock' = lock \/ \E v \in Epochs \cup {None} : lock' = OwnedBy(f, v)
    BY <1>6 DEF DropOldStop, MemoryInv
  <2> QED BY <2>1, <2>2, <2>3 DEF Rules
<1>7. ASSUME NEW w \in Epochs, MakeEpoch(f, w) PROVE Rules(f)
  <2>1. /\ pc[f] \in Ruling
        /\ pc' = pc \/ \E place \in Ruling \cup {"leave", "abort"} : Goto(f, place)
    BY <1>7 DEF MakeEpoch, Ruling, ServingAt, Ticking, Spawning
  <2>2. mem' = mem \/ \E n \in Memory : n.locked = mem[f].locked /\ Set(f, n)
    BY <1>7, <1>0, ZenonT(40) DEF MakeEpoch, Memory, TypeInv, MemoryType
  <2>3. /\ UNCHANGED <<guard, seen>>
        /\ lock' = lock \/ \E v \in Epochs \cup {None} : lock' = OwnedBy(f, v)
    BY <1>7 DEF MakeEpoch, MemoryInv
  <2> QED BY <2>1, <2>2, <2>3 DEF Rules
<1>8. CASE WriteEpoch(f)
  <2>1. /\ pc[f] \in Ruling
        /\ pc' = pc \/ \E place \in Ruling \cup {"leave", "abort"} : Goto(f, place)
    BY <1>8 DEF WriteEpoch, Ruling, ServingAt, Ticking, Spawning
  <2>2. mem' = mem \/ \E n \in Memory : n.locked = mem[f].locked /\ Set(f, n)
    BY <1>8, <1>0 DEF WriteEpoch, Memory, workers, TypeInv, MemoryType
  <2>3. /\ UNCHANGED <<guard, seen>>
        /\ lock' = lock \/ \E v \in Epochs \cup {None} : lock' = OwnedBy(f, v)
    BY <1>8 DEF WriteEpoch, MemoryInv
  <2> QED BY <2>1, <2>2, <2>3 DEF Rules
<1>9. CASE SpawnWorker(f)
  <2>1. /\ pc[f] \in Ruling
        /\ pc' = pc \/ \E place \in Ruling \cup {"leave", "abort"} : Goto(f, place)
    BY <1>9 DEF SpawnWorker, Ruling, ServingAt, Ticking, Spawning
  <2>2. mem' = mem \/ \E n \in Memory : n.locked = mem[f].locked /\ Set(f, n)
    BY <1>9, <1>0 DEF SpawnWorker, Memory, TypeInv, MemoryType
  <2>3. /\ UNCHANGED <<guard, seen>>
        /\ lock' = lock \/ \E v \in Epochs \cup {None} : lock' = OwnedBy(f, v)
    BY <1>9 DEF SpawnWorker, MemoryInv, disk
  <2> QED BY <2>1, <2>2, <2>3 DEF Rules
<1>10. CASE NameWorker(f)
  <2>1. /\ pc[f] \in Ruling
        /\ pc' = pc \/ \E place \in Ruling \cup {"leave", "abort"} : Goto(f, place)
    BY <1>10 DEF NameWorker, Ruling, ServingAt, Ticking, Spawning
  <2>2. mem' = mem \/ \E n \in Memory : n.locked = mem[f].locked /\ Set(f, n)
    BY <1>10, <1>0 DEF NameWorker, Memory, workers, TypeInv, MemoryType
  <2>3. /\ UNCHANGED <<guard, seen>>
        /\ lock' = lock \/ \E v \in Epochs \cup {None} : lock' = OwnedBy(f, v)
    BY <1>10 DEF NameWorker, MemoryInv
  <2> QED BY <2>1, <2>2, <2>3 DEF Rules
<1>11. CASE RegisterWorker(f)
  <2>1. /\ pc[f] \in Ruling
        /\ pc' = pc \/ \E place \in Ruling \cup {"leave", "abort"} : Goto(f, place)
    BY <1>11 DEF RegisterWorker, Ruling, ServingAt, Ticking, Spawning
  <2>2. mem' = mem \/ \E n \in Memory : n.locked = mem[f].locked /\ Set(f, n)
    BY <1>11, <1>0 DEF RegisterWorker, Memory, workers, TypeInv, MemoryType
  <2>3. /\ UNCHANGED <<guard, seen>>
        /\ lock' = lock \/ \E v \in Epochs \cup {None} : lock' = OwnedBy(f, v)
    BY <1>11 DEF RegisterWorker, MemoryInv
  <2> QED BY <2>1, <2>2, <2>3 DEF Rules
<1>12. ASSUME NEW d \in Docs, Admit(f, d) PROVE Rules(f)
  <2>1. /\ pc[f] \in Ruling
        /\ pc' = pc \/ \E place \in Ruling \cup {"leave", "abort"} : Goto(f, place)
    BY <1>12 DEF Admit, Admissible, Reserved, Ruling, ServingAt, Ticking, Spawning
  <2>2. mem' = mem \/ \E n \in Memory : n.locked = mem[f].locked /\ Set(f, n)
    BY <1>12, <1>0 DEF Admit, Admissible, Reserved, Memory, workers, TypeInv, MemoryType
  <2>3. /\ UNCHANGED <<guard, seen>>
        /\ lock' = lock \/ \E v \in Epochs \cup {None} : lock' = OwnedBy(f, v)
    BY <1>12 DEF Admit, MemoryInv
  <2> QED BY <2>1, <2>2, <2>3 DEF Rules
<1>13. CASE Dispatch(f)
  <2>1. /\ pc[f] \in Ruling
        /\ pc' = pc \/ \E place \in Ruling \cup {"leave", "abort"} : Goto(f, place)
    BY <1>13 DEF Dispatch, Ruling, ServingAt, Ticking, Spawning
  <2>2. mem' = mem \/ \E n \in Memory : n.locked = mem[f].locked /\ Set(f, n)
    BY <1>13, <1>0 DEF Dispatch, Memory, TypeInv, MemoryType
  <2>3. /\ UNCHANGED <<guard, seen>>
        /\ lock' = lock \/ \E v \in Epochs \cup {None} : lock' = OwnedBy(f, v)
    BY <1>13 DEF Dispatch, MemoryInv, disk
  <2> QED BY <2>1, <2>2, <2>3 DEF Rules
<1>14. CASE Reported(f)
  <2>1. /\ pc[f] \in Ruling
        /\ pc' = pc \/ \E place \in Ruling \cup {"leave", "abort"} : Goto(f, place)
    BY <1>14 DEF Reported, Ruling, ServingAt, Ticking, Spawning
  <2>2. mem' = mem \/ \E n \in Memory : n.locked = mem[f].locked /\ Set(f, n)
    BY <1>14, <1>0 DEF Reported, Memory, workers, TypeInv, MemoryType
  <2>3. /\ UNCHANGED <<guard, seen>>
        /\ lock' = lock \/ \E v \in Epochs \cup {None} : lock' = OwnedBy(f, v)
    BY <1>14 DEF Reported, MemoryInv, disk
  <2> QED BY <2>1, <2>2, <2>3 DEF Rules
<1>15. CASE StoreFull(f)
  <2>1. /\ pc[f] \in Ruling
        /\ pc' = pc \/ \E place \in Ruling \cup {"leave", "abort"} : Goto(f, place)
    BY <1>15 DEF StoreFull, Ruling, ServingAt, Ticking, Spawning
  <2>2. mem' = mem \/ \E n \in Memory : n.locked = mem[f].locked /\ Set(f, n)
    BY <1>15, <1>0 DEF StoreFull, Memory, workers, TypeInv, MemoryType
  <2>3. /\ UNCHANGED <<guard, seen>>
        /\ lock' = lock \/ \E v \in Epochs \cup {None} : lock' = OwnedBy(f, v)
    BY <1>15 DEF StoreFull, MemoryInv, disk
  <2> QED BY <2>1, <2>2, <2>3 DEF Rules
<1>16. CASE TickBegins(f)
  <2>1. /\ pc[f] \in Ruling
        /\ pc' = pc \/ \E place \in Ruling \cup {"leave", "abort"} : Goto(f, place)
    BY <1>16 DEF TickBegins, BeginStop, Ruling, ServingAt, Ticking, Spawning
  <2>2. mem' = mem \/ \E n \in Memory : n.locked = mem[f].locked /\ Set(f, n)
    BY <1>16, <1>0 DEF TickBegins, BeginStop, Memory, workers, TypeInv, MemoryType
  <2>3. /\ UNCHANGED <<guard, seen>>
        /\ lock' = lock \/ \E v \in Epochs \cup {None} : lock' = OwnedBy(f, v)
    BY <1>16 DEF TickBegins, MemoryInv, disk
  <2> QED BY <2>1, <2>2, <2>3 DEF Rules
<1>17. CASE WatchIdle(f)
  <2>1. /\ pc[f] \in Ruling
        /\ pc' = pc \/ \E place \in Ruling \cup {"leave", "abort"} : Goto(f, place)
    BY <1>17 DEF WatchIdle, Ruling, ServingAt, Ticking, Spawning
  <2>2. mem' = mem \/ \E n \in Memory : n.locked = mem[f].locked /\ Set(f, n)
    BY <1>17, <1>0 DEF WatchIdle, Memory, workers, TypeInv, MemoryType
  <2>3. /\ UNCHANGED <<guard, seen>>
        /\ lock' = lock \/ \E v \in Epochs \cup {None} : lock' = OwnedBy(f, v)
    BY <1>17 DEF WatchIdle, MemoryInv, disk
  <2> QED BY <2>1, <2>2, <2>3 DEF Rules
<1>18. CASE WatchEvent(f)
  <2>1. /\ pc[f] \in Ruling
        /\ pc' = pc \/ \E place \in Ruling \cup {"leave", "abort"} : Goto(f, place)
    BY <1>18 DEF WatchEvent, Opened, Ruling, ServingAt, Ticking, Spawning
  <2>2. mem' = mem \/ \E n \in Memory : n.locked = mem[f].locked /\ Set(f, n)
    BY <1>18, <1>0, ZenonT(40) DEF WatchEvent, Opened, Memory, TypeInv, MemoryType
  <2>3. /\ UNCHANGED <<guard, seen>>
        /\ lock' = lock \/ \E v \in Epochs \cup {None} : lock' = OwnedBy(f, v)
    BY <1>18 DEF WatchEvent, MemoryInv, disk
  <2> QED BY <2>1, <2>2, <2>3 DEF Rules
<1>19. CASE WatchResult(f)
  <2>1. /\ pc[f] \in Ruling
        /\ pc' = pc \/ \E place \in Ruling \cup {"leave", "abort"} : Goto(f, place)
    BY <1>19 DEF WatchResult, Answered, Ruling, ServingAt, Ticking, Spawning
  <2>2. mem' = mem \/ \E n \in Memory : n.locked = mem[f].locked /\ Set(f, n)
    BY <1>19, <1>0 DEF WatchResult, Answered, Memory, TypeInv, MemoryType
  <2>3. /\ UNCHANGED <<guard, seen>>
        /\ lock' = lock \/ \E v \in Epochs \cup {None} : lock' = OwnedBy(f, v)
    BY <1>19 DEF WatchResult, MemoryInv
  <2> QED BY <2>1, <2>2, <2>3 DEF Rules
<1>20. CASE FreeSlot(f)
  <2>1. /\ pc[f] \in Ruling
        /\ pc' = pc \/ \E place \in Ruling \cup {"leave", "abort"} : Goto(f, place)
    BY <1>20 DEF FreeSlot, Opened, Ruling, ServingAt, Ticking, Spawning
  <2>2. mem' = mem \/ \E n \in Memory : n.locked = mem[f].locked /\ Set(f, n)
    BY <1>20, <1>0 DEF FreeSlot, Opened, Memory, workers, TypeInv, MemoryType
  <2>3. /\ UNCHANGED <<guard, seen>>
        /\ lock' = lock \/ \E v \in Epochs \cup {None} : lock' = OwnedBy(f, v)
    BY <1>20 DEF FreeSlot, MemoryInv, disk
  <2> QED BY <2>1, <2>2, <2>3 DEF Rules
<1>21. CASE ReapIdle(f)
  <2>1. /\ pc[f] \in Ruling
        /\ pc' = pc \/ \E place \in Ruling \cup {"leave", "abort"} : Goto(f, place)
    BY <1>21 DEF ReapIdle, Ruling, ServingAt, Ticking, Spawning
  <2>2. mem' = mem \/ \E n \in Memory : n.locked = mem[f].locked /\ Set(f, n)
    BY <1>21, <1>0 DEF ReapIdle, Memory, workers, TypeInv, MemoryType
  <2>3. /\ UNCHANGED <<guard, seen>>
        /\ lock' = lock \/ \E v \in Epochs \cup {None} : lock' = OwnedBy(f, v)
    BY <1>21 DEF ReapIdle, MemoryInv, disk
  <2> QED BY <2>1, <2>2, <2>3 DEF Rules
<1>22. CASE Cleans(f)
  <2>1. /\ pc[f] \in Ruling
        /\ pc' = pc \/ \E place \in Ruling \cup {"leave", "abort"} : Goto(f, place)
    BY <1>22 DEF Cleans, Ruling, ServingAt, Ticking, Spawning
  <2>2. mem' = mem \/ \E n \in Memory : n.locked = mem[f].locked /\ Set(f, n)
    BY <1>22, <1>0 DEF Cleans, Memory, workers, TypeInv, MemoryType
  <2>3. /\ UNCHANGED <<guard, seen>>
        /\ lock' = lock \/ \E v \in Epochs \cup {None} : lock' = OwnedBy(f, v)
    BY <1>22 DEF Cleans, MemoryInv
  <2> QED BY <2>1, <2>2, <2>3 DEF Rules
<1>23. CASE Reaped(f)
  <2>1. /\ pc[f] \in Ruling
        /\ pc' = pc \/ \E place \in Ruling \cup {"leave", "abort"} : Goto(f, place)
    BY <1>23 DEF Reaped, Ruling, ServingAt, Ticking, Spawning
  <2>2. mem' = mem \/ \E n \in Memory : n.locked = mem[f].locked /\ Set(f, n)
    BY <1>23, <1>0 DEF Reaped, Memory, workers, TypeInv, MemoryType
  <2>3. /\ UNCHANGED <<guard, seen>>
        /\ lock' = lock \/ \E v \in Epochs \cup {None} : lock' = OwnedBy(f, v)
    BY <1>23 DEF Reaped, MemoryInv
  <2> QED BY <2>1, <2>2, <2>3 DEF Rules
<1>24. CASE DrainEnds(f)
  <2>1. /\ pc[f] \in Ruling
        /\ pc' = pc \/ \E place \in Ruling \cup {"leave", "abort"} : Goto(f, place)
    BY <1>24 DEF DrainEnds, Ruling, ServingAt, Ticking, Spawning
  <2>2. mem' = mem \/ \E n \in Memory : n.locked = mem[f].locked /\ Set(f, n)
    BY <1>24, <1>0 DEF DrainEnds, Memory, workers, TypeInv, MemoryType
  <2>3. /\ UNCHANGED <<guard, seen>>
        /\ lock' = lock \/ \E v \in Epochs \cup {None} : lock' = OwnedBy(f, v)
    BY <1>24 DEF DrainEnds, MemoryInv, disk
  <2> QED BY <2>1, <2>2, <2>3 DEF Rules
<1>25. CASE AsksToClose(f)
  <2>1. /\ pc[f] \in Ruling
        /\ pc' = pc \/ \E place \in Ruling \cup {"leave", "abort"} : Goto(f, place)
    BY <1>25 DEF AsksToClose, Ruling, ServingAt, Ticking, Spawning
  <2>2. mem' = mem \/ \E n \in Memory : n.locked = mem[f].locked /\ Set(f, n)
    BY <1>25, <1>0 DEF AsksToClose, Memory, TypeInv, MemoryType
  <2>3. /\ UNCHANGED <<guard, seen>>
        /\ lock' = lock \/ \E v \in Epochs \cup {None} : lock' = OwnedBy(f, v)
    BY <1>25 DEF AsksToClose, MemoryInv, disk
  <2> QED BY <2>1, <2>2, <2>3 DEF Rules
<1>26. CASE DrainWaits(f)
  <2>1. /\ pc[f] \in Ruling
        /\ pc' = pc \/ \E place \in Ruling \cup {"leave", "abort"} : Goto(f, place)
    BY <1>26 DEF DrainWaits, Ruling, ServingAt, Ticking, Spawning
  <2>2. mem' = mem \/ \E n \in Memory : n.locked = mem[f].locked /\ Set(f, n)
    BY <1>26, <1>0 DEF DrainWaits, Memory, workers, TypeInv, MemoryType
  <2>3. /\ UNCHANGED <<guard, seen>>
        /\ lock' = lock \/ \E v \in Epochs \cup {None} : lock' = OwnedBy(f, v)
    BY <1>26 DEF DrainWaits, MemoryInv, disk
  <2> QED BY <2>1, <2>2, <2>3 DEF Rules
<1>27. CASE TickEnds(f)
  <2>1. /\ pc[f] \in Ruling
        /\ pc' = pc \/ \E place \in Ruling \cup {"leave", "abort"} : Goto(f, place)
    BY <1>27 DEF TickEnds, Ruling, ServingAt, Ticking, Spawning
  <2>2. mem' = mem \/ \E n \in Memory : n.locked = mem[f].locked /\ Set(f, n)
    BY <1>27, <1>0 DEF TickEnds, Memory, workers, TypeInv, MemoryType
  <2>3. /\ UNCHANGED <<guard, seen>>
        /\ lock' = lock \/ \E v \in Epochs \cup {None} : lock' = OwnedBy(f, v)
    BY <1>27 DEF TickEnds, MemoryInv, disk
  <2> QED BY <2>1, <2>2, <2>3 DEF Rules
<1>28. CASE Interrupt(f)
  <2>1. /\ pc[f] \in Ruling
        /\ pc' = pc \/ \E place \in Ruling \cup {"leave", "abort"} : Goto(f, place)
    BY <1>28 DEF Interrupt, Ruling, ServingAt, Ticking, Spawning
  <2>2. mem' = mem \/ \E n \in Memory : n.locked = mem[f].locked /\ Set(f, n)
    BY <1>28, <1>0, ZenonT(40) DEF Interrupt, Memory, workers, TypeInv, MemoryType
  <2>3. /\ UNCHANGED <<guard, seen>>
        /\ lock' = lock \/ \E v \in Epochs \cup {None} : lock' = OwnedBy(f, v)
    BY <1>28 DEF Interrupt, MemoryInv, disk
  <2> QED BY <2>1, <2>2, <2>3 DEF Rules
<1>29. CASE GivesUp(f)
  <2>1. /\ pc[f] \in Ruling
        /\ pc' = pc \/ \E place \in Ruling \cup {"leave", "abort"} : Goto(f, place)
    BY <1>29 DEF GivesUp, GivenUp, Kept, Ruling, ServingAt, Ticking, Spawning
  <2>2. mem' = mem \/ \E n \in Memory : n.locked = mem[f].locked /\ Set(f, n)
    BY <1>29 DEF GivesUp, GivenUp, Kept
  <2>3. /\ UNCHANGED <<guard, seen>>
        /\ lock' = lock \/ \E v \in Epochs \cup {None} : lock' = OwnedBy(f, v)
    BY <1>29 DEF GivesUp, MemoryInv
  <2> QED BY <2>1, <2>2, <2>3 DEF Rules
<1> QED
  BY <1>1, <1>2, <1>3, <1>4, <1>5, <1>6, <1>7, <1>8, <1>9, <1>10, <1>11, <1>12, <1>13,
     <1>14, <1>15, <1>16, <1>17, <1>18, <1>19, <1>20, <1>21, <1>22, <1>23, <1>24,
     <1>25, <1>26, <1>27, <1>28, <1>29
     DEF Recovering, Spawns, Serves

(* The way to the lock: who looks at it has the guard to itself, and takes  *)
(* it only when nobody holds the store.                                     *)
LEMMA StartingOwner ==
  ASSUME TypeInv, Owners, NEW f \in Frontends, Starting(f)
  PROVE  Owners'
<1>0. MemoryType /\ mem[f] \in Memory BY DEF TypeInv, MemoryType
<1> DEFINE Aside(g) == /\ pc'[g] = pc[g] /\ mem'[g] = mem[g] /\ seen'[g] = seen[g]
                       /\ Holds(g)' = Holds(g)
<1>a. /\ \A g \in Frontends : OwnerInv(g) /\ g # None
      /\ \A g, h \in Frontends : Holds(g) /\ Holds(h) => g = h
  BY ServiceAssumption DEF Owners, OneOwner
<1>b. ~Blank.locked BY DEF Blank
<1>1. CASE Start(f)
  <2>1. \A g \in Frontends \ {f} : Aside(g)
    BY <1>1, <1>0 DEF Start, MemoryType, Goto, Holds, Alive, workers
  <2>2. \A g \in Frontends : Holds(f)' /\ Holds(g)' => g = f
    BY <1>1, <1>0, <1>a, <1>b, <2>1 DEF Start, MemoryType, Goto, Holds, Alive, OwnerInv,
       Guarding, Owning, Fresh
  <2>3. OwnerInv(f)'
    BY <1>1, <1>0, <1>a, <1>b, <2>1, LockTypes DEF Start, MemoryType, Memory, Goto,
       Holds, Alive, OwnerInv, Guarding, Owning, Ruling, ServingAt, Ticking, Spawning,
       Fresh, disk
  <2>4. ASSUME NEW g \in Frontends \ {f} PROVE OwnerInv(g)'
    BY <1>1, <1>0, <1>a, <1>b, <2>1, LockTypes DEF Start, MemoryType, Goto, Holds, Alive,
       OwnerInv, Guarding, Owning, Fresh, disk
  <2> QED BY <1>a, <2>1, <2>2, <2>3, <2>4 DEF Owners, OneOwner
<1>2. CASE TakeGuard(f)
  <2>1. \A g \in Frontends \ {f} : Aside(g)
    BY <1>2, <1>0 DEF TakeGuard, MemoryType, Goto, Holds, Alive, workers
  <2>2. \A g \in Frontends : Holds(f)' /\ Holds(g)' => g = f
    BY <1>2, <1>0, <1>a, <1>b, <2>1 DEF TakeGuard, MemoryType, Goto, Holds, Alive,
       OwnerInv, Guarding, Owning, Fresh
  <2>3. OwnerInv(f)'
    BY <1>2, <1>0, <1>a, <1>b, <2>1, LockTypes DEF TakeGuard, MemoryType, Memory, Goto,
       Holds, Alive, OwnerInv, Guarding, Owning, Ruling, ServingAt, Ticking, Spawning,
       Fresh
  <2>4. ASSUME NEW g \in Frontends \ {f} PROVE OwnerInv(g)'
    BY <1>2, <1>0, <1>a, <1>b, <2>1, LockTypes DEF TakeGuard, MemoryType, Goto, Holds,
       Alive, OwnerInv, Guarding, Owning, Fresh
  <2> QED BY <1>a, <2>1, <2>2, <2>3, <2>4 DEF Owners, OneOwner
<1>3. CASE LookAtLock(f)
  <2>1. \A g \in Frontends \ {f} : Aside(g)
    BY <1>3, <1>0 DEF LookAtLock, MemoryType, Goto, Set, Holds, Alive, workers
  <2>2. \A g \in Frontends : Holds(f)' /\ Holds(g)' => g = f
    BY <1>3, <1>0, <1>a, <1>b, <2>1 DEF LookAtLock, MemoryType, Goto, Set, Holds, Alive,
       OwnerInv, Guarding, Owning, Fresh
  <2>3. OwnerInv(f)'
    BY <1>3, <1>0, <1>a, <1>b, <2>1, LockTypes DEF LookAtLock, MemoryType, Memory, Goto,
       Set, Holds, Alive, OwnerInv, Guarding, Owning, Ruling, ServingAt, Ticking,
       Spawning, Fresh
  <2>4. ASSUME NEW g \in Frontends \ {f} PROVE OwnerInv(g)'
    BY <1>3, <1>0, <1>a, <1>b, <2>1, LockTypes DEF LookAtLock, MemoryType, Goto, Set,
       Holds, Alive, OwnerInv, Guarding, Owning, Fresh
  <2> QED BY <1>a, <2>1, <2>2, <2>3, <2>4 DEF Owners, OneOwner
<1>4. CASE Judge(f)
  <2>1. \A g \in Frontends \ {f} : Aside(g)
    BY <1>4, <1>0 DEF Judge, MemoryType, Goto, Holds, Alive, workers
  <2>2. \A g \in Frontends : Holds(f)' /\ Holds(g)' => g = f
    BY <1>4, <1>0, <1>a, <1>b, <2>1 DEF Judge, OwnerDead, MemoryType, Goto, Holds, Alive,
       OwnerInv, Guarding, Owning, Fresh
  <2>3. OwnerInv(f)'
    BY <1>4, <1>0, <1>a, <1>b, <2>1, LockTypes DEF Judge, OwnerDead, MemoryType, Memory,
       Goto, Holds, Alive, OwnerInv, Guarding, Owning, Ruling, ServingAt, Ticking,
       Spawning, Fresh, disk
  <2>4. ASSUME NEW g \in Frontends \ {f} PROVE OwnerInv(g)'
    BY <1>4, <1>0, <1>a, <1>b, <2>1, LockTypes DEF Judge, OwnerDead, MemoryType, Goto,
       Holds, Alive, OwnerInv, Guarding, Owning, Fresh, disk
  <2> QED BY <1>a, <2>1, <2>2, <2>3, <2>4 DEF Owners, OneOwner
<1>5. CASE SwapLock(f)
  <2>1. \A g \in Frontends \ {f} : Aside(g)
    BY <1>5, <1>0 DEF SwapLock, MemoryType, Goto, Holds, Alive, workers
  <2>2. \A g \in Frontends : Holds(f)' /\ Holds(g)' => g = f
    BY <1>5, <1>0, <1>a, <1>b, <2>1 DEF SwapLock, MemoryType, Goto, Holds, Alive,
       OwnerInv, Guarding, Owning, Fresh
  <2>3. OwnerInv(f)'
    BY <1>5, <1>0, <1>a, <1>b, <2>1, LockTypes DEF SwapLock, MemoryType, Memory, Goto,
       Holds, Alive, OwnerInv, Guarding, Owning, Ruling, ServingAt, Ticking, Spawning,
       Fresh
  <2>4. ASSUME NEW g \in Frontends \ {f} PROVE OwnerInv(g)'
    BY <1>5, <1>0, <1>a, <1>b, <2>1, LockTypes DEF SwapLock, MemoryType, Goto, Holds,
       Alive, OwnerInv, Guarding, Owning, Fresh
  <2> QED BY <1>a, <2>1, <2>2, <2>3, <2>4 DEF Owners, OneOwner
<1>6. CASE Relock(f)
  <2>1. \A g \in Frontends \ {f} : Aside(g)
    BY <1>6, <1>0 DEF Relock, MemoryType, Goto, Set, Holds, Alive, workers
  <2>2. \A g \in Frontends : Holds(f)' /\ Holds(g)' => g = f
    BY <1>6, <1>0, <1>a, <1>b, <2>1 DEF Relock, MemoryType, Goto, Set, Holds, Alive,
       OwnerInv, Guarding, Owning, Fresh
  <2>3. OwnerInv(f)'
    BY <1>6, <1>0, <1>a, <1>b, <2>1, LockTypes DEF Relock, MemoryType, Memory, Goto, Set,
       Holds, Alive, OwnerInv, Guarding, Owning, Ruling, ServingAt, Ticking, Spawning,
       Fresh
  <2>4. ASSUME NEW g \in Frontends \ {f} PROVE OwnerInv(g)'
    BY <1>6, <1>0, <1>a, <1>b, <2>1, LockTypes DEF Relock, MemoryType, Goto, Set, Holds,
       Alive, OwnerInv, Guarding, Owning, Fresh
  <2> QED BY <1>a, <2>1, <2>2, <2>3, <2>4 DEF Owners, OneOwner
<1>7. CASE RecordOwner(f)
  <2>1. \A g \in Frontends \ {f} : Aside(g)
    BY <1>7, <1>0 DEF RecordOwner, MemoryType, Goto, Holds, Alive, workers
  <2>2. \A g \in Frontends : Holds(f)' /\ Holds(g)' => g = f
    BY <1>7, <1>0, <1>a, <1>b, <2>1 DEF RecordOwner, MemoryType, Goto, Holds, Alive,
       OwnerInv, Guarding, Owning, Fresh
  <2>3. OwnerInv(f)'
    BY <1>7, <1>0, <1>a, <1>b, <2>1, LockTypes DEF RecordOwner, MemoryType, Memory, Goto,
       Holds, Alive, OwnerInv, Guarding, Owning, Ruling, ServingAt, Ticking, Spawning,
       Fresh
  <2>4. ASSUME NEW g \in Frontends \ {f} PROVE OwnerInv(g)'
    BY <1>7, <1>0, <1>a, <1>b, <2>1, LockTypes DEF RecordOwner, MemoryType, Goto, Holds,
       Alive, OwnerInv, Guarding, Owning, Fresh
  <2> QED BY <1>a, <2>1, <2>2, <2>3, <2>4 DEF Owners, OneOwner
<1>8. CASE DropGuard(f)
  <2>1. \A g \in Frontends \ {f} : Aside(g)
    BY <1>8, <1>0 DEF DropGuard, MemoryType, Goto, Holds, Alive, workers
  <2>2. \A g \in Frontends : Holds(f)' /\ Holds(g)' => g = f
    BY <1>8, <1>0, <1>a, <1>b, <2>1 DEF DropGuard, MemoryType, Goto, Holds, Alive,
       OwnerInv, Guarding, Owning, Fresh
  <2>3. OwnerInv(f)'
    BY <1>8, <1>0, <1>a, <1>b, <2>1, LockTypes DEF DropGuard, MemoryType, Memory, Goto,
       Holds, Alive, OwnerInv, Guarding, Owning, Ruling, ServingAt, Ticking, Spawning,
       Fresh
  <2>4. ASSUME NEW g \in Frontends \ {f} PROVE OwnerInv(g)'
    BY <1>8, <1>0, <1>a, <1>b, <2>1, LockTypes DEF DropGuard, MemoryType, Goto, Holds,
       Alive, OwnerInv, Guarding, Owning, Fresh
  <2> QED BY <1>a, <2>1, <2>2, <2>3, <2>4 DEF Owners, OneOwner
<1>9. CASE OpenFails(f)
  <2>1. \A g \in Frontends \ {f} : Aside(g)
    BY <1>9, <1>0 DEF OpenFails, MemoryType, Goto, Holds, Alive, workers
  <2>2. \A g \in Frontends : Holds(f)' /\ Holds(g)' => g = f
    BY <1>9, <1>0, <1>a, <1>b, <2>1 DEF OpenFails, Opening, MemoryType, Goto, Holds,
       Alive, OwnerInv, Guarding, Owning, Fresh
  <2>3. OwnerInv(f)'
    BY <1>9, <1>0, <1>a, <1>b, <2>1, LockTypes DEF OpenFails, Opening, MemoryType,
       Memory, Goto, Holds, Alive, OwnerInv, Guarding, Owning, Ruling, ServingAt,
       Ticking, Spawning, Fresh, disk
  <2>4. ASSUME NEW g \in Frontends \ {f} PROVE OwnerInv(g)'
    BY <1>9, <1>0, <1>a, <1>b, <2>1, LockTypes DEF OpenFails, Opening, MemoryType, Goto,
       Holds, Alive, OwnerInv, Guarding, Owning, Fresh, disk
  <2> QED BY <1>a, <2>1, <2>2, <2>3, <2>4 DEF Owners, OneOwner
<1>10. CASE Abort(f)
  <2>1. \A g \in Frontends \ {f} : Aside(g)
    BY <1>10, <1>0 DEF Abort, MemoryType, Goto, Holds, Alive, workers
  <2>2. \A g \in Frontends : Holds(f)' /\ Holds(g)' => g = f
    BY <1>10, <1>0, <1>a, <1>b, <2>1 DEF Abort, MemoryType, Goto, Holds, Alive, OwnerInv,
       Guarding, Owning, Fresh
  <2>3. OwnerInv(f)'
    BY <1>10, <1>0, <1>a, <1>b, <2>1, LockTypes DEF Abort, MemoryType, Memory, Goto,
       Holds, Alive, OwnerInv, Guarding, Owning, Ruling, ServingAt, Ticking, Spawning,
       Fresh
  <2>4. ASSUME NEW g \in Frontends \ {f} PROVE OwnerInv(g)'
    BY <1>10, <1>0, <1>a, <1>b, <2>1, LockTypes DEF Abort, MemoryType, Goto, Holds,
       Alive, OwnerInv, Guarding, Owning, Fresh
  <2> QED BY <1>a, <2>1, <2>2, <2>3, <2>4 DEF Owners, OneOwner
<1> QED
  BY <1>1, <1>2, <1>3, <1>4, <1>5, <1>6, <1>7, <1>8, <1>9, <1>10 DEF Starting

(* The end: the lock goes with its owner.                                   *)
LEMMA EndOwner ==
  ASSUME TypeInv, Owners, NEW f \in Frontends, Ends(f)
  PROVE  Owners'
<1>0. MemoryType /\ mem[f] \in Memory BY DEF TypeInv, MemoryType
<1> DEFINE Aside(g) == /\ pc'[g] = pc[g] /\ mem'[g] = mem[g] /\ seen'[g] = seen[g]
                       /\ Holds(g)' = Holds(g)
<1>a. /\ \A g \in Frontends : OwnerInv(g) /\ g # None
      /\ \A g, h \in Frontends : Holds(g) /\ Holds(h) => g = h
  BY ServiceAssumption DEF Owners, OneOwner
<1>b. ~Blank.locked BY DEF Blank
<1>1. CASE Leave(f)
  <2>1. \A g \in Frontends \ {f} : Aside(g)
    BY <1>1, <1>0 DEF Leave, MemoryType, Goto, Holds, Alive, workers
  <2>2. \A g \in Frontends : Holds(f)' /\ Holds(g)' => g = f
    BY <1>1, <1>0, <1>a, <1>b, <2>1 DEF Leave, MemoryType, Goto, Holds, Alive, OwnerInv,
       Guarding, Owning, Fresh
  <2>3. OwnerInv(f)'
    BY <1>1, <1>0, <1>a, <1>b, <2>1, LockTypes DEF Leave, MemoryType, Memory, Goto,
       Holds, Alive, OwnerInv, Guarding, Owning, Ruling, ServingAt, Ticking, Spawning,
       Fresh
  <2>4. ASSUME NEW g \in Frontends \ {f} PROVE OwnerInv(g)'
    BY <1>1, <1>0, <1>a, <1>b, <2>1, LockTypes DEF Leave, MemoryType, Goto, Holds, Alive,
       OwnerInv, Guarding, Owning, Fresh
  <2> QED BY <1>a, <2>1, <2>2, <2>3, <2>4 DEF Owners, OneOwner
<1>2. CASE Unlock(f)
  <2>1. \A g \in Frontends \ {f} : Aside(g)
    BY <1>2, <1>0 DEF Unlock, MemoryType, Goto, Holds, Alive, workers
  <2>2. \A g \in Frontends : Holds(f)' /\ Holds(g)' => g = f
    BY <1>2, <1>0, <1>a, <1>b, <2>1 DEF Unlock, MemoryType, Goto, Holds, Alive, OwnerInv,
       Guarding, Owning, Fresh
  <2>3. OwnerInv(f)'
    BY <1>2, <1>0, <1>a, <1>b, <2>1, LockTypes DEF Unlock, MemoryType, Memory, Goto,
       Holds, Alive, OwnerInv, Guarding, Owning, Ruling, ServingAt, Ticking, Spawning,
       Fresh
  <2>4. ASSUME NEW g \in Frontends \ {f} PROVE OwnerInv(g)'
    BY <1>2, <1>0, <1>a, <1>b, <2>1, LockTypes DEF Unlock, MemoryType, Goto, Holds,
       Alive, OwnerInv, Guarding, Owning, Fresh
  <2> QED BY <1>a, <2>1, <2>2, <2>3, <2>4 DEF Owners, OneOwner
<1>3. CASE Tidy(f)
  <2>1. \A g \in Frontends \ {f} : Aside(g)
    BY <1>3, <1>0 DEF Tidy, MemoryType, Goto, Set, Holds, Alive, workers
  <2>2. \A g \in Frontends : Holds(f)' /\ Holds(g)' => g = f
    BY <1>3, <1>0, <1>a, <1>b, <2>1 DEF Tidy, MemoryType, Goto, Set, Holds, Alive,
       OwnerInv, Guarding, Owning, Fresh
  <2>3. OwnerInv(f)'
    BY <1>3, <1>0, <1>a, <1>b, <2>1, LockTypes DEF Tidy, MemoryType, Memory, Goto, Set,
       Holds, Alive, OwnerInv, Guarding, Owning, Ruling, ServingAt, Ticking, Spawning,
       Fresh
  <2>4. ASSUME NEW g \in Frontends \ {f} PROVE OwnerInv(g)'
    BY <1>3, <1>0, <1>a, <1>b, <2>1, LockTypes DEF Tidy, MemoryType, Goto, Set, Holds,
       Alive, OwnerInv, Guarding, Owning, Fresh
  <2> QED BY <1>a, <2>1, <2>2, <2>3, <2>4 DEF Owners, OneOwner
<1>4. CASE Crash(f)
  <2>1. \A g \in Frontends \ {f} : Aside(g)
    BY <1>4, <1>0 DEF Crash, MemoryType, Goto, Set, Holds, Alive, workers
  <2>2. \A g \in Frontends : Holds(f)' /\ Holds(g)' => g = f
    BY <1>4, <1>0, <1>a, <1>b, <2>1 DEF Crash, MemoryType, Goto, Set, Holds, Alive,
       OwnerInv, Guarding, Owning, Fresh
  <2>3. OwnerInv(f)'
    BY <1>4, <1>0, <1>a, <1>b, <2>1, LockTypes DEF Crash, MemoryType, Memory, Goto, Set,
       Holds, Alive, OwnerInv, Guarding, Owning, Ruling, ServingAt, Ticking, Spawning,
       Fresh, disk
  <2>4. ASSUME NEW g \in Frontends \ {f} PROVE OwnerInv(g)'
    BY <1>4, <1>0, <1>a, <1>b, <2>1, LockTypes DEF Crash, MemoryType, Goto, Set, Holds,
       Alive, OwnerInv, Guarding, Owning, Fresh, disk
  <2> QED BY <1>a, <2>1, <2>2, <2>3, <2>4 DEF Owners, OneOwner
<1> QED BY <1>1, <1>2, <1>3, <1>4 DEF Ends

(* Workers, the operator and stop.R leave the lock and its owner alone.     *)
LEMMA BesideOwner ==
  ASSUME TypeInv, Owners, Beside
  PROVE  Owners'
<1>1. UNCHANGED <<pc, seen, mem, lock>>
  BY DEF Beside, WorkerAnswers, WorkerMisanswers, WorkerDies, Inspect, StopReads,
     StopWrites, vars, disk
<1>2. guard' = guard \/ (~Alive(guard) /\ guard \in Frontends)
  BY DEF Beside, WorkerAnswers, WorkerMisanswers, WorkerDies, Inspect, StopReads,
     StopWrites, vars, disk, TypeInv, StoreType
<1>3. \A f \in Frontends : Holds(f)' = Holds(f) BY <1>1 DEF Holds, Alive
<1>4. ASSUME NEW f \in Frontends PROVE OwnerInv(f)'
  BY <1>1, <1>2, <1>3 DEF Owners, OwnerInv, Guarding, Alive
<1> QED BY <1>3, <1>4 DEF Owners, OneOwner

(* Every step leaves the store with one owner at most.                      *)
LEMMA OwnerSteps ==
  ASSUME TypeInv, TypeInv', Owners, \A f \in Frontends : MemoryInv(f), [Next]_vars
  PROVE  Owners'
<1>1. ASSUME NEW f \in Frontends,
             Starting(f) \/ Recovering(f) \/ Spawns(f) \/ Serves(f) \/ Ends(f)
      PROVE  Owners'
  BY <1>1, StartingOwner, RulingSteps, RulesOwner, EndOwner
<1> QED BY <1>1, NextSteps, BesideOwner

-----------------------------------------------------------------------------
(* The memory: what a frontend does leaves the others' alone, and its own   *)
(* in order.                                                                *)
Steps(f) == Starting(f) \/ Recovering(f) \/ Spawns(f) \/ Serves(f) \/ Ends(f)

(* A step of a frontend leaves the others where they are.                   *)
LEMMA OthersStay ==
  ASSUME TypeInv, NEW f \in Frontends, MemoryInv(f), TypeInv', Steps(f),
         NEW g \in Frontends \ {f}
  PROVE  pc'[g] = pc[g] /\ mem'[g] = mem[g]
<1>0. MemoryType BY DEF TypeInv
<1>1. CASE Starting(f)
  BY <1>0, <1>1 DEF MemoryType, Starting, Goto, Set, Start, TakeGuard, LookAtLock, Judge,
     SwapLock, Relock, RecordOwner, DropGuard, OpenFails, Abort
<1>2. CASE Recovering(f) \/ Spawns(f) \/ Serves(f)
  BY <1>0, <1>2, RulingSteps DEF MemoryType, Rules, Goto, Set
<1>3. CASE Ends(f)
  BY <1>0, <1>3 DEF MemoryType, Ends, Goto, Set, Leave, Unlock, Tidy, Crash
<1> QED BY <1>1, <1>2, <1>3 DEF Steps

(* Every step of a frontend keeps its memory in order.                      *)
LEMMA MemorySteps ==
  ASSUME TypeInv, TypeInv', NEW f \in Frontends, OwnerInv(f), MemoryInv(f), CallInv(f),
         Steps(f)
  PROVE  MemoryInv(f)'
<1> USE ServiceAssumption DEF Goto, Set
<1>0. MemoryType /\ mem[f] \in Memory BY DEF TypeInv, MemoryType
<1>1. CASE Start(f)
  BY <1>1, <1>0 DEF Start, MemoryInv, MemoryType, Memory, Opening, ServingAt, Ticking,
     Spawning, Shut, workers
<1>2. CASE TakeGuard(f)
  BY <1>2, <1>0 DEF TakeGuard, OwnerInv, Fresh, Blank, MemoryInv, MemoryType, Memory,
     Opening, ServingAt, Ticking, Spawning, Shut, workers
<1>3. CASE LookAtLock(f)
  BY <1>3, <1>0 DEF LookAtLock, MemoryInv, MemoryType, Memory, Opening, ServingAt,
     Ticking, Spawning, Shut, workers
<1>4. CASE Judge(f)
  BY <1>4, <1>0 DEF Judge, MemoryInv, MemoryType, Memory, Opening, ServingAt, Ticking,
     Spawning, Shut, workers
<1>5. CASE SwapLock(f)
  BY <1>5, <1>0 DEF SwapLock, MemoryInv, MemoryType, Memory, Opening, ServingAt, Ticking,
     Spawning, Shut, workers
<1>6. CASE Relock(f)
  BY <1>6, <1>0 DEF Relock, MemoryInv, MemoryType, Memory, Opening, ServingAt, Ticking,
     Spawning, Shut, workers
<1>7. CASE RecordOwner(f)
  BY <1>7, <1>0 DEF RecordOwner, MemoryInv, MemoryType, Memory, Opening, ServingAt,
     Ticking, Spawning, Shut, workers
<1>8. CASE DropGuard(f)
  BY <1>8, <1>0 DEF DropGuard, MemoryInv, MemoryType, Memory, Opening, ServingAt,
     Ticking, Spawning, Shut, workers
<1>9. CASE OpenFails(f)
  BY <1>9, <1>0 DEF OpenFails, MemoryInv, MemoryType, Memory, Opening, ServingAt,
     Ticking, Spawning, Shut, workers
<1>10. CASE Abort(f)
  BY <1>10, <1>0 DEF Abort, MemoryInv, MemoryType, Memory, Opening, ServingAt, Ticking,
     Spawning, Shut, workers
<1>11. ASSUME NEW w \in Epochs, CleanEpoch(f, w) PROVE MemoryInv(f)'
  BY <1>11, <1>0 DEF CleanEpoch, MemoryInv, MemoryType, Memory, Opening, ServingAt,
     Ticking, Spawning, Shut, workers
<1>12. CASE EpochRemoved(f)
  BY <1>12, <1>0 DEF EpochRemoved, MemoryInv, MemoryType, Memory, Opening, ServingAt,
     Ticking, Spawning, Shut, workers
<1>13. CASE EpochsClean(f)
  BY <1>13, <1>0 DEF EpochsClean, MemoryInv, MemoryType, Memory, Opening, ServingAt,
     Ticking, Spawning, Shut, workers
<1>14. CASE Load(f)

  <2>1. \/ pc'[f] = "abort" /\ mem'[f] = mem[f]
        \/ /\ pc'[f] = "settle"
           /\ mem'[f] = [mem[f] EXCEPT !.admissions = Admitted, !.results = Finished]
    BY <1>14, <1>0 DEF Load, MemoryType
  <2>2. pc[f] = "load" BY <1>14 DEF Load
  <2> QED
    BY <1>0, <2>1, <2>2 DEF MemoryInv, Memory, Opening, ServingAt, Ticking, Spawning, Shut
<1>15. CASE Settle(f)
  BY <1>15, <1>0 DEF Settle, MemoryInv, MemoryType, Memory, Opening, ServingAt, Ticking,
     Spawning, Shut, workers
<1>16. CASE DropOldStop(f)
  BY <1>16, <1>0 DEF DropOldStop, MemoryInv, MemoryType, Memory, Opening, ServingAt,
     Ticking, Spawning, Shut, workers
<1>17. ASSUME NEW w \in Epochs, MakeEpoch(f, w) PROVE MemoryInv(f)'
  BY <1>17, <1>0 DEF MakeEpoch, MemoryInv, MemoryType, Memory, Opening, ServingAt,
     Ticking, Spawning, Shut
<1>18. CASE WriteEpoch(f)
  BY <1>18, <1>0 DEF WriteEpoch, MemoryInv, MemoryType, Memory, Opening, ServingAt,
     Ticking, Spawning, Shut, workers
<1>19. CASE SpawnWorker(f)
  BY <1>19, <1>0 DEF SpawnWorker, MemoryInv, MemoryType, Memory, Opening, ServingAt,
     Ticking, Spawning, Shut
<1>20. CASE NameWorker(f)
  BY <1>20, <1>0 DEF NameWorker, MemoryInv, MemoryType, Memory, Opening, ServingAt,
     Ticking, Spawning, Shut, workers
<1>21. CASE RegisterWorker(f)
  BY <1>21, <1>0 DEF RegisterWorker, MemoryInv, MemoryType, Memory, Opening, ServingAt,
     Ticking, Spawning, Shut, workers
<1>22. ASSUME NEW d \in Docs, Admit(f, d) PROVE MemoryInv(f)'
  BY <1>22, <1>0 DEF Admit, Admissible, Reserved, MemoryInv, MemoryType, Memory, Opening,
     ServingAt, Ticking, Spawning, Shut, workers
<1>23. CASE Dispatch(f)
  BY <1>23, <1>0 DEF Dispatch, MemoryInv, MemoryType, Memory, Opening, ServingAt,
     Ticking, Spawning, Shut
<1>24. CASE Reported(f)
  BY <1>24, <1>0 DEF Reported, MemoryInv, MemoryType, Memory, Opening, ServingAt,
     Ticking, Spawning, Shut, workers
<1>25. CASE StoreFull(f)
  BY <1>25, <1>0 DEF StoreFull, MemoryInv, MemoryType, Memory, Opening, ServingAt,
     Ticking, Spawning, Shut, workers
<1>26. CASE TickBegins(f)
  BY <1>26, <1>0 DEF TickBegins, BeginStop, MemoryInv, MemoryType, Memory, Opening,
     ServingAt, Ticking, Spawning, Shut, workers
<1>27. CASE WatchIdle(f)
  BY <1>27, <1>0 DEF WatchIdle, MemoryInv, MemoryType, Memory, Opening, ServingAt,
     Ticking, Spawning, Shut, workers
<1>28. CASE WatchEvent(f)

  <2>1. /\ pc'[f] = "reap" /\ pc[f] = "watch" /\ mem[f].handle /\ ~mem[f].retiring
        /\ mem'[f] \in {Opened(mem[f]), [mem[f] EXCEPT !.retiring = TRUE]}
    BY <1>28, <1>0 DEF WatchEvent, Watched, MemoryType
  <2>2. /\ Opened(mem[f]).state \in {mem[f].state, "ready"}
        /\ Opened(mem[f]).operation = "idle"
        /\ mem[f].state \in {"stopping", "faulted"} =>
             Opened(mem[f]).state = mem[f].state
        /\ \A field \in {"epoch", "handle", "retiring", "storage", "failures"} :
             Opened(mem[f])[field] = mem[f][field]
    BY <1>0 DEF Opened, Memory
  <2>3. CASE mem'[f] = Opened(mem[f])
    BY <1>0, <2>1, <2>2, <2>3
    DEF MemoryInv, Memory, Opening, ServingAt, Ticking, Spawning, Shut
  <2>4. CASE mem'[f] = [mem[f] EXCEPT !.retiring = TRUE]
    BY <1>0, <2>1, <2>4 DEF MemoryInv, Memory, Opening, ServingAt, Ticking, Spawning, Shut
  <2> QED BY <2>1, <2>3, <2>4
<1>29. CASE WatchResult(f)
  BY <1>29, <1>0 DEF WatchResult, Answered, MemoryInv, MemoryType, Memory, Opening,
     ServingAt, Ticking, Spawning, Shut
<1>30. CASE FreeSlot(f)

  <2>1. pc'[f] = "reap" /\ mem'[f] = [Opened(mem[f]) EXCEPT !.active = None]
    BY <1>30, <1>0 DEF FreeSlot, MemoryType
  <2>2. pc[f] = "logged" /\ mem[f].handle /\ ~mem[f].retiring
    BY <1>30 DEF FreeSlot, CallInv, Watched
  <2> DEFINE state == Opened(mem[f]).state
  <2>3. /\ Opened(mem[f]) = [mem[f] EXCEPT !.operation = "idle", !.state = state]
        /\ state \in {mem[f].state, "ready"}
        /\ mem[f].state \in {"stopping", "faulted"} => state = mem[f].state
    BY <1>0 DEF Opened, Memory
  <2> HIDE DEF state
  <2>4. mem'[f] = [mem[f] EXCEPT !.operation = "idle", !.state = state, !.active = None]
    BY <1>0, <2>1, <2>3 DEF Memory
  <2> QED
    BY <1>0, <2>1, <2>2, <2>3, <2>4 DEF MemoryInv, Memory, Opening, ServingAt, Ticking,
       Spawning, Shut
<1>31. CASE ReapIdle(f)
  BY <1>31, <1>0 DEF ReapIdle, MemoryInv, MemoryType, Memory, Opening, ServingAt,
     Ticking, Spawning, Shut, workers
<1>32. CASE Cleans(f)
  BY <1>32, <1>0 DEF Cleans, MemoryInv, MemoryType, Memory, Opening, ServingAt, Ticking,
     Spawning, Shut, workers
<1>33. CASE Reaped(f)
  BY <1>33, <1>0 DEF Reaped, MemoryInv, MemoryType, Memory, Opening, ServingAt, Ticking,
     Spawning, Shut, workers
<1>34. CASE DrainEnds(f)
  BY <1>34, <1>0 DEF DrainEnds, MemoryInv, MemoryType, Memory, Opening, ServingAt,
     Ticking, Spawning, Shut, workers
<1>35. CASE AsksToClose(f)
  BY <1>35, <1>0 DEF AsksToClose, Watched, MemoryInv, MemoryType, Memory, Opening,
     ServingAt, Ticking, Spawning, Shut
<1>36. CASE DrainWaits(f)
  BY <1>36, <1>0 DEF DrainWaits, MemoryInv, MemoryType, Memory, Opening, ServingAt,
     Ticking, Spawning, Shut, workers
<1>37. CASE TickEnds(f)
  BY <1>37, <1>0 DEF TickEnds, MemoryInv, MemoryType, Memory, Opening, ServingAt,
     Ticking, Spawning, Shut, workers
<1>38. CASE Interrupt(f)
  BY <1>38, <1>0 DEF Interrupt, MemoryInv, MemoryType, Memory, Opening, ServingAt,
     Ticking, Spawning, Shut, workers
<1>39. CASE GivesUp(f)
  BY <1>39, <1>0 DEF GivesUp, GivenUp, Kept, MemoryInv, MemoryType, Memory, Opening,
     ServingAt, Ticking, Spawning, Shut
<1>40. CASE Leave(f)
  BY <1>40, <1>0 DEF Leave, MemoryInv, MemoryType, Memory, Opening, ServingAt, Ticking,
     Spawning, Shut, workers
<1>41. CASE Unlock(f)
  BY <1>41, <1>0 DEF Unlock, MemoryInv, MemoryType, Memory, Opening, ServingAt, Ticking,
     Spawning, Shut, workers
<1>42. CASE Tidy(f)
  BY <1>42, <1>0 DEF Tidy, Blank, MemoryInv, MemoryType, Memory, Opening, ServingAt,
     Ticking, Spawning, Shut, workers
<1>43. CASE Crash(f)
  BY <1>43, <1>0 DEF Crash, Blank, MemoryInv, MemoryType, Memory, Opening, ServingAt,
     Ticking, Spawning, Shut, workers
<1> QED
  BY <1>1, <1>2, <1>3, <1>4, <1>5, <1>6, <1>7, <1>8, <1>9, <1>10, <1>11, <1>12, <1>13,
     <1>14, <1>15, <1>16, <1>17, <1>18, <1>19, <1>20, <1>21, <1>22, <1>23, <1>24,
     <1>25, <1>26, <1>27, <1>28, <1>29, <1>30, <1>31, <1>32, <1>33, <1>34, <1>35,
     <1>36, <1>37, <1>38, <1>39, <1>40, <1>41, <1>42, <1>43
     DEF Steps, Starting, Recovering, Spawns, Serves, Ends

(* What others do does not touch a frontend's memory.                       *)
LEMMA BesideStays ==
  ASSUME Beside
  PROVE  UNCHANGED <<pc, mem, epochDir, admissions, results, dispatched, expired>>
BY DEF Beside, WorkerAnswers, WorkerMisanswers, WorkerDies, Inspect, StopReads,
   StopWrites, vars, disk, history

(* So every step keeps all memories in order.                               *)
LEMMA MemoriesKept ==
  ASSUME TypeInv, TypeInv', [Next]_vars,
         \A f \in Frontends : OwnerInv(f) /\ MemoryInv(f) /\ CallInv(f)
  PROVE  \A f \in Frontends : MemoryInv(f)'
<1>1. ASSUME NEW f \in Frontends, Steps(f), NEW g \in Frontends PROVE MemoryInv(g)'
  BY <1>1, MemorySteps, OthersStay DEF MemoryInv
<1>2. CASE Beside BY <1>2, BesideStays DEF MemoryInv
<1> QED BY <1>1, <1>2, NextSteps DEF Steps

-----------------------------------------------------------------------------
(* The workers and the documents: what a step of the one owner does to      *)
(* them, and what all the others do not.                                    *)
WorkInv(f) == WorkerInv(f) /\ CallInv(f) /\ StoreInv(f)
SharedInv == OneWorker /\ PipeInv /\ DocInv

(* On the way to the lock and at the end a frontend leaves workers and      *)
(* records alone.                                                           *)
LEMMA EdgeSteps ==
  ASSUME TypeInv, NEW f \in Frontends, Starting(f) \/ Ends(f)
  PROVE  /\ UNCHANGED <<epochDir, admissions, results, worker, call, reply, dispatched, expired>>
         /\ pc'[f] \notin Ruling \ {"epochs"}
         /\ mem'[f].active \in {mem[f].active, None}
<1>0. MemoryType /\ mem[f] \in Memory BY DEF TypeInv, MemoryType
<1> USE DEF Goto, Set, MemoryType, Memory, Ruling, ServingAt, Ticking, Spawning
<1>1. CASE Start(f) BY <1>1, <1>0 DEF Start, disk, workers, history
<1>2. CASE TakeGuard(f) BY <1>2, <1>0 DEF TakeGuard, workers, history
<1>3. CASE LookAtLock(f) BY <1>3, <1>0 DEF LookAtLock, workers, history
<1>4. CASE Judge(f) BY <1>4, <1>0 DEF Judge, disk, workers, history
<1>5. CASE SwapLock(f) BY <1>5, <1>0 DEF SwapLock, workers, history
<1>6. CASE Relock(f) BY <1>6, <1>0 DEF Relock, workers, history
<1>7. CASE RecordOwner(f) BY <1>7, <1>0 DEF RecordOwner, workers, history
<1>8. CASE DropGuard(f) BY <1>8, <1>0 DEF DropGuard, workers, history
<1>9. CASE OpenFails(f) BY <1>9, <1>0 DEF OpenFails, disk, workers, history
<1>10. CASE Abort(f) BY <1>10, <1>0 DEF Abort, workers, history
<1>11. CASE Leave(f) BY <1>11, <1>0 DEF Leave, workers, history
<1>12. CASE Unlock(f) BY <1>12, <1>0 DEF Unlock, workers, history
<1>13. CASE Tidy(f) BY <1>13, <1>0 DEF Tidy, Blank, workers, history
<1>14. CASE Crash(f) BY <1>14, <1>0 DEF Crash, Blank, disk, workers, history
<1> QED
  BY <1>1, <1>2, <1>3, <1>4, <1>5, <1>6, <1>7, <1>8, <1>9, <1>10, <1>11, <1>12, <1>13,
     <1>14
     DEF Starting, Ends

(* So what is said of workers and documents stays true.                     *)
LEMMA EdgeKeeps ==
  ASSUME TypeInv, SharedInv, \A g \in Frontends : WorkInv(g),
         NEW f \in Frontends, MemoryInv(f), TypeInv', Starting(f) \/ Ends(f)
  PROVE  SharedInv' /\ \A g \in Frontends : WorkInv(g)'
<1>1. /\ UNCHANGED <<epochDir, admissions, results, worker, call, reply, dispatched, expired>>
      /\ pc'[f] \notin Ruling \ {"epochs"}
      /\ mem'[f].active \in {mem[f].active, None}
  BY EdgeSteps
<1>2. SharedInv'
  BY <1>1 DEF SharedInv, OneWorker, PipeInv, DocInv, Up, Working
<1>3. pc'[f] \notin Clean \cup ServingAt \cup {"unlinked", "reaped", "dispatch", "logged"}
  BY <1>1 DEF Ruling, Clean, ServingAt, Ticking, Spawning
<1>4. WorkInv(f)'
  <2>1. WorkerInv(f)' BY <1>3 DEF WorkerInv, Clean
  <2>2. CallInv(f)' BY <1>3 DEF CallInv
  <2>3. StoreInv(f)' BY <1>1, <1>3 DEF StoreInv, WorkInv, Clean
  <2> QED BY <2>1, <2>2, <2>3 DEF WorkInv
<1>5. ASSUME NEW g \in Frontends \ {f} PROVE WorkInv(g)'
  <2>1. pc'[g] = pc[g] /\ mem'[g] = mem[g] BY OthersStay DEF Steps
  <2>2. WorkInv(g) OBVIOUS
  <2>3. WorkerInv(g)' BY <1>1, <2>1, <2>2 DEF WorkerInv, WorkInv, Up
  <2>4. CallInv(g)' BY <1>1, <2>1, <2>2 DEF CallInv, WorkInv, Watched, Working
  <2>5. StoreInv(g)' BY <1>1, <2>1, <2>2 DEF StoreInv, WorkInv, Admitted, Finished
  <2> QED BY <2>3, <2>4, <2>5 DEF WorkInv
<1> QED BY <1>2, <1>4, <1>5

(* A worker answers what it was called with, or dies with it.               *)
LEMMA BesideKeeps ==
  ASSUME TypeInv, SharedInv, \A g \in Frontends : WorkInv(g) /\ MemoryInv(g), Beside
  PROVE  SharedInv' /\ \A g \in Frontends : WorkInv(g)'
<1>0. WorkerType /\ None \notin Docs /\ "init" \notin Docs /\ "close" \notin Docs
  BY ServiceAssumption DEF TypeInv
<1>1. UNCHANGED <<pc, mem, epochDir, admissions, results, dispatched, expired>>
  BY BesideStays
<1>2. /\ \A w \in Epochs : Up(w)' => Up(w)
      /\ \A w \in Epochs : Working(w)' => Working(w) /\ call'[w] = call[w]
  BY <1>0 DEF Beside, WorkerAnswers, WorkerMisanswers, WorkerDies, Inspect, StopReads,
     StopWrites, vars, workers, WorkerType, Up, Working
<1>3. ASSUME NEW v \in Epochs, WorkerAnswers(v) PROVE PipeInv'
  <2>1. PICK answer \in CASE call[v] = "init"  -> {"ready"}
                          [] call[v] = "close" -> {"closed"}
                          [] OTHER             -> {"success", "error"} :
               reply' = [reply EXCEPT ![v] = answer]
    BY <1>3 DEF WorkerAnswers
  <2>2. answer \in {"success", "error"} => Working(v)
    BY <1>0, <1>3, <2>1 DEF WorkerAnswers, WorkerType, Working
  <2>3. /\ reply'[v] = answer
        /\ \A w \in Epochs \ {v} : reply'[w] = reply[w]
    BY <1>0, <2>1 DEF WorkerType
  <2>4. UNCHANGED <<worker, call, epochDir>> /\ Up(v)
    BY <1>3 DEF WorkerAnswers, disk
  <2> QED BY <2>2, <2>3, <2>4 DEF SharedInv, PipeInv, Up, Working
<1>4. ASSUME NEW v \in Epochs, WorkerMisanswers(v) PROVE PipeInv'
  BY <1>0, <1>4 DEF WorkerMisanswers, WorkerType, SharedInv, PipeInv, Up, Working, disk
<1>5. ASSUME NEW v \in Epochs, WorkerDies(v) PROVE PipeInv'
  BY <1>0, <1>5, ServiceAssumption DEF WorkerDies, WorkerType, SharedInv, PipeInv, Up,
     Working, disk
<1>6. ASSUME Inspect \/ StopReads \/ StopWrites \/ UNCHANGED vars PROVE PipeInv'
  <2>1. UNCHANGED <<worker, call, reply, epochDir>>
    BY <1>6 DEF Inspect, StopReads, StopWrites, vars, workers, disk
  <2>2. PipeInv BY DEF SharedInv
  <2> QED BY <2>1, <2>2 DEF PipeInv, Up, Working
<1>7. SharedInv'
  BY <1>1, <1>2, <1>3, <1>4, <1>5, <1>6 DEF Beside, SharedInv, OneWorker, DocInv
<1>8. ASSUME NEW g \in Frontends PROVE WorkInv(g)'
  <2>1. WorkInv(g) /\ MemoryInv(g) OBVIOUS
  <2>2. WorkerInv(g)'
    BY <1>1, <1>2, <2>1 DEF WorkerInv, WorkInv, MemoryInv
  <2>3. CallInv(g)'
    BY <1>1, <1>2, <2>1 DEF CallInv, WorkInv, Watched, MemoryInv
  <2>4. StoreInv(g)' BY <1>1, <2>1 DEF StoreInv, WorkInv, Admitted, Finished
  <2> QED BY <2>2, <2>3, <2>4 DEF WorkInv
<1> QED BY <1>7, <1>8

(* The owner's steps. The other frontends are elsewhere; what the owner has *)
(* to keep is its own view, and what was admitted stays so.                 *)
OwnerKeeps(f) ==
  /\ OneWorker' /\ PipeInv' /\ DocInv'
  /\ WorkerInv(f)' /\ CallInv(f)' /\ StoreInv(f)'
  /\ \A d \in Docs : admissions[d] # None => admissions'[d] # None

(* A step of the owner that keeps this keeps it for everybody.              *)
LEMMA OwnerKeepsAll ==
  ASSUME TypeInv, Owners, SharedInv, \A g \in Frontends : WorkInv(g),
         NEW f \in Frontends, Rules(f), OwnerKeeps(f)
  PROVE  SharedInv' /\ \A g \in Frontends : WorkInv(g)'
<1>1. SharedInv' /\ WorkInv(f)' BY DEF OwnerKeeps, SharedInv, WorkInv
<1>2. ASSUME NEW g \in Frontends \ {f} PROVE WorkInv(g)'
  <2>1. pc'[g] = pc[g] /\ mem'[g] = mem[g]
    BY DEF Rules, Goto, Set, TypeInv, MemoryType
  <2>2. pc[g] \notin Ruling
    <3>1. \A h \in Frontends : pc[h] \in Ruling => Holds(h)
      BY DEF Owners, OwnerInv, Holds, Alive, Owning, Ruling, ServingAt, Ticking, Spawning
    <3> QED BY <3>1 DEF Rules, Owners, OneOwner
  <2>3. pc'[g] \notin Clean \cup ServingAt \cup {"unlinked", "reaped", "dispatch", "logged"}
    BY <2>1, <2>2 DEF Ruling, Clean, ServingAt, Ticking, Spawning
  <2>4. WorkerInv(g)' BY <2>3 DEF WorkerInv, Clean
  <2>5. CallInv(g)' BY <2>3 DEF CallInv
  <2>6. mem[g].active # None => mem[g].active \in Docs
    BY DEF TypeInv, MemoryType, Memory
  <2>7. StoreInv(g) BY DEF WorkInv
  <2>8. StoreInv(g)' BY <2>1, <2>3, <2>6, <2>7 DEF StoreInv, OwnerKeeps, Clean
  <2> QED BY <2>4, <2>5, <2>8 DEF WorkInv
<1> QED BY <1>1, <1>2

(* Most steps of the service only move on, or close it.                     *)
Quiet(f) ==
  /\ pc[f] \in ServingAt
  /\ pc'[f] \in {"serve", "watch", "reap", "drain", "sample", "leave"}
  /\ \A field \in {"epoch", "handle", "retiring", "active", "storage"} :
       mem'[f][field] = mem[f][field]
  /\ UNCHANGED <<epochDir, admissions, results, worker, call, reply, dispatched, expired>>

(* Such a step keeps what is said of workers and documents.                 *)
LEMMA QuietKeeps ==
  ASSUME TypeInv, SharedInv, NEW f \in Frontends, WorkInv(f), Quiet(f)
  PROVE  OwnerKeeps(f)
<1>1. /\ mem'[f].epoch = mem[f].epoch /\ mem'[f].handle = mem[f].handle
      /\ mem'[f].retiring = mem[f].retiring /\ mem'[f].active = mem[f].active
      /\ mem'[f].storage = mem[f].storage
  BY DEF Quiet
<1>2. pc'[f] \notin Clean \cup {"unlinked", "reaped", "dispatch", "logged", "settle"}
  BY DEF Quiet, Clean
<1>3. OneWorker' /\ PipeInv' /\ DocInv'
  BY DEF Quiet, SharedInv, OneWorker, PipeInv, DocInv, Up, Working
<1>4. WorkerInv(f)' BY <1>1, <1>2 DEF Quiet, WorkInv, WorkerInv, Up
<1>5. CallInv(f)' BY <1>1, <1>2 DEF Quiet, WorkInv, CallInv, Watched, Working
<1>6. StoreInv(f)' BY <1>1, <1>2 DEF Quiet, WorkInv, StoreInv, Clean
<1> QED BY <1>3, <1>4, <1>5, <1>6 DEF OwnerKeeps, Quiet

(* These are the quiet steps.                                               *)
LEMMA QuietSteps ==
  ASSUME TypeInv, NEW f \in Frontends,
         \/ RegisterWorker(f) \/ Reported(f) \/ StoreFull(f) \/ TickBegins(f)
         \/ WatchIdle(f) \/ ReapIdle(f) \/ DrainEnds(f) \/ DrainWaits(f) \/ TickEnds(f)
         \/ Interrupt(f)
  PROVE  Quiet(f)
<1>0. MemoryType /\ mem[f] \in Memory BY DEF TypeInv, MemoryType
<1> USE DEF Goto, Set, MemoryType, Memory, Quiet, ServingAt, Ticking, Spawning
<1>1. CASE RegisterWorker(f) BY <1>1, <1>0 DEF RegisterWorker, workers, history
<1>2. CASE Reported(f) BY <1>2, <1>0 DEF Reported, disk, workers, history
<1>3. CASE StoreFull(f) BY <1>3, <1>0 DEF StoreFull, disk, workers, history
<1>4. CASE TickBegins(f) BY <1>4, <1>0 DEF TickBegins, BeginStop, disk, workers, history
<1>5. CASE WatchIdle(f) BY <1>5, <1>0 DEF WatchIdle, disk, workers, history
<1>6. CASE ReapIdle(f) BY <1>6, <1>0 DEF ReapIdle, disk, workers, history
<1>7. CASE DrainEnds(f) BY <1>7, <1>0 DEF DrainEnds, disk, workers, history
<1>8. CASE DrainWaits(f) BY <1>8, <1>0 DEF DrainWaits, disk, workers, history
<1>9. CASE TickEnds(f) BY <1>9, <1>0 DEF TickEnds, disk, workers, history
<1>10. CASE Interrupt(f) BY <1>10, <1>0 DEF Interrupt, disk, workers
<1> QED BY <1>1, <1>2, <1>3, <1>4, <1>5, <1>6, <1>7, <1>8, <1>9, <1>10

(* The worker of a removable epoch is dead.                                 *)
LEMMA CleanEpochKeeps ==
  ASSUME TypeInv, SharedInv, NEW f \in Frontends, MemoryInv(f), WorkInv(f), TypeInv',
         NEW w \in Epochs, CleanEpoch(f, w)
  PROVE  OwnerKeeps(f)
<1>0. /\ MemoryType /\ mem[f] \in Memory /\ StoreType /\ WorkerType
      /\ OneWorker /\ PipeInv /\ DocInv
      /\ WorkerInv(f) /\ CallInv(f) /\ StoreInv(f)
  BY DEF TypeInv, MemoryType, SharedInv, WorkInv
<1> USE ServiceAssumption DEF Goto, Set, MemoryType, StoreType, WorkerType
<1>1. OneWorker'
  BY <1>0 DEF CleanEpoch, Removable, workers, history, OneWorker, WorkerInv, Clean, Up
<1>2. PipeInv'
  BY <1>0 DEF CleanEpoch, Removable, workers, history, PipeInv, WorkerInv, CallInv,
     MemoryInv, Clean, Up, Working, ServingAt, Ticking, Spawning, Memory
<1>3. DocInv'
  BY <1>0 DEF CleanEpoch, Removable, workers, history, DocInv, StoreInv, CallInv,
     MemoryInv, ServingAt, Ticking, Spawning, Memory
<1>4. WorkerInv(f)'
  BY <1>0 DEF CleanEpoch, Removable, workers, history, WorkerInv, PipeInv, MemoryInv,
     Clean, Up, Opening, ServingAt, Ticking, Spawning, Memory
<1>5. CallInv(f)'
  BY <1>0 DEF CleanEpoch, Removable, workers, history, CallInv, DocInv, WorkerInv,
     MemoryInv, Watched, Working, Clean, ServingAt, Ticking, Spawning, Memory
<1>6. StoreInv(f)'
  BY <1>0 DEF CleanEpoch, Removable, workers, history, StoreInv, CallInv, DocInv,
     MemoryInv, Opening, Admitted, Finished, ServingAt, Ticking, Spawning, Memory
<1>7. \A e \in Docs : admissions[e] # None => admissions'[e] # None
  BY <1>0 DEF CleanEpoch, Removable, workers, history
<1> QED BY <1>1, <1>2, <1>3, <1>4, <1>5, <1>6, <1>7 DEF OwnerKeeps

(* It is still dead when the directory goes.                                *)
LEMMA EpochRemovedKeeps ==
  ASSUME TypeInv, SharedInv, NEW f \in Frontends, MemoryInv(f), WorkInv(f), TypeInv',
         EpochRemoved(f)
  PROVE  OwnerKeeps(f)
<1>0. /\ MemoryType /\ mem[f] \in Memory /\ StoreType /\ WorkerType
      /\ OneWorker /\ PipeInv /\ DocInv
      /\ WorkerInv(f) /\ CallInv(f) /\ StoreInv(f)
  BY DEF TypeInv, MemoryType, SharedInv, WorkInv
<1> USE ServiceAssumption DEF Goto, Set, MemoryType, StoreType, WorkerType
<1>1. OneWorker'
  BY <1>0 DEF EpochRemoved, workers, history, OneWorker, WorkerInv, Clean, Up
<1>2. PipeInv'
  BY <1>0 DEF EpochRemoved, workers, history, PipeInv, WorkerInv, CallInv, MemoryInv,
     Clean, Up, Working, ServingAt, Ticking, Spawning, Memory
<1>3. DocInv'
  BY <1>0 DEF EpochRemoved, workers, history, DocInv, StoreInv, CallInv, MemoryInv,
     ServingAt, Ticking, Spawning, Memory
<1>4. WorkerInv(f)'
  BY <1>0 DEF EpochRemoved, workers, history, WorkerInv, PipeInv, MemoryInv, Clean, Up,
     Opening, ServingAt, Ticking, Spawning, Memory
<1>5. CallInv(f)'
  BY <1>0 DEF EpochRemoved, workers, history, CallInv, DocInv, WorkerInv, MemoryInv,
     Watched, Working, Clean, ServingAt, Ticking, Spawning, Memory
<1>6. StoreInv(f)'
  BY <1>0 DEF EpochRemoved, workers, history, StoreInv, CallInv, DocInv, MemoryInv,
     Opening, Admitted, Finished, ServingAt, Ticking, Spawning, Memory
<1>7. \A e \in Docs : admissions[e] # None => admissions'[e] # None
  BY <1>0 DEF EpochRemoved, workers, history
<1> QED BY <1>1, <1>2, <1>3, <1>4, <1>5, <1>6, <1>7 DEF OwnerKeeps

(* A worker that is up has an epoch with an owner.json: without epochs none *)
(* is.                                                                      *)
LEMMA EpochsCleanKeeps ==
  ASSUME TypeInv, SharedInv, NEW f \in Frontends, MemoryInv(f), WorkInv(f), TypeInv',
         EpochsClean(f)
  PROVE  OwnerKeeps(f)
<1>0. /\ MemoryType /\ mem[f] \in Memory /\ StoreType /\ WorkerType
      /\ OneWorker /\ PipeInv /\ DocInv
      /\ WorkerInv(f) /\ CallInv(f) /\ StoreInv(f)
  BY DEF TypeInv, MemoryType, SharedInv, WorkInv
<1> USE ServiceAssumption DEF Goto, Set, MemoryType, StoreType, WorkerType
<1>1. OneWorker'
  BY <1>0 DEF EpochsClean, disk, workers, history, OneWorker, WorkerInv, Clean, Up
<1>2. PipeInv'
  BY <1>0 DEF EpochsClean, disk, workers, history, PipeInv, WorkerInv, CallInv,
     MemoryInv, Clean, Up, Working, ServingAt, Ticking, Spawning, Memory
<1>3. DocInv'
  BY <1>0 DEF EpochsClean, disk, workers, history, DocInv, StoreInv, CallInv, MemoryInv,
     ServingAt, Ticking, Spawning, Memory
<1>4. WorkerInv(f)'
  BY <1>0 DEF EpochsClean, disk, workers, history, WorkerInv, PipeInv, MemoryInv, Clean,
     Up, Opening, ServingAt, Ticking, Spawning, Memory
<1>5. CallInv(f)'
  BY <1>0 DEF EpochsClean, disk, workers, history, CallInv, DocInv, WorkerInv, MemoryInv,
     Watched, Working, Clean, ServingAt, Ticking, Spawning, Memory
<1>6. StoreInv(f)'
  BY <1>0 DEF EpochsClean, disk, workers, history, StoreInv, CallInv, DocInv, MemoryInv,
     Opening, Admitted, Finished, ServingAt, Ticking, Spawning, Memory
<1>7. \A e \in Docs : admissions[e] # None => admissions'[e] # None
  BY <1>0 DEF EpochsClean, disk, workers, history
<1> QED BY <1>1, <1>2, <1>3, <1>4, <1>5, <1>6, <1>7 DEF OwnerKeeps

(* What the frontend remembers of the store is what the store holds.        *)
LEMMA LoadKeeps ==
  ASSUME TypeInv, SharedInv, NEW f \in Frontends, MemoryInv(f), WorkInv(f), TypeInv',
         Load(f)
  PROVE  OwnerKeeps(f)
<1>0. /\ MemoryType /\ mem[f] \in Memory /\ StoreType /\ WorkerType
      /\ OneWorker /\ PipeInv /\ DocInv
      /\ WorkerInv(f) /\ CallInv(f) /\ StoreInv(f)
  BY DEF TypeInv, MemoryType, SharedInv, WorkInv
<1> USE ServiceAssumption DEF Goto, Set, MemoryType, StoreType, WorkerType
<1>a. \/ pc'[f] = "abort" /\ mem'[f] = mem[f]
      \/ /\ pc'[f] = "settle"
         /\ mem'[f] = [mem[f] EXCEPT !.admissions = Admitted, !.results = Finished]
  BY <1>0 DEF Load
<1>b. /\ mem'[f].handle = mem[f].handle /\ mem'[f].epoch = mem[f].epoch
      /\ mem'[f].active = mem[f].active
      /\ pc'[f] = "settle" => mem'[f].admissions = Admitted /\ mem'[f].results = Finished
  <2> DEFINE admitted == Admitted
             finished == Finished
  <2>1. \/ pc'[f] = "abort" /\ mem'[f] = mem[f]
        \/ /\ pc'[f] = "settle"
           /\ mem'[f] = [mem[f] EXCEPT !.admissions = admitted, !.results = finished]
    BY <1>a
  <2>2. mem[f] \in Memory BY <1>0
  <2> HIDE DEF admitted, finished
  <2>3. /\ mem'[f].handle = mem[f].handle /\ mem'[f].epoch = mem[f].epoch
        /\ mem'[f].active = mem[f].active
        /\ pc'[f] = "settle" => mem'[f].admissions = admitted /\ mem'[f].results = finished
    BY <2>1, <2>2 DEF Memory
  <2> QED BY <2>3 DEF admitted, finished
<1>1. OneWorker'
  BY <1>0 DEF Load, disk, workers, history, OneWorker, WorkerInv,
     Clean, Up
<1>2. PipeInv'
  BY <1>0 DEF Load, disk, workers, history, PipeInv, WorkerInv,
     CallInv, MemoryInv, Clean, Up, Working, ServingAt, Ticking, Spawning, Memory
<1>3. DocInv'
  BY <1>0 DEF Load, disk, workers, history, DocInv, StoreInv,
     CallInv, MemoryInv, ServingAt, Ticking, Spawning, Memory
<1>4. WorkerInv(f)'
  <2>1. pc[f] = "load" /\ UNCHANGED <<worker, epochDir>> BY DEF Load, disk, workers
  <2> QED BY <1>0, <1>a, <1>b, <2>1 DEF WorkerInv, Clean, Up, ServingAt, Ticking, Spawning
<1>5. CallInv(f)'
  BY <1>0 DEF Load, disk, workers, history, CallInv, DocInv,
     WorkerInv, MemoryInv, Watched, Working, Clean, ServingAt, Ticking, Spawning, Memory
<1>6. StoreInv(f)'
  <2>1. UNCHANGED <<admissions, results, expired>> BY DEF Load, disk, history
  <2> QED BY <1>0, <1>a, <1>b, <2>1 DEF StoreInv, Admitted, Finished, ServingAt, Ticking, Spawning
<1>7. \A e \in Docs : admissions[e] # None => admissions'[e] # None
  BY <1>0 DEF Load, disk, workers, history
<1> QED BY <1>1, <1>2, <1>3, <1>4, <1>5, <1>6, <1>7 DEF OwnerKeeps

(* What is settled was admitted and has no record; when all is, none is     *)
(* forgotten.                                                               *)
LEMMA SettleKeeps ==
  ASSUME TypeInv, SharedInv, NEW f \in Frontends, MemoryInv(f), WorkInv(f), TypeInv',
         Settle(f)
  PROVE  OwnerKeeps(f)
<1>0. /\ MemoryType /\ mem[f] \in Memory /\ StoreType /\ WorkerType
      /\ OneWorker /\ PipeInv /\ DocInv
      /\ WorkerInv(f) /\ CallInv(f) /\ StoreInv(f)
  BY DEF TypeInv, MemoryType, SharedInv, WorkInv
<1> USE ServiceAssumption DEF Goto, Set, MemoryType, StoreType, WorkerType
<1>1. OneWorker'
  BY <1>0 DEF Settle, Publishable, workers, history, OneWorker, WorkerInv, Clean, Up
<1>2. PipeInv'
  BY <1>0 DEF Settle, Publishable, workers, history, PipeInv, WorkerInv, CallInv,
     MemoryInv, Clean, Up, Working, ServingAt, Ticking, Spawning, Memory
<1>3. DocInv'
  <2>1. UNCHANGED <<admissions, dispatched, expired>> BY DEF Settle, history
  <2>2. \/ results' = results
        \/ \E d \in Docs : admissions[d] # None
                           /\ results' = [results EXCEPT ![d] = "interrupted"]
    BY <1>0 DEF Settle, StoreInv, Admitted
  <2> QED BY <1>0, <2>1, <2>2 DEF DocInv
<1>4. WorkerInv(f)'
  BY <1>0 DEF Settle, Publishable, workers, history, WorkerInv, PipeInv, MemoryInv,
     Clean, Up, Opening, ServingAt, Ticking, Spawning, Memory
<1>5. CallInv(f)'
  BY <1>0 DEF Settle, Publishable, workers, history, CallInv, DocInv, WorkerInv,
     MemoryInv, Watched, Working, Clean, ServingAt, Ticking, Spawning, Memory
<1>6. StoreInv(f)'
  BY <1>0 DEF Settle, Publishable, workers, history, StoreInv, CallInv, DocInv,
     MemoryInv, Opening, Admitted, Finished, ServingAt, Ticking, Spawning, Memory
<1>7. \A e \in Docs : admissions[e] # None => admissions'[e] # None
  BY <1>0 DEF Settle, Publishable, workers, history
<1> QED BY <1>1, <1>2, <1>3, <1>4, <1>5, <1>6, <1>7 DEF OwnerKeeps

(* The service begins with no worker and with nothing to work on.           *)
LEMMA DropOldStopKeeps ==
  ASSUME TypeInv, SharedInv, NEW f \in Frontends, MemoryInv(f), WorkInv(f), TypeInv',
         DropOldStop(f)
  PROVE  OwnerKeeps(f)
<1>0. /\ MemoryType /\ mem[f] \in Memory /\ StoreType /\ WorkerType
      /\ OneWorker /\ PipeInv /\ DocInv
      /\ WorkerInv(f) /\ CallInv(f) /\ StoreInv(f)
  BY DEF TypeInv, MemoryType, SharedInv, WorkInv
<1> USE ServiceAssumption DEF Goto, Set, MemoryType, StoreType, WorkerType
<1>1. OneWorker'
  BY <1>0 DEF DropOldStop, workers, history, OneWorker, WorkerInv, Clean, Up
<1>2. PipeInv'
  BY <1>0 DEF DropOldStop, workers, history, PipeInv, WorkerInv, CallInv, MemoryInv,
     Clean, Up, Working, ServingAt, Ticking, Spawning, Memory
<1>3. DocInv'
  BY <1>0 DEF DropOldStop, workers, history, DocInv, StoreInv, CallInv, MemoryInv,
     ServingAt, Ticking, Spawning, Memory
<1>4. WorkerInv(f)'
  BY <1>0 DEF DropOldStop, workers, history, WorkerInv, PipeInv, MemoryInv, Clean, Up,
     Opening, ServingAt, Ticking, Spawning, Memory
<1>5. CallInv(f)'
  BY <1>0 DEF DropOldStop, workers, history, CallInv, DocInv, WorkerInv, MemoryInv,
     Watched, Working, Clean, ServingAt, Ticking, Spawning, Memory
<1>6. StoreInv(f)'
  BY <1>0 DEF DropOldStop, workers, history, StoreInv, CallInv, DocInv, MemoryInv,
     Opening, Admitted, Finished, ServingAt, Ticking, Spawning, Memory
<1>7. \A e \in Docs : admissions[e] # None => admissions'[e] # None
  BY <1>0 DEF DropOldStop, workers, history
<1> QED BY <1>1, <1>2, <1>3, <1>4, <1>5, <1>6, <1>7 DEF OwnerKeeps

(* A new epoch has no worker yet, and no other worker is up.                *)
LEMMA MakeEpochKeeps ==
  ASSUME TypeInv, SharedInv, NEW f \in Frontends, MemoryInv(f), WorkInv(f), TypeInv',
         NEW w \in Epochs, MakeEpoch(f, w)
  PROVE  OwnerKeeps(f)
<1>0. /\ MemoryType /\ mem[f] \in Memory /\ StoreType /\ WorkerType
      /\ OneWorker /\ PipeInv /\ DocInv
      /\ WorkerInv(f) /\ CallInv(f) /\ StoreInv(f)
  BY DEF TypeInv, MemoryType, SharedInv, WorkInv
<1> USE ServiceAssumption DEF Goto, Set, MemoryType, StoreType, WorkerType
<1>1. OneWorker'
  BY <1>0 DEF MakeEpoch, history, OneWorker, WorkerInv, Clean, Up
<1>2. PipeInv'
  BY <1>0 DEF MakeEpoch, history, PipeInv, WorkerInv, CallInv, MemoryInv, Clean, Up,
     Working, ServingAt, Ticking, Spawning, Memory
<1>3. DocInv'
  BY <1>0 DEF MakeEpoch, history, DocInv, StoreInv, CallInv, MemoryInv, ServingAt,
     Ticking, Spawning, Memory
<1>4. WorkerInv(f)'
  BY <1>0 DEF MakeEpoch, history, WorkerInv, PipeInv, MemoryInv, Clean, Up, Opening,
     ServingAt, Ticking, Spawning, Memory
<1>5. CallInv(f)'
  BY <1>0 DEF MakeEpoch, history, CallInv, DocInv, WorkerInv, MemoryInv, Watched,
     Working, Clean, ServingAt, Ticking, Spawning, Memory
<1>6. StoreInv(f)'
  BY <1>0 DEF MakeEpoch, history, StoreInv, CallInv, DocInv, MemoryInv, Opening,
     Admitted, Finished, ServingAt, Ticking, Spawning, Memory
<1>7. \A e \in Docs : admissions[e] # None => admissions'[e] # None
  BY <1>0 DEF MakeEpoch, history
<1> QED BY <1>1, <1>2, <1>3, <1>4, <1>5, <1>6, <1>7 DEF OwnerKeeps

(* Its owner.json is there before its worker is.                            *)
LEMMA WriteEpochKeeps ==
  ASSUME TypeInv, SharedInv, NEW f \in Frontends, MemoryInv(f), WorkInv(f), TypeInv',
         WriteEpoch(f)
  PROVE  OwnerKeeps(f)
<1>0. /\ MemoryType /\ mem[f] \in Memory /\ StoreType /\ WorkerType
      /\ OneWorker /\ PipeInv /\ DocInv
      /\ WorkerInv(f) /\ CallInv(f) /\ StoreInv(f)
  BY DEF TypeInv, MemoryType, SharedInv, WorkInv
<1> USE ServiceAssumption DEF Goto, Set, MemoryType, StoreType, WorkerType
<1>1. OneWorker'
  BY <1>0 DEF WriteEpoch, workers, history, OneWorker, WorkerInv, Clean, Up
<1>2. PipeInv'
  BY <1>0 DEF WriteEpoch, workers, history, PipeInv, WorkerInv, CallInv, MemoryInv,
     Clean, Up, Working, ServingAt, Ticking, Spawning, Memory
<1>3. DocInv'
  BY <1>0 DEF WriteEpoch, workers, history, DocInv, StoreInv, CallInv, MemoryInv,
     ServingAt, Ticking, Spawning, Memory
<1>4. WorkerInv(f)'
  BY <1>0 DEF WriteEpoch, workers, history, WorkerInv, PipeInv, MemoryInv, Clean, Up,
     Opening, ServingAt, Ticking, Spawning, Memory
<1>5. CallInv(f)'
  BY <1>0 DEF WriteEpoch, workers, history, CallInv, DocInv, WorkerInv, MemoryInv,
     Watched, Working, Clean, ServingAt, Ticking, Spawning, Memory
<1>6. StoreInv(f)'
  BY <1>0 DEF WriteEpoch, workers, history, StoreInv, CallInv, DocInv, MemoryInv,
     Opening, Admitted, Finished, ServingAt, Ticking, Spawning, Memory
<1>7. \A e \in Docs : admissions[e] # None => admissions'[e] # None
  BY <1>0 DEF WriteEpoch, workers, history
<1> QED BY <1>1, <1>2, <1>3, <1>4, <1>5, <1>6, <1>7 DEF OwnerKeeps

(* The new worker is the only one; it is called to initialize itself.       *)
LEMMA SpawnWorkerKeeps ==
  ASSUME TypeInv, SharedInv, NEW f \in Frontends, MemoryInv(f), WorkInv(f), TypeInv',
         SpawnWorker(f)
  PROVE  OwnerKeeps(f)
<1>0. /\ MemoryType /\ mem[f] \in Memory /\ StoreType /\ WorkerType
      /\ OneWorker /\ PipeInv /\ DocInv
      /\ WorkerInv(f) /\ CallInv(f) /\ StoreInv(f)
  BY DEF TypeInv, MemoryType, SharedInv, WorkInv
<1> USE ServiceAssumption DEF Goto, Set, MemoryType, StoreType, WorkerType
<1>1. OneWorker'
  BY <1>0 DEF SpawnWorker, disk, history, OneWorker, WorkerInv, Clean, Up
<1>2. PipeInv'
  BY <1>0 DEF SpawnWorker, disk, history, PipeInv, WorkerInv, CallInv, MemoryInv, Clean,
     Up, Working, ServingAt, Ticking, Spawning, Memory
<1>3. DocInv'
  BY <1>0 DEF SpawnWorker, disk, history, DocInv, StoreInv, CallInv, MemoryInv,
     ServingAt, Ticking, Spawning, Memory
<1>4. WorkerInv(f)'
  BY <1>0 DEF SpawnWorker, disk, history, WorkerInv, PipeInv, MemoryInv, Clean, Up,
     Opening, ServingAt, Ticking, Spawning, Memory
<1>5. CallInv(f)'
  BY <1>0 DEF SpawnWorker, disk, history, CallInv, DocInv, WorkerInv, MemoryInv, Watched,
     Working, Clean, ServingAt, Ticking, Spawning, Memory
<1>6. StoreInv(f)'
  BY <1>0 DEF SpawnWorker, disk, history, StoreInv, CallInv, DocInv, MemoryInv, Opening,
     Admitted, Finished, ServingAt, Ticking, Spawning, Memory
<1>7. \A e \in Docs : admissions[e] # None => admissions'[e] # None
  BY <1>0 DEF SpawnWorker, disk, history
<1> QED BY <1>1, <1>2, <1>3, <1>4, <1>5, <1>6, <1>7 DEF OwnerKeeps

(* A worker that is named is known already.                                 *)
LEMMA NameWorkerKeeps ==
  ASSUME TypeInv, SharedInv, NEW f \in Frontends, MemoryInv(f), WorkInv(f), TypeInv',
         NameWorker(f)
  PROVE  OwnerKeeps(f)
<1>0. /\ MemoryType /\ mem[f] \in Memory /\ StoreType /\ WorkerType
      /\ OneWorker /\ PipeInv /\ DocInv
      /\ WorkerInv(f) /\ CallInv(f) /\ StoreInv(f)
  BY DEF TypeInv, MemoryType, SharedInv, WorkInv
<1> USE ServiceAssumption DEF Goto, Set, MemoryType, StoreType, WorkerType
<1>1. OneWorker'
  BY <1>0 DEF NameWorker, workers, history, OneWorker, WorkerInv, Clean, Up
<1>2. PipeInv'
  BY <1>0 DEF NameWorker, workers, history, PipeInv, WorkerInv, CallInv, MemoryInv,
     Clean, Up, Working, ServingAt, Ticking, Spawning, Memory
<1>3. DocInv'
  BY <1>0 DEF NameWorker, workers, history, DocInv, StoreInv, CallInv, MemoryInv,
     ServingAt, Ticking, Spawning, Memory
<1>4. WorkerInv(f)'
  BY <1>0 DEF NameWorker, workers, history, WorkerInv, PipeInv, MemoryInv, Clean, Up,
     Opening, ServingAt, Ticking, Spawning, Memory
<1>5. CallInv(f)'
  BY <1>0 DEF NameWorker, workers, history, CallInv, DocInv, WorkerInv, MemoryInv,
     Watched, Working, Clean, ServingAt, Ticking, Spawning, Memory
<1>6. StoreInv(f)'
  BY <1>0 DEF NameWorker, workers, history, StoreInv, CallInv, DocInv, MemoryInv,
     Opening, Admitted, Finished, ServingAt, Ticking, Spawning, Memory
<1>7. \A e \in Docs : admissions[e] # None => admissions'[e] # None
  BY <1>0 DEF NameWorker, workers, history
<1> QED BY <1>1, <1>2, <1>3, <1>4, <1>5, <1>6, <1>7 DEF OwnerKeeps

(* A new document was not known to the store, and nothing else is being     *)
(* worked on.                                                               *)
LEMMA AdmitKeeps ==
  ASSUME TypeInv, SharedInv, NEW f \in Frontends, MemoryInv(f), WorkInv(f), TypeInv',
         NEW d \in Docs, Admit(f, d)
  PROVE  OwnerKeeps(f)
<1>0. /\ MemoryType /\ mem[f] \in Memory /\ StoreType /\ WorkerType
      /\ OneWorker /\ PipeInv /\ DocInv
      /\ WorkerInv(f) /\ CallInv(f) /\ StoreInv(f)
  BY DEF TypeInv, MemoryType, SharedInv, WorkInv
<1> USE ServiceAssumption DEF Goto, Set, MemoryType, StoreType, WorkerType
<1>1. OneWorker'
  BY <1>0 DEF Admit, Admissible, Reserved, workers, history, OneWorker, WorkerInv, Clean,
     Up
<1>2. PipeInv'
  BY <1>0 DEF Admit, Admissible, Reserved, workers, history, PipeInv, WorkerInv, CallInv,
     MemoryInv, Clean, Up, Working, ServingAt, Ticking, Spawning, Memory
<1>3. DocInv'
  BY <1>0 DEF Admit, Admissible, Reserved, workers, history, DocInv, StoreInv, CallInv,
     MemoryInv, ServingAt, Ticking, Spawning, Memory
<1>4. WorkerInv(f)'
  BY <1>0 DEF Admit, Admissible, Reserved, workers, history, WorkerInv, PipeInv,
     MemoryInv, Clean, Up, Opening, ServingAt, Ticking, Spawning, Memory
<1>5. CallInv(f)'
  BY <1>0 DEF Admit, Admissible, Reserved, workers, history, CallInv, DocInv, WorkerInv,
     MemoryInv, Watched, Working, Clean, ServingAt, Ticking, Spawning, Memory
<1>6. StoreInv(f)'
  BY <1>0 DEF Admit, Admissible, Reserved, workers, history, StoreInv, CallInv, DocInv,
     MemoryInv, Opening, Admitted, Finished, ServingAt, Ticking, Spawning, Memory
<1>7. \A e \in Docs : admissions[e] # None => admissions'[e] # None
  BY <1>0 DEF Admit, Admissible, Reserved, workers, history
<1> QED BY <1>1, <1>2, <1>3, <1>4, <1>5, <1>6, <1>7 DEF OwnerKeeps

(* The active document is given to the worker, which has nothing else in    *)
(* its pipe.                                                                *)
LEMMA DispatchKeeps ==
  ASSUME TypeInv, SharedInv, NEW f \in Frontends, MemoryInv(f), WorkInv(f), TypeInv',
         Dispatch(f)
  PROVE  OwnerKeeps(f)
<1>0. /\ MemoryType /\ mem[f] \in Memory /\ StoreType /\ WorkerType
      /\ OneWorker /\ PipeInv /\ DocInv
      /\ WorkerInv(f) /\ CallInv(f) /\ StoreInv(f)
  BY DEF TypeInv, MemoryType, SharedInv, WorkInv
<1> USE ServiceAssumption DEF Goto, Set, MemoryType, StoreType, WorkerType
<1>1. OneWorker'
  BY <1>0 DEF Dispatch, disk, OneWorker, WorkerInv, Clean, Up
<1>2. PipeInv'
  BY <1>0 DEF Dispatch, disk, PipeInv, WorkerInv, CallInv, MemoryInv, Clean, Up, Working,
     ServingAt, Ticking, Spawning, Memory
<1>3. DocInv'
  BY <1>0 DEF Dispatch, disk, DocInv, StoreInv, CallInv, MemoryInv, ServingAt, Ticking,
     Spawning, Memory
<1>4. WorkerInv(f)'
  BY <1>0 DEF Dispatch, disk, WorkerInv, PipeInv, MemoryInv, Clean, Up, Opening,
     ServingAt, Ticking, Spawning, Memory
<1>5. CallInv(f)'
  BY <1>0 DEF Dispatch, disk, CallInv, DocInv, WorkerInv, MemoryInv, Watched, Working,
     Clean, ServingAt, Ticking, Spawning, Memory
<1>6. StoreInv(f)'
  BY <1>0 DEF Dispatch, disk, StoreInv, CallInv, DocInv, MemoryInv, Opening, Admitted,
     Finished, ServingAt, Ticking, Spawning, Memory
<1>7. \A e \in Docs : admissions[e] # None => admissions'[e] # None
  BY <1>0 DEF Dispatch, disk
<1> QED BY <1>1, <1>2, <1>3, <1>4, <1>5, <1>6, <1>7 DEF OwnerKeeps

(* Nothing is left in the pipe after an event.                              *)
LEMMA WatchEventKeeps ==
  ASSUME TypeInv, SharedInv, NEW f \in Frontends, MemoryInv(f), WorkInv(f), TypeInv',
         WatchEvent(f)
  PROVE  OwnerKeeps(f)
<1>0. /\ MemoryType /\ mem[f] \in Memory /\ StoreType /\ WorkerType
      /\ OneWorker /\ PipeInv /\ DocInv
      /\ WorkerInv(f) /\ CallInv(f) /\ StoreInv(f)
  BY DEF TypeInv, MemoryType, SharedInv, WorkInv
<1> USE ServiceAssumption DEF Goto, Set, MemoryType, StoreType, WorkerType
<1> DEFINE w == mem[f].epoch
<1>a. /\ pc[f] = "watch" /\ pc'[f] = "reap" /\ w \in Epochs
      /\ mem[f].handle /\ ~mem[f].retiring
      /\ mem'[f] \in {Opened(mem[f]), [mem[f] EXCEPT !.retiring = TRUE]}
      /\ call' = [call EXCEPT ![w] = None]
      /\ UNCHANGED <<epochDir, admissions, results, worker, dispatched, expired>>
  BY <1>0 DEF WatchEvent, Watched, Read, MemoryInv, disk, history
<1>b. /\ mem'[f].epoch = w /\ mem'[f].handle
      /\ mem'[f].active = mem[f].active /\ mem'[f].storage = mem[f].storage
  <2>1. CASE mem'[f] = Opened(mem[f]) BY <1>0, <1>a, <2>1 DEF Opened, Memory
  <2>2. CASE mem'[f] = [mem[f] EXCEPT !.retiring = TRUE] BY <1>0, <1>a, <2>2 DEF Memory
  <2> QED BY <1>a, <2>1, <2>2
<1>1. OneWorker'
  BY <1>0 DEF WatchEvent, Opened, Read, Watched, disk, history, OneWorker, WorkerInv,
     Clean, Up
<1>2. PipeInv'
  BY <1>0 DEF WatchEvent, Opened, Read, Watched, disk, history, PipeInv, WorkerInv,
     CallInv, MemoryInv, Clean, Up, Working, ServingAt, Ticking, Spawning, Memory
<1>3. DocInv'
  BY <1>0 DEF WatchEvent, Opened, Read, Watched, disk, history, DocInv, StoreInv,
     CallInv, MemoryInv, ServingAt, Ticking, Spawning, Memory
<1>4. WorkerInv(f)'
  BY <1>0, <1>a, <1>b DEF WorkerInv, Clean, Up, ServingAt, Ticking
<1>5. CallInv(f)'
  BY <1>0, <1>a, <1>b DEF CallInv, Working
<1>6. StoreInv(f)'
  BY <1>0, <1>a, <1>b DEF StoreInv, ServingAt, Ticking
<1>7. \A e \in Docs : admissions[e] # None => admissions'[e] # None
  BY <1>0 DEF WatchEvent, Opened, Read, Watched, disk, history
<1> QED BY <1>1, <1>2, <1>3, <1>4, <1>5, <1>6, <1>7 DEF OwnerKeeps

(* An answer is about the active document, which was not given up: a worker *)
(* that is watched has not been retired, and without a failed publication   *)
(* the given up is terminal.                                                *)
LEMMA WatchResultKeeps ==
  ASSUME TypeInv, SharedInv, NEW f \in Frontends, MemoryInv(f), WorkInv(f), TypeInv',
         WatchResult(f)
  PROVE  OwnerKeeps(f)
<1>0. /\ MemoryType /\ mem[f] \in Memory /\ StoreType /\ WorkerType
      /\ OneWorker /\ PipeInv /\ DocInv
      /\ WorkerInv(f) /\ CallInv(f) /\ StoreInv(f)
  BY DEF TypeInv, MemoryType, SharedInv, WorkInv
<1> USE ServiceAssumption DEF Goto, Set, MemoryType, StoreType, WorkerType
<1>1. OneWorker'
  BY <1>0 DEF WatchResult, Answered, Read, Publishable, Watched, history, OneWorker,
     WorkerInv, Clean, Up
<1>2. PipeInv'
  BY <1>0 DEF WatchResult, Answered, Read, Publishable, Watched, history, PipeInv,
     WorkerInv, CallInv, MemoryInv, Clean, Up, Working, ServingAt, Ticking, Spawning,
     Memory
<1>3. DocInv'
  BY <1>0 DEF WatchResult, Answered, Read, Publishable, Watched, history, DocInv,
     StoreInv, CallInv, MemoryInv, ServingAt, Ticking, Spawning, Memory
<1>4. WorkerInv(f)'
  BY <1>0 DEF WatchResult, Answered, Read, Publishable, Watched, history, WorkerInv,
     PipeInv, MemoryInv, Clean, Up, Opening, ServingAt, Ticking, Spawning, Memory
<1>5. CallInv(f)'
  BY <1>0 DEF WatchResult, Answered, Read, Publishable, Watched, history, CallInv,
     DocInv, WorkerInv, MemoryInv, Working, Clean, ServingAt, Ticking, Spawning, Memory
<1>6. StoreInv(f)'
  BY <1>0 DEF WatchResult, Answered, Read, Publishable, Watched, history, StoreInv,
     CallInv, DocInv, MemoryInv, Opening, Admitted, Finished, ServingAt, Ticking,
     Spawning, Memory
<1>7. \A e \in Docs : admissions[e] # None => admissions'[e] # None
  BY <1>0 DEF WatchResult, Answered, Read, Publishable, Watched, history
<1> QED BY <1>1, <1>2, <1>3, <1>4, <1>5, <1>6, <1>7 DEF OwnerKeeps

(* The slot is freed when the document is terminal.                         *)
LEMMA FreeSlotKeeps ==
  ASSUME TypeInv, SharedInv, NEW f \in Frontends, MemoryInv(f), WorkInv(f), TypeInv',
         FreeSlot(f)
  PROVE  OwnerKeeps(f)
<1>0. /\ MemoryType /\ mem[f] \in Memory /\ StoreType /\ WorkerType
      /\ OneWorker /\ PipeInv /\ DocInv
      /\ WorkerInv(f) /\ CallInv(f) /\ StoreInv(f)
  BY DEF TypeInv, MemoryType, SharedInv, WorkInv
<1> USE ServiceAssumption DEF Goto, Set, MemoryType, StoreType, WorkerType
<1>1. OneWorker'
  BY <1>0 DEF FreeSlot, Opened, disk, workers, history, OneWorker, WorkerInv, Clean, Up
<1>2. PipeInv'
  BY <1>0 DEF FreeSlot, Opened, disk, workers, history, PipeInv, WorkerInv, CallInv,
     MemoryInv, Clean, Up, Working, ServingAt, Ticking, Spawning, Memory
<1>3. DocInv'
  BY <1>0 DEF FreeSlot, Opened, disk, workers, history, DocInv, StoreInv, CallInv,
     MemoryInv, ServingAt, Ticking, Spawning, Memory
<1>4. WorkerInv(f)'
  BY <1>0 DEF FreeSlot, Opened, disk, workers, history, WorkerInv, PipeInv, MemoryInv,
     Clean, Up, Opening, ServingAt, Ticking, Spawning, Memory
<1>5. CallInv(f)'
  BY <1>0 DEF FreeSlot, Opened, disk, workers, history, CallInv, DocInv, WorkerInv,
     MemoryInv, Watched, Working, Clean, ServingAt, Ticking, Spawning, Memory
<1>6. StoreInv(f)'
  BY <1>0 DEF FreeSlot, Opened, disk, workers, history, StoreInv, CallInv, DocInv,
     MemoryInv, Opening, Admitted, Finished, ServingAt, Ticking, Spawning, Memory
<1>7. \A e \in Docs : admissions[e] # None => admissions'[e] # None
  BY <1>0 DEF FreeSlot, Opened, disk, workers, history
<1> QED BY <1>1, <1>2, <1>3, <1>4, <1>5, <1>6, <1>7 DEF OwnerKeeps

(* The epoch that is removed is the dead worker's.                          *)
LEMMA CleansEpochKeeps ==
  ASSUME TypeInv, SharedInv, NEW f \in Frontends, MemoryInv(f), WorkInv(f), TypeInv',
         Cleans(f)
  PROVE  OwnerKeeps(f)
<1>0. /\ MemoryType /\ mem[f] \in Memory /\ StoreType /\ WorkerType
      /\ OneWorker /\ PipeInv /\ DocInv
      /\ WorkerInv(f) /\ CallInv(f) /\ StoreInv(f)
  BY DEF TypeInv, MemoryType, SharedInv, WorkInv
<1> USE ServiceAssumption DEF Goto, Set, MemoryType, StoreType, WorkerType
<1>1. OneWorker'
  BY <1>0 DEF Cleans, workers, history, OneWorker, WorkerInv, Clean, Up
<1>2. PipeInv'
  BY <1>0 DEF Cleans, workers, history, PipeInv, WorkerInv, CallInv, MemoryInv, Clean,
     Up, Working, ServingAt, Ticking, Spawning, Memory
<1>3. DocInv'
  BY <1>0 DEF Cleans, workers, history, DocInv, StoreInv, CallInv, MemoryInv, ServingAt,
     Ticking, Spawning, Memory
<1>4. WorkerInv(f)'
  BY <1>0 DEF Cleans, workers, history, WorkerInv, PipeInv, MemoryInv, Clean, Up,
     Opening, ServingAt, Ticking, Spawning, Memory
<1>5. CallInv(f)'
  BY <1>0 DEF Cleans, workers, history, CallInv, DocInv, WorkerInv, MemoryInv, Watched,
     Working, Clean, ServingAt, Ticking, Spawning, Memory
<1>6. StoreInv(f)'
  BY <1>0 DEF Cleans, workers, history, StoreInv, CallInv, DocInv, MemoryInv, Opening,
     Admitted, Finished, ServingAt, Ticking, Spawning, Memory
<1>7. \A e \in Docs : admissions[e] # None => admissions'[e] # None
  BY <1>0 DEF Cleans, workers, history
<1> QED BY <1>1, <1>2, <1>3, <1>4, <1>5, <1>6, <1>7 DEF OwnerKeeps

(* After it no worker is up, so that a new one may be started.              *)
LEMMA ReapedKeeps ==
  ASSUME TypeInv, SharedInv, NEW f \in Frontends, MemoryInv(f), WorkInv(f), TypeInv',
         Reaped(f)
  PROVE  OwnerKeeps(f)
<1>0. /\ MemoryType /\ mem[f] \in Memory /\ StoreType /\ WorkerType
      /\ OneWorker /\ PipeInv /\ DocInv
      /\ WorkerInv(f) /\ CallInv(f) /\ StoreInv(f)
  BY DEF TypeInv, MemoryType, SharedInv, WorkInv
<1> USE ServiceAssumption DEF Goto, Set, MemoryType, StoreType, WorkerType
<1>1. OneWorker'
  BY <1>0 DEF Reaped, workers, history, OneWorker, WorkerInv, Clean, Up
<1>2. PipeInv'
  BY <1>0 DEF Reaped, workers, history, PipeInv, WorkerInv, CallInv, MemoryInv, Clean,
     Up, Working, ServingAt, Ticking, Spawning, Memory
<1>3. DocInv'
  BY <1>0 DEF Reaped, workers, history, DocInv, StoreInv, CallInv, MemoryInv, ServingAt,
     Ticking, Spawning, Memory
<1>4. WorkerInv(f)'
  BY <1>0 DEF Reaped, workers, history, WorkerInv, PipeInv, MemoryInv, Clean, Up,
     Opening, ServingAt, Ticking, Spawning, Memory
<1>5. CallInv(f)'
  BY <1>0 DEF Reaped, workers, history, CallInv, DocInv, WorkerInv, MemoryInv, Watched,
     Working, Clean, ServingAt, Ticking, Spawning, Memory
<1>6. StoreInv(f)'
  BY <1>0 DEF Reaped, workers, history, StoreInv, CallInv, DocInv, MemoryInv, Opening,
     Admitted, Finished, ServingAt, Ticking, Spawning, Memory
<1>7. \A e \in Docs : admissions[e] # None => admissions'[e] # None
  BY <1>0 DEF Reaped, workers, history
<1> QED BY <1>1, <1>2, <1>3, <1>4, <1>5, <1>6, <1>7 DEF OwnerKeeps

(* A worker that is asked to close works on nothing.                        *)
LEMMA AsksToCloseKeeps ==
  ASSUME TypeInv, SharedInv, NEW f \in Frontends, MemoryInv(f), WorkInv(f), TypeInv',
         AsksToClose(f)
  PROVE  OwnerKeeps(f)
<1>0. /\ MemoryType /\ mem[f] \in Memory /\ StoreType /\ WorkerType
      /\ OneWorker /\ PipeInv /\ DocInv
      /\ WorkerInv(f) /\ CallInv(f) /\ StoreInv(f)
  BY DEF TypeInv, MemoryType, SharedInv, WorkInv
<1> USE ServiceAssumption DEF Goto, Set, MemoryType, StoreType, WorkerType
<1>1. OneWorker'
  BY <1>0 DEF AsksToClose, Watched, disk, history, OneWorker, WorkerInv, Clean, Up
<1>2. PipeInv'
  BY <1>0 DEF AsksToClose, Watched, disk, history, PipeInv, WorkerInv, CallInv,
     MemoryInv, Clean, Up, Working, ServingAt, Ticking, Spawning, Memory
<1>3. DocInv'
  BY <1>0 DEF AsksToClose, Watched, disk, history, DocInv, StoreInv, CallInv, MemoryInv,
     ServingAt, Ticking, Spawning, Memory
<1>4. WorkerInv(f)'
  BY <1>0 DEF AsksToClose, Watched, disk, history, WorkerInv, PipeInv, MemoryInv, Clean,
     Up, Opening, ServingAt, Ticking, Spawning, Memory
<1>5. CallInv(f)'
  BY <1>0 DEF AsksToClose, Watched, disk, history, CallInv, DocInv, WorkerInv, MemoryInv,
     Working, Clean, ServingAt, Ticking, Spawning, Memory
<1>6. StoreInv(f)'
  BY <1>0 DEF AsksToClose, Watched, disk, history, StoreInv, CallInv, DocInv, MemoryInv,
     Opening, Admitted, Finished, ServingAt, Ticking, Spawning, Memory
<1>7. \A e \in Docs : admissions[e] # None => admissions'[e] # None
  BY <1>0 DEF AsksToClose, Watched, disk, history
<1> QED BY <1>1, <1>2, <1>3, <1>4, <1>5, <1>6, <1>7 DEF OwnerKeeps

(* What is given up is terminal, or its record could not be written.        *)
LEMMA GivesUpKeeps ==
  ASSUME TypeInv, SharedInv, NEW f \in Frontends, MemoryInv(f), WorkInv(f), TypeInv',
         GivesUp(f)
  PROVE  OwnerKeeps(f)
<1>0. /\ MemoryType /\ mem[f] \in Memory /\ StoreType /\ WorkerType
      /\ OneWorker /\ PipeInv /\ DocInv
      /\ WorkerInv(f) /\ CallInv(f) /\ StoreInv(f)
  BY DEF TypeInv, MemoryType, SharedInv, WorkInv
<1> USE ServiceAssumption DEF Goto, Set, MemoryType, StoreType, WorkerType
<1>1. OneWorker'
  BY <1>0 DEF GivesUp, GivenUp, Kept, Published, Read, OneWorker, WorkerInv, Clean, Up
<1>2. PipeInv'
  BY <1>0 DEF GivesUp, GivenUp, Kept, Published, Read, PipeInv, WorkerInv, CallInv,
     MemoryInv, Clean, Up, Working, ServingAt, Ticking, Spawning, Memory
<1>3. DocInv'
  BY <1>0 DEF GivesUp, GivenUp, Kept, Published, Read, DocInv, StoreInv, CallInv,
     MemoryInv, ServingAt, Ticking, Spawning, Memory
<1>4. WorkerInv(f)'
  BY <1>0 DEF GivesUp, GivenUp, Kept, Published, Read, WorkerInv, PipeInv, MemoryInv,
     Clean, Up, Opening, ServingAt, Ticking, Spawning, Memory
<1>5. CallInv(f)'
  BY <1>0 DEF GivesUp, GivenUp, Kept, Published, Read, CallInv, DocInv, WorkerInv,
     MemoryInv, Watched, Working, Clean, ServingAt, Ticking, Spawning, Memory
<1>6. StoreInv(f)'
  BY <1>0 DEF GivesUp, GivenUp, Kept, Published, Read, StoreInv, CallInv, DocInv,
     MemoryInv, Opening, Admitted, Finished, ServingAt, Ticking, Spawning, Memory
<1>7. \A e \in Docs : admissions[e] # None => admissions'[e] # None
  BY <1>0 DEF GivesUp, GivenUp, Kept, Published, Read
<1> QED BY <1>1, <1>2, <1>3, <1>4, <1>5, <1>6, <1>7 DEF OwnerKeeps

(* Every step of the owner keeps what is said of workers and documents.     *)
LEMMA OwnerStepKeeps ==
  ASSUME TypeInv, SharedInv, NEW f \in Frontends, MemoryInv(f), WorkInv(f), TypeInv',
         Recovering(f) \/ Spawns(f) \/ Serves(f)
  PROVE  OwnerKeeps(f)
<1>1. CASE Recovering(f)
  BY <1>1, CleanEpochKeeps, EpochRemovedKeeps, EpochsCleanKeeps, LoadKeeps, SettleKeeps,
     DropOldStopKeeps DEF Recovering
<1>2. CASE Spawns(f)
  BY <1>2, MakeEpochKeeps, WriteEpochKeeps, SpawnWorkerKeeps, NameWorkerKeeps,
     QuietSteps, QuietKeeps DEF Spawns
<1>3. CASE Serves(f)
  BY <1>3, AdmitKeeps, DispatchKeeps, WatchEventKeeps, WatchResultKeeps, FreeSlotKeeps,
     CleansEpochKeeps, ReapedKeeps, AsksToCloseKeeps, GivesUpKeeps, QuietSteps,
     QuietKeeps
     DEF Serves
<1> QED BY <1>1, <1>2, <1>3

-----------------------------------------------------------------------------
(* The invariant: every step keeps it.                                      *)
LEMMA TypeSteps ==
  ASSUME ServiceInv, [Next]_vars
  PROVE  TypeInv'
<1>1. ASSUME NEW f \in Frontends, Steps(f) PROVE TypeInv'
  BY <1>1, StartingTypes, RecoveringTypes, SpawnTypes, ServeTypes, EndTypes
  DEF Steps, ServiceInv
<1>2. CASE Beside BY <1>2, BesideTypes DEF ServiceInv
<1> QED BY <1>1, <1>2, NextSteps DEF Steps, ServiceInv

(* Every step keeps the invariant.                                          *)
LEMMA ServiceSteps == ServiceInv /\ [Next]_vars => ServiceInv'
<1> SUFFICES ASSUME ServiceInv, [Next]_vars PROVE ServiceInv' OBVIOUS
<1>1. /\ TypeInv /\ TypeInv' /\ Owners /\ SharedInv
      /\ \A f \in Frontends : OwnerInv(f) /\ MemoryInv(f) /\ CallInv(f) /\ WorkInv(f)
  BY TypeSteps DEF ServiceInv, Owners, SharedInv, WorkInv
<1>2. Owners' BY <1>1, OwnerSteps
<1>3. \A f \in Frontends : MemoryInv(f)' BY <1>1, MemoriesKept
<1>4. SharedInv' /\ \A g \in Frontends : WorkInv(g)'
  <2>1. ASSUME NEW f \in Frontends, Starting(f) \/ Ends(f)
        PROVE  SharedInv' /\ \A g \in Frontends : WorkInv(g)'
    BY <1>1, <2>1, EdgeKeeps
  <2>2. ASSUME NEW f \in Frontends, Recovering(f) \/ Spawns(f) \/ Serves(f)
        PROVE  SharedInv' /\ \A g \in Frontends : WorkInv(g)'
    <3>1. Rules(f) BY <1>1, <2>2, RulingSteps
    <3>2. OwnerKeeps(f) BY <1>1, <2>2, OwnerStepKeeps
    <3> QED BY <1>1, <3>1, <3>2, OwnerKeepsAll
  <2>3. CASE Beside BY <1>1, <2>3, BesideKeeps
  <2> QED BY <1>1, <2>1, <2>2, <2>3, NextSteps
<1> QED BY <1>1, <1>2, <1>3, <1>4 DEF ServiceInv, Owners, SharedInv, WorkInv

(* The inductive invariant of the service: who owns the store, what its     *)
(* frontends remember, which worker can be up and what it was given.        *)
THEOREM ServiceInvariant == Spec => []ServiceInv
BY InitService, ServiceSteps, PTL DEF Spec

(* What the variables hold, in every run of frontends and workers.          *)
THEOREM TypesCorrect == Spec => []TypeOK
<1>1. ServiceInv => TypeOK
  BY DEF ServiceInv, TypeInv, MemoryType, StoreType, WorkerType, TypeOK, Memory,
     LockRecords
<1> QED BY <1>1, ServiceInvariant, PTL

(* However frontends start, crash and take over, one at most holds the      *)
(* store (svc_store_open(), svc_store_close()).                             *)
THEOREM OneOwnerHolds == Spec => []OneOwner
<1>1. ServiceInv => OneOwner BY DEF ServiceInv
<1> QED BY <1>1, ServiceInvariant, PTL

(* No worker is started while another may run (svc_start_worker(),          *)
(* svc_epoch_clean()).                                                      *)
THEOREM OneWorkerHolds == Spec => []OneWorker
<1>1. ServiceInv => OneWorker BY DEF ServiceInv
<1> QED BY <1>1, ServiceInvariant, PTL

(* What was given up (svc_retire()) never gets an answer of the worker.     *)
THEOREM LateHolds == Spec => []LateNeverCommits
<1>1. ServiceInv => LateNeverCommits
  BY DEF ServiceInv, LateNeverCommits, DocInv, TypeInv, WorkerType
<1> QED BY <1>1, ServiceInvariant, PTL

(* An accepted document is terminal or the active one (svc_admit(),         *)
(* svc_retire(), the recovery in svc_store_open()).                         *)
THEOREM NoneForgottenHolds == Spec => []NoneForgotten
<1>1. ServiceInv => NoneForgotten
  BY DEF ServiceInv, NoneForgotten, StoreInv, Serving, ServingAt
<1> QED BY <1>1, ServiceInvariant, PTL

-----------------------------------------------------------------------------
(* A fault or a stop is final: no step opens a closed service again.        *)
LEMMA ClosedSteps ==
  ASSUME TypeInv, TypeInv', NEW f \in Frontends, OwnerInv(f), MemoryInv(f),
         Steps(f), Closed(f)
  PROVE  Closed(f)' \/ ~Alive(f)'
<1> USE DEF Goto, Set
<1>0. MemoryType /\ mem[f] \in Memory BY DEF TypeInv, MemoryType
<1>a. mem[f].state \in {"faulted", "stopping", "stopped"} BY DEF Closed
<1>1. CASE Start(f)
  BY <1>1, <1>0, <1>a DEF Start, Closed, MemoryType, Memory, workers
<1>2. CASE TakeGuard(f)
  BY <1>2, <1>0, <1>a DEF TakeGuard, Closed, MemoryType, Memory, workers
<1>3. CASE LookAtLock(f)
  BY <1>3, <1>0, <1>a DEF LookAtLock, Closed, MemoryType, Memory, workers
<1>4. CASE Judge(f)
  BY <1>4, <1>0, <1>a DEF Judge, Closed, MemoryType, Memory, workers
<1>5. CASE SwapLock(f)
  BY <1>5, <1>0, <1>a DEF SwapLock, Closed, MemoryType, Memory, workers
<1>6. CASE Relock(f)
  BY <1>6, <1>0, <1>a DEF Relock, Closed, MemoryType, Memory, workers
<1>7. CASE RecordOwner(f)
  BY <1>7, <1>0, <1>a DEF RecordOwner, Closed, MemoryType, Memory, workers
<1>8. CASE DropGuard(f)
  BY <1>8, <1>0, <1>a DEF DropGuard, Closed, MemoryType, Memory, workers
<1>9. CASE OpenFails(f)
  BY <1>9, <1>0, <1>a DEF OpenFails, Closed, MemoryType, Memory, workers
<1>10. CASE Abort(f)
  BY <1>10, <1>0, <1>a DEF Abort, Closed, MemoryType, Memory, workers
<1>11. ASSUME NEW w \in Epochs, CleanEpoch(f, w) PROVE Closed(f)' \/ ~Alive(f)'
  BY <1>11, <1>0, <1>a DEF CleanEpoch, Closed, MemoryType, Memory, workers
<1>12. CASE EpochRemoved(f)
  BY <1>12, <1>0, <1>a DEF EpochRemoved, Closed, MemoryType, Memory, workers
<1>13. CASE EpochsClean(f)
  BY <1>13, <1>0, <1>a DEF EpochsClean, Closed, MemoryType, Memory, workers
<1>14. CASE Load(f)
  <2>1. \/ mem'[f] = mem[f]
        \/ mem'[f] = [mem[f] EXCEPT !.admissions = Admitted, !.results = Finished]
    BY <1>14, <1>0 DEF Load, MemoryType
  <2>2. mem'[f].state = mem[f].state BY <1>0, <2>1 DEF Memory
  <2> QED BY <1>a, <2>2 DEF Closed
<1>15. CASE Settle(f)
  BY <1>15, <1>0, <1>a DEF Settle, Closed, MemoryType, Memory, workers
<1>16. CASE DropOldStop(f)
  BY <1>16, <1>0, <1>a DEF DropOldStop, Closed, MemoryType, Memory, workers
<1>17. ASSUME NEW w \in Epochs, MakeEpoch(f, w) PROVE Closed(f)' \/ ~Alive(f)'
  BY <1>17, <1>a DEF MakeEpoch, MemoryInv, Spawning, Shut
<1>18. CASE WriteEpoch(f)
  BY <1>18, <1>0, <1>a DEF WriteEpoch, Closed, MemoryType, Memory, workers
<1>19. CASE SpawnWorker(f)
  BY <1>19, <1>0, <1>a DEF SpawnWorker, Closed, MemoryType, Memory
<1>20. CASE NameWorker(f)
  BY <1>20, <1>0, <1>a DEF NameWorker, Closed, MemoryType, Memory, workers
<1>21. CASE RegisterWorker(f)
  BY <1>21, <1>0, <1>a DEF RegisterWorker, Closed, MemoryType, Memory, workers
<1>22. ASSUME NEW d \in Docs, Admit(f, d) PROVE Closed(f)' \/ ~Alive(f)'
  BY <1>22, <1>a DEF Admit, Admissible
<1>23. CASE Dispatch(f)
  BY <1>23, <1>0, <1>a DEF Dispatch, Closed, MemoryType, Memory
<1>24. CASE Reported(f)
  BY <1>24, <1>0, <1>a DEF Reported, Closed, MemoryType, Memory, workers
<1>25. CASE StoreFull(f)
  BY <1>25, <1>0, <1>a DEF StoreFull, Closed, MemoryType, Memory, workers
<1>26. CASE TickBegins(f)
  BY <1>26, <1>0, <1>a DEF TickBegins, BeginStop, Closed, MemoryType, Memory, workers
<1>27. CASE WatchIdle(f)
  BY <1>27, <1>0, <1>a DEF WatchIdle, Closed, MemoryType, Memory, workers
<1>28. CASE WatchEvent(f)
  <2>1. mem[f].state # "stopped"
    BY <1>28 DEF WatchEvent, MemoryInv, ServingAt, Ticking
  <2>2. Opened(mem[f]).state = mem[f].state
    BY <1>0, <1>a, <2>1 DEF Opened, Memory
  <2>3. mem'[f].state = Opened(mem[f]).state
    <3>1. Opened(mem[f]) \in Memory BY <1>0 DEF Opened, Memory
    <3> QED BY <1>28, <1>0, <2>2, <3>1 DEF WatchEvent, MemoryType, Memory
  <2> QED BY <1>a, <2>2, <2>3 DEF Closed
<1>29. CASE WatchResult(f)
  BY <1>29, <1>0, <1>a DEF WatchResult, Answered, Closed, MemoryType, Memory
<1>30. CASE FreeSlot(f)
  <2>1. mem[f].state # "stopped"
    BY <1>30 DEF FreeSlot, MemoryInv, ServingAt, Ticking
  <2>2. Opened(mem[f]).state = mem[f].state
    BY <1>0, <1>a, <2>1 DEF Opened, Memory
  <2>3. mem'[f].state = Opened(mem[f]).state
    <3>1. Opened(mem[f]) \in Memory BY <1>0 DEF Opened, Memory
    <3> QED BY <1>30, <1>0, <2>2, <3>1 DEF FreeSlot, MemoryType, Memory
  <2> QED BY <1>a, <2>2, <2>3 DEF Closed
<1>31. CASE ReapIdle(f)
  BY <1>31, <1>0, <1>a DEF ReapIdle, Closed, MemoryType, Memory, workers
<1>32. CASE Cleans(f)
  BY <1>32, <1>0, <1>a DEF Cleans, Closed, MemoryType, Memory, workers
<1>33. CASE Reaped(f)
  BY <1>33, <1>0, <1>a DEF Reaped, Closed, MemoryType, Memory, workers
<1>34. CASE DrainEnds(f)
  BY <1>34, <1>0, <1>a DEF DrainEnds, Closed, MemoryType, Memory, workers
<1>35. CASE AsksToClose(f)
  BY <1>35, <1>0, <1>a DEF AsksToClose, Closed, MemoryType, Memory
<1>36. CASE DrainWaits(f)
  BY <1>36, <1>0, <1>a DEF DrainWaits, Closed, MemoryType, Memory, workers
<1>37. CASE TickEnds(f)
  BY <1>37, <1>0, <1>a DEF TickEnds, Closed, MemoryType, Memory, workers
<1>38. CASE Interrupt(f)
  BY <1>38, <1>0, <1>a DEF Interrupt, Closed, MemoryType, Memory, workers
<1>39. CASE GivesUp(f)
  BY <1>39, <1>0, <1>a DEF GivesUp, GivenUp, Kept, Shut, Closed, MemoryType, Memory
<1>40. CASE Leave(f)
  BY <1>40, <1>0, <1>a DEF Leave, Closed, MemoryType, Memory, workers
<1>41. CASE Unlock(f)
  BY <1>41, <1>0, <1>a DEF Unlock, Closed, MemoryType, Memory, workers
<1>42. CASE Tidy(f)
  BY <1>42, <1>0 DEF Tidy, MemoryType, Alive
<1>43. CASE Crash(f)
  BY <1>43, <1>0 DEF Crash, MemoryType, Alive
<1> QED
  BY <1>1, <1>2, <1>3, <1>4, <1>5, <1>6, <1>7, <1>8, <1>9, <1>10, <1>11, <1>12, <1>13,
     <1>14, <1>15, <1>16, <1>17, <1>18, <1>19, <1>20, <1>21, <1>22, <1>23, <1>24,
     <1>25, <1>26, <1>27, <1>28, <1>29, <1>30, <1>31, <1>32, <1>33, <1>34, <1>35,
     <1>36, <1>37, <1>38, <1>39, <1>40, <1>41, <1>42, <1>43
     DEF Steps, Starting, Recovering, Spawns, Serves, Ends

(* A faulted or stopping service admits nothing for the rest of its         *)
(* frontend's life (svc_begin_stop(), svc_worker_event()).                  *)
THEOREM ClosedHolds == Spec => ClosedStaysClosed
<1> DEFINE Final == \A f \in Frontends : Closed(f) => Closed(f)' \/ ~Alive(f)'
<1>1. ServiceInv /\ ServiceInv' /\ [Next]_vars => [Final]_vars
  <2> SUFFICES ASSUME ServiceInv, ServiceInv', [Next]_vars PROVE Final OBVIOUS
  <2>1. /\ TypeInv /\ TypeInv'
        /\ \A f \in Frontends : OwnerInv(f) /\ MemoryInv(f)
    BY DEF ServiceInv
  <2>2. ASSUME NEW f \in Frontends, Steps(f), NEW g \in Frontends, Closed(g)
        PROVE  Closed(g)' \/ ~Alive(g)'
    <3>1. CASE g = f BY <2>1, <2>2, <3>1, ClosedSteps
    <3>2. CASE g # f BY <2>1, <2>2, <3>2, OthersStay DEF Closed
    <3> QED BY <3>1, <3>2
  <2>3. CASE Beside BY <2>3, BesideStays DEF Closed
  <2> QED BY <2>1, <2>2, <2>3, NextSteps DEF Steps
<1> QED BY <1>1, ServiceInvariant, PTL DEF Spec, ClosedStaysClosed

-----------------------------------------------------------------------------
(* The refinement: to its client the service is the tickets' protocol. Only *)
(* admissions, results and the history of dispatches are seen of it.        *)
Unseen == UNCHANGED <<admissions, results, dispatched>>

(* What the client does not see is a stutter.                               *)
LEMMA UnseenStutters == Unseen => UNCHANGED Client!vars
BY DEF Unseen, Client!vars, ticket

(* Initially no ticket is known.                                            *)
LEMMA InitTickets == Init => Client!Init
BY DEF Init, Client!Init, ticket

(* A terminal record for an accepted document, in the client's view.        *)
LEMMA PublishFinishes ==
  ASSUME StoreType, NEW d \in Docs, NEW state \in {"success", "error", "interrupted"},
         admissions[d] # None, results[d] = None,
         state \in {"success", "error"} => dispatched[d] = 1,
         results' = [results EXCEPT ![d] = state], UNCHANGED <<admissions, dispatched>>
  PROVE  Client!Finish(d, state)
<1>1. ticket[d] = "accepted" BY DEF ticket
<1>2. ticket' = [ticket EXCEPT ![d] = state]
  BY ServiceAssumption DEF ticket, StoreType
<1> QED BY <1>1, <1>2 DEF Client!Finish, Client!Answers

(* An admission is one: the store knew nothing of the document.             *)
LEMMA AdmitAdmits ==
  ASSUME ServiceInv, NEW f \in Frontends, NEW d \in Docs, Admit(f, d)
  PROVE  Client!Admit(d)
<1>1. StoreType /\ MemoryInv(f) /\ DocInv BY DEF ServiceInv, TypeInv
<1>2. admissions[d] = None /\ results[d] = None BY <1>1 DEF Admit, DocInv
<1>3. mem[f].epoch \in Epochs BY <1>1 DEF Admit, Admissible, MemoryInv
<1>4. ticket[d] = "unknown" BY <1>2 DEF ticket
<1>5. ticket' = [ticket EXCEPT ![d] = "accepted"]
  BY <1>1, <1>2, <1>3, ServiceAssumption DEF Admit, ticket, StoreType
<1> QED BY <1>4, <1>5 DEF Client!Admit, Admit, history

(* A dispatch is the one run of an accepted document.                       *)
LEMMA DispatchRuns ==
  ASSUME ServiceInv, NEW f \in Frontends, Dispatch(f)
  PROVE  \E d \in Docs : Client!Run(d)
<1>1. CallInv(f) /\ StoreInv(f) /\ WorkerType BY DEF ServiceInv, TypeInv
<1> DEFINE d == mem[f].active
<1>2. d \in Docs /\ dispatched[d] = 0 /\ results[d] = None
  BY <1>1 DEF Dispatch, CallInv
<1>3. admissions[d] # None BY <1>1, <1>2, ServiceAssumption DEF StoreInv
<1>4. ticket[d] = "accepted" BY <1>2, <1>3 DEF ticket
<1>5. dispatched' = [dispatched EXCEPT ![d] = 1] BY <1>1, <1>2 DEF Dispatch, WorkerType
<1>6. ticket' = ticket BY DEF Dispatch, disk, ticket
<1> QED BY <1>2, <1>4, <1>5, <1>6 DEF Client!Run

(* A result is the answer of the run of the document it is recorded for.    *)
LEMMA ResultFinishes ==
  ASSUME ServiceInv, NEW f \in Frontends, WatchResult(f)
  PROVE  \E d \in Docs, state \in Client!Terminal : Client!Finish(d, state)
<1>1. /\ CallInv(f) /\ StoreInv(f) /\ MemoryInv(f) /\ PipeInv /\ StoreType
      /\ mem[f] \in Memory
  BY DEF ServiceInv, TypeInv, MemoryType
<1> DEFINE d == mem[f].active
           answer == reply[mem[f].epoch]
<1>2. /\ pc[f] = "watch" /\ Watched(f) /\ d # None /\ answer \in {"success", "error"}
      /\ results[d] = None /\ results' = [results EXCEPT ![d] = answer]
      /\ UNCHANGED <<admissions, dispatched>>
  BY DEF WatchResult, Answered, Publishable, history
<1>3. d \in Docs BY <1>1, <1>2 DEF Memory
<1>4. mem[f].epoch \in Epochs BY <1>1, <1>2 DEF MemoryInv, Watched
<1>5. dispatched[d] = 1
  BY <1>1, <1>2, <1>4 DEF CallInv, PipeInv, ServingAt, Ticking
<1>6. admissions[d] # None BY <1>1, <1>2 DEF StoreInv
<1>7. Client!Finish(d, answer) BY <1>1, <1>2, <1>3, <1>5, <1>6, PublishFinishes
<1> QED BY <1>2, <1>3, <1>7 DEF Client!Terminal, Client!Answers

(* Recovery ends a ticket as interrupted, or is not seen.                   *)
LEMMA SettleFinishes ==
  ASSUME ServiceInv, NEW f \in Frontends, Settle(f)
  PROVE  Unseen \/ \E d \in Docs : Client!Finish(d, "interrupted")
<1>1. StoreInv(f) /\ StoreType BY DEF ServiceInv, TypeInv
<1>2. CASE UNCHANGED results BY <1>2 DEF Settle, Unseen, history
<1>3. CASE \E d \in mem[f].admissions \ mem[f].results :
             Publishable(d) /\ results' = [results EXCEPT ![d] = "interrupted"]
  <2>1. PICK d \in Docs : /\ admissions[d] # None /\ results[d] = None
                          /\ results' = [results EXCEPT ![d] = "interrupted"]
    BY <1>1, <1>3 DEF Settle, StoreInv, Admitted, Publishable
  <2>2. UNCHANGED <<admissions, dispatched>> BY DEF Settle, history
  <2> QED BY <1>1, <2>1, <2>2, PublishFinishes
<1> QED BY <1>2, <1>3 DEF Settle

(* So does giving up.                                                       *)
LEMMA GiveUpFinishes ==
  ASSUME ServiceInv, NEW f \in Frontends, GivesUp(f)
  PROVE  Unseen \/ \E d \in Docs : Client!Finish(d, "interrupted")
<1>1. StoreInv(f) /\ StoreType BY DEF ServiceInv, TypeInv
<1>2. UNCHANGED <<admissions, dispatched>> BY DEF GivesUp
<1>3. CASE results' = results BY <1>2, <1>3 DEF Unseen
<1>4. CASE /\ mem[f].active \in Docs /\ results[mem[f].active] = None
           /\ results' = [results EXCEPT ![mem[f].active] = "interrupted"]
  <2>1. admissions[mem[f].active] # None BY <1>1, <1>4, ServiceAssumption DEF StoreInv
  <2> QED BY <1>1, <1>2, <1>4, <2>1, PublishFinishes
<1> QED BY <1>3, <1>4 DEF GivesUp, GivenUp, Published

(* No other step is seen by the client.                                     *)
LEMMA OthersUnseen ==
  ASSUME TypeInv, NEW f \in Frontends, Steps(f)
  PROVE  \/ Unseen \/ Dispatch(f) \/ WatchResult(f) \/ Settle(f) \/ GivesUp(f)
         \/ \E d \in Docs : Admit(f, d)
<1> USE DEF Unseen, disk, history
<1>1. CASE Starting(f) \/ Ends(f) BY <1>1, EdgeSteps
<1>2. CASE Recovering(f)
  BY <1>2 DEF Recovering, CleanEpoch, EpochRemoved, EpochsClean, Load, DropOldStop
<1>3. CASE Spawns(f)
  BY <1>3 DEF Spawns, MakeEpoch, WriteEpoch, SpawnWorker, NameWorker, RegisterWorker
<1>4. CASE Serves(f)
  BY <1>4 DEF Serves, Reported, StoreFull, TickBegins, WatchIdle, WatchEvent, FreeSlot,
     ReapIdle, Cleans, Reaped, DrainEnds, AsksToClose, DrainWaits, TickEnds, Interrupt
<1> QED BY <1>1, <1>2, <1>3, <1>4 DEF Steps

(* The store's records are tickets: one run, one terminal record, for ever. *)
THEOREM TicketsImplemented == Spec => ImplementsTickets
<1>1. ServiceInv /\ [Next]_vars => [Client!Next]_Client!vars
  <2> SUFFICES ASSUME ServiceInv, [Next]_vars PROVE [Client!Next]_Client!vars OBVIOUS
  <2>1. TypeInv /\ \A f \in Frontends : MemoryInv(f) BY DEF ServiceInv
  <2>2. CASE Unseen BY <2>2, UnseenStutters
  <2>3. ASSUME NEW f \in Frontends, Steps(f) PROVE [Client!Next]_Client!vars
    <3>1. ASSUME NEW d \in Docs, Admit(f, d) PROVE Client!Next
      BY <3>1, AdmitAdmits DEF Client!Next
    <3>2. CASE Dispatch(f) BY <3>2, DispatchRuns DEF Client!Next
    <3>3. CASE WatchResult(f) BY <3>3, ResultFinishes DEF Client!Next
    <3>4. CASE Settle(f)
      BY <2>2, <3>4, SettleFinishes DEF Client!Next, Client!Terminal
    <3>5. CASE GivesUp(f)
      BY <2>2, <3>5, GiveUpFinishes DEF Client!Next, Client!Terminal
    <3> QED BY <2>1, <2>2, <2>3, <3>1, <3>2, <3>3, <3>4, <3>5, OthersUnseen
  <2>4. CASE Beside BY <2>2, <2>4, BesideStays DEF Unseen
  <2> QED BY <2>1, <2>3, <2>4, NextSteps DEF Steps
<1> QED BY <1>1, InitTickets, ServiceInvariant, PTL DEF Spec, ImplementsTickets, Client!Spec

=============================================================================
