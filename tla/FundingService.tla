--------------------------- MODULE FundingService ---------------------------
(***************************************************************************)
(* The extraction service (examples/funding-service): frontends that own a *)
(* store one after the other, the worker process each of them supervises,  *)
(* the store's files, and whoever starts, kills and stops frontends.       *)
(*                                                                         *)
(* A frontend is one thread of R. `pc` says where it is between two file   *)
(* operations or two callbacks; it can be killed anywhere, and its memory  *)
(* is lost then. Process identities are exact (pid and birth), so a        *)
(* frontend or an epoch names one process for ever.                        *)
(***************************************************************************)
EXTENDS Naturals, FiniteSets

CONSTANTS Frontends,         \* the frontend processes ever started
          Epochs,            \* the worker processes ever started
          Docs,              \* the documents' identifiers
          None,
          RestartAttempts,   \* limits$restart_attempts
          Failures,          \* the kinds of failure that may happen
          MaxMishaps,        \* the bound on their number
          MaxStops           \* the bound on the uses of stop.R

ASSUME ServiceAssumption ==
    /\ None \notin Frontends \cup Epochs \cup Docs
    /\ None \notin {"success", "error", "interrupted"}
    /\ {"init", "close"} \cap (Docs \cup {None}) = {}
    /\ RestartAttempts \in Nat \ {0}
    /\ MaxMishaps \in Nat
    /\ MaxStops \in Nat

VARIABLES guard,        \* who made .ownership-guard
          lock,         \* store.lock: whether it is there, and its owner.json
          epochDir,     \* runtime/<epoch>: its directory and its owner.json
          admissions,   \* admissions/: the worker epoch of each record
          results,      \* results/: the state of each terminal record
          stopFile,     \* stop.json: the frontend it names
          maker,        \* the frontend in an epoch's owner.json, the worker's parent
          worker,       \* the worker processes
          call,         \* what a worker was called with and was not read back yet
          reply,        \* what it answered
          pc,           \* where a frontend is
          seen,         \* the owner.json a starting frontend read
          mem,          \* a frontend's environment e
          asker,        \* the frontend a running stop.R has read from the lock
          stops,        \* how often stop.R has been run
          interrupted,  \* the frontends that were interrupted, each once at most
          dispatched,   \* history: how often a document was given to a worker
          expired,      \* history: documents whose work was retired
          mishaps       \* how many failures there have been

disk == <<guard, lock, epochDir, admissions, results, stopFile>>
workers == <<maker, worker, call, reply>>
stopper == <<asker, stops>>
history == <<interrupted, dispatched, expired>>
vars == <<disk, workers, pc, seen, mem, stopper, history, mishaps>>

-----------------------------------------------------------------------------
NoLock == [there |-> FALSE, frontend |-> None, worker |-> None]
BareLock == [NoLock EXCEPT !.there = TRUE]      \* no owner.json in it
OwnedBy(f, w) == [there |-> TRUE, frontend |-> f, worker |-> w]

\* e as svc_run sets it up. `epoch` is e$epoch, `handle` that e$worker is not
\* NULL, `named` that e$worker_identity is not.
Blank == [state |-> "starting", operation |-> "idle", active |-> None,
          epoch |-> None, handle |-> FALSE, named |-> FALSE, retiring |-> FALSE,
          storage |-> FALSE, failures |-> 0, locked |-> FALSE, ticking |-> TRUE,
          admissions |-> {}, results |-> {}]

Opening == {"look", "judge", "swap", "relock", "record", "unguard", "epochs",
            "unlinked", "load", "settle", "stopfile"}
Spawning == {"mkdir", "epochfile", "spawn", "identify", "register"}
Ticking == {"watch", "logged", "reap", "reaped", "drain", "sample"}
Places == {"new", "guard", "abort", "dispatch", "report", "serve", "leave", "unlock", "tidy",
           "gone"} \cup Opening \cup Spawning \cup Ticking

\* svc_alive() of a frontend and of a worker.
Alive(f) == pc[f] \notin {"new", "gone"}
Up(w) == worker[w] = "up"

\* The frontend's loop is running (svc_run after the store was opened).
Serving(f) == pc[f] \in {"serve", "dispatch", "report"} \cup Ticking \cup Spawning

Mishap(kind) == kind \in Failures /\ mishaps < MaxMishaps

Init ==
    /\ guard = None
    /\ lock = NoLock
    /\ epochDir = [w \in Epochs |-> "absent"]
    /\ admissions = [d \in Docs |-> None]
    /\ results = [d \in Docs |-> None]
    /\ stopFile = None
    /\ maker = [w \in Epochs |-> None]
    /\ worker = [w \in Epochs |-> "unborn"]
    /\ call = [w \in Epochs |-> None]
    /\ reply = [w \in Epochs |-> None]
    /\ pc = [f \in Frontends |-> "new"]
    /\ seen = [f \in Frontends |-> NoLock]
    /\ mem = [f \in Frontends |-> Blank]
    /\ asker = None /\ stops = 0
    /\ interrupted = {} /\ expired = {}
    /\ dispatched = [d \in Docs |-> 0]
    /\ mishaps = 0

Goto(f, place) == pc' = [pc EXCEPT ![f] = place]
Set(f, m) == mem' = [mem EXCEPT ![f] = m]

-----------------------------------------------------------------------------
\* svc_store_open().

Start(f) ==
    /\ pc[f] = "new"
    /\ Goto(f, "guard")
    /\ UNCHANGED <<disk, workers, seen, mem, stopper, history, mishaps>>

\* All starters take the guard; who does not get it gives up.
TakeGuard(f) ==
    /\ pc[f] = "guard"
    /\ IF guard = None THEN guard' = f /\ Goto(f, "look")
                       ELSE UNCHANGED guard /\ Goto(f, "gone")
    /\ UNCHANGED <<lock, epochDir, admissions, results, stopFile, workers, seen, mem,
                   stopper, history, mishaps>>

\* A lock without a readable owner.json is corrupt.
LookAtLock(f) ==
    /\ pc[f] = "look"
    /\ IF ~lock.there
         THEN /\ lock' = BareLock
              /\ Set(f, [mem[f] EXCEPT !.locked = TRUE])
              /\ Goto(f, "record")
              /\ UNCHANGED seen
         ELSE /\ IF lock.frontend = None
                   THEN Goto(f, "abort") /\ UNCHANGED seen
                   ELSE Goto(f, "judge") /\ seen' = [seen EXCEPT ![f] = lock]
              /\ UNCHANGED <<lock, mem>>
    /\ UNCHANGED <<guard, epochDir, admissions, results, stopFile, workers,
                   stopper, history, mishaps>>

\* Operators named Mutant... are not part of the system. Each is a definition with
\* a fault that a property has to see; this one forgets to look at the old owner.
MutantOwnerDead(f) == TRUE

\* The owner and the worker that the lock named when it was read.
OwnerDead(f) == ~Alive(seen[f].frontend)

WorkerDead(f) == \A w \in Epochs : seen[f].worker = w => ~Up(w)

\* A live owner is left alone. The previous worker is given time to die; the
\* frontend goes on when it is dead and may give up before.
Judge(f) ==
    /\ pc[f] = "judge"
    /\ \/ OwnerDead(f) /\ WorkerDead(f) /\ Goto(f, "swap")
       \/ ~(OwnerDead(f) /\ WorkerDead(f)) /\ Goto(f, "abort")
    /\ seen' = [seen EXCEPT ![f] = NoLock]
    /\ UNCHANGED <<disk, workers, mem, stopper, history, mishaps>>

\* The old lock is renamed away and a new one made.
SwapLock(f) ==
    /\ pc[f] = "swap"
    /\ lock' = NoLock
    /\ Goto(f, IF lock.there THEN "relock" ELSE "abort")
    /\ UNCHANGED <<guard, epochDir, admissions, results, stopFile, workers, seen, mem,
                   stopper, history, mishaps>>

Relock(f) ==
    /\ pc[f] = "relock"
    /\ IF lock.there
         THEN Goto(f, "abort") /\ UNCHANGED <<lock, mem>>
         ELSE /\ lock' = BareLock
              /\ Set(f, [mem[f] EXCEPT !.locked = TRUE])
              /\ Goto(f, "record")
    /\ UNCHANGED <<guard, epochDir, admissions, results, stopFile, workers, seen,
                   stopper, history, mishaps>>

RecordOwner(f) ==
    /\ pc[f] = "record"
    /\ lock' = OwnedBy(f, None)
    /\ Goto(f, "unguard")
    /\ UNCHANGED <<guard, epochDir, admissions, results, stopFile, workers, seen, mem,
                   stopper, history, mishaps>>

DropGuard(f) ==
    /\ pc[f] = "unguard"
    /\ guard' = None
    /\ Goto(f, "epochs")
    /\ UNCHANGED <<lock, epochDir, admissions, results, stopFile, workers, seen, mem,
                   stopper, history, mishaps>>

\* svc_epoch_clean(): the epoch of a named and dead worker of a dead frontend is
\* removed, its owner.json before the directory; any other stops the opening.
Removable(f, w) ==
    /\ epochDir[w] = "named"
    /\ ~Up(w)
    /\ maker[w] # f => ~Alive(maker[w])

CleanEpoch(f, w) ==
    /\ pc[f] = "epochs"
    /\ epochDir[w] # "absent"
    /\ IF Removable(f, w)
         THEN /\ epochDir' = [epochDir EXCEPT ![w] = "bare"]
              /\ Set(f, [mem[f] EXCEPT !.epoch = w])
              /\ Goto(f, "unlinked")
         ELSE Goto(f, "abort") /\ UNCHANGED <<epochDir, mem>>
    /\ UNCHANGED <<guard, lock, admissions, results, stopFile, workers, seen,
                   stopper, history, mishaps>>

EpochRemoved(f) ==
    /\ pc[f] = "unlinked"
    /\ epochDir' = [epochDir EXCEPT ![mem[f].epoch] = "absent"]
    /\ Set(f, [mem[f] EXCEPT !.epoch = None])
    /\ Goto(f, "epochs")
    /\ UNCHANGED <<guard, lock, admissions, results, stopFile, workers, seen,
                   stopper, history, mishaps>>

EpochsClean(f) ==
    /\ pc[f] = "epochs"
    /\ \A w \in Epochs : epochDir[w] = "absent"
    /\ Goto(f, "load")
    /\ UNCHANGED <<disk, workers, seen, mem, stopper, history, mishaps>>

\* Only what is finished is remembered.
MutantAdmitted == {d \in Docs : results[d] # None}

Admitted == {d \in Docs : admissions[d] # None}

Finished == {d \in Docs : results[d] # None}

\* A terminal record without its admission stops the opening.
Load(f) ==
    /\ pc[f] = "load"
    /\ IF Finished \subseteq Admitted
         THEN /\ Set(f, [mem[f] EXCEPT !.admissions = Admitted, !.results = Finished])
              /\ Goto(f, "settle")
         ELSE Goto(f, "abort") /\ UNCHANGED mem
    /\ UNCHANGED <<disk, workers, seen, stopper, history, mishaps>>

\* app_write_atomic() as it is called for records that may be replaced.
MutantPublishable(d) == TRUE

\* app_write_atomic() refuses to replace a committed record.
Publishable(d) == results[d] = None

\* Every admission without a terminal record is published as interrupted.
Settle(f) ==
    /\ pc[f] = "settle"
    /\ LET open == mem[f].admissions \ mem[f].results
       IN IF open = {} THEN Goto(f, "stopfile") /\ UNCHANGED <<results, mem>>
          ELSE \E d \in open :
                 /\ Publishable(d)
                 /\ results' = [results EXCEPT ![d] = "interrupted"]
                 /\ Set(f, [mem[f] EXCEPT !.results = @ \cup {d}])
                 /\ UNCHANGED pc
    /\ UNCHANGED <<guard, lock, epochDir, admissions, stopFile, workers, seen,
                   stopper, history, mishaps>>

\* svc_run(): a stop record that is there by now is removed, then requests are
\* served and the first worker is started.
DropOldStop(f) ==
    /\ pc[f] = "stopfile"
    /\ stopFile' = None
    /\ Goto(f, "mkdir")
    /\ UNCHANGED <<guard, lock, epochDir, admissions, results, workers, seen, mem,
                   stopper, history, mishaps>>

\* An error of the file system, a changed identity or a port in use.
OpenFails(f) ==
    /\ pc[f] \in Opening
    /\ Mishap("open")
    /\ mishaps' = mishaps + 1
    /\ Goto(f, "abort")
    /\ seen' = [seen EXCEPT ![f] = NoLock]
    /\ UNCHANGED <<disk, workers, mem, stopper, history>>

\* The exit handlers of svc_store_open(); then those of svc_run().
Abort(f) ==
    /\ pc[f] = "abort"
    /\ guard' = IF guard = f THEN None ELSE guard
    /\ Goto(f, IF mem[f].locked THEN "leave" ELSE "gone")
    /\ UNCHANGED <<lock, epochDir, admissions, results, stopFile, workers, seen, mem,
                   stopper, history, mishaps>>

-----------------------------------------------------------------------------
\* svc_retire(): the worker's work is given up. What is active is published as
\* interrupted; a publication that fails, or meets a record that is there
\* already, is a storage failure. A worker that did not come up counts against
\* the restarts of the window, from which older ones may have dropped out. The
\* kill takes effect by and by (WorkerDies). `m` is the memory before.
Retired(m) ==
    LET counted == m.operation = "initialization"
    IN {[m EXCEPT !.retiring = TRUE,
                  !.state = IF counted /\ k + 1 >= RestartAttempts THEN "faulted"
                            ELSE IF @ \in {"stopping", "faulted"} THEN @ ELSE "starting",
                  !.failures = IF counted THEN k + 1 ELSE @]
          : k \in IF counted THEN 0 .. m.failures ELSE {m.failures}}

Retire(f, m, cost) ==
    LET work == {m.active} \ {None}     \* at most one document
        lost == {d \in work : results[d] = None}
    IN
    IF m.retiring THEN Set(f, m) /\ mishaps' = mishaps + cost /\ UNCHANGED <<results, expired>>
    ELSE
      /\ expired' = expired \cup lost
      /\ \E n \in Retired(m) :
          \/ /\ m.active = None \/ m.storage
             /\ Set(f, n) /\ mishaps' = mishaps + cost
             /\ UNCHANGED results
          \/ /\ ~m.storage
             /\ \E d \in work :
                  /\ Publishable(d)
                  /\ results' = [results EXCEPT ![d] = "interrupted"]
                  /\ Set(f, [n EXCEPT !.active = None, !.results = @ \cup {d}])
             /\ mishaps' = mishaps + cost
          \/ /\ ~m.storage
             /\ \E d \in work :
                  \/ ~Publishable(d) /\ mishaps' = mishaps + cost
                  \/ /\ "storage" \in Failures /\ mishaps + cost < MaxMishaps
                     /\ mishaps' = mishaps + cost + 1
             /\ Set(f, [n EXCEPT !.storage = TRUE, !.state = "faulted"])
             /\ UNCHANGED results

\* The error handler of svc_tick(): a failure of the file system is remembered.
TickError(f, m, storage, cost) ==
    /\ Retire(f, [m EXCEPT !.storage = @ \/ storage, !.state = "faulted"], cost)
    /\ Goto(f, "serve")

-----------------------------------------------------------------------------
\* svc_start_worker().

MakeEpoch(f, w) ==
    /\ pc[f] = "mkdir"
    /\ worker[w] = "unborn" /\ maker[w] = None
    /\ maker' = [maker EXCEPT ![w] = f]
    /\ epochDir' = [epochDir EXCEPT ![w] = "bare"]
    /\ Set(f, [mem[f] EXCEPT !.named = FALSE, !.operation = "initialization", !.epoch = w,
                             !.retiring = FALSE, !.state = "starting"])
    /\ Goto(f, "epochfile")
    /\ UNCHANGED <<guard, lock, admissions, results, stopFile, worker, call, reply, seen,
                   stopper, history, mishaps>>

\* owner.json of the epoch, which does not name its worker yet.
WriteEpoch(f) ==
    /\ pc[f] = "epochfile"
    /\ epochDir' = [epochDir EXCEPT ![mem[f].epoch] = "made"]
    /\ Goto(f, "spawn")
    /\ UNCHANGED <<guard, lock, admissions, results, stopFile, workers, seen, mem,
                   stopper, history, mishaps>>

\* The new process answers its start with 201, upon which it is called to
\* initialize itself; the two are one call here.
SpawnWorker(f) ==
    /\ pc[f] = "spawn"
    /\ worker' = [worker EXCEPT ![mem[f].epoch] = "up"]
    /\ call' = [call EXCEPT ![mem[f].epoch] = "init"]
    /\ Set(f, [mem[f] EXCEPT !.handle = TRUE])
    /\ Goto(f, "identify")
    /\ UNCHANGED <<disk, maker, reply, seen, stopper, history, mishaps>>

NameWorker(f) ==
    /\ pc[f] = "identify"
    /\ epochDir' = [epochDir EXCEPT ![mem[f].epoch] = "named"]
    /\ Set(f, [mem[f] EXCEPT !.named = TRUE])
    /\ Goto(f, "register")
    /\ UNCHANGED <<guard, lock, admissions, results, stopFile, workers, seen,
                   stopper, history, mishaps>>

RegisterWorker(f) ==
    /\ pc[f] = "register"
    /\ lock' = OwnedBy(f, mem[f].epoch)
    /\ Goto(f, "drain")
    /\ UNCHANGED <<guard, epochDir, admissions, results, stopFile, workers, seen, mem,
                   stopper, history, mishaps>>

\* A failure anywhere in it leaves what was made so far. Nothing is active here,
\* so that what kind of failure it was makes no difference.
SpawnFails(f) ==
    /\ pc[f] \in Spawning
    /\ Mishap("spawn")
    /\ TickError(f, mem[f], FALSE, 1)
    /\ UNCHANGED <<guard, lock, epochDir, admissions, stopFile, workers, seen, stopper,
                   interrupted, dispatched>>

-----------------------------------------------------------------------------
\* The worker process. It dies when its frontend kills it or is gone (the
\* supervisor), or of itself.

WorkerAnswers(w) ==
    /\ Up(w) /\ call[w] # None /\ reply[w] = None
    /\ \E answer \in CASE call[w] = "init"  -> {"ready"}
                      [] call[w] = "close" -> {"closed"}
                      [] OTHER             -> {"success", "error"} :
         reply' = [reply EXCEPT ![w] = answer]
    /\ UNCHANGED <<disk, maker, worker, call, pc, seen, mem, stopper, history, mishaps>>

\* A raw condition, a failed initialization, another document or another epoch.
WorkerMisanswers(w) ==
    /\ Up(w) /\ call[w] # None /\ reply[w] = None
    /\ Mishap("worker")
    /\ mishaps' = mishaps + 1
    /\ reply' = [reply EXCEPT ![w] = "bad"]
    /\ UNCHANGED <<disk, maker, worker, call, pc, seen, mem, stopper, history>>

Condemned(w) ==
    /\ maker[w] # None
    /\ Alive(maker[w]) => mem[maker[w]].epoch = w /\ mem[maker[w]].retiring

WorkerDies(w) ==
    /\ Up(w)
    /\ \/ Condemned(w) /\ UNCHANGED mishaps
       \/ ~Condemned(w) /\ Mishap("worker") /\ mishaps' = mishaps + 1
    /\ worker' = [worker EXCEPT ![w] = "dead"]
    /\ call' = [call EXCEPT ![w] = None]
    /\ reply' = [reply EXCEPT ![w] = None]
    /\ UNCHANGED <<disk, maker, pc, seen, mem, stopper, history>>

-----------------------------------------------------------------------------
\* Requests, between two ticks (svc_admit). Repeated and refused requests change
\* nothing.

Admissible(f, d) ==
    /\ pc[f] = "serve"
    /\ d \notin mem[f].admissions
    /\ mem[f].state = "ready" /\ mem[f].active = None

Reserved(m, d) == [m EXCEPT !.state = "busy", !.operation = "request", !.active = d,
                            !.admissions = @ \cup {d}]

\* The admission is published before the document is given to the worker.
Admit(f, d) ==
    /\ Admissible(f, d)
    /\ admissions[d] = None
    /\ admissions' = [admissions EXCEPT ![d] = mem[f].epoch]
    /\ Set(f, Reserved(mem[f], d))
    /\ Goto(f, "dispatch")
    /\ UNCHANGED <<guard, lock, epochDir, results, stopFile, workers, seen, stopper,
                   history, mishaps>>

AdmitFails(f, d) ==
    /\ Admissible(f, d)
    /\ Mishap("storage")
    /\ \E storage \in BOOLEAN : TickError(f, mem[f], storage, 1)
    /\ UNCHANGED <<guard, lock, epochDir, admissions, stopFile, workers, seen, stopper,
                   interrupted, dispatched>>

Dispatch(f) ==
    /\ pc[f] = "dispatch"
    /\ Up(mem[f].epoch)
    /\ call' = [call EXCEPT ![mem[f].epoch] = mem[f].active]
    /\ dispatched' = [dispatched EXCEPT ![mem[f].active] = @ + 1]
    /\ Goto(f, "report")
    /\ UNCHANGED <<disk, maker, worker, reply, seen, mem, stopper, interrupted, expired,
                   mishaps>>

\* The event log and the status file are written, and the client gets its ticket.
Reported(f) ==
    /\ pc[f] = "report"
    /\ Goto(f, "serve")
    /\ UNCHANGED <<disk, workers, seen, mem, stopper, history, mishaps>>

\* The call fails, of necessity if the worker is dead, or the files after it. The
\* document stays admitted and is given up.
DispatchFails(f) ==
    /\ pc[f] \in {"dispatch", "report"}
    /\ \/ /\ pc[f] = "dispatch" /\ ~Up(mem[f].epoch)
          /\ TickError(f, mem[f], FALSE, 0)
       \/ /\ Mishap("storage")
          /\ \E storage \in BOOLEAN : TickError(f, mem[f], storage, 1)
    /\ UNCHANGED <<guard, lock, epochDir, admissions, stopFile, workers, seen, stopper,
                   interrupted, dispatched>>

\* The store is full, for an admission or for a line of diagnostics.
StoreFull(f) ==
    /\ pc[f] = "serve"
    /\ mem[f].state # "stopping"
    /\ Mishap("full")
    /\ mishaps' = mishaps + 1
    /\ Set(f, [mem[f] EXCEPT !.state = "faulted"])
    /\ UNCHANGED <<disk, workers, pc, seen, stopper, history>>

-----------------------------------------------------------------------------
\* svc_tick(), in the order of the code.

\* A faulted service is past stopping.
MutantBeginStop(m) == [m EXCEPT !.state = IF @ = "faulted" THEN @ ELSE "stopping"]

BeginStop(m) == [m EXCEPT !.state = "stopping"]

\* A stop record of another frontend is an error.
TickBegins(f) ==
    /\ pc[f] = "serve" /\ mem[f].ticking
    /\ stopFile \in {None, f}
    /\ Set(f, IF stopFile = f THEN BeginStop(mem[f]) ELSE mem[f])
    /\ Goto(f, "watch")
    /\ UNCHANGED <<disk, workers, seen, stopper, history, mishaps>>

ForeignStop(f) ==
    /\ pc[f] = "serve" /\ mem[f].ticking
    /\ stopFile \notin {None, f}
    /\ TickError(f, mem[f], FALSE, 0)
    /\ UNCHANGED <<guard, lock, epochDir, admissions, stopFile, workers, seen, stopper,
                   interrupted, dispatched>>

\* Answers of a retired epoch are read like any other.
MutantWatched(f) == mem[f].handle

\* The worker's output is read until it is retired.
Watched(f) == mem[f].handle /\ ~mem[f].retiring

\* Nothing to watch, or nothing has come yet.
WatchIdle(f) ==
    /\ pc[f] = "watch"
    /\ Watched(f) => Up(mem[f].epoch) /\ reply[mem[f].epoch] = None
    /\ Goto(f, "reap")
    /\ UNCHANGED <<disk, workers, seen, mem, stopper, history, mishaps>>

\* Its end is noticed when it answers.
MutantEnded(f) == FALSE

Ended(f) == ~Up(mem[f].epoch)

\* A raw condition, a failed initialization, the wrong document or epoch, or an
\* answer nobody waits for.
Misanswered(f) ==
    \/ reply[mem[f].epoch] = "bad"
    \/ reply[mem[f].epoch] \in {"success", "error"} /\ mem[f].active = None

\* The deadline, the diagnostic and the IPC limits, looked at before the worker
\* is; or the worker has ended, or answered against the protocol.
WatchRetires(f) ==
    /\ pc[f] = "watch" /\ Watched(f)
    /\ \/ Mishap("limit") /\ Retire(f, mem[f], 1)
       \/ (Ended(f) \/ Misanswered(f)) /\ Retire(f, mem[f], 0)
    /\ Goto(f, "reap")
    /\ UNCHANGED <<guard, lock, epochDir, admissions, stopFile, workers, seen, stopper,
                   interrupted, dispatched>>

\* The service is open again, whatever happened meanwhile.
MutantOpened(m) == [m EXCEPT !.operation = "idle", !.state = "ready"]

Opened(m) == [m EXCEPT !.operation = "idle",
                       !.state = IF @ \in {"stopping", "faulted"} THEN @ ELSE "ready"]

Read(w) ==
    /\ call' = [call EXCEPT ![w] = None]
    /\ reply' = [reply EXCEPT ![w] = None]

\* svc_worker_event() of an initialization or a shutdown that went well.
WatchEvent(f) ==
    /\ pc[f] = "watch" /\ Watched(f)
    /\ LET w == mem[f].epoch
       IN /\ Up(w)
          /\ \/ reply[w] = "ready" /\ Set(f, Opened(mem[f]))
             \/ reply[w] = "closed" /\ Set(f, [mem[f] EXCEPT !.retiring = TRUE])
          /\ Read(w)
    /\ Goto(f, "reap")
    /\ UNCHANGED <<disk, maker, worker, seen, stopper, history, mishaps>>

Answered(f) ==
    /\ pc[f] = "watch" /\ Watched(f)
    /\ Up(mem[f].epoch) /\ reply[mem[f].epoch] \in {"success", "error"}
    /\ mem[f].active # None

\* Of a request: the terminal record is published and exposed.
WatchResult(f) ==
    /\ Answered(f)
    /\ LET d == mem[f].active IN
         /\ Publishable(d)
         /\ results' = [results EXCEPT ![d] = reply[mem[f].epoch]]
         /\ Set(f, [mem[f] EXCEPT !.results = @ \cup {d}])
    /\ Read(mem[f].epoch)
    /\ Goto(f, "logged")
    /\ UNCHANGED <<guard, lock, epochDir, admissions, stopFile, maker, worker, seen, stopper,
                   history, mishaps>>

ResultFails(f) ==
    /\ Answered(f)
    /\ \/ ~Publishable(mem[f].active) /\ TickError(f, mem[f], FALSE, 0)
       \/ Mishap("storage") /\ \E storage \in BOOLEAN : TickError(f, mem[f], storage, 1)
    /\ Read(mem[f].epoch)
    /\ UNCHANGED <<guard, lock, epochDir, admissions, stopFile, maker, worker, seen, stopper,
                   interrupted, dispatched>>

\* After the event log the slot is free. A log that fails (TickFails) leaves the
\* document terminal and active.
FreeSlot(f) ==
    /\ pc[f] = "logged"
    /\ Set(f, [Opened(mem[f]) EXCEPT !.active = None])
    /\ Goto(f, "reap")
    /\ UNCHANGED <<disk, workers, seen, stopper, history, mishaps>>

\* A kill is taken for a death.
MutantDeathConfirmed(f) == TRUE

DeathConfirmed(f) == ~Up(mem[f].epoch)

\* A retired worker is given time to die (too long a time is a fault).
ReapIdle(f) ==
    /\ pc[f] = "reap"
    /\ \/ ~(mem[f].handle /\ mem[f].retiring) /\ UNCHANGED <<mem, mishaps>>
       \/ /\ mem[f].handle /\ mem[f].retiring /\ ~DeathConfirmed(f)
          /\ \/ UNCHANGED <<mem, mishaps>>
             \/ /\ Mishap("limit") /\ mishaps' = mishaps + 1
                /\ Set(f, [mem[f] EXCEPT !.state = "faulted"])
    /\ Goto(f, "drain")
    /\ UNCHANGED <<disk, workers, seen, stopper, history>>

\* The epoch of a dead worker is cleaned. One whose owner.json does not name the
\* worker, or is gone, is an error, at every tick.
Reap(f) ==
    /\ pc[f] = "reap"
    /\ mem[f].handle /\ mem[f].retiring /\ DeathConfirmed(f)
    /\ IF mem[f].named /\ epochDir[mem[f].epoch] = "named"
         THEN /\ epochDir' = [epochDir EXCEPT ![mem[f].epoch] = "bare"]
              /\ Goto(f, "reaped")
              /\ UNCHANGED <<mem, mishaps, results, expired>>
         ELSE UNCHANGED epochDir /\ TickError(f, mem[f], FALSE, 0)
    /\ UNCHANGED <<guard, lock, admissions, stopFile, workers, seen, stopper,
                   interrupted, dispatched>>

\* Then the worker is forgotten and replaced, unless the service is closed.
Reaped(f) ==
    /\ pc[f] = "reaped"
    /\ epochDir' = [epochDir EXCEPT ![mem[f].epoch] = "absent"]
    /\ Set(f, [mem[f] EXCEPT !.handle = FALSE, !.named = FALSE, !.retiring = FALSE,
                             !.operation = "idle"])
    /\ lock' = OwnedBy(f, None)
    /\ Goto(f, IF mem[f].state \in {"faulted", "stopping"} THEN "drain" ELSE "mkdir")
    /\ UNCHANGED <<guard, admissions, results, stopFile, workers, seen, stopper,
                   history, mishaps>>

\* The part of a tick about a stop: no worker is left; or the idle worker is asked
\* to close; or it is given up, because time is up or because it is busy with
\* something else than a request; or there is nothing to do but wait.
DrainEnds(f) ==
    /\ pc[f] = "drain"
    /\ mem[f].state = "stopping" /\ ~mem[f].handle
    /\ Set(f, [mem[f] EXCEPT !.state = "stopped"])
    /\ Goto(f, "leave")
    /\ UNCHANGED <<disk, workers, seen, stopper, history, mishaps>>

DrainShutdown(f) ==
    /\ pc[f] = "drain"
    /\ mem[f].state = "stopping" /\ Watched(f)
    /\ mem[f].active = None /\ mem[f].operation = "idle"
    /\ IF Up(mem[f].epoch)
         THEN /\ call' = [call EXCEPT ![mem[f].epoch] = "close"]
              /\ Set(f, [mem[f] EXCEPT !.operation = "shutdown"])
              /\ Goto(f, "sample")
              /\ UNCHANGED <<mishaps, results, expired>>
         ELSE /\ TickError(f, [mem[f] EXCEPT !.operation = "shutdown"], FALSE, 0)
              /\ UNCHANGED call
    /\ UNCHANGED <<guard, lock, epochDir, admissions, stopFile, maker, worker, reply, seen,
                   stopper, interrupted, dispatched>>

DrainRetires(f) ==
    /\ pc[f] = "drain"
    /\ mem[f].state = "stopping" /\ Watched(f)
    /\ Retire(f, mem[f], 0)
    /\ Goto(f, "sample")
    /\ UNCHANGED <<guard, lock, epochDir, admissions, stopFile, workers, seen, stopper,
                   interrupted, dispatched>>

DrainWaits(f) ==
    /\ pc[f] = "drain"
    /\ \/ mem[f].state # "stopping"
       \/ mem[f].retiring /\ mem[f].handle
       \/ mem[f].handle /\ (mem[f].active # None \/ mem[f].operation = "shutdown")
    /\ Goto(f, "sample")
    /\ UNCHANGED <<disk, workers, seen, mem, stopper, history, mishaps>>

\* svc_rss() and the status file end the tick; the next one is scheduled.
TickEnds(f) ==
    /\ pc[f] = "sample"
    /\ Goto(f, "serve")
    /\ UNCHANGED <<disk, workers, seen, mem, stopper, history, mishaps>>

MemoryLimit(f) ==
    /\ pc[f] = "sample"
    /\ Mishap("memory")
    /\ Retire(f, [mem[f] EXCEPT !.state = "faulted"], 1)
    /\ Goto(f, "serve")
    /\ UNCHANGED <<guard, lock, epochDir, admissions, stopFile, workers, seen, stopper,
                   interrupted, dispatched>>

TickFails(f) ==
    /\ pc[f] \in Ticking
    /\ Mishap("tick")
    /\ \E storage \in BOOLEAN : TickError(f, mem[f], storage, 1)
    /\ UNCHANGED <<guard, lock, epochDir, admissions, stopFile, workers, seen, stopper,
                   interrupted, dispatched>>

\* The user's interrupt begins a stop. One that lands in a tick abandons it, and
\* the line that schedules the next one is not reached.
Interrupt(f) ==
    /\ pc[f] \in {"serve", "dispatch", "report"} \cup Ticking
    /\ "interrupt" \in Failures /\ f \notin interrupted
    /\ interrupted' = interrupted \cup {f}
    /\ Set(f, [mem[f] EXCEPT !.state = "stopping",
                             !.ticking = pc[f] \notin Ticking])
    /\ Goto(f, "serve")
    /\ UNCHANGED <<disk, workers, seen, stopper, dispatched, expired, mishaps>>

-----------------------------------------------------------------------------
\* The exit handler of svc_run(): the lock is removed, its owner.json first, if
\* it still is this frontend's; then any stop record.

Leave(f) ==
    /\ pc[f] = "leave"
    /\ IF lock.frontend = f THEN lock' = BareLock /\ Goto(f, "unlock")
                            ELSE UNCHANGED lock /\ Goto(f, "tidy")
    /\ UNCHANGED <<guard, epochDir, admissions, results, stopFile, workers, seen, mem,
                   stopper, history, mishaps>>

Unlock(f) ==
    /\ pc[f] = "unlock"
    /\ lock' = NoLock
    /\ Goto(f, "tidy")
    /\ UNCHANGED <<guard, epochDir, admissions, results, stopFile, workers, seen, mem,
                   stopper, history, mishaps>>

Tidy(f) ==
    /\ pc[f] = "tidy"
    /\ stopFile' = None
    /\ Goto(f, "gone")
    /\ Set(f, Blank)
    /\ UNCHANGED <<guard, lock, epochDir, admissions, results, workers, seen, stopper,
                   history, mishaps>>

\* SIGKILL.
Crash(f) ==
    /\ Alive(f)
    /\ "crash" \in Failures
    /\ Goto(f, "gone")
    /\ Set(f, Blank)
    /\ seen' = [seen EXCEPT ![f] = NoLock]
    /\ UNCHANGED <<disk, workers, stopper, history, mishaps>>

\* The operator removes the guard of a frontend that died with it.
Inspect ==
    /\ guard # None /\ ~Alive(guard)
    /\ guard' = None
    /\ UNCHANGED <<lock, epochDir, admissions, results, stopFile, workers, pc, seen, mem,
                   stopper, history, mishaps>>

\* svc_stop(): the owner is read from the lock, and if it is alive a record for
\* it is written.
StopReads ==
    /\ asker = None /\ stops < MaxStops
    /\ lock.frontend # None /\ Alive(lock.frontend)
    /\ asker' = lock.frontend
    /\ stops' = stops + 1
    /\ UNCHANGED <<disk, workers, pc, seen, mem, history, mishaps>>

StopWrites ==
    /\ asker # None
    /\ stopFile' = asker
    /\ asker' = None
    /\ UNCHANGED <<guard, lock, epochDir, admissions, results, workers, pc, seen, mem, stops,
                   history, mishaps>>

-----------------------------------------------------------------------------
Open(f) ==
    \/ TakeGuard(f) \/ LookAtLock(f) \/ Judge(f) \/ SwapLock(f) \/ Relock(f)
    \/ RecordOwner(f) \/ DropGuard(f) \/ EpochRemoved(f) \/ EpochsClean(f) \/ Load(f)
    \/ \E w \in Epochs : CleanEpoch(f, w)
    \/ Settle(f) \/ DropOldStop(f) \/ OpenFails(f) \/ Abort(f)

StartWorker(f) ==
    \/ \E w \in Epochs : MakeEpoch(f, w)
    \/ WriteEpoch(f) \/ SpawnWorker(f) \/ NameWorker(f) \/ RegisterWorker(f) \/ SpawnFails(f)

Serve(f) ==
    \/ Dispatch(f) \/ Reported(f) \/ DispatchFails(f)
    \/ TickBegins(f) \/ ForeignStop(f)
    \/ WatchIdle(f) \/ WatchRetires(f) \/ WatchEvent(f) \/ WatchResult(f) \/ ResultFails(f) \/ FreeSlot(f)
    \/ ReapIdle(f) \/ Reap(f) \/ Reaped(f)
    \/ DrainEnds(f) \/ DrainShutdown(f) \/ DrainRetires(f) \/ DrainWaits(f)
    \/ TickEnds(f) \/ MemoryLimit(f) \/ TickFails(f)

Close(f) == Leave(f) \/ Unlock(f) \/ Tidy(f)

FrontendStep(f) == Open(f) \/ StartWorker(f) \/ Serve(f) \/ Close(f)

Environment(f) ==
    \/ Start(f) \/ Crash(f) \/ Interrupt(f) \/ StoreFull(f)
    \/ \E d \in Docs : Admit(f, d) \/ AdmitFails(f, d)

WorkerStep(w) == WorkerAnswers(w) \/ WorkerMisanswers(w) \/ WorkerDies(w)

Next ==
    \/ \E f \in Frontends : FrontendStep(f) \/ Environment(f)
    \/ \E w \in Epochs : WorkerStep(w)
    \/ Inspect \/ StopReads \/ StopWrites

Spec == Init /\ [][Next]_vars

\* R runs its frontend, a worker answers in the end or is retired at its
\* deadline, and a killed worker dies.
FairSpec ==
    /\ Spec
    /\ \A f \in Frontends : WF_vars(FrontendStep(f))
    /\ \A w \in Epochs : WF_vars(WorkerAnswers(w)) /\ WF_vars(Condemned(w) /\ WorkerDies(w))
    /\ WF_vars(StopWrites)

-----------------------------------------------------------------------------
\* What the variables hold. The bound on the failures is the limit of a service
\* whose worker never comes up: after RestartAttempts of them it starts no other.
TypeOK ==
    /\ guard \in Frontends \cup {None}
    /\ lock \in [there : BOOLEAN, frontend : Frontends \cup {None}, worker : Epochs \cup {None}]
    /\ epochDir \in [Epochs -> {"absent", "bare", "made", "named"}]
    /\ admissions \in [Docs -> Epochs \cup {None}]
    /\ results \in [Docs -> {None, "success", "error", "interrupted"}]
    /\ stopFile \in Frontends \cup {None}
    /\ maker \in [Epochs -> Frontends \cup {None}]
    /\ worker \in [Epochs -> {"unborn", "up", "dead"}]
    /\ call \in [Epochs -> {None, "init", "close"} \cup Docs]
    /\ reply \in [Epochs -> {None, "ready", "closed", "success", "error", "bad"}]
    /\ pc \in [Frontends -> Places]
    /\ asker \in Frontends \cup {None}
    /\ \A f \in Frontends :
         /\ mem[f].state \in {"starting", "ready", "busy", "faulted", "stopping", "stopped"}
         /\ mem[f].operation \in {"idle", "initialization", "request", "shutdown"}
         /\ mem[f].active \in Docs \cup {None}
         /\ mem[f].epoch \in Epochs \cup {None}
         /\ mem[f].failures \in 0 .. RestartAttempts
    /\ mishaps \in 0 .. MaxMishaps

\* Two workers never run at the same time, whoever started them: a new one is
\* started after the death of the old one was confirmed, over crashes of the
\* frontend between any two steps of the old one's start and removal.
OneWorker == \A v, w \in Epochs : Up(v) /\ Up(w) => v = w

\* The store has one owner. A starter that acts on a lock it read before the owner
\* changed it does not become a second one.
Holds(f) == Alive(f) /\ mem[f].locked /\ pc[f] # "tidy"
OneOwner == \A f, g \in Frontends : Holds(f) /\ Holds(g) => f = g

\* Work that was given up does not commit: an answer that comes after the
\* deadline, a fault or a stop decided against it never becomes the result, in
\* this frontend or a later one.
LateNeverCommits == \A d \in expired : results[d] \notin {"success", "error"}

\* No accepted document is forgotten: while a frontend serves, the only one without
\* a terminal record is the one it is working on.
NoneForgotten ==
    \A f \in Frontends, d \in Docs :
        Serving(f) /\ admissions[d] # None => results[d] # None \/ mem[f].active = d

\* A fault or a stop closes admission for the rest of the frontend's life.
Closed(f) == mem[f].state \in {"faulted", "stopping", "stopped"}
ClosedStaysClosed ==
    [][\A f \in Frontends : Closed(f) => Closed(f)' \/ ~Alive(f)']_vars

\* The client's view of it all: one run, one terminal record, for ever.
ticket == [d \in Docs |-> IF results[d] # None THEN results[d]
                          ELSE IF admissions[d] # None THEN "accepted" ELSE "unknown"]
Client == INSTANCE Tickets WITH runs <- dispatched
ImplementsTickets == Client!Spec

\* What a frontend works on gets its terminal record, unless the frontend is killed
\* or its storage fails: no lost answer, dead worker or fault keeps it waiting.
AdmittedEnds ==
    \A f \in Frontends, d \in Docs :
        (Alive(f) /\ mem[f].active = d)
            ~> (results[d] # None \/ ~Alive(f) \/ mem[f].storage)

\* A serving frontend with a stop record that names it ends, with its worker, unless
\* another removes the record. (One written before it serves is lost: DropOldStop.)
StopHeeded ==
    \A f \in Frontends :
        (stopFile = f /\ pc[f] = "serve")
            ~> IF Alive(f) THEN stopFile # f
                           ELSE \A w \in Epochs : maker[w] = f => ~Up(w)

=============================================================================
